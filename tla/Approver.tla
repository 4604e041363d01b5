------------------------------ MODULE Approver ------------------------------
(***************************************************************************)
(* What the interface approval.Approver promises its callers: a gated      *)
(* statement that asks is answered, and the answer is "approved" only if   *)
(* somebody entitled to decide approved that very request first; every     *)
(* other way out (nobody decided, the deadline passed, the service went    *)
(* away) is a denial.  Implementations "must fail closed (deny) on error   *)
(* or timeout".                                                            *)
(***************************************************************************)
CONSTANT Requests      \* calls of Approve, identified by Request.ID

VARIABLES
    answer,            \* what each caller of Approve has been told
    verdict            \* the first decision taken on each request

vars == <<answer, verdict>>

Verdicts == {"approve", "deny"}

Init ==
    /\ answer  = [r \in Requests |-> "idle"]
    /\ verdict = [r \in Requests |-> "none"]

\* A session calls Approve and waits.
Ask(r) ==
    /\ answer[r] = "idle"
    /\ answer' = [answer EXCEPT ![r] = "asked"]
    /\ UNCHANGED verdict

\* The first decision on a request; it may come too late to matter.
Decree(r, v) ==
    /\ answer[r] # "idle"
    /\ verdict[r] = "none"
    /\ verdict' = [verdict EXCEPT ![r] = v]
    /\ UNCHANGED answer

\* Approve returns Decision{Approved: true}: only on an explicit approval.
Grant(r) ==
    /\ answer[r] = "asked"
    /\ verdict[r] = "approve"
    /\ answer' = [answer EXCEPT ![r] = "approved"]
    /\ UNCHANGED verdict

\* Approve returns Decision{Approved: false}: always allowed.
Refuse(r) ==
    /\ answer[r] = "asked"
    /\ answer' = [answer EXCEPT ![r] = "denied"]
    /\ UNCHANGED verdict

Next ==
    \E r \in Requests :
        \/ Ask(r)
        \/ \E v \in Verdicts : Decree(r, v)
        \/ Grant(r)
        \/ Refuse(r)

\* The safety part: what the proofs establish of an implementation.
SafeSpec == Init /\ [][Next]_vars

\* The full promise: whoever asks is answered.
Spec == SafeSpec /\ \A r \in Requests : WF_vars(Grant(r) \/ Refuse(r))
=============================================================================
