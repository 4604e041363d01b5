---------------------------- MODULE HttpApprover ----------------------------
(***************************************************************************)
(* The HTTP approver (internal/approval/approval.go).  Approve posts the   *)
(* request to a hook, a service outside the proxy, and reads its decision  *)
(* under one deadline.  The network may refuse the connection, lose the    *)
(* request or the answer, or cut the answer short; the hook may answer     *)
(* late, with an error status, or with a body that is no decision.         *)
(***************************************************************************)
CONSTANT Requests      \* calls of Approve

VARIABLES
    call,              \* where each call of Approve is
    hook,              \* what the hook did with each request: its response
    decision            \* the Decision each call returns; "none" until it has one

vars == <<call, hook, decision>>

Verdicts == {"approve", "deny"}

\* A response: its status is 2xx or not; its body is a whole decision or one
\* whose decoding fails, perhaps after "approved": true was read.
Response == [ok : BOOLEAN, body : Verdicts \cup {"broken"}]
NoResponse == [ok |-> FALSE, body |-> "none"]

TypeOK ==
    /\ call \in [Requests -> {"idle", "waiting", "reading", "returning", "done"}]
    /\ hook \in [Requests -> Response \cup {NoResponse}]
    /\ decision \in [Requests -> Verdicts \cup {"denied", "none"}]

Init ==
    /\ call = [r \in Requests |-> "idle"]
    /\ hook = [r \in Requests |-> NoResponse]
    /\ decision = [r \in Requests |-> "none"]

-----------------------------------------------------------------------------
\* Approve builds the request and starts client.Do.
Post(r) ==
    /\ call[r] = "idle"
    /\ call' = [call EXCEPT ![r] = "waiting"]
    /\ UNCHANGED <<hook, decision>>

\* The hook answers, external: at any time after the request, also when the
\* call has given up.
HookAnswers(r, response) ==
    /\ call[r] # "idle"
    /\ hook[r] = NoResponse
    /\ hook' = [hook EXCEPT ![r] = response]
    /\ UNCHANGED <<call, decision>>

\* The call has its return value; the deferred cancel and Close still run.
Decided(r, d) ==
    /\ call' = [call EXCEPT ![r] = "returning"]
    /\ decision' = [decision EXCEPT ![r] = d]
    /\ UNCHANGED hook

\* client.Do fails, or reading the body does: the connection was refused, was
\* cut (perhaps after the hook decided), the deadline passed, or the server is
\* shutting down.
Unreachable(r) ==
    /\ call[r] \in {"waiting", "reading"}
    /\ Decided(r, "denied")

\* client.Do returns a response: a status other than 2xx denies.
Headers(r) ==
    /\ call[r] = "waiting"
    /\ hook[r] # NoResponse
    /\ IF hook[r].ok
         THEN call' = [call EXCEPT ![r] = "reading"] /\ UNCHANGED <<hook, decision>>
         ELSE Decided(r, "denied")

\* Mutant: the error of Decode is not looked at.
DecodeLenient(r) ==
    /\ call[r] = "reading"
    /\ \E d \in Verdicts : hook[r].body \in {d, "broken"} /\ Decided(r, d)

\* The whole body was read in time: a decision, or an error that denies.
Decode(r) ==
    /\ call[r] = "reading"
    /\ Decided(r, IF hook[r].body = "broken" THEN "denied" ELSE hook[r].body)

\* The defers have run; the caller gets the decision.
Return(r) ==
    /\ call[r] = "returning"
    /\ call' = [call EXCEPT ![r] = "done"]
    /\ UNCHANGED <<hook, decision>>

-----------------------------------------------------------------------------
\* What a call does while its caller waits.
Waits(r) == Unreachable(r) \/ Headers(r) \/ Decode(r)

Next ==
    \E r \in Requests :
        \/ Post(r)
        \/ Waits(r)
        \/ Return(r)
        \/ \E response \in Response : HookAnswers(r, response)

\* The deadline passes and the call returns.  The hook promises nothing.
Fairness == \A r \in Requests : WF_vars(Waits(r)) /\ WF_vars(Return(r))

SafeSpec == Init /\ [][Next]_vars

Spec == SafeSpec /\ Fairness

-----------------------------------------------------------------------------
(* Properties *)

\* The hook's decision on a request: what a whole 2xx answer says.
hookVerdict == [r \in Requests |->
    IF hook[r].ok /\ hook[r].body \in Verdicts THEN hook[r].body ELSE "none"]

answerMap == [r \in Requests |->
    IF call[r] = "idle" THEN "idle"
    ELSE IF call[r] # "done" THEN "asked"
    ELSE IF decision[r] = "approve" THEN "approved" ELSE "denied"]

A == INSTANCE Approver WITH answer <- answerMap, verdict <- hookVerdict

\* README: the hook's caller "proceeds only on an explicit approval. Any
\* timeout, connection error, or non-2xx response denies": httpApprover is an
\* Approver, whatever the network and the hook do, and it always answers.
ImplementsApprover == A!Spec

-----------------------------------------------------------------------------
(* The inductive invariant behind the refinement *)

\* Only a 2xx answer is read, and only what a whole one says is an approval.
ReadInv ==
    \A r \in Requests :
        /\ call[r] = "reading" => hook[r] # NoResponse /\ hook[r].ok
        /\ decision[r] = "approve" => hookVerdict[r] = "approve"

IInv == TypeOK /\ ReadInv
=============================================================================
