------------------------------- MODULE Broker -------------------------------
(***************************************************************************)
(* The dashboard approver (internal/approval/broker.go).  A session that   *)
(* runs a gated statement calls Approve: it registers the request in the   *)
(* pending map, waits in a select on the decision channel, the timer and   *)
(* the context, and removes the request on its way out.  Operators see the *)
(* pending requests in the admin UI and call Decide from HTTP handlers.    *)
(*                                                                         *)
(* The mutex protects only the map: Decide looks the request up, drops the *)
(* lock, and then does a non-blocking send on the request's channel, which *)
(* has a buffer of one.  Each of these is an action, so that a timeout, a  *)
(* second Decide and the deferred delete can come between any two.         *)
(***************************************************************************)
CONSTANTS
    Requests,      \* calls of Approve; Request.ID (64 random bits) is unique
    Operators      \* people or scripts calling the admin API

VARIABLES
    pc,            \* where each call of Approve is
    pending,       \* the keys of Broker.pending
    decided,       \* the buffer of each pendingReq.decided channel
    result,        \* the Decision each call returns; "none" until it has one
    cancelled,     \* the server's context is done (SIGINT or SIGTERM)
    shown,         \* the requests on each operator's screen
    deciding,      \* calls of Decide between the map lookup and the send
    first,         \* history: the first verdict a Decide delivered
    acked,         \* history: the verdicts whose Decide returned true
    refused        \* history: the requests for which a Decide returned false

vars == <<pc, pending, decided, result, cancelled, shown, deciding,
          first, acked, refused>>

Verdicts == {"approve", "deny"}

\* Every Decision of Approve: the operator's, or the two that fail closed.
Results == Verdicts \cup {"timeout", "cancelled"}

Waiting(r)  == pc[r] \in {"registered", "parked"}
Approved(r) == result[r] = "approve"

TypeOK ==
    /\ pc \in [Requests -> {"idle", "registered", "parked", "returning", "done"}]
    /\ pending \in SUBSET Requests
    /\ decided \in [Requests -> Verdicts \cup {"none"}]
    /\ result \in [Requests -> Results \cup {"none"}]
    /\ cancelled \in BOOLEAN
    /\ shown \in [Operators -> SUBSET Requests]
    /\ deciding \in SUBSET (Operators \X Requests \X Verdicts)
    /\ first \in [Requests -> Verdicts \cup {"none"}]
    /\ acked \in [Requests -> SUBSET Verdicts]
    /\ refused \in SUBSET Requests

Init ==
    /\ pc = [r \in Requests |-> "idle"]
    /\ pending = {}
    /\ decided = [r \in Requests |-> "none"]
    /\ result = [r \in Requests |-> "none"]
    /\ cancelled = FALSE
    /\ shown = [o \in Operators |-> {}]
    /\ deciding = {}
    /\ first = [r \in Requests |-> "none"]
    /\ acked = [r \in Requests |-> {}]
    /\ refused = {}

-----------------------------------------------------------------------------
(* Approve *)

\* b.pending[req.ID] = p, under the lock.
Register(r) ==
    /\ pc[r] = "idle"
    /\ pc' = [pc EXCEPT ![r] = "registered"]
    /\ pending' = pending \cup {r}
    /\ UNCHANGED <<decided, result, cancelled, shown, deciding, first, acked, refused>>

\* The select finds no channel ready and parks the goroutine.
Park(r) ==
    /\ pc[r] = "registered"
    /\ decided[r] = "none"
    /\ ~cancelled
    /\ pc' = [pc EXCEPT ![r] = "parked"]
    /\ UNCHANGED <<pending, decided, result, cancelled, shown, deciding, first, acked, refused>>

\* The select is decided: Approve has its return value, the defers still run.
Return(r, d) ==
    /\ pc' = [pc EXCEPT ![r] = "returning"]
    /\ result' = [result EXCEPT ![r] = d]

\* case dec := <-p.decided, when the decision came before the select.
TakeDecision(r) ==
    /\ pc[r] = "registered"
    /\ decided[r] # "none"
    /\ Return(r, decided[r])
    /\ decided' = [decided EXCEPT ![r] = "none"]
    /\ UNCHANGED <<pending, cancelled, shown, deciding, first, acked, refused>>

\* Mutant: the timer case approves instead of failing closed.
TimeOutApproves(r) ==
    /\ Waiting(r)
    /\ Return(r, "approve")
    /\ UNCHANGED <<pending, decided, cancelled, shown, deciding, first, acked, refused>>

\* Mutant: the timer case returns a Decision that names no outcome.
TimeOutUnnamed(r) ==
    /\ Waiting(r)
    /\ Return(r, "zero")
    /\ UNCHANGED <<pending, decided, cancelled, shown, deciding, first, acked, refused>>

\* Mutant: a timeout of zero means "wait for ever": the timer never fires.
TimeOutNever(r) ==
    /\ Waiting(r)
    /\ FALSE
    /\ UNCHANGED vars

\* case <-timer.C: the timer may fire at any moment of the wait, and a select
\* with several channels ready takes any of them.
TimeOut(r) ==
    /\ Waiting(r)
    /\ Return(r, "timeout")
    /\ UNCHANGED <<pending, decided, cancelled, shown, deciding, first, acked, refused>>

\* case <-ctx.Done().
ContextDone(r) ==
    /\ Waiting(r)
    /\ cancelled
    /\ Return(r, "cancelled")
    /\ UNCHANGED <<pending, decided, cancelled, shown, deciding, first, acked, refused>>

\* Mutant: the delete is missing on the way out.
UnregisterKeepsEntry(r) ==
    /\ pc[r] = "returning"
    /\ pc' = [pc EXCEPT ![r] = "done"]
    /\ UNCHANGED <<pending, decided, result, cancelled, shown, deciding, first, acked, refused>>

\* The deferred delete(b.pending, req.ID); the caller gets the decision.
Unregister(r) ==
    /\ pc[r] = "returning"
    /\ pc' = [pc EXCEPT ![r] = "done"]
    /\ pending' = pending \ {r}
    /\ UNCHANGED <<decided, result, cancelled, shown, deciding, first, acked, refused>>

-----------------------------------------------------------------------------
(* The admin API *)

\* GET /api/approvals: Pending, a snapshot that ages on the screen.
Refresh(o) ==
    /\ shown' = [shown EXCEPT ![o] = pending]
    /\ UNCHANGED <<pc, pending, decided, result, cancelled, deciding, first, acked, refused>>

Busy(o) == \E r \in Requests, v \in Verdicts : <<o, r, v>> \in deciding

\* POST /api/approvals/{id}: Decide finds the request and drops the lock.
DecideLookup(o, r, v) ==
    /\ r \in shown[o]
    /\ ~Busy(o)
    /\ r \in pending
    /\ deciding' = deciding \cup {<<o, r, v>>}
    /\ UNCHANGED <<pc, pending, decided, result, cancelled, shown, first, acked, refused>>

\* POST /api/approvals/{id}: no such request, Decide returns false.
DecideMissing(o, r) ==
    /\ r \in shown[o]
    /\ ~Busy(o)
    /\ r \notin pending
    /\ refused' = refused \cup {r}
    /\ UNCHANGED <<pc, pending, decided, result, cancelled, shown, deciding, first, acked>>

\* The bookkeeping of a send that succeeded: Decide returns true.
Delivered(o, r, v) ==
    /\ deciding' = deciding \ {<<o, r, v>>}
    /\ first' = [first EXCEPT ![r] = IF @ = "none" THEN v ELSE @]
    /\ acked' = [acked EXCEPT ![r] = @ \cup {v}]

\* The send meets a parked receiver and commits its select.
DecideHandOff(o, r, v) ==
    /\ <<o, r, v>> \in deciding
    /\ pc[r] = "parked"
    /\ Return(r, v)
    /\ Delivered(o, r, v)
    /\ UNCHANGED <<pending, decided, cancelled, shown, refused>>

\* Mutant: make(chan Decision) without a buffer, a send nobody waits for fails.
DecideUnbuffered(o, r, v) ==
    /\ <<o, r, v>> \in deciding
    /\ pc[r] # "parked"
    /\ deciding' = deciding \ {<<o, r, v>>}
    /\ refused' = refused \cup {r}
    /\ UNCHANGED <<pc, pending, decided, result, cancelled, shown, first, acked>>

\* The send goes into the empty buffer, whether or not anyone will read it.
DecideBuffer(o, r, v) ==
    /\ <<o, r, v>> \in deciding
    /\ pc[r] # "parked"
    /\ decided[r] = "none"
    /\ decided' = [decided EXCEPT ![r] = v]
    /\ Delivered(o, r, v)
    /\ UNCHANGED <<pc, pending, result, cancelled, shown, refused>>

\* Mutant: drain the channel and send again, so that the last decision wins.
DecideReplaces(o, r, v) ==
    /\ <<o, r, v>> \in deciding
    /\ pc[r] # "parked"
    /\ decided[r] # "none"
    /\ decided' = [decided EXCEPT ![r] = v]
    /\ Delivered(o, r, v)
    /\ UNCHANGED <<pc, pending, result, cancelled, shown, refused>>

\* default: the buffer is full, Decide returns false ("already decided").
DecideFull(o, r, v) ==
    /\ <<o, r, v>> \in deciding
    /\ pc[r] # "parked"
    /\ decided[r] # "none"
    /\ deciding' = deciding \ {<<o, r, v>>}
    /\ refused' = refused \cup {r}
    /\ UNCHANGED <<pc, pending, decided, result, cancelled, shown, first, acked>>

-----------------------------------------------------------------------------
\* The process gets a signal: signal.NotifyContext cancels the only context.
Shutdown ==
    /\ ~cancelled
    /\ cancelled' = TRUE
    /\ UNCHANGED <<pc, pending, decided, result, shown, deciding, first, acked, refused>>

Caller(r) ==
    Register(r) \/ Park(r) \/ TakeDecision(r) \/ TimeOut(r) \/ ContextDone(r) \/ Unregister(r)

Operator(o) ==
    \/ Refresh(o)
    \/ \E r \in Requests : DecideMissing(o, r)
    \/ \E r \in Requests, v \in Verdicts :
          \/ DecideLookup(o, r, v)
          \/ DecideHandOff(o, r, v)
          \/ DecideBuffer(o, r, v)
          \/ DecideFull(o, r, v)

Next ==
    \/ \E r \in Requests : Caller(r)
    \/ \E o \in Operators : Operator(o)
    \/ Shutdown

\* The runtime schedules a waiting caller, its timer (finite, NewBroker makes
\* it positive) fires, and its defers run.  Operators promise nothing.
Fairness ==
    \A r \in Requests :
        /\ WF_vars(TakeDecision(r) \/ TimeOut(r) \/ ContextDone(r))
        /\ WF_vars(Unregister(r))

SafeSpec == Init /\ [][Next]_vars

Spec == SafeSpec /\ Fairness

-----------------------------------------------------------------------------
(* Properties *)

\* An operator's decision that Approve returns is the first one any Decide
\* delivered, whatever races with it; in particular nothing is approved
\* unless an operator approved that request before anybody denied it.
FirstDecisionWins ==
    \A r \in Requests : result[r] \in Verdicts => result[r] = first[r]

\* Decide answers false (HTTP 404 "no such pending approval") only when the
\* request is settled: it was decided already, or its caller stopped waiting.
\* No operator is turned away from a request that still waits for its first
\* decision.
RefusedMeansSettled ==
    \A r \in refused : first[r] # "none" \/ result[r] # "none"

\* The dashboard's list is exact up to the deferred delete: every caller that
\* still waits is listed, and no call that has returned leaves a card behind.
PendingIsWaiting ==
    \A r \in Requests :
        /\ Waiting(r) => r \in pending
        /\ r \in pending => pc[r] \notin {"idle", "done"}

\* A decision delivered while its caller waits is never replaced: once the
\* buffer holds it, it stays until the caller leaves the select.
DeliveredIsKept ==
    [][\A r \in Requests :
          (Waiting(r) /\ decided[r] # "none" /\ Waiting(r)') => decided'[r] = decided[r]]_vars

\* Every call of Approve returns, even if no operator ever looks.
EveryCallReturns ==
    \A r \in Requests : pc[r] = "registered" ~> pc[r] = "done"

\* broker.go: Decide "returns false if no such request is waiting (e.g. it
\* already timed out)" and false when "already decided": so a Decide that
\* returned true is the decision the caller gets.
AckedVerdictIsReturned ==
    \A r \in Requests : pc[r] = "done" => acked[r] \subseteq {result[r]}

\* Approve, seen by its callers, is an Approver: it fails closed, it answers.
answerMap == [r \in Requests |->
                IF pc[r] = "idle" THEN "idle"
                ELSE IF pc[r] # "done" THEN "asked"
                ELSE IF Approved(r) THEN "approved" ELSE "denied"]

A == INSTANCE Approver WITH answer <- answerMap, verdict <- first

ImplementsApprover == A!Spec
-----------------------------------------------------------------------------
(* The inductive invariant behind the three safety properties *)

\* The channel: nobody has decided a parked request, a caller about to select
\* finds in the buffer exactly the first decision, and a Decide that ever
\* found the buffer full came after a first decision.
ChannelInv ==
    \A r \in Requests :
        /\ pc[r] \in {"idle", "parked"} => decided[r] = "none" /\ first[r] = "none"
        /\ pc[r] = "registered" => decided[r] = first[r]
        /\ decided[r] # "none" => first[r] # "none"
        /\ result[r] = "none" <=> pc[r] \in {"idle", "registered", "parked"}

\* The map: an entry exists from registration to the deferred delete.
PendingInv ==
    \A r \in Requests :
        r \in pending <=> pc[r] \in {"registered", "parked", "returning"}

\* Operators only know of requests that were made.
KnownInv ==
    /\ \A o \in Operators : \A r \in shown[o] : pc[r] # "idle"
    /\ \A d \in deciding : pc[d[2]] # "idle"

IInv ==
    /\ TypeOK
    /\ ChannelInv
    /\ PendingInv
    /\ KnownInv
    /\ FirstDecisionWins
    /\ RefusedMeansSettled
=============================================================================
