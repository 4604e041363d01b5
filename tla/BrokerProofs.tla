---------------------------- MODULE BrokerProofs ----------------------------
(***************************************************************************)
(* Theorems about Broker, for every set of requests and of operators.      *)
(***************************************************************************)
EXTENDS Broker, TLAPS

\* The actions of one caller or one operator, as the proofs split them.
Step ==
    \/ \E r \in Requests :
          Register(r) \/ Park(r) \/ TakeDecision(r) \/ TimeOut(r)
             \/ ContextDone(r) \/ Unregister(r)
    \/ \E o \in Operators : Refresh(o)
    \/ \E o \in Operators, r \in Requests : DecideMissing(o, r)
    \/ \E o \in Operators, r \in Requests, v \in Verdicts :
          DecideLookup(o, r, v) \/ DecideHandOff(o, r, v)
             \/ DecideBuffer(o, r, v) \/ DecideFull(o, r, v)
    \/ Shutdown

\* Every step of Next is one of the actions.
LEMMA NextIsStep == Next => Step
  BY DEF Next, Step, Caller, Operator

-----------------------------------------------------------------------------
\* No step changes the shape of the data structures.
LEMMA TypeStep == TypeOK /\ [Next]_vars => TypeOK'
<1> SUFFICES ASSUME TypeOK, [Next]_vars PROVE TypeOK'
    OBVIOUS
<1> USE DEF TypeOK, Verdicts, Results
<1>1. ASSUME NEW r \in Requests, Register(r) \/ Park(r) \/ Unregister(r) PROVE TypeOK'
    BY <1>1 DEF Register, Park, Unregister
<1>2. ASSUME NEW r \in Requests, TakeDecision(r) PROVE TypeOK'
    BY <1>2 DEF TakeDecision, Return
<1>3. ASSUME NEW r \in Requests, TimeOut(r) \/ ContextDone(r) PROVE TypeOK'
    BY <1>3 DEF TimeOut, ContextDone, Return
<1>4. ASSUME NEW o \in Operators, Refresh(o) PROVE TypeOK'
    BY <1>4 DEF Refresh
<1>5. ASSUME NEW o \in Operators, NEW r \in Requests, DecideMissing(o, r) PROVE TypeOK'
    BY <1>5 DEF DecideMissing
<1>6. ASSUME NEW o \in Operators, NEW r \in Requests, NEW v \in Verdicts,
               DecideLookup(o, r, v)
        PROVE  TypeOK'
    BY <1>6 DEF DecideLookup
<1>7. ASSUME NEW o \in Operators, NEW r \in Requests, NEW v \in Verdicts,
               DecideHandOff(o, r, v)
        PROVE  TypeOK'
    BY <1>7 DEF DecideHandOff, Delivered, Return
<1>8. ASSUME NEW o \in Operators, NEW r \in Requests, NEW v \in Verdicts,
               DecideBuffer(o, r, v)
        PROVE  TypeOK'
    BY <1>8 DEF DecideBuffer, Delivered
<1>9. ASSUME NEW o \in Operators, NEW r \in Requests, NEW v \in Verdicts,
               DecideFull(o, r, v)
        PROVE  TypeOK'
    BY <1>9 DEF DecideFull
<1>10. CASE Shutdown
    BY <1>10 DEF Shutdown
<1>11. CASE UNCHANGED vars
    BY <1>11 DEF vars
<1> QED
    BY <1>1, <1>2, <1>3, <1>4, <1>5, <1>6, <1>7, <1>8, <1>9, <1>10, <1>11,
       NextIsStep DEF Step

\* The data structures keep their shape whatever callers and operators do.
THEOREM TypeCorrect == Spec => []TypeOK
<1>1. Init => TypeOK
  BY DEF Init, TypeOK, Verdicts, Results
<1> QED
  BY <1>1, TypeStep, PTL DEF Spec, SafeSpec

-----------------------------------------------------------------------------
\* Broker.IInv is inductive: no step of a caller, an operator or the process
\* breaks the agreement between the map, the channels and the returned values.
LEMMA IInvInductive == IInv /\ [Next]_vars => IInv'
<1> SUFFICES ASSUME IInv, [Next]_vars PROVE IInv'
  OBVIOUS
<1> USE DEF IInv
<1>0. TypeOK'
  BY TypeStep
<1> USE DEF TypeOK, ChannelInv, PendingInv, KnownInv, FirstDecisionWins, RefusedMeansSettled, Verdicts, Results, Waiting
<1>1. ASSUME NEW r \in Requests, Register(r)
      PROVE  IInv'
  BY <1>0, <1>1 DEF Register
<1>2. ASSUME NEW r \in Requests, Park(r)
      PROVE  IInv'
  BY <1>0, <1>2 DEF Park
<1>3. ASSUME NEW r \in Requests, TakeDecision(r)
      PROVE  IInv'
  BY <1>0, <1>3 DEF TakeDecision, Return
<1>4. ASSUME NEW r \in Requests, TimeOut(r)
      PROVE  IInv'
  BY <1>0, <1>4 DEF TimeOut, Return
<1>5. ASSUME NEW r \in Requests, ContextDone(r)
      PROVE  IInv'
  BY <1>0, <1>5 DEF ContextDone, Return
<1>6. ASSUME NEW r \in Requests, Unregister(r)
      PROVE  IInv'
  BY <1>0, <1>6 DEF Unregister
<1>7. ASSUME NEW o \in Operators, Refresh(o)
      PROVE  IInv'
  BY <1>0, <1>7 DEF Refresh
<1>8. ASSUME NEW o \in Operators, NEW r \in Requests, DecideMissing(o, r)
      PROVE  IInv'
  BY <1>0, <1>8 DEF DecideMissing
<1>9. ASSUME NEW o \in Operators, NEW r \in Requests, NEW v \in Verdicts, DecideLookup(o, r, v)
      PROVE  IInv'
  BY <1>0, <1>9 DEF DecideLookup
<1>10. ASSUME NEW o \in Operators, NEW r \in Requests, NEW v \in Verdicts, DecideHandOff(o, r, v)
      PROVE  IInv'
  BY <1>0, <1>10 DEF DecideHandOff, Return, Delivered
<1>11. ASSUME NEW o \in Operators, NEW r \in Requests, NEW v \in Verdicts, DecideBuffer(o, r, v)
      PROVE  IInv'
  BY <1>0, <1>11 DEF DecideBuffer, Delivered
<1>12. ASSUME NEW o \in Operators, NEW r \in Requests, NEW v \in Verdicts, DecideFull(o, r, v)
      PROVE  IInv'
  BY <1>0, <1>12 DEF DecideFull
<1>13. CASE Shutdown
  BY <1>0, <1>13 DEF Shutdown
<1>14. CASE UNCHANGED vars
  BY <1>0, <1>14 DEF vars
<1> QED
  BY <1>1, <1>2, <1>3, <1>4, <1>5, <1>6, <1>7, <1>8, <1>9, <1>10, <1>11, <1>12, <1>13, <1>14, NextIsStep DEF Step

\* The invariant holds when nothing has happened yet.
LEMMA IInvInit == Init => IInv
  BY DEF Init, IInv, TypeOK, ChannelInv, PendingInv, KnownInv, FirstDecisionWins,
         RefusedMeansSettled, Verdicts, Results

\* The invariant holds for ever.
LEMMA IInvSafe == SafeSpec => []IInv
  BY IInvInit, IInvInductive, PTL DEF SafeSpec

\* Fairness takes nothing away.
LEMMA IInvHolds == Spec => []IInv
  BY IInvSafe, PTL DEF Spec

-----------------------------------------------------------------------------
\* Approve returns an operator's decision only if it was the first one that a
\* Decide delivered: no interleaving of timeouts and double clicks turns a
\* denial, or no decision at all, into an approval.
THEOREM FirstDecision == Spec => []FirstDecisionWins
<1>1. IInv => FirstDecisionWins
  BY DEF IInv
<1> QED
  BY <1>1, IInvHolds, PTL

\* Decide returns false only for a request that is settled.
THEOREM Refused == Spec => []RefusedMeansSettled
<1>1. IInv => RefusedMeansSettled
  BY DEF IInv
<1> QED
  BY <1>1, IInvHolds, PTL

\* The pending map lists every waiting caller and nobody who has returned.
THEOREM Pending == Spec => []PendingIsWaiting
<1>1. IInv => PendingIsWaiting
  BY DEF IInv, PendingInv, PendingIsWaiting, Waiting
<1> QED
  BY <1>1, IInvHolds, PTL

\* No step replaces a decision that a waiting caller has yet to read.
THEOREM Kept == Spec => DeliveredIsKept
<1> DEFINE Keeps == \A r \in Requests :
       (Waiting(r) /\ decided[r] # "none" /\ Waiting(r)') => decided'[r] = decided[r]
<1>1. ASSUME IInv, [Next]_vars PROVE Keeps \/ UNCHANGED vars
  <2> SUFFICES ASSUME NEW q \in Requests, Waiting(q), decided[q] # "none", Waiting(q)'
               PROVE  decided'[q] = decided[q]
    OBVIOUS
  <2>1. ASSUME NEW r \in Requests, TakeDecision(r) PROVE decided'[q] = decided[q]
    BY <1>1, <2>1 DEF TakeDecision, Return, IInv, TypeOK, Waiting
  <2>2. ASSUME NEW o \in Operators, NEW r \in Requests, NEW v \in Verdicts,
               DecideBuffer(o, r, v)
        PROVE  decided'[q] = decided[q]
    BY <1>1, <2>2 DEF DecideBuffer, IInv, TypeOK
  <2>3. ASSUME NEW r \in Requests,
               Register(r) \/ Park(r) \/ TimeOut(r) \/ ContextDone(r) \/ Unregister(r)
        PROVE  UNCHANGED decided
    BY <2>3 DEF Register, Park, TimeOut, ContextDone, Unregister
  <2>4. ASSUME NEW o \in Operators, NEW r \in Requests, NEW v \in Verdicts,
               DecideLookup(o, r, v) \/ DecideHandOff(o, r, v) \/ DecideFull(o, r, v)
                  \/ DecideMissing(o, r)
        PROVE  UNCHANGED decided
    BY <2>4 DEF DecideLookup, DecideHandOff, DecideFull, DecideMissing
  <2>5. ASSUME (\E o \in Operators : Refresh(o)) \/ Shutdown \/ UNCHANGED vars
        PROVE  UNCHANGED decided
    BY <2>5 DEF Refresh, Shutdown, vars
  <2> HIDE DEF Keeps
  <2>6. "approve" \in Verdicts
    BY DEF Verdicts
  <2> QED
    BY <1>1, <2>1, <2>2, <2>3, <2>4, <2>5, <2>6, NextIsStep DEF Step
<1> QED
  BY <1>1, IInvHolds, PTL DEF Spec, SafeSpec, DeliveredIsKept

-----------------------------------------------------------------------------
(* Refinement *)

\* A step of the broker that leaves pc alone, or moves it between places where
\* the caller still waits, is invisible to that caller.
LEMMA AnswerUnchanged ==
    ASSUME TypeOK, NEW r \in Requests,
           pc[r] \in {"registered", "parked", "returning"},
           NEW w \in {"registered", "parked", "returning"},
           pc' = [pc EXCEPT ![r] = w],
           \A q \in Requests \ {r} : result'[q] = result[q]
    PROVE  answerMap' = answerMap
  BY DEF TypeOK, answerMap, Approved

\* Every step of the broker is a step of the abstract approver or a stutter.
LEMMA StepRefines == IInv /\ [Next]_vars => [A!Next]_A!vars
<1> SUFFICES ASSUME IInv, [Next]_vars PROVE [A!Next]_A!vars
  OBVIOUS
<1> USE DEF A!vars
<1>0. TypeOK /\ ChannelInv /\ FirstDecisionWins
  BY DEF IInv
<1>1. ASSUME NEW r \in Requests, Register(r) PROVE A!Ask(r)
  BY <1>0, <1>1 DEF Register, A!Ask, TypeOK, answerMap, Approved
<1>2. ASSUME NEW r \in Requests, Park(r) PROVE UNCHANGED A!vars
  BY <1>0, <1>2, AnswerUnchanged DEF Park
<1>3. ASSUME NEW r \in Requests, TakeDecision(r) \/ TimeOut(r) \/ ContextDone(r)
      PROVE  UNCHANGED A!vars
  <2>1. pc[r] \in {"registered", "parked"} /\ UNCHANGED first
    BY <1>3 DEF TakeDecision, TimeOut, ContextDone, Waiting
  <2>2. PICK d : Return(r, d)
    BY <1>3 DEF TakeDecision, TimeOut, ContextDone
  <2> QED
    BY <1>0, <2>1, <2>2, AnswerUnchanged DEF Return, TypeOK
<1>4. ASSUME NEW r \in Requests, Unregister(r) PROVE A!Grant(r) \/ A!Refuse(r)
  <2>1. CASE result[r] = "approve"
    <3>1. first[r] = "approve"
      BY <1>0, <2>1 DEF FirstDecisionWins, Verdicts
    <3> QED
      BY <1>0, <1>4, <2>1, <3>1 DEF Unregister, A!Grant, TypeOK, answerMap, Approved
  <2>2. CASE result[r] # "approve"
    BY <1>0, <1>4, <2>2 DEF Unregister, A!Refuse, TypeOK, answerMap, Approved
  <2> QED
    BY <2>1, <2>2
<1>5. ASSUME NEW o \in Operators, NEW r \in Requests, NEW v \in Verdicts,
             DecideHandOff(o, r, v)
      PROVE  A!Decree(r, v)
  <2>1. answerMap' = answerMap /\ answerMap[r] # "idle"
    BY <1>0, <1>5, AnswerUnchanged DEF DecideHandOff, Return, TypeOK, answerMap
  <2>2. first[r] = "none" /\ first' = [first EXCEPT ![r] = v]
    BY <1>0, <1>5 DEF DecideHandOff, Delivered, TypeOK, ChannelInv
  <2> QED
    BY <2>1, <2>2 DEF A!Decree
<1>6. ASSUME NEW o \in Operators, NEW r \in Requests, NEW v \in Verdicts,
             DecideBuffer(o, r, v)
      PROVE  A!Decree(r, v) \/ UNCHANGED A!vars
  <2>1. answerMap' = answerMap
    BY <1>6 DEF DecideBuffer, answerMap, Approved
  <2>2. CASE first[r] = "none"
    <3>1. pc[r] # "idle"
      BY <1>6 DEF IInv, KnownInv, DecideBuffer
    <3>2. answerMap[r] # "idle"
      BY <1>0, <3>1 DEF TypeOK, answerMap
    <3>3. first' = [first EXCEPT ![r] = v]
      BY <1>0, <1>6, <2>2 DEF DecideBuffer, Delivered, TypeOK
    <3> QED
      BY <2>1, <2>2, <3>2, <3>3 DEF A!Decree
  <2>3. CASE first[r] # "none"
    BY <1>0, <1>6, <2>1, <2>3 DEF DecideBuffer, Delivered, TypeOK
  <2> QED
    BY <2>2, <2>3
<1>7. CASE UNCHANGED <<pc, result, first>>
  BY <1>7 DEF answerMap, Approved
<1> QED
  <2>1. \A v \in Verdicts : v \in A!Verdicts
    BY DEF Verdicts, A!Verdicts
  <2> QED
    BY <1>1, <1>2, <1>3, <1>4, <1>5, <1>6, <1>7, <2>1, NextIsStep
    DEF Step, vars, A!Next, Refresh, DecideMissing, DecideLookup, DecideFull, Shutdown

\* The broker fails closed: it is an Approver, whose callers are told
\* "approved" only after somebody approved that request before anybody denied
\* it.  (That every caller is answered is liveness, left to TLC.)
THEOREM BrokerImplementsApprover == SafeSpec => A!SafeSpec
<1>1. Init => A!Init
  BY DEF Init, A!Init, answerMap
<1> QED
  BY <1>1, IInvSafe, StepRefines, PTL DEF SafeSpec, A!SafeSpec
=============================================================================
