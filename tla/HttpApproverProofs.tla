------------------------- MODULE HttpApproverProofs -------------------------
(***************************************************************************)
(* Proof that the HTTP approver is an Approver: whatever the network and   *)
(* the hook do, a caller is told "approved" only after the hook approved   *)
(* that request in a whole 2xx answer.                                     *)
(***************************************************************************)
EXTENDS HttpApprover, TLAPS

\* A call and its hook, step by step, as the proofs split Next.
LEMMA IInvInductive == IInv /\ [Next]_vars => IInv'
<1> SUFFICES ASSUME IInv, [Next]_vars PROVE IInv'
  OBVIOUS
<1> USE DEF IInv, TypeOK, ReadInv, hookVerdict, Response, NoResponse, Verdicts
<1>1. ASSUME NEW r \in Requests, Post(r) \/ Return(r) PROVE IInv'
  BY <1>1 DEF Post, Return
<1>2. ASSUME NEW r \in Requests, NEW a \in Response, HookAnswers(r, a) PROVE IInv'
  BY <1>2 DEF HookAnswers
<1>3. ASSUME NEW r \in Requests, Unreachable(r) PROVE IInv'
  BY <1>3 DEF Unreachable, Decided
<1>4. ASSUME NEW r \in Requests, Headers(r) PROVE IInv'
  BY <1>4 DEF Headers, Decided
<1>5. ASSUME NEW r \in Requests, Decode(r) PROVE IInv'
  BY <1>5 DEF Decode, Decided
<1>6. CASE UNCHANGED vars
  BY <1>6 DEF vars
<1> HIDE DEF IInv
<1> QED
  BY <1>1, <1>2, <1>3, <1>4, <1>5, <1>6 DEF Next, Waits

\* Initially no call has a decision.
LEMMA IInvInit == Init => IInv
  BY DEF Init, IInv, TypeOK, ReadInv, Verdicts

\* It holds in every state.
LEMMA IInvHolds == SafeSpec => []IInv
  BY IInvInit, IInvInductive, PTL DEF SafeSpec

-----------------------------------------------------------------------------
(* Refinement *)

\* Every step of a call or of its hook is a step of the abstract approver or a
\* stutter.
LEMMA StepRefines == IInv /\ [Next]_vars => [A!Next]_A!vars
<1> SUFFICES ASSUME IInv, [Next]_vars PROVE [A!Next]_A!vars
  OBVIOUS
<1> USE DEF A!vars, IInv, TypeOK
<1>1. ASSUME NEW r \in Requests, Post(r) PROVE A!Ask(r)
  BY <1>1 DEF Post, A!Ask, answerMap, hookVerdict
<1>2. ASSUME NEW r \in Requests, NEW a \in Response, HookAnswers(r, a)
      PROVE  (\E v \in Verdicts : A!Decree(r, v)) \/ UNCHANGED A!vars
  <2>1. answerMap' = answerMap /\ answerMap[r] # "idle"
    BY <1>2 DEF HookAnswers, answerMap
  <2>2. hookVerdict[r] = "none"
    BY <1>2 DEF HookAnswers, hookVerdict, NoResponse, Verdicts
  <2>3. CASE a.ok /\ a.body \in Verdicts
    <3>1. hookVerdict' = [hookVerdict EXCEPT ![r] = a.body]
      BY <1>2, <2>3 DEF HookAnswers, hookVerdict
    <3> QED
      BY <2>1, <2>2, <2>3, <3>1 DEF A!Decree
  <2>4. CASE ~(a.ok /\ a.body \in Verdicts)
    <3>1. hookVerdict' = hookVerdict
      BY <1>2, <2>2, <2>4 DEF HookAnswers, hookVerdict
    <3> QED
      BY <2>1, <3>1
  <2> QED
    BY <2>3, <2>4
<1>3. ASSUME NEW r \in Requests, Waits(r) PROVE UNCHANGED A!vars
  <2>1. UNCHANGED hook /\ call[r] \in {"waiting", "reading"}
    BY <1>3 DEF Waits, Unreachable, Headers, Decode, Decided
  <2>2. \E w \in {"reading", "returning"} : call' = [call EXCEPT ![r] = w]
    BY <1>3 DEF Waits, Unreachable, Headers, Decode, Decided
  <2>3. \A q \in Requests \ {r} : decision'[q] = decision[q]
    BY <1>3 DEF Waits, Unreachable, Headers, Decode, Decided
  <2>4. answerMap' = answerMap
    BY <2>1, <2>2, <2>3 DEF answerMap
  <2> QED
    BY <2>1, <2>4 DEF hookVerdict
<1>4. ASSUME NEW r \in Requests, Return(r) PROVE A!Grant(r) \/ A!Refuse(r)
  <2>1. CASE decision[r] = "approve"
    BY <1>4, <2>1 DEF Return, A!Grant, answerMap, hookVerdict, ReadInv
  <2>2. CASE decision[r] # "approve"
    BY <1>4, <2>2 DEF Return, A!Refuse, answerMap, hookVerdict
  <2> QED
    BY <2>1, <2>2
<1>5. CASE UNCHANGED vars
  BY <1>5 DEF vars, answerMap, hookVerdict
<1>6. \A v \in Verdicts : v \in A!Verdicts
  BY DEF Verdicts, A!Verdicts
<1> QED
  BY <1>1, <1>2, <1>3, <1>4, <1>5, <1>6 DEF Next, A!Next

\* httpApprover fails closed: it is an Approver.  (That it always answers is
\* liveness, left to TLC.)
THEOREM HttpImplementsApprover == SafeSpec => A!SafeSpec
<1>1. Init => A!Init
  BY DEF Init, A!Init, answerMap, hookVerdict, NoResponse
<1> QED
  BY <1>1, IInvHolds, StepRefines, PTL DEF SafeSpec, A!SafeSpec
=============================================================================
