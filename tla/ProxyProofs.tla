----------------------------- MODULE ProxyProofs -----------------------------
(***************************************************************************)
(* Proofs about Proxy: from the click of an operator, or the answer of the *)
(* hook, to the statement that runs.                                       *)
(*                                                                         *)
(* A step of Proxy is a step of each of its parts, or leaves that part     *)
(* alone; so the invariants of Session, Broker and HttpApprover hold here  *)
(* as well, from their own proofs.  What is left is how they are linked,   *)
(* the invariant LinkInv of Proxy.                                         *)
(***************************************************************************)
EXTENDS Proxy, SessionProofs

BP == INSTANCE BrokerProofs WITH pc <- calls
HP == INSTANCE HttpApproverProofs

-----------------------------------------------------------------------------
(* The parts *)

\* BrokerProofs speaks of the broker of Proxy.
LEMMA SameBroker ==
    (B!Init <=> BP!Init) /\ (B!Next <=> BP!Next) /\ B!vars = BP!vars /\ (B!IInv <=> BP!IInv)
<1>1. B!Init <=> BP!Init
  BY DEF B!Init, BP!Init
<1>2. B!Next <=> BP!Next
  BY DEF B!Next, BP!Next, B!Caller, BP!Caller, B!Operator, BP!Operator, B!Verdicts, BP!Verdicts,
         B!Register, BP!Register, B!Park, BP!Park, B!TakeDecision, BP!TakeDecision, B!TimeOut,
         BP!TimeOut, B!ContextDone, BP!ContextDone, B!Unregister, BP!Unregister, B!Return,
         BP!Return, B!Waiting, BP!Waiting, B!Refresh, BP!Refresh, B!DecideMissing,
         BP!DecideMissing, B!DecideLookup, BP!DecideLookup, B!Busy, BP!Busy, B!DecideHandOff,
         BP!DecideHandOff, B!DecideBuffer, BP!DecideBuffer, B!DecideFull, BP!DecideFull,
         B!Delivered, BP!Delivered, B!Shutdown, BP!Shutdown
<1>3. B!vars = BP!vars
  BY DEF B!vars, BP!vars
<1>4. B!IInv <=> BP!IInv
  BY DEF B!IInv, BP!IInv, B!TypeOK, BP!TypeOK, B!ChannelInv, BP!ChannelInv, B!PendingInv,
         BP!PendingInv, B!KnownInv, BP!KnownInv, B!FirstDecisionWins, BP!FirstDecisionWins,
         B!RefusedMeansSettled, BP!RefusedMeansSettled, B!Verdicts, BP!Verdicts, B!Results,
         BP!Results
<1> QED
  BY <1>1, <1>2, <1>3, <1>4

\* HttpApproverProofs speaks of the HTTP approver of Proxy.
LEMMA SameHook ==
    (H!Init <=> HP!Init) /\ (H!Next <=> HP!Next) /\ H!vars = HP!vars /\ (H!IInv <=> HP!IInv)
<1> USE DEF H!Response, HP!Response, H!NoResponse, HP!NoResponse, H!Verdicts, HP!Verdicts
<1>1. H!Init <=> HP!Init
  BY DEF H!Init, HP!Init
<1>2. H!Next <=> HP!Next
  BY DEF H!Next, HP!Next, H!Post, HP!Post, H!Waits, HP!Waits, H!Unreachable, HP!Unreachable,
         H!Headers, HP!Headers, H!Decode, HP!Decode, H!Decided, HP!Decided, H!Return, HP!Return,
         H!HookAnswers, HP!HookAnswers
<1>3. H!vars = HP!vars
  BY DEF H!vars, HP!vars
<1>4. H!IInv <=> HP!IInv
  BY DEF H!IInv, HP!IInv, H!TypeOK, HP!TypeOK, H!ReadInv, HP!ReadInv, H!hookVerdict, HP!hookVerdict
<1> QED
  BY <1>1, <1>2, <1>3, <1>4

\* The broker's invariant is preserved by the broker's steps, and the hook's by
\* the hook's.
LEMMA PartsInductive ==
    /\ B!IInv /\ [B!Next]_B!vars => B!IInv'
    /\ H!IInv /\ [H!Next]_H!vars => H!IInv'
<1>1. (B!IInv' <=> BP!IInv') /\ (H!IInv' <=> HP!IInv')
  BY SameBroker, SameHook, PTL
<1>2. [B!Next]_B!vars => [BP!Next]_BP!vars
  BY SameBroker DEF B!vars, BP!vars
<1>3. [H!Next]_H!vars => [HP!Next]_HP!vars
  BY SameHook DEF H!vars, HP!vars
<1> QED
  BY <1>1, <1>2, <1>3, SameBroker, SameHook, BP!IInvInductive, HP!IInvInductive

\* A step of the whole is a step of the session, or leaves it alone.
LEMMA SessionSteps == [ProxyNext]_allVars => [Next]_vars
<1> SUFFICES ASSUME [ProxyNext]_allVars PROVE [Next]_vars
  OBVIOUS
<1>1. CASE \E r \in Requests : Approve(r)
  BY <1>1 DEF Approve
<1>2. ASSUME NEW r \in Requests, Answered(r) PROVE Handler
  BY <1>2 DEF Answered, Proceed, TurnDown, Handler
<1>3. CASE StaticAnswer
  BY <1>3 DEF StaticAnswer, Proceed, TurnDown, Handler, Next
<1>4. CASE ApproverStep
  BY <1>4 DEF ApproverStep
<1>5. CASE RunIt \/ StreamIt
  BY <1>5 DEF RunIt, StreamIt, Handler, Next
<1>6. CASE BeginIt
  BY <1>6 DEF BeginIt, Message, Next
<1>7. CASE Elsewhere
  BY <1>7 DEF Elsewhere, Message, Handler, Next
<1>8. CASE UNCHANGED allVars
  BY <1>8 DEF allVars
<1> QED
  BY <1>1, <1>2, <1>3, <1>4, <1>5, <1>6, <1>7, <1>8 DEF ProxyNext, Next

\* ... of the broker ...
LEMMA BrokerSteps == [ProxyNext]_allVars => [B!Next]_B!vars
<1> SUFFICES ASSUME [ProxyNext]_allVars PROVE [B!Next]_B!vars
  OBVIOUS
<1>1. ASSUME NEW r \in Requests, Approve(r) \/ Answered(r) PROVE [B!Next]_B!vars
  BY <1>1 DEF Approve, Answered, brokerVars, B!vars, B!Next, B!Caller
<1>2. CASE ApproverStep
  BY <1>2 DEF ApproverStep, OperatorStep, brokerVars, B!vars, B!Next, B!Caller, B!Operator
<1>3. CASE StaticAnswer \/ RunIt \/ BeginIt \/ StreamIt \/ Elsewhere \/ UNCHANGED allVars
  BY <1>3 DEF StaticAnswer, RunIt, BeginIt, StreamIt, Elsewhere, allVars, brokerVars, B!vars
<1> QED
  BY <1>1, <1>2, <1>3 DEF ProxyNext

\* ... and of the HTTP approver.
LEMMA HookSteps == [ProxyNext]_allVars => [H!Next]_H!vars
<1> SUFFICES ASSUME [ProxyNext]_allVars PROVE [H!Next]_H!vars
  OBVIOUS
<1>1. ASSUME NEW r \in Requests, Approve(r) \/ Answered(r) PROVE [H!Next]_H!vars
  BY <1>1 DEF Approve, Answered, httpVars, H!vars, H!Next
<1>2. CASE ApproverStep
  BY <1>2 DEF ApproverStep, httpVars, H!vars, H!Next
<1>3. CASE StaticAnswer \/ RunIt \/ BeginIt \/ StreamIt \/ Elsewhere \/ UNCHANGED allVars
  BY <1>3 DEF StaticAnswer, RunIt, BeginIt, StreamIt, Elsewhere, allVars, httpVars, H!vars
<1> QED
  BY <1>1, <1>2, <1>3 DEF ProxyNext

\* Initially every part is in an initial state of its own, and nothing was asked.
LEMMA PartsInit == ProxyInit => Init /\ B!Init /\ H!Init /\ IInv /\ B!IInv /\ H!IInv
<1>1. ProxyInit => Init /\ B!Init /\ H!Init
  BY DEF ProxyInit
<1> QED
  BY <1>1, SameBroker, SameHook, IInvInit, BP!IInvInit, HP!IInvInit

-----------------------------------------------------------------------------
(* Refinement *)

\* The session with a real approver is the session of Session, whose approver
\* answers what it likes: whatever is proved of the safety of Session holds
\* under the broker, the hook and the standing decisions.
THEOREM RefinesSession == ProxySpec => SafeSpec
  BY PartsInit, SessionSteps, PTL DEF ProxySpec, SafeSpec

\* Under the calls that a session makes, the HTTP approver is an Approver.
THEOREM HookIsApprover == ProxySpec => HP!A!SafeSpec
<1>1. ProxyInit => HP!Init
  BY PartsInit, SameHook
<1>2. [ProxyNext]_allVars => [HP!Next]_HP!vars
  BY HookSteps, SameHook DEF H!vars, HP!vars
<1>3. ProxySpec => HP!SafeSpec
  BY <1>1, <1>2, PTL DEF ProxySpec, HP!SafeSpec
<1> QED
  BY <1>3, HP!HttpImplementsApprover, PTL

\* And so is the broker.
THEOREM BrokerIsApprover == ProxySpec => BP!A!SafeSpec
<1>1. ProxyInit => BP!Init
  BY PartsInit, SameBroker
<1>2. [ProxyNext]_allVars => [BP!Next]_BP!vars
  BY BrokerSteps, SameBroker DEF B!vars, BP!vars
<1>3. ProxySpec => BP!SafeSpec
  BY <1>1, <1>2, PTL DEF ProxySpec, BP!SafeSpec
<1> QED
  BY <1>3, BP!BrokerImplementsApprover, PTL

-----------------------------------------------------------------------------
(* How the parts are linked *)

\* A verdict, once there, is there to stay.
LEMMA VerdictStays ==
    ASSUME B!IInv, H!IInv, [B!Next]_B!vars, [H!Next]_H!vars, mode' = mode,
           NEW r \in Requests, Verdict(r) = "approve"
    PROVE  Verdict(r)' = "approve"
<1>1. first[r] = "approve" => first'[r] = "approve"
  <2> SUFFICES ASSUME first[r] = "approve" PROVE first'[r] = "approve"
    OBVIOUS
  <2>1. first \in [Requests -> B!Verdicts \cup {"none"}]
    BY DEF B!IInv, B!TypeOK
  <2>2. CASE first' = first
    BY <2>2
  <2>3. ASSUME NEW o \in Operators, NEW q \in Requests, NEW v \in B!Verdicts, B!Delivered(o, q, v)
        PROVE  first'[r] = "approve"
    BY <2>1, <2>3 DEF B!Delivered
  <2> QED
    BY <2>2, <2>3 DEF B!Next, B!Caller, B!Operator, B!Register, B!Park, B!TakeDecision, B!TimeOut,
       B!ContextDone, B!Unregister, B!Refresh, B!DecideMissing, B!DecideLookup, B!DecideHandOff,
       B!DecideBuffer, B!DecideFull, B!Shutdown, B!vars
<1>2. H!hookVerdict[r] = "approve" => H!hookVerdict'[r] = "approve"
  <2> SUFFICES ASSUME H!hookVerdict[r] = "approve" PROVE H!hookVerdict'[r] = "approve"
    OBVIOUS
  <2>1. hook[r] # H!NoResponse
    BY DEF H!hookVerdict, H!NoResponse
  <2>2. hook'[r] = hook[r]
    BY <2>1 DEF H!Next, H!Post, H!Waits, H!Unreachable, H!Headers, H!Decode, H!Decided, H!Return,
       H!HookAnswers, H!vars, H!IInv, H!TypeOK
  <2> QED
    BY <2>2 DEF H!hookVerdict
<1> QED
  BY <1>1, <1>2 DEF Verdict

\* Nothing that was licensed loses its licence: requests keep what they asked
\* for, and verdicts stay.
LEMMA LicenceStays ==
    ASSUME B!IInv, H!IInv, [B!Next]_B!vars, [H!Next]_H!vars, mode' = mode,
           \A q \in Requests : asked[q] # NoTicket => asked'[q] = asked[q],
           NEW r, NEW reason \in {"mutation", "large_read"}, NEW q,
           Licensed(r, reason, q)
    PROVE  Licensed(r, reason, q)'
<1>1. CASE mode = "auto_approve"
  BY <1>1 DEF Licensed
<1>2. CASE r \in Requests /\ asked[r] = For(reason, q) /\ Verdict(r) = "approve"
  <2>1. asked'[r] = For(reason, q)
    BY <1>2 DEF For, NoTicket
  <2>2. Verdict(r)' = "approve"
    BY <1>2, VerdictStays
  <2> QED
    BY <1>2, <2>1, <2>2 DEF Licensed, Requests
<1> QED
  BY <1>1, <1>2 DEF Licensed

\* Where the calls of Approve are, of the broker and of the HTTP approver.
LEMMA CallTypes ==
    B!IInv /\ H!IInv =>
        /\ calls \in [Requests -> {"idle", "registered", "parked", "returning", "done"}]
        /\ call \in [Requests -> {"idle", "waiting", "reading", "returning", "done"}]
        /\ 0 \notin Requests
<1>1. 0 \notin Requests
  BY ProxyAssumption DEF Requests
<1> QED
  BY <1>1 DEF B!IInv, B!TypeOK, H!IInv, H!TypeOK

\* The state before a step, and what the proofs of the parts say of the step.
Before ==
    /\ ProxyIInv
    /\ IInv' /\ B!IInv' /\ H!IInv'
    /\ [B!Next]_B!vars /\ [H!Next]_H!vars
    /\ mode' = mode

\* A step in which nothing is asked for, run or sent keeps what was licensed.
LEMMA EffectsStay ==
    ASSUME Before, \A q \in Requests : asked[q] # NoTicket => asked'[q] = asked[q],
           UNCHANGED <<policy, ran, ranBy, sent, sentBy, cur>>
    PROVE  EveryEffectIsLicensed'
<1>1. ran.query # NoQuery /\ Gated(ran.query) => Licensed(ranBy, "mutation", ran.query)'
  BY LicenceStays DEF Before, ProxyIInv, LinkInv, EveryEffectIsLicensed, Licensed, Verdict
<1>2. Over(sent.rows) => Licensed(sentBy, "large_read", cur.query)'
  BY LicenceStays DEF Before, ProxyIInv, LinkInv, EveryEffectIsLicensed, Licensed, Verdict
<1> QED
  BY <1>1, <1>2 DEF EveryEffectIsLicensed, Gated, Over

\* The session calls Approve.
LEMMA ApproveStep ==
    ASSUME Before, NEW r \in Requests, Approve(r)
    PROVE  LinkInv'
<1> USE DEF Before, ProxyIInv, LinkInv
<1> DEFINE t == For(IF pc = "gate" THEN "mutation" ELSE "large_read", cur.query)
<1>1. t \in Ticket /\ t # NoTicket
  BY DEF For, Ticket, NoTicket, IInv, TypeOK, ControlType
<1>2. /\ Asks /\ request = 0 /\ asked[r] = NoTicket /\ mode \in {"dashboard", "http"}
      /\ request' = r /\ asked' = [asked EXCEPT ![r] = t]
      /\ UNCHANGED <<vars, mode, grant, ranBy, sentBy, spent>>
  BY DEF Approve, NewID, Unused
<1>3. /\ UNCHANGED <<policy, pc, cur, ran, sent>>
  BY <1>2 DEF vars, log
<1>4. \/ mode = "dashboard" /\ calls' = [calls EXCEPT ![r] = "registered"] /\ UNCHANGED call
      \/ mode = "http" /\ call' = [call EXCEPT ![r] = "waiting"] /\ UNCHANGED calls
  BY DEF Approve, B!Register, H!Post, brokerVars, httpVars
<1>5. /\ calls \in [Requests -> {"idle", "registered", "parked", "returning", "done"}]
      /\ call \in [Requests -> {"idle", "waiting", "reading", "returning", "done"}]
      /\ 0 \notin Requests
  BY CallTypes
<1>6. ProxyType'
  BY <1>1, <1>2 DEF ProxyType
<1>7. CallInv'
  <2>1. request' # 0 => Asks' /\ mode' \in {"dashboard", "http"} /\ asked'[request'] = t
    BY <1>2, <1>3 DEF Asks, ProxyType
  <2>2. \A q \in Requests : calls'[q] \in {"registered", "parked", "returning"}
                              => mode' = "dashboard" /\ request' = q
    BY <1>2, <1>4, <1>5 DEF CallInv
  <2>3. \A q \in Requests : call'[q] \in {"waiting", "reading", "returning"}
                              => mode' = "http" /\ request' = q
    BY <1>2, <1>4, <1>5 DEF CallInv
  <2>4. \A q \in Requests : asked'[q] = NoTicket => calls'[q] = "idle" /\ call'[q] = "idle"
    BY <1>1, <1>2, <1>4, <1>5 DEF CallInv, ProxyType
  <2> QED
    BY <1>3, <2>1, <2>2, <2>3, <2>4 DEF CallInv, NoTicket
<1>8. SpentInv'
  BY <1>1, <1>2, <1>3 DEF SpentInv, Asks, ProxyType, NoTicket
<1>9. GrantInv'
  BY <1>2, <1>3 DEF GrantInv, Asks
<1>10. EveryEffectIsLicensed'
  BY <1>2, <1>3, EffectsStay DEF ProxyType
<1> QED
  BY <1>6, <1>7, <1>8, <1>9, <1>10

\* A step of an approver that does not return to the session: open calls stay
\* with the session that made them.
LEMMA ApproverKeeps ==
    ASSUME Before, ApproverStep
    PROVE  LinkInv'
<1> USE DEF Before, ProxyIInv, LinkInv
<1>1. UNCHANGED <<policy, pc, cur, ran, sent, request, asked, grant, ranBy, sentBy, spent>>
  BY DEF ApproverStep, vars, log, proxyVars
<1>2. \A q \in Requests :
        /\ calls'[q] \in {"registered", "parked", "returning"}
              => calls[q] \in {"registered", "parked", "returning"}
        /\ calls[q] = "idle" => calls'[q] = "idle"
  <2>1. CASE calls' = calls
    BY <2>1
  <2>2. ASSUME NEW r \in Requests, calls[r] \in {"registered", "parked"},
               NEW w \in {"parked", "returning"}, calls' = [calls EXCEPT ![r] = w]
        PROVE  \A q \in Requests :
                 /\ calls'[q] \in {"registered", "parked", "returning"}
                       => calls[q] \in {"registered", "parked", "returning"}
                 /\ calls[q] = "idle" => calls'[q] = "idle"
    BY <2>2, CallTypes
  <2>3. ASSUME NEW r \in Requests, B!Park(r) \/ B!TakeDecision(r) \/ B!TimeOut(r)
        PROVE  /\ calls[r] \in {"registered", "parked"}
               /\ \E w \in {"parked", "returning"} : calls' = [calls EXCEPT ![r] = w]
    BY <2>3 DEF B!Park, B!TakeDecision, B!TimeOut, B!Return, B!Waiting
  <2>4. ASSUME NEW o \in Operators, NEW r \in Requests, NEW v \in B!Verdicts, B!DecideHandOff(o, r, v)
        PROVE  calls[r] = "parked" /\ calls' = [calls EXCEPT ![r] = "returning"]
    BY <2>4 DEF B!DecideHandOff, B!Return
  <2>5. ASSUME NEW o \in Operators, NEW r \in Requests, NEW v \in B!Verdicts,
               B!DecideLookup(o, r, v) \/ B!DecideBuffer(o, r, v) \/ B!DecideFull(o, r, v)
        PROVE  calls' = calls
    BY <2>5 DEF B!DecideLookup, B!DecideBuffer, B!DecideFull
  <2>6. ASSUME NEW o \in Operators, B!Refresh(o) PROVE calls' = calls
    BY <2>6 DEF B!Refresh
  <2>7. CASE UNCHANGED brokerVars
    BY <2>1, <2>7 DEF brokerVars
  <2> QED
    BY <2>1, <2>2, <2>3, <2>4, <2>5, <2>6, <2>7 DEF ApproverStep, OperatorStep
<1>3. \A q \in Requests :
        /\ call'[q] \in {"waiting", "reading", "returning"}
              => call[q] \in {"waiting", "reading", "returning"}
        /\ call[q] = "idle" => call'[q] = "idle"
  BY DEF ApproverStep, httpVars, H!Waits, H!Unreachable, H!Headers, H!Decode, H!Decided,
         H!HookAnswers, H!IInv, H!TypeOK
<1>4. ProxyType' /\ SpentInv'
  BY <1>1 DEF ProxyType, SpentInv
<1>5. CallInv'
  BY <1>1, <1>2, <1>3 DEF CallInv, Asks
<1>6. GrantInv'
  BY <1>1, LicenceStays DEF GrantInv, Licensed, Verdict, Gated
<1>7. EveryEffectIsLicensed'
  BY <1>1, EffectsStay
<1> QED
  BY <1>4, <1>5, <1>6, <1>7

\* The session goes on with an approval that it has asked for and not used, or
\* with the standing one.
LEMMA ProceedStep ==
    ASSUME Before, NEW r \in Requests \cup {0}, Proceed(r),
           Licensed(r, IF pc = "gate" THEN "mutation" ELSE "large_read", cur.query),
           r \in Requests => spent[r] = 0 /\ asked[r] # NoTicket,
           request' = 0, UNCHANGED <<asked, ranBy>>
    PROVE  ProxyType' /\ SpentInv' /\ GrantInv' /\ EveryEffectIsLicensed'
<1> USE DEF Before, ProxyIInv, LinkInv
<1>0. 0 \notin Requests
  BY CallTypes
<1>1. CASE MutationApproved /\ grant' = r /\ UNCHANGED <<sentBy, spent>>
  <2>1. pc = "gate" /\ pc' = "run" /\ UNCHANGED <<policy, cur, ran, sent>>
    BY <1>1 DEF MutationApproved
  <2>2. ProxyType' /\ SpentInv'
    BY <1>0, <1>1, <2>1 DEF ProxyType, SpentInv
  <2>3. Licensed(r, "mutation", cur.query)
    BY <2>1
  <2>4. GrantInv'
    BY <1>1, <2>1, <2>3, LicenceStays DEF GrantInv, Licensed, Verdict
  <2>5. EveryEffectIsLicensed'
    BY <1>1, <2>1, EffectsStay
  <2> QED
    BY <2>2, <2>4, <2>5
<1>2. CASE /\ LargeReadApproved
           /\ sentBy' = r
           /\ spent' = [q \in Requests |-> IF q = r THEN spent[q] + 1 ELSE spent[q]]
           /\ UNCHANGED grant
  <2>1. pc = "limit" /\ pc' # "run" /\ UNCHANGED <<policy, cur, ran>>
    BY <1>2 DEF LargeReadApproved, SendResult
  <2>2. ProxyType'
    BY <1>2 DEF ProxyType
  <2>3. SpentInv'
    <3> SUFFICES ASSUME NEW q \in Requests
                 PROVE  spent'[q] <= 1 /\ (asked[q] = NoTicket => spent'[q] = 0)
      BY <1>0, <1>2, <2>1 DEF SpentInv
    <3>1. spent[q] \in Nat /\ spent[q] <= 1 /\ (asked[q] = NoTicket => spent[q] = 0)
      BY DEF SpentInv, ProxyType
    <3> QED
      BY <1>2, <3>1
  <2>4. GrantInv'
    BY <2>1 DEF GrantInv
  <2>5. Licensed(r, "large_read", cur.query)
    BY <2>1
  <2>6. Over(sent'.rows) => Licensed(sentBy, "large_read", cur.query)'
    BY <1>2, <2>1, <2>5, LicenceStays DEF Licensed, Verdict
  <2>7. ran.query # NoQuery /\ Gated(ran.query) => Licensed(ranBy, "mutation", ran.query)'
    BY <2>1, LicenceStays DEF EveryEffectIsLicensed, Licensed, Verdict
  <2> QED
    BY <2>1, <2>2, <2>3, <2>4, <2>6, <2>7 DEF EveryEffectIsLicensed, Gated, Over
<1> QED
  BY <1>1, <1>2 DEF Proceed

\* The session goes on with a denial: nothing runs and nothing is sent.
LEMMA TurnDownStep ==
    ASSUME Before, TurnDown, request' = 0, UNCHANGED <<asked, ranBy>>
    PROVE  ProxyType' /\ SpentInv' /\ GrantInv' /\ EveryEffectIsLicensed'
<1> USE DEF Before, ProxyIInv, LinkInv
<1>0. 0 \notin Requests
  BY CallTypes
<1>1. pc' # "run" /\ UNCHANGED <<policy, cur, ran, sent, grant, sentBy, spent>>
  BY DEF TurnDown, MutationDenied, LargeReadDenied, BreakInError, EndInError, log
<1>2. ProxyType' /\ SpentInv' /\ GrantInv'
  BY <1>0, <1>1 DEF ProxyType, SpentInv, GrantInv
<1> QED
  BY <1>1, <1>2, EffectsStay

\* Approve returns: the verdict behind an approval is that of this request.
LEMMA AnsweredStep ==
    ASSUME Before, NEW r \in Requests, Answered(r)
    PROVE  LinkInv'
<1> USE DEF Before, ProxyIInv, LinkInv
<1>1. Asks /\ request = r /\ request' = 0 /\ UNCHANGED <<mode, asked, ranBy>>
  BY DEF Answered
<1>2. 0 \notin Requests
  BY CallTypes
<1>3. /\ asked[r] = For(IF pc = "gate" THEN "mutation" ELSE "large_read", cur.query)
      /\ asked[r] # NoTicket /\ spent[r] = 0
  BY <1>1, <1>2 DEF CallInv, SpentInv, For, NoTicket
<1>4. CallInv'
  <2>1. \/ mode = "dashboard" /\ calls' = [calls EXCEPT ![r] = "done"] /\ UNCHANGED call
        \/ mode = "http" /\ call' = [call EXCEPT ![r] = "done"] /\ UNCHANGED calls
    BY DEF Answered, B!Unregister, H!Return, brokerVars, httpVars
  <2>2. \A q \in Requests : calls'[q] \notin {"registered", "parked", "returning"}
    BY <1>1, <2>1, CallTypes DEF CallInv
  <2>3. \A q \in Requests : call'[q] \notin {"waiting", "reading", "returning"}
    BY <1>1, <2>1, CallTypes DEF CallInv
  <2>4. \A q \in Requests : asked'[q] = NoTicket => calls'[q] = "idle" /\ call'[q] = "idle"
    BY <1>1, <1>3, <2>1, CallTypes DEF CallInv
  <2> QED
    BY <1>1, <2>2, <2>3, <2>4 DEF CallInv, NoTicket
<1>5. ASSUME Proceed(r), Verdict(r) = "approve"
      PROVE  ProxyType' /\ SpentInv' /\ GrantInv' /\ EveryEffectIsLicensed'
  <2>1. Licensed(r, IF pc = "gate" THEN "mutation" ELSE "large_read", cur.query)
    BY <1>3, <1>5 DEF Licensed
  <2> QED
    BY <1>1, <1>3, <1>5, <2>1, ProceedStep
<1>6. CASE mode = "dashboard" /\ IF result[r] = "approve" THEN Proceed(r) ELSE TurnDown
  <2>1. result[r] = "approve" => Verdict(r) = "approve"
    BY <1>6 DEF Verdict, B!IInv, B!FirstDecisionWins, B!Verdicts
  <2> QED
    BY <1>1, <1>4, <1>5, <1>6, <2>1, TurnDownStep
<1>7. CASE mode = "http" /\ IF decision[r] = "approve" THEN Proceed(r) ELSE TurnDown
  <2>1. decision[r] = "approve" => Verdict(r) = "approve"
    BY <1>7 DEF Verdict, H!IInv, H!ReadInv
  <2> QED
    BY <1>1, <1>4, <1>5, <1>7, <2>1, TurnDownStep
<1> QED
  BY <1>6, <1>7 DEF Answered

\* A standing decision: there is no request, and auto_deny only turns down.
LEMMA StaticStep ==
    ASSUME Before, StaticAnswer
    PROVE  LinkInv'
<1> USE DEF Before, ProxyIInv, LinkInv
<1>1. request = 0 /\ request' = 0 /\ UNCHANGED <<mode, asked, ranBy>>
  BY DEF StaticAnswer, CallInv
<1>2. CallInv'
  BY <1>1 DEF StaticAnswer, CallInv, brokerVars, httpVars
<1>3. CASE mode = "auto_approve" /\ Proceed(0)
  <2>1. Licensed(0, IF pc = "gate" THEN "mutation" ELSE "large_read", cur.query)
    BY <1>3 DEF Licensed
  <2> QED
    BY <1>1, <1>2, <1>3, <2>1, ProceedStep, CallTypes
<1>4. CASE TurnDown
  BY <1>1, <1>2, <1>4, TurnDownStep
<1> QED
  BY <1>3, <1>4 DEF StaticAnswer

\* A text runs upstream, under the approval it got.
LEMMA RunItStep ==
    ASSUME Before, RunIt
    PROVE  LinkInv'
<1> USE DEF Before, ProxyIInv, LinkInv
<1>1. /\ pc = "run" /\ pc' = "stream" /\ UNCHANGED <<policy, cur, sent>>
      /\ ran' = IF upstream = "down" THEN ran ELSE [query |-> cur.query, ticket |-> ticket]
  BY DEF RunIt, Run
<1>2. request = 0 /\ UNCHANGED <<mode, request, asked, grant, sentBy, calls, call>>
  BY <1>1 DEF RunIt, CallInv, Asks, brokerVars, httpVars
<1>3. 0 \notin Requests
  BY CallTypes
<1>4. CallInv' /\ GrantInv'
  BY <1>1, <1>2 DEF CallInv, GrantInv
<1>5. Over(sent.rows) => Licensed(sentBy, "large_read", cur.query)'
  BY <1>1, <1>2, LicenceStays DEF EveryEffectIsLicensed, Licensed, Verdict
<1>6. CASE upstream # "down" /\ Gated(cur.query)
  <2>1. /\ ranBy' = grant
        /\ spent' = [q \in Requests |-> IF q = grant THEN spent[q] + 1 ELSE spent[q]]
    BY <1>6 DEF RunIt
  <2>2. ProxyType'
    BY <1>2, <2>1 DEF ProxyType
  <2>3. SpentInv'
    <3> SUFFICES ASSUME NEW q \in Requests
                 PROVE  spent'[q] <= 1 /\ (asked[q] = NoTicket => spent'[q] = 0)
      BY <1>1, <1>2, <1>3 DEF SpentInv
    <3>1. /\ spent[q] \in Nat /\ spent[q] <= 1 /\ (asked[q] = NoTicket => spent[q] = 0)
          /\ q = grant => spent[q] = 0 /\ asked[q] # NoTicket
      BY <1>1, <1>3 DEF SpentInv, ProxyType
    <3> QED
      BY <2>1, <3>1
  <2>4. Licensed(grant, "mutation", cur.query)
    BY <1>1, <1>6 DEF GrantInv
  <2>5. Licensed(ranBy, "mutation", ran.query)'
    BY <1>1, <1>2, <1>6, <2>1, <2>4, LicenceStays DEF Licensed, Verdict
  <2> QED
    BY <1>1, <1>4, <1>5, <2>2, <2>3, <2>5 DEF EveryEffectIsLicensed, Over
<1>7. CASE ~(upstream # "down" /\ Gated(cur.query))
  <2>1. UNCHANGED <<ranBy, spent>>
    BY <1>7 DEF RunIt
  <2>2. ProxyType' /\ SpentInv'
    BY <1>1, <1>2, <1>3, <2>1 DEF ProxyType, SpentInv
  <2>3. ran'.query # NoQuery /\ Gated(ran'.query) => Licensed(ranBy, "mutation", ran.query)'
    <3>1. CASE upstream = "down"
      BY <1>1, <1>2, <2>1, <3>1, LicenceStays DEF EveryEffectIsLicensed, Licensed, Verdict
    <3>2. CASE upstream # "down"
      BY <1>1, <1>7, <3>2
    <3> QED
      BY <3>1, <3>2
  <2> QED
    BY <1>1, <1>4, <1>5, <2>2, <2>3 DEF EveryEffectIsLicensed, Over, Gated
<1> QED
  BY <1>6, <1>7

\* A Query or an Execute begins: it holds no approval and has sent nothing.
LEMMA BeginItStep ==
    ASSUME Before, BeginIt
    PROVE  LinkInv'
<1> USE DEF Before, ProxyIInv, LinkInv
<1>1. pc = "receive" /\ UNCHANGED <<policy, ran>>
  BY DEF BeginIt, handleSimpleQuery, handleExecute, Begin, failBatch, log
<1>2. /\ request = 0 /\ UNCHANGED <<mode, request, asked, ranBy, spent, calls, call>>
      /\ grant' = 0
  BY <1>1 DEF BeginIt, CallInv, Asks, brokerVars, httpVars
<1>3. 0 \notin Requests
  BY CallTypes
<1>4. ProxyType' /\ SpentInv'
  BY <1>2, <1>3 DEF ProxyType, SpentInv, BeginIt
<1>5. CallInv'
  BY <1>2 DEF CallInv
<1>6. ran.query # NoQuery /\ Gated(ran.query) => Licensed(ranBy, "mutation", ran.query)'
  BY <1>1, <1>2, LicenceStays DEF EveryEffectIsLicensed, Licensed, Verdict
<1>7. ASSUME NEW q, NEW how, Begin(q, how) PROVE LinkInv'
  <2>1. pc' = "run" => ~Gated(cur'.query)
    BY <1>1, <1>7 DEF Begin, Gated
  <2>2. GrantInv'
    BY <1>1, <2>1 DEF GrantInv, Gated
  <2>3. ~Over(sent'.rows)
    BY <1>7, NoneSent DEF Begin, NotSent, IInv, TypeOK
  <2> QED
    BY <1>1, <1>4, <1>5, <1>6, <2>2, <2>3 DEF EveryEffectIsLicensed, Gated, Over
<1>8. CASE failBatch
  <2>1. pc' = pc /\ UNCHANGED <<cur, sent>>
    BY <1>8 DEF failBatch, log
  <2>2. sentBy' = sentBy
    BY <1>1, <2>1 DEF BeginIt
  <2>3. GrantInv'
    BY <1>1, <2>1 DEF GrantInv
  <2> QED
    BY <1>1, <1>2, <1>4, <1>5, <2>1, <2>2, <2>3, EffectsStay
<1> QED
  BY <1>7, <1>8 DEF BeginIt, handleSimpleQuery, handleExecute

\* A result within the limit is sent; it needs no licence.
LEMMA StreamItStep ==
    ASSUME Before, StreamIt
    PROVE  LinkInv'
<1> USE DEF Before, ProxyIInv, LinkInv
<1>1. /\ pc = "stream" /\ pc' \in {"stream", "receive"} /\ UNCHANGED <<policy, cur, ran>>
      /\ ~Over(sent'.rows)
  BY DEF StreamIt, StreamResult, SendResult
<1>2. /\ request = 0 /\ UNCHANGED <<mode, request, asked, grant, ranBy, spent, calls, call>>
      /\ sentBy' = 0
  BY <1>1 DEF StreamIt, CallInv, Asks, brokerVars, httpVars
<1>3. ProxyType' /\ SpentInv' /\ CallInv' /\ GrantInv'
  BY <1>1, <1>2 DEF ProxyType, SpentInv, CallInv, GrantInv
<1>4. ran.query # NoQuery /\ Gated(ran.query) => Licensed(ranBy, "mutation", ran.query)'
  BY <1>1, <1>2, LicenceStays DEF EveryEffectIsLicensed, Licensed, Verdict
<1> QED
  BY <1>1, <1>3, <1>4 DEF EveryEffectIsLicensed, Gated, Over

\* Everything else that the session does runs nothing, sends no result and
\* leaves a session that waits where it is.
LEMMA ElsewhereStep ==
    ASSUME Before, Elsewhere \/ UNCHANGED allVars
    PROVE  LinkInv'
<1> USE DEF Before, ProxyIInv, LinkInv
<1>1. UNCHANGED <<request, asked, grant, ranBy, sentBy, spent, calls, call>>
  BY DEF Elsewhere, allVars, proxyVars, brokerVars, httpVars
<1>2. UNCHANGED <<policy, cur, ran, sent>> /\ (pc' = pc \/ (pc' # "run" /\ ~Asks))
  <2> USE DEF names, batch, outcome, log, ready, Asks
  <2>1. CASE \/ \E q \in Query, s \in StmtName : handleParse(s, q)
             \/ \E p \in PortalName, s \in StmtName : handleBind(p, s)
             \/ \E s \in StmtName : handleCloseStatement(s)
             \/ \E p \in PortalName : handleClosePortal(p)
    BY <2>1 DEF handleParse, handleBind, handleCloseStatement, handleClosePortal
  <2>2. CASE \/ \E s \in StmtName : handleDescribeStatement(s)
             \/ \E p \in PortalName : handleDescribePortal(p)
    BY <2>2 DEF handleDescribeStatement, handleDescribePortal, failBatch, DescribeKnown, ensureFields
  <2>3. CASE Sync \/ Terminate \/ ReceiveFails \/ Disconnect \/ UpstreamLost \/ UNCHANGED allVars
    BY <2>3 DEF Sync, Terminate, ReceiveFails, EndSession, Disconnect, UpstreamLost, allVars, vars
  <2>4. CASE AskLargeRead \/ ResultFails \/ CloseResults \/ SchemaAnswered \/ SchemaFails
    BY <2>4 DEF AskLargeRead, ResultFails, BreakInError, CloseResults, SchemaAnswered, SchemaFails,
                EndInError
  <2> QED
    BY <2>1, <2>2, <2>3, <2>4 DEF Elsewhere
<1>3. ProxyType' /\ SpentInv'
  BY <1>1, <1>2 DEF ProxyType, SpentInv
<1>4. CallInv'
  BY <1>1, <1>2 DEF CallInv, Asks
<1>5. GrantInv'
  BY <1>1, <1>2, LicenceStays DEF GrantInv, Licensed, Verdict, Gated
<1>6. EveryEffectIsLicensed'
  BY <1>1, <1>2, EffectsStay
<1> QED
  BY <1>3, <1>4, <1>5, <1>6

-----------------------------------------------------------------------------
(* Theorems *)

\* Every step preserves the invariant.
LEMMA ProxyInductive == ProxyIInv /\ [ProxyNext]_allVars => ProxyIInv'
<1> SUFFICES ASSUME ProxyIInv, [ProxyNext]_allVars PROVE ProxyIInv'
  OBVIOUS
<1>1. [Next]_vars /\ [B!Next]_B!vars /\ [H!Next]_H!vars
  BY SessionSteps, BrokerSteps, HookSteps
<1>2. IInv' /\ B!IInv' /\ H!IInv'
  BY <1>1, IInvInductive, PartsInductive DEF ProxyIInv
<1>3. mode' = mode
  BY DEF ProxyNext, Approve, Answered, StaticAnswer, ApproverStep, RunIt, BeginIt, StreamIt,
         Elsewhere, proxyVars, allVars
<1>4. Before
  BY <1>1, <1>2, <1>3 DEF Before
<1>5. LinkInv'
  BY <1>4, ApproveStep, AnsweredStep, StaticStep, ApproverKeeps, RunItStep, BeginItStep,
     StreamItStep, ElsewhereStep DEF ProxyNext
<1> QED
  BY <1>2, <1>5 DEF ProxyIInv

\* Initially nothing was asked, granted, run or sent.
LEMMA ProxyIInvInit == ProxyInit => ProxyIInv
<1> SUFFICES ASSUME ProxyInit PROVE ProxyIInv
  OBVIOUS
<1>1. IInv /\ B!IInv /\ H!IInv
  BY PartsInit
<1>2. ProxyType
  BY DEF ProxyInit, ProxyType, NoTicket, Ticket
<1>3. CallInv /\ SpentInv /\ GrantInv
  BY DEF ProxyInit, B!Init, H!Init, Init, CallInv, SpentInv, GrantInv
<1>4. ~Over(0)
  BY <1>1, NoneSent DEF IInv, TypeOK
<1>5. EveryEffectIsLicensed
  BY <1>4 DEF ProxyInit, Init, EveryEffectIsLicensed, NotSent
<1> QED
  BY <1>1, <1>2, <1>3, <1>5 DEF ProxyIInv, LinkInv

\* It is an invariant of the specification.
LEMMA ProxyIInvHolds == ProxySpec => []ProxyIInv
  BY ProxyIInvInit, ProxyInductive, PTL DEF ProxySpec

\* No effect without a licence: what is gated runs, and what is too large is
\* sent, only under a request for that very text whose first decision was to
\* approve it, for any number of requests, operators, texts and names.
THEOREM Licence == ProxySpec => []EveryEffectIsLicensed
<1>1. ProxyIInv => EveryEffectIsLicensed
  BY DEF ProxyIInv, LinkInv
<1> QED
  BY <1>1, ProxyIInvHolds, PTL

\* One approval, one effect, for any number of requests, texts and names: also
\* when a client executes the same portal again.
THEOREM SpentOnce == ProxySpec => []ApprovalIsSpentOnce
<1>1. ProxyIInv => ApprovalIsSpentOnce
  BY DEF ProxyIInv, LinkInv, SpentInv, ApprovalIsSpentOnce
<1> QED
  BY <1>1, ProxyIInvHolds, PTL

\* The dashboard's cards are the sessions that wait for an operator.
THEOREM Cards == ProxySpec => []CardsAreWaitingSessions
<1>1. ProxyIInv => CardsAreWaitingSessions
  <2> SUFFICES ASSUME ProxyIInv PROVE CardsAreWaitingSessions
    OBVIOUS
  <2> USE DEF ProxyIInv, LinkInv
  <2>0. 0 \notin Requests
    BY CallTypes
  <2>1. \A r \in pending : r \in Requests /\ calls[r] \in {"registered", "parked", "returning"}
    BY DEF B!IInv, B!TypeOK, B!PendingInv
  <2>2. \A r \in pending : Asks /\ request = r
    BY <2>0, <2>1 DEF CallInv
  <2>3. request # 0 /\ calls[request] \in {"registered", "parked"} => request \in pending
    BY DEF ProxyType, B!IInv, B!PendingInv
  <2> QED
    BY <2>2, <2>3 DEF CardsAreWaitingSessions
<1> QED
  BY <1>1, ProxyIInvHolds, PTL

=============================================================================
