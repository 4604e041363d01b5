---------------------------- MODULE SessionProofs ----------------------------
(***************************************************************************)
(* Theorems about Session, for every set of texts, names and limits, and   *)
(* any classification of the texts.                                        *)
(***************************************************************************)
EXTENDS Session, SequenceTheorems, TLAPS

USE QueryAssumption, BoundAssumption

-----------------------------------------------------------------------------
(* Facts about the data *)

\* What the upstream delivers is a sequence of row counts and an error.
LEMMA DeliveryType ==
    ASSUME NEW d \in Delivery \cup Single
    PROVE  d \in [rows : Seq(RowCounts), err : {"none", "early", "mid"}]
<1>1. \A n \in Nat : [1..n -> RowCounts] \subseteq Seq(RowCounts)
  BY SeqDef
<1>2. CASE d \in Delivery
  <2>1. PICK n \in 0..MaxResults : d.rows \in [1..n -> RowCounts]
    BY <1>2 DEF Delivery
  <2> QED
    BY <1>1, <1>2, <2>1 DEF Delivery
<1>3. CASE d \in Single
  BY <1>1, <1>3, EmptySeq DEF Single
<1> QED
  BY <1>2, <1>3

\* An extended Execute gets one result or one error, never both.
LEMMA SingleShape ==
    ASSUME NEW d \in Single
    PROVE  d.err = (IF d.rows = <<>> THEN "mid" ELSE "none")
<1>1. CASE d \in [rows : [1..1 -> RowCounts], err : {"none"}]
  <2>1. d.rows # <<>>
    BY <1>1
  <2> QED
    BY <1>1, <2>1
<1> QED
  BY <1>1 DEF Single

\* Taking a result off the sequence of results leaves row counts.
LEMMA SeqFacts ==
    \A w \in Seq(RowCounts) : w # <<>> => Head(w) \in RowCounts /\ Tail(w) \in Seq(RowCounts)
  BY HeadTailProperties

\* An empty result is never over the limit.
LEMMA NoneSent == ControlType => ~Over(0)
<1> SUFFICES ASSUME ControlType PROVE ~Over(0)
  OBVIOUS
<1>1. policy.maxRows \in Nat
  BY DEF ControlType
<1> QED
  BY <1>1 DEF Over

\* A portal stands for a recorded text or for nothing.
LEMMA ResolveType ==
    ASSUME NamesType, NEW p \in PortalName
    PROVE  Resolve(p) \in [query : Query, described : BOOLEAN] \cup {NoStmt}
  BY DEF NamesType, Resolve

-----------------------------------------------------------------------------
(* Steps that several messages share *)

\* failBatch keeps the invariant: it is called once per batch.
LEMMA FailBatchStep ==
    ASSUME IInv, pc = "receive", ~batchFailed, failBatch
    PROVE  IInv'
<1> USE DEF IInv, TypeOK, failBatch, ExtendedError, names, batch, outcome, log, ready
<1>1. ControlType' /\ NamesType' /\ LogType' /\ FlagType'
  BY DEF ControlType, Status, NamesType, LogType, Ticket, NoTicket, NotSent,
      FlagType
<1>2. ReplyType' /\ ProtocolInv'
  BY DEF FlagType, ReplyType, ProtocolInv, Working, ControlType, Status,
      NamesType, NoStmt
<1>3. TicketInv' /\ StreamInv' /\ GatedRunsApproved' /\ LargeReadsApproved'
  BY DEF TicketInv, Gated, FlagType, StreamInv, FailureIsReported,
      ControlType, GatedRunsApproved, LargeReadsApproved, Over, NotSent
<1> QED
  BY <1>1, <1>2, <1>3

\* Describing a known statement keeps the invariant: Prepare runs nothing.
LEMMA DescribeStep ==
    ASSUME IInv, pc = "receive", ~batchFailed,
           NEW s \in StmtName, statements[s] # NoStmt, DescribeKnown(s)
    PROVE  IInv'
<1> USE DEF IInv, TypeOK, DescribeKnown, names, batch, outcome, log, ready
<1>1. CASE UNCHANGED <<pc, names, batch, upstream, outcome, ready>>
  BY <1>1 DEF ControlType, NamesType, LogType, FlagType, ReplyType, ProtocolInv,
              TicketInv, StreamInv, GatedRunsApproved, LargeReadsApproved, Working, Gated, Over,
              Status, Ticket, NoTicket, NotSent, NoStmt
<1>2. CASE /\ statements' = [statements EXCEPT ![s] = [query |-> @.query, described |-> TRUE]]
           /\ UNCHANGED <<pc, portals, batch, upstream, outcome, ready>>
  <2>1. statements[s] \in [query : Query, described : BOOLEAN]
    BY DEF NamesType
  <2>2. NamesType'
    BY <1>2, <2>1 DEF NamesType
  <2>3. ControlType' /\ LogType' /\ FlagType' /\ ReplyType'
    BY <1>2 DEF ControlType, LogType, FlagType, ReplyType
  <2>4. ProtocolInv' /\ TicketInv' /\ StreamInv' /\ GatedRunsApproved' /\ LargeReadsApproved'
    BY <1>2 DEF ProtocolInv, TicketInv, StreamInv, GatedRunsApproved,
                LargeReadsApproved, Working, Gated, Over
  <2> QED
    BY <2>2, <2>3, <2>4
<1>3. CASE /\ upstream' \in {After("none", FALSE), "down"}
           /\ pc' = pc
           /\ ExtendedError
           /\ UNCHANGED names
  <2> USE DEF ExtendedError
  <2>1. ControlType' /\ NamesType' /\ LogType' /\ FlagType'
    BY <1>3 DEF ControlType, NamesType, LogType, FlagType, Status, After
  <2>2. ReplyType' /\ ProtocolInv'
    BY <1>3 DEF ReplyType, ProtocolInv, Working
  <2>3. TicketInv' /\ StreamInv' /\ GatedRunsApproved' /\ LargeReadsApproved'
    BY <1>3 DEF TicketInv, StreamInv, GatedRunsApproved, LargeReadsApproved, Gated, Over
  <2> QED
    BY <2>1, <2>2, <2>3
<1> QED
  BY <1>1, <1>2, <1>3 DEF ensureFields

-----------------------------------------------------------------------------
\* The actions that disturb the invariant in one place only.
LEMMA QuietStep ==
    ASSUME IInv,
           \/ \E s \in StmtName, q \in Query : handleParse(s, q)
           \/ \E p \in PortalName, s \in StmtName : handleBind(p, s)
           \/ \E s \in StmtName : handleCloseStatement(s)
           \/ \E p \in PortalName : handleClosePortal(p)
           \/ Terminate \/ MutationApproved \/ AskLargeRead \/ CloseResults
           \/ SchemaAnswered \/ Disconnect \/ ReceiveFails \/ UpstreamLost
           \/ UNCHANGED vars
    PROVE  IInv'
<1> USE DEF IInv, TypeOK, ControlType, NamesType, LogType, FlagType, ReplyType, ProtocolInv,
            TicketInv, StreamInv, GatedRunsApproved, LargeReadsApproved, Working, Gated, Over,
            Status, Ticket, NoTicket, NotSent, NoStmt, names, batch, outcome, log, ready
<1>1. ASSUME NEW s \in StmtName, NEW q \in Query, handleParse(s, q) PROVE IInv'
  BY <1>1 DEF handleParse
<1>2. ASSUME NEW p \in PortalName, NEW s \in StmtName, handleBind(p, s) PROVE IInv'
  BY <1>2 DEF handleBind
<1>3. ASSUME NEW s \in StmtName, handleCloseStatement(s) PROVE IInv'
  BY <1>3 DEF handleCloseStatement
<1>4. ASSUME NEW p \in PortalName, handleClosePortal(p) PROVE IInv'
  BY <1>4 DEF handleClosePortal, NoPortal
<1>5. CASE Terminate
  BY <1>5 DEF Terminate, EndSession
<1>6. CASE MutationApproved
  BY <1>6 DEF MutationApproved, For
<1>7. CASE AskLargeRead
  BY <1>7 DEF AskLargeRead
<1>8. CASE CloseResults
  BY <1>8 DEF CloseResults, Ready, Nothing
<1>9. CASE SchemaAnswered
  BY <1>9 DEF SchemaAnswered, Ready
<1>10. CASE Disconnect
  BY <1>10 DEF Disconnect
<1>11. CASE ReceiveFails
  BY <1>11 DEF ReceiveFails, EndSession
<1>12. CASE UpstreamLost
  BY <1>12 DEF UpstreamLost
<1>13. CASE UNCHANGED vars
  BY <1>13 DEF vars
<1> HIDE DEF IInv
<1> QED
  BY <1>1, <1>2, <1>3, <1>4, <1>5, <1>6, <1>7, <1>8, <1>9, <1>10, <1>11, <1>12, <1>13

-----------------------------------------------------------------------------
\* Every step of the session keeps the invariant.
LEMMA IInvInductive == IInv /\ [Next]_vars => IInv'
<1> SUFFICES ASSUME IInv, [Next]_vars PROVE IInv'
  OBVIOUS
<1> USE DEF names, batch, outcome, log, ready
<1>0. /\ ControlType /\ NamesType /\ LogType /\ FlagType /\ ReplyType
      /\ ProtocolInv /\ TicketInv /\ StreamInv /\ GatedRunsApproved /\ LargeReadsApproved
  BY DEF IInv, TypeOK
<1>1. ASSUME NEW q \in Query, handleSimpleQuery(q) PROVE IInv'
  <2>1. ControlType' /\ NamesType'
    BY <1>0, <1>1 DEF handleSimpleQuery, Begin, ControlType, Status, NamesType
  <2>2. LogType' /\ FlagType'
    BY <1>0, <1>1 DEF handleSimpleQuery, Begin, LogType, ControlType, Ticket,
        NoTicket, NotSent, FlagType
  <2>3. ReplyType' /\ ProtocolInv'
    BY <1>0, <1>1 DEF handleSimpleQuery, Begin, FlagType, ReplyType,
        ProtocolInv, Working, ControlType, Status, NamesType, NoStmt
  <2>4. TicketInv' /\ StreamInv'
    BY <1>0, <1>1 DEF handleSimpleQuery, Begin, TicketInv, Gated, FlagType,
        StreamInv, FailureIsReported, ControlType
  <2>5. GatedRunsApproved' /\ LargeReadsApproved'
    BY <1>0, <1>1, NoneSent DEF handleSimpleQuery, Begin, GatedRunsApproved,
        TicketInv, ControlType, Gated, LargeReadsApproved, Over, NotSent
  <2> QED
    BY <2>1, <2>2, <2>3, <2>4, <2>5 DEF IInv, TypeOK
<1>2. CASE Sync
  <2>1. ControlType' /\ NamesType'
    BY <1>0, <1>2 DEF Sync, Ready, ControlType, Status, NamesType
  <2>2. LogType' /\ FlagType'
    BY <1>0, <1>2 DEF Sync, Ready, LogType, ControlType, Ticket, NoTicket,
        NotSent, FlagType
  <2>3. ReplyType' /\ ProtocolInv'
    BY <1>0, <1>2 DEF Sync, Ready, FlagType, ReplyType, ProtocolInv, Working,
        ControlType, Status, NamesType, NoStmt
  <2>4. TicketInv' /\ StreamInv'
    BY <1>0, <1>2 DEF Sync, Ready, TicketInv, Gated, FlagType, StreamInv,
        FailureIsReported, ControlType
  <2>5. GatedRunsApproved' /\ LargeReadsApproved'
    BY <1>0, <1>2 DEF Sync, Ready, GatedRunsApproved, TicketInv, ControlType,
        Gated, LargeReadsApproved, Over, NotSent
  <2> QED
    BY <2>1, <2>2, <2>3, <2>4, <2>5 DEF IInv, TypeOK
<1>3. CASE MutationDenied
  <2>1. ControlType' /\ NamesType'
    BY <1>0, <1>3 DEF MutationDenied, EndInError, SimpleError, ExtendedError,
        Ready, ControlType, Status, NamesType
  <2>2. LogType' /\ FlagType'
    BY <1>0, <1>3 DEF MutationDenied, EndInError, SimpleError, ExtendedError,
        Ready, LogType, ControlType, Ticket, NoTicket, NotSent, FlagType
  <2>3. ReplyType' /\ ProtocolInv'
    BY <1>0, <1>3 DEF MutationDenied, EndInError, SimpleError, ExtendedError,
        Ready, FlagType, ReplyType, ProtocolInv, Working, ControlType, Status,
        NamesType, NoStmt
  <2>4. TicketInv' /\ StreamInv'
    BY <1>0, <1>3 DEF MutationDenied, EndInError, SimpleError, ExtendedError,
        Ready, TicketInv, Gated, FlagType, StreamInv, FailureIsReported,
        ControlType
  <2>5. GatedRunsApproved' /\ LargeReadsApproved'
    BY <1>0, <1>3 DEF MutationDenied, EndInError, SimpleError, ExtendedError,
        Ready, GatedRunsApproved, TicketInv, ControlType, Gated,
        LargeReadsApproved, Over, NotSent
  <2> QED
    BY <2>1, <2>2, <2>3, <2>4, <2>5 DEF IInv, TypeOK
<1>4. CASE StreamResult
  <2>1. ControlType' /\ NamesType'
    BY <1>0, <1>4, SeqFacts DEF StreamResult, SendResult, ControlType, Status,
        NamesType
  <2>2. LogType' /\ FlagType'
    BY <1>0, <1>4, SeqFacts DEF StreamResult, SendResult, LogType,
        ControlType, Ticket, NoTicket, NotSent, FlagType
  <2>3. ReplyType' /\ ProtocolInv'
    BY <1>0, <1>4 DEF StreamResult, SendResult, FlagType, ReplyType,
        ProtocolInv, Working, ControlType, Status, NamesType, NoStmt
  <2>4. TicketInv' /\ StreamInv'
    BY <1>0, <1>4 DEF StreamResult, SendResult, TicketInv, Gated, FlagType,
        StreamInv, FailureIsReported, ControlType
  <2>5. GatedRunsApproved' /\ LargeReadsApproved'
    BY <1>0, <1>4 DEF StreamResult, SendResult, GatedRunsApproved, TicketInv,
        ControlType, Gated, LargeReadsApproved, Over, NotSent
  <2> QED
    BY <2>1, <2>2, <2>3, <2>4, <2>5 DEF IInv, TypeOK
<1>5. CASE LargeReadApproved
  <2>1. ControlType' /\ NamesType'
    BY <1>0, <1>5, SeqFacts DEF LargeReadApproved, SendResult, For, StreamInv,
        ControlType, Status, NamesType
  <2>2. LogType' /\ FlagType'
    BY <1>0, <1>5, SeqFacts DEF LargeReadApproved, SendResult, For, StreamInv,
        LogType, ControlType, Ticket, NoTicket, NotSent, FlagType
  <2>3. ReplyType' /\ ProtocolInv'
    BY <1>0, <1>5 DEF LargeReadApproved, SendResult, For, StreamInv, FlagType,
        ReplyType, ProtocolInv, Working, ControlType, Status, NamesType,
        NoStmt
  <2>4. TicketInv' /\ StreamInv'
    BY <1>0, <1>5 DEF LargeReadApproved, SendResult, For, StreamInv,
        TicketInv, Gated, FlagType, FailureIsReported, ControlType
  <2>5. GatedRunsApproved' /\ LargeReadsApproved'
    BY <1>0, <1>5 DEF LargeReadApproved, SendResult, For, StreamInv,
        GatedRunsApproved, TicketInv, ControlType, Gated, LargeReadsApproved,
        Over, NotSent
  <2> QED
    BY <2>1, <2>2, <2>3, <2>4, <2>5 DEF IInv, TypeOK
<1>6. CASE ResultFails
  <2>1. ControlType' /\ NamesType'
    BY <1>0, <1>6, EmptySeq DEF ResultFails, BreakInError, Nothing,
        EndInError, SimpleError, ExtendedError, Ready, ControlType, Status,
        NamesType
  <2>2. LogType' /\ FlagType'
    BY <1>0, <1>6 DEF ResultFails, BreakInError, Nothing, EndInError,
        SimpleError, ExtendedError, Ready, LogType, ControlType, Ticket,
        NoTicket, NotSent, FlagType
  <2>3. ReplyType' /\ ProtocolInv'
    BY <1>0, <1>6 DEF ResultFails, BreakInError, Nothing, EndInError,
        SimpleError, ExtendedError, Ready, FlagType, ReplyType, ProtocolInv,
        Working, ControlType, Status, NamesType, NoStmt
  <2>4. TicketInv' /\ StreamInv'
    BY <1>0, <1>6 DEF ResultFails, BreakInError, Nothing, EndInError,
        SimpleError, ExtendedError, Ready, TicketInv, Gated, FlagType,
        StreamInv, FailureIsReported, ControlType
  <2>5. GatedRunsApproved' /\ LargeReadsApproved'
    BY <1>0, <1>6 DEF ResultFails, BreakInError, Nothing, EndInError,
        SimpleError, ExtendedError, Ready, GatedRunsApproved, TicketInv,
        ControlType, Gated, LargeReadsApproved, Over, NotSent
  <2> QED
    BY <2>1, <2>2, <2>3, <2>4, <2>5 DEF IInv, TypeOK
<1>7. CASE SchemaFails
  <2>1. ControlType' /\ NamesType'
    BY <1>0, <1>7 DEF SchemaFails, EndInError, SimpleError, ExtendedError,
        Ready, After, ControlType, Status, NamesType
  <2>2. LogType' /\ FlagType'
    BY <1>0, <1>7 DEF SchemaFails, EndInError, SimpleError, ExtendedError,
        Ready, After, LogType, ControlType, Ticket, NoTicket, NotSent,
        FlagType
  <2>3. ReplyType' /\ ProtocolInv'
    BY <1>0, <1>7 DEF SchemaFails, EndInError, SimpleError, ExtendedError,
        Ready, After, FlagType, ReplyType, ProtocolInv, Working, ControlType,
        Status, NamesType, NoStmt
  <2>4. TicketInv' /\ StreamInv'
    BY <1>0, <1>7 DEF SchemaFails, EndInError, SimpleError, ExtendedError,
        Ready, After, TicketInv, Gated, FlagType, StreamInv,
        FailureIsReported, ControlType
  <2>5. GatedRunsApproved' /\ LargeReadsApproved'
    BY <1>0, <1>7 DEF SchemaFails, EndInError, SimpleError, ExtendedError,
        Ready, After, GatedRunsApproved, TicketInv, ControlType, Gated,
        LargeReadsApproved, Over, NotSent
  <2> QED
    BY <2>1, <2>2, <2>3, <2>4, <2>5 DEF IInv, TypeOK
<1>8. CASE LargeReadDenied
  <2>1. ControlType'
    <3>1. [rows |-> <<>>, err |-> todo.err] \in [rows : Seq(RowCounts), err : {"none", "early", "mid"}]
      BY <1>0, EmptySeq DEF ControlType
    <3>2. Nothing \in [rows : Seq(RowCounts), err : {"none", "early", "mid"}]
      BY EmptySeq DEF Nothing
    <3> QED
      BY <1>0, <1>8, <3>1, <3>2 DEF LargeReadDenied, BreakInError, EndInError, ControlType
  <2>2. NamesType'
    BY <1>0, <1>8 DEF LargeReadDenied, BreakInError, Nothing, EndInError,
        SimpleError, ExtendedError, Ready, NamesType
  <2>3. LogType' /\ FlagType'
    BY <1>0, <1>8 DEF LargeReadDenied, BreakInError, Nothing, EndInError,
        SimpleError, ExtendedError, Ready, LogType, ControlType, Ticket,
        NoTicket, NotSent, FlagType
  <2>4. ReplyType' /\ ProtocolInv'
    BY <1>0, <1>8 DEF LargeReadDenied, BreakInError, Nothing, EndInError,
        SimpleError, ExtendedError, Ready, FlagType, ReplyType, ProtocolInv,
        Working, ControlType, Status, NamesType, NoStmt
  <2>5. TicketInv' /\ StreamInv'
    BY <1>0, <1>8 DEF LargeReadDenied, BreakInError, Nothing, EndInError,
        SimpleError, ExtendedError, Ready, TicketInv, Gated, FlagType,
        StreamInv, FailureIsReported, ControlType
  <2>6. GatedRunsApproved' /\ LargeReadsApproved'
    BY <1>0, <1>8 DEF LargeReadDenied, BreakInError, Nothing, EndInError,
        SimpleError, ExtendedError, Ready, GatedRunsApproved, TicketInv,
        ControlType, Gated, LargeReadsApproved, Over, NotSent
  <2> QED
    BY <2>1, <2>2, <2>3, <2>4, <2>5, <2>6 DEF IInv, TypeOK
<1>9. CASE Run
  <2>1. ControlType' /\ NamesType'
    BY <1>0, <1>9, DeliveryType DEF Run, After, ControlType, NamesType, Status
  <2>2. LogType' /\ FlagType'
    BY <1>0, <1>9 DEF Run, LogType, FlagType, ControlType, Ticket, NoTicket
  <2>3. ReplyType' /\ ProtocolInv'
    BY <1>0, <1>9 DEF Run, ReplyType, ProtocolInv, Working
  <2>4. TicketInv'
    BY <1>0, <1>9 DEF Run, TicketInv
  <2>5. StreamInv'
    <3>1. pc' = "stream" /\ cur' = cur /\ (failed => reported)
      BY <1>0, <1>9 DEF Run, StreamInv
    <3>2. failed' /\ ~reported' => todo'.err # "none"
      BY <1>9, <3>1 DEF Run
    <3>3. cur.how = "extended" => todo' \in Single
      BY <1>9 DEF Run
    <3> QED
      BY <3>1, <3>2, <3>3, SingleShape DEF StreamInv
  <2>6. GatedRunsApproved' /\ LargeReadsApproved'
    BY <1>0, <1>9 DEF Run, GatedRunsApproved, LargeReadsApproved, TicketInv, Gated, Over, For
  <2> QED
    BY <2>1, <2>2, <2>3, <2>4, <2>5, <2>6 DEF IInv, TypeOK
<1>10. ASSUME NEW p \in PortalName, handleExecute(p) PROVE IInv'
  <2>1. CASE Resolve(p) = NoStmt
    BY <1>10, <2>1, FailBatchStep DEF handleExecute
  <2>2. CASE Resolve(p) # NoStmt
    <3> DEFINE q == Resolve(p).query
    <3>1. q \in Query
      BY <1>0, <2>2, ResolveType
    <3>2. /\ pc = "receive" /\ ~batchFailed
          /\ Begin(q, "extended")
          /\ UNCHANGED <<failed, reported, owed, told>>
      BY <1>10, <2>2 DEF handleExecute
    <3> HIDE DEF q
    <3>3. ControlType' /\ NamesType'
      BY <1>0, <3>1, <3>2 DEF Begin, ControlType, NamesType
    <3>4. LogType'
      BY <1>0, <3>2 DEF Begin, LogType, NotSent, NoTicket, Ticket
    <3>5. FlagType'
      BY <1>0, <3>2 DEF Begin, FlagType
    <3>6. ReplyType' /\ ProtocolInv'
      BY <1>0, <3>1, <3>2 DEF Begin, ReplyType, ProtocolInv, Working
    <3>7. TicketInv' /\ StreamInv'
      BY <1>0, <3>2 DEF Begin, TicketInv, StreamInv, Gated
    <3>8. GatedRunsApproved' /\ LargeReadsApproved'
      BY <1>0, <3>2, NoneSent DEF Begin, GatedRunsApproved, LargeReadsApproved,
         Gated, Over, NotSent
    <3> QED
      BY <3>3, <3>4, <3>5, <3>6, <3>7, <3>8 DEF IInv, TypeOK
  <2> QED
    BY <2>1, <2>2
<1>11. ASSUME NEW s \in StmtName, handleDescribeStatement(s) PROVE IInv'
  BY <1>11, FailBatchStep, DescribeStep DEF handleDescribeStatement
<1>12. ASSUME NEW p \in PortalName, handleDescribePortal(p) PROVE IInv'
  <2>1. Resolve(p) # NoStmt => portals[p] \in StmtName /\ Resolve(p) = statements[portals[p]]
    BY DEF Resolve
  <2> QED
    BY <1>12, <2>1, FailBatchStep, DescribeStep DEF handleDescribePortal
<1> QED
  BY <1>1, <1>2, <1>3, <1>4, <1>5, <1>6, <1>7, <1>8, <1>9, <1>10, <1>11, <1>12, QuietStep
  DEF Next, Message, Handler

\* The invariant holds when nothing has happened yet.
LEMMA IInvInit == Init => IInv
<1> SUFFICES ASSUME Init PROVE IInv
  OBVIOUS
<1>1. TypeOK
  BY EmptySeq DEF Init, TypeOK, ControlType, NamesType, LogType, FlagType, ReplyType,
     Status, Ticket, NoTicket, NoStmt, NoPortal, NotSent, Nothing
<1>2. ProtocolInv /\ TicketInv /\ StreamInv /\ GatedRunsApproved
  BY DEF Init, ProtocolInv, TicketInv, StreamInv, GatedRunsApproved, Working
<1>3. LargeReadsApproved
  BY <1>1, NoneSent DEF Init, LargeReadsApproved, TypeOK, NotSent
<1> QED
  BY <1>1, <1>2, <1>3 DEF IInv

\* The invariant holds for ever.
LEMMA IInvSafe == SafeSpec => []IInv
  BY IInvInit, IInvInductive, PTL DEF SafeSpec

\* Fairness takes nothing away.
LEMMA IInvHolds == Spec => []IInv
  BY IInvSafe, PTL DEF Spec

-----------------------------------------------------------------------------
\* The session's data keep their shape under any sequence of messages,
\* answers and failures.
THEOREM TypeCorrect == Spec => []TypeOK
<1>1. IInv => TypeOK
  BY DEF IInv
<1> QED
  BY <1>1, IInvHolds, PTL

\* The gate holds: a mutation of a gated connection runs upstream only with an
\* approval of that text, given for that run.
THEOREM GateHolds == Spec => []GatedRunsApproved
<1>1. IInv => GatedRunsApproved
  BY DEF IInv
<1> QED
  BY <1>1, IInvHolds, PTL

\* The row limit holds: a result over max_rows is sent only when approved.
THEOREM LimitHolds == Spec => []LargeReadsApproved
<1>1. IInv => LargeReadsApproved
  BY DEF IInv
<1> QED
  BY <1>1, IInvHolds, PTL

\* One ReadyForQuery for each Query and each Sync.
THEOREM ReadyCount == Spec => []OneReadyEach
<1>1. IInv => OneReadyEach
  BY DEF IInv, TypeOK, ControlType, ReplyType, ProtocolInv, Working, OneReadyEach
<1> QED
  BY <1>1, IInvHolds, PTL

\* No failure goes unreported.
THEOREM Reported == Spec => []FailureIsReported
<1>1. IInv => FailureIsReported
  BY DEF IInv, TypeOK, FlagType, StreamInv, FailureIsReported
<1> QED
  BY <1>1, IInvHolds, PTL

\* At most one ErrorResponse in a batch, and it makes the session skip.
THEOREM BatchError == Spec => []OneErrorPerBatch
<1>1. IInv => OneErrorPerBatch
  BY DEF IInv, TypeOK, FlagType, ProtocolInv, OneErrorPerBatch
<1> QED
  BY <1>1, IInvHolds, PTL

\* A failed batch is inert: until the Sync, no extended message changes a
\* statement or a portal or has anything run.  The handlers look at batchFailed
\* before they do anything, and no batch fails while one of them works.
THEOREM BatchInert == Spec => FailedBatchIsInert
<1> DEFINE Inert == batchFailed /\ batchFailed' =>
                      UNCHANGED names /\ (cur'.how = "extended" => UNCHANGED ran)
<1>1. ASSUME IInv, [Next]_vars PROVE Inert
  <2> SUFFICES ASSUME batchFailed, batchFailed'
               PROVE  UNCHANGED names /\ (cur'.how = "extended" => UNCHANGED ran)
    OBVIOUS
  <2> USE DEF names, batch, outcome, log, ready
  <2>1. CASE Run
    <3>1. cur' = cur /\ UNCHANGED names /\ cur.how # "extended"
      BY <1>1, <2>1 DEF Run, IInv, ProtocolInv, Working
    <3> QED
      BY <3>1
  <2>2. ASSUME NEW q \in Query, handleSimpleQuery(q) PROVE UNCHANGED <<statements, portals, ran>>
    BY <2>2 DEF handleSimpleQuery, Begin
  <2>3. CASE Sync \/ Terminate \/ Disconnect \/ ReceiveFails \/ UpstreamLost \/ UNCHANGED vars
    BY <2>3 DEF Sync, Terminate, Disconnect, ReceiveFails, EndSession, UpstreamLost, vars
  <2>4. CASE \/ MutationApproved \/ MutationDenied \/ StreamResult \/ AskLargeRead
             \/ LargeReadApproved \/ LargeReadDenied \/ ResultFails \/ CloseResults
             \/ SchemaAnswered \/ SchemaFails
    BY <2>4 DEF MutationApproved, MutationDenied, StreamResult, SendResult, AskLargeRead,
                LargeReadApproved, LargeReadDenied, BreakInError, ResultFails, CloseResults,
                SchemaAnswered, SchemaFails
  <2> QED
    BY <1>1, <2>1, <2>2, <2>3, <2>4
    DEF Next, Message, Handler, handleParse, handleBind, handleCloseStatement, handleClosePortal,
        handleDescribeStatement, handleDescribePortal, handleExecute
<1> QED
  BY <1>1, IInvHolds, PTL DEF Spec, SafeSpec, FailedBatchIsInert
==============================================================================
