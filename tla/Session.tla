------------------------------ MODULE Session ------------------------------
(***************************************************************************)
(* One client session after startup (internal/proxy: session.go, exec.go,  *)
(* extended.go, schema.go).  The loop reads one protocol message at a time *)
(* and runs its handler to the end; a handler blocks twice: in the         *)
(* approver and in the upstream database.  While it blocks, the client may *)
(* disconnect and the upstream connection may die.                         *)
(*                                                                         *)
(* A query is a text with its classification (policy.Classify), whether it *)
(* is the schema call, and what it does to the upstream transaction.  Rows *)
(* are counted, not represented.  The approver and the upstream database   *)
(* answer anything their interfaces allow.                                 *)
(***************************************************************************)
EXTENDS Naturals, Sequences

CONSTANTS
    Query,         \* SQL texts
    SchemaQuery,   \* the texts that call the schema function
    Kind,          \* policy.Classify
    TxEffect,      \* what a text does to a transaction block when it succeeds
    StmtName,      \* names of prepared statements
    PortalName,    \* names of portals
    Limits,        \* values of max_rows
    RowCounts,     \* how many rows a result may have
    MaxResults,    \* bound: results of one simple Query
    NoQuery        \* no text

ASSUME QueryAssumption ==
    /\ SchemaQuery \subseteq Query
    /\ Kind \in [Query -> {"read", "mutation", "session"}]
    /\ TxEffect \in [Query -> {"none", "begin", "end"}]
    /\ NoQuery \notin Query

ASSUME BoundAssumption ==
    Limits \subseteq Nat /\ RowCounts \subseteq Nat /\ MaxResults \in Nat

VARIABLES
    policy,        \* the connection's rules, compiled once at startup
    pc,            \* where the session's goroutine is
    cur,           \* the text its handler works on, and over which protocol
    todo,          \* what the upstream has yet to deliver for that text
    client,        \* the client's side of the connection: "open" or "gone"
    statements,    \* session.statements
    portals,       \* session.portals
    batchFailed,   \* session.batchFailed
    upstream,      \* transaction status of the upstream connection, or "down"
    ticket,        \* history: the approval obtained and not yet used
    ran,           \* history: the last text run upstream, and its ticket
    sent,          \* history: the last result sent for cur, and its ticket
    failed,        \* history: something went wrong since the last Query or Sync
    reported,      \* history: an ErrorResponse was sent since then
    batchErrors,   \* history: ErrorResponses of extended messages since Sync
    owed,          \* history: Query and Sync messages not answered by Ready
    told           \* history: the last ReadyForQuery's status

names   == <<statements, portals>>
batch   == <<batchFailed, batchErrors>>
outcome == <<failed, reported>>
log     == <<ticket, ran, sent>>
ready   == <<owed, told>>
vars    == <<policy, pc, cur, todo, client, names, batch, upstream, log, outcome, ready>>

Ticket   == [reason : {"none", "mutation", "large_read"}, query : Query \cup {NoQuery}]
NoTicket == [reason |-> "none", query |-> NoQuery]
For(r, q) == [reason |-> r, query |-> q]
NoStmt   == [query |-> NoQuery, described |-> FALSE]
NoPortal == NoQuery
NotSent  == [rows |-> 0, ticket |-> NoTicket]
Nothing  == [rows |-> <<>>, err |-> "none"]
Status   == {"I", "T", "E"}

\* What the upstream can deliver for one simple Query: some results, then
\* nothing, an error in place of a result, or an error in the middle of one.
Delivery == [rows : UNION {[1..n -> RowCounts] : n \in 0..MaxResults},
             err  : {"none", "early", "mid"}]

\* ExecParams delivers one result or one error.
Single == [rows : [1..1 -> RowCounts], err : {"none"}] \cup [rows : {<<>>}, err : {"mid"}]

ControlType ==
    /\ policy \in [gate : BOOLEAN, maxRows : Limits]
    /\ pc \in {"receive", "gate", "run", "schema", "stream", "limit", "close", "closed"}
    /\ cur \in [query : Query \cup {NoQuery}, how : {"simple", "extended"}]
    /\ todo \in [rows : Seq(RowCounts), err : {"none", "early", "mid"}]
    /\ client \in {"open", "gone"}
    /\ upstream \in Status \cup {"down"}

NamesType ==
    /\ statements \in [StmtName -> [query : Query, described : BOOLEAN] \cup {NoStmt}]
    /\ portals \in [PortalName -> StmtName \cup {NoPortal}]

LogType ==
    /\ ticket \in Ticket
    /\ ran \in [query : Query \cup {NoQuery}, ticket : Ticket]
    /\ sent \in [rows : Nat, ticket : Ticket]

FlagType == batchFailed \in BOOLEAN /\ failed \in BOOLEAN /\ reported \in BOOLEAN

ReplyType ==
    /\ batchErrors \in Nat
    /\ owed \in Nat
    /\ told \in Status

TypeOK == ControlType /\ NamesType /\ LogType /\ FlagType /\ ReplyType

\* startup has succeeded: completeStartup has sent the first ReadyForQuery.
Init ==
    /\ policy \in [gate : BOOLEAN, maxRows : Limits]
    /\ pc = "receive"
    /\ cur = [query |-> NoQuery, how |-> "simple"]
    /\ todo = Nothing
    /\ client = "open"
    /\ statements = [s \in StmtName |-> NoStmt]
    /\ portals = [p \in PortalName |-> NoPortal]
    /\ batchFailed = FALSE
    /\ upstream = "I"
    /\ ticket = NoTicket
    /\ ran = [query |-> NoQuery, ticket |-> NoTicket]
    /\ sent = NotSent
    /\ failed = FALSE
    /\ reported = FALSE
    /\ batchErrors = 0
    /\ owed = 0
    /\ told = "I"

Gated(q)  == Kind[q] = "mutation" /\ policy.gate
Over(n)   == policy.maxRows > 0 /\ n > policy.maxRows

-----------------------------------------------------------------------------
(* Replies *)

\* Mutant: the status is copied from a connection that may be closed.
ReadyCopies(n) ==
    /\ owed' = n - 1
    /\ told' = upstream'

\* ready: ReadyForQuery, always with TxStatus 'I', and a flush.
Ready(n) ==
    /\ owed' = n - 1
    /\ told' = "I"

\* Mutant: the error path returns without ready().
SimpleErrorOnly ==
    /\ failed' = TRUE
    /\ reported' = TRUE
    /\ UNCHANGED <<batch, ready>>

\* An ErrorResponse that ends the handler of a simple Query.
SimpleError ==
    /\ failed' = TRUE
    /\ reported' = TRUE
    /\ Ready(owed)
    /\ UNCHANGED batch

\* Mutant: the error is sent, batchFailed is forgotten.
ExtendedErrorOnly ==
    /\ failed' = TRUE
    /\ reported' = TRUE
    /\ batchErrors' = batchErrors + 1
    /\ UNCHANGED <<batchFailed, ready>>

\* An ErrorResponse that ends the handler of an extended message: failBatch.
ExtendedError ==
    /\ failed' = TRUE
    /\ reported' = TRUE
    /\ batchFailed' = TRUE
    /\ batchErrors' = batchErrors + 1
    /\ UNCHANGED ready

\* The handler ends in an error, over whichever protocol it was called.
EndInError ==
    /\ pc' = "receive"
    /\ IF cur.how = "simple" THEN SimpleError ELSE ExtendedError

-----------------------------------------------------------------------------
(* The loop: one action per client message.  An extended message of a failed
   batch is dropped by its handler's first line: it changes nothing. *)

\* Mutant: a text that has just run is not asked about again.
BeginTrusting(q, how) ==
    /\ cur' = [query |-> q, how |-> how]
    /\ pc' = IF q \in SchemaQuery THEN "schema"
             ELSE IF Gated(q) /\ ran.query # q THEN "gate" ELSE "run"
    /\ sent' = NotSent
    /\ UNCHANGED <<policy, todo, client, names, batch, upstream, ticket, ran>>

\* A text enters the gate, the schema call or the upstream.
Begin(q, how) ==
    /\ cur' = [query |-> q, how |-> how]
    /\ pc' = IF q \in SchemaQuery THEN "schema" ELSE IF Gated(q) THEN "gate" ELSE "run"
    /\ sent' = NotSent
    /\ UNCHANGED <<policy, todo, client, names, batch, upstream, ticket, ran>>

\* Query.  Unlike the extended handlers, this one does not look at batchFailed.
handleSimpleQuery(q) ==
    /\ pc = "receive"
    /\ Begin(q, "simple")
    /\ owed' = owed + 1
    /\ failed' = FALSE
    /\ reported' = FALSE
    /\ UNCHANGED told

\* Mutant: Parse is handled even in a failed batch.
handleParseAlways(s, q) ==
    /\ pc = "receive"
    /\ statements' = [statements EXCEPT ![s] = [query |-> q, described |-> FALSE]]
    /\ UNCHANGED <<policy, pc, cur, todo, client, portals, batch, upstream, log, outcome, ready>>

\* Parse: the text is recorded, nothing goes upstream.
handleParse(s, q) ==
    /\ pc = "receive"
    /\ ~batchFailed
    /\ statements' = [statements EXCEPT ![s] = [query |-> q, described |-> FALSE]]
    /\ UNCHANGED <<policy, pc, cur, todo, client, portals, batch, upstream, log, outcome, ready>>

\* Bind: the portal keeps the statement's name; the statement need not exist.
handleBind(p, s) ==
    /\ pc = "receive"
    /\ ~batchFailed
    /\ portals' = [portals EXCEPT ![p] = s]
    /\ UNCHANGED <<policy, pc, cur, todo, client, statements, batch, upstream, log, outcome, ready>>

\* Close of a statement or of a portal; closing what does not exist is fine.
handleCloseStatement(s) ==
    /\ pc = "receive"
    /\ ~batchFailed
    /\ statements' = [statements EXCEPT ![s] = NoStmt]
    /\ UNCHANGED <<policy, pc, cur, todo, client, portals, batch, upstream, log, outcome, ready>>

handleClosePortal(p) ==
    /\ pc = "receive"
    /\ ~batchFailed
    /\ portals' = [portals EXCEPT ![p] = NoPortal]
    /\ UNCHANGED <<policy, pc, cur, todo, client, statements, batch, upstream, log, outcome, ready>>

\* An extended message names a statement or a portal that is not there.
failBatch ==
    /\ pc' = pc
    /\ ExtendedError
    /\ UNCHANGED <<policy, cur, todo, client, names, upstream, log>>

\* The statement a portal stands for, looked up by name when it is used.
Resolve(p) ==
    IF portals[p] \in StmtName THEN statements[portals[p]] ELSE NoStmt

-----------------------------------------------------------------------------
(* The upstream connection, external: what pgconn and the server may do. *)

\* Can the server carry out a text?  Not in an aborted transaction, unless it
\* ends it; and not without a connection.
MaySucceed(effect) == upstream \in {"I", "T"} \/ (upstream = "E" /\ effect = "end")

\* The transaction status after a text that succeeded or failed.
After(effect, ok) ==
    IF upstream = "down" THEN "down"
    ELSE IF effect = "end" THEN "I"
    ELSE IF ok /\ effect = "begin" THEN "T"
    ELSE IF ~ok /\ upstream = "T" THEN "E"
    ELSE upstream

-----------------------------------------------------------------------------
(* Describe *)

\* ensureFields: one Prepare upstream per statement, cached when it succeeds.
ensureFields(s) ==
    \/ /\ statements[s].described
       /\ UNCHANGED <<pc, names, batch, upstream, outcome, ready>>
    \/ /\ ~statements[s].described
       /\ MaySucceed("none")
       /\ statements' = [statements EXCEPT ![s] = [query |-> @.query, described |-> TRUE]]
       /\ UNCHANGED <<pc, portals, batch, upstream, outcome, ready>>
    \/ /\ ~statements[s].described
       /\ upstream' \in {After("none", FALSE), "down"}
       /\ pc' = pc
       /\ ExtendedError
       /\ UNCHANGED names

\* The answer for a known statement; the schema call is described locally.
DescribeKnown(s) ==
    /\ IF statements[s].query \in SchemaQuery
         THEN UNCHANGED <<pc, names, batch, upstream, outcome, ready>>
         ELSE ensureFields(s)
    /\ UNCHANGED <<policy, cur, todo, client, log>>

handleDescribeStatement(s) ==
    /\ pc = "receive"
    /\ ~batchFailed
    /\ IF statements[s] = NoStmt THEN failBatch ELSE DescribeKnown(s)

handleDescribePortal(p) ==
    /\ pc = "receive"
    /\ ~batchFailed
    /\ IF Resolve(p) = NoStmt THEN failBatch ELSE DescribeKnown(portals[p])

-----------------------------------------------------------------------------
(* Execute, Sync and the end of the session *)

handleExecute(p) ==
    /\ pc = "receive"
    /\ ~batchFailed
    /\ IF Resolve(p) = NoStmt
         THEN failBatch
         ELSE /\ Begin(Resolve(p).query, "extended")
              /\ UNCHANGED <<outcome, ready>>

\* Sync ends a batch: whatever failed, the session answers and goes on.
Sync ==
    /\ pc = "receive"
    /\ batchFailed' = FALSE
    /\ batchErrors' = 0
    /\ failed' = FALSE
    /\ reported' = FALSE
    /\ UNCHANGED <<policy, pc, cur, todo, client, names, upstream, log>>
    /\ Ready(owed + 1)

\* The client closes its socket, at any moment and without notice.
Disconnect ==
    /\ client = "open"
    /\ pc # "closed"
    /\ client' = "gone"
    /\ UNCHANGED <<policy, pc, cur, todo, names, batch, upstream, log, outcome, ready>>

\* Mutant: the upstream connection is not closed.
EndSessionLeaks ==
    /\ pc = "receive"
    /\ pc' = "closed"
    /\ UNCHANGED <<policy, cur, todo, names, batch, upstream, log, outcome, ready>>

\* Terminate, or Receive fails once the socket's buffer is drained: the loop
\* returns and serve's deferred function closes the upstream connection.
EndSession ==
    /\ pc = "receive"
    /\ pc' = "closed"
    /\ upstream' = "down"
    /\ UNCHANGED <<policy, cur, todo, names, batch, log, outcome, ready>>

Terminate == client = "open" /\ EndSession /\ client' = "gone"

ReceiveFails == client = "gone" /\ EndSession /\ UNCHANGED client

\* The server goes away or drops the connection between two statements.
UpstreamLost ==
    /\ pc \in {"receive", "gate"}
    /\ upstream # "down"
    /\ upstream' = "down"
    /\ UNCHANGED <<policy, pc, cur, todo, client, names, batch, log, outcome, ready>>

-----------------------------------------------------------------------------
(* The gate *)

\* approveMutation: the approver said yes to this text.
MutationApproved ==
    /\ pc = "gate"
    /\ pc' = "run"
    /\ ticket' = For("mutation", cur.query)
    /\ UNCHANGED <<policy, cur, todo, client, names, batch, upstream, ran, sent, outcome, ready>>

\* The approver said no, or did not answer in time.
MutationDenied ==
    /\ pc = "gate"
    /\ UNCHANGED <<policy, cur, todo, client, names, upstream, log>>
    /\ EndInError

-----------------------------------------------------------------------------
(* Running a text upstream *)

\* Mutant: a text whose execution failed is tried once more.
RunRetries ==
    /\ pc = "run"
    /\ ran' = IF upstream = "down" THEN ran ELSE [query |-> cur.query, ticket |-> ticket]
    /\ todo' \in (IF cur.how = "simple" THEN Delivery ELSE Single)
    /\ IF todo'.err # "none" /\ ~failed THEN UNCHANGED <<pc, ticket>> ELSE pc' = "stream" /\ ticket' = NoTicket
    /\ failed' = (failed \/ todo'.err # "none")
    /\ UNCHANGED <<policy, cur, client, names, batch, upstream, sent, reported, ready>>

\* upstream.Exec or upstream.ExecParams.  The text runs whether or not its
\* client is still there.
Run ==
    /\ pc = "run"
    /\ pc' = "stream"
    /\ ran' = IF upstream = "down" THEN ran ELSE [query |-> cur.query, ticket |-> ticket]
    /\ ticket' = NoTicket
    /\ todo' \in (IF cur.how = "simple" THEN Delivery ELSE Single)
    /\ todo'.err = "none" => MaySucceed(TxEffect[cur.query])
    /\ upstream = "down" => todo'.rows = <<>>
    /\ failed' = (failed \/ todo'.err # "none")
    /\ upstream' \in {After(TxEffect[cur.query], todo'.err = "none")}
                        \cup (IF todo'.err = "none" THEN {} ELSE {"down"})
    /\ UNCHANGED <<policy, cur, client, names, batch, sent, reported, ready>>

\* streamResult queues the rows of a whole result.  A simple Query goes on with
\* its next result.
SendResult(t) ==
    /\ sent' = [rows |-> Head(todo.rows), ticket |-> t]
    /\ todo' = [rows |-> Tail(todo.rows), err |-> todo.err]
    /\ pc' = IF cur.how = "simple" THEN "stream" ELSE "receive"
    /\ UNCHANGED <<policy, cur, client, names, batch, upstream, ticket, ran, outcome, ready>>

\* Mutant: the limit is checked before the last row is counted.
StreamResultByOne ==
    /\ pc = "stream"
    /\ todo.rows # <<>>
    /\ policy.maxRows > 0 => Head(todo.rows) <= policy.maxRows + 1
    /\ SendResult(NoTicket)

\* A result within the limit is sent at once.
StreamResult ==
    /\ pc = "stream"
    /\ todo.rows # <<>>
    /\ ~Over(Head(todo.rows))
    /\ SendResult(NoTicket)

\* More rows than max_rows: ask before anything is sent.
AskLargeRead ==
    /\ pc = "stream"
    /\ todo.rows # <<>>
    /\ Over(Head(todo.rows))
    /\ pc' = "limit"
    /\ UNCHANGED <<policy, cur, todo, client, names, batch, upstream, log, outcome, ready>>

LargeReadApproved ==
    /\ pc = "limit"
    /\ SendResult(For("large_read", cur.query))

\* An ErrorResponse inside the result loop.  The extended handler ends; the
\* simple one leaves its loop and still closes the reader, which drains it.
BreakInError ==
    /\ UNCHANGED <<policy, cur, client, names, upstream, log>>
    /\ IF cur.how = "simple"
         THEN /\ pc' = "close"
              /\ failed' = TRUE
              /\ reported' = TRUE
              /\ todo' = [rows |-> <<>>, err |-> todo.err]
              /\ UNCHANGED <<batch, ready>>
         ELSE EndInError /\ todo' = Nothing

\* The approver denied the large read: none of its rows is sent.
LargeReadDenied ==
    /\ pc = "limit"
    /\ BreakInError

\* rr.Close reports an error that came in the middle of a result: none of the
\* rows read so far is sent.
ResultFails ==
    /\ pc = "stream"
    /\ todo.rows = <<>>
    /\ todo.err = "mid"
    /\ BreakInError

\* Mutant: the error of mrr.Close is ignored.
CloseResultsQuietly ==
    /\ cur.how = "simple"
    /\ pc = "close" \/ (pc = "stream" /\ todo.rows = <<>> /\ todo.err # "mid")
    /\ pc' = "receive"
    /\ todo' = Nothing
    /\ UNCHANGED <<policy, cur, client, names, batch, upstream, log, outcome>>
    /\ Ready(owed)

\* The end of a simple Query: NextResult is false or the loop was left;
\* mrr.Close returns the error of the query, if any, and ready follows.
CloseResults ==
    /\ cur.how = "simple"
    /\ pc = "close" \/ (pc = "stream" /\ todo.rows = <<>> /\ todo.err # "mid")
    /\ pc' = "receive"
    /\ reported' = (reported \/ todo.err # "none")
    /\ todo' = Nothing
    /\ UNCHANGED <<policy, cur, client, names, batch, upstream, log, failed>>
    /\ Ready(owed)

\* schemaRows: the proxy's own introspection query; never gated, never limited.
SchemaAnswered ==
    /\ pc = "schema"
    /\ MaySucceed("none")
    /\ pc' = "receive"
    /\ UNCHANGED <<policy, cur, todo, client, names, batch, upstream, log, outcome>>
    /\ IF cur.how = "simple" THEN Ready(owed) ELSE UNCHANGED ready

SchemaFails ==
    /\ pc = "schema"
    /\ upstream' \in {After("none", FALSE), "down"}
    /\ EndInError
    /\ UNCHANGED <<policy, cur, todo, client, names, log>>
-----------------------------------------------------------------------------
\* What the session's goroutine does once it has a text in hand.
Handler ==
    \/ MutationApproved
    \/ MutationDenied
    \/ Run
    \/ StreamResult
    \/ AskLargeRead
    \/ LargeReadApproved
    \/ LargeReadDenied
    \/ ResultFails
    \/ CloseResults
    \/ SchemaAnswered
    \/ SchemaFails

Message ==
    \/ \E q \in Query : handleSimpleQuery(q)
    \/ \E s \in StmtName, q \in Query : handleParse(s, q)
    \/ \E p \in PortalName, s \in StmtName : handleBind(p, s)
    \/ \E s \in StmtName : handleDescribeStatement(s)
    \/ \E p \in PortalName : handleDescribePortal(p)
    \/ \E p \in PortalName : handleExecute(p)
    \/ \E s \in StmtName : handleCloseStatement(s)
    \/ \E p \in PortalName : handleClosePortal(p)
    \/ Sync
    \/ Terminate

Next == Message \/ Handler \/ Disconnect \/ ReceiveFails \/ UpstreamLost

\* The goroutine runs, the approver answers (Approver's promise) and so does
\* the upstream.  A socket's buffer is finite: the session of a client that
\* has gone cannot find one more message for ever.
Fairness == WF_vars(Handler) /\ SF_vars(ReceiveFails)

SafeSpec == Init /\ [][Next]_vars

Spec == SafeSpec /\ Fairness

-----------------------------------------------------------------------------
(* Properties *)

\* No mutation of a gated connection runs upstream without an approval of
\* exactly that text, obtained for that run: an approval is never reused by a
\* second Execute of the portal and never carried over to another text.
GatedRunsApproved ==
    ran.query # NoQuery /\ Gated(ran.query) => ran.ticket = For("mutation", ran.query)

\* No result with more than max_rows rows leaves the proxy unless that read
\* was approved, over either protocol and for every result of a Query.
LargeReadsApproved ==
    Over(sent.rows) => sent.ticket = For("large_read", cur.query)

\* Each Query and each Sync is answered by one ReadyForQuery, whichever way
\* its handler ends, and no extended message is: a driver that counts them
\* stays in step.
OneReadyEach ==
    /\ owed <= 1
    /\ pc = "receive" => owed = 0

\* A denial or an upstream error never goes unreported: by the time the
\* session reads its next message, an ErrorResponse is queued.
FailureIsReported ==
    pc = "receive" /\ failed => reported

\* An extended batch gets at most one ErrorResponse, and the session skips the
\* rest of the batch exactly when it has sent one.
OneErrorPerBatch ==
    /\ batchErrors <= 1
    /\ batchFailed <=> batchErrors = 1

\* While a batch stays failed, no extended message runs anything or changes a
\* statement or a portal.
FailedBatchIsInert ==
    [][batchFailed /\ batchFailed' =>
          /\ UNCHANGED names
          /\ cur'.how = "extended" => UNCHANGED ran]_vars

\* Every Query is answered.
QueryIsAnswered == owed = 1 ~> owed = 0

\* The session of a client that has gone ends and releases its upstream
\* connection, even if it was waiting for an approval.
SessionEnds == client = "gone" ~> pc = "closed" /\ upstream = "down"

-----------------------------------------------------------------------------
(* What the repository says and the code does not do *)

\* README: "All modes fail closed: a timeout or a disconnected client denies."
DisconnectDenies == [][pc = "gate" /\ client = "gone" => pc' # "run"]_vars

\* session.go: "batchFailed is set after an error in an extended-protocol
\* batch; further messages are ignored until the next Sync".
IgnoredUntilSync == [][batchFailed /\ batchFailed' => UNCHANGED ran]_vars

-----------------------------------------------------------------------------
(* The inductive invariant behind the safety properties *)

Working == pc \notin {"receive", "closed"}

\* What the protocol owes the client while a handler works.
ProtocolInv ==
    /\ Working => cur.query \in Query
    /\ Working /\ cur.how = "simple" => owed = 1
    /\ ~Working \/ cur.how = "extended" => owed = 0
    /\ Working /\ cur.how = "extended" => ~batchFailed
    /\ batchErrors = (IF batchFailed THEN 1 ELSE 0)

\* An approval exists only between the approver's answer and the run.
TicketInv ==
    /\ pc = "run" /\ Gated(cur.query) => ticket = For("mutation", cur.query)
    /\ pc # "run" => ticket = NoTicket

\* A failure not reported yet is one the result readers still hold.
StreamInv ==
    /\ pc = "limit" => todo.rows # <<>>
    /\ pc = "close" => cur.how = "simple" /\ reported
    /\ failed /\ ~reported => pc \in {"stream", "limit"} /\ todo.err # "none"
    /\ pc \in {"stream", "limit"} /\ cur.how = "extended" =>
          todo.err = (IF todo.rows = <<>> THEN "mid" ELSE "none")

IInv ==
    /\ TypeOK
    /\ ProtocolInv
    /\ TicketInv
    /\ StreamInv
    /\ GatedRunsApproved
    /\ LargeReadsApproved
=============================================================================
