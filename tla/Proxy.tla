------------------------------- MODULE Proxy -------------------------------
(***************************************************************************)
(* A session together with the approver it blocks in, as cmd/              *)
(* pg-agent-proxy wires them: approval.New picks the dashboard broker, the *)
(* HTTP hook or a standing decision, and the session's gate and row limit  *)
(* call it with a request of their own each time.  Every step of the       *)
(* session that Session leaves to "an approver" is here a step of a real   *)
(* one, so that an operator's click is followed to the statement it lets   *)
(* run: across timeouts, retries of the same text, cards decided too late  *)
(* and clients that have gone.                                             *)
(***************************************************************************)
EXTENDS Session, FiniteSets

CONSTANTS
    Modes,         \* values of approval.mode
    Operators,     \* people deciding in the dashboard
    MaxRequests    \* bound: calls of Approve

ASSUME ProxyAssumption ==
    /\ Modes \subseteq {"dashboard", "http", "auto_approve", "auto_deny"}
    /\ MaxRequests \in Nat

VARIABLES
    mode,          \* the approver that approval.New built
    request,       \* the request the session waits for; 0 when it does not
    asked,         \* history: what each request asked for
    grant,         \* history: the request approved for the text being handled
    ranBy,         \* history: the request under which ran was run
    sentBy,        \* history: the request under which sent was sent
    spent,         \* history: how often each request's approval was used
    \* the broker's state: see Broker
    calls, pending, decided, result, cancelled, shown, deciding, first, acked, refused,
    \* the HTTP approver's state: see HttpApprover
    call, hook, decision

Requests == 1..MaxRequests

brokerVars == <<calls, pending, decided, result, cancelled, shown, deciding, first,
                acked, refused>>
httpVars   == <<call, hook, decision>>
proxyVars  == <<mode, request, asked, grant, ranBy, sentBy, spent>>
allVars    == <<vars, proxyVars, brokerVars, httpVars>>

\* The process is not shutting down: Broker alone covers that case, and here
\* nothing sets cancelled.
B == INSTANCE Broker WITH pc <- calls
H == INSTANCE HttpApprover

ProxyInit ==
    /\ Init
    /\ B!Init
    /\ H!Init
    /\ mode \in Modes
    /\ request = 0
    /\ asked = [r \in Requests |-> NoTicket]
    /\ grant = 0
    /\ ranBy = 0
    /\ sentBy = 0
    /\ spent = [r \in Requests |-> 0]

-----------------------------------------------------------------------------
(* Calling the approver *)

Unused == {r \in Requests : asked[r] = NoTicket}

\* approval.NewID: a request that was never used; they are used in order.
NewID(r) == r \in Unused /\ \A q \in Unused : r <= q

\* Does the session stand where it calls Approve?
Asks == pc \in {"gate", "limit"}

\* approveMutation and streamResult build a request and call Approve.
Approve(r) ==
    /\ Asks
    /\ request = 0
    /\ NewID(r)
    /\ request' = r
    /\ asked' = [asked EXCEPT ![r] = For(IF pc = "gate" THEN "mutation" ELSE "large_read", cur.query)]
    /\ \/ mode = "dashboard" /\ B!Register(r) /\ UNCHANGED httpVars
       \/ mode = "http" /\ H!Post(r) /\ UNCHANGED brokerVars
    /\ UNCHANGED <<vars, mode, grant, ranBy, sentBy, spent>>

\* The session goes on with an approval of request r, or with 0 for the
\* standing one of auto_approve.  A large result is sent at once.
Proceed(r) ==
    \/ MutationApproved /\ grant' = r /\ UNCHANGED <<sentBy, spent>>
    \/ /\ LargeReadApproved
       /\ sentBy' = r
       /\ spent' = [q \in Requests |-> IF q = r THEN spent[q] + 1 ELSE spent[q]]
       /\ UNCHANGED grant

\* The session goes on with a denial.
TurnDown == (MutationDenied \/ LargeReadDenied) /\ UNCHANGED <<grant, sentBy, spent>>

\* Approve returns to the session.
Answered(r) ==
    /\ Asks
    /\ request = r
    /\ request' = 0
    /\ \/ /\ mode = "dashboard"
          /\ B!Unregister(r)
          /\ IF result[r] = "approve" THEN Proceed(r) ELSE TurnDown
          /\ UNCHANGED httpVars
       \/ /\ mode = "http"
          /\ H!Return(r)
          /\ IF decision[r] = "approve" THEN Proceed(r) ELSE TurnDown
          /\ UNCHANGED brokerVars
    /\ UNCHANGED <<mode, asked, ranBy>>

\* staticApprover.Approve: the same decision for every request.
StaticAnswer ==
    /\ Asks
    /\ \/ mode = "auto_approve" /\ Proceed(0)
       \/ mode = "auto_deny" /\ TurnDown
    /\ UNCHANGED <<mode, request, asked, ranBy, brokerVars, httpVars>>

\* An operator looks, when there is something to see, and decides.  A Decide
\* that finds no request changes nothing but Broker's record of refusals and is
\* left out here.
OperatorStep(o) ==
    \/ pending # {} /\ B!Refresh(o)
    \/ \E r \in Requests, v \in B!Verdicts :
          \/ B!DecideLookup(o, r, v)
          \/ B!DecideHandOff(o, r, v)
          \/ B!DecideBuffer(o, r, v)
          \/ B!DecideFull(o, r, v)

\* The approver's own steps while the session waits, and the operators'.
ApproverStep ==
    /\ \/ /\ mode = "dashboard"
          /\ \/ \E r \in Requests : B!Park(r) \/ B!TakeDecision(r) \/ B!TimeOut(r)
             \/ \E o \in Operators : OperatorStep(o)
          /\ UNCHANGED httpVars
       \/ /\ mode = "http"
          /\ \E r \in Requests : H!Waits(r) \/ \E a \in H!Response : H!HookAnswers(r, a)
          /\ UNCHANGED brokerVars
    /\ UNCHANGED <<vars, proxyVars>>

-----------------------------------------------------------------------------
(* The rest of the session *)

\* A text run upstream uses the approval the session holds, if it was gated.
RunIt ==
    /\ Run
    /\ IF upstream # "down" /\ Gated(cur.query)
         THEN /\ ranBy' = grant
              /\ spent' = [q \in Requests |-> IF q = grant THEN spent[q] + 1 ELSE spent[q]]
         ELSE UNCHANGED <<ranBy, spent>>
    /\ UNCHANGED <<mode, request, asked, grant, sentBy, brokerVars, httpVars>>

\* How many requests one text may make: for its gate and for each result.
Needs == (IF policy.gate THEN 1 ELSE 0) + (IF policy.maxRows > 0 THEN MaxResults ELSE 0)

\* A Query or an Execute begins; no request has been made for it yet.
\* Bound: enough requests are left for it.
BeginIt ==
    /\ Cardinality(Unused) >= Needs
    /\ (\E q \in Query : handleSimpleQuery(q)) \/ (\E p \in PortalName : handleExecute(p))
    /\ grant' = 0
    /\ sentBy' = IF pc' = "receive" THEN sentBy ELSE 0
    /\ UNCHANGED <<mode, request, asked, ranBy, spent, brokerVars, httpVars>>

\* A result within the limit needs no request.
StreamIt ==
    /\ StreamResult
    /\ sentBy' = 0
    /\ UNCHANGED <<mode, request, asked, grant, ranBy, spent, brokerVars, httpVars>>

Elsewhere ==
    /\ \/ \E s \in StmtName, q \in Query : handleParse(s, q)
       \/ \E p \in PortalName, s \in StmtName : handleBind(p, s)
       \/ \E s \in StmtName : handleDescribeStatement(s) \/ handleCloseStatement(s)
       \/ \E p \in PortalName : handleDescribePortal(p) \/ handleClosePortal(p)
       \/ Sync
       \/ Terminate
       \/ AskLargeRead
       \/ ResultFails
       \/ CloseResults
       \/ SchemaAnswered
       \/ SchemaFails
       \/ Disconnect
       \/ ReceiveFails
       \/ UpstreamLost
    /\ UNCHANGED <<proxyVars, brokerVars, httpVars>>

ProxyNext ==
    \/ \E r \in Requests : Approve(r) \/ Answered(r)
    \/ StaticAnswer
    \/ ApproverStep
    \/ RunIt
    \/ BeginIt
    \/ StreamIt
    \/ Elsewhere

\* The session's own steps: everything it does except wait for its approver.
Goroutine ==
    \/ \E r \in Requests : Approve(r)
    \/ StaticAnswer
    \/ RunIt
    \/ StreamIt
    \/ Elsewhere /\ Handler

\* What the approvers promise about themselves (Broker and HttpApprover), that
\* the session's goroutine runs, and that a socket's buffer is finite.
ProxyFairness ==
    /\ WF_allVars(Goroutine)
    /\ SF_allVars(ReceiveFails /\ Elsewhere)
    /\ \A r \in Requests :
          /\ WF_allVars(Answered(r))
          /\ WF_allVars(ApproverStep /\ (B!TakeDecision(r) \/ B!TimeOut(r) \/ H!Waits(r)))

ProxySpec == ProxyInit /\ [][ProxyNext]_allVars /\ ProxyFairness

-----------------------------------------------------------------------------
(* Properties *)

\* The first decision of whoever answers request r: an operator or the hook.
Verdict(r) == IF mode = "dashboard" THEN first[r] ELSE H!hookVerdict[r]

\* Request r was made for this very statement and this very reason, and the
\* first decision taken on it was to approve.
Licensed(r, reason, q) ==
    \/ mode = "auto_approve"
    \/ r \in Requests /\ asked[r] = For(reason, q) /\ Verdict(r) = "approve"

\* From the operator's (or the hook's) decision to the upstream: a gated
\* mutation that runs, and a large result that is sent, do so under a request
\* for exactly that text whose first decision was an approval.  No timeout, no
\* late or stale card and no approval of an earlier try of the same text lets
\* anything through, and auto_deny lets nothing through at all.
EveryEffectIsLicensed ==
    /\ ran.query # NoQuery /\ Gated(ran.query) => Licensed(ranBy, "mutation", ran.query)
    /\ Over(sent.rows) => Licensed(sentBy, "large_read", cur.query)

\* One approval, one effect: a click lets one statement run once or one result
\* out once, also when the client sends the same text again after a denial, a
\* timeout or a run.
ApprovalIsSpentOnce == \A r \in Requests : spent[r] <= 1

\* The dashboard shows what is really waiting: a card is there only while its
\* session waits for it (so a session has at most one card, and one that has
\* ended has none), and a session that waits for an operator has its card.
CardsAreWaitingSessions ==
    /\ \A r \in pending : Asks /\ request = r
    /\ mode = "dashboard" /\ request # 0 /\ calls[request] \in {"registered", "parked"}
          => request \in pending

\* The session with a real approver is still the session that Session
\* describes: in particular its wait for an approval ends, because the broker's
\* timer and the hook's deadline end it.  (The client stops sending when the
\* bound on requests is reached, which Session allows.)
ImplementsSession == Spec

\* httpApprover is an Approver under the calls that sessions make.
HookImplementsApprover == H!ImplementsApprover

-----------------------------------------------------------------------------
(* The inductive invariant behind the safety properties *)

ProxyType ==
    /\ mode \in Modes
    /\ request \in Requests \cup {0}
    /\ asked \in [Requests -> Ticket]
    /\ spent \in [Requests -> Nat]
    /\ grant \in Requests \cup {0}
    /\ ranBy \in Requests \cup {0}
    /\ sentBy \in Requests \cup {0}

\* A call of Approve is under way exactly while the session waits for it, with
\* the approver of this mode and for the text in hand.
CallInv ==
    /\ request # 0 =>
          /\ Asks /\ mode \in {"dashboard", "http"}
          /\ asked[request] = For(IF pc = "gate" THEN "mutation" ELSE "large_read", cur.query)
    /\ \A r \in Requests :
          /\ calls[r] \in {"registered", "parked", "returning"} => mode = "dashboard" /\ request = r
          /\ call[r] \in {"waiting", "reading", "returning"} => mode = "http" /\ request = r
          /\ asked[r] = NoTicket => calls[r] = "idle" /\ call[r] = "idle"

\* An approval is unspent while its request is open and until its text has run.
SpentInv ==
    /\ grant # 0 => asked[grant] # NoTicket
    /\ \A r \in Requests :
          /\ spent[r] <= 1
          /\ request = r \/ (pc = "run" /\ grant = r) \/ asked[r] = NoTicket => spent[r] = 0

\* What the session is about to run is licensed.
GrantInv == pc = "run" /\ Gated(cur.query) => Licensed(grant, "mutation", cur.query)

LinkInv == ProxyType /\ CallInv /\ SpentInv /\ GrantInv /\ EveryEffectIsLicensed

ProxyIInv == IInv /\ B!IInv /\ H!IInv /\ LinkInv
=============================================================================
