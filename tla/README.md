# pg-agent-proxy in TLA+

pg-agent-proxy is a PostgreSQL wire-protocol proxy for agents: it authenticates
a client against a registry of generated credentials, routes it to an upstream
database, holds mutations and large reads until somebody approves them, and
anonymizes results. This directory holds TLA+ modules that model it, TLC
configurations that check them on small instances, and TLAPS proofs of the main
results for every value of the constants. Source paths are relative to the
repository.

## Inventory

| Component | State | Operations | Hard behaviour | What makes it correct |
|---|---|---|---|---|
| **Approver** (`internal/approval/approval.go`) | none | `Approve` | blocks for minutes, may fail | approves only on an explicit approval, always answers |
| **Dashboard broker** (`approval/broker.go`) | `pending` map, one buffered channel per request | `Approve`, `Pending`, `Decide` | `select` over decision, timer and context; `Decide` sends after dropping the lock | first decision wins, refusals are honest, no entry leaks, every call returns |
| **HTTP and static approvers** (`approval.go`) | none | `Approve` | lost, late or broken answers | implement Approver |
| **Session** (`internal/proxy/session.go`, `exec.go`, `extended.go`, `schema.go`) | prepared statements, portals, `batchFailed`, upstream connection, compiled policy | one handler per client message | blocks in the approver and upstream while the client may leave; errors in the middle of results; batches that fail half-way | nothing gated runs unapproved, no large result leaves unapproved, replies stay in step with requests |
| **Startup** (`session.go`) | TLS state | SSL negotiation, authentication, upstream connect, first flush | messages in any order, failures at every step, edits in between | no password in clear when TLS is required, current policy, no leak |
| **Server** (`internal/proxy/server.go`, `cmd/pg-agent-proxy/main.go`) | listeners, context, admin goroutine | `runServe`, `ListenAndServe` | signals, crashes, ports that cannot be bound | shutdown ends, admin only behind its token |
| **Certificates** (`internal/certs`) | two files | load or create | crash between writes | what clients pinned stays |
| **Registry** (`internal/store/store.go`) | SQLite table of connections, AEAD key | `Create`, `Update`, `Delete`, `Rotate`, `RotateDue`, `DeleteExpired`, `GetByUsername`, `List` | several processes and goroutines between single statements | the displayed password is the working one, rotations hit their target, only expired rows are swept, dead passwords stay out |
| **Sweeper** (`cmd/pg-agent-proxy/main.go`) | one sweep in progress | `sweepLoop`, `sweep` | runs against everything above; statements fail; the server restarts | everything expired or due is dealt with |
| **Admin API** (`internal/admin/admin.go`) | cookie in the browser | connection CRUD, approvals, login, detection | operators act on stale pages and cookies | see broker, registry, server |
| **CLI** (`cmd/pg-agent-proxy/connections.go`) | none | add, list, rotate, rm | another process on the same database, with its own token | see registry |
| **Classifier, policy, detection** (`internal/policy`, `internal/detect`) | none | `Classify`, `ActionFor`, `AnonymizeValue`, `Scan` | pure | agree with a reference |
| **Configuration** (`internal/config`) | none | `Load` | order of file, environment, defaults | what is accepted is sound |
| **Web UI** (`internal/admin/*.html`) | – | – | – | not modelled |

Interactions: a session calls the shared approver (blocking) and the registry
(once, at startup). The admin server calls the broker's `Pending` and `Decide`
and every registry operation from HTTP goroutines. The sweeper calls the
registry once a minute. All share one process context, cancelled by a signal;
it is *not* cancelled when a client disconnects.

## Modules

```
Approver  <= Broker, HttpApprover          (refinements)
Session   <= Proxy = Session x Broker x HttpApprover x static approvers
Certs <- Startup <- Serve                   (EXTENDS)
Registry
Classify, Policy, Config <- Rules           (EXTENDS)
```

`MC*` modules give constants their small values; `*Proofs` modules hold theorems.

### Broker

`pc[r]` is where a call of `Approve` is: `registered` (in the map, before the
`select`), `parked` (blocked in it), `returning` (a case was chosen, the defers
still have to run), `done`. `decided[r]` is the channel's buffer. Go's
semantics is spelled out: a send to a parked receiver commits the receiver's
`select` (`DecideHandOff`), otherwise it fills an empty buffer even if nobody
will ever read it (`DecideBuffer`), otherwise the `default` is taken
(`DecideFull`). `Decide` is two actions, because it drops the lock between the
lookup and the send. Operators decide only what their (possibly old) list
shows. `first`, `acked` and `refused` are history.

### HttpApprover

`call[r]` is where `Approve` is: `waiting` for headers, `reading` the body,
`returning`, `done`. The hook is outside the program and may do anything once,
at any time, also after the call gave up; the network may fail a call at any
time. A response is a status (2xx or not) and a body (a decision, or one whose
decoding fails).

### Session

The session's goroutine reads a message (`pc = "receive"`) and runs its handler:
`gate` (waiting for a mutation's approval), `run`, `stream` (reading results),
`limit` (waiting for a large read's approval), `close` (a simple query left its
loop), `schema`. Between the steps the client may disconnect and the upstream
connection may die. A text is a model value with its classification and its
effect on a transaction; a result is its number of rows. The upstream
may deliver any results up to `MaxResults`, then nothing, an error in place of
the next result (`early`, reported by `mrr.Close`) or in the middle of one
(`mid`, reported by `rr.Close`); within an aborted transaction or without a
connection it can only fail. Extended messages of a failed batch are dropped by
the first line of their handlers and have no action. `ticket`, `ran`, `sent`,
`failed`, `reported`, `batchErrors`, `owed` and `told` are history. The gate's
properties are about the classification the code computes for a whole text;
the classification itself is the module `Classify`.

### Proxy

Session's actions that stand for "the approver answers" are replaced by a call
of a real one: `Approve(r)` makes a new request and registers it with the broker
or posts it to the hook, `ApproverStep` is what happens while the session waits,
`Answered(r)` hands the result to the session in the step in which `Approve`'s
defers have run. `mode` is what `approval.New` chose. `request` is the session's
open request; `asked`, `grant`, `ranBy`, `sentBy` and `spent` are history that
ties an effect to the request it happened under. `ImplementsSession` says that
nothing was lost by proving things about `Session` alone: the composition is
still one, fairness included. A shutdown during the wait is left to `Broker`.

### Certs, Startup, Serve

`Certs` is `certs.New`, one action per file operation; `os.WriteFile` is two,
because it truncates first. `certFile` and `keyFile` say which generated pair
each file belongs to, or 0. A load of a good pair may still fail (`misreads`).
`Startup` is a session from accept to its loop; `stage[c]` names the call its
goroutine is in. `usedTLS` is the code's variable, `channel` what is true, and
`PasswordNeverInClear` relates them. The registry is reduced to the version of
one row, 0 once it is deleted; a row that has expired stays, is not found while
it is expired, and may be extended. `Serve` is `runServe` from configuration to exit: `proc` is its main
goroutine, `listener` and `adminSrv` the two others; `Crash` may strike
anywhere, and the next `Start` may have another configuration. Clients keep the
certificate they were first shown (`pin`), the browser its cookie.

### Registry

Each SQL statement is one action; what the code does between two statements
interleaves. A manual rotation mints a password in one step, stores it in a
later one, and `handleRotate` then looks the username up with `List`, whose
error it drops (`RotateAnswerBlank`). A sweep takes its time once, deletes,
scans, and rotates one connection after another. Passwords are numbers in the
order they are minted; a ciphertext is a key and a password, and decrypting with
another key (or none) yields nothing. 0 stands for the empty timestamp, which
sorts before all others. The clock's value passed to `UPDATE` may be old; a
deadline computed before it is stored is covered by the clock moving only
between actions and by TTLs being arbitrary. The CLI is an operator with its own
token; its commands survive a crash of the server, the server's own handlers do
not. `Update` and `Create` keep only the fields with control (deadline and
interval).

### Classify, Policy, Config, Rules

The stateless code: what a round of a loop computes is an operator of `Classify`,
`Policy` or `Config`, and the round itself an action of `Rules` under the
source's name (`stripLeading`, `containsWord`, `parsePII`, `New`, `Scan`,
`detectAndRespond`, ...), so that loop invariants can be stated and proved. A run
takes one job to its answer. A text is a sequence of characters, but that a run
of letters is one element with case folded; two of them next to each other are
one longer identifier; a rest `sql[i:]` is the position it begins at. So the end
of a comment may overlap its opening, as it may for `strings.Index`. `job.text`, `job.spec` and `job.columns` are sequences of
any length over `Strings`. A column name is the set of hints it contains plus a
spelling; a salted hash is an injective function of its value. Configuration
fields that are only copied follow the pattern of `url`. Durations are hours in a
signed word of `2 * Half` values in place of 2^64. The properties compare the
answer with definitions that do not follow the loops: a set of cuts between
which there are only blanks and whole comments for `stripLeading` (`Gaps`), a
quantifier over positions for `containsWord` (`Delimited`), the last part about
a column for `parsePII` and the map that `policy.New` fills (`LastAbout`), the
set of flagged rows for a scan (`Flagged`). `Gaps` reads comments as PostgreSQL
does. Where that may differ from `stripLeading`, which is for `/*/`, for a
comment that opens inside another and for a carriage return that ends a line
(`Odd`), `ClassifyIsConservative` says nothing (`Plain`).
`ClassifyIsConservative` is about the first statement of a text; only for a text
that is a single one (`Single`) it says that all reads are let through. It is
about keywords: what a function called in a `SELECT` does, or `SELECT INTO`, is
a read for the code and for the property.

## Runs

| Run | What it checks | States | Bounds |
|---|---|---|---|
| `broker_races` | TypeOK, FirstDecisionWins, RefusedMeansSettled, PendingIsWaiting, DeliveredIsKept, EveryCallReturns, ImplementsApprover | 12k | 1 request, 3 operators |
| `broker_ack` | *violated:* AckedVerdictIsReturned | – | 1 request, 1 operator |
| `session_safety` | TypeOK, GatedRunsApproved, LargeReadsApproved, OneReadyEach, FailureIsReported, OneErrorPerBatch, FailedBatchIsInert | 287k | five texts, one statement name, one portal name, up to two results, limits 0 and 1 |
| `session_gone`, `session_skip` | *violated:* DisconnectDenies, IgnoredUntilSync | – | smallest that show it |
| `proxy` | EveryEffectIsLicensed, ApprovalIsSpentOnce, CardsAreWaitingSessions, ImplementsSession, HookImplementsApprover, QueryIsAnswered, SessionEnds | 101k | one gated text with a large result, two requests, one operator, all four modes, gate and limit on and off |
| `serve` | TypeOK, CertStaysPinned, PasswordNeverInClear, AdmittedUnderCurrentPolicy, AdminNeedsToken, ShutdownEnds, GoneClientIsDropped | 452k | four configurations, three boots, three pairs, one misread, one client, two policy versions, two tokens |
| `registry_target` | TypeOK, RotationHitsItsTarget, AnswerNamesItsTarget, SweptOnlyWhenExpired | 223k | 2 connections, 1 manual rotation |
| `registry_rotate` | DisplayedPasswordWorks, WrongPasswordStaysOut, ExpiredIsSwept, DueIsRotated | 241k | 1 connection, 1 operator, 1 agent, 2 tokens or none, 1 fault |
| `registry_due` | *violated:* OnlyDueIsRotated | – | 1 connection |
| `rules` | ClassifyIsConservative, KnownRuleNeverRaw, SuggestionsProtect, AcceptedIsSound | 438k | see below |
| `rules_gate` | *violated:* EachStatementIsGated | – | texts with a second statement, or a statement inside a comment and one behind it |

Why the bounds are enough:

* Requests of the broker share nothing but the map, and the races are between
  one caller, its timer and two operators (a third can only find the buffer
  full); the proofs cover any number of both.
* Sessions share no protocol state; one statement name and one portal name are
  enough to be rebound, closed or used too early, and the proofs cover any
  number; the limits include 0 (none) and a value that row counts hit exactly
  and exceed.
* In `proxy` two requests are what a gated text with one large result needs, or
  a denied text and its second try, which is what a stale card needs. A Query
  begins only while enough requests are left, so that the bound never blocks a
  handler half-way.
* In `serve` three boots are a crash while the files are written, a boot that
  writes and is pinned, and one that must present the pin again; a boot
  generates at most one pair. ACME's fallback is new on every boot, never stored,
  and not numbered. The four configurations are the four TLS modes, with and
  without a token, on a loopback address or not.
* A rotation races with the sweeper, which takes one operator, and ids could be
  confused once there are two connections.
* `rules`: texts of up to four characters and words, up to three behind heads
  that hold comments of both kinds, both line ends and an identifier with a
  keyword inside, and up to five of those that matter inside a block comment behind its
  opening (six in `rules_gate`, which a whole statement behind the comment
  takes); words that overlap
  themselves in texts of up to seven characters; flags of up to two parts over
  three columns in two spellings with known, unknown and empty actions; schemas of up to three columns; two or three values of each of
  the configuration fields that interact; durations past a word of 512 values.

Bounds on faults, boots, requests, rotations, connections and time are constants
used in guards; no symmetry is used. Deadlock is checked for `Broker` and
`Registry`. A session ends, a server may stay off after its last boot, and a job
is answered once: those runs do not check it.

Every property has a mutant: a named operator next to the definition it
replaces, changed as a plausible bug would change it, under which TLC finds the
property violated.

## Fairness

* `Broker`: a caller whose `select` can be decided decides it (the timer is
  finite: `NewBroker` replaces a non-positive timeout) and its defers run.
  Operators are not fair.
* `HttpApprover`: the call's deadline passes and it returns. The hook promises
  nothing.
* `Session`: the handler runs, which includes that the approver answers (its
  promise) and that the upstream does. The code has no timeout for an upstream
  that hangs, so `QueryIsAnswered` and `SessionEnds` assume it does not.
  `ReceiveFails` is strongly fair because a client that left may still have
  messages buffered, but only finitely many.
* `Proxy`: the same without the promise: the session's own steps, and of the
  approver only the timer, the deadline and the return. `ImplementsSession`
  shows that Session's assumption follows.
* `Serve`: every goroutine runs; the disk, the registry and the upstream's
  connect return. Nothing is assumed of clients, operators, signals or crashes.
* `Registry`: the ticker fires and the sweep's statements return. Faults are
  finitely many.

## Where the code differs from what the repository says

Shown by runs:

* `AckedVerdictIsReturned`: `Decide` can return true for a request that has
  just timed out, so an operator sees "approved" for a statement that was denied.
* `DisconnectDenies`: a client that disconnects while waiting does not cancel
  the approval; approved later, the mutation runs.
* `IgnoredUntilSync`: a simple Query within a failed extended batch runs.
* `OnlyDueIsRotated`: a manual rotation that lands between the sweep's scan and
  its write is overwritten.
* `EachStatementIsGated`: "Each statement is classified and gated
  conservatively" (`README.md:258`), but a text is judged by the first token of
  its first statement (`classify.go:60`), so that `SELECT 1; DELETE FROM t` is a
  read. `GatedRunsApproved` and what follows from it are about the kind that
  the code gives to a whole text. The property also fails for a comment that
  begins `/*/`: `stripLeading` looks for its end from the opening slash on
  (`classify.go:105`), takes these three characters for a whole comment, and
  classifies what is inside (with `CommentTexts(6)` alone as jobs TLC reports
  this one).

Met while modelling, and visible in the modules:

* A portal resolves its statement by name at Execute (`extended.go:106`), so it
  runs what was parsed last under that name, not what was bound; the gate still
  asks about the text that runs (`GatedRunsApproved`).
* Without an admin token an automatic rotation produces a password nobody can
  learn (`store.go:340-342`, `380`).
* A rule whose action is neither `hash` nor `redact`, such as `email:mask` or
  `email:`, is accepted and does nothing (`policy.go:72`, `connections.go:184-188`),
  although the raw value of a connection's columns "never reaches the client"
  (`README.md:14-16`); `KnownRuleNeverRaw` names the exception.
* `parseHumanDuration` "parses a positive human duration" (`admin.go:560`) but
  accepts `0d`, and days that overflow; `AcceptedIsSound` names the exception.
* Every error of the load in self_signed mode, not only a missing file, leads to
  a new pair (`certs.go:153`); `CertStaysPinned` names the exception.
* ReadyForQuery always says idle, also inside a transaction block
  (`session.go:213`, `230`).
* A nested block comment ends for `stripLeading` at the first `*/`, and a line
  comment only at a newline, while PostgreSQL nests the one and also ends the
  other at a carriage return (`classify.go:99`, `105`).
* The admin package is "unauthenticated by design" (`admin.go:2-3`, and
  `README.md:138`), which is no longer so: `authed` asks for the token, and
  without one only a loopback address is served (`AdminNeedsToken`).
* When the flush of `completeStartup` fails the upstream connection is not closed
  (`session.go:145`); `GoneClientIsDropped` names the exception.
* `TLS.Required` is not enforced when TLS is off (`session.go:95`).
* `PGPROXY_TLS_REQUIRED` set to anything but `1` or `true` means false.
* The connection strings that are displayed say `sslmode=verify-full` also for a
  self-signed certificate (`admin.go:55-58`, `connections.go:208-211`).
* `Shutdown` of the admin server is not awaited: handlers at work are cut off
  when `main` returns.

## Proofs

Every theorem holds for every value of the constants that satisfies the named
assumptions, so for any number of requests, operators, clients, connections,
texts, names and boots; TLC checked each inductive invariant before it was
proved. Invariants that the code is meant to have are seldom inductive; `IInv`
in each module is the strengthening, a conjunction of named parts.

**BrokerProofs**: `TypeCorrect`, `FirstDecision`, `Refused`, `Pending`, `Kept`
and `BrokerImplementsApprover` (`SafeSpec => A!SafeSpec`). `IInv` says what the
channel holds (`ChannelInv`: a parked caller has no decision pending, a caller
about to select finds exactly the first one in the buffer), when the map holds
an entry (`PendingInv`) and that operators only know requests that were made
(`KnownInv`: otherwise a Decide could precede the registration). The refinement
follows step by step: the first successful send is `Decree`, the deferred delete
is `Grant` or `Refuse`, the rest stutters.

**HttpApproverProofs**: `HttpImplementsApprover` (`SafeSpec => A!SafeSpec`).
`ReadInv` says that a call which reads a body, or has decided, does so from an
answer the hook gave to that very request. The hook's answer is `Decree` when it
is a whole 2xx answer with a verdict, in time or not, and the return of the call
`Grant` or `Refuse`.

**SessionProofs**: `TypeCorrect`, `GateHolds`, `LimitHolds`, `ReadyCount`,
`Reported`, `BatchError` and the action property `BatchInert`. `IInv` adds what
the protocol owes while a handler works (`ProtocolInv`), that an approval exists
only between the answer and the run (`TicketInv`), and that a failure not yet
reported is one that the result readers still hold (`StreamInv`).

**ProxyProofs** composes them. A step of `Proxy` is a step of the session, of the
broker and of the HTTP approver, or leaves that part alone (`SessionSteps`,
`BrokerSteps`, `HookSteps`); this gives `RefinesSession`, `BrokerIsApprover` and
`HookIsApprover`, and the invariants of the parts hold in the composition from
their own proofs. What is left is the link between them, `LinkInv`: a call in
progress belongs to the session's open request, made for the text and the reason
it waits for (`CallInv`); a request that is open, or granted and not yet used,
has not been spent (`SpentInv`); a gated text about to run has its licence
(`GrantInv`). From these follow `Licence`, `SpentOnce` and `Cards`, the
end-to-end statements of the project. The one lemma all three need is that a
verdict, once given, stays (`VerdictStays`).

**RegistryProofs**: `TypeCorrect`, `Displayed`, `HitsTarget`, `NamesTarget`,
`StaysOut` and the action property `SweptExpired`. `RowInv`: the ciphertext of a
row, if there is one, is of the password whose hash it holds, and ids are never
reused, so id and username agree. `OpInv` and `SweepInv` say the same of what an
operator or a sweep has read and will write later, and that a sweep's time is
not ahead of the clock. `AttemptInv`: no password that was wrong when it was sent
is stored later, because no rotation under way holds it and new ones are fresh.

**ServeProofs**: `TypeCorrect`, `StaysPinned`, `NeverInClear`, `CurrentPolicy`
and `NeedsToken`. `LifeInv` says which parts exist at which point of `runServe`;
`CertInv` that files are rewritten only when nobody has pinned a pair, and that a
presented self-signed pair is whole on disk, at every point at which `certs.New`
may crash; `TlsInv` that the code's `usedTLS` is true only on an encrypted
channel; `PolicyInv` that the row read is no older than the password; `AdminInv`
that the admin server runs only when `mayStartAdmin` held.

**RulesProofs**: `Conservative`, `KnownRuleProtects`, `Protects` and `Sound`, for texts,
flags and schemas of any length, from `LoopsKeepTheirInvariants`. There is no
induction over data in them: a round of a loop is a step, and `IInv` holds one
loop invariant per loop. `ClassifyInv`: what `stripLeading` has cut off are gaps
and does not change where the statement begins (`GapsStep`: gaps from `b` are a
gap at `b` and gaps from its end; `LineGap`, `BlockGap` and `TrimGap`: the code
cuts exactly such a gap, of comments only when they are not `Odd`, which `Plain`
promises for those that are reached).
`SearchInv`: no delimited occurrence starts before `from`, which needs that an
occurrence overlapping one that is jumped over is never delimited (`JumpIsSafe`).
`StreamInv`: the rules say what the parts read so far say, and the map what the
rules read so far say. `DetectInv`: matches are the flagged rows read so far,
suggestions those of the matches read so far, and no suggestion that is compiled
later undoes an earlier one, because those that differ in spelling only agree on
the action (`SuggestIs`). That `strings.Index` finds the first place (`IndexIs`)
rests on the smallest element of a set of numbers (`Smallest`, from the library's
well-foundedness of the naturals).

The assumptions: `QueryAssumption` and `BoundAssumption` of `Session`
(classification and transaction effect are total on the texts, limits and row
counts are naturals), `ProxyAssumption` (the modes are the four that
`approval.New` knows), `TimeAssumption` (times are naturals, intervals positive),
`CertsAssumption`, `StartupAssumption` and `ServeAssumption` (what a validated
configuration holds, and that a boot's pair can be numbered), `StringsAssumption`
and `JobsAssumption` of `Rules` (the strings the code itself writes are strings;
jobs have the shape the functions take), `HalfAssumption` (a word holds zero).
The others are about bounds. `Broker` and `HttpApprover` need none.

Only model-checked: the liveness properties `EveryCallReturns`,
`QueryIsAnswered`, `SessionEnds`, `ShutdownEnds`, `GoneClientIsDropped`,
`ExpiredIsSwept` and `DueIsRotated`, and the liveness half of the refinements
`ImplementsApprover`, `ImplementsSession` and `HookImplementsApprover`: fairness
and ENABLED are out of the prover's reach. The five properties that are violated
have nothing to prove. Every other property of a run is a theorem.

## Plan

The plan is carried out but for lemmas that would make the proofs shorter: the
frame argument ("this action leaves that part of the state alone") is repeated
under each action of `SessionProofs` and `RulesProofs`, and could be stated once
per part of the invariant.

## Not modelled

* The web UI: rendering. Its polling of approvals is `Broker`'s `Refresh`.
* YAML decoding, ACME and TLS themselves, bcrypt and AES-GCM, SQLite and pgx:
  libraries, modelled by what the code relies on.
* The rendering of connections, connection strings and masked URLs, the output of
  `list` and `detect-pii`, logging: they change no state.
* How many errors a simple Query sends, that an extended batch is not one
  implicit transaction upstream, and field descriptions that go stale after DDL:
  data below the level of `Session`.
* Quoting and Unicode in the classifier's text: they are the same to the code as
  any other characters. Where PostgreSQL ends a nested comment is not modelled
  either; a text that begins with one is left out of `ClassifyIsConservative` by
  name.
