------------------------------ MODULE Registry ------------------------------
(***************************************************************************)
(* The registry of connections (internal/store) and everybody who uses it  *)
(* at once: the once-a-minute sweeper of cmd/pg-agent-proxy, operators     *)
(* behind the admin API and the CLI, and proxy sessions authenticating     *)
(* agents.  SQLite runs one statement at a time; everything between two    *)
(* statements interleaves.                                                 *)
(*                                                                         *)
(* Passwords are numbered in the order they are minted, connections in the *)
(* order they are created.  Time is a clock that only goes forward.  As in *)
(* the stored text, where '' sorts before every timestamp, 0 stands for    *)
(* "no deadline"; a rotate_every of 0 is "never".                          *)
(***************************************************************************)
EXTENDS Naturals

CONSTANTS
    Operators,     \* callers of the admin API or of the CLI
    Agents,        \* clients that authenticate
    Ttls,          \* values of ttl
    Intervals,     \* positive values of rotate_every
    Secrets,       \* values of PGPROXY_ADMIN_TOKEN
    NoSecret,      \* the token is not set
    MaxConns,      \* bound: connections ever created
    MaxTime,       \* bound: the last tick of the clock
    MaxManual,     \* bound: manual rotations
    MaxFaults      \* bound: failed statements and crashes of the server

ASSUME TimeAssumption ==
    /\ Ttls \subseteq Nat
    /\ Intervals \subseteq Nat \ {0}
    /\ MaxConns \in Nat /\ MaxTime \in Nat /\ MaxManual \in Nat /\ MaxFaults \in Nat

VARIABLES
    rows,          \* the table, by id
    born,          \* connections created so far
    minted,        \* passwords minted so far
    clock,         \* the wall clock
    secret,        \* the running server's token
    sweeper,       \* the sweep in progress
    rotating,      \* each operator's rotate, from minting to the answer
    attempt,       \* each agent's authentication in progress
    manual,        \* manual rotations so far
    faults         \* faults so far

vars == <<rows, born, minted, clock, secret, sweeper, rotating, attempt, manual, faults>>

Ids     == 1..MaxConns
NoRow   == [user |-> 0]
NoOp    == [pc |-> "none"]
Live    == {i \in Ids : rows[i] # NoRow}
Nobody  == [pc |-> "out"]
Resting == [pc |-> "idle", now |-> 0, due |-> {}]

\* Mutant: without a token the password is stored as it is.
encryptPlain(key, pw) == [key |-> IF key = NoSecret THEN "plain" ELSE key, pw |-> pw]

\* store.encrypt: the ciphertext of a password, or none when no token is set.
encrypt(key, pw) == IF key = NoSecret THEN [key |-> NoSecret, pw |-> 0] ELSE [key |-> key, pw |-> pw]

\* store.decrypt: the password, or 0 when it cannot be read.
decrypt(key, enc) == IF key # NoSecret /\ enc.key = key THEN enc.pw ELSE 0

Ciphertext == [key : Secrets \cup {NoSecret}, pw : Nat]

Row == [user : Nat \ {0}, pw : Nat, enc : Ciphertext, expires : Nat, every : Nat,
        rotatedAt : Nat, auto : BOOLEAN]

TypeOK ==
    /\ rows \in [Ids -> Row \cup {NoRow}]
    /\ born \in 0..MaxConns
    /\ minted \in Nat
    /\ clock \in 1..(MaxTime + 1)
    /\ secret \in Secrets \cup {NoSecret}
    /\ sweeper \in [pc : {"idle", "delete", "scan", "rotate"}, now : Nat,
                    due : SUBSET (Ids \X Nat)]
    /\ rotating \in [Operators -> [pc : {"update", "list", "told"}, id : Ids, user : Nat, pw : Nat,
                                   enc : Ciphertext, now : Nat, told : Nat] \cup {NoOp}]
    /\ attempt \in [Agents -> [pc : {"sent", "verify", "admitted"}, id : Ids,
                               pw : Nat, hash : Nat, wrong : BOOLEAN] \cup {Nobody}]
    /\ manual \in Nat
    /\ faults \in Nat

Init ==
    /\ rows = [i \in Ids |-> NoRow]
    /\ born = 0
    /\ minted = 0
    /\ clock = 1
    /\ secret \in Secrets \cup {NoSecret}
    /\ sweeper = Resting
    /\ rotating = [o \in Operators |-> NoOp]
    /\ attempt = [a \in Agents |-> Nobody]
    /\ manual = 0
    /\ faults = 0

\* Connection.Expired, and the WHERE clause of DeleteExpired.
Expired(i, now) == rows[i].expires # 0 /\ rows[i].expires <= now

\* RotateDue's scan: rotate_every > 0 and rotated_at + rotate_every <= now.
Due(i, now) == rows[i].every > 0 /\ rows[i].rotatedAt + rows[i].every <= now

-----------------------------------------------------------------------------
(* Operators *)

\* Mutant: without AUTOINCREMENT, SQLite gives out 1 + the largest id in use.
NextIdReused == IF Live = {} THEN 1 ELSE 1 + CHOOSE i \in Live : \A j \in Live : j <= i

\* The id SQLite gives to a new row: AUTOINCREMENT, never one used before.
NextId == born + 1

\* Create: one INSERT; the password is returned to the caller.
Create(ttl, every, key) ==
    /\ born < MaxConns
    /\ born' = born + 1
    /\ minted' = minted + 1
    /\ rows' = [rows EXCEPT ![NextId] =
                  [user |-> born + 1, pw |-> minted + 1, enc |-> encrypt(key, minted + 1),
                   expires |-> ttl, every |-> every, rotatedAt |-> clock, auto |-> FALSE]]
    /\ UNCHANGED <<clock, secret, sweeper, rotating, attempt, manual, faults>>

\* Update: the deadline and the interval are kept, cleared or set; neither the
\* password nor rotated_at changes.
Update(i, expires, every) ==
    /\ i \in Live
    /\ rows' = [rows EXCEPT ![i] =
                  [user |-> @.user, pw |-> @.pw, enc |-> @.enc, expires |-> expires,
                   every |-> every, rotatedAt |-> @.rotatedAt, auto |-> @.auto]]
    /\ UNCHANGED <<born, minted, clock, secret, sweeper, rotating, attempt, manual, faults>>

\* Delete: one DELETE.
Delete(i) ==
    /\ i \in Live
    /\ rows' = [rows EXCEPT ![i] = NoRow]
    /\ UNCHANGED <<born, minted, clock, secret, sweeper, rotating, attempt, manual, faults>>

\* Mutant: the UPDATE forgets agent_password_enc.
WriteHashOnly(i, pw, enc, now, auto) ==
    rows' = [rows EXCEPT ![i] =
               [user |-> @.user, pw |-> pw, enc |-> @.enc, expires |-> @.expires,
                every |-> @.every, rotatedAt |-> now, auto |-> auto]]

\* The UPDATE of rotate: hash, ciphertext and rotated_at in one statement.
WritePassword(i, pw, enc, now, auto) ==
    rows' = [rows EXCEPT ![i] =
               [user |-> @.user, pw |-> pw, enc |-> enc, expires |-> @.expires,
                every |-> @.every, rotatedAt |-> now, auto |-> auto]]

\* Rotate: the time is taken, the password minted, hashed (slowly, by design)
\* and encrypted, for the connection the operator has in view.
RotateMint(o, i, key) ==
    /\ rotating[o].pc \in {"none", "told"}
    /\ i \in Live
    /\ manual < MaxManual
    /\ manual' = manual + 1
    /\ minted' = minted + 1
    /\ rotating' = [rotating EXCEPT ![o] =
                      [pc |-> "update", id |-> i, user |-> rows[i].user, pw |-> minted + 1,
                       enc |-> encrypt(key, minted + 1), now |-> clock, told |-> 0]]
    /\ UNCHANGED <<rows, born, clock, secret, sweeper, attempt, faults>>

Rotated(o, pc, told) ==
    rotating' = [rotating EXCEPT ![o] =
                   [pc |-> pc, id |-> @.id, user |-> @.user, pw |-> @.pw,
                    enc |-> @.enc, now |-> @.now, told |-> told]]

\* Rotate: the UPDATE.  No row left to update is ErrNotFound.
RotateWrite(o) ==
    /\ rotating[o].pc = "update"
    /\ IF rotating[o].id \in Live
         THEN /\ WritePassword(rotating[o].id, rotating[o].pw, rotating[o].enc, rotating[o].now, FALSE)
              /\ Rotated(o, "list", 0)
         ELSE UNCHANGED rows /\ rotating' = [rotating EXCEPT ![o] = NoOp]
    /\ UNCHANGED <<born, minted, clock, secret, sweeper, attempt, manual, faults>>

\* Rotate: the UPDATE fails (the database is locked, the disk is full); the
\* minted password is forgotten.
RotateFails(o) ==
    /\ rotating[o].pc = "update"
    /\ faults < MaxFaults
    /\ faults' = faults + 1
    /\ rotating' = [rotating EXCEPT ![o] = NoOp]
    /\ UNCHANGED <<rows, born, minted, clock, secret, sweeper, attempt, manual>>

\* Mutant: the answer names the newest connection.
RotateAnswerNewest(o) ==
    /\ rotating[o].pc = "list"
    /\ Rotated(o, "told", born)
    /\ UNCHANGED <<rows, born, minted, clock, secret, sweeper, attempt, manual, faults>>

\* handleRotate and connRotate: the table is listed again for the username that
\* goes into the answer's connection string; none when the row is gone.
RotateAnswer(o) ==
    /\ rotating[o].pc = "list"
    /\ Rotated(o, "told", IF rotating[o].id \in Live THEN rows[rotating[o].id].user ELSE 0)
    /\ UNCHANGED <<rows, born, minted, clock, secret, sweeper, attempt, manual, faults>>

\* The List fails; its error is dropped and the answer has no username.
RotateAnswerBlank(o) ==
    /\ rotating[o].pc = "list"
    /\ faults < MaxFaults
    /\ faults' = faults + 1
    /\ Rotated(o, "told", 0)
    /\ UNCHANGED <<rows, born, minted, clock, secret, sweeper, attempt, manual>>

-----------------------------------------------------------------------------
(* The sweeper *)

\* sweep takes the time once, at the start.
SweepStart ==
    /\ sweeper.pc = "idle"
    /\ sweeper' = [pc |-> "delete", now |-> clock, due |-> {}]
    /\ UNCHANGED <<rows, born, minted, clock, secret, rotating, attempt, manual, faults>>

\* Mutant: the WHERE clause without expires_at != ''.
DeleteExpiredOrNever ==
    /\ sweeper.pc = "delete"
    /\ rows' = [i \in Ids |-> IF i \in Live /\ rows[i].expires <= sweeper.now THEN NoRow ELSE rows[i]]
    /\ sweeper' = [pc |-> "scan", now |-> sweeper.now, due |-> {}]
    /\ UNCHANGED <<born, minted, clock, secret, rotating, attempt, manual, faults>>

\* DeleteExpired: one DELETE.
DeleteExpired ==
    /\ sweeper.pc = "delete"
    /\ rows' = [i \in Ids |-> IF i \in Live /\ Expired(i, sweeper.now) THEN NoRow ELSE rows[i]]
    /\ sweeper' = [pc |-> "scan", now |-> sweeper.now, due |-> {}]
    /\ UNCHANGED <<born, minted, clock, secret, rotating, attempt, manual, faults>>

\* RotateDue: one SELECT; the rows are closed before anything is written.
RotateDueScan ==
    /\ sweeper.pc = "scan"
    /\ sweeper' = [pc |-> "rotate", now |-> sweeper.now,
                   due |-> {<<i, rows[i].user>> : i \in {j \in Live : Due(j, sweeper.now)}}]
    /\ UNCHANGED <<rows, born, minted, clock, secret, rotating, attempt, manual, faults>>

\* The next connection of the scan, in the order of ids.
IsNext(d) == d \in sweeper.due /\ \A e \in sweeper.due : d[1] <= e[1]

Advance(d) == sweeper' = [pc |-> "rotate", now |-> sweeper.now, due |-> sweeper.due \ {d}]

\* rotate(r.ID, now): a new password under the server's token, stamped with the
\* sweep's time; the plaintext is dropped.  A deleted connection is skipped.
RotateDueWrite(d) ==
    /\ sweeper.pc = "rotate"
    /\ IsNext(d)
    /\ IF d[1] \in Live
         THEN /\ WritePassword(d[1], minted + 1, encrypt(secret, minted + 1), sweeper.now, TRUE)
              /\ minted' = minted + 1
         ELSE UNCHANGED <<rows, minted>>
    /\ Advance(d)
    /\ UNCHANGED <<born, clock, secret, rotating, attempt, manual, faults>>

SweepEnd ==
    /\ sweeper.pc = "rotate"
    /\ sweeper.due = {}
    /\ sweeper' = Resting
    /\ UNCHANGED <<rows, born, minted, clock, secret, rotating, attempt, manual, faults>>

\* Mutant: a failed statement ends the sweep loop.
SweepFaultFatal ==
    /\ sweeper.pc # "idle"
    /\ faults < MaxFaults
    /\ faults' = faults + 1
    /\ sweeper' = [pc |-> "stopped", now |-> sweeper.now, due |-> {}]
    /\ UNCHANGED <<rows, born, minted, clock, secret, rotating, attempt, manual>>

\* A statement of the sweep fails (the CLI holds the database, the disk is
\* full): the delete is given up but not the rotations, the scan ends the
\* sweep, a failed rotation does not stop the others.
SweepFault ==
    /\ faults < MaxFaults
    /\ faults' = faults + 1
    /\ \/ sweeper.pc = "delete" /\ sweeper' = [pc |-> "scan", now |-> sweeper.now, due |-> {}]
       \/ sweeper.pc = "scan" /\ sweeper' = Resting
       \/ sweeper.pc = "rotate" /\ \E d \in sweeper.due : IsNext(d) /\ Advance(d)
    /\ UNCHANGED <<rows, born, minted, clock, secret, rotating, attempt, manual>>

\* The server dies and starts again, perhaps with another token: the table is
\* on disk; the sweep, the handlers and the sessions are gone; the CLI commands
\* under way are processes of their own and go on.
Crash(key, commands) ==
    /\ faults < MaxFaults
    /\ faults' = faults + 1
    /\ secret' = key
    /\ sweeper' = Resting
    /\ rotating' = [o \in Operators |-> IF o \in commands THEN rotating[o] ELSE NoOp]
    /\ attempt' = [a \in Agents |-> Nobody]
    /\ UNCHANGED <<rows, born, minted, clock, manual>>

-----------------------------------------------------------------------------
(* Sessions authenticating *)

\* An agent sends, for connection i, a password that somebody was given; wrong
\* records that it is not the connection's password at that moment.
SendPassword(a, i, pw) ==
    /\ attempt[a] = Nobody
    /\ i <= born
    /\ \A o \in Operators : rotating[o].pc \in {"update", "list"} => rotating[o].pw # pw
    /\ attempt' = [attempt EXCEPT ![a] =
                     [pc |-> "sent", id |-> i, pw |-> pw, hash |-> 0,
                      wrong |-> ~(i \in Live /\ rows[i].pw = pw)]]
    /\ UNCHANGED <<rows, born, minted, clock, secret, sweeper, rotating, manual, faults>>

Progress(a, pc, hash) ==
    attempt' = [attempt EXCEPT ![a] =
                  [pc |-> pc, id |-> @.id, pw |-> @.pw, hash |-> hash, wrong |-> @.wrong]]

Reject(a) == attempt' = [attempt EXCEPT ![a] = Nobody]

\* authenticate, GetByUsername: the hash of a row that exists and has not
\* expired; the session closes without one, or when the query fails.
GetByUsername(a) ==
    /\ attempt[a] # Nobody
    /\ attempt[a].pc = "sent"
    /\ LET i == attempt[a].id IN
         \/ i \in Live /\ ~Expired(i, clock) /\ Progress(a, "verify", rows[i].pw)
         \/ Reject(a)
    /\ UNCHANGED <<rows, born, minted, clock, secret, sweeper, rotating, manual, faults>>

\* Mutant: an earlier password of the connection is accepted as well.
VerifyPasswordGrace(a) ==
    /\ attempt[a] # Nobody
    /\ attempt[a].pc = "verify"
    /\ IF attempt[a].pw <= attempt[a].hash
         THEN Progress(a, "admitted", attempt[a].hash) ELSE Reject(a)
    /\ UNCHANGED <<rows, born, minted, clock, secret, sweeper, rotating, manual, faults>>

\* authenticate, VerifyPassword: against the hash that was read; the row may
\* have changed since.
VerifyPassword(a) ==
    /\ attempt[a] # Nobody
    /\ attempt[a].pc = "verify"
    /\ IF attempt[a].hash = attempt[a].pw
         THEN Progress(a, "admitted", attempt[a].hash) ELSE Reject(a)
    /\ UNCHANGED <<rows, born, minted, clock, secret, sweeper, rotating, manual, faults>>

\* The session ends.
Leave(a) ==
    /\ attempt[a] # Nobody
    /\ attempt[a].pc = "admitted"
    /\ Reject(a)
    /\ UNCHANGED <<rows, born, minted, clock, secret, sweeper, rotating, manual, faults>>

-----------------------------------------------------------------------------
Tick ==
    /\ clock <= MaxTime
    /\ clock' = clock + 1
    /\ UNCHANGED <<rows, born, minted, secret, sweeper, rotating, attempt, manual, faults>>

\* A deadline: now + ttl, or none.
Deadlines == {clock + t : t \in Ttls} \cup {0}

Keys == Secrets \cup {NoSecret}

Operator ==
    \/ \E e \in Deadlines, n \in Intervals \cup {0}, key \in Keys : Create(e, n, key)
    \/ \E i \in Live : \E e \in Deadlines \cup {rows[i].expires},
                         n \in Intervals \cup {0, rows[i].every} : Update(i, e, n)
    \/ \E i \in Live : Delete(i)
    \/ \E o \in Operators, i \in Live, key \in Keys : RotateMint(o, i, key)
    \/ \E o \in Operators : RotateWrite(o) \/ RotateFails(o) \/ RotateAnswer(o) \/ RotateAnswerBlank(o)

Sweep ==
    \/ SweepStart
    \/ DeleteExpired
    \/ RotateDueScan
    \/ \E d \in sweeper.due : RotateDueWrite(d)
    \/ SweepEnd

Agent ==
    \E a \in Agents :
        \/ \E i \in Ids, pw \in 1..minted : SendPassword(a, i, pw)
        \/ GetByUsername(a)
        \/ VerifyPassword(a)
        \/ Leave(a)

Next ==
    \/ Operator
    \/ Sweep
    \/ SweepFault
    \/ \E key \in Keys, commands \in SUBSET Operators : Crash(key, commands)
    \/ Agent
    \/ Tick

\* The ticker fires every minute and the sweep's statements return.
Fairness == WF_vars(Sweep)

Spec == Init /\ [][Next]_vars /\ Fairness

-----------------------------------------------------------------------------
(* Properties *)

\* What the dashboard displays for a connection is the password that works:
\* hash and ciphertext never come from two different rotations, whoever
\* rotates at the same time and whatever tokens they use.
DisplayedPasswordWorks ==
    \A i \in Live : decrypt(secret, rows[i].enc) \in {0, rows[i].pw}

\* A rotation decided on for one connection never hits another one: however
\* long the sweep or an operator waits between choosing an id and the UPDATE,
\* the row with that id, if there is one, is still the same connection.
RotationHitsItsTarget ==
    /\ \A d \in sweeper.due : d[1] \in Live => rows[d[1]].user = d[2]
    /\ \A o \in Operators : rotating[o].pc = "update" /\ rotating[o].id \in Live
                              => rows[rotating[o].id].user = rotating[o].user

\* The connection string that a rotation hands out pairs the new password with
\* the username of the connection it was minted for, or with none at all: the
\* username is looked up after the UPDATE, while others create, delete and
\* rotate.
AnswerNamesItsTarget ==
    \A o \in Operators : rotating[o].pc = "told" => rotating[o].told \in {0, rotating[o].user}

\* A password that was not the connection's when the agent sent it (replaced,
\* another connection's, or the connection is gone) never opens a session, even
\* though the hash is read and compared in two steps and rotations go on.
WrongPasswordStaysOut ==
    \A a \in Agents : attempt[a] # Nobody /\ attempt[a].pc = "admitted" => ~attempt[a].wrong

\* A connection disappears only when an operator deletes it or its deadline
\* has passed: one without a deadline, or whose deadline is moved while a sweep
\* is under way, is not swept.
SweptOnlyWhenExpired ==
    [][\A i \in Ids : i \in Live /\ rows'[i] = NoRow => Expired(i, clock) \/ Delete(i)]_vars

\* An expired connection is removed (or given a new deadline), in spite of
\* faults and restarts.
ExpiredIsSwept ==
    \A i \in Ids : (i \in Live /\ Expired(i, clock)) ~> ~(i \in Live /\ Expired(i, clock))

\* A connection due for rotation is rotated (or changed, or removed).
DueIsRotated ==
    \A i \in Ids : (i \in Live /\ Due(i, clock)) ~> ~(i \in Live /\ Due(i, clock))

-----------------------------------------------------------------------------
(* The inductive invariant behind the properties *)

\* A row is the connection its id was given to, and hash and ciphertext are of
\* the same password.
RowInv ==
    \A i \in Live : /\ rows[i].user = i
                    /\ rows[i].pw \in 1..minted
                    /\ rows[i].enc.pw \in {0, rows[i].pw}

\* A rotation under way knows its connection by id and by name alike.
OpInv ==
    \A o \in Operators : rotating[o].pc # "none" =>
        /\ rotating[o].user = rotating[o].id
        /\ rotating[o].pw \in 1..minted
        /\ rotating[o].enc.pw \in {0, rotating[o].pw}
        /\ rotating[o].told \in {0, rotating[o].user}

\* A sweep acts on the past and knows its connections in the same way.
SweepInv ==
    /\ sweeper.now <= clock
    /\ \A d \in sweeper.due : d[1] = d[2]

\* A wrong password is out of everybody's hands who could still make it right.
AttemptInv ==
    \A a \in Agents : attempt[a] # Nobody =>
        /\ attempt[a].pw \in 1..minted
        /\ attempt[a].wrong /\ attempt[a].pc = "sent" =>
              /\ attempt[a].id \in Live => rows[attempt[a].id].pw # attempt[a].pw
              /\ \A o \in Operators : rotating[o].pc = "update" => rotating[o].pw # attempt[a].pw
        /\ attempt[a].wrong /\ attempt[a].pc = "verify" => attempt[a].hash # attempt[a].pw
        /\ attempt[a].pc = "admitted" => ~attempt[a].wrong

IInv == TypeOK /\ RowInv /\ OpInv /\ SweepInv /\ AttemptInv

-----------------------------------------------------------------------------
(* What the repository says and the code does not do *)

\* store.go: RotateDue "rotates the password of every connection whose
\* automatic rotation is due (rotated_at + rotate_every <= now)"; README: "A
\* manual rotate restarts the interval".
OnlyDueIsRotated ==
    [][\A i \in Ids :
          (/\ i \in Live /\ rows[i].every > 0
           /\ rows'[i] # NoRow /\ rows'[i].pw # rows[i].pw /\ rows'[i].auto)
             => Due(i, sweeper.now)]_vars
=============================================================================
