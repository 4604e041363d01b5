--------------------------- MODULE RegistryProofs ---------------------------
(***************************************************************************)
(* Theorems about Registry, for any operators, agents, tokens, deadlines   *)
(* and intervals, and any number of connections, rotations and faults.     *)
(***************************************************************************)
EXTENDS Registry, TLAPS

USE TimeAssumption DEF Ids, Keys, Deadlines

-----------------------------------------------------------------------------
(* Facts about the data *)

\* A live row is a whole row, and its fields have their types.
LEMMA LiveRow ==
    ASSUME TypeOK, NEW i \in Live
    PROVE  /\ i \in Ids
           /\ rows[i] \in Row
           /\ rows[i].user \in Nat \ {0} /\ rows[i].pw \in Nat /\ rows[i].enc \in Ciphertext
           /\ rows[i].expires \in Nat /\ rows[i].every \in Nat
           /\ rows[i].rotatedAt \in Nat /\ rows[i].auto \in BOOLEAN
  BY DEF TypeOK, Live, Row

\* A row has a username, so it is never mistaken for none.
LEMMA RowIsLive == NoRow \notin Row
  BY DEF NoRow, Row

\* A ciphertext is of the password or of nothing.
LEMMA EncryptType ==
    ASSUME NEW key \in Keys, NEW pw \in Nat
    PROVE  encrypt(key, pw) \in Ciphertext /\ encrypt(key, pw).pw \in {0, pw}
  BY DEF encrypt, Ciphertext

\* A deadline is a time or none.
LEMMA DeadlineType == ASSUME TypeOK, NEW e \in Deadlines PROVE e \in Nat
<1>1. clock \in Nat
  BY DEF TypeOK
<1>2. CASE e \in {clock + t : t \in Ttls}
  <2>1. PICK t \in Ttls : e = clock + t
    BY <1>2
  <2> QED
    BY <1>1, <2>1
<1> QED
  BY <1>2

\* A rotation that is under way, with a password of its own.
Job == [pc : {"update", "list", "told"}, id : Ids, user : Nat, pw : Nat,
        enc : Ciphertext, now : Nat, told : Nat]

\* An operator who does something is at a rotation.
LEMMA OpType ==
    ASSUME TypeOK, NEW o \in Operators, rotating[o].pc # "none"
    PROVE  /\ rotating[o] \in Job
           /\ rotating[o].id \in Ids /\ rotating[o].user \in Nat /\ rotating[o].pw \in Nat
           /\ rotating[o].enc \in Ciphertext /\ rotating[o].now \in Nat /\ rotating[o].told \in Nat
  BY DEF TypeOK, NoOp, Job

\* Rotated moves a rotation on and keeps its shape.
LEMMA RotatedType ==
    ASSUME TypeOK, NEW o \in Operators, rotating[o].pc # "none",
           NEW p \in {"update", "list", "told"}, NEW t \in Nat, Rotated(o, p, t)
    PROVE  rotating' \in [Operators -> Job \cup {NoOp}]
<1>1. [pc |-> p, id |-> rotating[o].id, user |-> rotating[o].user, pw |-> rotating[o].pw,
       enc |-> rotating[o].enc, now |-> rotating[o].now, told |-> t] \in Job
  BY OpType DEF Job
<1>2. rotating \in [Operators -> Job \cup {NoOp}]
  BY DEF TypeOK, Job
<1> QED
  BY <1>1, <1>2 DEF Rotated

\* A password written to a live row leaves a table of rows.
LEMMA WriteType ==
    ASSUME TypeOK, NEW i \in Live, NEW pw \in Nat, NEW enc \in Ciphertext, NEW now \in Nat,
           NEW auto \in BOOLEAN, WritePassword(i, pw, enc, now, auto)
    PROVE  rows' \in [Ids -> Row \cup {NoRow}]
<1>1. [user |-> rows[i].user, pw |-> pw, enc |-> enc, expires |-> rows[i].expires,
       every |-> rows[i].every, rotatedAt |-> now, auto |-> auto] \in Row
  BY LiveRow DEF Row
<1> QED
  BY <1>1, LiveRow DEF WritePassword, TypeOK

-----------------------------------------------------------------------------
\* A step of an operator keeps the shape of the data.
LEMMA OperatorType == ASSUME TypeOK, Operator PROVE TypeOK'
<1> USE DEF TypeOK
<1>1. ASSUME NEW e \in Deadlines, NEW n \in Intervals \cup {0}, NEW key \in Keys, Create(e, n, key)
      PROVE  TypeOK'
  <2>1. e \in Nat /\ n \in Nat
    BY DeadlineType
  <2>2. [user |-> born + 1, pw |-> minted + 1, enc |-> encrypt(key, minted + 1),
         expires |-> e, every |-> n, rotatedAt |-> clock, auto |-> FALSE] \in Row
    BY <2>1, EncryptType DEF Row
  <2>3. rows' \in [Ids -> Row \cup {NoRow}]
    BY <1>1, <2>2 DEF Create
  <2> QED
    BY <1>1, <2>3 DEF Create
<1>2. ASSUME NEW i \in Live, NEW e \in Deadlines \cup {rows[i].expires},
             NEW n \in Intervals \cup {0, rows[i].every}, Update(i, e, n)
      PROVE  TypeOK'
  <2>1. [user |-> rows[i].user, pw |-> rows[i].pw, enc |-> rows[i].enc, expires |-> e,
         every |-> n, rotatedAt |-> rows[i].rotatedAt, auto |-> rows[i].auto] \in Row
    <3>1. e \in Nat /\ n \in Nat
      BY LiveRow, DeadlineType
    <3> QED
      BY <3>1, LiveRow DEF Row
  <2>2. rows' \in [Ids -> Row \cup {NoRow}]
    BY <1>2, <2>1, LiveRow DEF Update
  <2> QED
    BY <1>2, <2>2 DEF Update
<1>3. ASSUME NEW i \in Live, Delete(i) PROVE TypeOK'
  BY <1>3 DEF Delete
<1>4. ASSUME NEW o \in Operators, NEW i \in Live, NEW key \in Keys, RotateMint(o, i, key)
      PROVE  TypeOK'
  <2>1. [pc |-> "update", id |-> i, user |-> rows[i].user, pw |-> minted + 1,
         enc |-> encrypt(key, minted + 1), now |-> clock, told |-> 0] \in Job
    <3>1. encrypt(key, minted + 1) \in Ciphertext
      BY EncryptType
    <3>2. i \in Ids /\ rows[i].user \in Nat /\ minted + 1 \in Nat /\ clock \in Nat
      BY LiveRow
    <3> QED
      BY <3>1, <3>2 DEF Job
  <2>2. rotating' \in [Operators -> Job \cup {NoOp}]
    <3>1. rotating \in [Operators -> Job \cup {NoOp}]
      BY DEF Job
    <3> QED
      BY <1>4, <2>1, <3>1 DEF RotateMint
  <2> QED
    BY <1>4, <2>2 DEF RotateMint, Job
<1>5. ASSUME NEW o \in Operators, RotateWrite(o) PROVE TypeOK'
  <2>1. CASE rotating[o].id \in Live
    <3>1. rows' \in [Ids -> Row \cup {NoRow}]
      BY <1>5, <2>1, OpType, WriteType DEF RotateWrite
    <3>2. rotating' \in [Operators -> Job \cup {NoOp}]
      BY <1>5, <2>1, RotatedType DEF RotateWrite
    <3> QED
      BY <1>5, <3>1, <3>2 DEF RotateWrite, Job
  <2>2. CASE rotating[o].id \notin Live
    BY <1>5, <2>2 DEF RotateWrite
  <2> QED
    BY <2>1, <2>2
<1>6. ASSUME NEW o \in Operators, RotateFails(o) PROVE TypeOK'
  BY <1>6 DEF RotateFails
<1>7. ASSUME NEW o \in Operators, RotateAnswer(o) \/ RotateAnswerBlank(o) PROVE TypeOK'
  <2>1. PICK t \in Nat : rotating[o].pc = "list" /\ Rotated(o, "told", t)
    BY <1>7, LiveRow DEF RotateAnswer, RotateAnswerBlank
  <2>2. rotating' \in [Operators -> Job \cup {NoOp}]
    BY <2>1, RotatedType
  <2> QED
    BY <1>7, <2>2 DEF RotateAnswer, RotateAnswerBlank, Job
<1> QED
  BY <1>1, <1>2, <1>3, <1>4, <1>5, <1>6, <1>7 DEF Operator

\* A step of the sweeper keeps the shape of the data.
LEMMA SweepType == ASSUME TypeOK, Sweep \/ SweepFault PROVE TypeOK'
<1> DEFINE Sweeping == [pc : {"idle", "delete", "scan", "rotate"}, now : Nat, due : SUBSET (Ids \X Nat)]
<1> USE DEF TypeOK
<1>0. /\ sweeper.now \in Nat /\ sweeper.due \in SUBSET (Ids \X Nat) /\ clock \in Nat
      /\ Resting \in Sweeping
  BY DEF Resting
<1>1. CASE SweepStart
  BY <1>0, <1>1 DEF SweepStart
<1>2. CASE DeleteExpired
  BY <1>0, <1>2 DEF DeleteExpired
<1>3. CASE RotateDueScan
  <2>1. \A j \in Live : <<j, rows[j].user>> \in Ids \X Nat
    BY LiveRow
  <2> DEFINE found == {<<i, rows[i].user>> : i \in {j \in Live : Due(j, sweeper.now)}}
  <2>2. found \in SUBSET (Ids \X Nat)
    BY <2>1
  <2> HIDE DEF found
  <2>3. sweeper' \in Sweeping
    BY <1>0, <1>3, <2>2 DEF RotateDueScan, found
  <2> QED
    BY <1>3, <2>3 DEF RotateDueScan
<1>4. ASSUME NEW d \in sweeper.due, RotateDueWrite(d) PROVE TypeOK'
  <2>1. sweeper' \in Sweeping
    BY <1>0, <1>4 DEF RotateDueWrite, Advance
  <2>2. CASE d[1] \in Live
    <3>1. encrypt(secret, minted + 1) \in Ciphertext
      BY EncryptType
    <3>2. WritePassword(d[1], minted + 1, encrypt(secret, minted + 1), sweeper.now, TRUE)
      BY <1>4, <2>2 DEF RotateDueWrite
    <3>3. rows' \in [Ids -> Row \cup {NoRow}]
      <4> HIDE DEF TypeOK
      <4>1. minted + 1 \in Nat
        BY DEF TypeOK
      <4> QED
        BY <1>0, <2>2, <3>1, <3>2, <4>1, WriteType
    <3> QED
      BY <1>4, <2>1, <2>2, <3>3 DEF RotateDueWrite
  <2>3. CASE d[1] \notin Live
    BY <1>4, <2>1, <2>3 DEF RotateDueWrite
  <2> QED
    BY <2>2, <2>3
<1>5. CASE SweepEnd
  BY <1>0, <1>5 DEF SweepEnd
<1>6. CASE SweepFault
  <2>1. sweeper' \in Sweeping
    BY <1>0, <1>6 DEF SweepFault, Advance
  <2> QED
    BY <1>6, <2>1 DEF SweepFault
<1> QED
  BY <1>1, <1>2, <1>3, <1>4, <1>5, <1>6 DEF Sweep

\* A session's attempt to authenticate.
Attempt == [pc : {"sent", "verify", "admitted"}, id : Ids, pw : Nat, hash : Nat, wrong : BOOLEAN]

\* A step of the clock, an agent or a restart keeps the shape of the data.
LEMMA OtherType ==
    ASSUME TypeOK,
           \/ \E key \in Keys, commands \in SUBSET Operators : Crash(key, commands)
           \/ Agent \/ Tick \/ UNCHANGED vars
    PROVE  TypeOK'
<1> USE DEF TypeOK
<1>0. attempt \in [Agents -> Attempt \cup {Nobody}]
  BY DEF Attempt
<1>1. ASSUME NEW a \in Agents, attempt[a] # Nobody
      PROVE  /\ attempt[a].id \in Ids /\ attempt[a].pw \in Nat
             /\ attempt[a].hash \in Nat /\ attempt[a].wrong \in BOOLEAN
  BY <1>1
<1>2. ASSUME NEW a \in Agents, attempt[a] # Nobody, NEW p \in {"sent", "verify", "admitted"},
             NEW h \in Nat, Progress(a, p, h)
      PROVE  attempt' \in [Agents -> Attempt \cup {Nobody}]
  <2>1. [pc |-> p, id |-> attempt[a].id, pw |-> attempt[a].pw, hash |-> h,
         wrong |-> attempt[a].wrong] \in Attempt
    BY <1>1, <1>2 DEF Attempt
  <2> QED
    BY <1>0, <1>2, <2>1 DEF Progress
<1>3. ASSUME NEW a \in Agents, Reject(a) PROVE attempt' \in [Agents -> Attempt \cup {Nobody}]
  BY <1>0, <1>3 DEF Reject
<1>4. ASSUME NEW a \in Agents, NEW i \in Ids, NEW pw \in 1..minted, SendPassword(a, i, pw)
      PROVE  TypeOK'
  <2>1. [pc |-> "sent", id |-> i, pw |-> pw, hash |-> 0,
         wrong |-> ~(i \in Live /\ rows[i].pw = pw)] \in Attempt
    BY DEF Attempt
  <2>2. attempt' \in [Agents -> Attempt \cup {Nobody}]
    BY <1>0, <1>4, <2>1 DEF SendPassword
  <2> QED
    BY <1>4, <2>2 DEF SendPassword, Attempt
<1>5. ASSUME NEW a \in Agents, GetByUsername(a) PROVE TypeOK'
  <2>1. attempt' \in [Agents -> Attempt \cup {Nobody}]
    BY <1>2, <1>3, <1>5, LiveRow DEF GetByUsername
  <2> QED
    BY <1>5, <2>1 DEF GetByUsername, Attempt
<1>6. ASSUME NEW a \in Agents, VerifyPassword(a) PROVE TypeOK'
  <2>1. attempt' \in [Agents -> Attempt \cup {Nobody}]
    BY <1>1, <1>2, <1>3, <1>6 DEF VerifyPassword
  <2> QED
    BY <1>6, <2>1 DEF VerifyPassword, Attempt
<1>7. ASSUME NEW a \in Agents, Leave(a) PROVE TypeOK'
  <2>1. attempt' \in [Agents -> Attempt \cup {Nobody}]
    BY <1>3, <1>7 DEF Leave
  <2> QED
    BY <1>7, <2>1 DEF Leave, Attempt
<1>8. ASSUME NEW key \in Keys, NEW commands \in SUBSET Operators, Crash(key, commands)
      PROVE  TypeOK'
  BY <1>8 DEF Crash, Resting
<1>9. CASE Tick
  BY <1>9 DEF Tick
<1>10. CASE UNCHANGED vars
  BY <1>10 DEF vars
<1> QED
  BY <1>4, <1>5, <1>6, <1>7, <1>8, <1>9, <1>10 DEF Agent

\* No step changes the shape of the data.
LEMMA TypeStep == TypeOK /\ [Next]_vars => TypeOK'
  BY OperatorType, SweepType, OtherType DEF Next

-----------------------------------------------------------------------------
(* The inductive invariant *)

\* A password written to a live row, with its own ciphertext, keeps the rows
\* what RowInv says, and live rows stay the same connections.
LEMMA WriteKeepsRows ==
    ASSUME IInv, NEW i \in Live, NEW pw \in 1..minted', NEW enc \in Ciphertext,
           enc.pw \in {0, pw}, NEW now \in Nat, NEW auto \in BOOLEAN, minted' \in Nat, minted <= minted',
           WritePassword(i, pw, enc, now, auto)
    PROVE  /\ RowInv'
           /\ Live' = Live
           /\ \A j \in Ids : rows'[j].pw = IF j = i THEN pw ELSE rows[j].pw
<1> USE DEF IInv
<1> DEFINE row == [user |-> rows[i].user, pw |-> pw, enc |-> enc, expires |-> rows[i].expires,
                   every |-> rows[i].every, rotatedAt |-> now, auto |-> auto]
<1>1. row \in Row
  BY LiveRow DEF Row
<1>2. \A j \in Ids : rows'[j] = IF j = i THEN row ELSE rows[j]
  BY LiveRow DEF WritePassword, TypeOK
<1>3. Live' = Live
  BY <1>1, <1>2, RowIsLive DEF Live
<1>4. /\ row.user = i /\ row.pw = pw /\ row.enc = enc
  BY DEF RowInv
<1> HIDE DEF row
<1>5. RowInv'
  <2> SUFFICES ASSUME NEW j \in Live
               PROVE  /\ rows'[j].user = j
                      /\ rows'[j].pw \in 1..minted'
                      /\ rows'[j].enc.pw \in {0, rows'[j].pw}
    BY <1>3 DEF RowInv
  <2>1. j \in Ids
    BY LiveRow
  <2>2. CASE j = i
    BY <1>2, <1>4, <2>1, <2>2
  <2>3. CASE j # i
    BY <1>2, <2>1, <2>3 DEF RowInv, TypeOK
  <2> QED
    BY <2>2, <2>3
<1> QED
  BY <1>2, <1>3, <1>4, <1>5

\* Steps that leave the table alone, or only take rows from it, keep RowInv.
LEMMA FewerRows ==
    ASSUME IInv, \A i \in Ids : rows'[i] \in {rows[i], NoRow}, minted' \in Nat, minted <= minted'
    PROVE  RowInv' /\ \A i \in Live' : i \in Live /\ rows'[i] = rows[i]
<1>1. \A i \in Live' : i \in Live /\ rows'[i] = rows[i]
  BY DEF Live
<1>2. ASSUME NEW i \in Live'
      PROVE  /\ rows'[i].user = i
             /\ rows'[i].pw \in 1..minted'
             /\ rows'[i].enc.pw \in {0, rows'[i].pw}
  <2>1. i \in Live /\ rows'[i] = rows[i]
    BY <1>1, <1>2
  <2>2. rows[i].user = i /\ rows[i].pw \in 1..minted /\ rows[i].enc.pw \in {0, rows[i].pw}
    BY <2>1 DEF RowInv, IInv
  <2> QED
    BY <2>1, <2>2 DEF IInv, TypeOK
<1> QED
  BY <1>1, <1>2 DEF RowInv

\* Rotations that go on unchanged, or are given up, keep OpInv.
LEMMA FewerOps ==
    ASSUME IInv, \A o \in Operators : rotating'[o] \in {rotating[o], NoOp},
           minted' \in Nat, minted <= minted'
    PROVE  OpInv'
<1> SUFFICES ASSUME NEW o \in Operators, rotating'[o].pc # "none"
             PROVE  /\ rotating'[o].user = rotating'[o].id
                    /\ rotating'[o].pw \in 1..minted'
                    /\ rotating'[o].enc.pw \in {0, rotating'[o].pw}
                    /\ rotating'[o].told \in {0, rotating'[o].user}
  BY DEF OpInv
<1>1. rotating'[o] = rotating[o]
  BY DEF NoOp
<1>2. /\ rotating[o].user = rotating[o].id /\ rotating[o].pw \in 1..minted
      /\ rotating[o].enc.pw \in {0, rotating[o].pw} /\ rotating[o].told \in {0, rotating[o].user}
  BY <1>1 DEF IInv, OpInv
<1> QED
  BY <1>1, <1>2 DEF IInv, TypeOK

\* While the sessions wait, the others keep a wrong password wrong: a row's
\* password changes only to a new one or to one that an operator held.
LEMMA AttemptsKept ==
    ASSUME IInv, UNCHANGED attempt, minted' \in Nat, minted <= minted',
           \A i \in Live' : \/ i \in Live /\ rows'[i].pw = rows[i].pw
                            \/ rows'[i].pw > minted
                            \/ \E o \in Operators : rotating[o].pc = "update" /\ rotating[o].pw = rows'[i].pw,
           \A o \in Operators : rotating'[o].pc = "update" =>
                \/ rotating'[o].pw > minted
                \/ rotating[o].pc = "update" /\ rotating'[o].pw = rotating[o].pw
    PROVE  AttemptInv'
<1> SUFFICES ASSUME NEW a \in Agents, attempt[a] # Nobody
             PROVE  /\ attempt[a].pw \in 1..minted'
                    /\ attempt[a].wrong /\ attempt[a].pc = "sent" =>
                         /\ attempt[a].id \in Live' => rows'[attempt[a].id].pw # attempt[a].pw
                         /\ \A o \in Operators : rotating'[o].pc = "update" => rotating'[o].pw # attempt[a].pw
                    /\ attempt[a].wrong /\ attempt[a].pc = "verify" => attempt[a].hash # attempt[a].pw
                    /\ attempt[a].pc = "admitted" => ~attempt[a].wrong
  BY DEF AttemptInv
<1>1. attempt[a].pw \in 1..minted /\ minted \in Nat
  BY DEF IInv, AttemptInv, TypeOK
<1>2. ~(attempt[a].pw > minted)
  BY <1>1
<1> QED
  BY <1>1, <1>2 DEF IInv, AttemptInv

-----------------------------------------------------------------------------
\* Every step of an operator keeps the invariant.
LEMMA OperatorStep == ASSUME IInv, Operator PROVE IInv'
<1>0. TypeOK /\ TypeOK' /\ RowInv /\ OpInv /\ SweepInv /\ AttemptInv
  BY OperatorType DEF IInv
<1>1. ASSUME NEW e \in Deadlines, NEW n \in Intervals \cup {0}, NEW key \in Keys, Create(e, n, key)
      PROVE  IInv'
  <2> DEFINE row == [user |-> born + 1, pw |-> minted + 1, enc |-> encrypt(key, minted + 1),
                     expires |-> e, every |-> n, rotatedAt |-> clock, auto |-> FALSE]
  <2>1. /\ minted \in Nat /\ minted' = minted + 1 /\ born + 1 \in Ids
        /\ UNCHANGED <<clock, sweeper, rotating, attempt>>
    BY <1>0, <1>1 DEF Create, TypeOK
  <2>2. \A j \in Ids : rows'[j] = IF j = born + 1 THEN row ELSE rows[j]
    BY <1>0, <1>1 DEF Create, TypeOK, NextId
  <2>3. row.user = born + 1 /\ row.pw = minted + 1 /\ row.enc.pw \in {0, minted + 1}
    BY <2>1, EncryptType
  <2> HIDE DEF row
  <2>4. \A j \in Live' : j = born + 1 \/ (j \in Live /\ rows'[j] = rows[j])
    BY <2>2 DEF Live
  <2>5. RowInv'
    <3> SUFFICES ASSUME NEW j \in Live'
                 PROVE  /\ rows'[j].user = j
                        /\ rows'[j].pw \in 1..minted'
                        /\ rows'[j].enc.pw \in {0, rows'[j].pw}
      BY DEF RowInv
    <3>1. CASE j = born + 1
      BY <2>1, <2>2, <2>3, <3>1
    <3>2. CASE j # born + 1
      BY <1>0, <2>1, <2>4, <3>2 DEF RowInv
    <3> QED
      BY <3>1, <3>2
  <2>6. OpInv'
    BY <2>1, FewerOps
  <2>7. SweepInv'
    BY <1>0, <2>1 DEF SweepInv
  <2>8. AttemptInv'
    BY <2>1, <2>2, <2>3, <2>4, AttemptsKept
  <2> QED
    BY <1>0, <2>5, <2>6, <2>7, <2>8 DEF IInv
<1>2. ASSUME NEW i \in Live, NEW e \in Deadlines \cup {rows[i].expires},
             NEW n \in Intervals \cup {0, rows[i].every}, Update(i, e, n)
      PROVE  IInv'
  <2> DEFINE row == [user |-> rows[i].user, pw |-> rows[i].pw, enc |-> rows[i].enc, expires |-> e,
                     every |-> n, rotatedAt |-> rows[i].rotatedAt, auto |-> rows[i].auto]
  <2>1. minted \in Nat /\ UNCHANGED <<minted, clock, sweeper, rotating, attempt>>
    BY <1>0, <1>2 DEF Update, TypeOK
  <2>2. \A j \in Ids : rows'[j] = IF j = i THEN row ELSE rows[j]
    BY <1>0, <1>2, LiveRow DEF Update, TypeOK
  <2>3. row.user = rows[i].user /\ row.pw = rows[i].pw /\ row.enc = rows[i].enc
    OBVIOUS
  <2> HIDE DEF row
  <2>4. \A j \in Live' : j \in Live /\ j \in Ids
    BY <2>2 DEF Live
  <2>5. RowInv'
    BY <1>0, <2>1, <2>2, <2>3, <2>4 DEF RowInv
  <2>6. OpInv' /\ SweepInv'
    BY <1>0, <2>1, FewerOps DEF SweepInv
  <2>7. AttemptInv'
    BY <2>1, <2>2, <2>3, <2>4, AttemptsKept
  <2> QED
    BY <1>0, <2>5, <2>6, <2>7 DEF IInv
<1>3. ASSUME NEW i \in Live, Delete(i) PROVE IInv'
  <2>1. /\ minted \in Nat /\ UNCHANGED <<minted, clock, sweeper, rotating, attempt>>
        /\ \A j \in Ids : rows'[j] \in {rows[j], NoRow}
    BY <1>0, <1>3 DEF Delete, TypeOK
  <2>2. RowInv' /\ \A j \in Live' : j \in Live /\ rows'[j] = rows[j]
    BY <2>1, FewerRows
  <2>3. OpInv' /\ SweepInv'
    BY <1>0, <2>1, FewerOps DEF SweepInv
  <2>4. AttemptInv'
    BY <2>1, <2>2, AttemptsKept
  <2> QED
    BY <1>0, <2>2, <2>3, <2>4 DEF IInv
<1>4. ASSUME NEW o \in Operators, NEW i \in Live, NEW key \in Keys, RotateMint(o, i, key)
      PROVE  IInv'
  <2> DEFINE new == [pc |-> "update", id |-> i, user |-> rows[i].user, pw |-> minted + 1,
                     enc |-> encrypt(key, minted + 1), now |-> clock, told |-> 0]
  <2>1. /\ minted \in Nat /\ minted' = minted + 1
        /\ UNCHANGED <<rows, clock, sweeper, attempt>>
    BY <1>0, <1>4 DEF RotateMint, TypeOK
  <2>2. \A p \in Operators : rotating'[p] = IF p = o THEN new ELSE rotating[p]
    BY <1>0, <1>4 DEF RotateMint, TypeOK
  <2>3. /\ new.user = i /\ new.id = i /\ new.pw = minted + 1 /\ new.enc.pw \in {0, minted + 1}
        /\ new.told = 0
    BY <1>0, <2>1, EncryptType DEF RowInv
  <2> HIDE DEF new
  <2>4. OpInv'
    <3> SUFFICES ASSUME NEW p \in Operators, rotating'[p].pc # "none"
                 PROVE  /\ rotating'[p].user = rotating'[p].id
                        /\ rotating'[p].pw \in 1..minted'
                        /\ rotating'[p].enc.pw \in {0, rotating'[p].pw}
                        /\ rotating'[p].told \in {0, rotating'[p].user}
      BY DEF OpInv
    <3>1. CASE p = o
      BY <2>1, <2>2, <2>3, <3>1
    <3>2. CASE p # o
      BY <1>0, <2>1, <2>2, <3>2 DEF OpInv
    <3> QED
      BY <3>1, <3>2
  <2>5. Live' = Live
    BY <2>1 DEF Live
  <2>6. RowInv' /\ SweepInv'
    BY <1>0, <2>1, FewerRows DEF SweepInv
  <2>7. AttemptInv'
    BY <2>1, <2>2, <2>3, <2>5, AttemptsKept
  <2> QED
    BY <1>0, <2>4, <2>6, <2>7 DEF IInv
<1>5. ASSUME NEW o \in Operators, RotateWrite(o) PROVE IInv'
  <2>1. /\ minted \in Nat /\ UNCHANGED <<minted, clock, sweeper, attempt>>
        /\ rotating[o].pc = "update"
    BY <1>0, <1>5 DEF RotateWrite, TypeOK
  <2>2. CASE rotating[o].id \in Live
    <3>1. WritePassword(rotating[o].id, rotating[o].pw, rotating[o].enc, rotating[o].now, FALSE)
      BY <1>5, <2>2 DEF RotateWrite
    <3>2. /\ rotating[o].pw \in 1..minted' /\ rotating[o].enc \in Ciphertext
          /\ rotating[o].enc.pw \in {0, rotating[o].pw} /\ rotating[o].now \in Nat
      BY <1>0, <2>1, OpType DEF OpInv
    <3>3. /\ RowInv' /\ Live' = Live
          /\ \A j \in Ids : rows'[j].pw = IF j = rotating[o].id THEN rotating[o].pw ELSE rows[j].pw
      <4>1. minted' \in Nat /\ minted <= minted' /\ FALSE \in BOOLEAN
        BY <2>1
      <4> QED
        BY <2>2, <3>1, <3>2, <4>1, WriteKeepsRows, Zenon
    <3>4. Rotated(o, "list", 0)
      BY <1>5, <2>2 DEF RotateWrite
    <3>5. \A p \in Operators :
             /\ rotating'[p].pc = IF p = o THEN "list" ELSE rotating[p].pc
             /\ rotating'[p].user = rotating[p].user /\ rotating'[p].id = rotating[p].id
             /\ rotating'[p].pw = rotating[p].pw /\ rotating'[p].enc = rotating[p].enc
             /\ rotating'[p].told = IF p = o THEN 0 ELSE rotating[p].told
      BY <1>0, <3>4 DEF Rotated, TypeOK
    <3>6. OpInv'
      BY <1>0, <2>1, <3>5 DEF OpInv
    <3>7. SweepInv'
      BY <1>0, <2>1 DEF SweepInv
    <3>8. AttemptInv'
      <4>1. \A j \in Live' : j \in Ids
        BY DEF Live
      <4> QED
        BY <2>1, <3>3, <3>5, <4>1, AttemptsKept
    <3> QED
      BY <1>0, <3>3, <3>6, <3>7, <3>8 DEF IInv
  <2>3. CASE rotating[o].id \notin Live
    <3>1. UNCHANGED rows /\ \A p \in Operators : rotating'[p] \in {rotating[p], NoOp}
      BY <1>0, <1>5, <2>3 DEF RotateWrite, TypeOK
    <3>2. OpInv' /\ SweepInv'
      BY <1>0, <2>1, <3>1, FewerOps DEF SweepInv
    <3>3. RowInv' /\ \A i \in Live' : i \in Live /\ rows'[i] = rows[i]
      BY <2>1, <3>1, FewerRows
    <3>4. AttemptInv'
      BY <2>1, <3>1, <3>3, AttemptsKept DEF NoOp
    <3> QED
      BY <1>0, <3>2, <3>3, <3>4 DEF IInv
  <2> QED
    BY <2>2, <2>3
<1>6. ASSUME NEW o \in Operators, RotateFails(o) PROVE IInv'
  <2>1. /\ minted \in Nat /\ UNCHANGED <<rows, minted, clock, sweeper, attempt>>
        /\ \A p \in Operators : rotating'[p] \in {rotating[p], NoOp}
    BY <1>0, <1>6 DEF RotateFails, TypeOK
  <2>2. OpInv' /\ SweepInv'
    BY <1>0, <2>1, FewerOps DEF SweepInv
  <2>3. RowInv' /\ \A i \in Live' : i \in Live /\ rows'[i] = rows[i]
    BY <2>1, FewerRows
  <2>4. AttemptInv'
    BY <2>1, <2>3, AttemptsKept DEF NoOp
  <2> QED
    BY <1>0, <2>2, <2>3, <2>4 DEF IInv
<1>7. ASSUME NEW o \in Operators, RotateAnswer(o) \/ RotateAnswerBlank(o) PROVE IInv'
  <2>1. /\ minted \in Nat /\ UNCHANGED <<rows, minted, clock, sweeper, attempt>>
        /\ rotating[o].pc = "list"
    BY <1>0, <1>7 DEF RotateAnswer, RotateAnswerBlank, TypeOK
  <2>2. PICK t : t \in {0, rotating[o].user} /\ Rotated(o, "told", t)
    BY <1>0, <1>7, <2>1 DEF RotateAnswer, RotateAnswerBlank, RowInv, OpInv
  <2>3. \A p \in Operators :
           /\ rotating'[p].pc = IF p = o THEN "told" ELSE rotating[p].pc
           /\ rotating'[p].user = rotating[p].user /\ rotating'[p].id = rotating[p].id
           /\ rotating'[p].pw = rotating[p].pw /\ rotating'[p].enc = rotating[p].enc
           /\ rotating'[p].told = IF p = o THEN t ELSE rotating[p].told
    BY <1>0, <2>2 DEF Rotated, TypeOK
  <2>4. OpInv'
    BY <1>0, <2>1, <2>2, <2>3 DEF OpInv
  <2>5. SweepInv'
    BY <1>0, <2>1 DEF SweepInv
  <2>6. RowInv' /\ \A i \in Live' : i \in Live /\ rows'[i] = rows[i]
    BY <2>1, FewerRows
  <2>7. AttemptInv'
    BY <2>1, <2>3, <2>6, AttemptsKept
  <2> QED
    BY <1>0, <2>4, <2>5, <2>6, <2>7 DEF IInv
<1> QED
  BY <1>1, <1>2, <1>3, <1>4, <1>5, <1>6, <1>7 DEF Operator

\* Every step of the sweeper keeps the invariant.
LEMMA SweepStep == ASSUME IInv, Sweep \/ SweepFault PROVE IInv'
<1>0. TypeOK /\ TypeOK' /\ RowInv /\ OpInv /\ SweepInv /\ AttemptInv
  BY SweepType DEF IInv
<1>1. ASSUME UNCHANGED <<rows, minted, rotating, attempt>>, SweepInv' PROVE IInv'
  <2>1. minted \in Nat
    BY <1>0 DEF TypeOK
  <2>2. RowInv' /\ \A i \in Live' : i \in Live /\ rows'[i] = rows[i]
    BY <1>1, <2>1, FewerRows
  <2>3. OpInv' /\ AttemptInv'
    BY <1>1, <2>1, <2>2, FewerOps, AttemptsKept
  <2> QED
    BY <1>0, <1>1, <2>2, <2>3 DEF IInv
<1>2. CASE SweepStart
  <2>1. SweepInv'
    BY <1>0, <1>2 DEF SweepStart, SweepInv, TypeOK
  <2> QED
    BY <1>1, <1>2, <2>1 DEF SweepStart
<1>3. CASE DeleteExpired
  <2>1. /\ minted \in Nat /\ UNCHANGED <<minted, clock, rotating, attempt>>
        /\ \A i \in Ids : rows'[i] \in {rows[i], NoRow}
        /\ sweeper'.now = sweeper.now /\ sweeper'.due = {}
    BY <1>0, <1>3 DEF DeleteExpired, TypeOK
  <2>2. RowInv' /\ \A i \in Live' : i \in Live /\ rows'[i] = rows[i]
    BY <2>1, FewerRows
  <2>3. OpInv' /\ AttemptInv'
    BY <2>1, <2>2, FewerOps, AttemptsKept
  <2>4. SweepInv'
    BY <1>0, <2>1 DEF SweepInv
  <2> QED
    BY <1>0, <2>2, <2>3, <2>4 DEF IInv
<1>4. CASE RotateDueScan
  <2> DEFINE found == {<<i, rows[i].user>> : i \in {j \in Live : Due(j, sweeper.now)}}
  <2>1. \A d \in found : d[1] = d[2]
    <3> SUFFICES ASSUME NEW i \in Live PROVE rows[i].user = i
      OBVIOUS
    <3> QED
      BY <1>0 DEF RowInv
  <2>2. sweeper'.now = sweeper.now /\ sweeper'.due = found /\ UNCHANGED clock
    BY <1>4 DEF RotateDueScan
  <2> HIDE DEF found
  <2>3. SweepInv'
    BY <1>0, <2>1, <2>2 DEF SweepInv
  <2> QED
    BY <1>1, <1>4, <2>3 DEF RotateDueScan
<1>5. ASSUME NEW d \in sweeper.due, RotateDueWrite(d) PROVE IInv'
  <2>1. minted \in Nat /\ sweeper.now \in Nat /\ UNCHANGED <<clock, rotating, attempt>>
    BY <1>0, <1>5 DEF RotateDueWrite, TypeOK
  <2>2. SweepInv'
    BY <1>0, <1>5, <2>1 DEF RotateDueWrite, Advance, SweepInv
  <2>3. CASE d[1] \in Live
    <3>1. /\ minted' = minted + 1
          /\ WritePassword(d[1], minted + 1, encrypt(secret, minted + 1), sweeper.now, TRUE)
      BY <1>5, <2>3 DEF RotateDueWrite
    <3>2. /\ minted + 1 \in 1..minted' /\ minted' \in Nat /\ minted <= minted' /\ TRUE \in BOOLEAN
      BY <2>1, <3>1
    <3>3. encrypt(secret, minted + 1) \in Ciphertext /\ encrypt(secret, minted + 1).pw \in {0, minted + 1}
      <4>1. secret \in Keys /\ minted + 1 \in Nat
        BY <1>0, <2>1 DEF TypeOK
      <4> QED
        BY <4>1, EncryptType
    <3>4. /\ RowInv' /\ Live' = Live
          /\ \A j \in Ids : rows'[j].pw = IF j = d[1] THEN minted + 1 ELSE rows[j].pw
      BY <2>1, <2>3, <3>1, <3>2, <3>3, WriteKeepsRows, Zenon
    <3>5. OpInv'
      BY <2>1, <3>2, FewerOps
    <3>6. AttemptInv'
      <4>1. \A j \in Live' : j \in Ids
        BY DEF Live
      <4> QED
        BY <2>1, <3>2, <3>4, <4>1, AttemptsKept
    <3> QED
      BY <1>0, <2>2, <3>4, <3>5, <3>6 DEF IInv
  <2>4. CASE d[1] \notin Live
    BY <1>1, <1>5, <2>1, <2>2, <2>4 DEF RotateDueWrite
  <2> QED
    BY <2>3, <2>4
<1>6. CASE SweepEnd
  <2>1. SweepInv'
    BY <1>0, <1>6 DEF SweepEnd, Resting, SweepInv, TypeOK
  <2> QED
    BY <1>1, <1>6, <2>1 DEF SweepEnd
<1>7. CASE SweepFault
  <2>1. SweepInv'
    BY <1>0, <1>7 DEF SweepFault, Advance, Resting, SweepInv, TypeOK
  <2> QED
    BY <1>1, <1>7, <2>1 DEF SweepFault
<1> QED
  BY <1>2, <1>3, <1>4, <1>5, <1>6, <1>7 DEF Sweep

\* Every step of an agent's session keeps the invariant.
LEMMA AgentStep == ASSUME IInv, Agent PROVE IInv'
<1>0. TypeOK /\ TypeOK' /\ RowInv /\ OpInv /\ SweepInv /\ AttemptInv
  BY OtherType DEF IInv
<1>1. UNCHANGED <<rows, minted, clock, sweeper, rotating>>
  BY DEF Agent, SendPassword, GetByUsername, VerifyPassword, Leave
<1>2. RowInv' /\ OpInv' /\ SweepInv' /\ Live' = Live
  BY <1>0, <1>1 DEF RowInv, OpInv, SweepInv, Live
<1>3. ASSUME NEW a \in Agents, \A b \in Agents \ {a} : attempt'[b] = attempt[b],
             attempt'[a] # Nobody =>
               /\ attempt'[a].pw \in 1..minted
               /\ attempt'[a].wrong /\ attempt'[a].pc = "sent" =>
                     /\ attempt'[a].id \in Live => rows[attempt'[a].id].pw # attempt'[a].pw
                     /\ \A o \in Operators : rotating[o].pc = "update" => rotating[o].pw # attempt'[a].pw
               /\ attempt'[a].wrong /\ attempt'[a].pc = "verify" => attempt'[a].hash # attempt'[a].pw
               /\ attempt'[a].pc = "admitted" => ~attempt'[a].wrong
      PROVE  AttemptInv'
  BY <1>0, <1>1, <1>2, <1>3 DEF AttemptInv
<1>4. ASSUME NEW a \in Agents, NEW i \in Ids, NEW pw \in 1..minted, SendPassword(a, i, pw)
      PROVE  AttemptInv'
  <2>1. /\ \A b \in Agents \ {a} : attempt'[b] = attempt[b]
        /\ attempt'[a].pw = pw /\ attempt'[a].pc = "sent" /\ attempt'[a].id = i
        /\ attempt'[a].wrong => ~(i \in Live /\ rows[i].pw = pw)
    BY <1>0, <1>4 DEF SendPassword, TypeOK
  <2>2. \A o \in Operators : rotating[o].pc = "update" => rotating[o].pw # pw
    BY <1>4 DEF SendPassword
  <2> QED
    BY <1>3, <2>1, <2>2
<1>5. ASSUME NEW a \in Agents, Reject(a) PROVE AttemptInv'
  BY <1>0, <1>3, <1>5 DEF Reject, TypeOK
<1>6. ASSUME NEW a \in Agents, attempt[a] # Nobody, NEW p, NEW h, Progress(a, p, h)
      PROVE  /\ \A b \in Agents \ {a} : attempt'[b] = attempt[b]
             /\ attempt'[a].pc = p /\ attempt'[a].hash = h
             /\ attempt'[a].pw = attempt[a].pw /\ attempt'[a].wrong = attempt[a].wrong
  BY <1>0, <1>6 DEF Progress, TypeOK
<1>7. ASSUME NEW a \in Agents, GetByUsername(a) PROVE AttemptInv'
  <2>1. CASE Reject(a)
    BY <1>5, <2>1
  <2>2. CASE attempt[a].id \in Live /\ Progress(a, "verify", rows[attempt[a].id].pw)
    <3>1. attempt[a] # Nobody /\ attempt[a].pc = "sent"
      BY <1>7 DEF GetByUsername
    <3>2. /\ \A b \in Agents \ {a} : attempt'[b] = attempt[b]
          /\ attempt'[a].pc = "verify" /\ attempt'[a].hash = rows[attempt[a].id].pw
          /\ attempt'[a].pw = attempt[a].pw /\ attempt'[a].wrong = attempt[a].wrong
      BY <1>6, <2>2, <3>1
    <3> QED
      BY <1>0, <1>3, <2>2, <3>1, <3>2 DEF AttemptInv
  <2> QED
    BY <1>7, <2>1, <2>2 DEF GetByUsername
<1>8. ASSUME NEW a \in Agents, VerifyPassword(a) PROVE AttemptInv'
  <2>1. CASE Reject(a)
    BY <1>5, <2>1
  <2>2. CASE attempt[a].hash = attempt[a].pw /\ Progress(a, "admitted", attempt[a].hash)
    <3>1. attempt[a] # Nobody /\ attempt[a].pc = "verify"
      BY <1>8 DEF VerifyPassword
    <3>2. /\ \A b \in Agents \ {a} : attempt'[b] = attempt[b]
          /\ attempt'[a].pc = "admitted"
          /\ attempt'[a].pw = attempt[a].pw /\ attempt'[a].wrong = attempt[a].wrong
      BY <1>6, <2>2, <3>1
    <3> QED
      BY <1>0, <1>3, <2>2, <3>1, <3>2 DEF AttemptInv
  <2> QED
    BY <1>8, <2>1, <2>2 DEF VerifyPassword
<1>9. AttemptInv'
  BY <1>4, <1>5, <1>7, <1>8 DEF Agent, Leave
<1> QED
  BY <1>0, <1>2, <1>9 DEF IInv

\* Every step keeps the invariant.
LEMMA IInvInductive == IInv /\ [Next]_vars => IInv'
<1> SUFFICES ASSUME IInv, [Next]_vars PROVE IInv'
  OBVIOUS
<1>0. TypeOK /\ TypeOK' /\ RowInv /\ OpInv /\ SweepInv /\ AttemptInv /\ minted \in Nat
  BY TypeStep DEF IInv, TypeOK
<1>1. ASSUME NEW key \in Keys, NEW commands \in SUBSET Operators, Crash(key, commands) PROVE IInv'
  <2>1. /\ UNCHANGED <<rows, minted, clock>> /\ sweeper' = Resting
        /\ \A o \in Operators : rotating'[o] \in {rotating[o], NoOp}
        /\ \A a \in Agents : attempt'[a] = Nobody
    BY <1>1 DEF Crash
  <2>2. RowInv' /\ OpInv'
    BY <1>0, <2>1, FewerRows, FewerOps
  <2>3. SweepInv' /\ AttemptInv'
    BY <1>0, <2>1 DEF Resting, SweepInv, AttemptInv, TypeOK
  <2> QED
    BY <1>0, <2>2, <2>3 DEF IInv
<1>2. CASE Tick
  <2>1. UNCHANGED <<rows, minted, sweeper, rotating, attempt>> /\ clock' = clock + 1
    BY <1>2 DEF Tick
  <2>2. RowInv' /\ OpInv' /\ AttemptInv'
    BY <1>0, <2>1 DEF RowInv, OpInv, AttemptInv, Live
  <2>3. SweepInv'
    BY <1>0, <2>1 DEF SweepInv, TypeOK
  <2> QED
    BY <1>0, <2>2, <2>3 DEF IInv
<1>3. CASE UNCHANGED vars
  BY <1>0, <1>3 DEF vars, IInv, RowInv, OpInv, SweepInv, AttemptInv, Live
<1> QED
  BY <1>1, <1>2, <1>3, OperatorStep, SweepStep, AgentStep DEF Next

\* The invariant holds in the beginning.
LEMMA IInvInit == Init => IInv
  BY DEF Init, IInv, TypeOK, RowInv, OpInv, SweepInv, AttemptInv, Live, Resting, NoOp

\* The invariant holds for ever.
LEMMA IInvHolds == Spec => []IInv
  BY IInvInit, IInvInductive, PTL DEF Spec

-----------------------------------------------------------------------------
\* The registry and everything its users hold keep their shape.
THEOREM TypeCorrect == Spec => []TypeOK
<1>1. IInv => TypeOK
  BY DEF IInv
<1> QED
  BY <1>1, IInvHolds, PTL

\* The password that the dashboard displays is the one that works, whoever
\* rotates at the same time and under whatever tokens.
THEOREM Displayed == Spec => []DisplayedPasswordWorks
<1>1. IInv => DisplayedPasswordWorks
  BY DEF IInv, RowInv, DisplayedPasswordWorks, decrypt
<1> QED
  BY <1>1, IInvHolds, PTL

\* A rotation, manual or automatic, hits the connection it was decided for.
THEOREM HitsTarget == Spec => []RotationHitsItsTarget
<1>1. IInv => RotationHitsItsTarget
  BY DEF IInv, RowInv, OpInv, SweepInv, RotationHitsItsTarget
<1> QED
  BY <1>1, IInvHolds, PTL

\* The answer to a rotation names the connection whose password it carries.
THEOREM NamesTarget == Spec => []AnswerNamesItsTarget
<1>1. IInv => AnswerNamesItsTarget
  BY DEF IInv, OpInv, AnswerNamesItsTarget
<1> QED
  BY <1>1, IInvHolds, PTL

\* A password that was wrong when it was sent never opens a session.
THEOREM StaysOut == Spec => []WrongPasswordStaysOut
<1>1. IInv => WrongPasswordStaysOut
  BY DEF IInv, AttemptInv, WrongPasswordStaysOut
<1> QED
  BY <1>1, IInvHolds, PTL

\* A row disappears by the DELETE of an operator or of a sweep that finds its
\* deadline passed: no other statement removes one, and a sweep's idea of the
\* time is never ahead of the clock.
THEOREM SweptExpired == Spec => SweptOnlyWhenExpired
<1> DEFINE Rightly == \A i \in Ids : i \in Live /\ rows'[i] = NoRow => Expired(i, clock) \/ Delete(i)
<1>1. ASSUME IInv, [Next]_vars PROVE Rightly
  <2> SUFFICES ASSUME NEW i \in Live, rows'[i] = NoRow PROVE Expired(i, clock) \/ Delete(i)
    OBVIOUS
  <2>0. TypeOK /\ TypeOK' /\ i \in Ids /\ rows[i] \in Row /\ rows'[i] # rows[i]
    BY <1>1, LiveRow, TypeStep DEF IInv, Live
  <2>1. ASSUME NEW j \in Ids, NEW row, row.user \in Nat \ {0}, rows' = [rows EXCEPT ![j] = row]
        PROVE  FALSE
    BY <2>0, <2>1 DEF TypeOK, NoRow
  <2>2. ASSUME NEW j \in Live, NEW pw, NEW enc, NEW now, NEW auto, WritePassword(j, pw, enc, now, auto)
        PROVE  FALSE
    BY <2>0, <2>1, <2>2, LiveRow DEF WritePassword
  <2>3. ASSUME NEW e \in Deadlines, NEW n \in Intervals \cup {0}, NEW key \in Keys, Create(e, n, key)
        PROVE  FALSE
    <3> DEFINE row == [user |-> born + 1, pw |-> minted + 1, enc |-> encrypt(key, minted + 1),
                       expires |-> e, every |-> n, rotatedAt |-> clock, auto |-> FALSE]
    <3>1. born + 1 \in Ids /\ born + 1 \in Nat \ {0}
      BY <2>0, <2>3, TimeAssumption DEF Create, TypeOK, Ids
    <3>2. row.user \in Nat \ {0}
      BY <3>1
    <3>3. rows' = [rows EXCEPT ![born + 1] = row]
      BY <2>3 DEF Create, NextId
    <3> HIDE DEF row
    <3> QED
      BY <2>1, <3>1, <3>2, <3>3
  <2>4. ASSUME NEW j \in Live, NEW e, NEW n, Update(j, e, n) PROVE FALSE
    BY <2>0, <2>1, <2>4, LiveRow DEF Update
  <2>5. ASSUME NEW j \in Live, Delete(j) PROVE Delete(i)
    <3>1. j = i
      BY <2>0, <2>5 DEF Delete, TypeOK
    <3> QED
      BY <2>5, <3>1
  <2>6. CASE DeleteExpired
    <3>1. Expired(i, sweeper.now)
      BY <2>0, <2>6 DEF DeleteExpired
    <3>2. sweeper.now \in Nat /\ clock \in Nat /\ sweeper.now <= clock
      BY <1>1, <2>0 DEF IInv, SweepInv, TypeOK
    <3>3. rows[i].expires \in Nat
      BY <2>0 DEF Row
    <3> QED
      BY <3>1, <3>2, <3>3 DEF Expired
  <2>7. ASSUME NEW o \in Operators, RotateWrite(o) PROVE FALSE
    BY <2>0, <2>2, <2>7 DEF RotateWrite
  <2>8. ASSUME NEW d \in sweeper.due, RotateDueWrite(d) PROVE FALSE
    BY <2>0, <2>2, <2>8 DEF RotateDueWrite
  <2>9. rows' # rows
    BY <2>0
  <2> QED
    BY <1>1, <2>3, <2>4, <2>5, <2>6, <2>7, <2>8, <2>9
    DEF Next, Operator, Sweep, Agent, vars, RotateMint, RotateFails, RotateAnswer, RotateAnswerBlank,
        SweepStart, RotateDueScan, SweepEnd, SweepFault, Crash, Tick, SendPassword, GetByUsername,
        VerifyPassword, Leave
<1> QED
  BY <1>1, IInvHolds, PTL DEF Spec, SweptOnlyWhenExpired
=============================================================================
