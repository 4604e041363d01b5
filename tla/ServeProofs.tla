---------------------------- MODULE ServeProofs ----------------------------
(***************************************************************************)
(* Proofs about Serve: the certificate stays the one that was pinned, no   *)
(* password is read in the clear, sessions are admitted under the current  *)
(* policy, and the admin handlers run for the token's holder only.         *)
(*                                                                         *)
(* All rest on the invariant IInv of Serve.  The steps of Next are taken   *)
(* in four groups: those of the process and its servers, which leave       *)
(* certificates and sessions alone; setting the certificates up; the end   *)
(* of the process; and those of sessions, which leave the rest alone.      *)
(***************************************************************************)
EXTENDS Serve, TLAPS

\* Initially nothing runs and nobody was shown anything.
LEMMA IInvInit == Init => IInv
<1> SUFFICES ASSUME Init PROVE IInv
  OBVIOUS
<1>1. CertsTypeOK /\ CertInv
  BY CertsAssumption
  DEF Init, CertsInit, StartupInit, CertsTypeOK, CertInv, NoCert, Writing
<1>2. StartupTypeOK /\ TlsInv /\ PolicyInv
  BY StartupAssumption, CertsAssumption
  DEF Init, CertsInit, StartupInit, StartupTypeOK, TlsInv, PolicyInv, Over, Trusted, tlsOn, NoCert
<1>3. LifeInv /\ AdminInv
  BY DEF Init, CertsInit, StartupInit, LifeInv, AdminInv, AdminNeedsToken
<1>4. boots \in 0..MaxBoots
  BY ServeAssumption DEF Init
<1> QED
  BY <1>1, <1>2, <1>3, <1>4 DEF Init, IInv, TypeOK

-----------------------------------------------------------------------------
(* The process and its servers *)

\* What the steps of runServe and of the admin server leave alone.
Untouched == UNCHANGED <<certVars, startVars>>

\* The invariants of certificates and of the policies that sessions have speak
\* of nothing else.
LEMMA UntouchedKeeps ==
  ASSUME IInv, Untouched
  PROVE  CertsTypeOK' /\ StartupTypeOK' /\ CertInv' /\ PolicyInv'
<1> USE DEF IInv, TypeOK, Untouched, certVars, startVars
<1>1. CertsTypeOK' /\ StartupTypeOK'
  BY DEF CertsTypeOK, StartupTypeOK
<1>2. CertInv'
  BY DEF CertInv, PairOnDisk
<1>3. PolicyInv'
  BY DEF PolicyInv
<1> QED
  BY <1>1, <1>2, <1>3

\* A boot begins: nobody is there to see the configuration change.
LEMMA StartStep ==
  ASSUME IInv, NEW cfg \in Configs, Start(cfg)
  PROVE  IInv'
<1> USE DEF Start, IInv, TypeOK, certVars, startVars
<1>1. CertsTypeOK' /\ StartupTypeOK' /\ CertInv' /\ PolicyInv'
  BY UntouchedKeeps DEF Untouched
<1>2. LifeInv' /\ AdminInv'
  BY DEF LifeInv, AdminInv, AdminNeedsToken
<1>3. TlsInv'
  BY DEF LifeInv, TlsInv, Trusted, tlsOn, StartupTypeOK
<1>4. boots' \in 0..MaxBoots
  BY ServeAssumption
<1> QED
  BY <1>1, <1>2, <1>3, <1>4

\* The main goroutine, the signal and the listener.
LEMMA ProcessStep ==
  ASSUME IInv, StartAdmin \/ Listen \/ ListenFails \/ Signal \/ CloseListener \/ StopServing
  PROVE  IInv'
<1> USE DEF StartAdmin, Listen, ListenFails, Signal, CloseListener, StopServing, IInv, TypeOK,
            certVars, startVars
<1>1. CertsTypeOK' /\ StartupTypeOK' /\ CertInv' /\ PolicyInv'
  BY UntouchedKeeps DEF Untouched
<1>2. LifeInv' 
  BY DEF LifeInv
<1>3. AdminInv'
  BY DEF LifeInv, AdminInv, AdminNeedsToken, mayStartAdmin
<1>4. TlsInv'
  BY DEF TlsInv, tlsOn
<1> QED
  BY <1>1, <1>2, <1>3, <1>4

\* The admin server and its requests.
LEMMA AdminStep ==
  ASSUME IInv,
         \/ AdminListen \/ AdminShutdown \/ Logout \/ Answer
         \/ \E t \in Tokens : Login(t)
         \/ \E t \in Tokens \cup {NoToken} : Request(t)
  PROVE  IInv'
<1> USE DEF AdminListen, AdminShutdown, Logout, Answer, Login, Request, IInv, TypeOK,
            certVars, startVars
<1>1. CertsTypeOK' /\ StartupTypeOK' /\ CertInv' /\ PolicyInv'
  BY UntouchedKeeps DEF Untouched
<1>2. LifeInv' 
  BY DEF LifeInv
<1>3. AdminInv'
  BY DEF AdminInv, AdminNeedsToken, mayStartAdmin, authed
<1>4. TlsInv'
  BY DEF TlsInv, tlsOn
<1> QED
  BY <1>1, <1>2, <1>3, <1>4, ServeAssumption

-----------------------------------------------------------------------------
(* Certificates *)

\* Setting up the certificates, while there is no session yet.
LEMMA CertStep ==
  ASSUME IInv, Configure \/ SetUpCerts
  PROVE  IInv'
<1> USE DEF IInv, TypeOK, Configure, SetUpCerts, serveVars, startVars
<1>1. CertsTypeOK'
  BY CertsAssumption, ServeAssumption
  DEF CertsTypeOK, NewProvider, Setup, SetupFails, LoadFile, NewACME, LoadSelfSigned, Generate,
      WriteCert, WriteKey, Serve, Writing
<1>2. CertInv'
  BY CertsAssumption, ServeAssumption
  DEF LifeInv, CertInv, CertsTypeOK, StartupTypeOK, NewProvider, Setup, SetupFails, LoadFile,
      NewACME, LoadSelfSigned, Generate, WriteCert, WriteKey, Serve, Writing, PairOnDisk, NoCert
<1>3. StartupTypeOK' /\ LifeInv' /\ AdminInv'
  BY DEF StartupTypeOK, LifeInv, AdminInv, AdminNeedsToken, mayStartAdmin
<1>4. TlsInv' /\ PolicyInv'
  BY DEF LifeInv, TlsInv, PolicyInv, Trusted
<1> QED
  BY <1>1, <1>2, <1>3, <1>4

\* The end of the process: what is on disk stays, everything else is forgotten.
LEMMA DieStep ==
  ASSUME IInv, Die
  PROVE  IInv'
<1> USE DEF IInv, TypeOK, Die, Forget, Sever
<1>1. CertsTypeOK'
  BY CertsAssumption DEF CertsTypeOK, NoCert
<1>2. CertInv'
  BY DEF CertInv, NoCert, Writing
<1>3. StartupTypeOK' /\ TlsInv' /\ PolicyInv'
  BY StartupAssumption DEF StartupTypeOK, TlsInv, PolicyInv, Over, Trusted
<1>4. LifeInv' /\ AdminInv'
  BY DEF LifeInv, AdminInv, AdminNeedsToken
<1> QED
  BY <1>1, <1>2, <1>3, <1>4

-----------------------------------------------------------------------------
(* Sessions *)

\* What sessions and edits of the connection leave alone.
ProcessUnchanged == UNCHANGED <<serveVars, certVars>>

\* A step of a session that is there, or that is accepted, happens while the
\* server serves or winds down; it concerns the invariants of sessions only.
LEMMA ServedOnly ==
  ASSUME IInv, ProcessUnchanged, StartupTypeOK', TlsInv', PolicyInv', CertInv',
         NEW c \in Clients, stage[c] # "none" \/ listener = "open"
  PROVE  IInv'
<1> USE DEF IInv, TypeOK, ProcessUnchanged, serveVars, certVars
<1>1. proc \in {"serving", "waiting"}
  BY DEF LifeInv
<1>2. LifeInv' /\ AdminInv'
  BY <1>1 DEF LifeInv, AdminInv, AdminNeedsToken, mayStartAdmin
<1>3. CertsTypeOK'
  BY DEF CertsTypeOK
<1> QED
  BY <1>2, <1>3

\* A session that ends takes everything it knew with it.
LEMMA CloseStep ==
  ASSUME IInv, NEW c \in Clients, stage[c] # "none", Close(c), ProcessUnchanged,
         UNCHANGED <<row, pin>>, upstream' \in [Clients -> BOOLEAN]
  PROVE  IInv'
<1> USE DEF IInv, TypeOK, Close
<1>0. 0 \in 0..MaxVersions
  BY StartupAssumption
<1>1. StartupTypeOK'
  BY <1>0 DEF StartupTypeOK, Over
<1>2. TlsInv'
  BY DEF TlsInv, StartupTypeOK, ProcessUnchanged, serveVars, certVars, Trusted, tlsOn
<1>3. PolicyInv'
  BY DEF PolicyInv, StartupTypeOK
<1>4. CertInv'
  BY DEF CertInv, ProcessUnchanged, certVars, PairOnDisk
<1> QED
  BY <1>1, <1>2, <1>3, <1>4, ServedOnly

\* A session moves on, and nothing else happens.
LEMMA GotoStep ==
  ASSUME IInv, NEW c \in Clients, stage[c] # "none" \/ listener = "open",
         NEW s \in Over \cup Trusted \cup {"greet", "handshake", "password"}, Goto(c, s),
         s \in Trusted \cup {"password"} /\ tlsOn /\ config.required => usedTLS[c],
         s = "lookup" /\ row # 0 => 0 < since[c] /\ since[c] <= row,
         s \in {"verify", "connect", "flush", "loop"} => 0 < since[c] /\ since[c] <= policy[c],
         ProcessUnchanged, Keep, UNCHANGED <<row, pin>>, upstream' \in [Clients -> BOOLEAN]
  PROVE  IInv'
<1> USE DEF IInv, TypeOK, Goto, Keep
<1>1. StartupTypeOK'
  BY DEF StartupTypeOK
<1>2. TlsInv'
  BY DEF TlsInv, StartupTypeOK, ProcessUnchanged, serveVars, certVars, tlsOn
<1>3. PolicyInv'
  BY DEF PolicyInv, StartupTypeOK
<1>4. CertInv'
  BY DEF CertInv, ProcessUnchanged, certVars, PairOnDisk
<1> QED
  BY <1>1, <1>2, <1>3, <1>4, ServedOnly

\* The startup phase.
LEMMA NegotiateStep ==
  ASSUME IInv, NEW c \in Clients, Negotiate(c, config.required), ProcessUnchanged
  PROVE  IInv'
<1> USE DEF IInv, TypeOK
<1>1. CASE SSLRequest(c)
  BY <1>1, GotoStep DEF SSLRequest, Keep, Over, Trusted, StartupTypeOK
<1>2. ASSUME NEW sni \in BOOLEAN, Handshake(c, sni) PROVE IInv'
  <2> USE <1>2 DEF Handshake, Goto
  <2>1. PICK cert \in Presented(sni) :
          pin' = [pin EXCEPT ![c] = IF cert.kind = "self_signed" /\ @ = 0 THEN cert.id ELSE @]
    OBVIOUS
  <2>2. cert.kind = "self_signed" => cert = provider
    BY <2>1 DEF Presented
  <2>3. StartupTypeOK'
    BY <2>1, <2>2 DEF StartupTypeOK, CertsTypeOK
  <2>4. TlsInv' /\ PolicyInv'
    BY DEF TlsInv, PolicyInv, StartupTypeOK, ProcessUnchanged, serveVars, certVars, tlsOn, Trusted
  <2>5. CertInv'
    BY <2>1, <2>2 DEF CertInv, ProcessUnchanged, certVars, PairOnDisk, StartupTypeOK, Writing
  <2> QED
    BY <2>3, <2>4, <2>5, ServedOnly
<1>3. CASE GSSEncRequest(c)
  BY <1>3, GotoStep DEF GSSEncRequest, startVars, Keep, Goto, Over, Trusted, StartupTypeOK
<1>4. CASE StartupMessage(c, config.required)
  BY <1>4, GotoStep, CloseStep DEF StartupMessage, Over, Trusted, StartupTypeOK
<1>5. CASE PasswordMessage(c)
  <2> USE <1>5 DEF PasswordMessage, Goto
  <2>1. StartupTypeOK'
    BY DEF StartupTypeOK, Trusted
  <2>2. TlsInv'
    BY DEF TlsInv, StartupTypeOK, ProcessUnchanged, serveVars, certVars, tlsOn, Trusted
  <2>3. PolicyInv'
    BY DEF PolicyInv, StartupTypeOK
  <2>4. CertInv'
    BY DEF CertInv, ProcessUnchanged, certVars, PairOnDisk
  <2> QED
    BY <2>1, <2>2, <2>3, <2>4, ServedOnly
<1> QED
  BY <1>1, <1>2, <1>3, <1>4, <1>5 DEF Negotiate

\* Authentication and the upstream connection.
LEMMA AdvanceStep ==
  ASSUME IInv, NEW c \in Clients, Advance(c), ProcessUnchanged
  PROVE  IInv'
<1> USE DEF IInv, TypeOK
<1>1. CASE GetByUsername(c)
  <2> DEFINE Found == /\ row # 0 /\ policy' = [policy EXCEPT ![c] = row] /\ Goto(c, "verify")
                      /\ UNCHANGED <<usedTLS, channel, gone, since>>
  <2>1. CASE Close(c)
    BY <1>1, <2>1, CloseStep DEF GetByUsername, StartupTypeOK
  <2>2. CASE Found
    <3> USE <1>1, <2>2 DEF GetByUsername, Goto
    <3>1. StartupTypeOK'
      BY DEF StartupTypeOK, Trusted
    <3>2. TlsInv'
      BY DEF TlsInv, StartupTypeOK, ProcessUnchanged, serveVars, certVars, tlsOn, Trusted
    <3>3. PolicyInv'
      BY DEF PolicyInv, StartupTypeOK
    <3>4. CertInv'
      BY DEF CertInv, ProcessUnchanged, certVars, PairOnDisk
    <3> QED
      BY <3>1, <3>2, <3>3, <3>4, ServedOnly
  <2> QED
    BY <1>1, <2>1, <2>2 DEF GetByUsername
<1>2. CASE VerifyPassword(c)
  BY <1>2, GotoStep, CloseStep DEF VerifyPassword, Trusted, StartupTypeOK, TlsInv, PolicyInv
<1>3. CASE Connect(c)
  BY <1>3, GotoStep, CloseStep DEF Connect, Trusted, StartupTypeOK, TlsInv, PolicyInv
<1>4. CASE CompleteStartup(c)
  BY <1>4, GotoStep DEF CompleteStartup, Keep, Over, Trusted, StartupTypeOK, TlsInv, PolicyInv
<1> QED
  BY <1>1, <1>2, <1>3, <1>4 DEF Advance

\* The end of a session, and the client that leaves.
LEMMA EndStep ==
  ASSUME IInv, NEW c \in Clients, ProcessUnchanged,
         Refuse(c) \/ HandshakeFails(c) \/ EndSession(c) \/ ClientLeaves(c)
  PROVE  IInv'
<1> USE DEF IInv, TypeOK
<1>1. CASE Refuse(c) \/ HandshakeFails(c)
  BY <1>1, CloseStep DEF Refuse, HandshakeFails, StartupTypeOK
<1>2. CASE EndSession(c)
  BY <1>2, CloseStep DEF EndSession, StartupTypeOK
<1>3. CASE ClientLeaves(c)
  <2> USE <1>3 DEF ClientLeaves
  <2>1. StartupTypeOK'
    BY DEF StartupTypeOK
  <2>2. TlsInv' /\ PolicyInv' /\ CertInv'
    BY DEF TlsInv, PolicyInv, CertInv, ProcessUnchanged, serveVars, certVars, tlsOn, PairOnDisk
  <2> QED
    BY <2>1, <2>2, ServedOnly DEF Over
<1> QED
  BY <1>1, <1>2, <1>3

\* An edit only makes the row newer, or removes it for good.
LEMMA EditStep ==
  ASSUME IInv, Edit
  PROVE  IInv'
<1> USE DEF IInv, TypeOK, Edit, EditRow, serveVars, certVars
<1>1. CertsTypeOK' /\ StartupTypeOK'
  BY DEF CertsTypeOK, StartupTypeOK
<1>2. LifeInv' /\ AdminInv' /\ TlsInv' /\ CertInv'
  BY DEF LifeInv, AdminInv, AdminNeedsToken, mayStartAdmin, TlsInv, tlsOn, CertInv, PairOnDisk
<1>3. PolicyInv'
  BY DEF PolicyInv, StartupTypeOK
<1> QED
  BY <1>1, <1>2, <1>3

-----------------------------------------------------------------------------
(* Theorems *)

\* Every step preserves the invariant.
LEMMA IInvInductive == IInv /\ [Next]_vars => IInv'
<1> SUFFICES ASSUME IInv, [Next]_vars PROVE IInv'
  OBVIOUS
<1>1. CASE \E cfg \in Configs : Start(cfg)
  BY <1>1, StartStep
<1>2. CASE Main \/ Signal \/ Crash \/ CloseListener
  BY <1>2, ProcessStep, CertStep, DieStep DEF Main, Exit, Crash
<1>3. CASE \/ AdminListen \/ AdminShutdown \/ Logout \/ Answer
           \/ \E t \in Tokens : Login(t)
           \/ \E t \in Tokens \cup {NoToken} : Request(t)
  BY <1>3, AdminStep
<1>4. ASSUME NEW c \in Clients, AcceptClient(c) PROVE IInv'
  BY <1>4, GotoStep DEF AcceptClient, Accept, ProcessUnchanged, Keep, Over, Trusted,
                        IInv, TypeOK, StartupTypeOK
<1>5. ASSUME NEW c \in Clients, ClientStep(c) \/ SessionStep(c) \/ SessionCloses(c) PROVE IInv'
  BY <1>5, NegotiateStep, AdvanceStep, EndStep
  DEF ClientStep, SessionStep, SessionCloses, GiveUp, ProcessUnchanged
<1>6. CASE Edit
  BY <1>6, EditStep
<1>7. CASE UNCHANGED vars
  BY <1>7 DEF vars, serveVars, certVars, startVars, IInv, TypeOK, CertsTypeOK, StartupTypeOK,
              LifeInv, CertInv, PairOnDisk, TlsInv, tlsOn, PolicyInv, AdminInv, AdminNeedsToken,
              mayStartAdmin
<1> QED
  BY <1>1, <1>2, <1>3, <1>4, <1>5, <1>6, <1>7 DEF Next

\* It is an invariant of the specification.
LEMMA IInvHolds == Spec => []IInv
  BY IInvInit, IInvInductive, PTL DEF Spec

\* Every variable of the serve command keeps its type, over any number of boots
\* and for any number of clients.
THEOREM TypeCorrect == Spec => []TypeOK
<1>1. IInv => TypeOK
  BY DEF IInv
<1> QED
  BY <1>1, IInvHolds, PTL

\* A client that was shown the self-signed certificate is shown the same one by
\* every later boot, wherever earlier ones crashed between the two files, as
\* long as no load of the good files failed.
THEOREM StaysPinned == Spec => []CertStaysPinned
<1>1. IInv => CertStaysPinned
  BY DEF IInv, CertInv, CertStaysPinned
<1> QED
  BY <1>1, IInvHolds, PTL

\* When TLS is on and required, no password is read off a plain connection.
THEOREM NeverInClear == Spec => []PasswordNeverInClear
<1>1. IInv => PasswordNeverInClear
  BY DEF IInv, TlsInv, PasswordNeverInClear
<1> QED
  BY <1>1, IInvHolds, PTL

\* A session is admitted for a connection that existed when its client sent the
\* password, and under a policy no older than at that moment.
THEOREM CurrentPolicy == Spec => []AdmittedUnderCurrentPolicy
<1>1. IInv => AdmittedUnderCurrentPolicy
  BY DEF IInv, PolicyInv, AdmittedUnderCurrentPolicy
<1> QED
  BY <1>1, IInvHolds, PTL

\* An admin handler runs for a request with the token of the running server, or
\* on a loopback address without one.
THEOREM NeedsToken == Spec => []AdminNeedsToken
<1>1. IInv => AdminNeedsToken
  BY DEF IInv, AdminInv
<1> QED
  BY <1>1, IInvHolds, PTL
=============================================================================
