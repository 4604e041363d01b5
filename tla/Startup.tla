------------------------------- MODULE Startup -------------------------------
(***************************************************************************)
(* A session from accept to its message loop (session.serve, startup,      *)
(* authenticate, completeStartup in internal/proxy): TLS negotiation,      *)
(* password, the registry's row, the upstream connection, the first flush. *)
(* What happens inside the loop is the module Session; how passwords and   *)
(* rows change is the module Registry.                                     *)
(*                                                                         *)
(* row is the version of the connection's policy, which every edit         *)
(* replaces, or 0 when the connection is deleted.  One that has expired    *)
(* keeps its row, as it may be extended again.                             *)
(***************************************************************************)
EXTENDS Certs

CONSTANTS
    Clients,       \* client connections, named by the client that opens them
    MaxVersions    \* bound: versions of the connection's policy

ASSUME StartupAssumption == MaxVersions \in Nat \ {0}

VARIABLES
    row,           \* version of the policy in the registry
    stage,         \* where each session is
    usedTLS,       \* startup's variable of that name
    channel,       \* what the bytes of the session really travel over
    gone,          \* the client has closed its socket
    since,         \* version of the policy when the client sent its password
    policy,        \* version of the policy the session has
    upstream,      \* the session's upstream connection is open
    pin            \* first self-signed certificate each client was shown

startVars == <<row, stage, usedTLS, channel, gone, since, policy, upstream, pin>>

Over == {"none", "unflushed"}

\* Stages in which the password has been read.
Trusted == {"lookup", "verify", "connect", "flush", "loop"}

StartupTypeOK ==
    /\ row \in 0..MaxVersions
    /\ stage \in [Clients -> Over \cup Trusted \cup {"greet", "handshake", "password"}]
    /\ usedTLS \in [Clients -> BOOLEAN]
    /\ channel \in [Clients -> {"plain", "tls"}]
    /\ gone \in [Clients -> BOOLEAN]
    /\ since \in [Clients -> 0..MaxVersions]
    /\ policy \in [Clients -> 0..MaxVersions]
    /\ upstream \in [Clients -> BOOLEAN]
    /\ pin \in [Clients -> 0..MaxPairs]

StartupInit ==
    /\ stage = [c \in Clients |-> "none"]
    /\ usedTLS = [c \in Clients |-> FALSE]
    /\ channel = [c \in Clients |-> "plain"]
    /\ gone = [c \in Clients |-> FALSE]
    /\ since = [c \in Clients |-> 0]
    /\ policy = [c \in Clients |-> 0]
    /\ upstream = [c \in Clients |-> FALSE]
    /\ row = 1
    /\ pin = [c \in Clients |-> 0]

Goto(c, s) == stage' = [stage EXCEPT ![c] = s]

\* serve returns: its socket is closed and what it knew is gone.
Close(c) ==
    /\ stage' = [stage EXCEPT ![c] = "none"]
    /\ usedTLS' = [usedTLS EXCEPT ![c] = FALSE]
    /\ channel' = [channel EXCEPT ![c] = "plain"]
    /\ gone' = [gone EXCEPT ![c] = FALSE]
    /\ since' = [since EXCEPT ![c] = 0]
    /\ policy' = [policy EXCEPT ![c] = 0]

Keep == UNCHANGED <<usedTLS, channel, gone, since, policy>>

tlsOn == provider.kind # "none"

-----------------------------------------------------------------------------
(* The client and the operator *)

\* The client closes its socket, or the network does.
ClientLeaves(c) ==
    /\ stage[c] \notin Over
    /\ ~gone[c]
    /\ gone' = [gone EXCEPT ![c] = TRUE]
    /\ UNCHANGED <<row, stage, usedTLS, channel, since, policy, upstream, pin>>

\* The connection is edited, or deleted (by an operator or by the sweep).
EditRow ==
    /\ row # 0
    /\ row' \in {row + 1, 0} \cap 0..MaxVersions
    /\ UNCHANGED <<stage, usedTLS, channel, gone, since, policy, upstream, pin>>

-----------------------------------------------------------------------------
(* The session *)

\* ListenAndServe's loop: a goroutine of its own for the accepted connection.
Accept(c) ==
    /\ stage[c] = "none"
    /\ Goto(c, "greet")
    /\ UNCHANGED <<row, usedTLS, channel, gone, since, policy, upstream, pin>>

\* SSLRequest: declined with N and the loop goes on, or accepted with S.  A
\* client may ask again inside TLS.
SSLRequest(c) ==
    /\ stage[c] = "greet" /\ ~gone[c]
    /\ Goto(c, IF tlsOn THEN "handshake" ELSE "greet")
    /\ UNCHANGED <<row, usedTLS, channel, gone, since, policy, upstream, pin>>

\* HandshakeContext succeeds with the certificate GetCertificate chose.
Handshake(c, sni) ==
    /\ stage[c] = "handshake" /\ ~gone[c]
    /\ \E cert \in Presented(sni) :
         pin' = [pin EXCEPT ![c] = IF cert.kind = "self_signed" /\ @ = 0 THEN cert.id ELSE @]
    /\ usedTLS' = [usedTLS EXCEPT ![c] = TRUE]
    /\ channel' = [channel EXCEPT ![c] = "tls"]
    /\ Goto(c, "greet")
    /\ UNCHANGED <<row, gone, since, policy, upstream>>

\* Mutant: usedTLS is set before the error is looked at, and the loop goes on.
HandshakeFailsOpen(c) ==
    /\ stage[c] = "handshake"
    /\ Goto(c, "greet")
    /\ usedTLS' = [usedTLS EXCEPT ![c] = TRUE]
    /\ UNCHANGED <<row, channel, gone, since, policy, upstream, pin>>

\* HandshakeContext fails.
HandshakeFails(c) ==
    /\ stage[c] = "handshake"
    /\ Close(c)
    /\ UNCHANGED <<row, upstream, pin>>

\* GSSEncRequest is declined and the loop goes on.
GSSEncRequest(c) ==
    /\ stage[c] = "greet" /\ ~gone[c]
    /\ UNCHANGED startVars

\* StartupMessage: refused when TLS is on, required and not in use; otherwise
\* the password is asked for.
StartupMessage(c, required) ==
    /\ stage[c] = "greet" /\ ~gone[c]
    /\ IF tlsOn /\ required /\ ~usedTLS[c] THEN Close(c) ELSE Goto(c, "password") /\ Keep
    /\ UNCHANGED <<row, upstream, pin>>

\* A CancelRequest, something else than a password, or nothing to read because
\* the client left (a handshake it left is HandshakeFails).
Refuse(c) ==
    /\ stage[c] \in {"greet", "password"}
    /\ Close(c)
    /\ UNCHANGED <<row, upstream, pin>>

\* The PasswordMessage is read.
PasswordMessage(c) ==
    /\ stage[c] = "password" /\ ~gone[c]
    /\ since' = [since EXCEPT ![c] = row]
    /\ Goto(c, "lookup")
    /\ UNCHANGED <<row, usedTLS, channel, gone, policy, upstream, pin>>

\* Mutant: the connection comes from a cache that edits do not reach.
GetByUsernameCached(c) ==
    /\ stage[c] = "lookup"
    /\ \/ Close(c)
       \/ /\ \E v \in 1..row : policy' = [policy EXCEPT ![c] = v]
          /\ Goto(c, "verify")
          /\ UNCHANGED <<usedTLS, channel, gone, since>>
    /\ UNCHANGED <<row, upstream, pin>>

\* GetByUsername: the row as it is now, which the policy is compiled from.  It is
\* not found when it was deleted or has expired, and it may fail to be read.
GetByUsername(c) ==
    /\ stage[c] = "lookup"
    /\ \/ Close(c)
       \/ /\ row # 0
          /\ policy' = [policy EXCEPT ![c] = row]
          /\ Goto(c, "verify")
          /\ UNCHANGED <<usedTLS, channel, gone, since>>
    /\ UNCHANGED <<row, upstream, pin>>

\* VerifyPassword, against the row that was read.
VerifyPassword(c) ==
    /\ stage[c] = "verify"
    /\ (Goto(c, "connect") /\ Keep) \/ Close(c)
    /\ UNCHANGED <<row, upstream, pin>>

\* pgconn.Connect: the upstream connection opens, or the client is told.
Connect(c) ==
    /\ stage[c] = "connect"
    /\ \/ upstream' = [upstream EXCEPT ![c] = TRUE] /\ Goto(c, "flush") /\ Keep
       \/ UNCHANGED upstream /\ Close(c)
    /\ UNCHANGED <<row, pin>>

\* completeStartup's Flush.  When it fails, serve returns before it has
\* registered the close of the upstream connection.
CompleteStartup(c) ==
    /\ stage[c] = "flush"
    /\ Goto(c, "loop") \/ (gone[c] /\ Goto(c, "unflushed"))
    /\ UNCHANGED <<row, usedTLS, channel, gone, since, policy, upstream, pin>>

\* Mutant: the deferred close is missing.
EndSessionLeaks(c) ==
    /\ stage[c] = "loop"
    /\ Close(c)
    /\ UNCHANGED <<row, upstream, pin>>

\* The loop ends and the deferred close runs.
EndSession(c) ==
    /\ stage[c] = "loop"
    /\ upstream' = [upstream EXCEPT ![c] = FALSE]
    /\ Close(c)
    /\ UNCHANGED <<row, pin>>

\* The process is gone, and every socket with it.
Sever ==
    /\ stage' = [c \in Clients |-> "none"]
    /\ usedTLS' = [c \in Clients |-> FALSE]
    /\ channel' = [c \in Clients |-> "plain"]
    /\ gone' = [c \in Clients |-> FALSE]
    /\ since' = [c \in Clients |-> 0]
    /\ policy' = [c \in Clients |-> 0]
    /\ upstream' = [c \in Clients |-> FALSE]
    /\ UNCHANGED <<row, pin>>

-----------------------------------------------------------------------------
\* What the client may ask for in the startup phase.
Negotiate(c, required) ==
    \/ SSLRequest(c)
    \/ \E sni \in BOOLEAN : Handshake(c, sni)
    \/ GSSEncRequest(c)
    \/ StartupMessage(c, required)
    \/ PasswordMessage(c)

\* What the session does by itself.
Advance(c) == GetByUsername(c) \/ VerifyPassword(c) \/ Connect(c) \/ CompleteStartup(c)

\* What the session does once the client has left.
GiveUp(c) == gone[c] /\ (Refuse(c) \/ HandshakeFails(c) \/ EndSession(c))
=============================================================================
