-------------------------------- MODULE Serve --------------------------------
(***************************************************************************)
(* The serve command (runServe in cmd/pg-agent-proxy) over its whole life: *)
(* configuration, certificates, the decision to start the admin server,    *)
(* the two listeners, their shutdown, crashes and restarts with another    *)
(* configuration, with clients going through Startup and a browser that    *)
(* keeps its admin cookie across all of it.                                *)
(***************************************************************************)
EXTENDS Startup

CONSTANTS
    Configs,       \* configurations: [tls, required, loopback, token]
    Tokens,        \* values of PGPROXY_ADMIN_TOKEN
    NoToken,       \* it is not set, or a request carries none
    MaxBoots       \* bound: times the server is started

ASSUME ServeAssumption ==
    /\ Configs \subseteq [tls : {"off", "self_signed", "acme", "file"}, required : BOOLEAN,
                          loopback : BOOLEAN, token : Tokens \cup {NoToken}]
    /\ MaxBoots \in Nat
    /\ MaxPairs >= MaxBoots

VARIABLES
    proc,          \* where runServe is
    config,        \* the configuration of this boot
    ctxDone,       \* the context is cancelled
    listener,      \* the proxy's listener
    adminSrv,      \* the admin server's goroutine
    cookie,        \* the browser's admin cookie
    handled,       \* the request an admin handler is at work on: none, one
                   \* that carries the server's token, or one that does not
    boots          \* times started so far

serveVars == <<proc, config, ctxDone, listener, adminSrv, cookie, handled, boots>>
vars == <<serveVars, certVars, startVars>>

TypeOK ==
    /\ CertsTypeOK /\ StartupTypeOK
    /\ proc \in {"off", "config", "certs", "listen", "serving", "waiting"}
    /\ config \in Configs
    /\ ctxDone \in BOOLEAN
    /\ listener \in {"none", "open", "closed"}
    /\ adminSrv \in {"none", "starting", "serving", "ended"}
    /\ cookie \in Tokens \cup {NoToken}
    /\ handled \in {"none", "token", "open"}
    /\ boots \in 0..MaxBoots

Init ==
    /\ CertsInit /\ StartupInit
    /\ proc = "off" /\ config \in Configs /\ ctxDone = FALSE
    /\ listener = "none" /\ adminSrv = "none"
    /\ cookie = NoToken /\ handled = "none" /\ boots = 0

-----------------------------------------------------------------------------
(* runServe *)

Start(cfg) ==
    /\ proc = "off" /\ boots < MaxBoots
    /\ proc' = "config" /\ config' = cfg /\ boots' = boots + 1
    /\ UNCHANGED <<ctxDone, listener, adminSrv, cookie, handled, certVars, startVars>>

\* The configuration is loaded, the registry opened, signals are caught from
\* here on, and certs.New begins.
Configure ==
    /\ proc = "config"
    /\ NewProvider(config.tls)
    /\ proc' = "certs"
    /\ UNCHANGED <<config, ctxDone, listener, adminSrv, cookie, handled, boots, startVars>>

SetUpCerts ==
    /\ proc = "certs"
    /\ Setup \/ SetupFails
    /\ UNCHANGED <<serveVars, startVars>>

\* The switch on the token: without one only a loopback address is served.
mayStartAdmin == config.token # NoToken \/ config.loopback

\* The approver is made, the secret set, one sweep run, the admin goroutine
\* started.
StartAdmin ==
    /\ proc = "certs" /\ setup = "ready"
    /\ adminSrv' = IF mayStartAdmin THEN "starting" ELSE "none"
    /\ proc' = "listen"
    /\ UNCHANGED <<config, ctxDone, listener, cookie, handled, boots, certVars, startVars>>

\* proxy.ListenAndServe binds its address.
Listen ==
    /\ proc = "listen"
    /\ listener' = "open" /\ proc' = "serving"
    /\ UNCHANGED <<config, ctxDone, adminSrv, cookie, handled, boots, certVars, startVars>>

\* Mutant: the failure is logged, the context left as it is.
ListenFailsQuietly ==
    /\ proc = "listen"
    /\ proc' = "waiting"
    /\ UNCHANGED <<config, ctxDone, listener, adminSrv, cookie, handled, boots, certVars, startVars>>

\* It cannot: runServe cancels the context and waits for the admin server.
ListenFails ==
    /\ proc = "listen"
    /\ ctxDone' = TRUE /\ proc' = "waiting"
    /\ UNCHANGED <<config, listener, adminSrv, cookie, handled, boots, certVars, startVars>>

\* SIGINT or SIGTERM, once NotifyContext has been called.
Signal ==
    /\ proc \notin {"off", "config"}
    /\ ctxDone' = TRUE
    /\ UNCHANGED <<proc, config, listener, adminSrv, cookie, handled, boots, certVars, startVars>>

\* The goroutine that closes the listener when the context is done.
CloseListener ==
    /\ ctxDone /\ listener = "open"
    /\ listener' = "closed"
    /\ UNCHANGED <<proc, config, ctxDone, adminSrv, cookie, handled, boots, certVars, startVars>>

\* Accept fails on the closed listener and ListenAndServe returns.
StopServing ==
    /\ proc = "serving" /\ listener = "closed"
    /\ proc' = "waiting"
    /\ UNCHANGED <<config, ctxDone, listener, adminSrv, cookie, handled, boots, certVars, startVars>>

\* The process ends: memory, sockets and goroutines are gone.
Die ==
    /\ proc' = "off" /\ ctxDone' = FALSE /\ listener' = "none" /\ adminSrv' = "none"
    /\ Forget /\ Sever
    /\ handled' = "none"
    /\ UNCHANGED <<config, cookie, boots>>

\* wg.Wait returns and so does main; or the certificates cannot be set up.
Exit ==
    /\ \/ proc = "waiting" /\ adminSrv \in {"none", "ended"}
       \/ proc = "certs" /\ setup = "failed"
    /\ Die

\* A bad configuration, a registry that does not open, a signal before signals
\* are caught, kill -9, a panic: at any time.
Crash == proc # "off" /\ Die

-----------------------------------------------------------------------------
(* The admin server *)

\* Mutant: a state of its own for a bind that failed, which nobody waits for.
AdminListenUnnamed ==
    /\ adminSrv = "starting"
    /\ adminSrv' \in {"serving", "failed"}
    /\ UNCHANGED <<proc, config, ctxDone, listener, cookie, handled, boots, certVars, startVars>>

\* admin.ListenAndServe binds its address, or ends with an error that is only
\* logged: the proxy goes on without it.
AdminListen ==
    /\ adminSrv = "starting"
    /\ adminSrv' \in {"serving", "ended"}
    /\ UNCHANGED <<proc, config, ctxDone, listener, cookie, handled, boots, certVars, startVars>>

\* The goroutine that calls Shutdown when the context is done; serve returns,
\* or returns at once if it is called later.
AdminShutdown ==
    /\ ctxDone /\ adminSrv \in {"starting", "serving"}
    /\ adminSrv' = "ended"
    /\ UNCHANGED <<proc, config, ctxDone, listener, cookie, handled, boots, certVars, startVars>>

\* handleLogin: the cookie is the token itself.
Login(token) ==
    /\ adminSrv = "serving"
    /\ config.token # NoToken /\ token = config.token
    /\ cookie' = config.token
    /\ UNCHANGED <<proc, config, ctxDone, listener, adminSrv, handled, boots, certVars, startVars>>

\* handleLogout.
Logout ==
    /\ adminSrv = "serving"
    /\ cookie' = NoToken
    /\ UNCHANGED <<proc, config, ctxDone, listener, adminSrv, handled, boots, certVars, startVars>>

\* Mutant: a cookie is taken for a login, whatever its value.
authedByAnyCookie(bearer) == config.token \in {NoToken, bearer} \/ cookie # NoToken

\* authed: the token as a bearer or in the cookie, unless there is none.
authed(bearer) == config.token \in {NoToken, bearer, cookie}

\* requireAuth, for any handler: the browser's cookie, and perhaps a bearer.
Request(bearer) ==
    /\ adminSrv = "serving" /\ handled = "none"
    /\ authed(bearer)
    /\ handled' = IF config.token # NoToken /\ config.token \in {bearer, cookie} THEN "token" ELSE "open"
    /\ UNCHANGED <<proc, config, ctxDone, listener, adminSrv, cookie, boots, certVars, startVars>>

\* The handler is done.
Answer ==
    /\ handled # "none"
    /\ handled' = "none"
    /\ UNCHANGED <<proc, config, ctxDone, listener, adminSrv, cookie, boots, certVars, startVars>>

-----------------------------------------------------------------------------
(* Sessions of this process *)

AcceptClient(c) ==
    /\ listener = "open"
    /\ Accept(c)
    /\ UNCHANGED <<serveVars, certVars>>

ClientStep(c) ==
    /\ ClientLeaves(c) \/ Negotiate(c, config.required)
    /\ UNCHANGED <<serveVars, certVars>>

SessionStep(c) ==
    /\ Advance(c) \/ GiveUp(c)
    /\ UNCHANGED <<serveVars, certVars>>

\* Closed although the client is there: a message out of place, a handshake
\* that fails, Terminate, or the upstream lost.
SessionCloses(c) ==
    /\ ~gone[c]
    /\ Refuse(c) \/ HandshakeFails(c) \/ EndSession(c)
    /\ UNCHANGED <<serveVars, certVars>>

Edit == EditRow /\ UNCHANGED <<serveVars, certVars>>

\* The main goroutine.
Main == Configure \/ SetUpCerts \/ StartAdmin \/ Listen \/ ListenFails \/ StopServing \/ Exit

Next ==
    \/ \E cfg \in Configs : Start(cfg)
    \/ Main
    \/ Signal \/ Crash
    \/ CloseListener \/ AdminListen \/ AdminShutdown
    \/ Logout \/ Answer
    \/ \E t \in Tokens : Login(t)
    \/ \E t \in Tokens \cup {NoToken} : Request(t)
    \/ \E c \in Clients : AcceptClient(c) \/ ClientStep(c) \/ SessionStep(c) \/ SessionCloses(c)
    \/ Edit

\* Every goroutine runs; the disk, the registry and the upstream's connect
\* return.  Nothing is assumed of clients, operators, signals or crashes.
Fairness ==
    /\ WF_vars(Main) /\ WF_vars(CloseListener) /\ WF_vars(AdminListen) /\ WF_vars(AdminShutdown)
    /\ \A c \in Clients : WF_vars(SessionStep(c))

Spec == Init /\ [][Next]_vars /\ Fairness

-----------------------------------------------------------------------------
(* Properties *)

\* config.go: in self_signed mode clients may "pin the cert".  A client that
\* was once shown the self-signed certificate is shown the same one by every
\* later boot, wherever earlier ones crashed or failed between generating the
\* pair and writing its two files, unless a load of the good files failed.
CertStaysPinned ==
    \A c \in Clients : pin[c] # 0 /\ misreads = 0 /\ provider.kind = "self_signed"
                          => provider.id = pin[c]

\* When TLS is on and required, no password is read off a plain connection,
\* whatever the client asks for, in which order and how often.
PasswordNeverInClear ==
    \A c \in Clients : stage[c] \in Trusted /\ tlsOn /\ config.required => channel[c] = "tls"

\* A session is admitted only for a connection that existed when its client
\* sent the password, and under a policy no older than at that moment: an edit
\* or a delete that was answered before reaches every later session.
AdmittedUnderCurrentPolicy ==
    \A c \in Clients : stage[c] \in {"connect", "flush", "loop"} => 0 < since[c] /\ since[c] <= policy[c]

\* An admin handler runs only for a request that carries the token of the
\* running server, or on a loopback address without one: cookies of a login
\* under an earlier token open nothing after a restart.
AdminNeedsToken ==
    handled = "open" => config.token = NoToken /\ config.loopback

\* A server that is told to stop, or whose proxy port cannot be bound, ends.
ShutdownEnds == (ctxDone \/ proc = "waiting") ~> proc = "off"

\* The session of a client that leaves, during startup or later, is over some
\* time, and takes its upstream connection with it; the one exception is the
\* session whose first flush failed.
GoneClientIsDropped ==
    \A c \in Clients :
        gone[c] ~> stage[c] = "unflushed" \/ (stage[c] = "none" /\ ~upstream[c])

-----------------------------------------------------------------------------
(* The inductive invariant behind the safety properties *)

\* No session, no admin server and no request before the server serves them.
\* So the configuration and the certificate change under nobody.
LifeInv ==
    /\ proc \in {"off", "config"} => setup = "idle" /\ provider = NoCert
    /\ proc \in {"off", "config", "certs"} => adminSrv = "none" /\ handled = "none"
    /\ proc \in {"off", "config", "certs", "listen"}
          => listener = "none" /\ stage = [c \in Clients |-> "none"]

\* In self_signed mode what is served is what is on disk, and a pair somebody
\* was shown is not being overwritten unless a load of it has failed.
CertInv ==
    /\ setup \in Writing => fresh # 0
    /\ setup \in {"key", "keyData"} => certFile = fresh
    /\ provider.kind # "none" => setup = "ready"
    /\ provider.kind = "self_signed" => PairOnDisk /\ certFile = provider.id
    /\ \A c \in Clients : pin[c] # 0 /\ misreads = 0
                             => certFile = pin[c] /\ keyFile = pin[c] /\ setup \notin Writing

\* usedTLS is the truth, and it was looked at before the password was asked for.
TlsInv ==
    \A c \in Clients :
        /\ usedTLS[c] => channel[c] = "tls"
        /\ stage[c] \in Trusted \cup {"password"} /\ tlsOn /\ config.required => usedTLS[c]

\* The row is at least as new as the password, and so is the policy made of it.
PolicyInv ==
    \A c \in Clients :
        /\ stage[c] = "lookup" /\ row # 0 => 0 < since[c] /\ since[c] <= row
        /\ stage[c] \in {"verify", "connect", "flush", "loop"} => 0 < since[c] /\ since[c] <= policy[c]

\* An admin server runs only where one may, and lets in who may.
AdminInv ==
    /\ adminSrv # "none" => mayStartAdmin
    /\ AdminNeedsToken

IInv == TypeOK /\ LifeInv /\ CertInv /\ TlsInv /\ PolicyInv /\ AdminInv
=============================================================================
