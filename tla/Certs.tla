-------------------------------- MODULE Certs --------------------------------
(***************************************************************************)
(* internal/certs: how a booting server gets the certificate it presents.  *)
(*                                                                         *)
(* Generated key pairs are numbered.  certFile and keyFile are the two     *)
(* files of self_signed mode: the pair whose half they hold, or 0 when     *)
(* absent or cut off, which LoadX509KeyPair cannot tell apart.             *)
(* os.WriteFile truncates before it writes, so every file is 0 for a while *)
(* and a crash can leave it so.                                            *)
(***************************************************************************)
EXTENDS Naturals

CONSTANTS
    MaxPairs,      \* bound: key pairs ever generated
    MaxMisreads    \* bound: loads that fail although both files are good

ASSUME CertsAssumption == MaxPairs \in Nat /\ MaxMisreads \in Nat

VARIABLES
    certFile, keyFile,  \* what is on disk
    setup,              \* how far certs.New has come
    fresh,              \* the pair generated by this boot
    provider,           \* the certificate in memory
    pairs,              \* pairs generated so far
    misreads            \* loads that failed although both files are good

certVars == <<certFile, keyFile, setup, fresh, provider, pairs, misreads>>

NoCert == [kind |-> "none", id |-> 0]

Writing == {"cert", "certData", "key", "keyData"}

CertsTypeOK ==
    /\ certFile \in 0..MaxPairs /\ keyFile \in 0..MaxPairs
    /\ setup \in {"idle", "load", "acme", "file", "ready", "failed"} \cup Writing
    /\ fresh \in 0..MaxPairs
    /\ provider \in [kind : {"none", "self_signed", "acme", "file"}, id : 0..MaxPairs]
    /\ pairs \in 0..MaxPairs
    /\ misreads \in 0..MaxMisreads

CertsInit ==
    /\ certFile = 0 /\ keyFile = 0
    /\ setup = "idle" /\ fresh = 0 /\ provider = NoCert
    /\ pairs = 0 /\ misreads = 0

\* New: the configured mode is set up; "off" has no provider.
NewProvider(mode) ==
    /\ setup = "idle"
    /\ setup' = CASE mode = "off" -> "ready" [] mode = "self_signed" -> "load" [] OTHER -> mode
    /\ UNCHANGED <<certFile, keyFile, fresh, provider, pairs, misreads>>

Serve(kind, id) ==
    /\ setup' = "ready"
    /\ provider' = [kind |-> kind, id |-> id]

\* LoadX509KeyPair of New (file mode); those files belong to the operator.
LoadFile ==
    /\ setup = "file"
    /\ Serve("file", 0)
    /\ UNCHANGED <<certFile, keyFile, fresh, pairs, misreads>>

\* newACME: the fallback certificate is new on every boot and never stored.
NewACME ==
    /\ setup = "acme"
    /\ Serve("acme", 0)
    /\ UNCHANGED <<certFile, keyFile, fresh, pairs, misreads>>

\* Both halves are there and match.
PairOnDisk == certFile # 0 /\ certFile = keyFile

\* newSelfSigned: the persisted pair loads.
LoadSelfSigned ==
    /\ setup = "load"
    /\ PairOnDisk
    /\ Serve("self_signed", certFile)
    /\ UNCHANGED <<certFile, keyFile, fresh, pairs, misreads>>

\* newSelfSigned: whatever the reason the load failed for, a pair is generated.
\* A good pair that cannot be read just now (too many open files, permissions)
\* is one of the reasons.
Generate ==
    /\ setup = "load"
    /\ pairs < MaxPairs
    /\ PairOnDisk => misreads < MaxMisreads
    /\ misreads' = IF PairOnDisk THEN misreads + 1 ELSE misreads
    /\ pairs' = pairs + 1
    /\ fresh' = pairs + 1
    /\ setup' = "cert"
    /\ UNCHANGED <<certFile, keyFile, provider>>

\* WriteFile(certFile): truncate, then the data.
WriteCert ==
    /\ \/ setup = "cert" /\ certFile' = 0 /\ setup' = "certData"
       \/ setup = "certData" /\ certFile' = fresh /\ setup' = "key"
    /\ UNCHANGED <<keyFile, fresh, provider, pairs, misreads>>

\* Mutant: the pair is served even if the key could not be written.
WriteKeyBestEffort ==
    /\ \/ setup = "key" /\ keyFile' = 0 /\ setup' = "keyData" /\ UNCHANGED provider
       \/ setup = "keyData" /\ keyFile' \in {0, fresh} /\ Serve("self_signed", fresh)
    /\ UNCHANGED <<certFile, fresh, pairs, misreads>>

\* WriteFile(keyFile), after which the pair is served from memory.
WriteKey ==
    /\ \/ setup = "key" /\ keyFile' = 0 /\ setup' = "keyData" /\ UNCHANGED provider
       \/ setup = "keyData" /\ keyFile' = fresh /\ Serve("self_signed", fresh)
    /\ UNCHANGED <<certFile, fresh, pairs, misreads>>

\* A directory cannot be made, a pair not generated or written, or the
\* operator's files not loaded: New returns the error.
SetupFails ==
    /\ setup \in {"load", "acme", "file"} \cup Writing
    /\ setup' = "failed"
    /\ UNCHANGED <<certFile, keyFile, fresh, provider, pairs, misreads>>

\* The process is gone: what it had in memory is lost.
Forget ==
    /\ setup' = "idle" /\ fresh' = 0 /\ provider' = NoCert
    /\ UNCHANGED <<certFile, keyFile, pairs, misreads>>

Setup == LoadFile \/ NewACME \/ LoadSelfSigned \/ Generate \/ WriteCert \/ WriteKey

\* GetCertificate, per handshake on the proxy port: what may be presented.  In
\* acme mode the managed certificate may be unavailable at any time and the
\* fallback takes its place; it is all that a client gets that names no host.
\* (Challenges arrive on the admin listener and go to the library.)
Presented(sni) ==
    IF provider.kind # "acme" THEN {provider}
    ELSE {[kind |-> k, id |-> 0] : k \in {"fallback"} \cup (IF sni THEN {"managed"} ELSE {})}
=============================================================================
