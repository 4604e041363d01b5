------------------------------- MODULE Config -------------------------------
(***************************************************************************)
(* What an operator writes and the program reads: config.Load (file,       *)
(* environment, defaults, validation) and admin's parseHumanDuration.      *)
(*                                                                         *)
(* A configuration is [mode, url, timeout, tls, hosts, cert, required].    *)
(* Fields that are only copied (addresses, salt, redaction string) follow  *)
(* the pattern of url.                                                     *)
(***************************************************************************)
EXTENDS Integers

\* The empty string or list: a value that is not given.
Unset == "unset"

\* setString: a variable that is unset or empty leaves the value as it is.
setString(value, env) == IF env = Unset THEN value ELSE env

\* splitList: entries that are blank are dropped, perhaps all of them.
splitList(v) == IF v = "commas" THEN Unset ELSE v

\* applyEnv; env.required is the text of PGPROXY_TLS_REQUIRED.
applyEnv(c, env) ==
    [mode     |-> setString(c.mode, env.mode),
     url      |-> setString(c.url, env.url),
     timeout  |-> setString(c.timeout, env.timeout),
     tls      |-> setString(c.tls, env.tls),
     hosts    |-> IF env.hosts = Unset THEN c.hosts ELSE splitList(env.hosts),
     cert     |-> setString(c.cert, env.cert),
     required |-> IF env.required = Unset THEN c.required ELSE env.required \in {"1", "true", "TRUE"}]

\* applyDefaults.
applyDefaults(c) ==
    [mode     |-> IF c.mode # Unset THEN c.mode ELSE IF c.url # Unset THEN "http" ELSE "auto_deny",
     url      |-> c.url,
     timeout  |-> IF c.timeout \in {Unset, "0"} THEN "2m" ELSE c.timeout,
     tls      |-> c.tls,
     hosts    |-> c.hosts,
     cert     |-> c.cert,
     required |-> c.required]

\* validate.
valid(c) ==
    /\ \/ c.mode = "http" /\ c.url # Unset
       \/ c.mode \in {"auto_approve", "auto_deny", "dashboard"}
    /\ \/ c.tls \in {Unset, "off", "self_signed"}
       \/ c.tls = "acme" /\ c.hosts # Unset
       \/ c.tls = "file" /\ c.cert # Unset

Rejected == [mode |-> "rejected"]

\* Mutant: the defaults are filled in before the environment is read.
LoadDefaultsFirst(file, env) ==
    LET c == applyEnv(applyDefaults(file), env)
    IN  IF "bad" \notin {file.timeout, env.timeout} /\ valid(c) THEN c ELSE Rejected

\* Load: a timeout that does not parse, in the file or in the environment, or
\* an invalid result, is an error.
Load(file, env) ==
    LET c == applyDefaults(applyEnv(file, env))
    IN  IF "bad" \notin {file.timeout, env.timeout} /\ valid(c) THEN c ELSE Rejected

-----------------------------------------------------------------------------
(* Durations, in hours, held in a signed word *)

CONSTANT Half      \* the word holds -Half..Half-1; stands for the 2^63 of time.Duration

ASSUME HalfAssumption == Half \in Nat \ {0}

MaxWord == Half - 1

\* Two's complement.
Wrap(n) == ((n + Half) % (2 * Half)) - Half

Day == 24

\* parseHumanDuration of n days or of a Go duration of n hours; the latter is
\* refused when it does not fit, the former is multiplied out in the word.
parseHumanDuration(unit, n) ==
    IF unit = "d" THEN [d |-> Wrap(n * Day), ok |-> n >= 0]
    ELSE [d |-> n, ok |-> 0 < n /\ n <= MaxWord]
=============================================================================
