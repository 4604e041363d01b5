\* One connection: the sweeper, an operator and an agent at once, two tokens or
\* none, a failed statement or a restart.  No symmetry: liveness is temporal.
CONSTANTS
    Operators = {o1}
    Agents = {a1}
    Ttls = {1}
    Intervals = {1}
    Secrets = {t1, t2}
    NoSecret = NoSecret
    MaxConns = 1
    MaxTime = 1
    MaxManual = 1
    MaxFaults = 1
SPECIFICATION Spec
INVARIANTS DisplayedPasswordWorks WrongPasswordStaysOut
PROPERTIES ExpiredIsSwept DueIsRotated
