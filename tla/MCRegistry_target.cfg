\* Two connections, so that ids could be confused.
CONSTANTS
    Operators = {o1}
    Agents = {}
    Ttls = {1}
    Intervals = {1}
    Secrets = {t1}
    NoSecret = NoSecret
    MaxConns = 2
    MaxTime = 1
    MaxManual = 1
    MaxFaults = 0
SPECIFICATION Spec
INVARIANTS TypeOK RotationHitsItsTarget AnswerNamesItsTarget
PROPERTY SweptOnlyWhenExpired
