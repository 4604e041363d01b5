CONSTANTS
    Operators = {o1}
    Agents = {}
    Ttls = {1}
    Intervals = {1}
    Secrets = {t1}
    NoSecret = NoSecret
    MaxConns = 1
    MaxTime = 1
    MaxManual = 1
    MaxFaults = 1
SPECIFICATION Spec
PROPERTY OnlyDueIsRotated
