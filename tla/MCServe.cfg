\* One client and one browser over up to three boots.  The server may stay off.
CONSTANTS
    t1 = t1
    t2 = t2
    Tokens = {t1, t2}
    NoToken = NoToken
    Configs <- MCConfigs
    Clients = {c1}
    MaxBoots = 3
    MaxPairs = 3
    MaxMisreads = 1
    MaxVersions = 2
SPECIFICATION Spec
CHECK_DEADLOCK FALSE
INVARIANTS TypeOK CertStaysPinned PasswordNeverInClear
    AdmittedUnderCurrentPolicy AdminNeedsToken
PROPERTIES ShutdownEnds GoneClientIsDropped
