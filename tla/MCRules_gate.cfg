CONSTANTS
    Jobs <- GateJobs
    Strings <- MCStrings
    Half = 256
SPECIFICATION Spec
CHECK_DEADLOCK FALSE
INVARIANT EachStatementIsGated
