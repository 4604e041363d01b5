\* A mutation that returns rows, under every approver and both policies, with
\* enough requests to try again after a denial.  No symmetry: liveness is
\* temporal.  A session ends: deadlock is its normal end.
CONSTANTS
    Query = {"update"}
    SchemaQuery = {}
    Kind <- MCKind
    TxEffect <- MCTxEffect
    StmtName = {}
    PortalName = {}
    Limits = {0, 1}
    RowCounts = {2}
    MaxResults = 1
    NoQuery = NoQuery
    Modes = {"dashboard", "http", "auto_approve", "auto_deny"}
    Operators = {o1}
    MaxRequests = 2
SPECIFICATION ProxySpec
INVARIANTS EveryEffectIsLicensed ApprovalIsSpentOnce CardsAreWaitingSessions
PROPERTIES ImplementsSession HookImplementsApprover QueryIsAnswered SessionEnds
CHECK_DEADLOCK FALSE
