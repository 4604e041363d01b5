\* A read, a write, the schema call and a transaction block under every policy; two
\* results per Query; a statement and a portal whose names are reused, closed
\* and used too early.  A session ends: deadlock is its normal end.
CONSTANTS
    Query = {"select", "update", "schema", "begin", "commit"}
    SchemaQuery = {"schema"}
    Kind <- MCKind
    TxEffect <- MCTxEffect
    StmtName = {s1}
    PortalName = {p1}
    Limits = {0, 1}
    RowCounts = {1, 2}
    MaxResults = 2
    NoQuery = NoQuery
SPECIFICATION Spec
INVARIANTS TypeOK GatedRunsApproved LargeReadsApproved OneReadyEach FailureIsReported OneErrorPerBatch
PROPERTY FailedBatchIsInert
CHECK_DEADLOCK FALSE
