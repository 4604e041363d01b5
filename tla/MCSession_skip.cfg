\* The code does otherwise: see the property.
CONSTANTS
    Query = {"select", "update", "begin"}
    SchemaQuery = {}
    Kind <- MCKind
    TxEffect <- MCTxEffect
    StmtName = {s1}
    PortalName = {p1}
    Limits = {1}
    RowCounts = {1, 2}
    MaxResults = 1
    NoQuery = NoQuery
SPECIFICATION Spec
PROPERTY IgnoredUntilSync
CHECK_DEADLOCK FALSE
