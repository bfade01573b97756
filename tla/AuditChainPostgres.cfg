CONSTANTS
    Conn = {c1, c2}
    RowId = {r1, r2, r3, r4}
    NoConn = NoConn
    NoRow = NoRow
    Dialect = "postgresql"
    MaxBatch = 2
SYMMETRY ConnSymmetry
SPECIFICATION Spec
INVARIANTS TypeOK NoFork VerifyClean DeletionDetected
PROPERTY ImplementsAuditLog
