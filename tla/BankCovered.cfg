SPECIFICATION Spec
CONSTANTS
    s1 = s1
    s2 = s2
    s3 = s3
    t1 = t1
    t2 = t2
    p1 = p1
    p2 = p2
    g = g
    Session = {s1, s2, s3}
    Statement = {t1, t2}
    Payment = {p1, p2}
    Entry = {g}
    Amount <- MCAmount
    Request <- MCRequest
    MaxReconciliations = 4
    NoSession = NoSession
    NoPayment = NoPayment
SYMMETRY Symmetry
CHECK_DEADLOCK FALSE
INVARIANT ReconciledIsCovered
