SPECIFICATION Spec
CONSTANTS
    s1 = s1
    s2 = s2
    s3 = s3
    j1 = j1
    j2 = j2
    j3 = j3
    Session = {s1, s2, s3}
    Journal = {j1, j2, j3}
    LastPeriod = 2
SYMMETRY Symmetry
CHECK_DEADLOCK FALSE
INVARIANTS TypeOK StatusMatchesLedger OneInForce
