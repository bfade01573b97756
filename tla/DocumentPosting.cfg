SPECIFICATION Spec
CONSTANTS
    r1 = r1
    r2 = r2
    r3 = r3
    r4 = r4
    Request <- MCRequests
    NoRequest = NoRequest
CHECK_DEADLOCK FALSE
INVARIANT TypeOK
INVARIANT PostedOnce
INVARIANT LedgerFollowsStatus
INVARIANT ReversedOnce
PROPERTY RequestsEnd
