SPECIFICATION Spec
CONSTANTS
    s1 = s1
    s2 = s2
    maker = maker
    first = first
    second = second
    Session = {s1, s2}
    User = {maker, first, second}
    Creator = maker
    Approver = {first}
    Rank <- MCRank
    MaxVersions = 2
    MaxRequests = 3
SYMMETRY SessionSymmetry
INVARIANTS TypeOK PostedAsRequested AuthorNeverApproves ExecutedOnce OnePending
CHECK_DEADLOCK FALSE
