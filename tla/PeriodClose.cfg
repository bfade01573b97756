SPECIFICATION Spec
CONSTANTS
    s1 = s1
    s2 = s2
    v1 = v1
    v2 = v2
    Session = {s1, s2}
    Voucher = {v1, v2}
    NoVoucher = NoVoucher
    LastPeriod = 2
    Step = {"project_capitalization"}
    MaxEntries = 1
    MaxClosings = 2
SYMMETRY Symmetry
INVARIANTS TypeOK OnlyClosingsAfterClose ReviewsStand OneYearClosing
CHECK_DEADLOCK FALSE
