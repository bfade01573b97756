SPECIFICATION Spec
CONSTANTS
    s1 = s1
    s2 = s2
    o1 = o1
    o2 = o2
    n1 = n1
    n2 = n2
    i1 = i1
    Session = {s1, s2}
    Order = {o1, o2}
    Note = {n1, n2}
    Invoice = {i1}
    Ordered <- MCOrdered
    Drafted = {1}
    Stock = 3
    NoDoc = NoDoc
SYMMETRY Symmetry
CHECK_DEADLOCK FALSE
INVARIANTS TypeOK WithinSource
PROPERTY ReservationKept
