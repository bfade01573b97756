SPECIFICATION Spec
CONSTANTS
    s1 = s1
    s2 = s2
    receipt = receipt
    transfer = transfer
    count = count
    landed = landed
    A = A
    B = B
    Session = {s1, s2}
    Doc = {receipt, transfer, count, landed}
    Bin = {A, B}
    Lines <- MCLines
    AllowNegative = {B}
    Opened = {A}
    NoSession = NoSession
SYMMETRY Symmetry
CHECK_DEADLOCK FALSE
INVARIANT NeverNegative
