--------------------------- MODULE MCStockLedger ---------------------------
EXTENDS StockLedger, TLC

CONSTANTS s1, s2, receipt, transfer, count, landed, A, B

Line(kind, b, qty, value) == [kind |-> kind, bin |-> b, qty |-> qty, value |-> value]

MCLines ==
    receipt  :> <<Line("receive", A, 2, 4)>> @@
    transfer :> <<Line("issue", A, 1, 0), Line("transfer", B, 1, 0)>> @@
    count    :> <<Line("count", A, 2, 3), Line("count", B, 1, 2)>> @@
    landed   :> <<Line("landed", A, 0, 3)>>

Symmetry == Permutations({s1, s2})
=============================================================================
