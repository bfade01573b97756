--------------------------- MODULE MCArApLedger ---------------------------
(* Instances of ArApLedger for TLC: documents as model values, totals small *)
(* enough to enumerate and different enough for partial applications.       *)
EXTENDS ArApLedger, TLC

CONSTANTS i1, i2, p1, p2, p3

MCInvoices == {i1, i2}
MCPayments == {p1, p2, p3}
MCTotals == i1 :> 3 @@ i2 :> 2 @@ p1 :> 3 @@ p2 :> 3 @@ p3 :> 3

PaymentSymmetry == Permutations(MCPayments)
=============================================================================
