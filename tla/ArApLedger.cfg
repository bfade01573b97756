SPECIFICATION Spec
CONSTANTS
    i1 = i1
    i2 = i2
    p1 = p1
    p2 = p2
    p3 = p3
    Invoice <- MCInvoices
    Payment <- MCPayments
    NoDocument = NoDocument
    GrandTotal <- MCTotals
    ReconciliationMode = "log"
SYMMETRY PaymentSymmetry
CHECK_DEADLOCK FALSE
INVARIANT TypeOK
INVARIANT PaymentNeverOverspent
INVARIANT BalanceReconstructible
INVARIANT CacheCoversBalance
INVARIANT ApplicationsPaired
PROPERTY ReconciliationKept
