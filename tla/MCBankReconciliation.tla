----------------------- MODULE MCBankReconciliation -----------------------
EXTENDS BankReconciliation, TLC

CONSTANTS s1, s2, s3, t1, t2, p1, p2, g

M(t, y, a) == [source |-> t, target |-> y, amount |-> a]
Exact(matches) == [match |-> matches, difference |-> [t \in Statement |-> 0]]

MCAmount == t1 :> 4 @@ t2 :> 3 @@ p1 :> 3 @@ p2 :> 2 @@ g :> 2

\* One line against two payments, one payment against two lines, a part of a
\* line left for later, and the rest of a line given up as a difference.
MCRequest ==
    { Exact(<<M(t1, p1, 2), M(t1, p2, 2)>>),
      Exact(<<M(t2, p1, 1), M(t1, p2, 1)>>),
      Exact(<<M(t2, p1, 2)>>),
      Exact(<<M(t2, p1, 1)>>),
      Exact(<<M(t2, g, 1)>>),
      [match |-> <<M(t2, g, 1)>>, difference |-> t1 :> 0 @@ t2 :> 1] }

Symmetry == Permutations({s1, s2, s3})
=============================================================================
