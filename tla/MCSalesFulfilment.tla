-------------------------- MODULE MCSalesFulfilment --------------------------
EXTENDS SalesFulfilment, TLC

CONSTANTS s1, s2, o1, o2, n1, n2, i1

MCOrdered == o1 :> 2 @@ o2 :> 1

Symmetry == Permutations({s1, s2}) \cup Permutations({n1, n2})
=============================================================================
