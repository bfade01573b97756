---------------------------- MODULE MCApprovalFlow ----------------------------
EXTENDS ApprovalFlow, TLC

CONSTANTS s1, s2, maker, first, second

MCRank == (maker :> 1) @@ (first :> 2) @@ (second :> 3)

SessionSymmetry == Permutations(Session)
=============================================================================
