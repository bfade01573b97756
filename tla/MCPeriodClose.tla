--------------------------- MODULE MCPeriodClose ---------------------------
(* Instances of PeriodClose for TLC.                                       *)
EXTENDS PeriodClose, TLC

CONSTANTS s1, s2, v1, v2

Symmetry == Permutations(Session) \cup Permutations(Voucher)
=============================================================================
