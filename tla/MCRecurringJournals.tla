------------------------ MODULE MCRecurringJournals ------------------------
(* Instances of RecurringJournals for TLC.                                 *)
EXTENDS RecurringJournals, TLC

CONSTANTS s1, s2, s3, j1, j2, j3

Symmetry == Permutations(Session) \cup Permutations(Journal)
=============================================================================
