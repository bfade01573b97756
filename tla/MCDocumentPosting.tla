------------------------- MODULE MCDocumentPosting -------------------------
(* Requests for TLC: three are a submission, a cancellation and a late      *)
(* second request of either kind; the fourth makes two of them late.        *)
EXTENDS DocumentPosting, TLC

CONSTANTS r1, r2, r3, r4

MCRequests == {r1, r2, r3, r4}
RequestSymmetry == Permutations(MCRequests)
=============================================================================
