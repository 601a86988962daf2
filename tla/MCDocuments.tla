----------------------------- MODULE MCDocuments -----------------------------
(* Two contents would double what one shows: every race is about one.      *)
EXTENDS Documents, TLC

CONSTANTS s1, d1, d2, d3, t1, t2, a1, a2

Symmetry == Permutations(DocIds) \cup Permutations(Txns) \cup Permutations(Actors)
=============================================================================
