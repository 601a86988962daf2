----------------------------- MODULE MCLineItems -----------------------------
(* Two transactions that may share a product, two products to merge.       *)
EXTENDS LineItems, TLC

CONSTANTS t1, t2, p1, p2, a1, a2

Symmetry == Permutations(Txns) \cup Permutations(Products) \cup Permutations(Actors)
=============================================================================
