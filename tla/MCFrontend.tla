------------------------------ MODULE MCFrontend ------------------------------
EXTENDS Frontend, TLC

CONSTANTS k1, k2, x1, x2, r1, r2, r3, j1, j2, c1, c2

Symmetry == Permutations(Requests) \cup Permutations(Keys) \cup Permutations(Bodies)
              \cup Permutations(Jobs) \cup Permutations(Streams)
=============================================================================
