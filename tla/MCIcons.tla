-------------------------------- MODULE MCIcons --------------------------------
(* One brand, which agents serve, and one product, which the seed does.     *)
EXTENDS Icons, TLC

CONSTANTS b1, p1, s1, s2, a1, a2, g1, g2

Symmetry == Permutations(Shas) \cup Permutations(Actors) \cup Permutations(Agents)
=============================================================================
