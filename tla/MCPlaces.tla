------------------------------- MODULE MCPlaces -------------------------------
(* Google's answers over time: a Latin name tagged `zh', a gloss, and a     *)
(* body without names.                                                      *)
EXTENDS Places, TLC

CONSTANTS e1, e2, z1, j1, j2, a1, a2

GoogleAnswers == {[en |-> e1, zh |-> Tagged], [en |-> e2, zh |-> z1], [en |-> None, zh |-> None]}

Symmetry == Permutations(Jobs) \cup Permutations(Agents)
=============================================================================
