------------------------------ MODULE MCLedger ------------------------------
(* A small ledger: one transaction, in the books or to be created.          *)
EXTENDS Ledger, TLC

CONSTANTS t1, t2, p1, p2, p3, p4, cash, miles, food, a1, a2

ChartOfAccounts == (cash :> "asset") @@ (miles :> "asset") @@ (food :> "expense")
Symmetry == Permutations(Postings) \cup Permutations(Actors)
SmallAmounts == {-1, 0, 1}
=============================================================================
