---------------------------- MODULE MCReconcile ----------------------------
(* Small instances of the engine: which transactions, and how alike.       *)
EXTENDS Reconcile

CONSTANTS b1, b2, hand, a1, a2

fact(total, order) ==
  [day |-> 1, payee |-> 1, total |-> total, card |-> 1, order |-> order,
   payment |-> Null]

\* Transactions 1 and 3 come from batch b1, 2 from b2.
TwoBatches == (1 :> b1) @@ (2 :> b2) @@ (3 :> b1)

\* 1 was entered by hand, 2 comes from b1, 3 from b2.
OneByHand == (1 :> hand) @@ (2 :> b1) @@ (3 :> b2)

\* 1 and 2 bear one order number; 3 looks like both and bears none.
LikeAndAlike == (1 :> fact(5, 7)) @@ (2 :> fact(5, 7)) @@ (3 :> fact(5, Null))

\* One transaction after the other.
Ticks == [t \in 1 .. 3 |-> t]

\* Three records of one order.
OneOrder == [t \in 1 .. 3 |-> fact(5, 7)]

\* 2 is the refund of 1, and 3 another purchase.
Refunded == (1 :> fact(5, 7)) @@ (2 :> fact(-5, 7)) @@ (3 :> fact(9, Null))
=============================================================================
