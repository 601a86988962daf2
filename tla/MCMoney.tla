------------------------------- MODULE MCMoney -------------------------------
\* A holiday: the rate of the day before comes out late, its own never does;
\* amounts whose parts do not convert to whole units.
EXTENDS Money, TLC

CONSTANTS t1, w1, w2, USD, CNY, PT

\* An award in foreign currency and points, and a fee beside a foreign split.
Leg(c, n) == [cur |-> c, minor |-> n]
Award == <<Leg(CNY, 3), Leg(CNY, -3), Leg(PT, 1), Leg(PT, -1)>>
Split == <<Leg(CNY, 3), Leg(CNY, -2), Leg(CNY, -1), Leg(USD, 1), Leg(USD, -1)>>

ByAgent == {Award, Split}

\* Points redeemed against a fee, at the value the server knows or the one
\* that comes with them; foreign cash at somebody's own rate.
Sent(c, n, r, b) == [cur |-> c, minor |-> n, rate |-> r, base |-> b]
Redemption == <<Sent(PT, -2, Null, Null), Sent(USD, 1, Null, Null)>>
Cash       == <<Sent(CNY, 3, 4, 2), Sent(USD, -2, Null, Null)>>

ByHand   == {Redemption, Cash}
Dates    == t1 :> 2
Rates    == CNY :> ((0 :> 3) @@ (1 :> 5))
Symmetry == Permutations(Workers)
==============================================================================
