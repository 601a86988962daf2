--------------------------------- MODULE Money ---------------------------------
(***************************************************************************)
(* What a posting is worth in the base currency: the rate lookup and its   *)
(* cache (src/fx/rates.ts), the pass that converts foreign legs            *)
(* (src/fx/normalize.ts) and the pass that values loyalty points           *)
(* (src/points/valuation.ts).                                              *)
(*                                                                         *)
(* A pass reads the legs of a transaction, looks its rates up one          *)
(* statement or request at a time, and writes the legs it owns by id in    *)
(* one database transaction under the balance trigger.  Days pass, rates   *)
(* are published and people edit while it waits.  A day is a number, a     *)
(* rate is a number of 1/Scale base units.                                 *)
(***************************************************************************)
EXTENDS Integers, FiniteSets, FiniteSetsExt

CONSTANTS
  Purchases,     \* transactions
  BaseCurrency,
  Foreign,       \* other currencies, and
  Points,        \* what award programmes count in
  Receipts,      \* what the agent may write: functions from legs to amounts
  Entries,       \* what people may enter: functions from legs to requests
  Spare,         \* numbers for legs that are added to a transaction
  HandRates,     \* rates people may put on a leg
  On,            \* occurred_on of each transaction
  Published,     \* the rate of each foreign currency on each business day
  Worths,        \* values the owner may give a point
  Workers,
  Null,          \* no value
  Scale, Attempts, FallbackDays,
  MaxDay,        \* bound: the last day of a behaviour
  MaxPasses,     \* bound: passes started
  MaxEdits       \* bound: hand edits and owner's valuations

Currencies == Foreign \cup Points \cup {BaseCurrency}
Days       == 0..MaxDay
Business   == UNION {DOMAIN Published[c] : c \in Foreign}

AddUp(f) == MapThenSumSet(LAMBDA l : f[l], DOMAIN f)

\* A leg has a currency and an amount, and what the agent writes balances in
\* each currency, as its prompt demands; what people enter may come with a rate
\* and a base amount and need not.  The source publishes a rate for each
\* currency on each business day, and has begun when purchases do.
ASSUME MoneyAssumption ==
  /\ Scale \in Nat \ {0} /\ Attempts \in Nat \ {0} /\ FallbackDays \in Nat
  /\ MaxDay \in Nat
  /\ Null \notin Int
  /\ BaseCurrency \notin Foreign \cup Points /\ Foreign \cap Points = {}
  /\ On \in [Purchases -> Days]
  /\ Business \subseteq Days
  /\ Published \in [Foreign -> [Business -> Nat \ {0}]]
  /\ \A c \in Foreign, t \in Purchases : \E b \in Business : b <= On[t]
  /\ Worths \subseteq Nat
  /\ \A r \in Receipts :
       /\ IsFiniteSet(DOMAIN r) /\ DOMAIN r \subseteq Int
       /\ \A l \in DOMAIN r : r[l] \in [cur : Currencies, minor : Int]
       /\ \A c \in Currencies :
            AddUp([l \in {x \in DOMAIN r : r[x].cur = c} |-> r[l].minor]) = 0
  /\ \A e \in Entries :
       /\ IsFiniteSet(DOMAIN e) /\ DOMAIN e \subseteq Int /\ DOMAIN e # {}
       /\ \A l \in DOMAIN e : e[l] \in [cur : Currencies, minor : Int,
                                       rate : HandRates \cup {Null}, base : Int \cup {Null}]
  /\ Spare \subseteq Int /\ HandRates \subseteq Int

VARIABLES
  leg,        \* postings of each transaction
  cache,      \* fx_rates
  worth,      \* points_valuations
  pass,       \* the pass each worker is in
  today, out, \* the date, and the last day whose rate is published
  drafts,     \* transactions whose balance nobody checks yet
  corrected,  \* history: an amount was corrected by hand
  reworked,   \* history: legs came from people, or their currency, rate or worth
  passes, edits

clock     == <<today, out>>
marks     == <<drafts, corrected, reworked>>
moneyVars == <<leg, cache, worth, pass, clock, marks, passes, edits>>

Idle == [at |-> "idle", kind |-> Null, txn |-> Null, force |-> FALSE,
         seen |-> [l \in {} |-> 0], rates |-> [c \in {} |-> 0],
         cur |-> Null, served |-> Null, tries |-> 0]

\* The answer of the source: the newest rate published by now for that day
\* or one before it, and which day that was.
Newest(S)         == Max(S)
ServedDays(d, by) == {b \in Business : b <= d /\ b <= by}
Rate(c, d, by)    == Published[c][Newest(ServedDays(d, by))]
Final(c, d)       == Rate(c, d, MaxDay)

Mine(kind)      == IF kind = "fx" THEN Foreign ELSE Points
Legs(ls, kind)  == {l \in DOMAIN ls : ls[l].cur \in Mine(kind)}
Kinds(ls, kind) == {ls[l].cur : l \in Legs(ls, kind)}

\* Rows a pass still has to do; 0 marks points without a valuation.
Unrated(ls, kind) ==
  {l \in Legs(ls, kind) : ls[l].rate \in (IF kind = "fx" THEN {Null} ELSE {Null, 0})}

----------------------------------------------------------------------------
Go(w, c)  == pass' = [pass EXCEPT ![w] = c]

\* The worker values the points first and converts afterwards; a pass that
\* has nothing to do, or fails, gives way to the next one.
NextPass(c) ==
  IF c.kind = "points" THEN [Idle EXCEPT !.at = "read", !.kind = "fx", !.txn = c.txn]
  ELSE Idle

\* runOne after a job, on the transaction it wrote or attached a file to.
RunPasses(w, t) ==
  /\ pass[w] = Idle /\ passes < MaxPasses
  /\ DOMAIN leg[t] # {}
  /\ Go(w, [Idle EXCEPT !.at = "read", !.kind = "points", !.txn = t])
  /\ passes' = passes + 1
  /\ UNCHANGED <<leg, cache, worth, clock, marks, edits>>

\* scripts/backfill-fx.ts, or the valuation pass after the owner's change.
RunForced(w, t, k) ==
  /\ pass[w] = Idle /\ passes < MaxPasses
  /\ DOMAIN leg[t] # {}
  /\ Go(w, [Idle EXCEPT !.at = "read", !.kind = k, !.txn = t, !.force = TRUE])
  /\ passes' = passes + 1
  /\ UNCHANGED <<leg, cache, worth, clock, marks, edits>>

ReadLegs(w) ==
  /\ pass[w].at = "read"
  /\ LET c == pass[w]
         ls == leg[c.txn]
         todo == IF c.force THEN Legs(ls, c.kind) ELSE Unrated(ls, c.kind)
     IN Go(w, IF todo = {} THEN NextPass(c)
              ELSE [c EXCEPT !.at = "lookup", !.seen = ls])
  /\ UNCHANGED <<leg, cache, worth, clock, marks, passes, edits>>

\* One lookup per currency of all the legs of this kind, rated or not.
Missing(c) == Kinds(c.seen, c.kind) \ DOMAIN c.rates
Got(c, cur, r) ==
  [c EXCEPT !.rates = [x \in DOMAIN c.rates \cup {cur} |->
                         IF x = cur THEN r ELSE c.rates[x]],
            !.at = "lookup", !.cur = Null, !.served = Null, !.tries = 0]

\* The valuation in force on the day of the transaction, 0 if there is none.
ValuedAt(p, t) ==
  LET known == {d \in 0..On[t] : worth[p][d] # Null}
  IN  IF known = {} THEN 0 ELSE worth[p][Newest(known)]

LookUpWorth(w) ==
  /\ pass[w].at = "lookup" /\ pass[w].kind = "points"
  /\ \E cur \in Missing(pass[w]) :
       Go(w, Got(pass[w], cur, ValuedAt(cur, pass[w].txn)))
  /\ UNCHANGED <<leg, cache, worth, clock, marks, passes, edits>>

LookUpCache(w) ==
  /\ pass[w].at = "lookup" /\ pass[w].kind = "fx"
  /\ \E cur \in Missing(pass[w]) :
       LET c == pass[w] IN
       /\ IF cache[cur][On[c.txn]] # Null
          THEN Go(w, Got(c, cur, cache[cur][On[c.txn]]))
          ELSE Go(w, [c EXCEPT !.at = "fetch", !.cur = cur])
  /\ UNCHANGED <<leg, cache, worth, clock, marks, passes, edits>>

\* The days before that a rate is cached for, as far back as is tolerated.
Nearest(c) == {d \in Days : /\ On[c.txn] - FallbackDays <= d /\ d <= On[c.txn]
                            /\ cache[c.cur][d] # Null}

\* No answer: again, up to Attempts times; then the newest rate the cache
\* holds for the days before; then the pass gives up and its legs stay as
\* they are.
FetchFails(w) ==
  /\ pass[w].at = "fetch"
  /\ LET c == pass[w] IN
     Go(w, IF c.tries + 1 < Attempts THEN [c EXCEPT !.tries = @ + 1]
           ELSE IF Nearest(c) = {} THEN NextPass(c)
           ELSE Got(c, c.cur, cache[c.cur][Newest(Nearest(c))]))
  /\ UNCHANGED <<leg, cache, worth, clock, marks, passes, edits>>

\* Mutant: whatever was published last is the rate of the day.
ProvisionalNever(d, served) == FALSE

\* A rate of an earlier day may be replaced while the day is recent.
Provisional(d, served) == served < d /\ today - d <= 2

\* An answer is there within seconds, so its age is judged on the same day.
FetchAnswers(w) ==
  /\ pass[w].at = "fetch"
  /\ LET c == pass[w]
         d == On[c.txn]
         days == ServedDays(d, out)
     IN /\ days # {}
        /\ Go(w, IF Provisional(d, Newest(days))
                 THEN Got(c, c.cur, Published[c.cur][Newest(days)])
                 ELSE [c EXCEPT !.at = "keep", !.served = Newest(days)])
  /\ UNCHANGED <<leg, cache, worth, clock, marks, passes, edits>>

\* INSERT ... ON CONFLICT DO NOTHING.
KeepRate(w) ==
  /\ pass[w].at = "keep"
  /\ LET c == pass[w]
         d == On[c.txn]
         r == Published[c.cur][c.served]
     IN /\ cache' = [cache EXCEPT ![c.cur][d] = IF @ = Null THEN r ELSE @]
        /\ Go(w, Got(c, c.cur, r))
  /\ UNCHANGED <<leg, worth, clock, marks, passes, edits>>

----------------------------------------------------------------------------
\* Math.round: halves go up, also below zero.
Round(n) == (2 * n + Scale) \div (2 * Scale)
Size(n)  == IF n < 0 THEN -n ELSE n

\* What each leg counts for before the residual: the legs of the pass at
\* their rates, the others as they stand; the conversion takes a leg in the
\* base currency at its amount.
Rounded(c) ==
  [l \in DOMAIN c.seen |->
     LET p == c.seen[l] IN
     IF p.cur \in Mine(c.kind) THEN Round(p.minor * c.rates[p.cur])
     ELSE IF c.kind = "fx" /\ p.cur = BaseCurrency THEN p.minor
     ELSE p.base]

\* The first of the largest legs of the pass.
Largest(c, f) ==
  LET mine == Legs(c.seen, c.kind)
      top  == {l \in mine : \A k \in mine : Size(f[k]) <= Size(f[l])}
  IN Min(top)

\* The whole residual of rounding goes to the largest leg.
Settled(c) ==
  LET f == Rounded(c) IN [f EXCEPT ![Largest(c, f)] = @ - AddUp(f)]

\* What the transaction holds after the pass has updated its own legs.
Written(c, f) ==
  [l \in DOMAIN leg[c.txn] |->
     IF l \in Legs(c.seen, c.kind)
     THEN [leg[c.txn][l] EXCEPT !.rate = c.rates[c.seen[l].cur], !.base = f[l]]
     ELSE leg[c.txn][l]]

\* Mutant: the trigger adds up the amounts.
BalancedByAmount(ls) == AddUp([l \in DOMAIN ls |-> ls[l].minor]) = 0

LegsBalance(ls) == AddUp([l \in DOMAIN ls |-> ls[l].base]) = 0

\* The deferred trigger; drafts bypass it.
Commits(t, ls) == t \in drafts \/ LegsBalance(ls)

Ready(w) == pass[w].at = "lookup" /\ Missing(pass[w]) = {}

WriteLegs(w) ==
  /\ Ready(w)
  /\ LET c == pass[w] IN
     /\ Commits(c.txn, Written(c, Settled(c)))
     /\ leg' = [leg EXCEPT ![c.txn] = Written(c, Settled(c))]
     /\ Go(w, NextPass(c))
  /\ UNCHANGED <<cache, worth, clock, marks, passes, edits>>

\* The trigger refuses the commit; the wrappers swallow the exception.
WriteRefused(w) ==
  /\ Ready(w)
  /\ ~Commits(pass[w].txn, Written(pass[w], Settled(pass[w])))
  /\ Go(w, NextPass(pass[w]))
  /\ UNCHANGED <<leg, cache, worth, clock, marks, passes, edits>>

----------------------------------------------------------------------------
\* The agent writes the numbers on the paper, one base unit for each unit.
AgentWrites(t) ==
  /\ DOMAIN leg[t] = {} /\ On[t] <= today
  /\ \E r \in Receipts :
       leg' = [leg EXCEPT ![t] = [l \in DOMAIN r |->
                 [cur |-> r[l].cur, minor |-> r[l].minor,
                  rate |-> Null, base |-> r[l].minor]]]
  /\ UNCHANGED <<cache, worth, pass, clock, marks, passes, edits>>

\* A leg that people send: points are valued by the server unless they come
\* with a rate and a base amount, as cash must.
Given(p)      == p.rate # Null /\ p.base # Null
Acceptable(p) == p.cur \in Foreign => Given(p)

Priced(t, p) ==
  [cur |-> p.cur, minor |-> p.minor,
   rate |-> IF p.cur = BaseCurrency THEN Null
            ELSE IF Given(p) THEN p.rate ELSE ValuedAt(p.cur, t),
   base |-> IF p.cur = BaseCurrency THEN IF p.base = Null THEN p.minor ELSE p.base
            ELSE IF Given(p) THEN p.base ELSE Round(p.minor * ValuedAt(p.cur, t))]

\* POST /v1/transactions: no rate, or 1, for the base currency.
CreateByHand(t) ==
  /\ DOMAIN leg[t] = {} /\ edits < MaxEdits
  /\ \E e \in Entries, draft \in SUBSET {t} :
       LET ls == [l \in DOMAIN e |-> Priced(t, e[l])] IN
       /\ \A l \in DOMAIN e :
            /\ Acceptable(e[l])
            /\ e[l].cur = BaseCurrency => e[l].rate \in {Null, Scale}
       /\ t \in draft \/ LegsBalance(ls)
       /\ leg' = [leg EXCEPT ![t] = ls]
       /\ drafts' = drafts \cup draft
  /\ reworked' = reworked \cup {t}
  /\ edits' = edits + 1
  /\ UNCHANGED <<cache, worth, pass, clock, corrected, passes>>

\* What a person makes of the legs, if the trigger lets it pass.
Rework(t, ls) ==
  /\ edits < MaxEdits
  /\ Commits(t, ls)
  /\ leg' = [leg EXCEPT ![t] = ls]
  /\ reworked' = reworked \cup {t}
  /\ edits' = edits + 1
  /\ UNCHANGED <<cache, worth, pass, clock, drafts, corrected, passes>>

\* POST of one more posting.
AddLeg(t) ==
  /\ DOMAIN leg[t] # {}
  /\ \E l \in Spare \ DOMAIN leg[t], p \in UNION {{e[x] : x \in DOMAIN e} : e \in Entries} :
       /\ Acceptable(p)
       /\ Rework(t, [x \in DOMAIN leg[t] \cup {l} |->
                      IF x = l THEN Priced(t, p) ELSE leg[t][x]])

\* DELETE of one, unless fewer than two are left; of a draft all but the last.
DropLeg(t) ==
  /\ Cardinality(DOMAIN leg[t]) > IF t \in drafts THEN 1 ELSE 2
  /\ \E l \in DOMAIN leg[t] :
       Rework(t, [x \in DOMAIN leg[t] \ {l} |-> leg[t][x]])

\* PATCH of a posting's currency, rate or base amount: each is stored as it
\* comes and leaves the others alone.
PatchLeg(t) ==
  \E l \in DOMAIN leg[t] :
    \/ \E c \in Currencies \ {leg[t][l].cur} :
         Rework(t, [leg[t] EXCEPT ![l].cur = c])
    \/ \E r \in HandRates \ {leg[t][l].rate} :
         Rework(t, [leg[t] EXCEPT ![l].rate = r])
    \/ Rework(t, [leg[t] EXCEPT ![l].base = @ + 1])

\* PATCH of its amount leaves its rate and its base amount alone.
CorrectAmount(t) ==
  /\ edits < MaxEdits
  /\ \E l \in DOMAIN leg[t] :
       leg' = [leg EXCEPT ![t][l].minor = @ + 1]
  /\ corrected' = corrected \cup {t}
  /\ edits' = edits + 1
  /\ UNCHANGED <<cache, worth, pass, clock, drafts, reworked, passes>>

\* The owner says what a point is worth from some day on.
SetWorth ==
  /\ edits < MaxEdits
  /\ \E p \in Points, d \in Days, v \in Worths :
       worth' = [worth EXCEPT ![p][d] = v]
  /\ edits' = edits + 1
  /\ UNCHANGED <<leg, cache, pass, clock, marks, passes>>

\* The rate of a business day comes out that day or the day after.
Publish ==
  /\ \E b \in Business : b > out /\ b <= today /\ out' = b
       /\ \A x \in Business : x > out => b <= x
  /\ UNCHANGED <<leg, cache, worth, pass, today, marks, passes, edits>>

NewDay ==
  /\ today < MaxDay
  /\ \A b \in Business : b < today => b <= out
  /\ today' = today + 1
  /\ UNCHANGED <<leg, cache, worth, pass, out, marks, passes, edits>>

----------------------------------------------------------------------------
\* Programmes may have a valuation from the start (db/seed.ts), dated before
\* any purchase.
Valued(w) == [p \in Points |-> [d \in Days |-> IF d = 0 THEN w[p] ELSE Null]]

MoneyInit ==
  /\ leg = [t \in Purchases |-> [l \in {} |-> 0]]
  /\ cache = [c \in Foreign |-> [d \in Days |-> Null]]
  /\ \E w \in [Points -> Worths \cup {Null}] : worth = Valued(w)
  /\ pass = [w \in Workers |-> Idle]
  /\ today = 0 /\ out = -1
  /\ drafts = {} /\ corrected = {} /\ reworked = {} /\ passes = 0 /\ edits = 0

Pass(w) ==
  \/ ReadLegs(w) \/ LookUpWorth(w) \/ LookUpCache(w)
  \/ FetchFails(w) \/ FetchAnswers(w) \/ KeepRate(w)
  \/ WriteLegs(w) \/ WriteRefused(w)

MoneyNext ==
  \/ \E w \in Workers : Pass(w)
  \/ \E w \in Workers, t \in Purchases : RunPasses(w, t)
  \/ \E w \in Workers, t \in Purchases, k \in {"fx", "points"} : RunForced(w, t, k)
  \/ \E t \in Purchases : AgentWrites(t) \/ CreateByHand(t)
                           \/ AddLeg(t) \/ DropLeg(t) \/ PatchLeg(t) \/ CorrectAmount(t)
  \/ SetWorth \/ Publish \/ NewDay

MoneySpec == MoneyInit /\ [][MoneyNext]_moneyVars

----------------------------------------------------------------------------
Posting == [cur : Currencies, minor : Int,
            rate : Int \cup {Null}, base : Int]

\* A rate per currency and day, a worth per program and day it is in force from.
RateCache  == [Foreign -> [Days -> Nat \cup {Null}]]
Valuations == [Points -> [Days -> Worths \cup {Null}]]

\* Every variable has its type; where nobody set a currency or a rate by hand,
\* only converted legs have a rate, and 0 is for points only.
MoneyTypeOK ==
  /\ \A t \in Purchases : \A l \in DOMAIN leg[t] :
       /\ leg[t][l] \in Posting
       /\ t \notin reworked =>
            /\ leg[t][l].rate \in Nat \cup {Null}
            /\ leg[t][l].cur = BaseCurrency => leg[t][l].rate = Null
            /\ leg[t][l].rate = 0 => leg[t][l].cur \in Points
  /\ cache \in RateCache
  /\ worth \in Valuations
  /\ \A w \in Workers : pass[w].at \in {"idle", "read", "lookup", "fetch", "keep"}
  /\ today \in Days /\ out \in Business \cup {-1} /\ out <= today
  /\ corrected \subseteq Purchases /\ drafts \subseteq reworked
  /\ reworked \subseteq Purchases

\* A rate that is cached is final (rates.ts, the provisional rule): the
\* source will never answer differently for that day.
FrozenRatesAreFinal ==
  \A c \in Foreign, d \in Days : cache[c][d] \in {Null, Final(c, d)}

\* The two passes and the edits between their reads and their writes: what
\* is posted adds up to nothing, whoever wrote its legs.  Of the legs an agent
\* wrote, what one kind is off the other makes up, and neither is ever off by
\* more than half a unit for each of its legs, unless a person added or removed
\* one, or set a currency, a rate or a base amount; and if nobody corrected an
\* amount either, each is worth its amount at its own rate, up to half a unit
\* for each leg of the transaction.
Off(ls, kind) == AddUp([l \in Legs(ls, kind) |-> ls[l].base])

Faithful(p, n) == 2 * Size(p.base * Scale - p.minor * p.rate) <= (n + 1) * Scale

WorthItsRate ==
  \A t \in Purchases :
    /\ t \notin drafts => AddUp([l \in DOMAIN leg[t] |-> leg[t][l].base]) = 0
    /\ t \notin reworked =>
         /\ Off(leg[t], "fx") + Off(leg[t], "points") = 0
         /\ \A k \in {"fx", "points"} :
              2 * Size(Off(leg[t], k)) <= Cardinality(Legs(leg[t], k))
    /\ t \notin corrected \cup reworked =>
         \A l \in DOMAIN leg[t] :
           leg[t][l].rate # Null => Faithful(leg[t][l], Cardinality(DOMAIN leg[t]))

\* When all is quiet and a day can no longer change its rate, the legs of
\* that day carry it: "the wrong one to freeze" is not frozen.
HistoryAtFinalRate ==
  (\A w \in Workers : pass[w] = Idle) =>
    \A t \in Purchases : today - On[t] > 2 /\ t \notin corrected \cup reworked =>
      \A l \in Legs(leg[t], "fx") :
        leg[t][l].rate \in {Null, Final(leg[t][l].cur, On[t])}
================================================================================
