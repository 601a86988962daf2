---------------------------- MODULE LineItemsProofs ----------------------------
(***************************************************************************)
(* What is proved of line items and the catalogue: for any number of       *)
(* transactions, products and requests, the stored figures of a product    *)
(* are the sums over its lines but for four named cases, a rewrite keeps   *)
(* what the user typed and, unless a line was typed past its numbers, the  *)
(* order of the lines, and a mark of the user is lost to a patch only,     *)
(* stale or with metadata of its own.                                      *)
(*                                                                         *)
(* The figures follow because a call that has counted a product still      *)
(* holds the right count for as long as no other call changes its lines:   *)
(* that is what the history crossed notes.  The order follows because the  *)
(* new lines start past the highest number that was there when the block   *)
(* took them, which exists because there are finitely many.                *)
(***************************************************************************)
EXTENDS LineItems, TLAPS, FiniteSetTheorems

Values == [Fields -> {"read", "typed"}]

\* What a line typed by hand will be.
Wanted == [line : Nat, run : Nat, product : Products \cup {None}]

Shots == [value : Values, stamp : Nat, text : {"old", "new"}]

Block   == [lines : SUBSET Item, off : Nat, kept : BOOLEAN,
            counts : [Products -> Stats \cup {None}]]
Recount == [product : Products, stats : Stats]
Merging == [from : Products, to : Products, rows : SUBSET (Txns \X Nat \X Nat)]

CallRow == [at : {"idle", "agent", "insert", "commit", "after", "items", "patch",
                  "recount", "merge", "move"},
            txn : Txns \cup {None}, seen : {None} \cup HeadRow \cup Shots,
            arg : {None} \cup Wanted \cup Patches \cup Recount \cup Merging \cup Block,
            wrote : BOOLEAN]

Typed ==
  /\ head \in [Txns -> HeadRow]
  /\ items \subseteq Item /\ IsFiniteSet(items)
  /\ catalog \in [Products -> ProductRow]
  /\ call \in [Actors -> CallRow]
  /\ told \in [outcome : {"none", "written", "no_change"}, wrote : BOOLEAN]
  /\ crossed \subseteq Products
  /\ served \in 0 .. MaxRequests

There(p) == catalog[p].state # "absent"

\* A line's product has a row.
ProductsAreThere == \A i \in items : i.product # None => There(i.product)

\* Only an agent makes modifiers.
ManualAreTop == \A i \in items : i.manual => i.parent = 0

InBlock(c) == c.at \in {"insert", "commit"}

\* The lines of a block, numbered past what was typed when it took them.
LinesFit(c) ==
  /\ IsFiniteSet(c.arg.lines)
  /\ \A i \in c.arg.lines : i.txn = c.txn /\ i.live /\ ~i.manual /\ i.line > c.arg.off
  /\ \A i, j \in c.arg.lines : i.run = j.run /\ (i.line = j.line => i = j)
  /\ \A i \in c.arg.lines : i.parent # 0 => \E j \in c.arg.lines : j.line = i.parent

\* What a request read and what it was asked for.  The row may have moved on
\* since a patch read it; if it has not, the marks are what the patch saw.
CallFits(c) ==
  /\ c.at \in {"agent", "insert", "commit", "after", "items", "patch"} => c.txn \in Txns
  /\ c.at = "items" =>
       c.arg \in Wanted /\ (c.arg.product # None => There(c.arg.product))
  /\ c.at = "patch" =>
       /\ c.seen \in HeadRow /\ c.arg \in Patches
       /\ c.seen.version <= head[c.txn].version
       /\ c.seen.version = head[c.txn].version => c.seen.edited = head[c.txn].edited
  /\ c.at = "recount" => c.arg \in Recount
  /\ c.at \in {"merge", "move"} => c.arg \in Merging /\ c.arg.from # c.arg.to /\ There(c.arg.to)
  /\ InBlock(c) => c.arg \in Block /\ LinesFit(c)
  /\ c.at = "commit" =>
       \A i \in c.arg.lines : i.product # None => c.arg.counts[i.product] # None

\* The document's row serialises the blocks of a transaction.
OneBlock ==
  \A a, b \in Actors :
    InBlock(call[a]) /\ InBlock(call[b]) /\ call[a].txn = call[b].txn => a = b

\* DriftIsExplained, product by product, without the count that came late.
Explained(p) ==
  catalog[p].stats # Truth(items, p) =>
    \/ ~HasLines(items, p)
    \/ \E i \in items : i.live /\ i.manual /\ i.product = p
    \/ \E t \in Txns : head[t].state = "gone"

\* A block will retire a line of the product.
Retires(c, p) == \E i \in LiveOf(items, p) : i.txn = c.txn /\ ~i.manual

\* What a call has counted, or found, of a product is so.
Knows(c, p) ==
  /\ c.at = "recount" /\ c.arg.product = p => c.arg.stats = Truth(items, p)
  /\ c.at = "commit" /\ c.arg.counts[p] # None => c.arg.counts[p] = Truth(After(items, c), p)
  /\ c.at = "commit" /\ c.arg.counts[p] = None /\ Retires(c, p) =>
       ~HasLines(After(items, c), p)
  /\ c.at = "move" /\ c.arg.from = p => \A i \in LiveOf(items, p) : Key(i) \in c.arg.rows

LineItemsInv ==
  /\ Typed
  /\ \A a \in Actors : CallFits(call[a])
  /\ OneBlock
  /\ ProductsAreThere
  /\ ManualAreTop
  /\ \A p \in Products \ crossed : Explained(p) /\ \A a \in Actors : Knows(call[a], p)

----------------------------------------------------------------------------
(* Finite sets.                                                            *)

\* The image of a finite set under a function is finite.
LEMMA FiniteImage ==
  ASSUME NEW S, IsFiniteSet(S), NEW f, f = [x \in S |-> f[x]]
  PROVE  IsFiniteSet({f[x] : x \in S})
PROOF
  <1>. DEFINE T == {f[x] : x \in S}
  <1>1. f \in Surjection(S, T)
    BY DEF Surjection
  <1>. QED
    BY <1>1, FS_Surjection

\* A finite set of numbers that is not empty has a greatest member: among
\* the sets of what lies above each, a least one is empty.
LEMMA GreatestOf ==
  ASSUME NEW S \in SUBSET Nat, IsFiniteSet(S), S # {}
  PROVE  Max(S) \in S /\ \A y \in S : y <= Max(S)
PROOF
  <1>. DEFINE Above(x) == {y \in S : y > x}
             T == {Above(x) : x \in S}
  <1>1. T \subseteq FiniteSubsetsOf(S)
    BY FS_Subset DEF FiniteSubsetsOf
  <1>2. PICK U \in T : \A V \in T : <<V, U>> \notin StrictSubsetOrdering(S)
    <2>1. T # {}
      OBVIOUS
    <2>. HIDE DEF T
    <2>. QED
      BY <1>1, <2>1, FS_StrictSubsetOrderingWellFounded, WFMin
  <1>3. PICK x \in S : U = Above(x)
    BY <1>2
  <1>4. \A y \in S : y <= x
    <2>. SUFFICES ASSUME NEW y \in S, ~ (y <= x) PROVE FALSE
      OBVIOUS
    <2>1. y > x /\ x \in Nat /\ y \in Nat
      OBVIOUS
    <2>2. Above(y) \subseteq Above(x) /\ y \in Above(x) /\ y \notin Above(y)
      <3>1. \A z \in Nat : z > y => z > x
        BY <2>1
      <3>2. ~ (y > y)
        BY <2>1
      <3>. QED
        BY <2>1, <3>1, <3>2
    <2>3. Above(y) \in T /\ Above(x) \in SUBSET S /\ Above(y) \in SUBSET S
      OBVIOUS
    <2>4. <<Above(y), U>> \notin StrictSubsetOrdering(S)
      BY <1>2, <2>3
    <2>. QED
      BY <1>3, <2>2, <2>3, <2>4 DEF StrictSubsetOrdering
  <1>. QED
    BY <1>4 DEF Max

\* COALESCE(MAX(...), default).
LEMMA GreatestIs ==
  ASSUME NEW S \in SUBSET Nat, IsFiniteSet(S), NEW d \in Nat
  PROVE  Greatest(S, d) \in Nat /\ \A y \in S : y <= Greatest(S, d)
PROOF
  <1>1. CASE S = {}
    BY <1>1 DEF Greatest
  <1>2. CASE S # {}
    BY <1>2, GreatestOf DEF Greatest
  <1>. QED
    BY <1>1, <1>2

----------------------------------------------------------------------------
(* Lines.                                                                  *)

\* The figures of a product depend on its live lines only.
LEMMA SameFigures ==
  ASSUME NEW old, NEW new, NEW p, LiveOf(new, p) = LiveOf(old, p)
  PROVE  /\ Truth(new, p) = Truth(old, p)
         /\ HasLines(new, p) <=> HasLines(old, p)
         /\ (\E i \in new : i.live /\ i.manual /\ i.product = p)
              <=> (\E i \in old : i.live /\ i.manual /\ i.product = p)
PROOF
  <1>1. Truth(new, p) = Truth(old, p)
    BY DEF Truth, LiveOf
  <1>2. HasLines(new, p) <=> HasLines(old, p)
    BY DEF HasLines, LiveOf
  <1>3. (\E i \in new : i.live /\ i.manual /\ i.product = p)
          <=> (\E i \in old : i.live /\ i.manual /\ i.product = p)
    BY DEF LiveOf
  <1>. QED
    BY <1>1, <1>2, <1>3

\* Figures are numbers.
LEMMA TruthType ==
  ASSUME NEW its, IsFiniteSet(its), NEW p
  PROVE  Truth(its, p) \in Stats
PROOF
  <1>. DEFINE bought == {i \in its : i.live /\ i.product = p}
  <1>1. IsFiniteSet(bought)
    BY FS_Subset
  <1>. HIDE DEF bought
  <1>2. IsFiniteSet({i.txn : i \in bought})
    <2>. DEFINE f == [i \in bought |-> i.txn]
    <2>1. f = [i \in bought |-> f[i]]
      OBVIOUS
    <2>2. {f[i] : i \in bought} = {i.txn : i \in bought}
      OBVIOUS
    <2>. HIDE DEF f
    <2>. QED
      BY <1>1, <2>1, <2>2, FiniteImage
  <1>3. Cardinality(bought) \in Nat /\ Cardinality({i.txn : i \in bought}) \in Nat
    BY <1>1, <1>2, FS_CardinalityType
  <1>. QED
    BY <1>3 DEF Truth, Stats, bought

\* The agent reads one line or two, and a modifier is one of the first.
LEMMA ReadingFits ==
  ASSUME NEW reading \in Readings
  PROVE  /\ DOMAIN reading \in {1 .. 1, 1 .. 2}
         /\ IsFiniteSet(DOMAIN reading)
         /\ \A n \in DOMAIN reading :
              /\ n \in Nat \ {0}
              /\ reading[n].product \in Products \cup {None}
              /\ reading[n].parent \in {0, 1}
         /\ 1 \in DOMAIN reading
PROOF
  <1>1. DOMAIN reading \in {1 .. 1, 1 .. 2}
    BY DEF Readings
  <1>2. IsFiniteSet(DOMAIN reading)
    <2>1. \A k \in Int : IsFiniteSet(1 .. k)
      <3>1. 1 \in Int
        OBVIOUS
      <3>. QED
        BY ONLY <3>1, FS_Interval, Zenon
    <2>2. PICK k \in {1, 2} : DOMAIN reading = 1 .. k
      BY <1>1
    <2>3. k \in Int
      OBVIOUS
    <2>. QED
      BY <2>1, <2>2, <2>3, Zenon
  <1>3. \A n \in DOMAIN reading :
              /\ reading[n].product \in Products \cup {None}
              /\ reading[n].parent \in {0, 1}
    BY DEF Readings
  <1>. QED
    BY <1>1, <1>2, <1>3

\* The lines a run retires keep everything but their being live; those typed
\* by hand are untouched.
LEMMA RetiredFits ==
  ASSUME NEW its \in SUBSET Item, IsFiniteSet(its), NEW t
  PROVE  /\ Retired(its, t) \subseteq Item
         /\ IsFiniteSet(Retired(its, t))
         /\ \A j \in Retired(its, t) : \E i \in its :
              /\ j.txn = i.txn /\ j.line = i.line /\ j.parent = i.parent
              /\ j.run = i.run /\ j.manual = i.manual /\ j.product = i.product
              /\ (i.txn # t \/ i.manual) => j = i
              /\ (i.txn = t /\ ~ i.manual) => ~ j.live
         /\ \A i \in its : (i.txn # t \/ i.manual) => i \in Retired(its, t)
         /\ \A i \in its : \E j \in Retired(its, t) :
              j.txn = i.txn /\ j.product = i.product
PROOF
  <1>. DEFINE g == [i \in its |-> IF i.txn = t /\ ~i.manual
                                  THEN [i EXCEPT !.live = FALSE] ELSE i]
  <1>1. g = [i \in its |-> g[i]] /\ Retired(its, t) = {g[i] : i \in its}
    BY DEF Retired
  <1>2. \A i \in its :
          /\ g[i] \in Item
          /\ g[i].txn = i.txn /\ g[i].line = i.line /\ g[i].parent = i.parent
          /\ g[i].run = i.run /\ g[i].manual = i.manual /\ g[i].product = i.product
          /\ (i.txn # t \/ i.manual) => g[i] = i
          /\ (i.txn = t /\ ~ i.manual) => ~ g[i].live
    BY DEF Item
  <1>. HIDE DEF g
  <1>3. IsFiniteSet(Retired(its, t))
    BY <1>1, FiniteImage
  <1>. QED
    BY <1>1, <1>2, <1>3

\* The highest number among the lines typed by hand.
LEMMA OffsetIs ==
  ASSUME NEW its \in SUBSET Item, IsFiniteSet(its), NEW t
  PROVE  /\ ManualOffset(its, t) \in Nat
         /\ \A i \in Live(its, t) : i.manual => i.line <= ManualOffset(its, t)
PROOF
  <1>. DEFINE M == {j \in Live(its, t) : j.manual}
             f == [i \in M |-> i.line]
             S == {i.line : i \in M}
  <1>1. M \subseteq its /\ IsFiniteSet(M)
    BY FS_Subset DEF Live
  <1>2. f = [i \in M |-> f[i]] /\ S = {f[i] : i \in M}
    OBVIOUS
  <1>3. S \in SUBSET Nat
    BY <1>1 DEF Item
  <1>4. IsFiniteSet(S)
    <2>. HIDE DEF f, M
    <2>. QED
      BY <1>1, <1>2, FiniteImage
  <1>5. ManualOffset(its, t) = Greatest(S, 0)
    BY DEF ManualOffset
  <1>6. \A i \in Live(its, t) : i.manual => i.line \in S
    OBVIOUS
  <1>. HIDE DEF S
  <1>. QED
    BY <1>3, <1>4, <1>5, <1>6, GreatestIs

\* The same of any set of lines and of their numbers or runs.
LEMMA GreatestLine ==
  ASSUME NEW its \in SUBSET Item, IsFiniteSet(its), NEW t, NEW d \in Nat
  PROVE  /\ Greatest({i.line : i \in Live(its, t)}, d) \in Nat
         /\ Greatest({i.run : i \in Live(its, t)}, d) \in Nat
         /\ Greatest({i.run : i \in Of(its, t)}, d) \in Nat
PROOF
  <1>1. ASSUME NEW M \in SUBSET its
        PROVE  /\ Greatest({i.line : i \in M}, d) \in Nat
               /\ Greatest({i.run : i \in M}, d) \in Nat
    <2>1. IsFiniteSet(M)
      BY FS_Subset
    <2>2. {i.line : i \in M} \in SUBSET Nat /\ {i.run : i \in M} \in SUBSET Nat
      BY DEF Item
    <2>3. IsFiniteSet({i.line : i \in M})
      <3>. DEFINE f == [i \in M |-> i.line]
      <3>1. f = [i \in M |-> f[i]] /\ {i.line : i \in M} = {f[i] : i \in M}
        OBVIOUS
      <3>. HIDE DEF f
      <3>. QED
        BY <2>1, <3>1, FiniteImage
    <2>4. IsFiniteSet({i.run : i \in M})
      <3>. DEFINE f == [i \in M |-> i.run]
      <3>1. f = [i \in M |-> f[i]] /\ {i.run : i \in M} = {f[i] : i \in M}
        OBVIOUS
      <3>. HIDE DEF f
      <3>. QED
        BY <2>1, <3>1, FiniteImage
    <2>. QED
      BY <2>2, <2>3, <2>4, GreatestIs
  <1>2. Live(its, t) \in SUBSET its /\ Of(its, t) \in SUBSET its
    BY DEF Live, Of
  <1>. QED
    BY <1>1, <1>2

\* The new lines: past the survivors' numbers, of the agent's making, and a
\* modifier points at the first of them.
LEMMA NumberedFits ==
  ASSUME NEW its \in SUBSET Item, IsFiniteSet(its), NEW t \in Txns,
         NEW reading \in Readings, NEW run \in Nat
  PROVE  LET new == Numbered(its, t, reading, run)
             off == ManualOffset(its, t)
         IN  /\ new \subseteq Item /\ IsFiniteSet(new)
             /\ \A i \in new :
                  /\ i.txn = t /\ i.line > off /\ i.run = run
                  /\ i.live /\ ~ i.manual
                  /\ \E n \in DOMAIN reading : i.product = reading[n].product
             /\ \A i, j \in new : i.line = j.line => i = j
             /\ \A i \in new : i.parent # 0 => \E j \in new : j.line = i.parent
PROOF
  <1>. DEFINE off == ManualOffset(its, t)
             g == [n \in DOMAIN reading |->
                    [txn |-> t, line |-> n + off,
                     parent |-> IF reading[n].parent = 0 THEN 0
                                ELSE reading[n].parent + off,
                     run |-> run, manual |-> FALSE, live |-> TRUE,
                     product |-> reading[n].product]]
             new == Numbered(its, t, reading, run)
  <1>1. off \in Nat
    BY OffsetIs
  <1>2. g = [n \in DOMAIN reading |-> g[n]] /\ new = {g[n] : n \in DOMAIN reading}
    BY DEF Numbered
  <1>. HIDE DEF off
  <1>3. \A n \in DOMAIN reading :
          /\ g[n].txn = t /\ g[n].line = n + off /\ g[n].run = run
          /\ g[n].live = TRUE /\ g[n].manual = FALSE
          /\ g[n].product = reading[n].product
          /\ g[n].parent = IF reading[n].parent = 0 THEN 0 ELSE reading[n].parent + off
    OBVIOUS
  <1>4. \A n \in DOMAIN reading : g[n] \in Item
    <2>. SUFFICES ASSUME NEW n \in DOMAIN reading PROVE g[n] \in Item
      OBVIOUS
    <2>1. /\ n \in Nat /\ reading[n].product \in Products \cup {None}
          /\ reading[n].parent \in {0, 1}
      BY ReadingFits
    <2>2. n + off \in Nat
          /\ (IF reading[n].parent = 0 THEN 0 ELSE reading[n].parent + off) \in Nat
      BY <1>1, <2>1
    <2>. QED
      BY <2>1, <2>2 DEF Item
  <1>. HIDE DEF g
  <1>5. IsFiniteSet(new)
    BY <1>2, FiniteImage, ReadingFits
  <1>6. \A n \in DOMAIN reading : n + off > off /\ n \in Nat
    BY <1>1, ReadingFits
  <1>7. \A i, j \in new : i.line = j.line => i = j
    <2>1. \A m, n \in DOMAIN reading : m + off = n + off => m = n
      BY <1>1, <1>6
    <2>. QED
      BY <1>2, <1>3, <2>1
  <1>8. \A i \in new : i.parent # 0 => \E j \in new : j.line = i.parent
    <2>. SUFFICES ASSUME NEW n \in DOMAIN reading, g[n].parent # 0
                  PROVE  \E j \in new : j.line = g[n].parent
      BY <1>2
    <2>1. reading[n].parent \in {0, 1} /\ 1 \in DOMAIN reading
      BY ReadingFits
    <2>2. g[n].parent = 1 + off
      BY <1>3, <2>1
    <2>3. g[1] \in new /\ g[1].line = 1 + off
      BY <1>2, <1>3, <2>1
    <2>. QED
      BY <2>2, <2>3
  <1>9. \A i \in new :
          /\ i.txn = t /\ i.line > off /\ i.run = run
          /\ i.live /\ ~ i.manual
          /\ \E n \in DOMAIN reading : i.product = reading[n].product
    BY <1>2, <1>3, <1>6
  <1>10. new \subseteq Item
    BY <1>2, <1>4
  <1>. QED
    BY <1>5, <1>7, <1>8, <1>9, <1>10 DEF off

\* Of a product a block leaves the live lines it does not retire, and its own.
LEMMA LiveAfter ==
  ASSUME NEW its \in SUBSET Item, IsFiniteSet(its), NEW c, NEW p
  PROVE  LiveOf(After(its, c), p) =
           {i \in LiveOf(its, p) : i.txn # c.txn \/ i.manual} \cup LiveOf(c.arg.lines, p)
PROOF
  <1>1. /\ \A j \in Retired(its, c.txn) : \E i \in its :
              /\ j.product = i.product
              /\ (i.txn # c.txn \/ i.manual) => j = i
              /\ (i.txn = c.txn /\ ~ i.manual) => ~ j.live
        /\ \A i \in its : (i.txn # c.txn \/ i.manual) => i \in Retired(its, c.txn)
    BY RetiredFits
  <1>. QED
    BY <1>1 DEF After, LiveOf

\* So what it leaves of a product depends on the live lines only.
LEMMA SameAfter ==
  ASSUME NEW old \in SUBSET Item, IsFiniteSet(old), NEW new \in SUBSET Item, IsFiniteSet(new),
         NEW c, NEW p, LiveOf(new, p) = LiveOf(old, p)
  PROVE  /\ Truth(After(new, c), p) = Truth(After(old, c), p)
         /\ HasLines(After(new, c), p) <=> HasLines(After(old, c), p)
PROOF
  <1>1. LiveOf(After(new, c), p) =
          {i \in LiveOf(new, p) : i.txn # c.txn \/ i.manual} \cup LiveOf(c.arg.lines, p)
    BY LiveAfter
  <1>2. LiveOf(After(old, c), p) =
          {i \in LiveOf(old, p) : i.txn # c.txn \/ i.manual} \cup LiveOf(c.arg.lines, p)
    BY LiveAfter
  <1>3. LiveOf(After(new, c), p) = LiveOf(After(old, c), p)
    BY <1>1, <1>2
  <1>. QED
    BY <1>3, SameFigures

\* What a recompute counts has its type, and each product with a live line of
\* those it is asked for is counted.
LEMMA CountedFits ==
  ASSUME NEW its, IsFiniteSet(its), NEW ps
  PROVE  /\ Counted(its, ps) \in [Products -> Stats \cup {None}]
         /\ \A p \in Products :
              /\ Counted(its, ps)[p] # None => Counted(its, ps)[p] = Truth(its, p)
              /\ p \in ps /\ HasLines(its, p) => Counted(its, ps)[p] # None
PROOF
  <1>1. \A p \in Products : Truth(its, p) \in Stats
    BY TruthType
  <1>2. None \notin Stats
    BY LineItemsAssumption DEF Stats
  <1>. QED
    BY <1>1, <1>2 DEF Counted

----------------------------------------------------------------------------
(* Steps.                                                                  *)

\* A row changes only with its version, no row comes back from the dead, and
\* no product that was there is absent again.
Onward ==
  /\ \A t \in Txns :
       /\ head[t].version <= head'[t].version
       /\ head[t].version = head'[t].version => head'[t].edited = head[t].edited
       /\ head[t].state = "gone" => head'[t].state = "gone"
  /\ \A p \in Products : There(p) => There(p)'

\* A product about which every call that is under way still knows right: its
\* lines are what they were, or nobody who rests has counted them.
Calm(p) ==
  /\ p \notin crossed
  /\ \/ LiveOf(items', p) = LiveOf(items, p)
     \/ \A b \in Actors : call'[b] = call[b] => ~AtWork(b, p)

\* The lines that a block under way will retire are there before and after.
Kept(b) ==
  call[b].at = "commit" =>
    \A i \in items' : i.live /\ i.txn = call[b].txn /\ ~i.manual => i \in items

\* A product that is not crossed was calm, or its figures are right and no
\* call is at work on it.
LEMMA CalmOrRight ==
  ASSUME Watch, NEW p \in Products, p \notin crossed'
  PROVE  \/ Calm(p)
         \/ Explained(p)' /\ \A b \in Actors : Knows(call[b], p)'
PROOF
  <1>1. \/ ~ \/ p \in crossed
             \/ /\ LiveOf(items', p) # LiveOf(items, p)
                /\ \E b \in Actors : call'[b] = call[b] /\ AtWork(b, p)
        \/ catalog'[p].stats = Truth(items', p) /\ ~ \E b \in Actors : AtWork(b, p)'
    BY DEF Watch
  <1>2. CASE catalog'[p].stats = Truth(items', p) /\ ~ \E b \in Actors : AtWork(b, p)'
    <2>1. Explained(p)'
      BY <1>2 DEF Explained
    <2>2. ASSUME NEW b \in Actors PROVE Knows(call[b], p)'
      <3>1. ~ AtWork(b, p)'
        BY <1>2
      <3>. QED
        BY <3>1 DEF Knows, AtWork, Retires
    <2>. QED
      BY <2>1, <2>2
  <1>3. CASE ~ \/ p \in crossed
               \/ /\ LiveOf(items', p) # LiveOf(items, p)
                  /\ \E b \in Actors : call'[b] = call[b] /\ AtWork(b, p)
    BY <1>3 DEF Calm
  <1>. QED
    BY <1>1, <1>2, <1>3

\* Of a calm product a call that rests knows what it knew.
LEMMA OthersKnow ==
  ASSUME NEW p \in Products, Calm(p), NEW b \in Actors, call'[b] = call[b],
         Knows(call[b], p), Kept(b),
         items \in SUBSET Item, IsFiniteSet(items), items' \in SUBSET Item, IsFiniteSet(items')
  PROVE  Knows(call[b], p)'
PROOF
  <1>. DEFINE c == call[b]
  <1>1. CASE LiveOf(items', p) = LiveOf(items, p)
    <2>1. /\ Truth(items', p) = Truth(items, p)
          /\ Truth(After(items', c), p) = Truth(After(items, c), p)
          /\ HasLines(After(items', c), p) <=> HasLines(After(items, c), p)
      BY <1>1, SameFigures, SameAfter
    <2>. QED
      BY <1>1, <2>1 DEF Knows, Retires
  <1>2. CASE ~AtWork(b, p)
    <2>1. /\ ~ (c.at = "recount" /\ c.arg.product = p)
          /\ ~ (c.at = "move" /\ c.arg.from = p)
          /\ c.at = "commit" => c.arg.counts[p] = None /\ ~Retires(c, p)
      BY <1>2 DEF AtWork, Retires
    <2>2. c.at = "commit" => ~ \E i \in LiveOf(items', p) : i.txn = c.txn /\ ~i.manual
      BY <2>1 DEF Kept, Retires, LiveOf
    <2>. QED
      BY <2>1, <2>2 DEF Knows, Retires
  <1>. QED
    BY <1>1, <1>2 DEF Calm

\* What another step does to a request under way, it may know already.
LEMMA OthersFit ==
  ASSUME LineItemsInv, Onward, head' \in [Txns -> HeadRow],
         NEW b \in Actors, call'[b] = call[b]
  PROVE  CallFits(call[b])'
PROOF
  <1>1. /\ CallFits(call[b]) /\ call[b] \in CallRow
        /\ head \in [Txns -> HeadRow]
    BY DEF LineItemsInv, Typed
  <1>2. CASE call[b].at = "items"
    <2>1. /\ call[b].txn \in Txns /\ call[b].arg \in Wanted
          /\ call[b].arg.product # None => There(call[b].arg.product)
      BY <1>1, <1>2 DEF CallFits
    <2>2. call[b].arg.product \in Products \cup {None}
      BY <2>1 DEF Wanted
    <2>3. call[b].arg.product # None => catalog'[call[b].arg.product].state # "absent"
      BY <2>1, <2>2 DEF Onward, There
    <2>. QED
      BY <1>2, <2>1, <2>3 DEF CallFits, There, InBlock
  <1>3. CASE call[b].at = "patch"
    <2>. DEFINE t == call[b].txn  v == call[b].seen.version
    <2>1. /\ t \in Txns /\ call[b].seen \in HeadRow /\ v <= head[t].version
          /\ v = head[t].version => call[b].seen.edited = head[t].edited
      BY <1>1, <1>3 DEF CallFits
    <2>2. /\ head[t].version <= head'[t].version
          /\ head[t].version = head'[t].version => head'[t].edited = head[t].edited
      BY <2>1 DEF Onward
    <2>3. v \in Nat /\ head[t].version \in Nat /\ head'[t].version \in Nat
      BY <1>1, <2>1 DEF HeadRow
    <2>. HIDE DEF v
    <2>4. v <= head'[t].version
      BY <2>1, <2>2, <2>3
    <2>5. v = head'[t].version => call[b].seen.edited = head'[t].edited
      <3>1. v = head'[t].version => v = head[t].version /\ head[t].version = head'[t].version
        BY <2>1, <2>2, <2>3
      <3>. QED
        BY <2>1, <2>2, <3>1
    <2>. QED
      BY <1>1, <1>3, <2>1, <2>4, <2>5 DEF CallFits, v, InBlock
  <1>4. CASE call[b].at \in {"merge", "move"}
    <2>1. call[b].arg \in Merging /\ There(call[b].arg.to)
      BY <1>1, <1>4 DEF CallFits
    <2>2. call[b].arg.to \in Products
      BY <2>1 DEF Merging
    <2>3. There(call[b].arg.to)'
      BY <2>1, <2>2 DEF Onward, There
    <2>. QED
      BY <1>1, <1>4, <2>3 DEF CallFits, There, InBlock
  <1>5. CASE call[b].at \notin {"items", "patch", "merge", "move"}
    BY <1>1, <1>5 DEF CallFits, InBlock, LinesFit
  <1>. QED
    BY <1>2, <1>3, <1>4, <1>5

\* One request moves; the others fit and know as they did.
LEMMA CallMoves ==
  ASSUME LineItemsInv, Watch, Onward, head' \in [Txns -> HeadRow],
         items' \in SUBSET Item, IsFiniteSet(items'),
         NEW a \in Actors, NEW c \in CallRow, Go(a, c), CallFits(c)',
         InBlock(c) => \A b \in Actors \ {a} : InBlock(call[b]) => call[b].txn # c.txn,
         \A b \in Actors \ {a} : Kept(b),
         \A p \in Products : Calm(p) => Explained(p)' /\ Knows(c, p)'
  PROVE  /\ call' \in [Actors -> CallRow] /\ \A b \in Actors : CallFits(call[b])'
         /\ OneBlock'
         /\ \A p \in Products \ crossed' : Explained(p)' /\ \A b \in Actors : Knows(call[b], p)'
         /\ crossed' \subseteq Products
PROOF
  <1>1. /\ call \in [Actors -> CallRow] /\ items \in SUBSET Item /\ IsFiniteSet(items)
        /\ OneBlock
    BY DEF LineItemsInv, Typed
  <1>2. call'[a] = c /\ \A b \in Actors \ {a} : call'[b] = call[b]
    BY <1>1 DEF Go
  <1>3. ASSUME NEW b \in Actors PROVE CallFits(call[b])'
    <2>1. CASE b = a
      BY <1>2, <2>1 DEF CallFits, There
    <2>2. CASE b # a
      BY <1>2, <2>2, OthersFit
    <2>. QED
      BY <2>1, <2>2
  <1>4. OneBlock'
    BY <1>1, <1>2 DEF OneBlock
  <1>5. ASSUME NEW p \in Products, p \notin crossed'
        PROVE  Explained(p)' /\ \A b \in Actors : Knows(call[b], p)'
    <2>1. CASE Calm(p)
      <3>1. Explained(p)' /\ Knows(c, p)'
        BY <2>1
      <3>2. ASSUME NEW b \in Actors PROVE Knows(call[b], p)'
        <4>1. CASE b = a
          BY <1>2, <3>1, <4>1 DEF Knows, Retires
        <4>2. CASE b # a
          <5>1. Knows(call[b], p)
            BY <2>1 DEF Calm, LineItemsInv
          <5>. QED
            BY <1>1, <1>2, <2>1, <4>2, <5>1, OthersKnow
        <4>. QED
          BY <4>1, <4>2
      <3>. QED
        BY <3>1, <3>2
    <2>2. CASE ~ Calm(p)
      BY <1>5, <2>2, CalmOrRight
    <2>. QED
      BY <2>1, <2>2
  <1>6. crossed' \subseteq Products
    BY DEF Watch
  <1>. QED
    BY <1>1, <1>3, <1>4, <1>5, <1>6 DEF Go

\* A product whose lines and figures are what they were is as explained.
LEMMA StillExplained ==
  ASSUME Onward, NEW p \in Products, Explained(p),
         catalog'[p].stats = catalog[p].stats,
         LiveOf(items', p) = LiveOf(items, p)
  PROVE  Explained(p)'
PROOF
  <1>1. /\ Truth(items', p) = Truth(items, p)
        /\ HasLines(items', p) <=> HasLines(items, p)
        /\ (\E i \in items' : i.live /\ i.manual /\ i.product = p)
             <=> (\E i \in items : i.live /\ i.manual /\ i.product = p)
    BY SameFigures
  <1>2. (\E t \in Txns : head[t].state = "gone") => (\E t \in Txns : head'[t].state = "gone")
    BY DEF Onward
  <1>. QED
    BY <1>1, <1>2 DEF Explained

\* The same when neither the rows, the lines nor the catalogue change.
LEMMA NothingMoves ==
  ASSUME LineItemsInv, UNCHANGED <<head, items, catalog>>
  PROVE  /\ Onward /\ head' \in [Txns -> HeadRow]
         /\ items' \subseteq Item /\ IsFiniteSet(items')
         /\ catalog' \in [Products -> ProductRow]
         /\ ProductsAreThere' /\ ManualAreTop'
         /\ \A b \in Actors : Kept(b)
         /\ \A p \in Products : Calm(p) => Explained(p)'
PROOF
  <1>1. \A t \in Txns : head[t].version \in Nat
    BY DEF LineItemsInv, Typed, HeadRow
  <1>2. Onward
    BY <1>1 DEF Onward, There
  <1>3. ProductsAreThere' /\ ManualAreTop'
    BY DEF LineItemsInv, ProductsAreThere, There, ManualAreTop
  <1>4. \A p \in Products : Calm(p) => Explained(p)'
    BY DEF LineItemsInv, Calm, Explained
  <1>5. \A b \in Actors : Kept(b)
    BY DEF Kept
  <1>. QED
    BY <1>2, <1>3, <1>4, <1>5 DEF LineItemsInv, Typed

\* A request that only reads, reports, waits or gives up.
LEMMA OnlyTheCall ==
  ASSUME LineItemsInv, Watch, UNCHANGED <<head, items, catalog>>,
         NEW a \in Actors, NEW c \in CallRow, Go(a, c), CallFits(c),
         InBlock(c) => \A b \in Actors \ {a} : InBlock(call[b]) => call[b].txn # c.txn,
         \A p \in Products : Knows(c, p),
         told' \in [outcome : {"none", "written", "no_change"}, wrote : BOOLEAN],
         served' \in 0 .. MaxRequests
  PROVE  LineItemsInv'
PROOF
  <1>1. /\ Onward /\ head' \in [Txns -> HeadRow]
        /\ items' \subseteq Item /\ IsFiniteSet(items')
        /\ catalog' \in [Products -> ProductRow]
        /\ ProductsAreThere' /\ ManualAreTop'
        /\ \A b \in Actors : Kept(b)
        /\ \A p \in Products : Calm(p) => Explained(p)'
    BY NothingMoves
  <1>2. CallFits(c)'
    BY DEF CallFits, There, InBlock, LinesFit
  <1>3. \A p \in Products : Knows(c, p)'
    BY DEF Knows, Retires
  <1>4. /\ call' \in [Actors -> CallRow] /\ \A b \in Actors : CallFits(call[b])'
        /\ OneBlock'
        /\ \A p \in Products \ crossed' : Explained(p)' /\ \A b \in Actors : Knows(call[b], p)'
        /\ crossed' \subseteq Products
    BY <1>1, <1>2, <1>3, CallMoves
  <1>. QED
    BY <1>1, <1>4 DEF LineItemsInv, Typed

\* A request is counted within the bound.
LEMMA ServedFits ==
  ASSUME LineItemsInv, NEW a \in Actors, Begin(a)
  PROVE  served' \in 0 .. MaxRequests
PROOF
  BY LineItemsAssumption DEF LineItemsInv, Typed, Begin

\* Only a recount, a block that commits and a merge that moves know anything.
LEMMA IdleKnow ==
  ASSUME NEW c, c.at \notin {"recount", "commit", "move"}
  PROVE  \A p \in Products : Knows(c, p)
PROOF
  BY DEF Knows

\* A quiet actor, and what a re-extraction reads.
LEMMA CallTypes ==
  ASSUME LineItemsInv
  PROVE  /\ Quiet \in CallRow /\ CallFits(Quiet) /\ ~InBlock(Quiet)
         /\ \A p \in Products : Knows(Quiet, p)
         /\ \A t \in Txns : Snapshot(t) \in Shots /\ head[t] \in HeadRow
         /\ \A a \in Actors : call[a] \in CallRow /\ CallFits(call[a])
PROOF
  <1>1. Quiet \in CallRow /\ CallFits(Quiet) /\ ~InBlock(Quiet)
    BY DEF Quiet, CallRow, CallFits, InBlock
  <1>2. \A t \in Txns : head[t] \in HeadRow
    BY DEF LineItemsInv, Typed
  <1>3. \A t \in Txns : Snapshot(t) \in Shots
    BY <1>2 DEF Snapshot, Shots, HeadRow, Values
  <1>4. \A p \in Products : Knows(Quiet, p)
    BY DEF Knows, Quiet
  <1>. QED
    BY <1>1, <1>2, <1>3, <1>4 DEF LineItemsInv, Typed

\* The readings of the requests, and the agent's last report.
LEMMA ReadsStep ==
  ASSUME LineItemsInv, Watch, NEW a \in Actors,
         \/ BeginReExtract(a) \/ WriteNothing(a) \/ FinishReExtract(a) \/ FailBlock(a)
         \/ ReadItems(a) \/ ReadForUpdate(a) \/ ReadForMerge(a) \/ Abort(a)
  PROVE  LineItemsInv'
PROOF
  <1>t. /\ call[a] \in CallRow /\ CallFits(call[a])
        /\ told \in [outcome : {"none", "written", "no_change"}, wrote : BOOLEAN]
        /\ served \in 0 .. MaxRequests
        /\ head \in [Txns -> HeadRow] /\ items \in SUBSET Item /\ IsFiniteSet(items)
    BY CallTypes DEF LineItemsInv, Typed
  \* A call of a kind that holds nothing.
  <1>q. ASSUME NEW c \in CallRow, Go(a, c), CallFits(c),
               c.at \notin {"recount", "insert", "commit", "move"},
               UNCHANGED <<head, items, catalog>>,
               told' \in [outcome : {"none", "written", "no_change"}, wrote : BOOLEAN],
               served' \in 0 .. MaxRequests
        PROVE  LineItemsInv'
    <2>1. \A p \in Products : Knows(c, p)
      BY <1>q, IdleKnow
    <2>2. ~InBlock(c)
      BY <1>q DEF InBlock
    <2>. QED
      BY <1>q, <2>1, <2>2, OnlyTheCall
  <1>1. CASE BeginReExtract(a)
    <2>1. PICK t \in Txns :
            /\ Begin(a)
            /\ Go(a, [Quiet EXCEPT !.at = "agent", !.txn = t, !.seen = Snapshot(t)])
            /\ UNCHANGED <<head, items, catalog, told>>
      BY <1>1 DEF BeginReExtract
    <2>. DEFINE c == [Quiet EXCEPT !.at = "agent", !.txn = t, !.seen = Snapshot(t)]
    <2>2. c \in CallRow
      BY CallTypes DEF CallRow
    <2>3. c.at = "agent" /\ c.txn = t
      BY DEF Quiet
    <2>4. CallFits(c)
      BY <2>3 DEF CallFits, InBlock
    <2>. HIDE DEF c
    <2>. QED
      BY <1>t, <1>q, <2>1, <2>2, <2>3, <2>4, ServedFits DEF c
  <1>2. CASE WriteNothing(a)
    <2>. DEFINE c == [call[a] EXCEPT !.at = "after"]
    <2>1. /\ c \in CallRow /\ c.at = "after" /\ c.txn = call[a].txn
          /\ call[a].at = "agent"
      BY <1>t, <1>2 DEF CallRow, WriteNothing
    <2>2. CallFits(c)
      BY <1>t, <2>1 DEF CallFits, InBlock
    <2>3. Go(a, c) /\ UNCHANGED <<head, items, catalog, told, served>>
      BY <1>2 DEF WriteNothing
    <2>. HIDE DEF c
    <2>. QED
      BY <1>t, <1>q, <2>1, <2>2, <2>3
  <1>3. CASE FinishReExtract(a)
    <2>1. /\ Go(a, Quiet) /\ UNCHANGED <<head, items, catalog, served>>
          /\ told' = [outcome |-> IF Snapshot(call[a].txn) = call[a].seen
                                  THEN "no_change" ELSE "written",
                      wrote |-> call[a].wrote]
      BY <1>3 DEF FinishReExtract, Hang
    <2>2. told' \in [outcome : {"none", "written", "no_change"}, wrote : BOOLEAN]
      BY <1>t, <2>1 DEF CallRow
    <2>. QED
      BY <1>t, <2>1, <2>2, OnlyTheCall, CallTypes
  <1>4. CASE ReadItems(a)
    <2>1. PICK t \in Txns, line \in Lines \cup {0}, p \in Products \cup {None} :
            LET live == Live(items, t)
            IN  /\ Begin(a) /\ head[t].state = "kept"
                /\ p # None => catalog[p].state # "absent"
                /\ Go(a, [Quiet EXCEPT !.at = "items", !.txn = t,
                     !.arg = [line    |-> IF line # 0 THEN line
                                          ELSE Greatest({i.line : i \in live}, 0) + 1,
                              run     |-> Greatest({i.run : i \in live}, 1),
                              product |-> p]])
                /\ UNCHANGED <<head, items, catalog, told>>
      BY <1>4 DEF ReadItems
    <2>. DEFINE l == Greatest({i.line : i \in Live(items, t)}, 0)
               w == [line    |-> IF line # 0 THEN line ELSE l + 1,
                     run     |-> Greatest({i.run : i \in Live(items, t)}, 1),
                     product |-> p]
               c == [Quiet EXCEPT !.at = "items", !.txn = t, !.arg = w]
    <2>2. l \in Nat /\ Greatest({i.run : i \in Live(items, t)}, 1) \in Nat
      BY <1>t, GreatestLine
    <2>3. line \in Nat
      BY LineItemsAssumption
    <2>4. w \in Wanted /\ w.product = p
      <3>. HIDE DEF l
      <3>1. (IF line # 0 THEN line ELSE l + 1) \in Nat
        BY <2>2, <2>3
      <3>. QED
        BY <2>2, <3>1 DEF Wanted
    <2>5. Go(a, c) /\ Begin(a) /\ UNCHANGED <<head, items, catalog, told>>
      BY <2>1
    <2>6. p # None => There(p)
      BY <2>1 DEF There
    <2>. HIDE DEF w
    <2>7. c \in CallRow /\ c.at = "items" /\ c.txn = t /\ c.arg = w
      BY <2>4, CallTypes DEF CallRow, Quiet
    <2>8. CallFits(c)
      BY <2>4, <2>6, <2>7 DEF CallFits, InBlock
    <2>. HIDE DEF c
    <2>. QED
      BY <1>t, <1>q, <2>5, <2>7, <2>8, ServedFits
  <1>5. CASE ReadForUpdate(a)
    <2>1. PICK t \in Txns, body \in Patches :
            /\ Begin(a)
            /\ Go(a, [Quiet EXCEPT !.at = "patch", !.txn = t, !.seen = head[t], !.arg = body])
            /\ UNCHANGED <<head, items, catalog, told>>
      BY <1>5 DEF ReadForUpdate
    <2>. DEFINE c == [Quiet EXCEPT !.at = "patch", !.txn = t, !.seen = head[t], !.arg = body]
    <2>2. head[t] \in HeadRow /\ head[t].version \in Nat
      BY CallTypes DEF HeadRow
    <2>3. /\ c \in CallRow /\ c.at = "patch" /\ c.txn = t /\ c.arg = body
          /\ c.seen = head[t]
      BY <2>2, CallTypes DEF CallRow, Quiet
    <2>4. CallFits(c)
      BY <2>2, <2>3 DEF CallFits, InBlock
    <2>. HIDE DEF c
    <2>. QED
      BY <1>t, <1>q, <2>1, <2>3, <2>4, ServedFits DEF c
  <1>6. CASE ReadForMerge(a)
    <2>1. PICK p \in Products, q \in Products :
            /\ Begin(a) /\ p # q
            /\ catalog[p].state = "listed" /\ catalog[q].state # "absent"
            /\ Go(a, [Quiet EXCEPT !.at = "merge", !.arg = [from |-> p, to |-> q, rows |-> {}]])
            /\ UNCHANGED <<head, items, catalog, told>>
      BY <1>6 DEF ReadForMerge
    <2>. DEFINE m == [from |-> p, to |-> q, rows |-> {}]
               c == [Quiet EXCEPT !.at = "merge", !.arg = m]
    <2>2. m \in Merging /\ m.from = p /\ m.to = q
      BY DEF Merging
    <2>3. Go(a, c)
      BY <2>1
    <2>. HIDE DEF m
    <2>4. c \in CallRow /\ c.at = "merge" /\ c.arg = m
      BY <2>2, CallTypes DEF CallRow, Quiet
    <2>5. CallFits(c)
      BY <2>1, <2>2, <2>4 DEF CallFits, There, InBlock
    <2>. HIDE DEF c
    <2>. QED
      BY <1>t, <1>q, <2>1, <2>3, <2>4, <2>5, ServedFits
  <1>7. CASE Abort(a)
    BY <1>t, <1>7, OnlyTheCall, CallTypes DEF Abort, Hang
  <1>8. CASE FailBlock(a)
    <2>. DEFINE c == [call[a] EXCEPT !.at = "agent", !.arg = None]
    <2>1. /\ c \in CallRow /\ c.at = "agent" /\ c.txn = call[a].txn
          /\ call[a].at \in {"insert", "commit"}
      BY <1>t, <1>8 DEF CallRow, FailBlock
    <2>2. CallFits(c)
      BY <1>t, <2>1 DEF CallFits, InBlock
    <2>3. Go(a, c) /\ UNCHANGED <<head, items, catalog, told, served>>
      BY <1>8 DEF FailBlock
    <2>. HIDE DEF c
    <2>. QED
      BY <1>t, <1>q, <2>1, <2>2, <2>3
  <1>. QED
    BY <1>1, <1>2, <1>3, <1>4, <1>5, <1>6, <1>7, <1>8

\* A block that is opened takes its lines, and has counted nothing.
LEMMA OpenStep ==
  ASSUME LineItemsInv, Watch, NEW a \in Actors, OpenBlock(a)
  PROVE  LineItemsInv'
PROOF
  <1>. DEFINE t == call[a].txn
             run == Greatest({i.run : i \in Of(items, t)}, 0) + 1
  <1>t. /\ call[a] \in CallRow /\ CallFits(call[a]) /\ call[a].at = "agent"
        /\ told \in [outcome : {"none", "written", "no_change"}, wrote : BOOLEAN]
        /\ served \in 0 .. MaxRequests
        /\ items \in SUBSET Item /\ IsFiniteSet(items)
        /\ t \in Txns /\ ~Writing(t)
        /\ UNCHANGED <<head, items, catalog, told, served>>
    BY CallTypes DEF LineItemsInv, Typed, OpenBlock, CallFits
  <1>1. PICK reading \in Readings :
          Go(a, [call[a] EXCEPT !.at = "insert", !.arg =
                   [lines  |-> Numbered(items, t, reading, run),
                    off    |-> ManualOffset(items, t),
                    kept   |-> head[t].state = "kept",
                    counts |-> Counted(items, {})]])
    BY DEF OpenBlock
  <1>2. run \in Nat
    <2>1. Greatest({i.run : i \in Of(items, t)}, 0) \in Nat
      BY <1>t, GreatestLine
    <2>. QED
      BY <2>1
  <1>. HIDE DEF run
  <1>. DEFINE new == Numbered(items, t, reading, run)
             off == ManualOffset(items, t)
             counts == Counted(items, {})
             kept == head[t].state = "kept"
  <1>3. /\ new \subseteq Item /\ IsFiniteSet(new)
        /\ \A i \in new : i.txn = t /\ i.line > off /\ i.run = run /\ i.live /\ ~ i.manual
        /\ \A i, j \in new : i.line = j.line => i = j
        /\ \A i \in new : i.parent # 0 => \E j \in new : j.line = i.parent
    BY <1>t, <1>2, NumberedFits
  <1>4. off \in Nat
    BY <1>t, OffsetIs
  <1>5. counts \in [Products -> Stats \cup {None}]
    BY <1>t, CountedFits
  <1>6. kept \in BOOLEAN
    OBVIOUS
  <1>. HIDE DEF new, off, counts, kept
  <1>7. PICK m \in Block : m = [lines |-> new, off |-> off, kept |-> kept, counts |-> counts]
    BY <1>3, <1>4, <1>5, <1>6 DEF Block
  <1>8. PICK c \in CallRow : Go(a, c) /\ c.at = "insert" /\ c.txn = t /\ c.arg = m
    <2>1. Go(a, [call[a] EXCEPT !.at = "insert", !.arg = m])
      BY <1>1, <1>7 DEF new, off, counts, kept
    <2>2. [call[a] EXCEPT !.at = "insert", !.arg = m] \in CallRow
      BY <1>t DEF CallRow
    <2>. QED
      BY <1>t, <2>1, <2>2 DEF CallRow
  <1>9. LinesFit(c)
    BY <1>3, <1>7, <1>8 DEF LinesFit
  <1>10. CallFits(c)
    BY <1>t, <1>8, <1>9 DEF CallFits, InBlock
  <1>11. \A p \in Products : Knows(c, p)
    BY <1>8, IdleKnow
  <1>12. \A b \in Actors \ {a} : InBlock(call[b]) => call[b].txn # c.txn
    BY <1>t, <1>8 DEF Writing, InBlock
  <1>. QED
    BY <1>t, <1>8, <1>10, <1>11, <1>12, OnlyTheCall

\* The block then counts what it will leave: of the products of its lines and
\* of those it retires, all that have a live line after it.
LEMMA InsertStep ==
  ASSUME LineItemsInv, Watch, NEW a \in Actors, InsertLines(a)
  PROVE  LineItemsInv'
PROOF
  <1>. DEFINE t == call[a].txn
             its == After(items, call[a])
             counts == Counted(its, Touched(its, t))
  <1>t. /\ call[a] \in CallRow /\ CallFits(call[a]) /\ call[a].at = "insert"
        /\ told \in [outcome : {"none", "written", "no_change"}, wrote : BOOLEAN]
        /\ served \in 0 .. MaxRequests
        /\ items \in SUBSET Item /\ IsFiniteSet(items) /\ OneBlock
        /\ t \in Txns
        /\ UNCHANGED <<head, items, catalog, told, served>>
    BY CallTypes DEF LineItemsInv, Typed, InsertLines, CallFits
  <1>1. call[a].arg \in Block /\ LinesFit(call[a])
    BY <1>t DEF CallFits, InBlock
  <1>2. its \in SUBSET Item /\ IsFiniteSet(its)
    <2>1. Retired(items, t) \subseteq Item /\ IsFiniteSet(Retired(items, t))
      BY <1>t, RetiredFits
    <2>. QED
      BY <1>1, <2>1, FS_Union DEF After, Block, LinesFit
  <1>3. /\ counts \in [Products -> Stats \cup {None}]
        /\ \A p \in Products :
             /\ counts[p] # None => counts[p] = Truth(its, p)
             /\ p \in Touched(its, t) /\ HasLines(its, p) => counts[p] # None
    BY <1>2, CountedFits
  <1>4. \A i \in call[a].arg.lines :
          i.product # None => i.product \in Touched(its, t) /\ HasLines(its, i.product)
    BY <1>1 DEF LinesFit, After, Touched, Of, HasLines
  <1>5. ASSUME NEW p \in Products, \E i \in LiveOf(items, p) : i.txn = t /\ ~i.manual
        PROVE  p \in Touched(its, t)
    <2>1. PICK i \in items : i.product = p /\ i.txn = t
      BY <1>5 DEF LiveOf
    <2>2. PICK j \in Retired(items, t) : j.txn = i.txn /\ j.product = i.product
      BY <1>t, RetiredFits
    <2>3. p # None
      BY LineItemsAssumption
    <2>. QED
      BY <2>1, <2>2, <2>3 DEF After, Touched, Of
  <1>. HIDE DEF counts
  <1>6. PICK m \in Block : /\ m = [call[a].arg EXCEPT !.counts = counts]
                           /\ m.counts = counts /\ m.lines = call[a].arg.lines
                           /\ m.off = call[a].arg.off
    <2>. DEFINE o == call[a].arg
    <2>1. /\ o = [lines |-> o.lines, off |-> o.off, kept |-> o.kept, counts |-> o.counts]
          /\ o.lines \in SUBSET Item /\ o.off \in Nat /\ o.kept \in BOOLEAN
      BY <1>1 DEF Block
    <2>. HIDE DEF o
    <2>2. [o EXCEPT !.counts = counts] =
            [lines |-> o.lines, off |-> o.off, kept |-> o.kept, counts |-> counts]
      BY <2>1
    <2>3. [lines |-> o.lines, off |-> o.off, kept |-> o.kept, counts |-> counts] \in Block
      BY <1>3, <2>1 DEF Block
    <2>. QED
      BY <2>2, <2>3 DEF o
  <1>7. PICK c \in CallRow : Go(a, c) /\ c.at = "commit" /\ c.txn = t /\ c.arg = m
    <2>1. Go(a, [call[a] EXCEPT !.at = "commit", !.arg = m])
      <3>1. Go(a, [call[a] EXCEPT !.at = "commit", !.arg.counts = counts])
        BY DEF InsertLines, counts
      <3>. QED
        BY <1>t, <1>6, <3>1 DEF CallRow
    <2>2. [call[a] EXCEPT !.at = "commit", !.arg = m] \in CallRow
      BY <1>t DEF CallRow
    <2>. QED
      BY <1>t, <2>1, <2>2 DEF CallRow
  <1>8. After(items, c) = its
    BY <1>6, <1>7 DEF After
  <1>. HIDE DEF its
  <1>9. LinesFit(c)
    BY <1>1, <1>6, <1>7 DEF LinesFit
  <1>10. \A i \in c.arg.lines : i.product # None => c.arg.counts[i.product] # None
    <2>. SUFFICES ASSUME NEW i \in call[a].arg.lines, i.product # None
                  PROVE  counts[i.product] # None
      BY <1>6, <1>7
    <2>1. i.product \in Products
      BY <1>1 DEF Block, Item
    <2>. QED
      BY <1>3, <1>4, <2>1
  <1>11. CallFits(c)
    BY <1>t, <1>7, <1>9, <1>10 DEF CallFits, InBlock
  <1>12. ASSUME NEW p \in Products PROVE Knows(c, p)
    <2>1. c.arg.counts[p] # None => c.arg.counts[p] = Truth(After(items, c), p)
      BY <1>3, <1>6, <1>7, <1>8
    <2>2. c.arg.counts[p] = None /\ Retires(c, p) => ~HasLines(After(items, c), p)
      <3>. SUFFICES ASSUME counts[p] = None, Retires(c, p) PROVE ~HasLines(its, p)
        BY <1>6, <1>7, <1>8
      <3>1. p \in Touched(its, t)
        BY <1>5, <1>7 DEF Retires
      <3>. QED
        BY <1>3, <3>1
    <2>. QED
      BY <1>7, <2>1, <2>2 DEF Knows
  <1>13. \A b \in Actors \ {a} : InBlock(call[b]) => call[b].txn # c.txn
    BY <1>t, <1>7 DEF OneBlock, InBlock
  <1>. QED
    BY <1>t, <1>7, <1>11, <1>12, <1>13, OnlyTheCall

\* A recount knows the figures, a merge the rows, of the moment.
LEMMA CountStep ==
  ASSUME LineItemsInv, Watch, NEW a \in Actors, CountLines(a) \/ FindLines(a)
  PROVE  LineItemsInv'
PROOF
  <1>t. /\ call[a] \in CallRow /\ CallFits(call[a])
        /\ told \in [outcome : {"none", "written", "no_change"}, wrote : BOOLEAN]
        /\ served \in 0 .. MaxRequests
        /\ items \in SUBSET Item /\ IsFiniteSet(items)
    BY CallTypes DEF LineItemsInv, Typed
  <1>1. CASE CountLines(a)
    <2>1. PICK p \in Products :
            /\ Begin(a)
            /\ Go(a, [Quiet EXCEPT !.at = "recount",
                                   !.arg = [product |-> p, stats |-> Truth(items, p)]])
            /\ UNCHANGED <<head, items, catalog, told>>
      BY <1>1 DEF CountLines
    <2>2. PICK m \in Recount : m = [product |-> p, stats |-> Truth(items, p)]
      BY <1>t, TruthType DEF Recount
    <2>3. PICK c \in CallRow : Go(a, c) /\ c.at = "recount" /\ c.arg = m
      <3>1. [Quiet EXCEPT !.at = "recount", !.arg = m] \in CallRow
        BY CallTypes DEF CallRow
      <3>. QED
        BY <2>1, <2>2, <3>1 DEF Quiet
    <2>4. CallFits(c) /\ ~InBlock(c)
      BY <2>3 DEF CallFits, InBlock
    <2>5. \A r \in Products : Knows(c, r)
      BY <2>2, <2>3 DEF Knows
    <2>. QED
      BY <1>t, <2>1, <2>3, <2>4, <2>5, OnlyTheCall, ServedFits
  <1>2. CASE FindLines(a)
    <2>. DEFINE rows == {Key(i) : i \in {j \in items : j.product = call[a].arg.from}}
    <2>1. /\ call[a].at = "merge"
          /\ Go(a, [call[a] EXCEPT !.at = "move", !.arg.rows = rows])
          /\ UNCHANGED <<head, items, catalog, told, served>>
      BY <1>2 DEF FindLines
    <2>2. /\ call[a].arg \in Merging /\ call[a].arg.from # call[a].arg.to
          /\ There(call[a].arg.to)
      BY <1>t, <2>1 DEF CallFits
    <2>3. rows \in SUBSET (Txns \X Nat \X Nat)
      BY <1>t DEF Key, Item
    <2>4. \A i \in items : i.product = call[a].arg.from => Key(i) \in rows
      OBVIOUS
    <2>. HIDE DEF rows
    <2>5. PICK m \in Merging :
            /\ m = [call[a].arg EXCEPT !.rows = rows]
            /\ m.rows = rows /\ m.from = call[a].arg.from /\ m.to = call[a].arg.to
      <3>. DEFINE o == call[a].arg
      <3>1. /\ o = [from |-> o.from, to |-> o.to, rows |-> o.rows]
            /\ o.from \in Products /\ o.to \in Products
        BY <2>2 DEF Merging
      <3>. HIDE DEF o
      <3>2. [o EXCEPT !.rows = rows] = [from |-> o.from, to |-> o.to, rows |-> rows]
        BY <3>1
      <3>3. [from |-> o.from, to |-> o.to, rows |-> rows] \in Merging
        BY <2>3, <3>1 DEF Merging
      <3>. QED
        BY <3>2, <3>3 DEF o
    <2>6. PICK c \in CallRow : Go(a, c) /\ c.at = "move" /\ c.arg = m
      <3>1. [call[a] EXCEPT !.at = "move", !.arg = m] \in CallRow
        BY <1>t DEF CallRow
      <3>2. Go(a, [call[a] EXCEPT !.at = "move", !.arg = m])
        BY <1>t, <2>1, <2>5 DEF CallRow
      <3>. QED
        BY <1>t, <3>1, <3>2 DEF CallRow
    <2>7. CallFits(c) /\ ~InBlock(c)
      BY <2>2, <2>5, <2>6 DEF CallFits, InBlock
    <2>8. \A r \in Products : Knows(c, r)
      BY <2>4, <2>5, <2>6 DEF Knows, LiveOf
    <2>. QED
      BY <1>t, <2>1, <2>6, <2>7, <2>8, OnlyTheCall
  <1>. QED
    BY <1>1, <1>2

\* Requests on products: rows come and change, and a recount of a product
\* that is still calm is right.
LEMMA ProductsStep ==
  ASSUME LineItemsInv, Watch, NEW a \in Actors,
         CreateProduct(a) \/ UpdateProduct(a) \/ RecomputeProductStats(a)
  PROVE  LineItemsInv'
PROOF
  <1>t. /\ Typed /\ UNCHANGED <<head, items, told>> /\ served' \in 0 .. MaxRequests
        /\ ProductsAreThere /\ Go(a, Quiet)
    <2>1. Typed /\ ProductsAreThere /\ UNCHANGED <<head, items, told>>
      BY DEF LineItemsInv, CreateProduct, UpdateProduct, RecomputeProductStats
    <2>2. CASE CreateProduct(a) \/ UpdateProduct(a)
      <3>1. Begin(a) /\ UNCHANGED call /\ call[a] = Quiet
        BY <2>2 DEF CreateProduct, UpdateProduct, Begin
      <3>2. Go(a, Quiet)
        BY <2>1, <3>1 DEF Go, Typed
      <3>. QED
        BY <2>1, <3>1, <3>2, ServedFits
    <2>3. CASE RecomputeProductStats(a)
      BY <2>1, <2>3 DEF RecomputeProductStats, Hang, Typed
    <2>. QED
      BY <2>2, <2>3
  <1>1. ASSUME NEW p \in Products, NEW row \in ProductRow,
               catalog' = [catalog EXCEPT ![p] = row],
               There(p) => row.state # "absent",
               \/ row.stats = catalog[p].stats
               \/ Calm(p) => row.stats = Truth(items, p)
               \/ ~ There(p)
        PROVE  LineItemsInv'
    <2>1. /\ catalog' \in [Products -> ProductRow]
          /\ catalog'[p] = row
          /\ \A q \in Products \ {p} : catalog'[q] = catalog[q]
      BY <1>1, <1>t DEF Typed
    <2>2. Onward
      <3>1. \A t \in Txns : head[t].version \in Nat
        BY <1>t DEF Typed, HeadRow
      <3>. QED
        BY <1>1, <1>t, <2>1, <3>1 DEF Onward, There
    <2>3. ASSUME NEW q \in Products, Calm(q) PROVE Explained(q)'
      <3>0. Explained(q)
        BY <2>3 DEF Calm, LineItemsInv
      <3>1. CASE catalog'[q].stats = catalog[q].stats
        BY <1>t, <2>2, <3>0, <3>1, StillExplained
      <3>2. CASE q = p /\ row.stats = Truth(items, p)
        BY <1>t, <2>1, <3>2 DEF Explained
      <3>3. CASE q = p /\ ~ There(p)
        <4>1. ~ HasLines(items, p)
          BY <1>t, <3>3, LineItemsAssumption DEF HasLines, ProductsAreThere
        <4>. QED
          BY <1>t, <3>3, <4>1 DEF Explained
      <3>. QED
        BY <1>1, <2>1, <2>3, <3>1, <3>2, <3>3
    <2>4. /\ CallFits(Quiet)' /\ ~InBlock(Quiet)
          /\ \A q \in Products : Knows(Quiet, q)'
      BY DEF CallFits, Quiet, InBlock, Knows
    <2>5. \A b \in Actors : Kept(b)
      BY <1>t DEF Kept
    <2>6. /\ call' \in [Actors -> CallRow] /\ \A b \in Actors : CallFits(call[b])'
          /\ OneBlock'
          /\ \A q \in Products \ crossed' : Explained(q)' /\ \A b \in Actors : Knows(call[b], q)'
          /\ crossed' \subseteq Products
      BY <1>t, <2>2, <2>3, <2>4, <2>5, CallTypes, CallMoves DEF Typed
    <2>7. ProductsAreThere' /\ ManualAreTop'
      <3>1. \A i \in items : i.product \in Products \cup {None}
        BY <1>t DEF Typed, Item
      <3>2. \A i \in items : i.product # None => There(i.product)'
        BY <1>t, <2>2, <3>1 DEF ProductsAreThere, Onward
      <3>. QED
        BY <1>t, <3>2 DEF LineItemsInv, ProductsAreThere, ManualAreTop
    <2>. QED
      BY <1>t, <2>1, <2>6, <2>7 DEF LineItemsInv, Typed
  <1>2. CASE CreateProduct(a)
    <2>1. PICK p \in Products :
            /\ catalog[p].state = "absent"
            /\ catalog' = [catalog EXCEPT ![p] = [state |-> "listed", stats |-> Nothing]]
      BY <1>2 DEF CreateProduct
    <2>. DEFINE row == [state |-> "listed", stats |-> Nothing]
    <2>2. row \in ProductRow /\ row.state # "absent" /\ ~ There(p)
      BY <2>1 DEF ProductRow, Stats, Nothing, There
    <2>. HIDE DEF row
    <2>. QED
      BY <1>1, <2>1, <2>2 DEF row
  <1>3. CASE UpdateProduct(a)
    <2>1. PICK p \in Products :
            catalog' = [catalog EXCEPT ![p].state = IF @ = "listed" THEN "retired"
                                                   ELSE "listed"]
      BY <1>3 DEF UpdateProduct
    <2>. DEFINE row == [catalog[p] EXCEPT !.state = IF @ = "listed" THEN "retired"
                                                   ELSE "listed"]
    <2>2. row \in ProductRow /\ row.state # "absent" /\ row.stats = catalog[p].stats
      BY <1>t DEF Typed, ProductRow
    <2>3. catalog' = [catalog EXCEPT ![p] = row]
      BY <2>1
    <2>. HIDE DEF row
    <2>. QED
      BY <1>1, <2>2, <2>3
  <1>4. CASE RecomputeProductStats(a)
    <2>. DEFINE p == call[a].arg.product
    <2>1. /\ call[a].at = "recount"
          /\ catalog' = [catalog EXCEPT ![p].stats = call[a].arg.stats]
      BY <1>4 DEF RecomputeProductStats
    <2>2. p \in Products /\ call[a].arg.stats \in Stats
      BY <2>1, CallTypes DEF CallFits, Recount
    <2>3. Calm(p) => call[a].arg.stats = Truth(items, p)
      BY <2>1, <2>2 DEF Calm, LineItemsInv, Knows
    <2>. DEFINE row == [catalog[p] EXCEPT !.stats = call[a].arg.stats]
    <2>4. row \in ProductRow /\ row.state = catalog[p].state /\ row.stats = call[a].arg.stats
      BY <1>t, <2>2 DEF Typed, ProductRow
    <2>5. catalog' = [catalog EXCEPT ![p] = row]
      BY <2>1
    <2>. HIDE DEF row
    <2>. QED
      BY <1>1, <2>2, <2>3, <2>4, <2>5 DEF There
  <1>. QED
    BY <1>2, <1>3, <1>4

\* A line typed by hand is not counted, and the product it is of is there.
LEMMA AddStep ==
  ASSUME LineItemsInv, Watch, NEW a \in Actors, AddTransactionItems(a)
  PROVE  LineItemsInv'
PROOF
  <1>. DEFINE t == call[a].txn
             w == call[a].arg
             new == [txn |-> t, line |-> w.line, parent |-> 0, run |-> w.run,
                     manual |-> TRUE, live |-> TRUE, product |-> w.product]
  <1>t. /\ Typed /\ ProductsAreThere /\ ManualAreTop
        /\ UNCHANGED <<head, catalog, told, served>>
        /\ Go(a, Quiet) /\ items' = items \cup {new}
        /\ t \in Txns /\ w \in Wanted /\ (w.product # None => There(w.product))
    BY CallTypes DEF LineItemsInv, AddTransactionItems, Hang, CallFits
  <1>1. /\ new \in Item /\ new.manual /\ new.live /\ new.parent = 0
        /\ new.product = w.product
    BY <1>t DEF Item, Wanted
  <1>. HIDE DEF new
  <1>2. items' \subseteq Item /\ IsFiniteSet(items')
    BY <1>t, <1>1, FS_AddElement DEF Typed
  <1>3. Onward
    <2>1. \A u \in Txns : head[u].version \in Nat
      BY <1>t DEF Typed, HeadRow
    <2>. QED
      BY <1>t, <2>1 DEF Onward, There
  <1>4. /\ CallFits(Quiet)' /\ ~InBlock(Quiet)
        /\ \A q \in Products : Knows(Quiet, q)'
    BY DEF CallFits, Quiet, InBlock, Knows
  <1>5. \A b \in Actors : Kept(b)
    BY <1>t, <1>1 DEF Kept
  <1>6. ProductsAreThere' /\ ManualAreTop'
    BY <1>t, <1>1 DEF ProductsAreThere, ManualAreTop, There
  <1>7. ASSUME NEW p \in Products, Calm(p) PROVE Explained(p)'
    <2>1. CASE new.product = p
      BY <1>t, <1>1, <2>1 DEF Explained
    <2>2. CASE new.product # p
      <3>1. LiveOf(items', p) = LiveOf(items, p)
        BY <1>t, <2>2 DEF LiveOf
      <3>2. Explained(p)
        BY <1>7 DEF Calm, LineItemsInv
      <3>. QED
        BY <1>t, <1>3, <3>1, <3>2, StillExplained
    <2>. QED
      BY <2>1, <2>2
  <1>8. /\ call' \in [Actors -> CallRow] /\ \A b \in Actors : CallFits(call[b])'
        /\ OneBlock'
        /\ \A q \in Products \ crossed' : Explained(q)' /\ \A b \in Actors : Knows(call[b], q)'
        /\ crossed' \subseteq Products
    BY <1>t, <1>2, <1>3, <1>4, <1>5, <1>7, CallTypes, CallMoves DEF Typed
  <1>. QED
    BY <1>t, <1>2, <1>6, <1>8 DEF LineItemsInv, Typed

\* A patch writes the marks it read or was given, and gives the row a new
\* version.
LEMMA PatchStep ==
  ASSUME LineItemsInv, Watch, NEW a \in Actors, UpdateTransaction(a)
  PROVE  /\ LineItemsInv'
         /\ \A u \in Txns \ {call[a].txn} : head'[u] = head[u]
         /\ head'[call[a].txn].edited = MarksWritten(call[a].seen, call[a].arg)
         /\ \A f \in Fields : head'[call[a].txn].value[f] \in {"typed", head[call[a].txn].value[f]}
PROOF
  <1>. DEFINE t == call[a].txn  body == call[a].arg  seen == call[a].seen
             v == [f \in Fields |-> IF f \in body.fields THEN "typed" ELSE head[t].value[f]]
             e == MarksWritten(seen, body)
             s == IF body.meta = "bare" THEN 0 ELSE seen.stamp
  <1>t. /\ Typed /\ ProductsAreThere /\ ManualAreTop
        /\ UNCHANGED <<items, catalog, told, served>> /\ Go(a, Quiet)
        /\ t \in Txns /\ body \in Patches /\ seen \in HeadRow /\ head[t] \in HeadRow
    BY CallTypes DEF LineItemsInv, UpdateTransaction, Hang, CallFits
  <1>1. head' = [head EXCEPT ![t].value = [f \in Fields |-> IF f \in body.fields THEN "typed"
                                                           ELSE @[f]],
                             ![t].edited = e, ![t].stamp = s, ![t].version = @ + 1]
    BY DEF UpdateTransaction
  <1>2. v \in Values /\ \A g \in Fields : v[g] \in {"typed", head[t].value[g]}
    BY <1>t DEF HeadRow, Values
  <1>3. e \in SUBSET Fields
    <2>1. body.fields \in SUBSET Fields /\ body.marks \in SUBSET Fields
      BY <1>t DEF Patches
    <2>2. seen.edited \in SUBSET Fields
      BY <1>t DEF HeadRow
    <2>. QED
      BY <2>1, <2>2 DEF MarksWritten
  <1>4. s \in Nat /\ head[t].version + 1 \in Nat /\ head[t].version \in Nat
    BY <1>t DEF HeadRow
  <1>5. PICK row \in HeadRow :
          /\ row = [state |-> head[t].state, value |-> v, edited |-> e, stamp |-> s,
                    text |-> head[t].text, version |-> head[t].version + 1]
          /\ row.version = head[t].version + 1 /\ row.state = head[t].state
          /\ row.edited = e /\ row.value = v
    <2>. HIDE DEF v, e, s
    <2>1. [state |-> head[t].state, value |-> v, edited |-> e, stamp |-> s,
           text |-> head[t].text, version |-> head[t].version + 1] \in HeadRow
      BY <1>t, <1>2, <1>3, <1>4 DEF HeadRow, Values
    <2>. QED
      BY <2>1
  <1>6. head' = [head EXCEPT ![t] = row]
    <2>. DEFINE h == head[t]
    <2>1. h = [state |-> h.state, value |-> h.value, edited |-> h.edited, stamp |-> h.stamp,
               text |-> h.text, version |-> h.version]
      BY <1>t DEF HeadRow
    <2>2. head \in [Txns -> HeadRow]
      BY <1>t DEF Typed
    <2>. HIDE DEF e, s
    <2>3. head' = [head EXCEPT ![t] = [[[[h EXCEPT !.value = v] EXCEPT !.edited = e]
                                         EXCEPT !.stamp = s] EXCEPT !.version = h.version + 1]]
      BY <1>t, <1>1, <2>2 DEF HeadRow
    <2>. HIDE DEF h, v
    <2>4. [[[[h EXCEPT !.value = v] EXCEPT !.edited = e] EXCEPT !.stamp = s]
              EXCEPT !.version = h.version + 1]
            = [state |-> h.state, value |-> v, edited |-> e, stamp |-> s, text |-> h.text,
               version |-> h.version + 1]
      <3>. DEFINE x == [h EXCEPT !.value = v]
                 y == [x EXCEPT !.edited = e]
                 z == [y EXCEPT !.stamp = s]
      <3>1. x = [state |-> h.state, value |-> v, edited |-> h.edited, stamp |-> h.stamp,
                 text |-> h.text, version |-> h.version]
        BY <2>1
      <3>. HIDE DEF x
      <3>2. y = [state |-> h.state, value |-> v, edited |-> e, stamp |-> h.stamp,
                 text |-> h.text, version |-> h.version]
        BY <3>1
      <3>. HIDE DEF y
      <3>3. z = [state |-> h.state, value |-> v, edited |-> e, stamp |-> s,
                 text |-> h.text, version |-> h.version]
        BY <3>2
      <3>. HIDE DEF z
      <3>4. [z EXCEPT !.version = h.version + 1] =
              [state |-> h.state, value |-> v, edited |-> e, stamp |-> s, text |-> h.text,
               version |-> h.version + 1]
        BY <3>3
      <3>. QED
        BY <3>4 DEF x, y, z
    <2>. QED
      BY <1>5, <2>3, <2>4 DEF h
  <1>. HIDE DEF v, e, s
  <1>7. /\ head' \in [Txns -> HeadRow] /\ head'[t] = row
        /\ \A u \in Txns \ {t} : head'[u] = head[u]
    BY <1>t, <1>5, <1>6 DEF Typed
  <1>8. Onward
    <2>1. \A u \in Txns : head[u].version \in Nat
      BY <1>t DEF Typed, HeadRow
    <2>2. head[t].version <= row.version /\ head[t].version # row.version
      BY <1>t, <1>4, <1>5, <2>1
    <2>. QED
      BY <1>t, <1>5, <1>7, <2>1, <2>2 DEF Onward, There
  <1>9. /\ CallFits(Quiet)' /\ ~InBlock(Quiet)
        /\ \A q \in Products : Knows(Quiet, q)'
    BY DEF CallFits, Quiet, InBlock, Knows
  <1>10. /\ \A b \in Actors : Kept(b)
         /\ \A p \in Products : LiveOf(items', p) = LiveOf(items, p)
    BY <1>t DEF Kept
  <1>11. ASSUME NEW p \in Products, Calm(p) PROVE Explained(p)'
    <2>1. Explained(p)
      BY <1>11 DEF Calm, LineItemsInv
    <2>. QED
      BY <1>t, <1>8, <1>10, <2>1, StillExplained
  <1>12. /\ call' \in [Actors -> CallRow] /\ \A b \in Actors : CallFits(call[b])'
         /\ OneBlock'
         /\ \A q \in Products \ crossed' : Explained(q)' /\ \A b \in Actors : Knows(call[b], q)'
         /\ crossed' \subseteq Products
    BY <1>t, <1>7, <1>8, <1>9, <1>10, <1>11, CallTypes, CallMoves DEF Typed
  <1>13. ProductsAreThere' /\ ManualAreTop'
    BY <1>t DEF ProductsAreThere, ManualAreTop, There
  <1>14. LineItemsInv'
    BY <1>t, <1>7, <1>12, <1>13 DEF LineItemsInv, Typed
  <1>. QED
    BY <1>2, <1>5, <1>7, <1>14 DEF e

\* Deleting for good takes the lines along, and is one of the cases; deleting
\* and restoring leave lines and marks alone.
LEMMA DeleteStep ==
  ASSUME LineItemsInv, Watch, NEW a \in Actors, DeleteTransaction(a)
  PROVE  /\ LineItemsInv'
         /\ \A u \in Txns : head'[u].edited = head[u].edited /\ head'[u].value = head[u].value
PROOF
  <1>t. /\ Typed /\ ProductsAreThere /\ ManualAreTop
        /\ UNCHANGED <<catalog, told>> /\ served' \in 0 .. MaxRequests
        /\ Go(a, Quiet)
    <2>1. Begin(a) /\ UNCHANGED <<catalog, call, told>> /\ Typed
      BY DEF DeleteTransaction, LineItemsInv
    <2>2. Go(a, Quiet)
      BY <2>1 DEF Go, Begin, Typed
    <2>. QED
      BY <2>1, <2>2, ServedFits DEF LineItemsInv
  <1>1. PICK t \in Txns :
          \/ /\ head[t].state # "gone"
             /\ head' = [head EXCEPT ![t].state = "gone", ![t].version = @ + 1]
             /\ items' = items \ Of(items, t)
          \/ /\ head[t].state # "gone"
             /\ head' = [head EXCEPT ![t].state = IF @ = "kept" THEN "deleted" ELSE "kept",
                                     ![t].version = @ + 1]
             /\ UNCHANGED items
    BY DEF DeleteTransaction
  <1>2. /\ head[t] \in HeadRow /\ head[t].version \in Nat
        /\ \A u \in Txns : head[u].version \in Nat
    BY <1>t DEF Typed, HeadRow
  <1>3. ASSUME NEW st \in {"kept", "deleted", "gone"}, head[t].state # "gone",
               head' = [head EXCEPT ![t].state = st, ![t].version = @ + 1],
               items' \subseteq items,
               st # "gone" => items' = items
        PROVE  /\ LineItemsInv'
               /\ \A u \in Txns : head'[u].edited = head[u].edited
                                  /\ head'[u].value = head[u].value
    <2>. DEFINE row == [[head[t] EXCEPT !.state = st] EXCEPT !.version = head[t].version + 1]
    <2>1. head[t].version + 1 \in Nat /\ head[t].version <= head[t].version + 1
          /\ head[t].version # head[t].version + 1
      BY <1>2
    <2>2. /\ row \in HeadRow /\ row.version = head[t].version + 1 /\ row.state = st
          /\ row.edited = head[t].edited /\ row.value = head[t].value
      BY <1>2, <2>1 DEF HeadRow
    <2>3. head' = [head EXCEPT ![t] = row]
      BY <1>3, <1>t DEF Typed, HeadRow
    <2>. HIDE DEF row
    <2>4. /\ head' \in [Txns -> HeadRow] /\ head'[t] = row
          /\ \A u \in Txns \ {t} : head'[u] = head[u]
      BY <1>t, <2>2, <2>3 DEF Typed
    <2>5. Onward
      BY <1>t, <1>2, <1>3, <2>1, <2>2, <2>4 DEF Onward, There
    <2>6. items' \subseteq Item /\ IsFiniteSet(items')
      BY <1>t, <1>3, FS_Subset DEF Typed
    <2>7. ProductsAreThere' /\ ManualAreTop'
      BY <1>t, <1>3 DEF ProductsAreThere, ManualAreTop, There
    <2>8. ASSUME NEW p \in Products, Calm(p) PROVE Explained(p)'
      <3>1. CASE st = "gone"
        BY <2>2, <2>4, <3>1 DEF Explained
      <3>2. CASE st # "gone"
        <4>1. Explained(p)
          BY <2>8 DEF Calm, LineItemsInv
        <4>2. LiveOf(items', p) = LiveOf(items, p)
          BY <1>3, <3>2
        <4>. QED
          BY <1>t, <2>5, <4>1, <4>2, StillExplained
      <3>. QED
        BY <3>1, <3>2
    <2>9. /\ CallFits(Quiet)' /\ ~InBlock(Quiet)
          /\ \A q \in Products : Knows(Quiet, q)'
      BY DEF CallFits, Quiet, InBlock, Knows
    <2>10. \A b \in Actors : Kept(b)
      BY <1>3 DEF Kept
    <2>11. /\ call' \in [Actors -> CallRow] /\ \A b \in Actors : CallFits(call[b])'
           /\ OneBlock'
           /\ \A q \in Products \ crossed' : Explained(q)' /\ \A b \in Actors : Knows(call[b], q)'
           /\ crossed' \subseteq Products
      BY <1>t, <2>4, <2>5, <2>6, <2>8, <2>9, <2>10, CallTypes, CallMoves
    <2>12. LineItemsInv'
      BY <1>t, <2>4, <2>6, <2>7, <2>11 DEF LineItemsInv, Typed
    <2>. QED
      BY <2>2, <2>4, <2>12
  <1>4. CASE /\ head[t].state # "gone"
             /\ head' = [head EXCEPT ![t].state = "gone", ![t].version = @ + 1]
             /\ items' = items \ Of(items, t)
    BY <1>3, <1>4
  <1>5. CASE /\ head[t].state # "gone"
             /\ head' = [head EXCEPT ![t].state = IF @ = "kept" THEN "deleted" ELSE "kept",
                                     ![t].version = @ + 1]
             /\ UNCHANGED items
    <2>. DEFINE st == IF head[t].state = "kept" THEN "deleted" ELSE "kept"
    <2>1. st \in {"kept", "deleted", "gone"} /\ st # "gone"
      OBVIOUS
    <2>2. head' = [head EXCEPT ![t].state = st, ![t].version = @ + 1]
      BY <1>5
    <2>. HIDE DEF st
    <2>. QED
      BY <1>3, <1>5, <2>1, <2>2
  <1>. QED
    BY <1>1, <1>4, <1>5

\* A merge recounts the product that took the lines; the one that gave them
\* has none left if no line came to it after they were found.
LEMMA MergeStep ==
  ASSUME LineItemsInv, Watch, NEW a \in Actors, MergeInto(a)
  PROVE  /\ LineItemsInv'
         /\ \E g \in [items -> Item] :
              /\ items' = {g[i] : i \in items}
              /\ \A i \in items : /\ g[i].txn = i.txn /\ g[i].run = i.run
                                  /\ g[i].manual = i.manual
PROOF
  <1>. DEFINE p == call[a].arg.from  q == call[a].arg.to
             found(i) == Key(i) \in call[a].arg.rows
             g == [i \in items |-> IF found(i) /\ i.product = p
                                   THEN [i EXCEPT !.product = q] ELSE i]
  <1>t. /\ Typed /\ ProductsAreThere /\ ManualAreTop /\ call[a].at = "move"
        /\ UNCHANGED <<head, told, served>> /\ Go(a, Quiet)
        /\ p \in Products /\ q \in Products /\ p # q /\ There(q)
    <2>1. /\ CallFits(call[a]) /\ call[a].at = "move"
      BY CallTypes DEF MergeInto
    <2>2. call[a].arg \in Merging /\ p # q /\ There(q)
      BY <2>1 DEF CallFits
    <2>. QED
      BY <2>1, <2>2 DEF LineItemsInv, MergeInto, Hang, Merging
  <1>1. /\ items' = {g[i] : i \in items}
        /\ catalog' = [catalog EXCEPT ![p] = [state |-> "retired", stats |-> Nothing],
                                      ![q].stats = Truth(items', q)]
        /\ \A i \in items : found(i) /\ i.live /\ ~i.manual => ~Writing(i.txn)
    BY DEF MergeInto
  <1>2. /\ g \in [items -> Item] /\ g = [i \in items |-> g[i]]
        /\ \A i \in items :
             /\ i.product # p \/ ~found(i) => g[i] = i
             /\ i.product = p /\ found(i) => g[i].product = q
             /\ g[i].manual = i.manual /\ g[i].parent = i.parent /\ g[i].live = i.live
             /\ g[i].txn = i.txn /\ g[i].run = i.run
    BY <1>t DEF Typed, Item
  <1>. HIDE DEF g
  <1>3. items' \subseteq Item /\ IsFiniteSet(items')
    BY <1>t, <1>1, <1>2, FiniteImage DEF Typed
  <1>4. Truth(items', q) \in Stats
    BY <1>3, TruthType
  <1>5. /\ catalog' \in [Products -> ProductRow]
        /\ catalog'[p].state = "retired"
        /\ catalog'[q].stats = Truth(items', q) /\ catalog'[q].state = catalog[q].state
        /\ \A r \in Products \ {p, q} : catalog'[r] = catalog[r]
    <2>. DEFINE u == [state |-> "retired", stats |-> Nothing]
               v == [catalog[q] EXCEPT !.stats = Truth(items', q)]
    <2>1. u \in ProductRow /\ u.state = "retired"
      BY DEF ProductRow, Stats, Nothing
    <2>2. /\ v \in ProductRow /\ v.stats = Truth(items', q)
          /\ v.state = catalog[q].state
      BY <1>t, <1>4 DEF Typed, ProductRow
    <2>3. catalog' = [catalog EXCEPT ![p] = u, ![q] = v]
      BY <1>t, <1>1 DEF Typed
    <2>. HIDE DEF u, v
    <2>. QED
      BY <1>t, <2>1, <2>2, <2>3 DEF Typed
  <1>6. Onward
    <2>1. \A t \in Txns : head[t].version \in Nat
      BY <1>t DEF Typed, HeadRow
    <2>. QED
      BY <1>t, <1>5, <2>1 DEF Onward, There
  <1>7. /\ CallFits(Quiet)' /\ ~InBlock(Quiet)
        /\ \A r \in Products : Knows(Quiet, r)'
    BY DEF CallFits, Quiet, InBlock, Knows
  <1>8. ASSUME NEW b \in Actors PROVE Kept(b)
    <2>. SUFFICES ASSUME call[b].at = "commit", NEW i \in items,
                         g[i].live, g[i].txn = call[b].txn, ~g[i].manual
                  PROVE  g[i] \in items
      BY <1>1 DEF Kept
    <2>1. i.live /\ ~i.manual /\ Writing(i.txn)
      BY <1>2 DEF Writing
    <2>2. ~ found(i)
      BY <1>1, <2>1
    <2>. QED
      BY <1>2, <2>2
  <1>9. ProductsAreThere'
    <2>. SUFFICES ASSUME NEW i \in items, g[i].product # None
                  PROVE  catalog'[g[i].product].state # "absent"
      BY <1>1 DEF ProductsAreThere, There
    <2>1. i.product \in Products \cup {None}
      BY <1>t DEF Typed, Item
    <2>2. CASE i.product = p /\ found(i)
      BY <1>2, <1>t, <1>5, <2>2 DEF There
    <2>3. CASE i.product # p \/ ~ found(i)
      BY <1>2, <1>t, <1>6, <2>1, <2>3 DEF ProductsAreThere, Onward, There
    <2>. QED
      BY <2>2, <2>3
  <1>10. ManualAreTop'
    BY <1>t, <1>1, <1>2 DEF ManualAreTop
  <1>11. ASSUME NEW r \in Products, Calm(r) PROVE Explained(r)'
    <2>0. Explained(r) /\ Knows(call[a], r)
      BY <1>11 DEF Calm, LineItemsInv
    <2>1. CASE r = p
      <3>1. \A i \in items : i.live /\ i.product = p => found(i)
        BY <1>t, <2>0, <2>1 DEF Knows, LiveOf
      <3>2. ~HasLines(items', p)
        BY <1>t, <1>1, <1>2, <3>1 DEF HasLines
      <3>. QED
        BY <2>1, <3>2 DEF Explained
    <2>2. CASE r = q
      BY <1>5, <2>2 DEF Explained
    <2>3. CASE r \notin {p, q}
      <3>1. LiveOf(items', r) = LiveOf(items, r)
        BY <1>1, <1>2, <2>3 DEF LiveOf
      <3>. QED
        BY <1>5, <1>6, <2>0, <2>3, <3>1, StillExplained
    <2>. QED
      BY <2>1, <2>2, <2>3
  <1>12. /\ call' \in [Actors -> CallRow] /\ \A b \in Actors : CallFits(call[b])'
         /\ OneBlock'
         /\ \A r \in Products \ crossed' : Explained(r)' /\ \A b \in Actors : Knows(call[b], r)'
         /\ crossed' \subseteq Products
    BY <1>t, <1>3, <1>6, <1>7, <1>8, <1>11, CallTypes, CallMoves DEF Typed
  <1>13. LineItemsInv'
    BY <1>t, <1>3, <1>5, <1>9, <1>10, <1>12 DEF LineItemsInv, Typed
  <1>. QED
    BY <1>1, <1>2, <1>13

\* The commit of a block, on the lines: those of other transactions and those
\* typed by hand stay, the rest of this one's are retired, and the new ones
\* have numbers past those that were there when it took them.
LEMMA LinesWritten ==
  ASSUME LineItemsInv, NEW a \in Actors, CloseBlock(a)
  PROVE  /\ items' \subseteq Item /\ IsFiniteSet(items')
         /\ \A i \in items' : i.txn # call[a].txn => i \in items
         /\ \A i \in items : i.txn # call[a].txn \/ i.manual => i \in items'
         /\ \A i \in items' : i.manual => i \in items
         /\ \A i \in items' : i.product # None =>
              \/ \E j \in items : j.product = i.product
              \/ \E j \in call[a].arg.lines : j.product = i.product
         /\ \/ InOrder(items, call[a].txn) => InOrder(items', call[a].txn)
            \/ \E i \in Live(items, call[a].txn) : i.manual /\ i.line > call[a].arg.off
PROOF
  <1>. DEFINE t == call[a].txn
             old == Retired(items, t)
             new == call[a].arg.lines
             off == call[a].arg.off
  <1>t. /\ items \in SUBSET Item /\ IsFiniteSet(items) /\ ManualAreTop
        /\ items' = old \cup new
        /\ call[a].arg \in Block /\ LinesFit(call[a])
    <2>1. call[a].at = "commit" /\ CallFits(call[a]) /\ items' = old \cup new
      BY CallTypes DEF CloseBlock, After
    <2>. QED
      BY <2>1 DEF LineItemsInv, Typed, CallFits, InBlock
  <1>1. /\ old \in SUBSET Item /\ IsFiniteSet(old)
        /\ \A j \in old : \E i \in items :
              /\ j.txn = i.txn /\ j.line = i.line /\ j.parent = i.parent
              /\ j.run = i.run /\ j.manual = i.manual /\ j.product = i.product
              /\ (i.txn # t \/ i.manual) => j = i
              /\ (i.txn = t /\ ~ i.manual) => ~ j.live
        /\ \A i \in items : (i.txn # t \/ i.manual) => i \in old
    BY <1>t, RetiredFits
  <1>2. /\ new \subseteq Item /\ IsFiniteSet(new) /\ off \in Nat
        /\ \A i \in new : i.txn = t /\ i.live /\ ~ i.manual /\ i.line > off
        /\ \A i, j \in new : i.run = j.run /\ (i.line = j.line => i = j)
        /\ \A i \in new : i.parent # 0 => \E j \in new : j.line = i.parent
    BY <1>t DEF Block, LinesFit
  <1>. HIDE DEF old, new, off
  <1>3. items' \subseteq Item /\ IsFiniteSet(items')
    BY <1>t, <1>1, <1>2, FS_Union
  <1>4. \A i \in Live(items', t) : \/ i \in items /\ i.manual /\ i \in Live(items, t)
                                  \/ i \in new
    BY <1>t, <1>1 DEF Live
  <1>5. ASSUME InOrder(items, t), \A i \in Live(items, t) : i.manual => ~ (i.line > off)
        PROVE  InOrder(items', t)
    <2>1. ASSUME NEW i \in Live(items', t), NEW j \in Live(items', t), i.line = j.line
          PROVE  i = j
      <3>1. CASE i \in new /\ j \in new
        BY <1>2, <2>1, <3>1
      <3>2. CASE i \in Live(items, t) /\ j \in Live(items, t)
        BY <1>5, <2>1, <3>2 DEF InOrder
      <3>3. CASE i \in new /\ j \notin new
        BY <1>2, <1>4, <1>5, <2>1, <3>3
      <3>4. CASE j \in new /\ i \notin new
        BY <1>2, <1>4, <1>5, <2>1, <3>4
      <3>. QED
        BY <1>4, <3>1, <3>2, <3>3, <3>4
    <2>2. ASSUME NEW i \in Live(items', t), i.parent # 0
          PROVE  \E j \in Live(items', t) : j.line = i.parent /\ j.run = i.run /\ ~j.manual
      <3>1. i \in new
        BY <1>t, <1>4, <2>2 DEF ManualAreTop
      <3>2. PICK j \in new : j.line = i.parent
        BY <1>2, <2>2, <3>1
      <3>3. j \in Live(items', t)
        BY <1>t, <1>2 DEF Live
      <3>. QED
        BY <1>2, <3>1, <3>2, <3>3
    <2>. QED
      BY <2>1, <2>2 DEF InOrder
  <1>6. \A i \in items' : i.txn # t => i \in items
    BY <1>t, <1>1, <1>2
  <1>7. \A i \in items' : i.manual => i \in items
    BY <1>t, <1>1, <1>2
  <1>8. \A i \in items' : i.product # None =>
              \/ \E j \in items : j.product = i.product
              \/ \E j \in new : j.product = i.product
    BY <1>t, <1>1
  <1>9. \A i \in items : i.txn # t \/ i.manual => i \in items'
    BY <1>t, <1>1
  <1>. QED
    BY <1>3, <1>5, <1>6, <1>7, <1>8, <1>9 DEF new, off

\* The commit of a block as a whole: of the row, what the user did not edit;
\* of the catalogue, what was counted.
LEMMA CloseStep ==
  ASSUME LineItemsInv, Watch, NEW a \in Actors, CloseBlock(a)
  PROVE  /\ LineItemsInv'
         /\ \A u \in Txns \ {call[a].txn} : head'[u] = head[u]
         /\ head'[call[a].txn].edited = head[call[a].txn].edited
         /\ \A f \in Fields : f \in head[call[a].txn].edited =>
              head'[call[a].txn].value[f] = head[call[a].txn].value[f]
         /\ call[a].txn \in Txns
PROOF
  <1>. DEFINE t == call[a].txn
             block == call[a].arg
             lines == block.lines
             counts == block.counts
  <1>t. /\ Typed /\ ProductsAreThere /\ ManualAreTop /\ OneBlock
        /\ UNCHANGED <<told, served>> /\ call[a].at = "commit"
        /\ Go(a, [call[a] EXCEPT !.at = "after", !.arg = None, !.wrote = TRUE])
        /\ t \in Txns /\ head[t] \in HeadRow /\ call[a] \in CallRow
        /\ block \in Block
        /\ \A i \in lines : i.product # None => counts[i.product] # None
        /\ items \in SUBSET Item /\ IsFiniteSet(items)
        /\ items' = After(items, call[a])
    <2>1. call[a].at = "commit" /\ CallFits(call[a]) /\ call[a] \in CallRow
      BY CallTypes DEF CloseBlock
    <2>2. t \in Txns /\ block \in Block
          /\ \A i \in lines : i.product # None => counts[i.product] # None
      BY <2>1 DEF CallFits, InBlock
    <2>. QED
      BY <2>1, <2>2, CallTypes DEF LineItemsInv, Typed, CloseBlock
  <1>1. PICK text \in {head[t].text, "new"} :
          head' = [head EXCEPT ![t] =
            [(IF block.kept THEN Rewritten(@) ELSE @) EXCEPT !.text = text]]
    BY DEF CloseBlock
  <1>2. catalog' = [p \in Products |->
           [state |-> IF catalog[p].state = "absent" /\ Holds(a, p) THEN "listed"
                      ELSE catalog[p].state,
            stats |-> IF counts[p] # None THEN counts[p] ELSE catalog[p].stats]]
    BY DEF CloseBlock
  <1>. DEFINE h == IF block.kept THEN Rewritten(head[t]) ELSE head[t]
             row == [h EXCEPT !.text = text]
  <1>3. /\ h \in HeadRow /\ h.edited = head[t].edited
        /\ head[t].version \in Nat /\ h.version \in {head[t].version, head[t].version + 1}
        /\ h.state = head[t].state
        /\ \A f \in Fields : f \in head[t].edited => h.value[f] = head[t].value[f]
    <2>1. CASE block.kept
      <3>. DEFINE v == [f \in Fields |-> IF f \in head[t].edited THEN head[t].value[f]
                                         ELSE "read"]
                 n == head[t].version + 1
      <3>1. /\ v \in Values
            /\ \A f \in Fields : f \in head[t].edited => v[f] = head[t].value[f]
        BY <1>t DEF HeadRow, Values
      <3>2. Rewritten(head[t]) = [head[t] EXCEPT !.value = v, !.stamp = n, !.version = n]
        BY DEF Rewritten
      <3>3. n \in Nat /\ head[t].version \in Nat
        BY <1>t DEF HeadRow
      <3>. HIDE DEF v, n
      <3>4. /\ [head[t] EXCEPT !.value = v, !.stamp = n, !.version = n] \in HeadRow
            /\ [head[t] EXCEPT !.value = v, !.stamp = n, !.version = n].value = v
            /\ [head[t] EXCEPT !.value = v, !.stamp = n, !.version = n].edited
                  = head[t].edited
            /\ [head[t] EXCEPT !.value = v, !.stamp = n, !.version = n].state
                  = head[t].state
            /\ [head[t] EXCEPT !.value = v, !.stamp = n, !.version = n].version = n
        BY <1>t, <3>1, <3>3 DEF HeadRow, Values
      <3>5. h = [head[t] EXCEPT !.value = v, !.stamp = n, !.version = n]
        BY <2>1, <3>2
      <3>. HIDE DEF h
      <3>. QED
        BY <3>1, <3>3, <3>4, <3>5 DEF n
    <2>2. CASE ~ block.kept
      BY <1>t, <2>2 DEF HeadRow
    <2>. QED
      BY <2>1, <2>2
  <1>4. /\ row \in HeadRow /\ row.edited = h.edited /\ row.version = h.version
        /\ row.state = h.state /\ row.value = h.value
    <2>. HIDE DEF h
    <2>1. text \in {"old", "new"}
      BY <1>t DEF HeadRow
    <2>. QED
      BY <1>3, <2>1 DEF HeadRow
  <1>5. head' = [head EXCEPT ![t] = row]
    BY <1>1
  <1>. HIDE DEF h, row
  <1>6. /\ head' \in [Txns -> HeadRow] /\ head'[t] = row
        /\ \A u \in Txns \ {t} : head'[u] = head[u]
    BY <1>t, <1>4, <1>5 DEF Typed
  <1>7. /\ items' \in SUBSET Item /\ IsFiniteSet(items')
        /\ \A i \in items' : i.txn # t => i \in items
        /\ \A i \in items' : i.manual => i \in items
        /\ \A i \in items' : i.product # None =>
              \/ \E j \in items : j.product = i.product
              \/ \E j \in lines : j.product = i.product
    BY LinesWritten
  <1>8. /\ catalog' \in [Products -> ProductRow]
        /\ \A p \in Products :
             /\ There(p) => There(p)'
             /\ Holds(a, p) => There(p)'
             /\ catalog'[p].stats = IF counts[p] # None THEN counts[p] ELSE catalog[p].stats
    <2>1. \A p \in Products : counts[p] \in Stats \cup {None} /\ catalog[p] \in ProductRow
      BY <1>t DEF Block, Typed
    <2>2. \A p \in Products : catalog'[p].state = IF catalog[p].state = "absent" /\ Holds(a, p)
                                                  THEN "listed" ELSE catalog[p].state
      BY <1>2
    <2>. QED
      BY <1>2, <2>1, <2>2 DEF ProductRow, There
  <1>9. Onward
    <2>1. \A u \in Txns : head[u].version \in Nat
      BY <1>t DEF Typed, HeadRow
    <2>2. head[t].version <= row.version
      BY <1>3, <1>4
    <2>. QED
      BY <1>3, <1>4, <1>6, <1>8, <2>1, <2>2 DEF Onward
  <1>10. ProductsAreThere' /\ ManualAreTop'
    <2>1. ASSUME NEW i \in items', i.product # None PROVE There(i.product)'
      <3>1. i.product \in Products
        BY <1>7, <2>1 DEF Item
      <3>2. CASE \E j \in items : j.product = i.product
        BY <1>t, <1>8, <2>1, <3>1, <3>2 DEF ProductsAreThere
      <3>3. CASE \E j \in lines : j.product = i.product
        BY <1>t, <1>8, <3>1, <3>3 DEF Holds
      <3>. QED
        BY <1>7, <2>1, <3>2, <3>3
    <2>. QED
      BY <1>t, <1>7, <2>1 DEF ProductsAreThere, ManualAreTop, There
  <1>11. PICK d \in CallRow : Go(a, d) /\ d.at = "after" /\ d.txn = t
    <2>. DEFINE c == [call[a] EXCEPT !.at = "after", !.arg = None, !.wrote = TRUE]
    <2>1. c \in CallRow /\ c.at = "after" /\ c.txn = t
      BY <1>t DEF CallRow
    <2>. QED
      BY <1>t, <2>1
  <1>12. CallFits(d)' /\ ~InBlock(d) /\ \A p \in Products : Knows(d, p)'
    BY <1>t, <1>11 DEF CallFits, InBlock, Knows
  <1>13. ASSUME NEW b \in Actors \ {a} PROVE Kept(b)
    <2>. SUFFICES ASSUME call[b].at = "commit", NEW i \in items', i.txn = call[b].txn
                  PROVE  i \in items
      BY DEF Kept
    <2>1. call[b].txn # t
      BY <1>t DEF OneBlock, InBlock
    <2>. QED
      BY <1>7, <2>1
  <1>14. ASSUME NEW p \in Products, Calm(p) PROVE Explained(p)'
    <2>0. Explained(p) /\ Knows(call[a], p)
      BY <1>14 DEF Calm, LineItemsInv
    <2>1. CASE counts[p] # None
      BY <1>t, <1>8, <2>0, <2>1 DEF Knows, Explained
    <2>2. CASE counts[p] = None /\ Retires(call[a], p)
      <3>1. ~HasLines(items', p)
        BY <1>t, <2>0, <2>2 DEF Knows
      <3>. QED
        BY <3>1 DEF Explained
    <2>3. CASE counts[p] = None /\ ~Retires(call[a], p)
      <3>1. LiveOf(items', p) =
              {i \in LiveOf(items, p) : i.txn # t \/ i.manual} \cup LiveOf(lines, p)
        BY <1>t, LiveAfter
      <3>2. LiveOf(lines, p) = {}
        BY <1>t, <2>3, LineItemsAssumption DEF LiveOf
      <3>3. LiveOf(items', p) = LiveOf(items, p)
        BY <2>3, <3>1, <3>2 DEF Retires
      <3>. QED
        BY <1>8, <1>9, <2>0, <2>3, <3>3, StillExplained
    <2>. QED
      BY <2>1, <2>2, <2>3
  <1>15. /\ call' \in [Actors -> CallRow] /\ \A b \in Actors : CallFits(call[b])'
         /\ OneBlock'
         /\ \A r \in Products \ crossed' : Explained(r)' /\ \A b \in Actors : Knows(call[b], r)'
         /\ crossed' \subseteq Products
    BY <1>6, <1>7, <1>9, <1>11, <1>12, <1>13, <1>14, CallMoves
  <1>16. LineItemsInv'
    BY <1>t, <1>6, <1>7, <1>8, <1>10, <1>15 DEF LineItemsInv, Typed
  <1>. QED
    BY <1>t, <1>3, <1>4, <1>6, <1>16

\* The purchases the catalogue was made from.
LEMMA InitInv == Init => LineItemsInv
PROOF
  <1>. SUFFICES ASSUME Init PROVE LineItemsInv
    OBVIOUS
  <1>1. PICK p \in Products :
          /\ items = {[txn |-> t, line |-> 1, parent |-> 0, run |-> 1, manual |-> FALSE,
                       live |-> TRUE, product |-> p] : t \in Txns}
          /\ catalog = [q \in Products |->
               [state |-> IF q = p THEN "listed" ELSE "absent", stats |-> Truth(items, q)]]
    BY DEF Init
  <1>2. items \subseteq Item
    <2>1. ASSUME NEW t \in Txns
          PROVE  [txn |-> t, line |-> 1, parent |-> 0, run |-> 1, manual |-> FALSE,
                  live |-> TRUE, product |-> p] \in Item
      BY DEF Item
    <2>. QED
      BY <1>1, <2>1
  <1>3. IsFiniteSet(items)
    <2>. DEFINE f == [t \in Txns |-> [txn |-> t, line |-> 1, parent |-> 0, run |-> 1,
                                     manual |-> FALSE, live |-> TRUE, product |-> p]]
    <2>1. f = [t \in Txns |-> f[t]] /\ items = {f[t] : t \in Txns}
      BY <1>1
    <2>. HIDE DEF f
    <2>. QED
      BY <2>1, FiniteImage, LineItemsAssumption
  <1>4. \A q \in Products : Truth(items, q) \in Stats
    BY <1>3, TruthType
  <1>5. catalog \in [Products -> ProductRow]
    BY <1>1, <1>4 DEF ProductRow
  <1>6. head \in [Txns -> HeadRow]
    <2>. DEFINE row == [state |-> "kept", value |-> [f \in Fields |-> "read"],
                        edited |-> {}, stamp |-> 1, text |-> "old", version |-> 1]
    <2>1. row \in HeadRow
      BY DEF HeadRow
    <2>. HIDE DEF row
    <2>. QED
      BY <2>1 DEF Init, row
  <1>7. Quiet \in CallRow /\ CallFits(Quiet)
    BY DEF Quiet, CallRow, CallFits, InBlock
  <1>8. call \in [Actors -> CallRow] /\ \A a \in Actors : CallFits(call[a])
    BY <1>7 DEF Init
  <1>9. Typed
    <2>1. served \in 0 .. MaxRequests
      BY LineItemsAssumption DEF Init
    <2>2. told \in [outcome : {"none", "written", "no_change"}, wrote : BOOLEAN]
      BY DEF Init
    <2>3. crossed \subseteq Products
      BY DEF Init
    <2>. QED
      BY <1>2, <1>3, <1>5, <1>6, <1>8, <2>1, <2>2, <2>3 DEF Typed
  <1>10. ProductsAreThere /\ ManualAreTop
    BY <1>1 DEF ProductsAreThere, ManualAreTop, There
  <1>11. \A q \in Products : Explained(q)
    BY <1>1 DEF Explained
  <1>12. OneBlock /\ \A q \in Products, a \in Actors : Knows(call[a], q)
    BY DEF Init, OneBlock, InBlock, Knows, Quiet
  <1>. QED
    BY <1>8, <1>9, <1>10, <1>11, <1>12 DEF LineItemsInv

\* Every step keeps the invariant.
LEMMA NextInv == LineItemsInv /\ [Next]_vars => LineItemsInv'
PROOF
  <1>. SUFFICES ASSUME LineItemsInv, [Next]_vars PROVE LineItemsInv'
    OBVIOUS
  <1>1. CASE UNCHANGED vars
    <2>1. UNCHANGED <<head, items, catalog, call, told, crossed, served>>
      BY <1>1 DEF vars
    <2>2. Typed' /\ OneBlock'
      BY <2>1 DEF LineItemsInv, Typed, OneBlock, InBlock
    <2>3. ProductsAreThere' /\ ManualAreTop'
      BY <2>1 DEF LineItemsInv, ProductsAreThere, There, ManualAreTop
    <2>4. ASSUME NEW a \in Actors PROVE CallFits(call[a])'
      <3>1. CallFits(call[a]) /\ call'[a] = call[a]
        BY <2>1 DEF LineItemsInv
      <3>. QED
        BY <2>1, <3>1 DEF CallFits, There, InBlock, LinesFit
    <2>5. ASSUME NEW p \in Products \ crossed'
          PROVE  Explained(p)' /\ \A a \in Actors : Knows(call[a], p)'
      <3>1. Explained(p) /\ \A a \in Actors : Knows(call[a], p)
        BY <2>1 DEF LineItemsInv
      <3>2. Explained(p)'
        BY <2>1, <3>1 DEF Explained
      <3>3. ASSUME NEW a \in Actors PROVE Knows(call[a], p)'
        <4>1. Knows(call[a], p) /\ call'[a] = call[a] /\ items' = items
          BY <2>1, <3>1
        <4>. QED
          BY <4>1 DEF Knows, Retires
      <3>. QED
        BY <3>2, <3>3
    <2>. QED
      BY <2>2, <2>3, <2>4, <2>5 DEF LineItemsInv
  <1>2. ASSUME NEW a \in Actors, Step(a), Watch
        PROVE  LineItemsInv'
    BY <1>2, ReadsStep, OpenStep, InsertStep, CloseStep, CountStep, AddStep, PatchStep,
       DeleteStep, ProductsStep, MergeStep DEF Step
  <1>. QED
    BY <1>1, <1>2 DEF Next

----------------------------------------------------------------------------
(* The theorems.                                                           *)

\* The inductive invariant: see LineItemsInv.
THEOREM LineItemsInvariant == Spec => []LineItemsInv
PROOF
  BY InitInv, NextInv, PTL DEF Spec

\* What the tables and the requests hold has its type.
THEOREM LineItemsTypes == Spec => []TypeOK
PROOF
  <1>1. LineItemsInv => TypeOK
    BY DEF LineItemsInv, Typed, TypeOK
  <1>. QED
    BY <1>1, LineItemsInvariant, PTL

\* Whatever is extracted again, typed, deleted, merged or recounted, and in
\* whatever order the statements see each other, a product's figures differ
\* from the sums over its lines in the four cases only.
THEOREM DriftHasCause == Spec => []DriftIsExplained
PROOF
  <1>1. LineItemsInv => DriftIsExplained
    BY DEF LineItemsInv, Explained, DriftIsExplained
  <1>. QED
    BY <1>1, LineItemsInvariant, PTL

\* Runs are made by the commit of a block only: typing, deleting, restoring
\* and merging leave a transaction that is there with the runs it had.
LEMMA OthersMakeNoRun ==
  ASSUME LineItemsInv, [Next]_vars, NEW t \in Txns,
         Runs(items', t) # Runs(items, t), head'[t].state # "gone"
  PROVE  \E a \in Actors : CloseBlock(a) /\ call[a].txn = t
PROOF
  <1>. SUFFICES ASSUME ~ \E a \in Actors : CloseBlock(a) /\ call[a].txn = t PROVE FALSE
    OBVIOUS
  <1>1. ~ UNCHANGED items
    OBVIOUS
  <1>w. Watch /\ \E a \in Actors : Step(a)
    BY <1>1 DEF Next, vars
  <1>2. PICK a \in Actors :
          CloseBlock(a) \/ AddTransactionItems(a) \/ DeleteTransaction(a) \/ MergeInto(a)
    BY <1>1, <1>w, ZenonT(30) DEF Step, BeginReExtract, OpenBlock, InsertLines, FailBlock,
                WriteNothing, FinishReExtract, ReadItems, ReadForUpdate, UpdateTransaction,
                CreateProduct, UpdateProduct, CountLines, RecomputeProductStats, ReadForMerge,
                FindLines, Abort
  <1>3. CASE CloseBlock(a)
    <2>1. call[a].txn # t
      BY <1>3
    <2>2. /\ \A i \in items' : i.txn # call[a].txn => i \in items
          /\ \A i \in items : i.txn # call[a].txn => i \in items'
      BY <1>3, LinesWritten
    <2>3. Of(items', t) = Of(items, t)
      BY <2>1, <2>2 DEF Of
    <2>. QED
      BY <2>3 DEF Runs
  <1>4. CASE AddTransactionItems(a)
    <2>. DEFINE w == call[a].arg
               new == [txn |-> call[a].txn, line |-> w.line, parent |-> 0, run |-> w.run,
                       manual |-> TRUE, live |-> TRUE, product |-> w.product]
    <2>1. items' = items \cup {new} /\ new.manual
      BY <1>4 DEF AddTransactionItems
    <2>. HIDE DEF new
    <2>2. {j \in Of(items', t) : ~j.manual} = {j \in Of(items, t) : ~j.manual}
      BY <2>1 DEF Of
    <2>. QED
      BY <2>2 DEF Runs
  <1>5. CASE DeleteTransaction(a)
    <2>1. PICK u \in Txns :
            /\ head' = [head EXCEPT ![u].state = "gone", ![u].version = @ + 1]
            /\ items' = items \ Of(items, u)
      BY <1>1, <1>5 DEF DeleteTransaction
    <2>2. head'[u].state = "gone"
      BY <2>1 DEF LineItemsInv, Typed, HeadRow
    <2>3. u # t
      BY <2>2
    <2>4. Of(items', t) = Of(items, t)
      BY <2>1, <2>3 DEF Of
    <2>. QED
      BY <2>4 DEF Runs
  <1>6. CASE MergeInto(a)
    <2>1. PICK g \in [items -> Item] :
            /\ items' = {g[i] : i \in items}
            /\ \A i \in items : /\ g[i].txn = i.txn /\ g[i].run = i.run
                                /\ g[i].manual = i.manual
      BY <1>6, <1>w, MergeStep
    <2>2. Runs(items', t) = Runs(items, t)
      BY <2>1 DEF Runs, Of
    <2>. QED
      BY <2>2
  <1>. QED
    BY <1>2, <1>3, <1>4, <1>5, <1>6

\* A re-extraction keeps what the user typed, and the lines in order but for
\* one typed past its numbers: the new ones start past the highest number
\* there was when the block took them.
THEOREM RewritesKeepLines == Spec => RewriteKeepsLines
PROOF
  <1>. DEFINE Stays == \A t \in Txns :
         Runs(items', t) # Runs(items, t) /\ head'[t].state # "gone" =>
           /\ {i \in Live(items, t) : i.manual} \subseteq Live(items', t)
           /\ InOrder(items, t) =>
                \/ InOrder(items', t)
                \/ \E a \in Actors, i \in Live(items, t) :
                     /\ call[a].at = "commit" /\ call[a].txn = t
                     /\ i.manual /\ i.line > call[a].arg.off
  <1>1. ASSUME LineItemsInv, [Next]_vars PROVE Stays
    <2>. SUFFICES ASSUME NEW t \in Txns,
                         Runs(items', t) # Runs(items, t), head'[t].state # "gone"
                  PROVE  /\ {i \in Live(items, t) : i.manual} \subseteq Live(items', t)
                         /\ InOrder(items, t) =>
                              \/ InOrder(items', t)
                              \/ \E a \in Actors, i \in Live(items, t) :
                                   /\ call[a].at = "commit" /\ call[a].txn = t
                                   /\ i.manual /\ i.line > call[a].arg.off
      OBVIOUS
    <2>1. PICK a \in Actors : CloseBlock(a) /\ call[a].txn = t
      BY <1>1, OthersMakeNoRun
    <2>2. /\ \A i \in items : i.manual => i \in items'
          /\ \/ InOrder(items, t) => InOrder(items', t)
             \/ \E i \in Live(items, t) : i.manual /\ i.line > call[a].arg.off
      BY <1>1, <2>1, LinesWritten
    <2>3. call[a].at = "commit"
      BY <2>1 DEF CloseBlock
    <2>4. {i \in Live(items, t) : i.manual} \subseteq Live(items', t)
      BY <2>2 DEF Live
    <2>. QED
      BY <2>1, <2>2, <2>3, <2>4
  <1>2. LineItemsInv /\ [Next]_vars => [Stays]_vars
    BY <1>1
  <1>3. Spec => [][Stays]_vars
    BY <1>2, LineItemsInvariant, PTL DEF Spec
  <1>. QED
    BY <1>3 DEF RewriteKeepsLines

\* A marked value is read over by no agent, and a mark is lost only to a
\* patch that had read the row at an earlier version or whose own metadata
\* leaves it out.
THEOREM EditsLostToPatches == Spec => EditLostByPatchOnly
PROOF
  <1>. DEFINE Blamed(a, t, f) ==
                /\ call[a].at = "patch" /\ call[a].txn = t
                /\ \/ call[a].seen.version < head[t].version
                   \/ call[a].arg.meta = "bare" /\ call[a].arg.fields = {}
                   \/ call[a].arg.meta = "marked" /\ f \notin call[a].arg.marks
             Excused == \A t \in Txns, f \in Fields :
               /\ head[t].value[f] = "typed" /\ head'[t].value[f] = "read"
                    => f \notin head[t].edited
               /\ f \in head[t].edited \ head'[t].edited => \E a \in Actors : Blamed(a, t, f)
  <1>1. ASSUME LineItemsInv, [Next]_vars PROVE Excused
    <2>. SUFFICES ASSUME NEW t \in Txns, NEW f \in Fields
                  PROVE  /\ head[t].value[f] = "typed" /\ head'[t].value[f] = "read"
                              => f \notin head[t].edited
                         /\ f \in head[t].edited \ head'[t].edited =>
                              \E a \in Actors : Blamed(a, t, f)
      OBVIOUS
    <2>1. CASE UNCHANGED head
      BY <2>1
    <2>w. ~ UNCHANGED head => Watch
      BY <1>1 DEF Next, vars
    <2>2. ASSUME NEW a \in Actors, CloseBlock(a), Watch
          PROVE  /\ head'[t].edited = head[t].edited
                 /\ f \in head[t].edited => head'[t].value[f] = head[t].value[f]
      BY <1>1, <2>2, CloseStep
    <2>3. ASSUME NEW a \in Actors, DeleteTransaction(a), Watch
          PROVE  /\ head'[t].edited = head[t].edited
                 /\ head'[t].value[f] = head[t].value[f]
      BY <1>1, <2>3, DeleteStep
    <2>4. ASSUME NEW a \in Actors, UpdateTransaction(a), Watch
          PROVE  /\ head[t].value[f] = "typed" => head'[t].value[f] = "typed"
                 /\ f \in head[t].edited \ head'[t].edited => Blamed(a, t, f)
      <3>1. /\ \A u \in Txns \ {call[a].txn} : head'[u] = head[u]
            /\ head'[call[a].txn].edited = MarksWritten(call[a].seen, call[a].arg)
            /\ \A g \in Fields : head'[call[a].txn].value[g]
                                   \in {"typed", head[call[a].txn].value[g]}
        BY <1>1, <2>4, PatchStep
      <3>2. call[a].at = "patch" /\ CallFits(call[a])
        BY <1>1, <2>4, CallTypes DEF UpdateTransaction
      <3>3. CASE call[a].txn # t
        BY <3>1, <3>3
      <3>4. CASE call[a].txn = t
        <4>1. /\ call[a].seen \in HeadRow /\ call[a].seen.version <= head[t].version
              /\ call[a].seen.version = head[t].version => call[a].seen.edited = head[t].edited
          BY <3>2, <3>4 DEF CallFits
        <4>2. call[a].seen.version \in Nat /\ head[t].version \in Nat
          BY <1>1, <4>1 DEF LineItemsInv, Typed, HeadRow
        <4>3. call[a].seen.version # head[t].version =>
                call[a].seen.version < head[t].version
          BY <4>1, <4>2
        <4>4. ASSUME f \in head[t].edited, f \notin head'[t].edited,
                     call[a].seen.version = head[t].version
              PROVE  \/ call[a].arg.meta = "bare" /\ call[a].arg.fields = {}
                     \/ call[a].arg.meta = "marked" /\ f \notin call[a].arg.marks
          <5>1. f \notin MarksWritten(call[a].seen, call[a].arg) /\ f \in call[a].seen.edited
            BY <3>1, <3>4, <4>1, <4>4
          <5>. QED
            BY <5>1 DEF MarksWritten
        <4>. QED
          BY <3>1, <3>2, <3>4, <4>3, <4>4
      <3>. QED
        BY <3>3, <3>4
    <2>5. \/ UNCHANGED head
          \/ \E a \in Actors : CloseBlock(a) \/ DeleteTransaction(a) \/ UpdateTransaction(a)
      BY <1>1 DEF Next, Step, vars, BeginReExtract, OpenBlock, InsertLines, FailBlock,
                  WriteNothing, FinishReExtract, ReadItems, ReadForUpdate, AddTransactionItems,
                  CreateProduct, UpdateProduct, CountLines, RecomputeProductStats,
                  ReadForMerge, FindLines, MergeInto, Abort
    <2>. HIDE DEF Blamed
    <2>. QED
      BY <2>1, <2>w, <2>2, <2>3, <2>4, <2>5
  <1>2. LineItemsInv /\ [Next]_vars => [Excused]_vars
    BY <1>1
  <1>3. Spec => [][Excused]_vars
    BY <1>2, LineItemsInvariant, PTL DEF Spec
  <1>. QED
    BY <1>3 DEF EditLostByPatchOnly
=============================================================================
