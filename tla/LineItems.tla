------------------------------ MODULE LineItems ------------------------------
(***************************************************************************)
(* Line items, the product catalogue they feed and re-extraction: the      *)
(* write block of the extraction agent (src/ingest/items-sql.ts,           *)
(* src/ingest/reextract-prompt.ts), the service around it                  *)
(* (reExtractDocument), items typed by hand (addTransactionItems), patches *)
(* of the fields that extraction may overwrite (src/projection/layer3.ts)  *)
(* and the requests on products (src/routes/products.ts).                  *)
(*                                                                         *)
(* The agent's block is one database transaction at READ COMMITTED: each   *)
(* of its statements sees what others committed before it started, and     *)
(* waits for the rows that another transaction holds, so it is three       *)
(* steps, of which the last commits.  What it wrote before is in its call. *)
(* Other requests read in one step and write in another; others run in     *)
(* between, for minutes while an agent works.                              *)
(***************************************************************************)
EXTENDS Integers, FiniteSetsExt

CONSTANTS
  Txns,         \* transactions, each with one document
  Products,     \* product keys; a key has one row in the catalogue
  Lines,        \* bound: line numbers a user may ask for
  Actors,       \* concurrent requests
  None,
  MaxRequests   \* bound: requests in a behaviour

ASSUME LineItemsAssumption ==
  /\ IsFiniteSet(Txns)
  /\ Lines \subseteq Nat \ {0}
  /\ None \notin Products \cup Txns \cup [purchases : Nat, total : Nat]
  /\ MaxRequests \in Nat

VARIABLES
  head,      \* transactions: the fields at stake, and the document's text
  items,     \* transaction_items
  catalog,   \* products
  call,      \* the request of each actor
  told,      \* the last outcome a re-extraction reported, and the truth
  crossed,   \* history: products whose lines changed under a running count
  served

vars == <<head, items, catalog, call, told, crossed, served>>

\* SOFT_LAYER3_TX_FIELDS, of which occurred_at behaves as occurred_on.
Fields == {"payee", "occurred_on"}

\* edited is metadata.user_edited, stamp the version that metadata.extraction
\* was written at (0 when there is none), text the document's ocr_text.
HeadRow == [state : {"kept", "deleted", "gone"},
            value : [Fields -> {"read", "typed"}], edited : SUBSET Fields,
            stamp : Nat, text : {"old", "new"}, version : Nat]

Item == [txn : Txns, line : Nat, parent : Nat, run : Nat, manual : BOOLEAN,
         live : BOOLEAN, product : Products \cup {None}]

Stats      == [purchases : Nat, total : Nat]
ProductRow == [state : {"absent", "listed", "retired"}, stats : Stats]

Quiet == [at |-> "idle", txn |-> None, seen |-> None, arg |-> None, wrote |-> FALSE]

Of(its, t)   == {i \in its : i.txn = t}
Live(its, t) == {i \in its : i.txn = t /\ i.live}
Greatest(S, default) == IF S = {} THEN default ELSE Max(S)

----------------------------------------------------------------------------
(***************************************************************************)
(* Aggregates                                                              *)
(***************************************************************************)

\* What the live product lines say of a product; a line costs one unit.
Truth(its, p) ==
  LET bought == {i \in its : i.live /\ i.product = p}
  IN  [purchases |-> Cardinality({i.txn : i \in bought}),
       total     |-> Cardinality(bought)]

HasLines(its, p) == \E i \in its : i.live /\ i.product = p

\* Mutant: only the products of live lines count as touched.
TouchedLive(its, t) == {i.product : i \in Live(its, t)} \ {None}

\* The products a run touched: those of its transaction's lines, retired or
\* not.
Touched(its, t) == {i.product : i \in Of(its, t)} \ {None}

\* The stats of the recompute: a product without a live line has no row.
Counted(its, ps) ==
  [p \in Products |-> IF p \in ps /\ HasLines(its, p) THEN Truth(its, p) ELSE None]

----------------------------------------------------------------------------
(***************************************************************************)
(* The agent's block                                                       *)
(***************************************************************************)

\* What an agent may read off a document: a line or two, the second a paid
\* modifier of the first, with a product of its own, or a charge without one.
Readings ==
  {<<[product |-> p, parent |-> 0]>> : p \in Products}
  \cup {<<[product |-> p, parent |-> 0], [product |-> q, parent |-> 1]>> :
          p \in Products, q \in Products}
  \cup {<<[product |-> p, parent |-> 0], [product |-> None, parent |-> 0]>> : p \in Products}

\* The lines a user typed, which survive and keep their numbers.
ManualOffset(its, t) == Greatest({i.line : i \in {j \in Live(its, t) : j.manual}}, 0)

\* Mutant: the new lines start at one again.
NumberedFromOne(its, t, reading, run) ==
  {[txn |-> t, line |-> n, parent |-> reading[n].parent, run |-> run,
    manual |-> FALSE, live |-> TRUE, product |-> reading[n].product]
   : n \in DOMAIN reading}

\* The new lines, numbered and referring to each other past the survivors.
Numbered(its, t, reading, run) ==
  LET off == ManualOffset(its, t)
  IN  {[txn |-> t, line |-> n + off,
        parent |-> IF reading[n].parent = 0 THEN 0 ELSE reading[n].parent + off,
        run |-> run, manual |-> FALSE, live |-> TRUE,
        product |-> reading[n].product] : n \in DOMAIN reading}

Retired(its, t) ==
  {IF i.txn = t /\ ~i.manual THEN [i EXCEPT !.live = FALSE] ELSE i : i \in its}

\* Mutant: the user's marks are not consulted.
RewrittenAll(h) ==
  [h EXCEPT !.value = [f \in Fields |-> "read"], !.stamp = h.version + 1,
            !.version = @ + 1]

\* The UPDATE of the transaction: what the user edited keeps its value.
Rewritten(h) ==
  [h EXCEPT !.value = [f \in Fields |-> IF f \in h.edited THEN h.value[f] ELSE "read"],
            !.stamp = h.version + 1, !.version = @ + 1]

\* The lines that the block of b leaves, over what others committed.
After(its, b) == Retired(its, b.txn) \cup b.arg.lines

\* The row of the document is locked by every block, that of the transaction
\* only if it is not deleted.
Writing(t)    == \E b \in Actors : call[b].at \in {"insert", "commit"} /\ call[b].txn = t
HeadLocked(t) == \E b \in Actors : /\ call[b].at \in {"insert", "commit"} /\ call[b].txn = t
                                   /\ call[b].arg.kept

\* The upsert holds the products of the new lines until the commit.
Holds(b, p) == call[b].at = "commit" /\ \E i \in call[b].arg.lines : i.product = p
Free(p)     == \A b \in Actors : ~Holds(b, p)

----------------------------------------------------------------------------
(***************************************************************************)
(* Requests                                                                *)
(***************************************************************************)

Begin(a) == call[a] = Quiet /\ served < MaxRequests /\ served' = served + 1

Go(a, c) == call' = [call EXCEPT ![a] = c]
Hang(a)  == Go(a, Quiet)

Abort(a) ==
  /\ call[a] # Quiet
  /\ Hang(a)
  /\ UNCHANGED <<head, items, catalog, told, served>>

\* snapshotReExtractFields
Snapshot(t) == [value |-> head[t].value, stamp |-> head[t].stamp, text |-> head[t].text]

\* POST /documents/:id/re-extract does not look at the transaction's
\* deleted_at.
BeginReExtract(a) ==
  \E t \in Txns :
    /\ Begin(a) /\ head[t].state # "gone"
    /\ Go(a, [Quiet EXCEPT !.at = "agent", !.txn = t, !.seen = Snapshot(t)])
    /\ UNCHANGED <<head, items, catalog, told>>

\* The updates of the head rows and the retirement lock their rows; then the
\* insert takes its run and its offset from the lines it sees.
OpenBlock(a) ==
  LET t == call[a].txn
  IN  /\ call[a].at = "agent" /\ head[t].state # "gone" /\ ~Writing(t)
      /\ \E reading \in Readings :
           Go(a, [call[a] EXCEPT !.at = "insert", !.arg =
             [lines  |-> Numbered(items, t, reading,
                                  Greatest({i.run : i \in Of(items, t)}, 0) + 1),
              off    |-> ManualOffset(items, t),
              kept   |-> head[t].state = "kept",
              counts |-> Counted(items, {})]])
      /\ UNCHANGED <<head, items, catalog, told, served>>

\* The insert waits for the rows of its products, then the recompute counts
\* the products the run touched.
InsertLines(a) ==
  LET its == After(items, call[a])
  IN  /\ call[a].at = "insert"
      /\ \A i \in call[a].arg.lines : i.product # None => Free(i.product)
      /\ Go(a, [call[a] EXCEPT !.at = "commit",
                              !.arg.counts = Counted(its, Touched(its, call[a].txn))])
      /\ UNCHANGED <<head, items, catalog, told, served>>

\* The recompute waits for the rows it updates and writes what it counted.
\* The transaction row is not updated if it was deleted; all the rest is
\* written all the same.
CloseBlock(a) ==
  LET t == call[a].txn  block == call[a].arg
  IN  /\ call[a].at = "commit"
      /\ \A p \in Products, b \in Actors \ {a} : block.counts[p] # None => ~Holds(b, p)
      /\ \E text \in {head[t].text, "new"} :
           head' = [head EXCEPT ![t] =
             [(IF block.kept THEN Rewritten(@) ELSE @) EXCEPT !.text = text]]
      /\ items' = After(items, call[a])
      /\ catalog' = [p \in Products |->
           [state |-> IF catalog[p].state = "absent" /\ Holds(a, p) THEN "listed"
                      ELSE catalog[p].state,
            stats |-> IF block.counts[p] # None THEN block.counts[p] ELSE catalog[p].stats]]
      /\ Go(a, [call[a] EXCEPT !.at = "after", !.arg = None, !.wrote = TRUE])
      /\ UNCHANGED <<told, served>>

\* A statement fails, or a deadlock is broken: nothing of the block stays,
\* and the agent may run it again.
FailBlock(a) ==
  /\ call[a].at \in {"insert", "commit"}
  /\ Go(a, [call[a] EXCEPT !.at = "agent", !.arg = None])
  /\ UNCHANGED <<head, items, catalog, told, served>>

\* The agent ends without its block.
WriteNothing(a) ==
  /\ call[a].at = "agent"
  /\ Go(a, [call[a] EXCEPT !.at = "after"])
  /\ UNCHANGED <<head, items, catalog, told, served>>

\* The outcome is the difference of the two snapshots.
FinishReExtract(a) ==
  LET t == call[a].txn
  IN  /\ call[a].at = "after" /\ head[t].state # "gone"
      /\ told' = [outcome |-> IF Snapshot(t) = call[a].seen THEN "no_change" ELSE "written",
                  wrote |-> call[a].wrote]
      /\ Hang(a)
      /\ UNCHANGED <<head, items, catalog, served>>

\* POST /transactions/:id/items with one line, numbered or not.
ReadItems(a) ==
  \E t \in Txns, line \in Lines \cup {0}, p \in Products \cup {None} :
    LET live == Live(items, t)
    IN  /\ Begin(a) /\ head[t].state = "kept"
        /\ p # None => catalog[p].state # "absent"
        /\ Go(a, [Quiet EXCEPT !.at = "items", !.txn = t,
             !.arg = [line    |-> IF line # 0 THEN line
                                  ELSE Greatest({i.line : i \in live}, 0) + 1,
                      run     |-> Greatest({i.run : i \in live}, 1),
                      product |-> p]])
        /\ UNCHANGED <<head, items, catalog, told>>

\* Under the unique index on transaction, line and run.
AddTransactionItems(a) ==
  LET t == call[a].txn  new == call[a].arg
  IN  /\ call[a].at = "items" /\ head[t].state # "gone"
      /\ ~\E i \in Of(items, t) : i.line = new.line /\ i.run = new.run
      /\ items' = items \cup {[txn |-> t, line |-> new.line, parent |-> 0, run |-> new.run,
                               manual |-> TRUE, live |-> TRUE, product |-> new.product]}
      /\ Hang(a)
      /\ UNCHANGED <<head, catalog, told, served>>

\* The body of a PATCH: at most one field (a bound), and metadata that is left
\* out ("stored"), that has neither marks nor stamp ("bare"), or that is what
\* was read with these marks ("marked").
Patches ==
  {b \in [fields : {{}} \cup {{f} : f \in Fields}, meta : {"stored", "bare", "marked"},
          marks : SUBSET Fields] :
     /\ b.meta # "marked" => b.marks = {}
     /\ b.fields # {} \/ b.meta # "stored"}

ReadForUpdate(a) ==
  \E t \in Txns, body \in Patches :
    /\ Begin(a) /\ head[t].state # "gone"
    /\ Go(a, [Quiet EXCEPT !.at = "patch", !.txn = t, !.seen = head[t], !.arg = body])
    /\ UNCHANGED <<head, items, catalog, told>>

\* The marks that are written: those of the metadata given, else those that
\* were read, and the patched fields; metadata alone is stored as it is.
MarksWritten(seen, body) ==
  body.fields \cup CASE body.meta = "marked" -> body.marks
                     [] body.meta = "bare" /\ body.fields = {} -> {}
                     [] OTHER -> seen.edited

UpdateTransaction(a) ==
  LET t == call[a].txn  body == call[a].arg  seen == call[a].seen
  IN  /\ call[a].at = "patch" /\ head[t].state # "gone" /\ ~HeadLocked(t)
      /\ head' = [head EXCEPT
           ![t].value = [f \in Fields |-> IF f \in body.fields THEN "typed" ELSE @[f]],
           ![t].edited = MarksWritten(seen, body),
           ![t].stamp = IF body.meta = "bare" THEN 0 ELSE seen.stamp,
           ![t].version = @ + 1]
      /\ Hang(a)
      /\ UNCHANGED <<items, catalog, told, served>>

\* Deleting and restoring a transaction (see Ledger); its lines go with it.
DeleteTransaction(a) ==
  \E t \in Txns :
    /\ Begin(a)
    /\ \/ /\ head[t].state # "gone" /\ ~Writing(t)
          /\ head' = [head EXCEPT ![t].state = "gone", ![t].version = @ + 1]
          /\ items' = items \ Of(items, t)
       \/ /\ head[t].state # "gone" /\ ~HeadLocked(t)
          /\ head' = [head EXCEPT ![t].state = IF @ = "kept" THEN "deleted" ELSE "kept",
                                  ![t].version = @ + 1]
          /\ UNCHANGED items
    /\ UNCHANGED <<catalog, call, told>>

----------------------------------------------------------------------------
(***************************************************************************)
(* Products                                                                *)
(***************************************************************************)

Nothing == [purchases |-> 0, total |-> 0]

\* POST /products: a key that is there is left as it is.
CreateProduct(a) ==
  \E p \in Products :
    /\ Begin(a) /\ catalog[p].state = "absent" /\ Free(p)
    /\ catalog' = [catalog EXCEPT ![p] = [state |-> "listed", stats |-> Nothing]]
    /\ UNCHANGED <<head, items, call, told>>

\* PATCH /products/:id of retired_from_catalog_at.
UpdateProduct(a) ==
  \E p \in Products :
    /\ Begin(a) /\ catalog[p].state # "absent" /\ Free(p)
    /\ catalog' = [catalog EXCEPT ![p].state = IF @ = "listed" THEN "retired" ELSE "listed"]
    /\ UNCHANGED <<head, items, call, told>>

\* POST /products/:id/recompute counts the lines of a product, none as
\* nothing, then waits for its row.
CountLines(a) ==
  \E p \in Products :
    /\ Begin(a) /\ catalog[p].state # "absent"
    /\ Go(a, [Quiet EXCEPT !.at = "recount", !.arg = [product |-> p, stats |-> Truth(items, p)]])
    /\ UNCHANGED <<head, items, catalog, told>>

RecomputeProductStats(a) ==
  LET p == call[a].arg.product
  IN  /\ call[a].at = "recount" /\ Free(p)
      /\ catalog' = [catalog EXCEPT ![p].stats = call[a].arg.stats]
      /\ Hang(a)
      /\ UNCHANGED <<head, items, told, served>>

\* The row of a line, by the columns of its unique index.
Key(i) == <<i.txn, i.line, i.run>>

\* POST /products/:id/merge_into looks at the source's retirement only.
ReadForMerge(a) ==
  \E p, q \in Products :
    /\ Begin(a) /\ p # q
    /\ catalog[p].state = "listed" /\ catalog[q].state # "absent"
    /\ Go(a, [Quiet EXCEPT !.at = "merge", !.arg = [from |-> p, to |-> q, rows |-> {}]])
    /\ UNCHANGED <<head, items, catalog, told>>

\* The UPDATE that moves the lines finds them ...
FindLines(a) ==
  /\ call[a].at = "merge"
  /\ Go(a, [call[a] EXCEPT !.at = "move",
       !.arg.rows = {Key(i) : i \in {j \in items : j.product = call[a].arg.from}}])
  /\ UNCHANGED <<head, items, catalog, told, served>>

\* ... and waits for those that a block has retired and for the two products.
MergeInto(a) ==
  LET p == call[a].arg.from  q == call[a].arg.to
      found(i) == Key(i) \in call[a].arg.rows
      its == {IF found(i) /\ i.product = p THEN [i EXCEPT !.product = q] ELSE i : i \in items}
  IN  /\ call[a].at = "move" /\ Free(p) /\ Free(q)
      /\ \A i \in items : found(i) /\ i.live /\ ~i.manual => ~Writing(i.txn)
      /\ items' = its
      /\ catalog' = [catalog EXCEPT ![p] = [state |-> "retired", stats |-> Nothing],
                                    ![q].stats = Truth(its, q)]
      /\ Hang(a)
      /\ UNCHANGED <<head, told, served>>

----------------------------------------------------------------------------
\* Two purchases of whatever the agents read off them, counted.
Init ==
  /\ head = [t \in Txns |-> [state |-> "kept", value |-> [f \in Fields |-> "read"],
                            edited |-> {}, stamp |-> 1, text |-> "old", version |-> 1]]
  /\ \E p \in Products :
       /\ items = {[txn |-> t, line |-> 1, parent |-> 0, run |-> 1, manual |-> FALSE,
                    live |-> TRUE, product |-> p] : t \in Txns}
       /\ catalog = [q \in Products |->
            [state |-> IF q = p THEN "listed" ELSE "absent", stats |-> Truth(items, q)]]
  /\ call = [a \in Actors |-> Quiet]
  /\ told = [outcome |-> "none", wrote |-> FALSE]
  /\ crossed = {}
  /\ served = 0

\* The live lines of a product, and the calls that have read them and have
\* yet to write or to commit.
LiveOf(its, p) == {i \in its : i.live /\ i.product = p}

AtWork(b, p) ==
  \/ call[b].at = "recount" /\ call[b].arg.product = p
  \/ call[b].at = "move" /\ p \in {call[b].arg.from, call[b].arg.to}
  \/ /\ call[b].at = "commit"
     /\ \/ call[b].arg.counts[p] # None
        \/ \E i \in LiveOf(items, p) : i.txn = call[b].txn /\ ~i.manual

\* History: the lines of a product change while another call is at work on
\* it, until the figures are right again and nobody is.
Watch ==
  crossed' = {p \in Products :
    /\ \/ p \in crossed
       \/ /\ LiveOf(items', p) # LiveOf(items, p)
          /\ \E b \in Actors : call'[b] = call[b] /\ AtWork(b, p)
    /\ \/ catalog'[p].stats # Truth(items', p)
       \/ \E b \in Actors : AtWork(b, p)'}

Step(a) ==
  \/ BeginReExtract(a) \/ OpenBlock(a) \/ InsertLines(a) \/ CloseBlock(a) \/ FailBlock(a)
  \/ WriteNothing(a) \/ FinishReExtract(a)
  \/ ReadItems(a) \/ AddTransactionItems(a)
  \/ ReadForUpdate(a) \/ UpdateTransaction(a)
  \/ DeleteTransaction(a)
  \/ CreateProduct(a) \/ UpdateProduct(a) \/ CountLines(a) \/ RecomputeProductStats(a)
  \/ ReadForMerge(a) \/ FindLines(a) \/ MergeInto(a)
  \/ Abort(a)

Next == (\E a \in Actors : Step(a)) /\ Watch

Spec == Init /\ [][Next]_vars

----------------------------------------------------------------------------
(***************************************************************************)
(* Properties                                                              *)
(***************************************************************************)

\* Every variable has its type (schema/transaction_items.ts, products.ts).
TypeOK ==
  /\ head \in [Txns -> HeadRow]
  /\ items \subseteq Item
  /\ catalog \in [Products -> ProductRow]
  /\ DOMAIN call = Actors
  /\ told \in [outcome : {"none", "written", "no_change"}, wrote : BOOLEAN]
  /\ crossed \subseteq Products
  /\ served \in 0 .. MaxRequests

\* The live lines of a transaction have numbers of their own, and a modifier
\* points at a line of its own run.
InOrder(its, t) ==
  /\ \A i, j \in Live(its, t) : i.line = j.line => i = j
  /\ \A i \in Live(its, t) : i.parent # 0 =>
       \E j \in Live(its, t) : j.line = i.parent /\ j.run = i.run /\ ~j.manual

Runs(its, t) == {i.run : i \in {j \in Of(its, t) : ~j.manual}}

\* A re-extraction never loses a line a user typed, and brings the lines of a
\* transaction out of order only if one was typed past its numbers after it
\* took them, whatever was typed, retired or merged before.
RewriteKeepsLines ==
  [][\A t \in Txns : Runs(items', t) # Runs(items, t) /\ head'[t].state # "gone" =>
       /\ {i \in Live(items, t) : i.manual} \subseteq Live(items', t)
       /\ InOrder(items, t) =>
            \/ InOrder(items', t)
            \/ \E a \in Actors, i \in Live(items, t) :
                 /\ call[a].at = "commit" /\ call[a].txn = t
                 /\ i.manual /\ i.line > call[a].arg.off]_vars

\* The stored figures of a product are the sums over its live lines, however
\* it was dropped, bought again, merged or recomputed, but for four cases:
\* lines typed by hand and lines of deleted transactions are not counted
\* until a recount, a product that lost its last line keeps its figures, and
\* a count that was taken before the lines changed is written after.
DriftIsExplained ==
  \A p \in Products : catalog[p].stats # Truth(items, p) =>
    \/ ~HasLines(items, p)
    \/ \E i \in items : i.live /\ i.manual /\ i.product = p
    \/ \E t \in Txns : head[t].state = "gone"
    \/ p \in crossed

\* A value that a user typed is read over by an agent only after its mark was
\* dropped, and a mark is dropped only by a patch that had read the row
\* before it was set, or whose own metadata leaves it out: metadata sent
\* alone without user_edited, or a user_edited without the mark.
EditLostByPatchOnly ==
  [][\A t \in Txns, f \in Fields :
       /\ head[t].value[f] = "typed" /\ head'[t].value[f] = "read" => f \notin head[t].edited
       /\ f \in head[t].edited \ head'[t].edited =>
            \E a \in Actors :
              /\ call[a].at = "patch" /\ call[a].txn = t
              /\ \/ call[a].seen.version < head[t].version
                 \/ call[a].arg.meta = "bare" /\ call[a].arg.fields = {}
                 \/ call[a].arg.meta = "marked" /\ f \notin call[a].arg.marks]_vars

\* What items-sql.ts:253 says: a product that dropped out of the new run is
\* recomputed with the others.
DroppedAreRecomputed ==
  (\A t \in Txns : head[t].state # "gone") =>
    \A p \in Products : ~HasLines(items, p) => catalog[p].stats = Nothing

\* What projection/layer3.ts says: an agent never reads over what a user typed.
EditsSurviveReExtract ==
  [][\A t \in Txns, f \in Fields :
       head[t].value[f] = "typed" => head'[t].value[f] = "typed"]_vars

\* What reExtractDocument says (documents.service.ts:1235): an empty
\* difference means that the agent wrote nothing.
NoChangeIsTrue == told.outcome = "no_change" => ~told.wrote

\* What addTransactionItems says (transactions.service.ts:904): an explicit
\* number makes a request safe to repeat, so no two live lines share one.
LinesApart == \A t \in Txns : \A i, j \in Live(items, t) : i.line = j.line => i = j
=============================================================================
