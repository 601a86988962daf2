--------------------------------- MODULE Pages ---------------------------------
(***************************************************************************)
(* The lists of the API and their cursors (src/http/pagination.ts): a      *)
(* client fetches a list page by page, each page from the last key of the  *)
(* one before, while rows are inserted, touched, hidden and shown again.   *)
(*                                                                         *)
(* A sort key is an instant or an amount and the id of the row.  An        *)
(* instant has milliseconds and what the database keeps below them, which  *)
(* the cursors of some lists drop.                                         *)
(***************************************************************************)
EXTENDS Integers, FiniteSets

CONSTANTS
  Ids,       \* row ids, in the order of the database
  Instants,  \* bound: milliseconds, and microseconds within one
  Limit,     \* rows of a page
  MaxWrites  \* bound: writes in a behaviour

ASSUME PagesAssumption ==
  /\ Ids \subseteq Int
  /\ Instants \subseteq Nat /\ 0 \in Instants
  /\ Limit \in Nat \ {0}
  /\ MaxWrites \in Nat

VARIABLES
  list,     \* the list that is fetched
  order,
  row,      \* the rows behind it
  at,       \* the client: no list, before the first page, with a cursor, done
  cursor,
  seen,     \* rows it was shown
  twice,    \* rows it was shown more than once
  steady,   \* rows in the list since the first page, never written to
  ends,     \* the milliseconds of the keys its cursors were made of
  writes

pageVars == <<list, order, row, at, cursor, seen, twice, steady, ends, writes>>

Row   == [ms : Instants, us : Instants, shown : BOOLEAN]
NoRow == [ms |-> 0, us |-> 0, shown |-> FALSE]

----------------------------------------------------------------------------
(***************************************************************************)
(* The lists: their orders, whether an edit changes the key of a row,      *)
(* whether a cursor keeps the whole key, and whether a row that left can   *)
(* come back.                                                              *)
(***************************************************************************)

List == [orders : SUBSET {"asc", "desc"}, moves : BOOLEAN, exact : BOOLEAN,
         returns : BOOLEAN]

\* A key that is written once, with deleted or retired rows left out.
ByCreation == [orders |-> {"desc"}, moves |-> FALSE, exact |-> TRUE, returns |-> TRUE]

TransactionsByCreation == [ByCreation EXCEPT !.orders = {"asc", "desc"}]
PostingList            == ByCreation
ItemList               == [ByCreation EXCEPT !.returns = FALSE]

\* created_at passes through a Date on its way into the cursor.
BatchList  == [ByCreation EXCEPT !.exact = FALSE]
IngestList == [ByCreation EXCEPT !.exact = FALSE]

\* occurred_on and the largest leg can be edited.
TransactionsByDate   == [TransactionsByCreation EXCEPT !.moves = TRUE]
Register             == [ByCreation EXCEPT !.moves = TRUE]
MerchantTransactions == [ByCreation EXCEPT !.moves = TRUE]

\* updated_at: every edit brings its row to the top.
ProductList   == [ByCreation EXCEPT !.moves = TRUE]
OwnedItemList == [ByCreation EXCEPT !.moves = TRUE]
WishItemList  == [ByCreation EXCEPT !.moves = TRUE]

Lists == {TransactionsByCreation, TransactionsByDate, PostingList, ItemList, BatchList,
          IngestList, Register, MerchantTransactions, ProductList, OwnedItemList,
          WishItemList}

----------------------------------------------------------------------------
(* Keys and cursors.                                                       *)

Key(r) == [ms |-> row[r].ms, us |-> row[r].us, id |-> r]

Less(k, l) == \/ k.ms < l.ms
              \/ k.ms = l.ms /\ k.us < l.us
              \/ k.ms = l.ms /\ k.us = l.us /\ k.id < l.id

After(k, l) == IF order = "desc" THEN Less(k, l) ELSE Less(l, k)

CursorOf(r) == IF list.exact THEN Key(r) ELSE [Key(r) EXCEPT !.us = 0]

\* Mutant: the id is not part of the comparison.
BeyondInstant(k) ==
  IF order = "desc" THEN Less(k, [cursor EXCEPT !.id = k.id])
                    ELSE Less([cursor EXCEPT !.id = k.id], k)

\* The WHERE of a cursor.
Beyond(k) == After(k, cursor)

Candidates == {r \in Ids : row[r].shown /\ (at = "first" \/ Beyond(Key(r)))}

\* A client turns to a list, with the rows that are there.
OpenList ==
  /\ at = "closed" /\ at' = "first"
  /\ list' \in Lists /\ order' \in list'.orders
  /\ row' \in [Ids -> Row]
  /\ UNCHANGED <<cursor, seen, twice, steady, ends, writes>>

\* ORDER BY the key, LIMIT one more than the page: if that one is there, the
\* last row of the page makes the next cursor.
NextPage ==
  \E page \in SUBSET Candidates :
    /\ at \in {"first", "more"}
    /\ \A r \in page, s \in Candidates \ page : After(Key(s), Key(r))
    /\ \/ /\ page = Candidates /\ Cardinality(page) <= Limit
          /\ at' = "done"
          /\ UNCHANGED <<cursor, ends>>
       \/ /\ page # Candidates /\ Cardinality(page) = Limit
          /\ at' = "more"
          /\ \E last \in page :
               /\ \A r \in page \ {last} : After(Key(last), Key(r))
               /\ cursor' = CursorOf(last)
               /\ ends' = ends \cup {row[last].ms}
    /\ seen' = seen \cup page
    /\ twice' = twice \cup (seen \cap page)
    /\ steady' = IF at = "first" THEN Candidates ELSE steady
    /\ UNCHANGED <<list, order, row, writes>>

----------------------------------------------------------------------------
(* What others do to the rows.                                             *)

Write(r, to) ==
  /\ at # "closed" /\ writes < MaxWrites /\ writes' = writes + 1
  /\ row' = [row EXCEPT ![r] = to]
  /\ steady' = steady \ {r}
  /\ UNCHANGED <<list, order, at, cursor, seen, twice, ends>>

\* A row has the instant at which its database transaction began, which is
\* not the order of commits, and a random id: it turns up anywhere.
InsertRow ==
  \E r \in Ids, ms, us \in Instants :
    /\ ~row[r].shown
    /\ list.returns \/ r \notin seen
    /\ Write(r, [ms |-> ms, us |-> us, shown |-> TRUE])

EditRow ==
  \E r \in Ids, ms, us \in Instants :
    /\ list.moves /\ row[r].shown
    /\ Write(r, [ms |-> ms, us |-> us, shown |-> TRUE])

\* Deleted, retired, or left out by the filter from now on.
HideRow == \E r \in Ids : row[r].shown /\ Write(r, [row[r] EXCEPT !.shown = FALSE])

PagesInit ==
  /\ list = ByCreation /\ order = "desc"
  /\ row = [r \in Ids |-> NoRow]
  /\ at = "closed" /\ cursor = [ms |-> 0, us |-> 0, id |-> 0]
  /\ seen = {} /\ twice = {} /\ steady = {} /\ ends = {}
  /\ writes = 0

PagesNext == OpenList \/ NextPage \/ InsertRow \/ EditRow \/ HideRow

----------------------------------------------------------------------------
\* A row that stays as it is from the first page to the last is on exactly
\* one of them, whatever is inserted, edited or hidden around it (what
\* http/pagination.ts builds the cursor for).  The lists of batches and of
\* ingests keep this only up to the milliseconds in their cursors.
PagesPartition ==
  /\ twice \cap steady = {}
  /\ at = "done" => \A r \in steady \ seen : ~list.exact /\ row[r].ms \in ends

\* What http/pagination.ts:4 says of every cursor: it is the tuple that the
\* list sorts on.  So no row that stays is left out; of a batch, whose
\* ingests are inserted in one statement, all but the first page is.
PagesComplete == at = "done" => steady \subseteq seen
=============================================================================
