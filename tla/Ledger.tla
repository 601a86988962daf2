------------------------------- MODULE Ledger -------------------------------
(***************************************************************************)
(* The double-entry ledger: transactions with their postings and their     *)
(* audit trail (src/routes/transactions.service.ts), the accounts they are *)
(* posted to (src/routes/accounts.ts), the triggers of the database that   *)
(* guard them (drizzle/0001_ledger_invariants.sql) and the figures that    *)
(* the reports compute from them (src/routes/reports.ts).                  *)
(*                                                                         *)
(* A request that changes an existing row reads it, compares its version   *)
(* with the If-Match header and checks its state; it then writes by id and *)
(* commits.  The database runs at READ COMMITTED, so other requests commit *)
(* between the two steps and the write is applied to whatever row is there *)
(* then.  The write and the commit are one step: every request updates the *)
(* transactions row before it commits, and that row lock puts the commits  *)
(* in an order in which each sees the ones before it.                      *)
(***************************************************************************)
EXTENDS Integers, SequencesExt

CONSTANTS
  Txns,
  Postings,     \* posting ids: a bound on how many are ever inserted
  Accounts,
  TypeOf,       \* accounts.type, which no request changes
  PointsAccounts, \* the accounts whose currency is a loyalty programme's
  Seeded,       \* the accounts that are there from the start
  Actors,       \* concurrent requests
  Amounts,      \* bound: base amounts a posting may be given
  Months,       \* bound: months of occurred_on
  None,         \* no row, no value
  MaxRequests   \* bound: requests in a behaviour

AccountTypes == {"asset", "liability", "equity", "income", "expense"}

ASSUME LedgerAssumption ==
  /\ IsFiniteSet(Postings) /\ IsFiniteSet(Accounts)
  /\ TypeOf \in [Accounts -> AccountTypes]
  /\ PointsAccounts \cup Seeded \subseteq Accounts
  /\ Amounts \subseteq Int
  /\ Months \subseteq Nat
  /\ None \notin Txns \cup Accounts \cup Postings
  /\ MaxRequests \in Nat

VARIABLES
  txn,     \* transactions
  post,    \* postings
  acct,    \* accounts
  trail,   \* transaction_events of each transaction, in commit order
  call,    \* the request of each actor
  served   \* how many requests were begun

vars == <<txn, post, acct, trail, call, served>>

Status == {"absent", "draft", "posted", "reconciled", "gone"}
Money  == {"posted", "reconciled"}           \* the statuses the triggers guard
Review == {"none", "flagged", "reviewed"}    \* metadata.near_dup_check

\* edited stands for the non-empty metadata.user_edited flags, of which it
\* keeps whether the date is protected.
NoTxn  == [status |-> "absent", deleted |-> FALSE, month |-> 0,
           edited |-> FALSE, near |-> "none", version |-> 0]
Free   == [txn |-> None, acct |-> None, base |-> 0]
Spent  == [Free EXCEPT !.base = 1]           \* the id of a deleted posting

TxnRow  == [status : Status, deleted : BOOLEAN, month : Nat,
            edited : BOOLEAN, near : Review, version : Nat]
AcctRow == [state : {"absent", "open", "closed", "gone"},
            parent : Accounts \cup {None}, version : Nat]
PostRow == [txn : Txns, acct : Accounts, base : Amounts] \cup {Free, Spent}

Ops == {"update", "hardDelete", "softDelete", "restore", "reconcile",
        "unreconcile", "addPosting", "updatePosting", "deletePosting",
        "stampReview", "patchAccount", "dropAccount"}

\* What a request has in hand after its read: the row it is about, the row as
\* it read it, the posting and the new values it was sent.
Quiet == [op |-> "none", id |-> None, row |-> NoTxn, item |-> None, arg |-> None]

Kept(t)   == txn[t].status \notin {"absent", "gone"}
Exists(a) == acct[a].state \in {"open", "closed"}
Counts(t) == txn[t].status \in Money /\ ~txn[t].deleted

----------------------------------------------------------------------------
(***************************************************************************)
(* The deferred balance trigger                                            *)
(***************************************************************************)

\* The legs of a transaction as the trigger selects them, with base amounts.
Book(ps, t) == [p \in {q \in Postings : ps[q].txn = t} |-> ps[p].base]

Total(book) == FoldFunction(LAMBDA x, y : x + y, 0, book)

Balanced(book) == Cardinality(DOMAIN book) >= 2 /\ Total(book) = 0

\* Mutant: the posting trigger looks at reconciled transactions only.
PostingsCommitReconciled(ps, t) ==
  txn[t].status = "reconciled" => Balanced(Book(ps, t))

\* Fires per changed posting at COMMIT: drafts are exempt, a row that is no
\* longer there as well.
PostingsCommit(ps, t) == txn[t].status \in Money => Balanced(Book(ps, t))

\* Fires at COMMIT when the status changed to one that counts.
StatusCommit(t, s) == s \in Money \ {txn[t].status} => Balanced(Book(post, t))

----------------------------------------------------------------------------
(***************************************************************************)
(* Requests                                                                *)
(***************************************************************************)

Begin(a) == call[a] = Quiet /\ served < MaxRequests /\ served' = served + 1

\* The request has read the row and its guards have let it pass.
Proceed(a, op, id, row, item, arg) ==
  /\ call' = [call EXCEPT ![a] = [op |-> op, id |-> id, row |-> row,
                                 item |-> item, arg |-> arg]]
  /\ UNCHANGED <<txn, post, acct, trail>>

Hang(a)   == call' = [call EXCEPT ![a] = Quiet]
Log(t, e) == trail' = [trail EXCEPT ![t] = Append(@, e)]

\* UPDATE transactions SET ... WHERE id: the trigger bumps the version.
Write(t, row) == txn' = [txn EXCEPT ![t] = [row EXCEPT !.version = txn[t].version + 1]]

\* A commit that a trigger or a foreign key refuses, a database error, a
\* connection that breaks: the transaction rolls back.
Rollback(a) ==
  /\ call[a] # Quiet
  /\ Hang(a)
  /\ UNCHANGED <<txn, post, acct, trail, served>>

\* POST /transactions, with two postings.
CreateTransaction(a) ==
  \E t \in {u \in Txns : txn[u].status = "absent"}, s \in Status \ {"absent", "gone"},
     m \in Months, x, y \in {z \in Accounts : Exists(z)}, b, c \in Amounts,
     p, q \in {r \in Postings : post[r] = Free} :
    LET ps == [post EXCEPT ![p] = [txn |-> t, acct |-> x, base |-> b],
                           ![q] = [txn |-> t, acct |-> y, base |-> c]]
    IN  /\ p # q
        /\ s \in Money => Balanced(Book(ps, t))
        /\ txn' = [txn EXCEPT ![t] = [NoTxn EXCEPT !.status = s, !.month = m,
                                                  !.version = 1]]
        /\ post' = ps
        /\ Log(t, s)
        /\ UNCHANGED <<acct, call>>

\* The reads of the requests on an existing transaction, with their guards.
\* PATCH sends a new date or none, and metadata that is empty, or the
\* metadata it was shown, or none (with a date, the last two are the same).
ReadForUpdate(a) ==
  \E t \in Txns, m \in Months \cup {0}, md \in {"omitted", "empty", "shown"} :
    /\ Kept(t) /\ (m = 0 \/ md # "shown")
    /\ Proceed(a, "update", t, txn[t], None, [month |-> m, metadata |-> md])

\* Mutant: the gate on reconciled transactions is missing.
DeletableAlways(t) == Kept(t)

Deletable(t) == Kept(t) /\ txn[t].status # "reconciled"

ReadForHardDelete(a) ==
  \E t \in Txns :
    Deletable(t) /\ Proceed(a, "hardDelete", t, txn[t], None, None)

ReadForSoftDelete(a) ==
  \E t \in Txns :
    /\ Deletable(t) /\ ~txn[t].deleted
    /\ Proceed(a, "softDelete", t, txn[t], None, None)

ReadForRestore(a) ==
  \E t \in Txns :
    /\ Kept(t) /\ txn[t].deleted
    /\ Proceed(a, "restore", t, txn[t], None, None)

\* Neither looks at deleted_at.
ReadForReconcile(a) ==
  \E t \in Txns :
    txn[t].status = "posted" /\ Proceed(a, "reconcile", t, txn[t], None, None)

ReadForUnreconcile(a) ==
  \E t \in Txns :
    txn[t].status = "reconciled" /\ Proceed(a, "unreconcile", t, txn[t], None, None)

ReadForAddPosting(a) ==
  \E t \in Txns, x \in Accounts, b \in Amounts :
    /\ Kept(t) /\ Exists(x)
    /\ Proceed(a, "addPosting", t, txn[t], None, [acct |-> x, base |-> b])

\* A new account or a new amount.  The account is not validated; only the
\* foreign key will.
ReadForUpdatePosting(a) ==
  \E t \in Txns, p \in Postings, x \in Accounts, b \in Amounts :
    /\ Kept(t) /\ post[p].txn = t
    /\ x = post[p].acct \/ b = post[p].base
    /\ Proceed(a, "updatePosting", t, txn[t], p, [acct |-> x, base |-> b])

ReadForDeletePosting(a) ==
  \E t \in Txns, p \in Postings :
    /\ Kept(t) /\ post[p].txn = t
    /\ txn[t].status \in Money => Cardinality(DOMAIN Book(post, t)) > 2
    /\ Proceed(a, "deletePosting", t, txn[t], p, None)

----------------------------------------------------------------------------
(***************************************************************************)
(* Their writes                                                            *)
(***************************************************************************)

\* Request a is about to write to the row of t, which is still there; if it
\* is not, the event's foreign key fails.
Writing(a, op, t) == call[a].op = op /\ call[a].id = t /\ Kept(t)

\* A date in the patch marks the date as edited by the user; the metadata
\* that carries the mark is the patch's, or else what was read.  A patch
\* with metadata and no date stores it as it is.
UpdateTransaction(a) ==
  \E t \in Txns :
    LET c     == call[a]
        dated == c.arg.month # 0
        empty == c.arg.metadata = "empty"
        whole == dated \/ c.arg.metadata # "omitted"
    IN  /\ Writing(a, "update", t)
        /\ Write(t, [txn[t] EXCEPT
             !.month  = IF dated THEN c.arg.month ELSE @,
             !.edited = IF dated THEN TRUE ELSE IF empty THEN FALSE
                        ELSE IF whole THEN c.row.edited ELSE @,
             !.near   = IF empty THEN "none" ELSE IF whole THEN c.row.near ELSE @])
        /\ Log(t, "updated") /\ Hang(a)
        /\ UNCHANGED <<post, acct, served>>

\* The postings go with the row; its events stay.
DeleteTransaction(a) ==
  \E t \in Txns :
    /\ Writing(a, "hardDelete", t)
    /\ Write(t, [txn[t] EXCEPT !.status = "gone"])
    /\ post' = [p \in Postings |-> IF post[p].txn = t THEN Spent ELSE post[p]]
    /\ Log(t, "hard_deleted") /\ Hang(a)
    /\ UNCHANGED <<acct, served>>

SoftDeleteTransaction(a) ==
  \E t \in Txns :
    /\ Writing(a, "softDelete", t)
    /\ Write(t, [txn[t] EXCEPT !.deleted = TRUE])
    /\ Log(t, "deleted") /\ Hang(a)
    /\ UNCHANGED <<post, acct, served>>

\* Mutant: the restore leaves no event.
RestoreUnlogged(a) ==
  \E t \in Txns :
    /\ Writing(a, "restore", t)
    /\ Write(t, [txn[t] EXCEPT !.deleted = FALSE])
    /\ Hang(a)
    /\ UNCHANGED <<trail, post, acct, served>>

RestoreTransaction(a) ==
  \E t \in Txns :
    /\ Writing(a, "restore", t)
    /\ Write(t, [txn[t] EXCEPT !.deleted = FALSE])
    /\ Log(t, "restored") /\ Hang(a)
    /\ UNCHANGED <<post, acct, served>>

ReconcileTransaction(a) ==
  \E t \in Txns :
    /\ Writing(a, "reconcile", t)
    /\ StatusCommit(t, "reconciled")
    /\ Write(t, [txn[t] EXCEPT !.status = "reconciled"])
    /\ Log(t, "reconciled") /\ Hang(a)
    /\ UNCHANGED <<post, acct, served>>

UnreconcileTransaction(a) ==
  \E t \in Txns :
    /\ Writing(a, "unreconcile", t)
    /\ StatusCommit(t, "posted")
    /\ Write(t, [txn[t] EXCEPT !.status = "posted"])
    /\ Log(t, "unreconciled") /\ Hang(a)
    /\ UNCHANGED <<post, acct, served>>

\* What the three posting requests have in common: their rows, the parent's
\* version, the event, and the trigger on what they leave behind.
CommitPostings(a, t, ps, event) ==
  /\ PostingsCommit(ps, t)
  /\ post' = ps
  /\ Write(t, txn[t])
  /\ Log(t, event) /\ Hang(a)
  /\ UNCHANGED <<acct, served>>

AddPosting(a) ==
  \E t \in Txns, p \in Postings :
    /\ Writing(a, "addPosting", t)
    /\ post[p] = Free /\ Exists(call[a].arg.acct)
    /\ CommitPostings(a, t,
         [post EXCEPT ![p] = [txn |-> t, acct |-> call[a].arg.acct,
                              base |-> call[a].arg.base]], "posting_added")

\* A posting that is gone by now is not found; the event is still written.
UpdatePosting(a) ==
  \E t \in Txns :
    LET p == call[a].item
    IN  /\ Writing(a, "updatePosting", t)
        /\ post[p] # Spent => Exists(call[a].arg.acct)
        /\ CommitPostings(a, t,
             IF post[p] = Spent THEN post
             ELSE [post EXCEPT ![p] = [txn |-> t, acct |-> call[a].arg.acct,
                                       base |-> call[a].arg.base]], "posting_updated")

DeletePosting(a) ==
  \E t \in Txns :
    /\ Writing(a, "deletePosting", t)
    /\ CommitPostings(a, t, [post EXCEPT ![call[a].item] = Spent], "posting_removed")

\* POST /:id/near-dup-review: one guarded UPDATE, and the event after it.
DismissNearDup(a) ==
  \E t \in Txns :
    /\ Kept(t) /\ txn[t].near = "flagged"
    /\ Write(t, [txn[t] EXCEPT !.near = "reviewed"])
    /\ call' = [call EXCEPT ![a] = [Quiet EXCEPT !.op = "stampReview", !.id = t]]
    /\ UNCHANGED <<post, acct, trail>>

LogReview(a) ==
  \E t \in Txns :
    /\ Writing(a, "stampReview", t)
    /\ Log(t, "near_dup_reviewed") /\ Hang(a)
    /\ UNCHANGED <<txn, post, acct, served>>

----------------------------------------------------------------------------
(***************************************************************************)
(* Accounts                                                                *)
(***************************************************************************)

\* An account may hang under any other that exists and has its type; only
\* itself is refused as its parent.
ParentFor(x) == {y \in Accounts \ {x} : Exists(y) /\ TypeOf[y] = TypeOf[x]}

CreateAccount(a) ==
  \E x \in Accounts, y \in Accounts \cup {None} :
    /\ acct[x].state = "absent" /\ y \in ParentFor(x) \cup {None}
    /\ acct' = [acct EXCEPT ![x] = [state |-> "open", parent |-> y, version |-> 1]]
    /\ UNCHANGED <<txn, post, trail, call>>

\* PATCH: a new parent (or none), or closed_at set or cleared.
ReadForPatchAccount(a) ==
  \E x \in Accounts :
    /\ Exists(x)
    /\ \E patch \in [parent : ParentFor(x) \cup {None}, state : {acct[x].state}]
                   \cup [parent : {acct[x].parent}, state : {"open", "closed"}] :
         Proceed(a, "patchAccount", x, NoTxn, None, patch)

UpdateAccount(a) ==
  \E x \in Accounts :
    LET patch == call[a].arg
    IN  /\ call[a].op = "patchAccount" /\ call[a].id = x
        /\ Exists(x)
        /\ patch.parent # None => Exists(patch.parent)
        /\ acct' = [acct EXCEPT ![x] = [state |-> patch.state, parent |-> patch.parent,
                                       version |-> @.version + 1]]
        /\ Hang(a)
        /\ UNCHANGED <<txn, post, trail, served>>

PostedTo(x)   == {p \in Postings : post[p].txn # None /\ post[p].acct = x}
ChildrenOf(x) == {y \in Accounts : Exists(y) /\ acct[y].parent = x}

\* The count of the postings is a statement of its own before the DELETE.
ReadForDropAccount(a) ==
  \E x \in Accounts :
    /\ Exists(x) /\ PostedTo(x) = {}
    /\ Proceed(a, "dropAccount", x, NoTxn, None, None)

\* The foreign keys of postings and of child accounts restrict the DELETE.
DropAccount(a) ==
  \E x \in Accounts :
    /\ call[a].op = "dropAccount" /\ call[a].id = x
    /\ PostedTo(x) = {} /\ ChildrenOf(x) = {}
    /\ acct' = [acct EXCEPT ![x].state = "gone"]
    /\ Hang(a)
    /\ UNCHANGED <<txn, post, trail, served>>

----------------------------------------------------------------------------
\* The books hold one transaction, flagged for review, or nothing yet; the
\* chart of accounts is seeded.
Init ==
  /\ acct = [z \in Accounts |-> [state |-> IF z \in Seeded THEN "open" ELSE "absent",
                                parent |-> None, version |-> 1]]
  /\ call = [a \in Actors |-> Quiet]
  /\ served = 0
  /\ \/ /\ txn = [u \in Txns |-> NoTxn]
        /\ post = [r \in Postings |-> Free]
        /\ trail = [u \in Txns |-> <<>>]
     \/ \E t \in Txns, p, q \in Postings, x, y \in Seeded, b, c \in Amounts,
           m \in Months :
          /\ x # y /\ p # q /\ b > 0
          /\ txn = [u \in Txns |->
               IF u = t THEN [NoTxn EXCEPT !.status = "posted", !.month = m,
                                           !.near = "flagged", !.version = 1]
               ELSE NoTxn]
          /\ post = [r \in Postings |->
               IF r = p THEN [txn |-> t, acct |-> x, base |-> b]
               ELSE IF r = q THEN [txn |-> t, acct |-> y, base |-> c]
               ELSE Free]
          /\ Balanced(Book(post, t))
          /\ trail = [u \in Txns |-> IF u = t THEN <<"posted">> ELSE <<>>]

\* A request comes in.
Request(a) ==
  /\ Begin(a)
  /\ \/ CreateTransaction(a)
     \/ ReadForUpdate(a)
     \/ ReadForHardDelete(a)
     \/ ReadForSoftDelete(a)
     \/ ReadForRestore(a)
     \/ ReadForReconcile(a)
     \/ ReadForUnreconcile(a)
     \/ ReadForAddPosting(a)
     \/ ReadForUpdatePosting(a)
     \/ ReadForDeletePosting(a)
     \/ DismissNearDup(a)
     \/ CreateAccount(a)
     \/ ReadForPatchAccount(a)
     \/ ReadForDropAccount(a)

\* It writes and commits, or rolls back.
Respond(a) ==
  \/ UpdateTransaction(a)
  \/ DeleteTransaction(a)
  \/ SoftDeleteTransaction(a)
  \/ RestoreTransaction(a)
  \/ ReconcileTransaction(a)
  \/ UnreconcileTransaction(a)
  \/ AddPosting(a)
  \/ UpdatePosting(a)
  \/ DeletePosting(a)
  \/ LogReview(a)
  \/ UpdateAccount(a)
  \/ DropAccount(a)
  \/ Rollback(a)

Next == \E a \in Actors : Request(a) \/ Respond(a)

Spec == Init /\ [][Next]_vars

----------------------------------------------------------------------------
(***************************************************************************)
(* Reports                                                                 *)
(***************************************************************************)

Sum(S) == MapThenSumSet(LAMBDA p : post[p].base, S)

\* The postings a report sums: those of the given account types in
\* transactions that count, up to a month or in it.
CountedLegs(types, months) ==
  {p \in Postings : /\ post[p].txn # None
                    /\ Counts(post[p].txn)
                    /\ TypeOf[post[p].acct] \in types
                    /\ txn[post[p].txn].month \in months}

UpTo(m) == {n \in Months : n <= m}

\* Mutant: the report forgets deleted_at.
NetWorthDeletedToo(m) ==
  Sum({p \in Postings : /\ post[p].txn # None /\ txn[post[p].txn].status \in Money
                        /\ acct[post[p].acct].state = "open"
                        /\ post[p].acct \notin PointsAccounts
                        /\ TypeOf[post[p].acct] \in {"asset", "liability", "equity"}
                        /\ txn[post[p].txn].month \in UpTo(m)})

\* getNetWorthReport: the accounts that are not closed and hold no points; what
\* was redeemed is spent all the same.
NetWorth(m) ==
  Sum({p \in CountedLegs({"asset", "liability", "equity"}, UpTo(m)) :
         /\ acct[post[p].acct].state = "open"
         /\ post[p].acct \notin PointsAccounts})

\* The accounts that could be part of the net worth and are left out of it.
LeftOut == {x \in Accounts : /\ acct[x].state = "closed" \/ x \in PointsAccounts
                             /\ TypeOf[x] \notin {"income", "expense"}}

\* getSummaryReport: what was spent in a range; getTrendsReport, one bucket.
Summary(months) == Sum(CountedLegs({"expense"}, months))
Trend(m)        == Summary({m})

\* getCashflowReport, one month of it.
Cashflow(m) == -Sum(CountedLegs({"income"}, {m})) - Sum(CountedLegs({"expense"}, {m}))

\* getBalanceService of one account.
Balance(x, m) ==
  Sum({p \in CountedLegs({TypeOf[x]}, UpTo(m)) : post[p].acct = x})

\* listAccountsService: the open accounts that its tree shows, from the roots
\* (whose parent, if any, is not in the list) downwards.
Charted ==
  LET open  == {x \in Accounts : acct[x].state = "open"}
      roots == {x \in open : acct[x].parent \notin open}
      to[n \in 0 .. Cardinality(Accounts)] ==
        IF n = 0 THEN roots
        ELSE to[n - 1] \cup {x \in open : acct[x].parent \in to[n - 1]}
  IN  to[Cardinality(Accounts)]

----------------------------------------------------------------------------
(***************************************************************************)
(* Properties                                                              *)
(***************************************************************************)

\* Every variable has its type (schema/transactions.ts, postings.ts,
\* accounts.ts).
TypeOK ==
  /\ txn \in [Txns -> TxnRow]
  /\ post \in [Postings -> PostRow]
  /\ acct \in [Accounts -> AcctRow]
  /\ DOMAIN trail = Txns
  /\ DOMAIN call = Actors
  /\ \A a \in Actors : call[a].op \in Ops \cup {"none"}
  /\ served \in 0 .. MaxRequests

\* The double-entry invariant: whatever requests interleave, a committed
\* transaction that counts has two legs at least and they sum to zero.
PostedBalances ==
  \A t \in Txns : txn[t].status \in Money => Balanced(Book(post, t))

\* No posting without its transaction and its account, although accounts are
\* counted in one statement and deleted in another.
PostingsHaveHome ==
  \A p \in Postings :
    post[p].txn # None => /\ Kept(post[p].txn)
                          /\ post[p].acct \in {x \in Accounts : Exists(x)}

\* The reports agree with each other: up to any month the sum of the cash flows
\* is the net worth with the balances of the closed and of the points accounts
\* that it leaves out (reports.ts 106-113), so a redemption lowers the one and
\* not the other by what it is worth, and nothing else is between them; and what
\* the summary counts as spent is what the trend does.
ReportsAgree ==
  \A m \in Months :
    /\ NetWorth(m) + MapThenSumSet(LAMBDA x : Balance(x, m), LeftOut)
         = MapThenSumSet(Cashflow, UpTo(m))
    /\ Summary(UpTo(m)) = MapThenSumSet(Trend, UpTo(m))

LastOf(t, events) ==
  LET at == {i \in DOMAIN trail[t] : trail[t][i] \in events}
  IN  IF at = {} THEN "never" ELSE trail[t][Max(at)]

\* The audit trail tells the truth: the last deletion or restore, and the
\* last change of status, are the ones the row shows.
TrailTellsState ==
  \A t \in Txns : Kept(t) =>
    /\ txn[t].deleted <=> LastOf(t, {"deleted", "restored"}) = "deleted"
    /\ txn[t].status = LET last == LastOf(t, Status \cup {"unreconciled"})
                       IN  IF last = "unreconciled" THEN "posted" ELSE last

\* A reconciled transaction is removed only by a request that had read it
\* before it was reconciled.
OnlyStaleDeletes ==
  [][\A t \in Txns :
       /\ txn[t].status = "reconciled"
       /\ txn'[t].status = "gone" \/ (txn'[t].deleted /\ ~txn[t].deleted)
       => \E a \in Actors : call[a].id = t /\ call[a].row.version < txn[t].version]_vars

\* What the code says of the gate (transactions.service.ts:1353): an entry
\* that is reconciled is not deleted.
ReconciledIsKept ==
  [][\A t \in Txns :
       txn[t].status = "reconciled" =>
         txn'[t].status # "gone" /\ (txn'[t].deleted => txn[t].deleted)]_vars

\* What the code says of user_edited (transactions.service.ts:1279): a patch
\* does not drop the protection of an edit.
EditsStayProtected ==
  [][\A t \in Txns : Kept(t) /\ txn[t].edited => txn'[t].edited]_vars

\* What the code says of re-parenting (accounts.ts:322): no account goes under
\* one of its descendants, so the chart of accounts shows every open one.
ChartShowsAll == \A x \in Accounts : acct[x].state = "open" => x \in Charted
=============================================================================
