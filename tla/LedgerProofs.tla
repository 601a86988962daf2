---------------------------- MODULE LedgerProofs ----------------------------
(***************************************************************************)
(* What holds of the ledger for every chart of accounts and any number of  *)
(* requests: the double-entry invariant, postings that are never orphaned, *)
(* the gate on reconciled transactions, the audit trail, and reports that  *)
(* agree with each other.  And what holds of the worth of its postings     *)
(* (Money), for all receipts, rates and valuations: a cached rate is       *)
(* final, and a leg is worth its amount at its rate.                       *)
(***************************************************************************)
EXTENDS Ledger, Money, TLAPS, FiniteSetTheorems, SequenceTheorems

Typed == /\ txn \in [Txns -> TxnRow]
         /\ post \in [Postings -> PostRow]
         /\ acct \in [Accounts -> AcctRow]
         /\ DOMAIN call = Actors

AboutTxn == {"update", "hardDelete", "softDelete", "restore", "reconcile",
             "unreconcile", "addPosting", "updatePosting", "deletePosting"}

\* What a request has in hand is as old as its version says, and the posting
\* it is about has not changed hands.
Sent(c) ==
  /\ c.op \in Ops \cup {"none"}
  /\ c.op \in AboutTxn =>
       /\ c.id \in Txns /\ c.row \in TxnRow /\ txn[c.id].status # "absent"
       /\ c.row.version <= txn[c.id].version
       /\ c.row.version = txn[c.id].version => c.row = txn[c.id]
  /\ c.op \in {"hardDelete", "softDelete"} => c.row.status # "reconciled"
  /\ c.op = "update" => c.arg.month \in Nat
  /\ c.op \in {"addPosting", "updatePosting"} =>
       c.arg.acct \in Accounts /\ c.arg.base \in Amounts
  /\ c.op \in {"updatePosting", "deletePosting"} =>
       /\ c.item \in Postings
       /\ post[c.item].txn = c.id \/ post[c.item] = Spent
  /\ c.op = "patchAccount" =>
       c.arg.parent \in Accounts \cup {None} /\ c.arg.state \in {"open", "closed"}

LedgerInv == /\ Typed
             /\ \A a \in Actors : Sent(call[a])
             /\ PostedBalances
             /\ PostingsHaveHome

Reading == UNCHANGED <<txn, post, acct, trail>>

----------------------------------------------------------------------------
\* Of the requests that come in, three commit at once.
LEMMA RequestEffect ==
  ASSUME NEW a \in Actors, Request(a)
  PROVE  Reading \/ CreateTransaction(a) \/ DismissNearDup(a) \/ CreateAccount(a)
  BY DEF Request, Reading, ReadForUpdate, ReadForHardDelete, ReadForSoftDelete,
         ReadForRestore, ReadForReconcile, ReadForUnreconcile, ReadForAddPosting,
         ReadForUpdatePosting, ReadForDeletePosting, ReadForPatchAccount,
         ReadForDropAccount, Proceed

\* A creation adds one transaction and postings of its own.
LEMMA Creation ==
  ASSUME LedgerInv, NEW a \in Actors, CreateTransaction(a)
  PROVE  \E t \in Txns, row \in TxnRow :
           /\ txn[t].status = "absent" /\ txn' = [txn EXCEPT ![t] = row]
           /\ row.status \notin {"absent", "gone"}
           /\ row.status \in Money => Balanced(Book(post', t))
           /\ post' \in [Postings -> PostRow]
           /\ \A p \in Postings :
                \/ post'[p] = post[p]
                \/ post[p] = Free /\ post'[p].txn = t /\ Exists(post'[p].acct)
           /\ UNCHANGED <<acct, call>>
<1>0. txn \in [Txns -> TxnRow] /\ post \in [Postings -> PostRow]
  BY DEF LedgerInv, Typed
<1>1. PICK t \in {u \in Txns : txn[u].status = "absent"},
           s \in Status \ {"absent", "gone"}, m \in Months,
           x, y \in {z \in Accounts : Exists(z)}, b, c \in Amounts,
           p, q \in {r \in Postings : post[r] = Free} :
        LET ps == [post EXCEPT ![p] = [txn |-> t, acct |-> x, base |-> b],
                               ![q] = [txn |-> t, acct |-> y, base |-> c]]
        IN  /\ p # q
            /\ s \in Money => Balanced(Book(ps, t))
            /\ txn' = [txn EXCEPT ![t] = [NoTxn EXCEPT !.status = s, !.month = m,
                                                      !.version = 1]]
            /\ post' = ps
            /\ Log(t, s)
            /\ UNCHANGED <<acct, call>>
  BY DEF CreateTransaction
<1> DEFINE row == [NoTxn EXCEPT !.status = s, !.month = m, !.version = 1]
<1>2. row \in TxnRow /\ row.status = s
  BY LedgerAssumption DEF LedgerAssumption, NoTxn, TxnRow, Review
<1>3. txn' = [txn EXCEPT ![t] = row]
  BY <1>1
<1> HIDE DEF row
<1>4. /\ post' \in [Postings -> PostRow]
      /\ \A r \in Postings :
           \/ post'[r] = post[r]
           \/ post[r] = Free /\ post'[r].txn = t /\ Exists(post'[r].acct)
  BY <1>0, <1>1 DEF PostRow
<1>5. s \in Money => Balanced(Book(post', t))
  BY <1>1
<1> QED
  BY <1>1, <1>2, <1>3, <1>4, <1>5

\* A posting keeps its transaction until it is spent, which is for good.
LEMMA PostEffect ==
  ASSUME LedgerInv, Next, NEW p \in Postings
  PROVE  /\ post[p].txn # None => post'[p].txn = post[p].txn \/ post'[p] = Spent
         /\ post[p] = Spent => post'[p] = Spent
<1>0. None \notin Txns /\ Free # Spent /\ Free.txn = None /\ Spent.txn = None
  BY LedgerAssumption DEF LedgerAssumption, Free, Spent
<1>1. PICK a \in Actors : Request(a) \/ Respond(a)
  BY DEF Next
<1>2. /\ post \in [Postings -> PostRow]
      /\ Sent(call[a])
  BY DEF LedgerInv, Typed
<1>3. CASE UNCHANGED post
  BY <1>3
<1>4. CASE CreateTransaction(a)
  BY <1>0, <1>4, Creation
<1>5. CASE DeleteTransaction(a)
  BY <1>0, <1>2, <1>5 DEF DeleteTransaction
<1>6. CASE AddPosting(a)
  BY <1>0, <1>2, <1>6 DEF AddPosting, CommitPostings
<1>7. CASE UpdatePosting(a)
  BY <1>0, <1>2, <1>7 DEF UpdatePosting, CommitPostings, Writing, Sent
<1>8. CASE DeletePosting(a)
  BY <1>0, <1>2, <1>8 DEF DeletePosting, CommitPostings
<1>9. CASE Request(a)
  BY <1>3, <1>4, <1>9, RequestEffect DEF Reading, DismissNearDup, CreateAccount
<1> QED
  BY <1>1, <1>3, <1>5, <1>6, <1>7, <1>8, <1>9
     DEF Respond, UpdateTransaction, SoftDeleteTransaction, RestoreTransaction,
         ReconcileTransaction, UnreconcileTransaction, LogReview, UpdateAccount,
         DropAccount, Rollback

\* Apart from a creation, a step writes to no transaction or to one that is
\* there.
LEMMA WriteEffect ==
  ASSUME LedgerInv, NEW a \in Actors, Request(a) \/ Respond(a)
  PROVE  \/ UNCHANGED txn
         \/ CreateTransaction(a)
         \/ \E t \in Txns, row \in TxnRow : Kept(t) /\ row.status # "absent" /\ Write(t, row)
<1>1. txn \in [Txns -> TxnRow] /\ Sent(call[a])
  BY DEF LedgerInv, Typed
<1>2. CASE UpdateTransaction(a)
  <2>1. PICK t \in Txns :
          LET c     == call[a]
              dated == c.arg.month # 0
              empty == c.arg.metadata = "empty"
              whole == dated \/ c.arg.metadata # "omitted"
          IN  /\ Writing(a, "update", t)
              /\ Write(t, [txn[t] EXCEPT
                   !.month  = IF dated THEN c.arg.month ELSE @,
                   !.edited = IF dated THEN TRUE ELSE IF empty THEN FALSE
                              ELSE IF whole THEN c.row.edited ELSE @,
                   !.near   = IF empty THEN "none" ELSE IF whole THEN c.row.near ELSE @])
    BY <1>2 DEF UpdateTransaction
  <2>2. call[a].row \in TxnRow /\ call[a].arg.month \in Nat /\ txn[t] \in TxnRow
    BY <1>1, <2>1 DEF Sent, Writing, AboutTxn
  <2>3. ASSUME NEW m \in Nat, NEW e \in BOOLEAN, NEW n \in Review
        PROVE  /\ [txn[t] EXCEPT !.month = m, !.edited = e, !.near = n] \in TxnRow
               /\ [txn[t] EXCEPT !.month = m, !.edited = e, !.near = n].status = txn[t].status
    BY <2>2 DEF TxnRow
  <2>4. call[a].row.edited \in BOOLEAN /\ call[a].row.near \in Review
    BY <2>2 DEF TxnRow
  <2>5. txn[t].month \in Nat /\ txn[t].edited \in BOOLEAN /\ txn[t].near \in Review
    BY <2>2 DEF TxnRow
  <2>6. "none" \in Review
    BY DEF Review
  <2>7. \E m \in Nat, e \in BOOLEAN, n \in Review :
          Write(t, [txn[t] EXCEPT !.month = m, !.edited = e, !.near = n])
    BY <2>1, <2>2, <2>4, <2>5, <2>6
  <2>8. PICK row \in TxnRow : Write(t, row) /\ row.status = txn[t].status
    <3> DEFINE edit(m, e, n) == [txn[t] EXCEPT !.month = m, !.edited = e, !.near = n]
    <3>1. PICK m \in Nat, e \in BOOLEAN, n \in Review : Write(t, edit(m, e, n))
      BY <2>7
    <3>2. edit(m, e, n) \in TxnRow /\ edit(m, e, n).status = txn[t].status
      BY <2>3
    <3> HIDE DEF edit
    <3> QED
      BY <3>1, <3>2
  <2> QED
    BY <2>1, <2>8 DEF Writing, Kept
<1>3. CASE DeleteTransaction(a)
  BY <1>1, <1>3 DEF DeleteTransaction, Writing, TxnRow, Status
<1>4. CASE SoftDeleteTransaction(a)
  BY <1>1, <1>4 DEF SoftDeleteTransaction, Writing, Kept, TxnRow
<1>5. CASE RestoreTransaction(a)
  BY <1>1, <1>5 DEF RestoreTransaction, Writing, Kept, TxnRow
<1>6. CASE ReconcileTransaction(a)
  BY <1>1, <1>6 DEF ReconcileTransaction, Writing, TxnRow, Status
<1>7. CASE UnreconcileTransaction(a)
  BY <1>1, <1>7 DEF UnreconcileTransaction, Writing, TxnRow, Status
<1>8. CASE AddPosting(a) \/ UpdatePosting(a) \/ DeletePosting(a)
  BY <1>1, <1>8 DEF AddPosting, UpdatePosting, DeletePosting, CommitPostings, Writing, Kept
<1>9. CASE DismissNearDup(a)
  BY <1>1, <1>9 DEF DismissNearDup, Kept, TxnRow, Review
<1>10. CASE LogReview(a) \/ UpdateAccount(a) \/ DropAccount(a) \/ Rollback(a)
  BY <1>10 DEF LogReview, UpdateAccount, DropAccount, Rollback
<1> QED
  BY <1>2, <1>3, <1>4, <1>5, <1>6, <1>7, <1>8, <1>9, <1>10, RequestEffect
     DEF Respond, Reading, CreateAccount

\* A transaction that is written to gets a new version, and none vanishes.
LEMMA TxnEffect ==
  ASSUME LedgerInv, Next
  PROVE  /\ txn' \in [Txns -> TxnRow]
         /\ \A t \in Txns : txn[t].status # "absent" =>
              /\ txn'[t].status # "absent"
              /\ txn'[t] = txn[t] \/ txn'[t].version > txn[t].version
<1>0. txn \in [Txns -> TxnRow]
  BY DEF LedgerInv, Typed
<1>1. PICK a \in Actors : Request(a) \/ Respond(a)
  BY DEF Next
<1>2. CASE UNCHANGED txn
  BY <1>0, <1>2
<1>3. CASE CreateTransaction(a)
  BY <1>0, <1>3, Creation
<1>4. ASSUME NEW t \in Txns, NEW row \in TxnRow,
             Kept(t), row.status # "absent", Write(t, row)
      PROVE  /\ txn' \in [Txns -> TxnRow]
             /\ txn'[t].status # "absent" /\ txn'[t].version > txn[t].version
             /\ \A u \in Txns \ {t} : txn'[u] = txn[u]
  BY <1>0, <1>4 DEF Write, TxnRow
<1> QED
  BY <1>1, <1>2, <1>3, <1>4, WriteEffect

\* Postings and accounts keep their types.
LEMMA TypesStep ==
  ASSUME LedgerInv, Next PROVE Typed'
<1>0. Typed /\ \A a \in Actors : Sent(call[a])
  BY DEF LedgerInv
<1>1. PICK a \in Actors : Request(a) \/ Respond(a)
  BY DEF Next
<1>2. post' \in [Postings -> PostRow]
  <2>0. post \in [Postings -> PostRow] /\ Spent \in PostRow /\ Sent(call[a])
    BY <1>0 DEF Typed, PostRow
  <2>1. CASE CreateTransaction(a)
    BY <2>1, Creation
  <2>2. CASE DeleteTransaction(a)
    BY <2>0, <2>2 DEF DeleteTransaction
  <2>3. CASE AddPosting(a)
    BY <2>0, <2>3 DEF AddPosting, CommitPostings, Writing, Sent, PostRow
  <2>4. CASE UpdatePosting(a)
    BY <2>0, <2>4 DEF UpdatePosting, CommitPostings, Writing, Sent, PostRow
  <2>5. CASE DeletePosting(a)
    BY <2>0, <2>5 DEF DeletePosting, CommitPostings
  <2>6. CASE UNCHANGED post
    BY <2>0, <2>6
  <2> QED
    BY <1>1, <2>1, <2>2, <2>3, <2>4, <2>5, <2>6, RequestEffect
       DEF Reading, DismissNearDup, CreateAccount, Respond, UpdateTransaction,
           SoftDeleteTransaction, RestoreTransaction, ReconcileTransaction,
           UnreconcileTransaction, LogReview, UpdateAccount, DropAccount, Rollback
<1>3. acct' \in [Accounts -> AcctRow]
  <2>0. acct \in [Accounts -> AcctRow] /\ Sent(call[a])
    BY <1>0 DEF Typed
  <2>1. CASE CreateAccount(a)
    BY <2>0, <2>1 DEF CreateAccount, ParentFor, AcctRow
  <2>2. CASE UpdateAccount(a)
    BY <2>0, <2>2 DEF UpdateAccount, Sent, AcctRow
  <2>3. CASE DropAccount(a)
    BY <2>0, <2>3 DEF DropAccount, AcctRow
  <2>4. CASE UNCHANGED acct
    BY <2>0, <2>4
  <2> QED
    BY <1>1, <2>1, <2>2, <2>3, <2>4, RequestEffect, Creation
       DEF Reading, DismissNearDup, Respond, UpdateTransaction, DeleteTransaction,
           SoftDeleteTransaction, RestoreTransaction, ReconcileTransaction,
           UnreconcileTransaction, AddPosting, UpdatePosting, DeletePosting,
           CommitPostings, LogReview, Rollback
<1>4. DOMAIN call' = Actors
  <2>0. DOMAIN call = Actors
    BY <1>0 DEF Typed
  <2>1. CASE Request(a)
    <3>1. CASE CreateTransaction(a)
      BY <2>0, <3>1, Creation
    <3>2. ASSUME NEW c, call' = [call EXCEPT ![a] = c] PROVE DOMAIN call' = Actors
      BY <2>0, <3>2
    <3>3. CASE CreateAccount(a) \/ DismissNearDup(a)
      BY <2>0, <3>3 DEF CreateAccount, DismissNearDup
    <3>4. ASSUME NEW op, NEW id, NEW row, NEW item, NEW arg, Proceed(a, op, id, row, item, arg)
          PROVE  DOMAIN call' = Actors
      BY <3>2, <3>4 DEF Proceed
    <3> QED
      BY <2>1, <3>1, <3>3, <3>4
         DEF Request, ReadForUpdate, ReadForHardDelete, ReadForSoftDelete,
             ReadForRestore, ReadForReconcile, ReadForUnreconcile, ReadForAddPosting,
             ReadForUpdatePosting, ReadForDeletePosting, ReadForPatchAccount,
             ReadForDropAccount
  <2>2. CASE Respond(a)
    BY <2>0, <2>2
       DEF Respond, UpdateTransaction, DeleteTransaction, SoftDeleteTransaction,
           RestoreTransaction, ReconcileTransaction, UnreconcileTransaction, AddPosting,
           UpdatePosting, DeletePosting, CommitPostings, LogReview, UpdateAccount,
           DropAccount, Rollback, Hang
  <2> QED
    BY <1>1, <2>1, <2>2
<1> QED
  BY <1>2, <1>3, <1>4, TxnEffect DEF Typed

----------------------------------------------------------------------------
\* What the other requests do leaves what this one has in hand as it is.
LEMMA SentStays ==
  ASSUME LedgerInv, Next, NEW c, Sent(c) PROVE Sent(c)'
<1>1. CASE c.op \in {"updatePosting", "deletePosting"}
  <2>1. post'[c.item].txn = c.id \/ post'[c.item] = Spent
    BY <1>1, PostEffect, LedgerAssumption DEF Sent, AboutTxn, LedgerAssumption
  <2> QED
    BY <1>1, <2>1, TxnEffect DEF Sent, AboutTxn, LedgerInv, Typed, TxnRow
<1>2. CASE c.op \notin {"updatePosting", "deletePosting"}
  BY <1>2, TxnEffect DEF Sent, LedgerInv, Typed, TxnRow
<1> QED
  BY <1>1, <1>2

\* A request has in hand what it read.
LEMMA ReadsAreSent ==
  ASSUME LedgerInv, NEW a \in Actors, Request(a), NEW o \in Actors
  PROVE  call'[o] = call[o] \/ Sent(call'[o])
<1>1. txn \in [Txns -> TxnRow] /\ post \in [Postings -> PostRow]
      /\ acct \in [Accounts -> AcctRow] /\ DOMAIN call = Actors
  BY DEF LedgerInv, Typed
<1> DEFINE sent(op, id, row, item, arg) ==
      [op |-> op, id |-> id, row |-> row, item |-> item, arg |-> arg]
<1>2. CASE ReadForUpdate(a)
  <2>1. PICK t \in Txns, m \in Months \cup {0}, md \in {"omitted", "empty", "shown"} :
          /\ Kept(t)
          /\ call' = [call EXCEPT ![a] =
                        sent("update", t, txn[t], None, [month |-> m, metadata |-> md])]
    BY <1>2 DEF ReadForUpdate, Proceed
  <2>2. Sent(sent("update", t, txn[t], None, [month |-> m, metadata |-> md]))
    BY <1>1, <2>1, LedgerAssumption DEF LedgerAssumption, Sent, Ops, AboutTxn, Kept, TxnRow
  <2> QED
    BY <1>1, <2>1, <2>2
<1>3. ASSUME NEW op \in {"hardDelete", "softDelete", "restore", "reconcile", "unreconcile"},
             NEW t \in Txns, Kept(t), Proceed(a, op, t, txn[t], None, None),
             op \in {"hardDelete", "softDelete"} => txn[t].status # "reconciled"
      PROVE  call'[o] = call[o] \/ Sent(call'[o])
  <2>1. Sent(sent(op, t, txn[t], None, None))
    BY <1>1, <1>3 DEF Sent, Ops, AboutTxn, Kept, TxnRow
  <2> QED
    BY <1>1, <1>3, <2>1 DEF Proceed
<1>4. CASE ReadForAddPosting(a)
  <2>1. PICK t \in Txns, x \in Accounts, b \in Amounts :
          Kept(t) /\ Proceed(a, "addPosting", t, txn[t], None, [acct |-> x, base |-> b])
    BY <1>4 DEF ReadForAddPosting
  <2>2. Sent(sent("addPosting", t, txn[t], None, [acct |-> x, base |-> b]))
    BY <1>1, <2>1 DEF Sent, Ops, AboutTxn, Kept, TxnRow
  <2> QED
    BY <1>1, <2>1, <2>2 DEF Proceed
<1>5. CASE ReadForUpdatePosting(a)
  <2>1. PICK t \in Txns, p \in Postings, x \in Accounts, b \in Amounts :
          /\ Kept(t) /\ post[p].txn = t
          /\ Proceed(a, "updatePosting", t, txn[t], p, [acct |-> x, base |-> b])
    BY <1>5 DEF ReadForUpdatePosting
  <2>2. Sent(sent("updatePosting", t, txn[t], p, [acct |-> x, base |-> b]))
    BY <1>1, <2>1 DEF Sent, Ops, AboutTxn, Kept, TxnRow
  <2> QED
    BY <1>1, <2>1, <2>2 DEF Proceed
<1>6. CASE ReadForDeletePosting(a)
  <2>1. PICK t \in Txns, p \in Postings :
          /\ Kept(t) /\ post[p].txn = t
          /\ Proceed(a, "deletePosting", t, txn[t], p, None)
    BY <1>6 DEF ReadForDeletePosting
  <2>2. Sent(sent("deletePosting", t, txn[t], p, None))
    BY <1>1, <2>1 DEF Sent, Ops, AboutTxn, Kept, TxnRow
  <2> QED
    BY <1>1, <2>1, <2>2 DEF Proceed
<1>7. CASE ReadForPatchAccount(a)
  <2>1. PICK x \in Accounts :
          /\ Exists(x)
          /\ \E patch \in [parent : ParentFor(x) \cup {None}, state : {acct[x].state}]
                         \cup [parent : {acct[x].parent}, state : {"open", "closed"}] :
               Proceed(a, "patchAccount", x, NoTxn, None, patch)
    BY <1>7 DEF ReadForPatchAccount
  <2>2. PICK patch : /\ patch.parent \in Accounts \cup {None}
                     /\ patch.state \in {"open", "closed"}
                     /\ Proceed(a, "patchAccount", x, NoTxn, None, patch)
    BY <1>1, <2>1 DEF Exists, ParentFor, AcctRow
  <2>3. Sent(sent("patchAccount", x, NoTxn, None, patch))
    BY <2>2 DEF Sent, Ops, AboutTxn
  <2> QED
    BY <1>1, <2>2, <2>3 DEF Proceed
<1>8. CASE ReadForDropAccount(a)
  <2>1. PICK x \in Accounts : Proceed(a, "dropAccount", x, NoTxn, None, None)
    BY <1>8 DEF ReadForDropAccount
  <2>2. Sent(sent("dropAccount", x, NoTxn, None, None))
    BY DEF Sent, Ops, AboutTxn
  <2> QED
    BY <1>1, <2>1, <2>2 DEF Proceed
<1>9. CASE DismissNearDup(a)
  BY <1>1, <1>9 DEF DismissNearDup, Quiet, Sent, Ops, AboutTxn
<1>10. CASE CreateTransaction(a) \/ CreateAccount(a)
  BY <1>10, Creation DEF CreateAccount
<1> QED
  BY <1>2, <1>3, <1>4, <1>5, <1>6, <1>7, <1>8, <1>9, <1>10
     DEF Request, ReadForHardDelete, ReadForSoftDelete, ReadForRestore,
         ReadForReconcile, ReadForUnreconcile, Deletable, Kept
\* What every request has in hand stays true of the ledger.
LEMMA CallsStep ==
  ASSUME LedgerInv, Next PROVE \A o \in Actors : Sent(call[o])'
<1> SUFFICES ASSUME NEW o \in Actors PROVE Sent(call[o])'
  OBVIOUS
<1>1. PICK a \in Actors : Request(a) \/ Respond(a)
  BY DEF Next
<1>2. Sent(Quiet) /\ Sent(call[o]) /\ DOMAIN call = Actors
  BY DEF LedgerInv, Typed, Sent, Quiet, Ops, AboutTxn
<1>3. Respond(a) => call'[o] = call[o] \/ call'[o] = Quiet
  BY <1>2
     DEF Respond, UpdateTransaction, DeleteTransaction, SoftDeleteTransaction,
         RestoreTransaction, ReconcileTransaction, UnreconcileTransaction, AddPosting,
         UpdatePosting, DeletePosting, CommitPostings, LogReview, UpdateAccount,
         DropAccount, Rollback, Hang
<1>4. PICK c : c = call'[o]
  OBVIOUS
<1>5. Sent(c)
  <2>1. Sent(call'[o])
    BY <1>1, <1>2, <1>3, ReadsAreSent
  <2> QED
    BY <1>4, <2>1
<1>6. Sent(c)'
  BY <1>5, SentStays
<1> QED
  BY <1>4, <1>6 DEF Sent
----------------------------------------------------------------------------
\* A step that moves no posting in or out of a transaction keeps its book.
LEMMA SameBook ==
  ASSUME NEW t \in Txns, NEW ps, NEW qs,
         \A p \in Postings : \/ ps[p] = qs[p]
                             \/ ps[p].txn # t /\ qs[p].txn # t
  PROVE  Book(ps, t) = Book(qs, t)
<1>1. {p \in Postings : ps[p].txn = t} = {p \in Postings : qs[p].txn = t}
  OBVIOUS
<1> QED
  BY <1>1 DEF Book

\* The double-entry invariant survives every commit.
LEMMA BalancesStep ==
  ASSUME LedgerInv, Next PROVE PostedBalances'
<1> SUFFICES ASSUME NEW t \in Txns, txn'[t].status \in Money
             PROVE  Balanced(Book(post', t))
  BY DEF PostedBalances
<1>0. /\ txn \in [Txns -> TxnRow] /\ post \in [Postings -> PostRow]
      /\ txn[t].status \in Money => Balanced(Book(post, t))
  BY DEF LedgerInv, Typed, PostedBalances
<1>n. None \notin Txns /\ Free.txn = None /\ Spent.txn = None
  BY LedgerAssumption DEF LedgerAssumption, Free, Spent
<1>1. PICK a \in Actors : Request(a) \/ Respond(a)
  BY DEF Next
<1>s. Sent(call[a])
  BY DEF LedgerInv
<1>2. ASSUME UNCHANGED post, txn'[t].status = txn[t].status
      PROVE  Balanced(Book(post', t))
  BY <1>0, <1>2
<1>3. CASE CreateTransaction(a)
  <2>1. PICK u \in Txns, row \in TxnRow :
          /\ txn[u].status = "absent" /\ txn' = [txn EXCEPT ![u] = row]
          /\ row.status \in Money => Balanced(Book(post', u))
          /\ \A p \in Postings : \/ post'[p] = post[p]
                                 \/ post[p] = Free /\ post'[p].txn = u
    BY <1>3, Creation
  <2>2. CASE t = u
    BY <1>0, <2>1, <2>2
  <2>3. CASE t # u
    <3>0. \A p \in Postings : post'[p] = post[p] \/ (post'[p].txn # t /\ post[p].txn # t)
      BY <1>n, <2>1, <2>3
    <3>1. Book(post', t) = Book(post, t)
      BY <3>0, SameBook
    <3> QED
      BY <1>0, <2>1, <2>3, <3>1
  <2> QED
    BY <2>2, <2>3
<1>4. CASE DeleteTransaction(a)
  <2>1. PICK u \in Txns :
          /\ txn' = [txn EXCEPT ![u] =
                      [[txn[u] EXCEPT !.status = "gone"] EXCEPT !.version = txn[u].version + 1]]
          /\ post' = [p \in Postings |-> IF post[p].txn = u THEN Spent ELSE post[p]]
    BY <1>4 DEF DeleteTransaction, Write
  <2>2. t # u /\ txn'[t] = txn[t]
    BY <1>0, <2>1 DEF Money, TxnRow
  <2>3. Book(post', t) = Book(post, t)
    BY <1>n, <2>1, <2>2, SameBook
  <2> QED
    BY <1>0, <2>2, <2>3
<1>5. ASSUME NEW u \in Txns, NEW ps, NEW event, CommitPostings(a, u, ps, event),
             \A p \in Postings : \/ ps[p] = post[p]
                                 \/ /\ ps[p].txn \in {u, None}
                                    /\ post[p].txn \in {u, None}
      PROVE  Balanced(Book(post', t))
  <2>1. /\ post' = ps /\ PostingsCommit(ps, u)
        /\ txn'[t].status = txn[t].status
    BY <1>0, <1>5 DEF CommitPostings, Write, TxnRow
  <2>2. CASE t = u
    BY <2>1, <2>2 DEF PostingsCommit
  <2>3. CASE t # u
    <3>0. \A p \in Postings : ps[p] = post[p] \/ (ps[p].txn # t /\ post[p].txn # t)
      BY <1>n, <1>5, <2>3
    <3>1. Book(ps, t) = Book(post, t)
      BY <3>0, SameBook
    <3> QED
      BY <1>0, <2>1, <3>1
  <2> QED
    BY <2>2, <2>3
<1>6. CASE AddPosting(a)
  <2>1. PICK u, p, ps :
          /\ u \in Txns /\ p \in Postings
          /\ post[p] = Free
          /\ ps = [post EXCEPT ![p] = [txn |-> u, acct |-> call[a].arg.acct,
                                      base |-> call[a].arg.base]]
          /\ CommitPostings(a, u, ps, "posting_added")
    BY <1>6 DEF AddPosting
  <2>2. \A q \in Postings : \/ ps[q] = post[q]
                            \/ ps[q].txn \in {u, None} /\ post[q].txn \in {u, None}
    BY <1>0, <1>n, <2>1
  <2> QED
    BY <1>5, <2>1, <2>2
<1>7. CASE UpdatePosting(a)
  <2>1. PICK u, ps :
          /\ u \in Txns
          /\ call[a].op = "updatePosting" /\ call[a].id = u
          /\ ps = IF post[call[a].item] = Spent THEN post
                  ELSE [post EXCEPT ![call[a].item] =
                         [txn |-> u, acct |-> call[a].arg.acct, base |-> call[a].arg.base]]
          /\ CommitPostings(a, u, ps, "posting_updated")
    BY <1>7 DEF UpdatePosting, Writing
  <2>2. \A q \in Postings : \/ ps[q] = post[q]
                            \/ ps[q].txn \in {u, None} /\ post[q].txn \in {u, None}
    BY <1>0, <1>n, <1>s, <2>1 DEF Sent
  <2> QED
    BY <1>5, <2>1, <2>2
<1>8. CASE DeletePosting(a)
  <2>1. PICK u, ps :
          /\ u \in Txns
          /\ call[a].op = "deletePosting" /\ call[a].id = u
          /\ ps = [post EXCEPT ![call[a].item] = Spent]
          /\ CommitPostings(a, u, ps, "posting_removed")
    BY <1>8 DEF DeletePosting, Writing
  <2>2. \A q \in Postings : \/ ps[q] = post[q]
                            \/ ps[q].txn \in {u, None} /\ post[q].txn \in {u, None}
    BY <1>0, <1>n, <1>s, <2>1 DEF Sent
  <2> QED
    BY <1>5, <2>1, <2>2
<1>9. CASE ReconcileTransaction(a) \/ UnreconcileTransaction(a)
  BY <1>0, <1>9
     DEF ReconcileTransaction, UnreconcileTransaction, StatusCommit, Write, TxnRow, Money
<1>10. CASE UpdateTransaction(a)
  BY <1>0, <1>2, <1>10 DEF UpdateTransaction, Write, TxnRow
<1>11. CASE \/ SoftDeleteTransaction(a) \/ RestoreTransaction(a) \/ DismissNearDup(a)
  <2>1. CASE SoftDeleteTransaction(a)
    BY <1>0, <1>2, <2>1 DEF SoftDeleteTransaction, Write, TxnRow
  <2>2. CASE RestoreTransaction(a)
    BY <1>0, <1>2, <2>2 DEF RestoreTransaction, Write, TxnRow
  <2>3. CASE DismissNearDup(a)
    BY <1>0, <1>2, <2>3 DEF DismissNearDup, Write, TxnRow
  <2> QED
    BY <1>11, <2>1, <2>2, <2>3
<1>12. CASE UNCHANGED <<txn, post>>
  BY <1>2, <1>12
<1>13. CASE LogReview(a) \/ UpdateAccount(a) \/ DropAccount(a) \/ Rollback(a)
  BY <1>12, <1>13 DEF LogReview, UpdateAccount, DropAccount, Rollback
<1>14. CASE Request(a)
  BY <1>3, <1>11, <1>12, <1>14, RequestEffect DEF Reading, CreateAccount
<1> QED
  BY <1>1, <1>4, <1>6, <1>7, <1>8, <1>9, <1>10, <1>11, <1>13, <1>14 DEF Respond

\* Only a hard delete takes a transaction away, and only a soft one hides it.
LEMMA RemovalEffect ==
  ASSUME LedgerInv, Next, NEW t \in Txns, Kept(t)
  PROVE  \/ Kept(t)' /\ (txn'[t].deleted => txn[t].deleted)
         \/ \E a \in Actors : /\ Writing(a, "hardDelete", t) \/ Writing(a, "softDelete", t)
                              /\ DeleteTransaction(a) \/ SoftDeleteTransaction(a)
                              /\ DeleteTransaction(a) => Writing(a, "hardDelete", t)
<1>0. txn \in [Txns -> TxnRow] /\ txn[t] \in TxnRow
  BY DEF LedgerInv, Typed
<1>1. PICK a \in Actors : Request(a) \/ Respond(a)
  BY DEF Next
<1>2. CASE txn'[t].status = txn[t].status /\ txn'[t].deleted = txn[t].deleted
  BY <1>2 DEF Kept
<1>3. CASE CreateTransaction(a)
  <2>1. txn'[t] = txn[t]
    BY <1>0, <1>3, Creation DEF Kept
  <2> QED
    BY <1>2, <2>1
<1>4. CASE DeleteTransaction(a) \/ SoftDeleteTransaction(a)
  <2>1. PICK u, row :
          /\ u \in Txns
          /\ Writing(a, "hardDelete", u) \/ Writing(a, "softDelete", u)
          /\ DeleteTransaction(a) => Writing(a, "hardDelete", u)
          /\ Write(u, row)
    BY <1>4 DEF DeleteTransaction, SoftDeleteTransaction, Writing
  <2>2. CASE t = u
    BY <1>4, <2>1, <2>2
  <2>3. CASE t # u
    BY <1>0, <1>2, <2>1, <2>3 DEF Write
  <2> QED
    BY <2>2, <2>3
<1>5. CASE RestoreTransaction(a)
  BY <1>0, <1>5 DEF RestoreTransaction, Write, TxnRow, Kept
<1>6. CASE ReconcileTransaction(a) \/ UnreconcileTransaction(a)
  <2>1. PICK u \in Txns, st \in {"reconciled", "posted"} :
          Write(u, [txn[u] EXCEPT !.status = st])
    BY <1>6 DEF ReconcileTransaction, UnreconcileTransaction
  <2>2. CASE t = u
    BY <1>0, <2>1, <2>2 DEF Write, TxnRow, Kept
  <2>3. CASE t # u
    BY <1>0, <1>2, <2>1, <2>3 DEF Write
  <2> QED
    BY <2>2, <2>3
<1>7. CASE AddPosting(a) \/ UpdatePosting(a) \/ DeletePosting(a)
  <2>1. PICK u \in Txns : Write(u, txn[u])
    BY <1>7 DEF AddPosting, UpdatePosting, DeletePosting, CommitPostings
  <2> QED
    BY <1>0, <1>2, <2>1 DEF Write, TxnRow
<1>8. CASE UpdateTransaction(a)
  BY <1>0, <1>2, <1>8 DEF UpdateTransaction, Write, TxnRow
<1>9. CASE DismissNearDup(a)
  BY <1>0, <1>2, <1>9 DEF DismissNearDup, Write, TxnRow
<1>10. CASE UNCHANGED txn
  BY <1>2, <1>10
<1>11. CASE LogReview(a) \/ UpdateAccount(a) \/ DropAccount(a) \/ Rollback(a)
  BY <1>10, <1>11 DEF LogReview, UpdateAccount, DropAccount, Rollback
<1>12. CASE Request(a)
  BY <1>3, <1>9, <1>10, <1>12, RequestEffect DEF Reading, CreateAccount
<1> QED
  BY <1>1, <1>4, <1>5, <1>6, <1>7, <1>8, <1>11, <1>12 DEF Respond

\* An account goes only while nothing is posted to it.
LEMMA AccountEffect ==
  ASSUME LedgerInv, Next, NEW x \in Accounts, Exists(x)
  PROVE  Exists(x)' \/ (PostedTo(x) = {} /\ UNCHANGED post)
<1>0. acct \in [Accounts -> AcctRow]
  BY DEF LedgerInv, Typed
<1>1. PICK a \in Actors : Request(a) \/ Respond(a)
  BY DEF Next
<1>s. Sent(call[a])
  BY DEF LedgerInv
<1>2. CASE CreateAccount(a)
  BY <1>0, <1>2 DEF CreateAccount, Exists
<1>3. CASE UpdateAccount(a)
  BY <1>0, <1>3, <1>s DEF UpdateAccount, Exists, Sent
<1>4. CASE DropAccount(a)
  BY <1>0, <1>4 DEF DropAccount, Exists
<1>5. CASE UNCHANGED acct
  BY <1>5 DEF Exists
<1>6. CASE Request(a)
  BY <1>2, <1>5, <1>6, RequestEffect, Creation DEF Reading, DismissNearDup
<1>7. CASE AddPosting(a) \/ UpdatePosting(a) \/ DeletePosting(a)
  BY <1>5, <1>7 DEF AddPosting, UpdatePosting, DeletePosting, CommitPostings
<1> QED
  BY <1>1, <1>3, <1>4, <1>5, <1>6, <1>7
     DEF Respond, UpdateTransaction, DeleteTransaction, SoftDeleteTransaction,
         RestoreTransaction, ReconcileTransaction, UnreconcileTransaction, LogReview, Rollback

\* A posting that a step makes or moves has its transaction and its account.
LEMMA NewPosting ==
  ASSUME LedgerInv, Next, NEW p \in Postings, post'[p] # post[p], post'[p].txn # None
  PROVE  /\ post'[p].txn \in {t \in Txns : Kept(t)'}
         /\ post'[p].acct \in {x \in Accounts : Exists(x)'}
<1>0. txn \in [Txns -> TxnRow] /\ post \in [Postings -> PostRow]
  BY DEF LedgerInv, Typed
<1>n. Spent.txn = None
  BY DEF Spent, Free
<1>1. PICK a \in Actors : Request(a) \/ Respond(a)
  BY DEF Next
<1>s. Sent(call[a])
  BY DEF LedgerInv
<1>2. CASE CreateTransaction(a)
  <2>1. post' \in [Postings -> PostRow] /\ UNCHANGED acct
    BY <1>2, Creation
  <2>2. PICK t \in Txns, row \in TxnRow :
          /\ txn' = [txn EXCEPT ![t] = row] /\ row.status \notin {"absent", "gone"}
          /\ post'[p].txn = t /\ Exists(post'[p].acct)
    BY <1>2, Creation
  <2>3. Kept(t)'
    BY <1>0, <2>2 DEF Kept
  <2>4. post'[p] \in PostRow /\ post'[p].txn # None
    BY <2>1
  <2>5. post'[p].acct \in Accounts
    BY <2>4, <1>n DEF PostRow, Free
  <2> QED
    BY <2>1, <2>2, <2>3, <2>5 DEF Exists
<1>3. ASSUME NEW t \in Txns, NEW ps, NEW e, CommitPostings(a, t, ps, e), Kept(t),
             ps[p].txn = t, ps[p].acct \in Accounts, Exists(ps[p].acct)
      PROVE  /\ post'[p].txn \in {u \in Txns : Kept(u)'}
             /\ post'[p].acct \in {x \in Accounts : Exists(x)'}
  <2>1. /\ post' = ps /\ UNCHANGED acct
        /\ txn' = [txn EXCEPT ![t] = [txn[t] EXCEPT !.version = txn[t].version + 1]]
    BY <1>3 DEF CommitPostings, Write
  <2>2. txn'[t].status = txn[t].status
    BY <1>0, <2>1 DEF TxnRow
  <2> QED
    BY <1>3, <2>1, <2>2 DEF Kept, Exists
<1>4. CASE AddPosting(a)
  BY <1>0, <1>s, <1>3, <1>4 DEF AddPosting, Writing, Sent, CommitPostings
<1>5. CASE UpdatePosting(a)
  BY <1>0, <1>s, <1>3, <1>5 DEF UpdatePosting, Writing, Sent, CommitPostings
<1>6. CASE DeletePosting(a)
  BY <1>0, <1>n, <1>6 DEF DeletePosting, CommitPostings
<1>7. CASE DeleteTransaction(a)
  BY <1>0, <1>n, <1>7 DEF DeleteTransaction
<1> QED
  BY <1>1, <1>2, <1>4, <1>5, <1>6, <1>7, RequestEffect
     DEF Respond, UpdateTransaction, SoftDeleteTransaction, RestoreTransaction,
         ReconcileTransaction, UnreconcileTransaction, LogReview, UpdateAccount,
         DropAccount, Rollback, Reading, DismissNearDup, CreateAccount

LEMMA HomeStep == LedgerInv /\ Next => PostingsHaveHome'
<1> SUFFICES ASSUME LedgerInv, Next, NEW p \in Postings, post'[p].txn # None
             PROVE  /\ post'[p].txn \in {t \in Txns : Kept(t)'}
                    /\ post'[p].acct \in {x \in Accounts : Exists(x)'}
  BY DEF PostingsHaveHome, Kept
<1>1. CASE post'[p] # post[p]
  BY <1>1, NewPosting
<1>2. CASE post'[p] = post[p]
  <2>0. None = Free.txn /\ None = Spent.txn
    BY DEF Free, Spent
  <2>1. post[p] \in PostRow
    BY DEF LedgerInv, Typed
  <2>2. PICK t \in Txns, x \in Accounts : post[p].txn = t /\ post[p].acct = x
    BY <1>2, <2>0, <2>1 DEF PostRow
  <2>3. Kept(t) /\ Exists(x) /\ p \in PostedTo(x) /\ t # None
    BY <1>2, <2>2 DEF LedgerInv, PostingsHaveHome, PostedTo
  <2>4. \A a \in Actors : DeleteTransaction(a) => ~Writing(a, "hardDelete", t)
    BY <1>2, <2>0, <2>2, <2>3 DEF DeleteTransaction, Writing
  <2>5. \A a \in Actors : SoftDeleteTransaction(a) => Kept(t)'
    BY <2>2, <2>3 DEF SoftDeleteTransaction, Write, Kept, LedgerInv, Typed, TxnRow
  <2>6. Kept(t)'
    BY <2>2, <2>3, <2>4, <2>5, RemovalEffect
  <2>7. Exists(x)'
    BY <2>2, <2>3, AccountEffect
  <2> QED
    BY <1>2, <2>2, <2>6, <2>7
<1> QED
  BY <1>1, <1>2

----------------------------------------------------------------------------
\* The invariant holds at the start and every request keeps it.
LEMMA InitLedger == Init => LedgerInv
<1> SUFFICES ASSUME Init
             PROVE  LedgerInv
  OBVIOUS
<1>1. /\ acct = [z \in Accounts |-> [state |-> IF z \in Seeded THEN "open" ELSE "absent",
                                    parent |-> None, version |-> 1]]
      /\ call = [a \in Actors |-> Quiet]
  BY DEF Init
<1>2. acct \in [Accounts -> AcctRow] /\ DOMAIN call = Actors
  BY <1>1 DEF AcctRow
<1>3. \A a \in Actors : Sent(call[a])
  BY <1>1 DEF Sent, Quiet, AboutTxn
<1>4. NoTxn \in TxnRow /\ NoTxn.status = "absent" /\ Free.txn = None /\ Free \in PostRow
  BY DEF NoTxn, TxnRow, Review, Free, PostRow, Status
<1>5. CASE txn = [u \in Txns |-> NoTxn] /\ post = [r \in Postings |-> Free]
  BY <1>2, <1>3, <1>4, <1>5
     DEF LedgerInv, Typed, PostedBalances, PostingsHaveHome, Money
<1>6. CASE \E t \in Txns, p, q \in Postings, x, y \in Seeded, b, c \in Amounts,
              m \in Months :
             /\ x # y /\ p # q /\ b > 0
             /\ txn = [u \in Txns |->
                  IF u = t THEN [NoTxn EXCEPT !.status = "posted", !.month = m,
                                              !.near = "flagged", !.version = 1]
                  ELSE NoTxn]
             /\ post = [r \in Postings |->
                  IF r = p THEN [txn |-> t, acct |-> x, base |-> b]
                  ELSE IF r = q THEN [txn |-> t, acct |-> y, base |-> c]
                  ELSE Free]
             /\ Balanced(Book(post, t))
             /\ trail = [u \in Txns |-> IF u = t THEN <<"posted">> ELSE <<>>]
  <2>0. PICK t \in Txns, p, q \in Postings, x, y \in Seeded, b, c \in Amounts,
              m \in Months :
             /\ x # y /\ p # q /\ b > 0
             /\ txn = [u \in Txns |->
                  IF u = t THEN [NoTxn EXCEPT !.status = "posted", !.month = m,
                                              !.near = "flagged", !.version = 1]
                  ELSE NoTxn]
             /\ post = [r \in Postings |->
                  IF r = p THEN [txn |-> t, acct |-> x, base |-> b]
                  ELSE IF r = q THEN [txn |-> t, acct |-> y, base |-> c]
                  ELSE Free]
             /\ Balanced(Book(post, t))
             /\ trail = [u \in Txns |-> IF u = t THEN <<"posted">> ELSE <<>>]
    BY <1>6
  <2> DEFINE row == [NoTxn EXCEPT !.status = "posted", !.month = m,
                                  !.near = "flagged", !.version = 1]
  <2>1. m \in Nat
    BY LedgerAssumption DEF LedgerAssumption
  <2>2. row \in TxnRow /\ row.status = "posted"
    BY <2>1 DEF NoTxn, TxnRow, Review, Status
  <2>3. x \in Accounts /\ y \in Accounts /\ Exists(x) /\ Exists(y)
    BY <1>1, LedgerAssumption DEF LedgerAssumption, Exists
  <2>4. Typed
    BY <1>2, <1>4, <2>0, <2>2, <2>3 DEF Typed, PostRow
  <2>5. PostedBalances
    BY <1>4, <2>0 DEF PostedBalances, Money
  <2>6. PostingsHaveHome
    BY <1>4, <2>0, <2>2, <2>3 DEF PostingsHaveHome, Kept
  <2> QED
    BY <1>3, <2>4, <2>5, <2>6 DEF LedgerInv
<1> QED
  BY <1>5, <1>6 DEF Init

LEMMA LedgerStep == LedgerInv /\ [Next]_vars => LedgerInv'
<1>1. CASE Next
  BY <1>1, TypesStep, CallsStep, BalancesStep, HomeStep DEF LedgerInv
<1>2. CASE UNCHANGED vars
  BY <1>2 DEF vars, LedgerInv, Typed, Sent, PostedBalances, PostingsHaveHome, Book,
              Kept, Exists
<1> QED
  BY <1>1, <1>2

\* What the ledger keeps between any two statements: see LedgerInv.
THEOREM LedgerIsInv == Spec => []LedgerInv
  BY InitLedger, LedgerStep, PTL DEF Spec

\* No event is written to a row that never was, and no request beyond the bound
\* is begun.
Counters == DOMAIN trail = Txns /\ served \in 0 .. MaxRequests

LEMMA CountersStep == Counters /\ [Next]_vars => Counters'
<1> SUFFICES ASSUME Counters, [Next]_vars
             PROVE  DOMAIN trail' = Txns /\ served' \in 0 .. MaxRequests
  BY DEF Counters
<1>c. DOMAIN trail = Txns /\ served \in 0 .. MaxRequests
  BY DEF Counters
<1>0. MaxRequests \in Nat
  BY LedgerAssumption DEF LedgerAssumption
<1>1. CASE UNCHANGED vars
  BY <1>c, <1>1 DEF vars
<1>2. ASSUME NEW a \in Actors, Request(a)
      PROVE  DOMAIN trail' = Txns /\ served' \in 0 .. MaxRequests
  <2>1. served' \in 0 .. MaxRequests
    BY <1>c, <1>0, <1>2 DEF Request, Begin
  <2>2. DOMAIN trail' = Txns
    <3>1. CASE CreateTransaction(a)
      <4>1. PICK t, e : Log(t, e)
        BY <3>1 DEF CreateTransaction
      <4> QED
        BY <1>c, <4>1 DEF Log
    <3>2. CASE ~CreateTransaction(a)
      BY <1>c, <1>2, <3>2, RequestEffect DEF Reading, DismissNearDup, CreateAccount
    <3> QED
      BY <3>1, <3>2
  <2> QED
    BY <2>1, <2>2
<1>3. ASSUME NEW a \in Actors, Respond(a)
      PROVE  UNCHANGED served /\ DOMAIN trail' = Txns
  <2>1. CASE AddPosting(a) \/ UpdatePosting(a) \/ DeletePosting(a)
    BY <1>c, <2>1 DEF AddPosting, UpdatePosting, DeletePosting, CommitPostings, Log
  <2>2. CASE ~(AddPosting(a) \/ UpdatePosting(a) \/ DeletePosting(a))
    BY <1>c, <1>3, <2>2
       DEF Respond, UpdateTransaction, DeleteTransaction, SoftDeleteTransaction,
           RestoreTransaction, ReconcileTransaction, UnreconcileTransaction, LogReview,
           UpdateAccount, DropAccount, Rollback, Log
  <2> QED
    BY <2>1, <2>2
<1> QED
  BY <1>c, <1>1, <1>2, <1>3 DEF Next

\* The state keeps its types, the books and the bounds of requests included.
THEOREM LedgerTypes == Spec => []TypeOK
<1>1. Init => Counters
  <2>0. MaxRequests \in Nat
    BY LedgerAssumption DEF LedgerAssumption
  <2>1. Init => served = 0
    BY DEF Init
  <2>2. ASSUME Init
        PROVE  \/ trail = [u \in Txns |-> <<>>]
               \/ \E t : trail = [u \in Txns |-> IF u = t THEN <<"posted">> ELSE <<>>]
    BY <2>2, ZenonT(90) DEF Init
  <2> QED
    BY <2>0, <2>1, <2>2 DEF Counters
<1>2. LedgerInv /\ Counters => TypeOK
  BY DEF LedgerInv, Typed, TypeOK, Sent, Counters
<1> QED
  BY <1>1, <1>2, LedgerIsInv, CountersStep, PTL DEF Spec

\* The double-entry invariant: whatever requests interleave, a transaction
\* that counts has two legs at least and they sum to zero
\* (drizzle/0001_ledger_invariants.sql).
THEOREM DoubleEntry == Spec => []PostedBalances
  BY LedgerIsInv, PTL DEF LedgerInv

\* No posting is left without its transaction or its account, although the
\* routes count and delete in separate statements (accounts.ts).
THEOREM NoOrphans == Spec => []PostingsHaveHome
  BY LedgerIsInv, PTL DEF LedgerInv

\* The gate on reconciled transactions (transactions.service.ts) can be passed
\* only by a request that read the row before it was reconciled.
THEOREM GateHolds == Spec => OnlyStaleDeletes
<1> DEFINE Fair == \A t \in Txns :
             /\ txn[t].status = "reconciled"
             /\ txn'[t].status = "gone" \/ (txn'[t].deleted /\ ~txn[t].deleted)
             => \E a \in Actors : call[a].id = t /\ call[a].row.version < txn[t].version
<1>1. LedgerInv /\ [Next]_vars => [Fair]_vars
  <2> SUFFICES ASSUME LedgerInv, Next, NEW t \in Txns, txn[t].status = "reconciled",
                      txn'[t].status = "gone" \/ (txn'[t].deleted /\ ~txn[t].deleted)
               PROVE  \E a \in Actors : call[a].id = t /\ call[a].row.version < txn[t].version
    OBVIOUS
  <2>1. Kept(t)
    BY DEF Kept
  <2>2. PICK a \in Actors : Writing(a, "hardDelete", t) \/ Writing(a, "softDelete", t)
    BY <2>1, RemovalEffect DEF Kept
  <2>3. /\ call[a].id = t /\ call[a].row \in TxnRow /\ txn[t] \in TxnRow
        /\ call[a].row.version <= txn[t].version
        /\ call[a].row.version = txn[t].version => call[a].row = txn[t]
        /\ call[a].row.status # "reconciled"
    BY <2>2 DEF LedgerInv, Typed, Sent, Writing, AboutTxn
  <2> QED
    BY <2>3 DEF TxnRow
<1> QED
  BY <1>1, LedgerIsInv, PTL DEF Spec, OnlyStaleDeletes

----------------------------------------------------------------------------
(***************************************************************************)
(* The audit trail                                                         *)
(***************************************************************************)

\* A finite set of numbers that is not empty has a greatest member: among
\* the sets of what lies above each, a least one is empty.
LEMMA GreatestOf ==
  ASSUME NEW S \in SUBSET Nat, IsFiniteSet(S), S # {}
  PROVE  Max(S) \in S /\ \A y \in S : y <= Max(S)
<1> DEFINE Above(x) == {y \in S : y > x}
           T == {Above(x) : x \in S}
<1>1. T \subseteq FiniteSubsetsOf(S)
  BY FS_Subset DEF FiniteSubsetsOf
<1>2. PICK U \in T : \A V \in T : <<V, U>> \notin StrictSubsetOrdering(S)
  <2>1. T # {}
    OBVIOUS
  <2> HIDE DEF T
  <2> QED
    BY <1>1, <2>1, FS_StrictSubsetOrderingWellFounded, WFMin
<1>3. PICK x \in S : U = Above(x)
  BY <1>2
<1>4. \A y \in S : y <= x
  <2> SUFFICES ASSUME NEW y \in S, ~ (y <= x) PROVE FALSE
    OBVIOUS
  <2>1. y > x /\ x \in Nat /\ y \in Nat
    OBVIOUS
  <2>2. Above(y) \subseteq Above(x) /\ y \in Above(x) /\ y \notin Above(y)
    <3>1. \A z \in Nat : z > y => z > x
      BY <2>1
    <3>2. ~ (y > y)
      BY <2>1
    <3> QED
      BY <2>1, <3>1, <3>2
  <2>3. Above(y) \in T /\ Above(x) \in SUBSET S /\ Above(y) \in SUBSET S
    OBVIOUS
  <2>4. <<Above(y), U>> \notin StrictSubsetOrdering(S)
    BY <1>2, <2>3
  <2> QED
    BY <1>3, <2>2, <2>3, <2>4 DEF StrictSubsetOrdering
<1> QED
  BY <1>4 DEF Max

\* The last of some events: the new one if it is among them, and otherwise
\* what it was.
LEMMA LastAppended ==
  ASSUME NEW t, NEW events, NEW e, NEW S, trail[t] \in Seq(S),
         trail'[t] = Append(trail[t], e)
  PROVE  LastOf(t, events)' = IF e \in events THEN e ELSE LastOf(t, events)
<1> DEFINE s == trail[t]
           n == Len(s)
           at == {i \in DOMAIN s : s[i] \in events}
           then == {i \in DOMAIN trail'[t] : trail'[t][i] \in events}
<1>1. /\ n \in Nat /\ DOMAIN s = 1 .. n /\ DOMAIN trail'[t] = 1 .. n + 1
      /\ trail'[t][n + 1] = e /\ \A i \in 1 .. n : trail'[t][i] = s[i]
  BY AppendProperties, LenProperties
<1>2. at \in SUBSET Nat /\ \A i \in at : i \in 1 .. n /\ i <= n
  BY <1>1
<1>3. IsFiniteSet(at)
  BY <1>1, <1>2, FS_BoundedSetOfNaturals
<1>4. CASE e \in events
  <2>1. then = at \cup {n + 1}
    BY <1>1, <1>4
  <2>2. n + 1 \in then /\ \A i \in then : n + 1 >= i /\ (i >= n + 1 => i = n + 1)
    BY <1>1, <1>2, <2>1
  <2> HIDE DEF at, then
  <2>3. Max(then) = n + 1
    BY <2>2 DEF Max
  <2> QED
    BY <1>1, <1>4, <2>2, <2>3 DEF LastOf, then
<1>5. CASE e \notin events
  <2>1. then = at
    BY <1>1, <1>5
  <2>2. CASE at = {}
    BY <1>5, <2>1, <2>2 DEF LastOf
  <2>3. CASE at # {}
    <3>1. Max(at) \in at
      BY <1>2, <1>3, <2>3, GreatestOf
    <3>2. trail'[t][Max(at)] = s[Max(at)]
      BY <1>1, <1>2, <3>1
    <3> QED
      BY <1>5, <2>1, <2>3, <3>2 DEF LastOf
  <2> QED
    BY <2>2, <2>3
<1> QED
  BY <1>4, <1>5
Events == {"draft", "posted", "reconciled", "unreconciled", "deleted", "restored",
           "updated", "hard_deleted", "posting_added", "posting_updated",
           "posting_removed", "near_dup_reviewed"}

\* What the row of t shows of deletion and of status is what its events say.
Told(t) ==
  /\ txn[t].deleted <=> LastOf(t, {"deleted", "restored"}) = "deleted"
  /\ txn[t].status = LET last == LastOf(t, Status \cup {"unreconciled"})
                     IN  IF last = "unreconciled" THEN "posted" ELSE last

TrailInv ==
  /\ DOMAIN trail = Txns
  /\ \A t \in Txns : /\ trail[t] \in Seq(Events)
                     /\ txn[t].status = "absent" => trail[t] = <<>>
                     /\ Kept(t) => Told(t)

SameState(t) == txn'[t].status = txn[t].status /\ txn'[t].deleted = txn[t].deleted

\* What a step that logs e does to the row of t.
Tells(t, e) ==
  \/ /\ txn[t].status = "absent" /\ e \in Status \ {"absent", "gone"}
     /\ txn'[t].status = e /\ ~txn'[t].deleted
  \/ /\ Kept(t) /\ e \in {"deleted", "restored"}
     /\ txn'[t].status = txn[t].status /\ (txn'[t].deleted <=> e = "deleted")
  \/ /\ Kept(t) /\ e \in {"reconciled", "unreconciled"}
     /\ txn'[t].status = IF e = "unreconciled" THEN "posted" ELSE e
     /\ txn'[t].deleted = txn[t].deleted
  \/ Kept(t) /\ e = "hard_deleted" /\ txn'[t].status = "gone"
  \/ /\ Kept(t) /\ SameState(t)
     /\ e \in {"updated", "posting_added", "posting_updated", "posting_removed",
               "near_dup_reviewed"}

Others(t) ==
  /\ DOMAIN trail' = Txns
  /\ \A u \in Txns \ {t} : trail'[u] = trail[u] /\ txn'[u] = txn[u]

\* A request that is on its way to a row keeps what it does to it and what
\* it logs together.
LEMMA LoggedWrite ==
  ASSUME Typed, DOMAIN trail = Txns, NEW t \in Txns, NEW row \in TxnRow, NEW e,
         Write(t, row), Log(t, e)
  PROVE  /\ Others(t) /\ trail'[t] = Append(trail[t], e)
         /\ txn'[t].status = row.status /\ txn'[t].deleted = row.deleted
  BY DEF Typed, Write, Log, Others, TxnRow

\* Every step leaves deletion, status and events of every transaction alone,
\* or logs one event of one transaction that tells what it did.
LEMMA TrailEffect ==
  ASSUME LedgerInv, Next, DOMAIN trail = Txns
  PROVE  \/ UNCHANGED trail /\ \A t \in Txns : SameState(t)
         \/ \E t \in Txns, e \in Events :
              Others(t) /\ trail'[t] = Append(trail[t], e) /\ Tells(t, e)
<1> DEFINE Quietly == UNCHANGED trail /\ \A t \in Txns : SameState(t)
           Telling(t, e) == Others(t) /\ trail'[t] = Append(trail[t], e) /\ Tells(t, e)
<1>0. Typed /\ txn \in [Txns -> TxnRow]
  BY DEF LedgerInv, Typed
<1>1. PICK a \in Actors : Request(a) \/ Respond(a)
  BY DEF Next
<1>2. CASE CreateTransaction(a)
  <2>1. PICK t \in {u \in Txns : txn[u].status = "absent"},
             s \in Status \ {"absent", "gone"}, m \in Months,
             x, y \in {z \in Accounts : Exists(z)}, b, c \in Amounts,
             p, q \in {r \in Postings : post[r] = Free} :
          LET ps == [post EXCEPT ![p] = [txn |-> t, acct |-> x, base |-> b],
                                 ![q] = [txn |-> t, acct |-> y, base |-> c]]
          IN  /\ p # q
              /\ s \in Money => Balanced(Book(ps, t))
              /\ txn' = [txn EXCEPT ![t] = [NoTxn EXCEPT !.status = s, !.month = m,
                                                        !.version = 1]]
              /\ post' = ps
              /\ Log(t, s)
              /\ UNCHANGED <<acct, call>>
    BY <1>2 DEF CreateTransaction
  <2> DEFINE row == [NoTxn EXCEPT !.status = s, !.month = m, !.version = 1]
  <2>2. row.status = s /\ ~row.deleted
    BY DEF NoTxn
  <2>3. txn' = [txn EXCEPT ![t] = row]
    BY <2>1
  <2> HIDE DEF row
  <2>4. s \in Events
    BY DEF Events, Status
  <2>5. Telling(t, s)
    BY <1>0, <2>1, <2>2, <2>3 DEF Log, Others, Tells
  <2> QED
    BY <2>4, <2>5
<1>3. CASE UpdateTransaction(a)
  <2>0. PICK t \in Txns :
          \E m, e, n : /\ Kept(t) /\ Log(t, "updated")
                      /\ Write(t, [txn[t] EXCEPT !.month = m, !.edited = e, !.near = n])
    BY <1>3, ZenonT(90) DEF UpdateTransaction, Writing
  <2>1. PICK m, e, n :
          /\ Kept(t) /\ Log(t, "updated")
          /\ Write(t, [txn[t] EXCEPT !.month = m, !.edited = e, !.near = n])
    BY <2>0
  <2> DEFINE row == [txn[t] EXCEPT !.month = m, !.edited = e, !.near = n]
  <2>2. row.status = txn[t].status /\ row.deleted = txn[t].deleted
        /\ [row EXCEPT !.version = txn[t].version + 1].status = row.status
        /\ [row EXCEPT !.version = txn[t].version + 1].deleted = row.deleted
    BY <1>0 DEF TxnRow
  <2>3. txn' = [txn EXCEPT ![t] = [row EXCEPT !.version = txn[t].version + 1]]
    BY <2>1 DEF Write
  <2> HIDE DEF row
  <2>4. SameState(t) /\ Others(t)
    BY <1>0, <2>1, <2>2, <2>3 DEF SameState, Others, Log
  <2>5. Telling(t, "updated")
    BY <2>1, <2>4 DEF Log, Tells
  <2> QED
    BY <2>5 DEF Events
<1>4. CASE DeleteTransaction(a)
  <2>1. PICK t \in Txns : /\ Kept(t) /\ Log(t, "hard_deleted")
                          /\ Write(t, [txn[t] EXCEPT !.status = "gone"])
    BY <1>4 DEF DeleteTransaction, Writing
  <2> DEFINE row == [txn[t] EXCEPT !.status = "gone"]
  <2>2. row \in TxnRow /\ row.status = "gone"
    BY <1>0 DEF TxnRow, Status
  <2>3. Write(t, row)
    BY <2>1
  <2> HIDE DEF row
  <2>4. Telling(t, "hard_deleted")
    BY <1>0, <2>1, <2>2, <2>3, LoggedWrite DEF Tells
  <2> QED
    BY <2>4 DEF Events
<1>5. CASE SoftDeleteTransaction(a) \/ RestoreTransaction(a)
  <2>1. PICK t \in Txns, e \in {"deleted", "restored"} :
          /\ Kept(t) /\ Log(t, e)
          /\ Write(t, [txn[t] EXCEPT !.deleted = (e = "deleted")])
    <3>1. CASE SoftDeleteTransaction(a)
      <4>1. PICK t \in Txns : /\ Kept(t) /\ Log(t, "deleted")
                              /\ Write(t, [txn[t] EXCEPT !.deleted = TRUE])
        BY <3>1 DEF SoftDeleteTransaction, Writing
      <4>2. ("deleted" = "deleted") = TRUE
        OBVIOUS
      <4> QED
        BY <4>1, <4>2
    <3>2. CASE RestoreTransaction(a)
      <4>1. PICK t \in Txns : /\ Kept(t) /\ Log(t, "restored")
                              /\ Write(t, [txn[t] EXCEPT !.deleted = FALSE])
        BY <3>2 DEF RestoreTransaction, Writing
      <4>2. ("restored" = "deleted") = FALSE
        OBVIOUS
      <4> QED
        BY <4>1, <4>2
    <3> QED
      BY <1>5, <3>1, <3>2
  <2> DEFINE b == (e = "deleted")
  <2>2. b \in BOOLEAN
    OBVIOUS
  <2>3. Write(t, [txn[t] EXCEPT !.deleted = b])
    BY <2>1
  <2>4. b <=> e = "deleted"
    OBVIOUS
  <2> HIDE DEF b
  <2>5. /\ [txn[t] EXCEPT !.deleted = b] \in TxnRow
        /\ [txn[t] EXCEPT !.deleted = b].status = txn[t].status
        /\ [txn[t] EXCEPT !.deleted = b].deleted = b
    BY <1>0, <2>2 DEF TxnRow
  <2>6. /\ Others(t) /\ trail'[t] = Append(trail[t], e)
        /\ txn'[t].status = txn[t].status /\ txn'[t].deleted = b
    BY <1>0, <2>1, <2>3, <2>5, LoggedWrite, ZenonT(30)
  <2>7. Telling(t, e)
    BY <2>1, <2>4, <2>6 DEF Tells
  <2> QED
    BY <2>1, <2>7 DEF Events
<1>6. CASE ReconcileTransaction(a) \/ UnreconcileTransaction(a)
  <2>1. PICK t \in Txns, e \in {"reconciled", "unreconciled"}, s \in {"reconciled", "posted"} :
          /\ Kept(t) /\ Log(t, e) /\ s = IF e = "unreconciled" THEN "posted" ELSE e
          /\ Write(t, [txn[t] EXCEPT !.status = s])
    BY <1>6 DEF ReconcileTransaction, UnreconcileTransaction, Writing
  <2> DEFINE row == [txn[t] EXCEPT !.status = s]
  <2>2. row \in TxnRow /\ row.status = s /\ row.deleted = txn[t].deleted
    BY <1>0, <2>1 DEF TxnRow, Status
  <2>w. Write(t, row)
    BY <2>1
  <2> HIDE DEF row
  <2>4. /\ Others(t) /\ trail'[t] = Append(trail[t], e)
        /\ txn'[t].status = s /\ txn'[t].deleted = txn[t].deleted
    BY <1>0, <2>1, <2>2, <2>w, LoggedWrite
  <2>3. Telling(t, e)
    BY <2>1, <2>4 DEF Tells
  <2> QED
    BY <2>1, <2>3 DEF Events
<1>7. CASE AddPosting(a) \/ UpdatePosting(a) \/ DeletePosting(a)
  <2>1. PICK t \in Txns, e \in {"posting_added", "posting_updated", "posting_removed"} :
          Kept(t) /\ Log(t, e) /\ Write(t, txn[t])
    BY <1>7 DEF AddPosting, UpdatePosting, DeletePosting, CommitPostings, Writing
  <2>2. Telling(t, e)
    BY <1>0, <2>1, LoggedWrite DEF Tells, SameState
  <2> QED
    BY <2>1, <2>2 DEF Events
<1>8. CASE LogReview(a)
  <2>1. PICK t \in Txns : Kept(t) /\ Log(t, "near_dup_reviewed") /\ UNCHANGED txn
    BY <1>8 DEF LogReview, Writing
  <2>2. Telling(t, "near_dup_reviewed")
    BY <2>1 DEF Tells, SameState, Others, Log
  <2> QED
    BY <2>2 DEF Events
<1>9. CASE DismissNearDup(a)
  <2>1. PICK t \in Txns : Write(t, [txn[t] EXCEPT !.near = "reviewed"])
    BY <1>9 DEF DismissNearDup
  <2>2. /\ [txn[t] EXCEPT !.near = "reviewed"].status = txn[t].status
        /\ [txn[t] EXCEPT !.near = "reviewed"].deleted = txn[t].deleted
        /\ [txn[t] EXCEPT !.near = "reviewed"] \in TxnRow
    BY <1>0 DEF TxnRow, Review
  <2>3. \A u \in Txns : SameState(u)
    BY <1>0, <2>1, <2>2 DEF Write, SameState, TxnRow
  <2> QED
    BY <1>9, <2>3 DEF DismissNearDup
<1>10. CASE UNCHANGED <<txn, trail>>
  BY <1>10 DEF SameState
<1>11. CASE UpdateAccount(a) \/ DropAccount(a) \/ Rollback(a)
  BY <1>10, <1>11 DEF UpdateAccount, DropAccount, Rollback
<1>12. CASE Request(a)
  BY <1>2, <1>9, <1>10, <1>12, RequestEffect DEF Reading, CreateAccount
<1> QED
  BY <1>1, <1>3, <1>4, <1>5, <1>6, <1>7, <1>8, <1>11, <1>12 DEF Respond

LEMMA TrailStep == LedgerInv /\ TrailInv /\ [Next]_vars => TrailInv'
<1> SUFFICES ASSUME LedgerInv, TrailInv, [Next]_vars
             PROVE  TrailInv'
  OBVIOUS
<1>0. DOMAIN trail = Txns /\ \A t \in Txns : trail[t] \in Seq(Events)
  BY DEF TrailInv
<1>1. ASSUME UNCHANGED trail, \A t \in Txns : SameState(t)
      PROVE  TrailInv'
  <2>1. \A t \in Txns : \A E : LastOf(t, E)' = LastOf(t, E)
    BY <1>1 DEF LastOf
  <2>2. DOMAIN trail' = Txns
    BY <1>0, <1>1
  <2>3. ASSUME NEW t \in Txns
        PROVE  /\ trail'[t] \in Seq(Events)
               /\ txn'[t].status = "absent" => trail'[t] = <<>>
               /\ Kept(t)' => Told(t)'
    <3>1. SameState(t) /\ trail'[t] = trail[t]
      BY <1>1
    <3>2. Kept(t)' => Kept(t)
      BY <3>1 DEF SameState, Kept
    <3>3. Told(t) => Told(t)'
      BY <2>1, <3>1 DEF Told, SameState
    <3> QED
      BY <1>0, <3>1, <3>2, <3>3 DEF TrailInv, SameState
  <2> QED
    BY <2>2, <2>3 DEF TrailInv
<1>2. ASSUME NEW t \in Txns, NEW e \in Events,
             Next, Others(t), trail'[t] = Append(trail[t], e), Tells(t, e)
      PROVE  TrailInv'
  <2>1. DOMAIN trail' = Txns
    BY <1>2 DEF Others
  <2>2. ASSUME NEW u \in Txns, u # t
        PROVE  /\ trail'[u] \in Seq(Events)
               /\ txn'[u].status = "absent" => trail'[u] = <<>>
               /\ Kept(u)' => Told(u)'
    <3>1. trail'[u] = trail[u] /\ txn'[u] = txn[u]
      BY <1>2, <2>2 DEF Others
    <3>2. \A E : LastOf(u, E)' = LastOf(u, E)
      BY <3>1 DEF LastOf
    <3>3. Kept(u)' => Kept(u)
      BY <3>1 DEF Kept
    <3>4. Told(u) => Told(u)'
      BY <3>1, <3>2 DEF Told
    <3> QED
      BY <1>0, <3>1, <3>3, <3>4 DEF TrailInv
  <2>3. trail'[t] \in Seq(Events) /\ txn'[t].status # "absent"
    BY <1>0, <1>2, AppendProperties DEF Tells, Kept, Status, SameState
  <2>4. ASSUME NEW E
        PROVE  LastOf(t, E)' = IF e \in E THEN e ELSE LastOf(t, E)
    BY <1>0, <1>2, LastAppended
  <2> DEFINE D == {"deleted", "restored"}
             S == Status \cup {"unreconciled"}
             was == LastOf(t, D)
             last == LastOf(t, S)
  <2>5. /\ LastOf(t, D)' = IF e \in D THEN e ELSE was
        /\ LastOf(t, S)' = IF e \in S THEN e ELSE last
    BY <2>4
  <2>6. ASSUME Kept(t)'
        PROVE  Told(t)'
    <3>1. CASE txn[t].status = "absent"
      <4>1. trail[t] = <<>> /\ e \in Status \ {"absent", "gone"}
            /\ txn'[t].status = e /\ ~txn'[t].deleted
        BY <1>2, <3>1 DEF TrailInv, Tells, Kept
      <4>2. was = "never"
        BY <4>1 DEF LastOf
      <4>3. e \in S /\ e \notin D /\ e # "unreconciled"
        BY <4>1 DEF Status
      <4> HIDE DEF was, last
      <4>4. LastOf(t, D)' = "never" /\ LastOf(t, S)' = e
        BY <2>5, <4>2, <4>3
      <4> QED
        BY <4>1, <4>3, <4>4 DEF Told
    <3>2. CASE txn[t].status # "absent"
      <4>1. Kept(t) /\ e # "hard_deleted"
        BY <1>2, <2>6, <3>2 DEF Tells, Kept
      <4>2. /\ txn[t].deleted <=> was = "deleted"
            /\ txn[t].status = IF last = "unreconciled" THEN "posted" ELSE last
        BY <4>1 DEF TrailInv, Told
      <4> HIDE DEF was, last
      <4>3. CASE e \in D
        <5>1. /\ txn'[t].status = txn[t].status
              /\ txn'[t].deleted <=> e = "deleted"
          BY <1>2, <3>2, <4>3 DEF Tells
        <5>2. LastOf(t, D)' = e /\ LastOf(t, S)' = last
          BY <2>5, <4>3 DEF Status
        <5> QED
          BY <4>2, <5>1, <5>2 DEF Told
      <4>4. CASE e \in {"reconciled", "unreconciled"}
        <5>1. /\ txn'[t].status = IF e = "unreconciled" THEN "posted" ELSE e
              /\ txn'[t].deleted = txn[t].deleted
          BY <1>2, <3>2, <4>4 DEF Tells
        <5>2. LastOf(t, D)' = was /\ LastOf(t, S)' = e
          BY <2>5, <4>4 DEF Status
        <5> QED
          BY <4>2, <5>1, <5>2 DEF Told
      <4>5. CASE e \notin D \cup {"reconciled", "unreconciled"}
        <5>1. SameState(t) /\ e \notin S
          BY <1>2, <3>2, <4>1, <4>5 DEF Tells, Status
        <5>2. LastOf(t, D)' = was /\ LastOf(t, S)' = last
          BY <2>5, <4>5, <5>1
        <5> QED
          BY <4>2, <5>1, <5>2 DEF Told, SameState
      <4> QED
        BY <4>3, <4>4, <4>5
    <3> QED
      BY <3>1, <3>2
  <2> QED
    BY <2>1, <2>2, <2>3, <2>6 DEF TrailInv
<1>3. CASE Next
  BY <1>0, <1>1, <1>2, <1>3, TrailEffect
<1>4. CASE UNCHANGED vars
  BY <1>1, <1>4 DEF vars, SameState
<1> QED
  BY <1>3, <1>4

\* At the start the events of a transaction are its posting, or there are none.
LEMMA InitTrail == Init => TrailInv
<1> SUFFICES ASSUME Init
             PROVE  TrailInv
  OBVIOUS
<1>1. NoTxn.status = "absent"
  BY DEF NoTxn
<1>2. CASE txn = [u \in Txns |-> NoTxn] /\ trail = [u \in Txns |-> <<>>]
  BY <1>1, <1>2 DEF TrailInv, Kept
<1>3. CASE \E t \in Txns, p, q \in Postings, x, y \in Seeded, b, c \in Amounts,
              m \in Months :
             /\ x # y /\ p # q /\ b > 0
             /\ txn = [u \in Txns |->
                  IF u = t THEN [NoTxn EXCEPT !.status = "posted", !.month = m,
                                              !.near = "flagged", !.version = 1]
                  ELSE NoTxn]
             /\ post = [r \in Postings |->
                  IF r = p THEN [txn |-> t, acct |-> x, base |-> b]
                  ELSE IF r = q THEN [txn |-> t, acct |-> y, base |-> c]
                  ELSE Free]
             /\ Balanced(Book(post, t))
             /\ trail = [u \in Txns |-> IF u = t THEN <<"posted">> ELSE <<>>]
  <2>1. PICK t \in Txns, p, q \in Postings, x, y \in Seeded, b, c \in Amounts,
              m \in Months :
             /\ x # y /\ p # q /\ b > 0
             /\ txn = [u \in Txns |->
                  IF u = t THEN [NoTxn EXCEPT !.status = "posted", !.month = m,
                                              !.near = "flagged", !.version = 1]
                  ELSE NoTxn]
             /\ post = [r \in Postings |->
                  IF r = p THEN [txn |-> t, acct |-> x, base |-> b]
                  ELSE IF r = q THEN [txn |-> t, acct |-> y, base |-> c]
                  ELSE Free]
             /\ Balanced(Book(post, t))
             /\ trail = [u \in Txns |-> IF u = t THEN <<"posted">> ELSE <<>>]
    BY <1>3
  <2>2. txn[t].status = "posted" /\ ~txn[t].deleted /\ trail[t] = <<"posted">>
    BY <2>1 DEF NoTxn
  <2>3. DOMAIN trail[t] = 1 .. 1 /\ trail[t][1] = "posted" /\ trail[t] \in Seq(Events)
    BY <2>2 DEF Events
  <2>4. LastOf(t, {"deleted", "restored"}) = "never"
    BY <2>3 DEF LastOf
  <2>5. LastOf(t, Status \cup {"unreconciled"}) = "posted"
    <3> DEFINE at == {i \in DOMAIN trail[t] : trail[t][i] \in Status \cup {"unreconciled"}}
    <3>1. at = {1}
      BY <2>3 DEF Status
    <3>2. Max({1}) = 1
      <4>1. 1 \in {1} /\ \A z \in {1} : 1 >= z
        OBVIOUS
      <4> QED
        BY <4>1 DEF Max
    <3> QED
      BY <2>3, <3>1, <3>2 DEF LastOf
  <2>6. Told(t)
    BY <2>2, <2>4, <2>5 DEF Told
  <2>7. \A u \in Txns \ {t} : txn[u].status = "absent" /\ trail[u] = <<>>
    BY <1>1, <2>1
  <2>8. DOMAIN trail = Txns
    BY <2>1
  <2>9. \A u \in Txns : /\ trail[u] \in Seq(Events)
                        /\ txn[u].status = "absent" => trail[u] = <<>>
                        /\ Kept(u) => Told(u)
    <3> SUFFICES ASSUME NEW u \in Txns
                 PROVE  /\ trail[u] \in Seq(Events)
                        /\ txn[u].status = "absent" => trail[u] = <<>>
                        /\ Kept(u) => Told(u)
      OBVIOUS
    <3>1. CASE u = t
      BY <2>2, <2>3, <2>6, <3>1
    <3>2. CASE u # t
      <4>1. trail[u] = <<>> /\ ~Kept(u)
        BY <2>7, <3>2 DEF Kept
      <4>2. <<>> \in Seq(Events)
        OBVIOUS
      <4> QED
        BY <4>1, <4>2
    <3> QED
      BY <3>1, <3>2
  <2> QED
    BY <2>8, <2>9 DEF TrailInv
<1> QED
  BY <1>2, <1>3 DEF Init

\* The audit trail tells the truth: the last deletion or restore, and the last
\* change of status, that transaction_events records are the ones the row shows,
\* however the requests of transactions.service.ts interleave.
THEOREM TrailIsTrue == Spec => []TrailTellsState
<1>1. TrailInv => TrailTellsState
  BY DEF TrailInv, Told, TrailTellsState
<1> QED
  BY <1>1, InitTrail, LedgerIsInv, TrailStep, PTL DEF Spec

----------------------------------------------------------------------------
(***************************************************************************)
(* Sums                                                                    *)
(***************************************************************************)

\* Induction over the subsets of a finite set, with the property as a set: a
\* least subset outside it would contradict the step.
LEMMA SubsetInduction ==
  ASSUME NEW A, IsFiniteSet(A), NEW T,
         \A U \in SUBSET A : (\A V \in SUBSET U : V # U => V \in T) => U \in T
  PROVE  \A U \in SUBSET A : U \in T
<1> DEFINE Bad == (SUBSET A) \ T
<1> SUFFICES ASSUME Bad # {} PROVE FALSE
  OBVIOUS
<1>1. Bad \subseteq FiniteSubsetsOf(A)
  BY FS_Subset DEF FiniteSubsetsOf
<1>2. PICK U \in Bad : \A V \in Bad : <<V, U>> \notin StrictSubsetOrdering(A)
  <2> HIDE DEF Bad
  <2> QED
    BY <1>1, FS_StrictSubsetOrderingWellFounded, WFMin
<1>3. \A V \in SUBSET U : V # U => V \in T
  BY <1>2 DEF StrictSubsetOrdering
<1> QED
  BY <1>2, <1>3

\* Sums over finite sets, as MapThenSumSet and FoldFunction compute them: an
\* element that is chosen, and the rest.
One(s) == CHOOSE x \in s : TRUE

\* g sums f over the subsets of S, an element at a time.
Adds(f, S, g) ==
  g = [s \in SUBSET S |-> IF s = {} THEN 0 ELSE f[One(s)] + g[s \ {One(s)}]]

SumOn(f, S) == (CHOOSE g : Adds(f, S, g))[S]

\* Two such functions agree where both are defined.
LEMMA AddsAgree ==
  ASSUME NEW f, NEW A, NEW B, NEW g, NEW h, Adds(f, A, g), Adds(f, B, h),
         NEW S, S \subseteq A, S \subseteq B, IsFiniteSet(S)
  PROVE  g[S] = h[S]
<1> DEFINE T == {s \in SUBSET S : g[s] = h[s]}
<1>1. ASSUME NEW U \in SUBSET S, \A V \in SUBSET U : V # U => V \in T
      PROVE  U \in T
  <2>1. U \in SUBSET A /\ U \in SUBSET B
    OBVIOUS
  <2>2. /\ g[U] = IF U = {} THEN 0 ELSE f[One(U)] + g[U \ {One(U)}]
        /\ h[U] = IF U = {} THEN 0 ELSE f[One(U)] + h[U \ {One(U)}]
    BY <2>1 DEF Adds
  <2>3. CASE U = {}
    BY <2>2, <2>3
  <2>4. CASE U # {}
    <3>1. One(U) \in U
      BY <2>4 DEF One
    <3>2. g[U \ {One(U)}] = h[U \ {One(U)}]
      BY <1>1, <3>1
    <3> QED
      BY <2>2, <2>4, <3>2
  <2> QED
    BY <2>3, <2>4
<1> HIDE DEF T
<1>2. S \in T
  BY <1>1, SubsetInduction
<1> QED
  BY <1>2 DEF T

\* Over a finite set there is one.
LEMMA AddsExists ==
  ASSUME NEW f, NEW A, IsFiniteSet(A)
  PROVE  \A S \in SUBSET A : \E g : Adds(f, S, g)
<1> DEFINE T == {S \in SUBSET A : \E g : Adds(f, S, g)}
           F(S) == CHOOSE g : Adds(f, S, g)
<1>1. ASSUME NEW U \in SUBSET A, \A V \in SUBSET U : V # U => V \in T
      PROVE  U \in T
  <2> DEFINE rest(s) == s \ {One(s)}
             G == [s \in SUBSET U |->
                     IF s = {} THEN 0 ELSE f[One(s)] + F(rest(s))[rest(s)]]
  <2>1. ASSUME NEW V \in SUBSET U, V # U
        PROVE  Adds(f, V, F(V))
    <3>1. \E g : Adds(f, V, g)
      BY <1>1, <2>1
    <3> QED
      BY <3>1
  <2>2. ASSUME NEW s \in SUBSET U, s # {}
        PROVE  G[rest(s)] = F(rest(s))[rest(s)]
    <3> DEFINE V == rest(s)
    <3>1. One(s) \in s
      BY <2>2 DEF One
    <3>2. V \in SUBSET U /\ V # U
      BY <3>1
    <3>3. Adds(f, V, F(V))
      BY <2>1, <3>2
    <3>4. CASE V = {}
      <4>1. F(V)[V] = 0
        BY <3>3, <3>4 DEF Adds
      <4>2. G[V] = 0
        BY <3>2, <3>4
      <4> QED
        BY <4>1, <4>2
    <3>5. CASE V # {}
      <4> DEFINE W == rest(V)
      <4>1. One(V) \in V
        BY <3>5 DEF One
      <4>2. W \in SUBSET U /\ W # U /\ W \subseteq V
        BY <3>2, <4>1
      <4>3. Adds(f, W, F(W))
        BY <2>1, <4>2
      <4>4. IsFiniteSet(W)
        <5>1. W \subseteq A
          BY <4>2
        <5> QED
          BY <5>1, FS_Subset
      <4>5. F(V)[W] = F(W)[W]
        <5> HIDE DEF F, W, V
        <5> QED
          BY <3>3, <4>2, <4>3, <4>4, AddsAgree
      <4>6. F(V)[V] = f[One(V)] + F(V)[W]
        <5> HIDE DEF F
        <5> QED
          BY <3>3, <3>5 DEF Adds
      <4>7. G[V] = f[One(V)] + F(W)[W]
        <5> HIDE DEF F
        <5> QED
          BY <3>2, <3>5
      <4> QED
        BY <4>5, <4>6, <4>7
    <3> QED
      BY <3>4, <3>5
  <2>3. Adds(f, U, G)
    <3>1. \A s \in SUBSET U : G[s] = IF s = {} THEN 0 ELSE f[One(s)] + G[s \ {One(s)}]
      <4> SUFFICES ASSUME NEW s \in SUBSET U
                   PROVE  G[s] = IF s = {} THEN 0 ELSE f[One(s)] + G[rest(s)]
        OBVIOUS
      <4>1. G[s] = IF s = {} THEN 0 ELSE f[One(s)] + F(rest(s))[rest(s)]
        <5> HIDE DEF F, rest
        <5> QED
          OBVIOUS
      <4> HIDE DEF G, F, rest
      <4> QED
        BY <2>2, <4>1
    <3>2. G = [s \in SUBSET U |-> G[s]]
      <4> HIDE DEF F, rest
      <4> QED
        OBVIOUS
    <3> HIDE DEF G
    <3> QED
      BY <3>1, <3>2 DEF Adds
  <2> HIDE DEF G
  <2> QED
    BY <2>3
<1> HIDE DEF T
<1>2. \A U \in SUBSET A : U \in T
  BY <1>1, SubsetInduction
<1> QED
  BY <1>2 DEF T

\* The sum over no element, and over one element and the rest.
LEMMA SumUnfolds ==
  ASSUME NEW f, NEW S, IsFiniteSet(S)
  PROVE  SumOn(f, S) = IF S = {} THEN 0 ELSE f[One(S)] + SumOn(f, S \ {One(S)})
<1> DEFINE R == S \ {One(S)}
           g == CHOOSE h : Adds(f, S, h)
           k == CHOOSE h : Adds(f, R, h)
<1>1. Adds(f, S, g) /\ Adds(f, R, k)
  <2>1. (\E h : Adds(f, S, h)) /\ (\E h : Adds(f, R, h))
    BY AddsExists
  <2> QED
    BY <2>1
<1>2. IsFiniteSet(R)
  BY FS_Subset
<1>3. g[R] = k[R]
  <2> HIDE DEF g, k, R
  <2>1. R \subseteq S
    BY DEF R
  <2> QED
    BY <1>1, <1>2, <2>1, AddsAgree
<1>4. g[S] = IF S = {} THEN 0 ELSE f[One(S)] + g[R]
  <2> HIDE DEF g
  <2> QED
    BY <1>1 DEF Adds
<1> QED
  BY <1>3, <1>4 DEF SumOn

\* The sum depends on the values over the set only, and is an integer if they
\* are.
LEMMA SumOfInts ==
  ASSUME NEW f, NEW A, IsFiniteSet(A), \A x \in A : f[x] \in Int
  PROVE  \A S \in SUBSET A : SumOn(f, S) \in Int
<1> DEFINE T == {S \in SUBSET A : SumOn(f, S) \in Int}
<1>1. ASSUME NEW U \in SUBSET A, \A V \in SUBSET U : V # U => V \in T
      PROVE  U \in T
  <2>1. SumOn(f, U) = IF U = {} THEN 0 ELSE f[One(U)] + SumOn(f, U \ {One(U)})
    BY FS_Subset, SumUnfolds
  <2>2. CASE U = {}
    BY <2>1, <2>2
  <2>3. CASE U # {}
    <3>1. One(U) \in U
      BY <2>3 DEF One
    <3>2. SumOn(f, U \ {One(U)}) \in Int /\ f[One(U)] \in Int
      BY <1>1, <3>1
    <3> QED
      BY <2>1, <2>3, <3>2
  <2> QED
    BY <2>2, <2>3
<1> HIDE DEF T
<1>2. \A U \in SUBSET A : U \in T
  BY <1>1, SubsetInduction
<1> QED
  BY <1>2 DEF T

LEMMA SumSame ==
  ASSUME NEW f, NEW h, NEW A, IsFiniteSet(A), \A x \in A : f[x] = h[x]
  PROVE  SumOn(f, A) = SumOn(h, A)
<1> DEFINE T == {S \in SUBSET A : SumOn(f, S) = SumOn(h, S)}
<1>1. ASSUME NEW U \in SUBSET A, \A V \in SUBSET U : V # U => V \in T
      PROVE  U \in T
  <2>1. /\ SumOn(f, U) = IF U = {} THEN 0 ELSE f[One(U)] + SumOn(f, U \ {One(U)})
        /\ SumOn(h, U) = IF U = {} THEN 0 ELSE h[One(U)] + SumOn(h, U \ {One(U)})
    BY FS_Subset, SumUnfolds
  <2>2. CASE U = {}
    BY <2>1, <2>2
  <2>3. CASE U # {}
    <3>1. One(U) \in U
      BY <2>3 DEF One
    <3>2. SumOn(f, U \ {One(U)}) = SumOn(h, U \ {One(U)}) /\ f[One(U)] = h[One(U)]
      BY <1>1, <3>1
    <3> QED
      BY <2>1, <2>3, <3>2
  <2> QED
    BY <2>2, <2>3
<1> HIDE DEF T
<1>2. A \in T
  BY <1>1, SubsetInduction
<1> QED
  BY <1>2 DEF T

\* In whichever order: any element and the rest.
LEMMA SumWith ==
  ASSUME NEW f, NEW A, IsFiniteSet(A), \A x \in A : f[x] \in Int
  PROVE  \A S \in SUBSET A : \A x \in A \ S : SumOn(f, S \cup {x}) = f[x] + SumOn(f, S)
<1> DEFINE T == {S \in SUBSET A : \A x \in A \ S :
                   SumOn(f, S \cup {x}) = f[x] + SumOn(f, S)}
<1>1. ASSUME NEW U \in SUBSET A, \A V \in SUBSET U : V # U => V \in T
      PROVE  U \in T
  <2> SUFFICES ASSUME NEW x \in A \ U
               PROVE  SumOn(f, U \cup {x}) = f[x] + SumOn(f, U)
    OBVIOUS
  <2> DEFINE W == U \cup {x}
             y == One(W)
             V == U \ {y}
  <2>1. y \in W
    BY DEF One
  <2>2. SumOn(f, W) = f[y] + SumOn(f, W \ {y})
    <3>1. W \in SUBSET A /\ W # {}
      OBVIOUS
    <3> HIDE DEF W
    <3> QED
      BY <3>1, FS_Subset, SumUnfolds
  <2>3. CASE y = x
    <3>1. W \ {y} = U
      BY <2>3
    <3> QED
      BY <2>2, <2>3, <3>1
  <2>4. CASE y # x
    <3>1. y \in U /\ W \ {y} = V \cup {x} /\ U = V \cup {y} /\ V \in SUBSET U /\ V # U
      BY <2>1, <2>4
    <3>2. V \in T /\ x \in A \ V /\ y \in A \ V
      BY <1>1, <3>1
    <3>3. SumOn(f, V \cup {x}) = f[x] + SumOn(f, V) /\ SumOn(f, V \cup {y}) = f[y] + SumOn(f, V)
      BY <3>2
    <3>4. SumOn(f, V) \in Int /\ f[x] \in Int /\ f[y] \in Int
      BY <3>2, SumOfInts
    <3> HIDE DEF W, V, y, T
    <3>5. SumOn(f, W) = f[y] + (f[x] + SumOn(f, V)) /\ SumOn(f, U) = f[y] + SumOn(f, V)
      BY <2>2, <3>1, <3>3
    <3> QED
      BY <3>4, <3>5 DEF W
  <2> QED
    BY <2>3, <2>4
<1> HIDE DEF T
<1>2. \A U \in SUBSET A : U \in T
  BY <1>1, SubsetInduction
<1> QED
  BY <1>2 DEF T

LEMMA SumOfNone == ASSUME NEW f PROVE SumOn(f, {}) = 0
  BY FS_EmptySet, SumUnfolds

\* Disjoint sets add up.
LEMMA SumOfBoth ==
  ASSUME NEW f, NEW A, NEW B, IsFiniteSet(A), IsFiniteSet(B), A \cap B = {},
         \A x \in A \cup B : f[x] \in Int
  PROVE  SumOn(f, A \cup B) = SumOn(f, A) + SumOn(f, B)
<1> DEFINE C == A \cup B
           T == {S \in SUBSET B : SumOn(f, A \cup S) = SumOn(f, A) + SumOn(f, S)}
<1>0. IsFiniteSet(C)
  BY FS_Union
<1>1. ASSUME NEW U \in SUBSET B, \A V \in SUBSET U : V # U => V \in T
      PROVE  U \in T
  <2>0. SumOn(f, A) \in Int
    BY <1>0, SumOfInts
  <2>1. CASE U = {}
    <3>1. A \cup U = A
      BY <2>1
    <3> QED
      BY <2>0, <2>1, <3>1, SumOfNone
  <2>2. CASE U # {}
    <3>1. PICK x : x \in U
      BY <2>2
    <3> DEFINE V == U \ {x}
    <3>2. SumOn(f, A \cup V) = SumOn(f, A) + SumOn(f, V)
      BY <1>1, <3>1
    <3>3. /\ V \in SUBSET C /\ A \cup V \in SUBSET C /\ x \in C \ V /\ x \in C \ (A \cup V)
          /\ V \cup {x} = U /\ (A \cup V) \cup {x} = A \cup U
      BY <3>1
    <3>4. \A y \in C : f[y] \in Int
      OBVIOUS
    <3> HIDE DEF V, C, T
    <3>5. SumOn(f, U) = f[x] + SumOn(f, V)
      BY <1>0, <3>3, <3>4, SumWith
    <3>6. SumOn(f, A \cup U) = f[x] + SumOn(f, A \cup V)
      BY <1>0, <3>3, <3>4, SumWith
    <3>7. SumOn(f, V) \in Int /\ f[x] \in Int
      BY <1>0, <3>3, <3>4, SumOfInts
    <3>8. SumOn(f, A \cup U) = SumOn(f, A) + SumOn(f, U)
      BY <2>0, <3>2, <3>5, <3>6, <3>7
    <3> QED
      BY <3>8 DEF T
  <2> QED
    BY <2>1, <2>2
<1> HIDE DEF T
<1>2. B \in T
  BY <1>1, SubsetInduction
<1> QED
  BY <1>2 DEF T

Group(S, key, n) == {x \in S : key[x] = n}

\* Sums of sums: the elements one by one, or group by group.
LEMMA SumByGroup ==
  ASSUME NEW f, NEW S, IsFiniteSet(S), \A x \in S : f[x] \in Int,
         NEW K, IsFiniteSet(K), NEW key, \A x \in S : key[x] \in K,
         NEW g, \A n \in K : g[n] = SumOn(f, Group(S, key, n))
  PROVE  SumOn(f, S) = SumOn(g, K)
<1> DEFINE In(L) == {x \in S : key[x] \in L}
           Of(n) == Group(S, key, n)
           T == {L \in SUBSET K : SumOn(f, In(L)) = SumOn(g, L)}
<1>0. \A n \in K : g[n] \in Int
  <2> SUFFICES ASSUME NEW n \in K PROVE g[n] \in Int
    OBVIOUS
  <2>1. Of(n) \in SUBSET S /\ g[n] = SumOn(f, Of(n))
    BY DEF Group
  <2> HIDE DEF Of
  <2> QED
    BY <2>1, SumOfInts
<1>1. ASSUME NEW U \in SUBSET K, \A V \in SUBSET U : V # U => V \in T
      PROVE  U \in T
  <2>1. CASE U = {}
    <3>1. In(U) = {}
      BY <2>1
    <3> QED
      BY <2>1, <3>1, SumOfNone
  <2>2. CASE U # {}
    <3>1. PICK n : n \in U
      BY <2>2
    <3> DEFINE V == U \ {n}
    <3>2. SumOn(f, In(V)) = SumOn(g, V)
      BY <1>1, <3>1
    <3>3. /\ In(U) = In(V) \cup Of(n) /\ In(V) \cap Of(n) = {}
          /\ In(V) \in SUBSET S /\ Of(n) \in SUBSET S
          /\ V \in SUBSET K /\ n \in K \ V /\ V \cup {n} = U
      BY <3>1 DEF Group
    <3>4. g[n] = SumOn(f, Of(n))
      BY <3>1
    <3> HIDE DEF In, Of, V, T
    <3>5. SumOn(f, In(U)) = SumOn(f, In(V)) + SumOn(f, Of(n))
      <4>1. IsFiniteSet(In(V)) /\ IsFiniteSet(Of(n)) /\ \A x \in In(V) \cup Of(n) : f[x] \in Int
        BY <3>3, FS_Subset
      <4> QED
        BY <3>3, <4>1, SumOfBoth
    <3>6. SumOn(g, U) = g[n] + SumOn(g, V)
      BY <1>0, <3>3, SumWith
    <3>7. SumOn(g, V) \in Int /\ g[n] \in Int
      BY <1>0, <3>3, SumOfInts
    <3>8. SumOn(f, In(U)) = SumOn(g, U)
      BY <3>2, <3>4, <3>5, <3>6, <3>7
    <3> QED
      BY <3>8 DEF T
  <2> QED
    BY <2>1, <2>2
<1> HIDE DEF T
<1>2. K \in T
  BY <1>1, SubsetInduction
<1>3. In(K) = S
  OBVIOUS
<1> QED
  BY <1>2, <1>3 DEF T

\* What is subtracted each time is subtracted in all.
LEMMA SumOfDebits ==
  ASSUME NEW K, IsFiniteSet(K), NEW a, NEW b, NEW h,
         \A n \in K : a[n] \in Int /\ b[n] \in Int /\ h[n] = - a[n] - b[n]
  PROVE  SumOn(h, K) = - SumOn(a, K) - SumOn(b, K)
<1> DEFINE T == {S \in SUBSET K : SumOn(h, S) = - SumOn(a, S) - SumOn(b, S)}
<1>1. ASSUME NEW U \in SUBSET K, \A V \in SUBSET U : V # U => V \in T
      PROVE  U \in T
  <2>1. /\ SumOn(h, U) = IF U = {} THEN 0 ELSE h[One(U)] + SumOn(h, U \ {One(U)})
        /\ SumOn(a, U) = IF U = {} THEN 0 ELSE a[One(U)] + SumOn(a, U \ {One(U)})
        /\ SumOn(b, U) = IF U = {} THEN 0 ELSE b[One(U)] + SumOn(b, U \ {One(U)})
    BY FS_Subset, SumUnfolds
  <2>2. CASE U = {}
    BY <2>1, <2>2
  <2>3. CASE U # {}
    <3> DEFINE n == One(U)
               V == U \ {n}
    <3>1. n \in U
      BY <2>3 DEF One
    <3>2. SumOn(h, V) = - SumOn(a, V) - SumOn(b, V) /\ V \in SUBSET K
      BY <1>1, <3>1
    <3>3. a[n] \in Int /\ b[n] \in Int /\ h[n] = - a[n] - b[n]
      BY <3>1
    <3>4. SumOn(a, V) \in Int /\ SumOn(b, V) \in Int
      BY <3>2, SumOfInts
    <3>5. /\ SumOn(h, U) = h[n] + SumOn(h, V) /\ SumOn(a, U) = a[n] + SumOn(a, V)
          /\ SumOn(b, U) = b[n] + SumOn(b, V)
      BY <2>1, <2>3
    <3> HIDE DEF n, V, T
    <3>6. SumOn(h, U) = - SumOn(a, U) - SumOn(b, U)
      BY <3>2, <3>3, <3>4, <3>5
    <3> QED
      BY <3>6 DEF T
  <2> QED
    BY <2>2, <2>3
<1> HIDE DEF T
<1>2. K \in T
  BY <1>1, SubsetInduction
<1> QED
  BY <1>2 DEF T

LEMMA SumOfNothings ==
  ASSUME NEW K, IsFiniteSet(K), NEW g, \A n \in K : g[n] = 0
  PROVE  SumOn(g, K) = 0
<1> DEFINE zero == [n \in K |-> 0]
<1>1. \A n \in K : zero[n] \in Int /\ zero[n] = - zero[n] - zero[n]
  <2>1. \A n \in K : zero[n] = 0
    OBVIOUS
  <2>2. 0 \in Int /\ 0 = - 0 - 0
    OBVIOUS
  <2> HIDE DEF zero
  <2> QED
    BY <2>1, <2>2
<1>2. SumOn(zero, K) \in Int /\ SumOn(g, K) = SumOn(zero, K)
  BY <1>1, SumOfInts, SumSame
<1>3. SumOn(zero, K) = - SumOn(zero, K) - SumOn(zero, K)
  <2> HIDE DEF zero
  <2> QED
    BY <1>1, SumOfDebits
<1> QED
  BY <1>2, <1>3

----------------------------------------------------------------------------
(***************************************************************************)
(* The reports                                                             *)
(***************************************************************************)

Base == [p \in Postings |-> post[p].base]

Bookkept == /\ txn \in [Txns -> TxnRow]
            /\ post \in [Postings -> PostRow]
            /\ PostedBalances
            /\ PostingsHaveHome

\* The sums of the model are sums over a set.
LEMMA SumsAreSums ==
  /\ \A S \in SUBSET Postings : Sum(S) = SumOn(Base, S)
  /\ \A f : FoldFunction(LAMBDA x, y : x + y, 0, f) = SumOn(f, DOMAIN f)
<1>1. ASSUME NEW S \in SUBSET Postings
      PROVE  Sum(S) = SumOn(Base, S)
  <2>1. ASSUME NEW g
        PROVE  [s \in SUBSET S |-> IF s = {} THEN 0 ELSE post[One(s)].base + g[s \ {One(s)}]]
             = [s \in SUBSET S |-> IF s = {} THEN 0 ELSE Base[One(s)] + g[s \ {One(s)}]]
    <3>1. ASSUME NEW s \in SUBSET S, s # {}
          PROVE  post[One(s)].base = Base[One(s)]
      BY <3>1 DEF One, Base
    <3> QED
      BY <3>1
  <2>2. (CHOOSE g : g = [s \in SUBSET S |->
                           IF s = {} THEN 0 ELSE post[One(s)].base + g[s \ {One(s)}]])
        = (CHOOSE g : Adds(Base, S, g))
    BY <2>1 DEF Adds
  <2>3. Sum(S) = (CHOOSE g : g = [s \in SUBSET S |->
                    IF s = {} THEN 0 ELSE post[One(s)].base + g[s \ {One(s)}]])[S]
    BY DEF Sum, MapThenSumSet, MapThenFoldSet, One
  <2> QED
    BY <2>2, <2>3 DEF SumOn
<1>2. ASSUME NEW f
      PROVE  FoldFunction(LAMBDA x, y : x + y, 0, f) = SumOn(f, DOMAIN f)
  BY DEF FoldFunction, FoldFunctionOnSet, MapThenFoldSet, SumOn, Adds, One
<1> QED
  BY <1>1, <1>2

\* Base amounts are integers, and every set of postings is finite.
LEMMA BaseInts ==
  ASSUME post \in [Postings -> PostRow]
  PROVE  /\ \A p \in Postings : Base[p] \in Int
         /\ \A S \in SUBSET Postings : IsFiniteSet(S) /\ Sum(S) \in Int
<1>1. \A p \in Postings : Base[p] \in Int
  BY LedgerAssumption DEF LedgerAssumption, PostRow, Free, Spent, Base
<1>2. IsFiniteSet(Postings)
  BY LedgerAssumption DEF LedgerAssumption
<1>3. \A S \in SUBSET Postings : IsFiniteSet(S) /\ SumOn(Base, S) \in Int
  BY <1>1, <1>2, FS_Subset, SumOfInts
<1> QED
  BY <1>1, <1>3, SumsAreSums

LEMMA MonthsFinite ==
  ASSUME NEW m \in Months PROVE IsFiniteSet(UpTo(m))
<1>1. m \in Nat /\ UpTo(m) \in SUBSET Nat /\ \A n \in UpTo(m) : n <= m
  BY LedgerAssumption DEF LedgerAssumption, UpTo
<1> QED
  BY <1>1, FS_BoundedSetOfNaturals

\* A sum up to a month is the sum of the sums of the months.
LEMMA MonthByMonth ==
  ASSUME Bookkept, NEW types, NEW m \in Months,
         NEW g, \A n \in UpTo(m) : g[n] = Sum(CountedLegs(types, {n}))
  PROVE  Sum(CountedLegs(types, UpTo(m))) = SumOn(g, UpTo(m))
<1> DEFINE S == CountedLegs(types, UpTo(m))
           key == [p \in Postings |-> txn[post[p].txn].month]
<1>0. post \in [Postings -> PostRow]
  BY DEF Bookkept
<1>1. S \in SUBSET Postings /\ \A p \in S : key[p] \in UpTo(m)
  BY DEF CountedLegs
<1>2. \A n \in UpTo(m) : Group(S, key, n) = CountedLegs(types, {n})
  BY DEF CountedLegs, Group
<1>3. \A n \in UpTo(m) : CountedLegs(types, {n}) \in SUBSET Postings
  BY DEF CountedLegs
<1>4. \A n \in UpTo(m) : g[n] = SumOn(Base, Group(S, key, n))
  BY <1>2, <1>3, SumsAreSums
<1>5. IsFiniteSet(S) /\ \A p \in S : Base[p] \in Int
  BY <1>0, <1>1, BaseInts
<1> HIDE DEF S, key
<1>6. SumOn(Base, S) = SumOn(g, UpTo(m))
  <2>1. IsFiniteSet(UpTo(m)) /\ \A p \in S : key[p] \in UpTo(m)
    BY <1>1, MonthsFinite
  <2> QED
    BY ONLY <1>4, <1>5, <2>1, SumByGroup
<1> QED
  BY <1>1, <1>6, SumsAreSums DEF S

\* Over all types of account nothing is left: the legs of each transaction
\* that counts sum to zero.
LEMMA BooksSumToZero ==
  ASSUME Bookkept, NEW months
  PROVE  Sum(CountedLegs(AccountTypes, months)) = 0
<1> DEFINE S == CountedLegs(AccountTypes, months)
           key == [p \in Postings |-> post[p].txn]
           K == {key[p] : p \in S}
           Of(t) == Group(S, key, t)
           g == [t \in K |-> SumOn(Base, Of(t))]
<1>0. post \in [Postings -> PostRow]
  BY DEF Bookkept
<1>1. S \in SUBSET Postings /\ IsFiniteSet(S) /\ \A p \in S : Base[p] \in Int
  BY <1>0, BaseInts DEF CountedLegs
<1>2. IsFiniteSet(K)
  <2> DEFINE f == [p \in S |-> key[p]]
  <2>1. f \in Surjection(S, K)
    BY DEF Surjection
  <2> HIDE DEF f, S, K
  <2> QED
    BY <1>1, <2>1, FS_Surjection
<1>3. ASSUME NEW t \in K
      PROVE  g[t] = 0
  <2> DEFINE book == Book(post, t)
             D == {q \in Postings : post[q].txn = t}
  <2>1. PICK p \in S : post[p].txn = t
    BY <1>1
  <2>2. t \in Txns /\ t # None /\ Counts(t) /\ txn[t].month \in months
    BY <1>0, <1>1, <2>1 DEF CountedLegs, PostRow, Free, Spent
  <2>3. Of(t) = D
    <3>1. ASSUME NEW q \in D PROVE q \in Of(t)
      <4>1. q \in Postings /\ post[q].txn = t /\ key[q] = t
        OBVIOUS
      <4>2. post[q].acct \in Accounts
        BY <2>2, <4>1 DEF Bookkept, PostingsHaveHome
      <4>3. TypeOf[post[q].acct] \in AccountTypes
        BY <4>2, LedgerAssumption DEF LedgerAssumption
      <4>4. q \in S
        BY <2>2, <4>1, <4>3 DEF CountedLegs
      <4> QED
        BY <4>1, <4>4 DEF Group
    <3>2. ASSUME NEW q \in Of(t) PROVE q \in D
      BY <1>1 DEF Group
    <3> QED
      BY <3>1, <3>2
  <2>4. DOMAIN book = D /\ \A q \in D : book[q] = Base[q]
    BY DEF Book, Base
  <2>5. Total(book) = 0
    BY <2>2 DEF Bookkept, PostedBalances, Counts, Balanced
  <2>6. Total(book) = SumOn(book, D)
    <3>1. Total(book) = SumOn(book, DOMAIN book)
      BY SumsAreSums DEF Total
    <3> QED
      BY <2>4, <3>1
  <2>7. IsFiniteSet(D)
    BY <1>0, BaseInts
  <2>8. SumOn(book, D) = SumOn(Base, D)
    <3> HIDE DEF book, D
    <3> QED
      BY <2>4, <2>7, SumSame
  <2>9. SumOn(Base, Of(t)) = 0
    BY <2>3, <2>5, <2>6, <2>8
  <2> HIDE DEF K, Of
  <2> QED
    BY <2>9
<1>4. /\ \A p \in S : key[p] \in K
      /\ \A t \in K : g[t] = SumOn(Base, Group(S, key, t))
  OBVIOUS
<1> HIDE DEF S, key, K, g
<1>5. SumOn(Base, S) = SumOn(g, K)
  <2>1. IsFiniteSet(S) /\ \A p \in S : Base[p] \in Int
    BY <1>1
  <2> QED
    BY ONLY <1>2, <1>4, <2>1, SumByGroup
<1>6. SumOn(g, K) = 0
  BY <1>2, <1>3, SumOfNothings
<1> QED
  BY <1>1, <1>5, <1>6, SumsAreSums DEF S

Worth == {"asset", "liability", "equity"}

\* What is worth something, what came in and what was spent make up the books.
LEMMA TypesAddUp ==
  ASSUME Bookkept, NEW months
  PROVE  Sum(CountedLegs(Worth, months))
           = - Sum(CountedLegs({"income"}, months)) - Sum(CountedLegs({"expense"}, months))
<1> DEFINE W == CountedLegs(Worth, months)
           I == CountedLegs({"income"}, months)
           E == CountedLegs({"expense"}, months)
           C == CountedLegs(AccountTypes, months)
<1>0. post \in [Postings -> PostRow]
  BY DEF Bookkept
<1>1. W \in SUBSET Postings /\ I \in SUBSET Postings /\ E \in SUBSET Postings
  BY DEF CountedLegs
<1>2. C = W \cup I \cup E
  BY DEF CountedLegs, Worth, AccountTypes
<1>3. W \cap I = {} /\ (W \cup I) \cap E = {}
  BY DEF CountedLegs, Worth
<1>4. Sum(C) = 0
  BY BooksSumToZero
<1> HIDE DEF W, I, E, C
<1>5. /\ IsFiniteSet(W) /\ IsFiniteSet(I) /\ IsFiniteSet(E) /\ IsFiniteSet(W \cup I)
      /\ \A p \in W \cup I \cup E : Base[p] \in Int
  BY <1>0, <1>1, BaseInts
<1>6. SumOn(Base, W \cup I) = SumOn(Base, W) + SumOn(Base, I)
  BY <1>3, <1>5, SumOfBoth
<1>7. SumOn(Base, C) = SumOn(Base, W \cup I) + SumOn(Base, E)
  BY <1>2, <1>3, <1>5, SumOfBoth
<1>8. /\ Sum(W) = SumOn(Base, W) /\ Sum(I) = SumOn(Base, I) /\ Sum(E) = SumOn(Base, E)
      /\ Sum(C) = SumOn(Base, C)
  BY <1>1, <1>2, SumsAreSums
<1>9. Sum(W) \in Int /\ Sum(I) \in Int /\ Sum(E) \in Int
  BY <1>0, <1>1, BaseInts
<1>10. Sum(W) = - Sum(I) - Sum(E)
  BY <1>4, <1>6, <1>7, <1>8, <1>9
<1> QED
  BY <1>10 DEF W, I, E

\* The net worth leaves out the balances of the closed accounts and of the
\* points accounts, and nothing else.
LEMMA NetWorthAndLeftOut ==
  ASSUME Bookkept, NEW m \in Months
  PROVE  NetWorth(m) + MapThenSumSet(LAMBDA x : Balance(x, m), LeftOut)
           = Sum(CountedLegs(Worth, UpTo(m)))
<1> DEFINE X == LeftOut
           L == CountedLegs(Worth, UpTo(m))
           O == {p \in L : /\ acct[post[p].acct].state = "open"
                           /\ post[p].acct \notin PointsAccounts}
           C == {p \in L : post[p].acct \in LeftOut}
           key == [p \in Postings |-> post[p].acct]
           bal == [x \in X |-> Balance(x, m)]
<1>0. post \in [Postings -> PostRow]
  BY DEF Bookkept
<1>1. /\ L \in SUBSET Postings /\ O \in SUBSET Postings /\ C \in SUBSET Postings
      /\ O \cap C = {}
  BY DEF CountedLegs, LeftOut
<1>2. \A p \in L : post[p].acct \in Accounts /\ Exists(post[p].acct)
  BY DEF CountedLegs, Bookkept, PostingsHaveHome
<1>3. L = O \cup C
  BY <1>2 DEF Exists, CountedLegs, Worth, LeftOut
<1>4. NetWorth(m) = Sum(O)
  BY DEF NetWorth, Worth
<1>5. \A p \in C : key[p] \in X
  BY <1>1, <1>2 DEF CountedLegs, Worth
<1>6. ASSUME NEW x \in X
      PROVE  bal[x] = SumOn(Base, Group(C, key, x))
  <2> DEFINE B == {p \in CountedLegs({TypeOf[x]}, UpTo(m)) : post[p].acct = x}
  <2>1. x \in Accounts /\ x \in LeftOut /\ TypeOf[x] \in Worth
    BY LedgerAssumption DEF LedgerAssumption, AccountTypes, Worth, LeftOut
  <2>2. B = Group(C, key, x)
    BY <2>1 DEF CountedLegs, Group
  <2>3. bal[x] = Sum(B) /\ B \in SUBSET Postings
    BY DEF Balance, CountedLegs
  <2> QED
    BY <2>2, <2>3, SumsAreSums
<1>7. MapThenSumSet(LAMBDA x : Balance(x, m), X) = SumOn(bal, X)
  <2> HIDE DEF X
  <2> QED
    BY DEF MapThenSumSet, MapThenFoldSet, SumOn, Adds, One
<1>8. IsFiniteSet(X)
  BY LedgerAssumption, FS_Subset DEF LedgerAssumption, LeftOut
<1> HIDE DEF X, L, O, C, key, bal
<1>9. /\ IsFiniteSet(O) /\ IsFiniteSet(C) /\ \A p \in O \cup C : Base[p] \in Int
      /\ Sum(O) = SumOn(Base, O) /\ Sum(L) = SumOn(Base, L)
  BY <1>0, <1>1, BaseInts, SumsAreSums
<1>10. SumOn(Base, C) = SumOn(bal, X)
  BY <1>5, <1>6, <1>8, <1>9, SumByGroup
<1>11. SumOn(Base, L) = SumOn(Base, O) + SumOn(Base, C)
  BY <1>1, <1>3, <1>9, SumOfBoth
<1>12. NetWorth(m) + MapThenSumSet(LAMBDA x : Balance(x, m), X) = Sum(L)
  BY <1>4, <1>7, <1>9, <1>10, <1>11
<1> QED
  BY <1>12 DEF X, L

\* The cash flows of the months sum to what the books say of the whole time.
LEMMA CashflowsAddUp ==
  ASSUME Bookkept, NEW m \in Months
  PROVE  MapThenSumSet(Cashflow, UpTo(m))
           = - Sum(CountedLegs({"income"}, UpTo(m))) - Sum(CountedLegs({"expense"}, UpTo(m)))
<1> DEFINE K == UpTo(m)
           flow == [n \in K |-> Cashflow(n)]
           earned == [n \in K |-> Sum(CountedLegs({"income"}, {n}))]
           spent == [n \in K |-> Sum(CountedLegs({"expense"}, {n}))]
<1>0. post \in [Postings -> PostRow]
  BY DEF Bookkept
<1>1. \A n \in K : earned[n] \in Int /\ spent[n] \in Int /\ flow[n] = - earned[n] - spent[n]
  <2> SUFFICES ASSUME NEW n \in K
               PROVE  earned[n] \in Int /\ spent[n] \in Int /\ flow[n] = - earned[n] - spent[n]
    OBVIOUS
  <2>1. /\ CountedLegs({"income"}, {n}) \in SUBSET Postings
        /\ CountedLegs({"expense"}, {n}) \in SUBSET Postings
    BY DEF CountedLegs
  <2> HIDE DEF K
  <2>2. earned[n] \in Int /\ spent[n] \in Int
    BY <1>0, <2>1, BaseInts
  <2> QED
    BY <2>2 DEF Cashflow
<1>2. MapThenSumSet(Cashflow, K) = SumOn(flow, K)
  <2> HIDE DEF K
  <2> QED
    BY DEF MapThenSumSet, MapThenFoldSet, SumOn, Adds, One
<1>3. IsFiniteSet(K)
  BY MonthsFinite
<1>4. /\ Sum(CountedLegs({"income"}, K)) = SumOn(earned, K)
      /\ Sum(CountedLegs({"expense"}, K)) = SumOn(spent, K)
  <2>1. /\ \A n \in UpTo(m) : earned[n] = Sum(CountedLegs({"income"}, {n}))
        /\ \A n \in UpTo(m) : spent[n] = Sum(CountedLegs({"expense"}, {n}))
    OBVIOUS
  <2> HIDE DEF earned, spent
  <2> QED
    BY <2>1, MonthByMonth
<1> HIDE DEF flow, earned, spent
<1>5. SumOn(flow, K) = - SumOn(earned, K) - SumOn(spent, K)
  <2> HIDE DEF K
  <2> QED
    BY <1>1, <1>3, SumOfDebits
<1> QED
  BY <1>2, <1>4, <1>5

\* Books that balance and have no orphans make reports that agree.
LEMMA BalancedReportsAgree ==
  ASSUME Bookkept
  PROVE  ReportsAgree
<1> SUFFICES ASSUME NEW m \in Months
             PROVE  /\ NetWorth(m) + MapThenSumSet(LAMBDA x : Balance(x, m), LeftOut)
                         = MapThenSumSet(Cashflow, UpTo(m))
                    /\ Summary(UpTo(m)) = MapThenSumSet(Trend, UpTo(m))
  BY DEF ReportsAgree
<1>1. NetWorth(m) + MapThenSumSet(LAMBDA x : Balance(x, m), LeftOut)
      = MapThenSumSet(Cashflow, UpTo(m))
  BY NetWorthAndLeftOut, TypesAddUp, CashflowsAddUp
<1>2. Summary(UpTo(m)) = MapThenSumSet(Trend, UpTo(m))
  <2> DEFINE K == UpTo(m)
             trend == [n \in K |-> Trend(n)]
  <2>1. MapThenSumSet(Trend, K) = SumOn(trend, K)
    <3> HIDE DEF K
    <3> QED
      BY DEF MapThenSumSet, MapThenFoldSet, SumOn, Adds, One
  <2>2. \A n \in UpTo(m) : trend[n] = Sum(CountedLegs({"expense"}, {n}))
    BY DEF Trend, Summary
  <2> HIDE DEF trend
  <2>3. Sum(CountedLegs({"expense"}, UpTo(m))) = SumOn(trend, UpTo(m))
    BY <2>2, MonthByMonth
  <2> QED
    BY <2>1, <2>3 DEF Summary
<1> QED
  BY <1>1, <1>2

\* The reports of reports.ts agree with each other, for any chart of accounts
\* and any books that the requests can leave behind: up to any month the net worth,
\* with the balances of the closed accounts and of the points accounts, is the
\* sum of the cash flows, and the summary is the sum of the trend.
THEOREM ReportsAreOne == Spec => []ReportsAgree
<1>1. LedgerInv => ReportsAgree
  BY BalancedReportsAgree DEF LedgerInv, Typed, Bookkept
<1> QED
  BY <1>1, LedgerIsInv, PTL

----------------------------------------------------------------------------
(* What the postings are worth: the passes that convert and value them.    *)

InCur(ls, S)    == {l \in DOMAIN ls : ls[l].cur \in S}
BaseSum(ls, S)  == AddUp([l \in InCur(ls, S) |-> ls[l].base])
MinorSum(ls, c) == AddUp([l \in InCur(ls, {c}) |-> ls[l].minor])

\* Legs as they are stored, and what holds of them besides where no person
\* set a currency or a rate.
Stored(ls) ==
  /\ IsFiniteSet(DOMAIN ls) /\ DOMAIN ls \subseteq Int
  /\ \A l \in DOMAIN ls : ls[l] \in Posting

Proper(ls) ==
  \A l \in DOMAIN ls :
    /\ ls[l].rate \in Nat \cup {Null}
    /\ ls[l].cur = BaseCurrency => ls[l].rate = Null
    /\ ls[l].rate = 0 => ls[l].cur \in Points

\* The legs of one kind are off by what those of the other are, and never by
\* more than rounding each of them can explain.
Even(ls) ==
  /\ BaseSum(ls, {BaseCurrency}) = 0
  /\ BaseSum(ls, Foreign) + BaseSum(ls, Points) = 0
  /\ 2 * Size(BaseSum(ls, Foreign)) <= Cardinality(InCur(ls, Foreign))
  /\ 2 * Size(BaseSum(ls, Points)) <= Cardinality(InCur(ls, Points))

\* Legs whose amounts are as they were entered.
Entered(ls) ==
  /\ \A c \in Currencies : MinorSum(ls, c) = 0
  /\ \A l \in DOMAIN ls : ls[l].rate # Null => Faithful(ls[l], Cardinality(DOMAIN ls))

\* What can be said of the legs of a transaction, by what people did to it.
InOrder(t, ls) ==
  /\ Stored(ls)
  /\ t \notin drafts => LegsBalance(ls)
  /\ t \notin reworked => Proper(ls) /\ Even(ls)
  /\ t \notin corrected \cup reworked => Entered(ls)

Books == DOMAIN leg = Purchases /\ \A t \in Purchases : InOrder(t, leg[t])

Calendar ==
  /\ today \in Days /\ out \in Business \cup {-1} /\ out <= today
  /\ \A b \in Business : b < today - 1 => b <= out

Tables == /\ cache \in RateCache /\ worth \in Valuations
          /\ corrected \subseteq Purchases /\ drafts \subseteq reworked
          /\ reworked \subseteq Purchases
          /\ \A c \in Foreign, d \in Days : cache[c][d] # 0

\* Legs that agree: the same legs in the same currencies, off by as much.
Agree(ls, ms) ==
  /\ DOMAIN ls = DOMAIN ms
  /\ \A l \in DOMAIN ls : ls[l].cur = ms[l].cur
  /\ \A S \in {Foreign, Points, {BaseCurrency}} : BaseSum(ls, S) = BaseSum(ms, S)

SameMinor(ls, ms) == \A l \in DOMAIN ls : ls[l].minor = ms[l].minor

\* What a pass has read is a snapshot of the legs, unless a person reworked
\* them, and of their amounts, unless one was corrected.
Snapshot(c) ==
  /\ Stored(c.seen)
  /\ c.txn \notin reworked =>
       /\ Agree(c.seen, leg[c.txn])
       /\ c.txn \notin corrected => SameMinor(c.seen, leg[c.txn])

Fields == {"at", "kind", "txn", "force", "seen", "rates", "cur", "served", "tries"}

Awaiting(c) ==
  /\ DOMAIN c = Fields
  /\ c.at \in {"idle", "read", "lookup", "fetch", "keep"}
  /\ c.at # "idle" => /\ c.txn \in Purchases /\ c.kind \in {"fx", "points"}
                      /\ DOMAIN leg[c.txn] # {}
  /\ c.at \in {"lookup", "fetch", "keep"} =>
       /\ Snapshot(c) /\ Legs(c.seen, c.kind) # {}
       /\ \A x \in DOMAIN c.rates : /\ c.rates[x] \in Nat
                                    /\ c.rates[x] = 0 => x \in Points
  /\ c.at = "read" => c.rates = [x \in {} |-> 0]
  /\ c.at \in {"fetch", "keep"} => c.kind = "fx" /\ c.cur \in Foreign
  /\ c.at = "keep" => /\ c.served \in Business
                      /\ Published[c.cur][c.served] = Final(c.cur, On[c.txn])

MoneyInv == /\ Books /\ Calendar /\ Tables
            /\ DOMAIN pass = Workers
            /\ \A w \in Workers : Awaiting(pass[w])
            /\ FrozenRatesAreFinal

----------------------------------------------------------------------------
\* The sums of the model are sums over a set.
LEMMA SumIs == ASSUME NEW f PROVE AddUp(f) = SumOn(f, DOMAIN f)
  BY DEF AddUp, MapThenSumSet, MapThenFoldSet, SumOn, Adds, One

LEMMA SumOver ==
  ASSUME NEW f, NEW S, IsFiniteSet(S)
  PROVE  AddUp([l \in S |-> f[l]]) = SumOn(f, S)
<1> DEFINE g == [l \in S |-> f[l]]
<1>1. DOMAIN g = S /\ \A l \in S : g[l] = f[l]
  OBVIOUS
<1> HIDE DEF g
<1>2. SumOn(g, S) = SumOn(f, S)
  BY <1>1, SumSame
<1>3. AddUp(g) = SumOn(g, S)
  BY <1>1, SumIs
<1> QED
  BY <1>2, <1>3 DEF g

\* Term by term, and all of it by a factor.
LEMMA SumOfSums ==
  ASSUME NEW K, IsFiniteSet(K), NEW a, NEW b, NEW h,
         \A n \in K : a[n] \in Int /\ b[n] \in Int /\ h[n] = a[n] + b[n]
  PROVE  SumOn(h, K) = SumOn(a, K) + SumOn(b, K)
<1> DEFINE T == {S \in SUBSET K : SumOn(h, S) = SumOn(a, S) + SumOn(b, S)}
<1>1. ASSUME NEW U \in SUBSET K, \A V \in SUBSET U : V # U => V \in T
      PROVE  U \in T
  <2>1. /\ SumOn(h, U) = IF U = {} THEN 0 ELSE h[One(U)] + SumOn(h, U \ {One(U)})
        /\ SumOn(a, U) = IF U = {} THEN 0 ELSE a[One(U)] + SumOn(a, U \ {One(U)})
        /\ SumOn(b, U) = IF U = {} THEN 0 ELSE b[One(U)] + SumOn(b, U \ {One(U)})
    BY FS_Subset, SumUnfolds
  <2>2. CASE U = {}
    BY <2>1, <2>2
  <2>3. CASE U # {}
    <3> DEFINE n == One(U)
               V == U \ {n}
    <3>1. n \in U
      BY <2>3 DEF One
    <3>2. SumOn(h, V) = SumOn(a, V) + SumOn(b, V) /\ V \in SUBSET K
      BY <1>1, <3>1
    <3>3. a[n] \in Int /\ b[n] \in Int /\ h[n] = a[n] + b[n]
      BY <3>1
    <3>4. SumOn(a, V) \in Int /\ SumOn(b, V) \in Int
      BY <3>2, SumOfInts
    <3>5. /\ SumOn(h, U) = h[n] + SumOn(h, V) /\ SumOn(a, U) = a[n] + SumOn(a, V)
          /\ SumOn(b, U) = b[n] + SumOn(b, V)
      BY <2>1, <2>3
    <3> HIDE DEF n, V, T
    <3>6. SumOn(h, U) = SumOn(a, U) + SumOn(b, U)
      BY <3>2, <3>3, <3>4, <3>5
    <3> QED
      BY <3>6 DEF T
  <2> QED
    BY <2>2, <2>3
<1> HIDE DEF T
<1>2. K \in T
  BY <1>1, SubsetInduction
<1> QED
  BY <1>2 DEF T

LEMMA Distributes ==
  ASSUME NEW r \in Int, NEW a \in Int, NEW b \in Int
  PROVE  r * (a + b) = r * a + r * b /\ r * a \in Int
  OBVIOUS

LEMMA SumScaled ==
  ASSUME NEW K, IsFiniteSet(K), NEW r \in Int, NEW a, NEW h,
         \A n \in K : a[n] \in Int /\ h[n] = r * a[n]
  PROVE  SumOn(h, K) = r * SumOn(a, K)
<1> DEFINE T == {S \in SUBSET K : SumOn(h, S) = r * SumOn(a, S)}
<1>1. ASSUME NEW U \in SUBSET K, \A V \in SUBSET U : V # U => V \in T
      PROVE  U \in T
  <2>1. /\ SumOn(h, U) = IF U = {} THEN 0 ELSE h[One(U)] + SumOn(h, U \ {One(U)})
        /\ SumOn(a, U) = IF U = {} THEN 0 ELSE a[One(U)] + SumOn(a, U \ {One(U)})
    BY FS_Subset, SumUnfolds
  <2>2. CASE U = {}
    BY <2>1, <2>2
  <2>3. CASE U # {}
    <3> DEFINE n == One(U)
               V == U \ {n}
    <3>1. n \in U
      BY <2>3 DEF One
    <3>2. SumOn(h, V) = r * SumOn(a, V) /\ V \in SUBSET K
      BY <1>1, <3>1
    <3>3. a[n] \in Int /\ h[n] = r * a[n]
      BY <3>1
    <3>4. SumOn(a, V) \in Int
      BY <3>2, SumOfInts
    <3>5. SumOn(h, U) = h[n] + SumOn(h, V) /\ SumOn(a, U) = a[n] + SumOn(a, V)
      BY <2>1, <2>3
    <3> HIDE DEF n, V, T
    <3>6. SumOn(h, U) = r * SumOn(a, U)
      BY <3>2, <3>3, <3>4, <3>5, Distributes
    <3> QED
      BY <3>6 DEF T
  <2> QED
    BY <2>2, <2>3
<1> HIDE DEF T
<1>2. K \in T
  BY <1>1, SubsetInduction
<1> QED
  BY <1>2 DEF T

\* A sum is no further from zero than its terms can take it.
Within(n, b) == -b <= n /\ n <= b

LEMMA SumWithin ==
  ASSUME NEW K, IsFiniteSet(K), NEW b \in Nat, NEW a,
         \A n \in K : a[n] \in Int /\ Within(a[n], b)
  PROVE  Cardinality(K) \in Nat /\ Within(SumOn(a, K), Cardinality(K) * b)
<1> DEFINE T == {S \in SUBSET K : Within(SumOn(a, S), Cardinality(S) * b)}
<1>1. ASSUME NEW U \in SUBSET K, \A V \in SUBSET U : V # U => V \in T
      PROVE  U \in T
  <2>1. SumOn(a, U) = IF U = {} THEN 0 ELSE a[One(U)] + SumOn(a, U \ {One(U)})
    BY FS_Subset, SumUnfolds
  <2>2. CASE U = {}
    <3>1. Cardinality(U) = 0 /\ SumOn(a, U) = 0
      BY <2>1, <2>2, FS_EmptySet
    <3> QED
      BY <3>1 DEF Within
  <2>3. CASE U # {}
    <3> DEFINE n == One(U)
               V == U \ {n}
    <3>1. n \in U
      BY <2>3 DEF One
    <3>2. Within(SumOn(a, V), Cardinality(V) * b) /\ V \in SUBSET K
      BY <1>1, <3>1
    <3>3. a[n] \in Int /\ Within(a[n], b)
      BY <3>1
    <3>4. SumOn(a, V) \in Int
      BY <3>2, SumOfInts
    <3>5. SumOn(a, U) = a[n] + SumOn(a, V)
      BY <2>1, <2>3
    <3>6. IsFiniteSet(U) /\ IsFiniteSet(V)
      BY FS_Subset
    <3>7. Cardinality(V) \in Nat /\ Cardinality(U) = Cardinality(V) + 1
      BY <3>1, <3>6, FS_CardinalityType, FS_RemoveElement
    <3> HIDE DEF n, V, T
    <3>8. (Cardinality(V) + 1) * b = Cardinality(V) * b + b /\ Cardinality(V) * b \in Int
      BY <3>7
    <3>9. Within(SumOn(a, U), Cardinality(U) * b)
      BY <3>2, <3>3, <3>4, <3>5, <3>7, <3>8 DEF Within
    <3> QED
      BY <3>9 DEF T
  <2> QED
    BY <2>2, <2>3
<1> HIDE DEF T
<1>2. K \in T
  BY <1>1, SubsetInduction
<1> QED
  BY <1>2, FS_CardinalityType DEF T

\* Rounding is off by half a unit at most.
LEMMA Rounds ==
  ASSUME NEW n \in Int
  PROVE  Round(n) \in Int /\ Within(2 * (Round(n) * Scale - n), Scale)
<1> DEFINE q == Round(n)
<1>1. Scale \in Nat \ {0}
  BY MoneyAssumption DEF MoneyAssumption
<1>2. q = (2 * n + Scale) \div (2 * Scale) /\ 2 * n + Scale \in Int /\ 2 * Scale \in Nat \ {0}
  BY <1>1 DEF Round
<1>3. \A a \in Int, b \in Nat \ {0} :
        /\ a \div b \in Int /\ a % b \in 0..(b - 1)
        /\ a = b * (a \div b) + (a % b)
  OBVIOUS
<1>4. q \in Int /\ \E r \in 0..(2 * Scale - 1) : 2 * n + Scale = (2 * Scale) * q + r
  BY <1>2, <1>3
<1> HIDE DEF q
<1>5. PICK r \in 0..(2 * Scale - 1) : 2 * n + Scale = (2 * Scale) * q + r
  BY <1>4
<1>6. (2 * Scale) * q = 2 * (q * Scale) /\ q * Scale \in Int
  BY <1>1, <1>4
<1>7. 2 * (q * Scale - n) = Scale - r /\ r \in Int /\ 0 <= r /\ r <= 2 * Scale - 1
  BY <1>1, <1>5, <1>6
<1>8. Within(2 * (q * Scale - n), Scale)
  BY <1>1, <1>7 DEF Within
<1> QED
  BY <1>4, <1>8 DEF q

LEMMA Sizes ==
  ASSUME NEW n \in Int, NEW b \in Int
  PROVE  /\ Size(n) \in Nat
         /\ 2 * Size(n) <= b <=> Within(2 * n, b)
  BY DEF Size, Within

\* A common factor can be taken out.
LEMMA Cancels ==
  ASSUME NEW r \in Nat \ {0}, NEW a \in Int, NEW b \in Int, r * a <= r * b
  PROVE  a <= b
<1> SUFFICES ASSUME b + 1 <= a PROVE FALSE
  OBVIOUS
<1>1. r * (a - b - 1) >= 0
  OBVIOUS
<1>2. r * (a - b - 1) = r * a - r * b - r
  OBVIOUS
<1> QED
  BY <1>1, <1>2

----------------------------------------------------------------------------
BaseOf(ls)  == [l \in DOMAIN ls |-> ls[l].base]
MinorOf(ls) == [l \in DOMAIN ls |-> ls[l].minor]

LEMMA Currency ==
  /\ Foreign \cap Points = {} /\ BaseCurrency \notin Foreign /\ BaseCurrency \notin Points
  /\ Currencies = Foreign \cup Points \cup {BaseCurrency}
  /\ Mine("fx") = Foreign /\ Mine("points") = Points
  BY MoneyAssumption DEF MoneyAssumption, Currencies, Mine

LEMMA Scales == Scale \in Nat \ {0}
  BY MoneyAssumption DEF MoneyAssumption

\* The parts of some legs and what they add up to.
LEMMA Parts ==
  ASSUME NEW ls, Stored(ls), NEW S
  PROVE  /\ IsFiniteSet(InCur(ls, S)) /\ InCur(ls, S) \subseteq DOMAIN ls
         /\ Cardinality(InCur(ls, S)) \in Nat /\ Cardinality(DOMAIN ls) \in Nat
         /\ \A l \in DOMAIN ls : BaseOf(ls)[l] = ls[l].base /\ ls[l].base \in Int
         /\ \A l \in DOMAIN ls : MinorOf(ls)[l] = ls[l].minor /\ ls[l].minor \in Int
         /\ \A l \in DOMAIN ls : ls[l].cur \in Currencies
         /\ BaseSum(ls, S) = SumOn(BaseOf(ls), InCur(ls, S)) /\ BaseSum(ls, S) \in Int
<1>1. IsFiniteSet(DOMAIN ls) /\ InCur(ls, S) \subseteq DOMAIN ls
  BY DEF Stored, InCur
<1>2. IsFiniteSet(InCur(ls, S))
  BY <1>1, FS_Subset
<1>3. \A l \in DOMAIN ls : /\ BaseOf(ls)[l] = ls[l].base /\ ls[l].base \in Int
                           /\ MinorOf(ls)[l] = ls[l].minor /\ ls[l].minor \in Int
                           /\ ls[l].cur \in Currencies
  BY DEF Stored, Posting, BaseOf, MinorOf
<1>4. [l \in InCur(ls, S) |-> ls[l].base] = [l \in InCur(ls, S) |-> BaseOf(ls)[l]]
  BY <1>1, <1>3
<1>5. BaseSum(ls, S) = SumOn(BaseOf(ls), InCur(ls, S))
  BY <1>2, <1>4, SumOver DEF BaseSum
<1>6. SumOn(BaseOf(ls), InCur(ls, S)) \in Int
  BY <1>1, <1>2, <1>3, SumOfInts
<1> QED
  BY <1>1, <1>2, <1>3, <1>5, <1>6, FS_CardinalityType

LEMMA MinorParts ==
  ASSUME NEW ls, Stored(ls), NEW c
  PROVE  MinorSum(ls, c) = SumOn(MinorOf(ls), InCur(ls, {c}))
<1>1. IsFiniteSet(InCur(ls, {c})) /\ InCur(ls, {c}) \subseteq DOMAIN ls
  BY Parts
<1>2. [l \in InCur(ls, {c}) |-> ls[l].minor] = [l \in InCur(ls, {c}) |-> MinorOf(ls)[l]]
  BY <1>1 DEF MinorOf
<1> QED
  BY <1>1, <1>2, SumOver DEF MinorSum

\* A sum of legs is the sum of its three parts.
LEMMA ThreeParts ==
  ASSUME NEW ls, Stored(ls), NEW f, \A l \in DOMAIN ls : f[l] \in Int
  PROVE  /\ SumOn(f, DOMAIN ls) = SumOn(f, InCur(ls, Foreign)) + SumOn(f, InCur(ls, Points))
                                  + SumOn(f, InCur(ls, {BaseCurrency}))
         /\ \A S : SumOn(f, InCur(ls, S)) \in Int
<1> DEFINE A == InCur(ls, Foreign)  B == InCur(ls, Points)  C == InCur(ls, {BaseCurrency})
<1>1. /\ IsFiniteSet(A) /\ IsFiniteSet(B) /\ IsFiniteSet(C)
      /\ A \subseteq DOMAIN ls /\ B \subseteq DOMAIN ls /\ C \subseteq DOMAIN ls
  BY Parts
<1>2. A \cap B = {} /\ (A \cup B) \cap C = {} /\ (A \cup B) \cup C = DOMAIN ls
  <2>1. \A l \in DOMAIN ls : ls[l].cur \in Foreign \cup Points \cup {BaseCurrency}
    BY Parts, Currency
  <2> QED
    BY <2>1, Currency DEF InCur
<1>3. IsFiniteSet(A \cup B)
  BY <1>1, FS_Union
<1> HIDE DEF A, B, C
<1>4. SumOn(f, A \cup B) = SumOn(f, A) + SumOn(f, B)
  BY <1>1, <1>2, SumOfBoth
<1>5. SumOn(f, (A \cup B) \cup C) = SumOn(f, A \cup B) + SumOn(f, C)
  BY <1>1, <1>2, <1>3, SumOfBoth
<1>6. SumOn(f, DOMAIN ls) = SumOn(f, A) + SumOn(f, B) + SumOn(f, C)
  BY <1>2, <1>4, <1>5
<1>7. ASSUME NEW S PROVE SumOn(f, InCur(ls, S)) \in Int
  BY Parts, SumOfInts
<1> QED
  BY <1>6, <1>7 DEF A, B, C

LEMMA TotalIs ==
  ASSUME NEW ls, Stored(ls)
  PROVE  AddUp([l \in DOMAIN ls |-> ls[l].base])
           = BaseSum(ls, Foreign) + BaseSum(ls, Points) + BaseSum(ls, {BaseCurrency})
<1> DEFINE D == DOMAIN ls
           f == BaseOf(ls)
<1>1. [l \in D |-> ls[l].base] = [l \in D |-> f[l]] /\ IsFiniteSet(D)
  BY DEF BaseOf, Stored
<1>2. AddUp([l \in D |-> f[l]]) = SumOn(f, D)
  <2> HIDE DEF f, D
  <2> QED
    BY <1>1, SumOver
<1>3. \A l \in D : f[l] \in Int
  BY Parts
<1>4. SumOn(f, D) = SumOn(f, InCur(ls, Foreign)) + SumOn(f, InCur(ls, Points))
                      + SumOn(f, InCur(ls, {BaseCurrency}))
  <2> HIDE DEF f
  <2> QED
    BY <1>3, ThreeParts
<1> QED
  BY <1>1, <1>2, <1>4, Parts

LEMMA OffIs ==
  ASSUME NEW ls
  PROVE  /\ Off(ls, "fx") = BaseSum(ls, Foreign) /\ Off(ls, "points") = BaseSum(ls, Points)
         /\ \A k : Legs(ls, k) = InCur(ls, Mine(k))
<1>1. \A k : Legs(ls, k) = InCur(ls, Mine(k))
  BY DEF Legs, InCur
<1> QED
  BY <1>1, Currency DEF Off, BaseSum

\* Nothing in each currency is nothing in all.
LEMMA ByCurrency ==
  ASSUME NEW ls, Stored(ls), NEW S, NEW f,
         \A l \in InCur(ls, S) : f[l] \in Int,
         \A c \in S : SumOn(f, InCur(ls, {c})) = 0
  PROVE  SumOn(f, InCur(ls, S)) = 0
<1> DEFINE A == InCur(ls, S)
           K == {ls[l].cur : l \in A}
           key == [l \in A |-> ls[l].cur]
           g == [c \in K |-> 0]
<1>1. IsFiniteSet(A)
  BY Parts
<1>2. IsFiniteSet(K)
  <2>1. key \in Surjection(A, K)
    BY DEF Surjection
  <2> QED
    BY <1>1, <2>1, FS_Surjection
<1>3. \A l \in A : key[l] \in K /\ key[l] = ls[l].cur
  OBVIOUS
<1>4. \A c \in K : Group(A, key, c) = InCur(ls, {c}) /\ c \in S
  <2>1. \A c \in K : c \in S
    BY DEF InCur
  <2>2. \A c \in K : {x \in A : key[x] = c} = InCur(ls, {c})
    BY <2>1, <1>3 DEF InCur
  <2> QED
    BY <2>1, <2>2 DEF Group
<1>5. \A c \in K : g[c] = SumOn(f, Group(A, key, c)) /\ g[c] = 0
  BY <1>4
<1>6. \A l \in A : f[l] \in Int
  OBVIOUS
<1> HIDE DEF A, K, key, g
<1>7. SumOn(f, A) = SumOn(g, K)
  BY <1>1, <1>2, <1>3, <1>5, <1>6, SumByGroup
<1> QED
  BY <1>2, <1>5, <1>7, SumOfNothings DEF A

\* Legs of balanced currencies, each rounded alone, are off by half a unit
\* for each at most.
LEMMA RoundedSum ==
  ASSUME NEW ls, Stored(ls), NEW S, NEW f, NEW q,
         \A l \in InCur(ls, S) : q[ls[l].cur] \in Int,
         \A l \in InCur(ls, S) : f[l] = Round(ls[l].minor * q[ls[l].cur]),
         \A c \in S : MinorSum(ls, c) = 0
  PROVE  /\ \A l \in InCur(ls, S) : f[l] \in Int
         /\ SumOn(f, InCur(ls, S)) \in Int
         /\ Within(2 * SumOn(f, InCur(ls, S)), Cardinality(InCur(ls, S)))
<1> DEFINE A == InCur(ls, S)
           exact == [l \in A |-> ls[l].minor * q[ls[l].cur]]
           scaled == [l \in A |-> Scale * f[l]]
           error == [l \in A |-> f[l] * Scale - exact[l]]
           twice == [l \in A |-> 2 * error[l]]
<1>0. Scale \in Int /\ Scale \in Nat /\ IsFiniteSet(A) /\ Cardinality(A) \in Nat
  BY Scales, Parts
<1>1. \A l \in A : exact[l] \in Int
  <2>1. \A l \in A : ls[l].minor \in Int
    BY Parts
  <2> QED
    BY <2>1
<1>2. \A l \in A : f[l] = Round(exact[l])
  OBVIOUS
<1>3. \A l \in A : f[l] \in Int /\ Within(2 * (f[l] * Scale - exact[l]), Scale)
  <2> HIDE DEF exact, A
  <2> QED
    BY <1>1, <1>2, Rounds
<1>4. \A l \in A : /\ error[l] \in Int /\ scaled[l] = error[l] + exact[l]
                   /\ scaled[l] = Scale * f[l]
                   /\ twice[l] = 2 * error[l] /\ twice[l] \in Int /\ Within(twice[l], Scale)
  <2>1. \A l \in A : error[l] = f[l] * Scale - exact[l] /\ scaled[l] = Scale * f[l]
                     /\ twice[l] = 2 * error[l]
    OBVIOUS
  <2> HIDE DEF error, scaled, exact, twice, A
  <2> QED
    BY <1>0, <1>1, <1>3, <2>1
<1>5. SumOn(exact, A) = 0
  <2>1. ASSUME NEW c \in S PROVE SumOn(exact, InCur(ls, {c})) = 0
    <3> DEFINE C == InCur(ls, {c})
               m == MinorOf(ls)
    <3>1. C \subseteq A /\ IsFiniteSet(C) /\ SumOn(m, C) = 0
      <4>1. C \subseteq A
        BY DEF InCur
      <4> QED
        BY <4>1, Parts, MinorParts
    <3>2. CASE C = {}
      BY <3>2, SumOfNone
    <3>3. CASE C # {}
      <4>1. PICK x \in C : TRUE
        BY <3>3
      <4>2. q[c] \in Int
        BY <3>1, <4>1 DEF InCur
      <4>3. \A l \in C : m[l] \in Int /\ exact[l] = q[c] * m[l]
        <5>1. \A l \in C : m[l] = ls[l].minor /\ m[l] \in Int /\ ls[l].cur = c
          BY Parts DEF InCur
        <5>2. \A l \in C : exact[l] = ls[l].minor * q[ls[l].cur]
          BY <3>1
        <5> HIDE DEF exact, m, C
        <5> QED
          BY <4>2, <5>1, <5>2
      <4> HIDE DEF exact, m, C
      <4>4. SumOn(exact, C) = q[c] * SumOn(m, C)
        BY <3>1, <4>2, <4>3, SumScaled
      <4> QED
        BY <3>1, <4>2, <4>4 DEF C
    <3> QED
      BY <3>2, <3>3
  <2> HIDE DEF exact
  <2> QED
    BY <1>1, <2>1, ByCurrency
<1>6. SumOn(f, A) \in Int /\ SumOn(error, A) \in Int /\ SumOn(twice, A) \in Int
  <2> HIDE DEF A, error, twice
  <2> QED
    BY <1>0, <1>3, <1>4, SumOfInts
<1> HIDE DEF A, error, scaled, exact, twice
<1>7. SumOn(scaled, A) = SumOn(error, A) + SumOn(exact, A)
  BY <1>0, <1>1, <1>4, SumOfSums
<1>8. SumOn(scaled, A) = Scale * SumOn(f, A)
  BY <1>0, <1>3, <1>4, SumScaled
<1>9. SumOn(twice, A) = 2 * SumOn(error, A)
  <2>1. 2 \in Int
    OBVIOUS
  <2> QED
    BY <1>0, <1>4, <2>1, SumScaled
<1>10. Within(SumOn(twice, A), Cardinality(A) * Scale)
  BY <1>0, <1>4, SumWithin
<1>11. Within(2 * SumOn(f, A), Cardinality(A))
  <2> DEFINE s == SumOn(f, A)
             n == Cardinality(A)
  <2>1. SumOn(twice, A) = Scale * (2 * s)
    BY <1>0, <1>5, <1>6, <1>7, <1>8, <1>9
  <2>2. s \in Int /\ n \in Nat
    BY <1>0, <1>6
  <2> HIDE DEF s, n
  <2>3. Scale * (2 * s) <= Scale * n
    BY <1>0, <1>10, <2>1, <2>2 DEF Within, n
  <2>4. Scale * (- n) <= Scale * (2 * s)
    BY <1>0, <1>10, <2>1, <2>2 DEF Within, n
  <2>5. 2 * s <= n /\ - n <= 2 * s
    BY <2>2, <2>3, <2>4, Scales, Cancels
  <2> QED
    BY <2>5 DEF Within, s, n
<1> QED
  BY <1>3, <1>6, <1>11 DEF A

----------------------------------------------------------------------------
\* A finite set of numbers that is not empty has a least member.
LEMMA LeastOf ==
  ASSUME NEW S \in SUBSET Int, IsFiniteSet(S), S # {}
  PROVE  Min(S) \in S
<1> DEFINE Below(x) == {y \in S : y < x}
           T == {Below(x) : x \in S}
<1>1. T \subseteq FiniteSubsetsOf(S)
  BY FS_Subset DEF FiniteSubsetsOf
<1>2. PICK U \in T : \A V \in T : <<V, U>> \notin StrictSubsetOrdering(S)
  <2>1. T # {}
    OBVIOUS
  <2> HIDE DEF T
  <2> QED
    BY <1>1, <2>1, FS_StrictSubsetOrderingWellFounded, WFMin
<1>3. PICK x \in S : U = Below(x)
  BY <1>2
<1>4. \A y \in S : x <= y
  <2> SUFFICES ASSUME NEW y \in S, ~ (x <= y) PROVE FALSE
    OBVIOUS
  <2>1. y < x /\ x \in Int /\ y \in Int
    OBVIOUS
  <2>2. Below(y) \subseteq Below(x) /\ y \in Below(x) /\ y \notin Below(y)
    <3>1. \A z \in Int : z < y => z < x
      BY <2>1
    <3>2. ~ (y < y)
      BY <2>1
    <3> QED
      BY <2>1, <3>1, <3>2
  <2>3. Below(y) \in T /\ Below(x) \in SUBSET S /\ Below(y) \in SUBSET S
    OBVIOUS
  <2>4. <<Below(y), U>> \notin StrictSubsetOrdering(S)
    BY <1>2, <2>3
  <2> QED
    BY <1>3, <2>2, <2>3, <2>4 DEF StrictSubsetOrdering
<1> QED
  BY <1>4 DEF Min

\* The leg that takes the residual is one of the pass.
LEMMA LargestIs ==
  ASSUME NEW c, Stored(c.seen), Legs(c.seen, c.kind) # {},
         NEW f, \A l \in Legs(c.seen, c.kind) : f[l] \in Int
  PROVE  Largest(c, f) \in Legs(c.seen, c.kind)
<1> DEFINE mine == Legs(c.seen, c.kind)
           size == [k \in mine |-> Size(f[k])]
           T == {size[k] : k \in mine}
           top == {l \in mine : \A k \in mine : Size(f[k]) <= Size(f[l])}
<1>1. mine \subseteq Int /\ IsFiniteSet(mine) /\ mine # {}
  <2>1. IsFiniteSet(DOMAIN c.seen) /\ DOMAIN c.seen \subseteq Int
    BY DEF Stored
  <2> QED
    BY <2>1, FS_Subset DEF Legs
<1>2. \A k \in mine : size[k] = Size(f[k]) /\ size[k] \in Nat
  BY DEF Size
<1>3. size = [k \in mine |-> size[k]]
  OBVIOUS
<1>4. IsFiniteSet(T) /\ T \in SUBSET Nat /\ T # {}
  <2>1. size \in Surjection(mine, T)
    BY DEF Surjection
  <2>2. IsFiniteSet(T)
    BY <1>1, <2>1, FS_Surjection
  <2> HIDE DEF mine, size
  <2> QED
    BY <1>1, <1>2, <2>2
<1>5. PICK l \in mine : \A k \in mine : size[k] <= size[l]
  <2>1. Max(T) \in T /\ \A y \in T : y <= Max(T)
    <3> HIDE DEF T
    <3> QED
      BY <1>4, GreatestOf
  <2>2. PICK l \in mine : Max(T) = size[l]
    BY <2>1
  <2>3. \A k \in mine : size[k] \in T
    OBVIOUS
  <2> HIDE DEF T, size, mine
  <2> QED
    BY <2>1, <2>2, <2>3
<1>6. l \in top
  BY <1>2, <1>5
<1>7. top \in SUBSET Int /\ IsFiniteSet(top) /\ top # {}
  <2>1. top \subseteq mine
    OBVIOUS
  <2> HIDE DEF top, mine
  <2> QED
    BY <1>1, <1>6, <2>1, FS_Subset
<1>8. Min(top) \in top
  <2> HIDE DEF top
  <2> QED
    BY <1>7, LeastOf
<1> QED
  BY <1>8 DEF Largest

\* A pass that has its rates.
Rated(c) ==
  /\ c.kind \in {"fx", "points"} /\ Stored(c.seen) /\ Legs(c.seen, c.kind) # {}
  /\ \A l \in Legs(c.seen, c.kind) : c.rates[c.seen[l].cur] \in Nat

LEMMA MineIs ==
  ASSUME NEW c, Rated(c), NEW l \in DOMAIN c.seen
  PROVE  /\ c.seen[l].cur \in Mine(c.kind) <=> l \in Legs(c.seen, c.kind)
         /\ l \in Legs(c.seen, c.kind) <=> l \in InCur(c.seen, Mine(c.kind))
  BY DEF Legs, InCur

LEMMA RoundedFits ==
  ASSUME NEW c, Rated(c)
  PROVE  /\ DOMAIN Rounded(c) = DOMAIN c.seen
         /\ \A l \in DOMAIN c.seen : Rounded(c)[l] \in Int
         /\ \A l \in Legs(c.seen, c.kind) :
              Rounded(c)[l] = Round(c.seen[l].minor * c.rates[c.seen[l].cur])
         /\ \A l \in InCur(c.seen, {BaseCurrency}) :
              Rounded(c)[l] = IF c.kind = "fx" THEN c.seen[l].minor ELSE c.seen[l].base
         /\ \A l \in InCur(c.seen, IF c.kind = "fx" THEN Points ELSE Foreign) :
              Rounded(c)[l] = c.seen[l].base
<1>1. \A l \in DOMAIN c.seen : c.seen[l].minor \in Int /\ c.seen[l].base \in Int
  BY Parts DEF Rated
<1>2. ASSUME NEW l \in Legs(c.seen, c.kind)
      PROVE  /\ Rounded(c)[l] = Round(c.seen[l].minor * c.rates[c.seen[l].cur])
             /\ Rounded(c)[l] \in Int
  <2>1. l \in DOMAIN c.seen /\ c.seen[l].cur \in Mine(c.kind)
    BY DEF Legs
  <2>2. c.seen[l].minor * c.rates[c.seen[l].cur] \in Int
    BY <1>1, <2>1 DEF Rated
  <2> QED
    BY <2>1, <2>2, Rounds DEF Rounded
<1>3. ASSUME NEW l \in DOMAIN c.seen, l \notin Legs(c.seen, c.kind)
      PROVE  Rounded(c)[l] = IF c.kind = "fx" /\ c.seen[l].cur = BaseCurrency THEN c.seen[l].minor
                             ELSE c.seen[l].base
  BY <1>3, MineIs DEF Rounded
<1>4. ASSUME NEW l \in InCur(c.seen, {BaseCurrency}) PROVE l \notin Legs(c.seen, c.kind)
  BY Currency DEF InCur, Legs, Rated
<1>5. ASSUME NEW l \in InCur(c.seen, IF c.kind = "fx" THEN Points ELSE Foreign)
      PROVE  l \notin Legs(c.seen, c.kind) /\ c.seen[l].cur # BaseCurrency
  BY Currency DEF InCur, Legs, Rated
<1> QED
  BY <1>1, <1>2, <1>3, <1>4, <1>5 DEF Rounded, InCur

\* The residual is an integer, and small when nobody corrected an amount.
LEMMA Residual ==
  ASSUME NEW c, Rated(c)
  PROVE  /\ AddUp(Rounded(c)) \in Int
         /\ Even(c.seen) /\ (\A x \in Currencies : MinorSum(c.seen, x) = 0)
              => Within(2 * AddUp(Rounded(c)), Cardinality(DOMAIN c.seen))
<1> DEFINE ls == c.seen
           f == Rounded(c)
           other == IF c.kind = "fx" THEN Points ELSE Foreign
           A == InCur(ls, Mine(c.kind))
           B == InCur(ls, other)
           C == InCur(ls, {BaseCurrency})
<1>0. Stored(ls) /\ c.kind \in {"fx", "points"} /\ Legs(ls, c.kind) = A
  BY OffIs DEF Rated
<1>1. DOMAIN f = DOMAIN ls /\ \A l \in DOMAIN ls : f[l] \in Int
  BY RoundedFits
<1>2. AddUp(f) = SumOn(f, A) + SumOn(f, B) + SumOn(f, C)
  <2>1. AddUp(f) = SumOn(f, DOMAIN ls)
    BY <1>1, SumIs
  <2>2. SumOn(f, DOMAIN ls) = SumOn(f, InCur(ls, Foreign)) + SumOn(f, InCur(ls, Points))
                               + SumOn(f, InCur(ls, {BaseCurrency}))
        /\ SumOn(f, InCur(ls, Foreign)) \in Int /\ SumOn(f, InCur(ls, Points)) \in Int
    <3> HIDE DEF f, ls
    <3> QED
      BY <1>0, <1>1, ThreeParts
  <2> HIDE DEF f, ls
  <2> QED
    BY <1>0, <2>1, <2>2, Currency
<1>3. SumOn(f, A) \in Int /\ SumOn(f, B) \in Int /\ SumOn(f, C) \in Int
  <2> HIDE DEF f, ls
  <2> QED
    BY <1>0, <1>1, ThreeParts
<1>4. ASSUME Even(ls), \A x \in Currencies : MinorSum(ls, x) = 0
      PROVE  Within(2 * AddUp(f), Cardinality(DOMAIN ls))
  <2>1. Within(2 * SumOn(f, A), Cardinality(A))
    <3> DEFINE S == Mine(c.kind)
               q == c.rates
    <3>1. \A l \in A : q[ls[l].cur] \in Int
      BY <1>0 DEF Rated
    <3>2. \A l \in A : f[l] = Round(ls[l].minor * q[ls[l].cur])
      BY <1>0, RoundedFits
    <3>3. \A x \in S : MinorSum(ls, x) = 0
      BY <1>0, <1>4, Currency
    <3> HIDE DEF f, q, S, ls
    <3> QED
      BY <1>0, <3>1, <3>2, <3>3, RoundedSum DEF S
  <2>2. SumOn(f, B) = BaseSum(ls, other)
    <3>1. \A l \in B : f[l] = BaseOf(ls)[l]
      BY <1>0, RoundedFits, Parts
    <3>2. IsFiniteSet(B) /\ BaseSum(ls, other) = SumOn(BaseOf(ls), B)
      BY <1>0, Parts
    <3> HIDE DEF f, B
    <3> QED
      BY <3>1, <3>2, SumSame
  <2>3. SumOn(f, C) = 0
    <3>0. IsFiniteSet(C)
      BY <1>0, Parts
    <3>1. CASE c.kind = "fx"
      <4>1. \A l \in C : f[l] = MinorOf(ls)[l]
        BY <1>0, <3>1, RoundedFits, Parts
      <4>2. SumOn(f, C) = SumOn(MinorOf(ls), C)
        <5> HIDE DEF f, C
        <5> QED
          BY <3>0, <4>1, SumSame
      <4>3. MinorSum(ls, BaseCurrency) = 0
        BY <1>4, Currency
      <4> QED
        BY <1>0, <4>2, <4>3, MinorParts
    <3>2. CASE c.kind = "points"
      <4>1. \A l \in C : f[l] = BaseOf(ls)[l]
        BY <1>0, <3>2, RoundedFits, Parts
      <4>2. SumOn(f, C) = SumOn(BaseOf(ls), C)
        <5> HIDE DEF f, C
        <5> QED
          BY <3>0, <4>1, SumSame
      <4> QED
        BY <1>0, <1>4, <4>2, Parts DEF Even
    <3> QED
      BY <1>0, <3>1, <3>2
  <2>4. Within(2 * BaseSum(ls, other), Cardinality(B)) /\ BaseSum(ls, other) \in Int
    <3>1. BaseSum(ls, other) \in Int /\ Cardinality(B) \in Nat
      BY <1>0, Parts
    <3>2. 2 * Size(BaseSum(ls, other)) <= Cardinality(B)
      BY <1>4 DEF Even
    <3> HIDE DEF B, other
    <3> QED
      BY <3>1, <3>2, Sizes
  <2>5. Cardinality(A) + Cardinality(B) <= Cardinality(DOMAIN ls)
        /\ Cardinality(A) \in Nat /\ Cardinality(B) \in Nat /\ Cardinality(DOMAIN ls) \in Nat
    <3>1. IsFiniteSet(A) /\ IsFiniteSet(B) /\ A \cup B \subseteq DOMAIN ls
          /\ IsFiniteSet(DOMAIN ls)
      BY <1>0, Parts DEF Stored
    <3>2. A \cap B = {}
      BY <1>0, Currency DEF InCur
    <3> HIDE DEF A, B, ls
    <3>3. Cardinality(A \cup B) = Cardinality(A) + Cardinality(B)
      <4>1. Cardinality(A \cap B) = 0
        BY <3>2, FS_EmptySet
      <4>2. Cardinality(A) \in Nat /\ Cardinality(B) \in Nat
        BY <3>1, FS_CardinalityType
      <4>3. Cardinality(A \cup B) = Cardinality(A) + Cardinality(B) - Cardinality(A \cap B)
        BY <3>1, FS_Union
      <4> QED
        BY <4>1, <4>2, <4>3
    <3>4. Cardinality(A \cup B) <= Cardinality(DOMAIN ls)
      BY <3>1, FS_Subset
    <3> QED
      BY <3>1, <3>3, <3>4, FS_CardinalityType
  <2> HIDE DEF f, A, B, C, ls, other
  <2>6. AddUp(f) = SumOn(f, A) + BaseSum(ls, other)
    BY <1>2, <1>3, <2>2, <2>3
  <2> QED
    BY <1>3, <2>1, <2>4, <2>5, <2>6 DEF Within
<1>5. AddUp(f) \in Int
  BY <1>2, <1>3
<1> QED
  BY <1>4, <1>5

\* What a pass writes: the legs of its kind carry their rates, the rest is
\* as it was.
LEMMA SettledFits ==
  ASSUME NEW c, Rated(c)
  PROVE  /\ \A l \in Legs(c.seen, c.kind) : Settled(c)[l] \in Int
         /\ Even(c.seen) /\ (\A x \in Currencies : MinorSum(c.seen, x) = 0)
              => \A l \in Legs(c.seen, c.kind) :
                   Within(2 * (Settled(c)[l] * Scale
                                - c.seen[l].minor * c.rates[c.seen[l].cur]),
                          (Cardinality(DOMAIN c.seen) + 1) * Scale)
<1> DEFINE f == Rounded(c)
           r == AddUp(f)
           mine == Legs(c.seen, c.kind)
           top == Largest(c, f)
           n == Cardinality(DOMAIN c.seen)
<1>1. /\ DOMAIN f = DOMAIN c.seen /\ r \in Int
      /\ \A l \in mine : f[l] \in Int /\ l \in DOMAIN f
      /\ \A l \in mine : f[l] = Round(c.seen[l].minor * c.rates[c.seen[l].cur])
  BY RoundedFits, Residual DEF Legs
<1>2. top \in mine
  BY <1>1, LargestIs DEF Rated
<1>3. \A l \in mine : Settled(c)[l] = IF l = top THEN f[l] - r ELSE f[l]
  <2>1. Settled(c) = [f EXCEPT ![top] = f[top] - r]
    BY DEF Settled
  <2> HIDE DEF f, r, mine, top
  <2> QED
    BY <1>1, <1>2, <2>1
<1>4. ASSUME Even(c.seen), \A x \in Currencies : MinorSum(c.seen, x) = 0,
             NEW l \in mine
      PROVE  Within(2 * (Settled(c)[l] * Scale - c.seen[l].minor * c.rates[c.seen[l].cur]),
                    (n + 1) * Scale)
  <2> DEFINE m == c.seen[l].minor * c.rates[c.seen[l].cur]
             g == f[l]
  <2>1. m \in Int /\ g \in Int /\ Within(2 * (g * Scale - m), Scale)
    <3>1. c.seen[l].minor \in Int /\ c.rates[c.seen[l].cur] \in Int
      BY Parts DEF Rated, Legs
    <3>2. m \in Int
      BY <3>1
    <3>3. g = Round(m)
      BY <1>1
    <3> HIDE DEF m, g
    <3> QED
      BY <3>2, <3>3, Rounds
  <2>2. Within(2 * r, n) /\ n \in Nat /\ Scale \in Nat \ {0}
    BY <1>4, Residual, Scales, FS_CardinalityType DEF Rated, Stored
  <2>3. Settled(c)[l] = g \/ Settled(c)[l] = g - r
    BY <1>3
  <2>4. /\ (g - r) * Scale = g * Scale - r * Scale /\ g * Scale \in Int /\ r * Scale \in Int
        /\ (n + 1) * Scale = n * Scale + Scale /\ n * Scale \in Nat
    BY <1>1, <2>1, <2>2
  <2>5. Within(2 * (r * Scale), n * Scale)
    <3>1. 2 * r <= n => (2 * r) * Scale <= n * Scale
      BY <1>1, <2>2
    <3>2. - n <= 2 * r => (- n) * Scale <= (2 * r) * Scale
      BY <1>1, <2>2
    <3>3. (2 * r) * Scale = 2 * (r * Scale) /\ (- n) * Scale = - (n * Scale)
      BY <1>1, <2>2
    <3> HIDE DEF r, n
    <3> QED
      BY <2>2, <3>1, <3>2, <3>3 DEF Within
  <2> HIDE DEF f, r, g, m, n, mine
  <2>6. Within(2 * (g * Scale - m), (n + 1) * Scale)
    BY <2>1, <2>2, <2>4 DEF Within
  <2>7. Within(2 * ((g - r) * Scale - m), (n + 1) * Scale)
    BY <2>1, <2>2, <2>4, <2>5 DEF Within
  <2> QED
    BY <2>3, <2>6, <2>7 DEF m
<1> QED
  BY <1>1, <1>3, <1>4

\* Legs that agree in what is summed have the same sums.
LEMMA SameSums ==
  ASSUME NEW ls, NEW ms, DOMAIN ls = DOMAIN ms,
         \A l \in DOMAIN ls : ls[l].cur = ms[l].cur
  PROVE  /\ \A S : InCur(ls, S) = InCur(ms, S)
         /\ \A k : Legs(ls, k) = Legs(ms, k)
         /\ \A S : (\A l \in InCur(ls, S) : ls[l].base = ms[l].base)
                     => BaseSum(ls, S) = BaseSum(ms, S)
         /\ (\A l \in DOMAIN ls : ls[l].minor = ms[l].minor)
              => \A x : MinorSum(ls, x) = MinorSum(ms, x)
<1>1. \A S : InCur(ls, S) = InCur(ms, S)
  BY DEF InCur
<1>2. \A k : Legs(ls, k) = Legs(ms, k)
  BY DEF Legs
<1>3. ASSUME NEW S, \A l \in InCur(ls, S) : ls[l].base = ms[l].base
      PROVE  BaseSum(ls, S) = BaseSum(ms, S)
  <2>1. [l \in InCur(ls, S) |-> ls[l].base] = [l \in InCur(ms, S) |-> ms[l].base]
    BY <1>1, <1>3
  <2> QED
    BY <2>1 DEF BaseSum
<1>4. ASSUME NEW x, \A l \in DOMAIN ls : ls[l].minor = ms[l].minor
      PROVE  MinorSum(ls, x) = MinorSum(ms, x)
  <2>1. [l \in InCur(ls, {x}) |-> ls[l].minor] = [l \in InCur(ms, {x}) |-> ms[l].minor]
    BY <1>1, <1>4 DEF InCur
  <2> QED
    BY <2>1 DEF MinorSum
<1> QED
  BY <1>1, <1>2, <1>3, <1>4

LEMMA StillAgrees ==
  ASSUME NEW ls, NEW ms, NEW ns, Agree(ls, ms), Agree(ms, ns)
  PROVE  Agree(ls, ns) /\ (SameMinor(ls, ms) /\ SameMinor(ms, ns) => SameMinor(ls, ns))
  BY DEF Agree, SameMinor

\* Whatever happens to the legs of a transaction once they are there: there
\* are some, and while nobody reworks them they agree with what they were.
Stays(t) ==
  DOMAIN leg[t] # {} =>
    /\ DOMAIN leg'[t] # {}
    /\ t \notin reworked' =>
         /\ Agree(leg[t], leg'[t])
         /\ t \notin corrected' => SameMinor(leg[t], leg'[t])

\* What people did is remembered.
Remembered == /\ corrected \subseteq corrected' /\ reworked \subseteq reworked'
              /\ drafts \subseteq drafts'

\* So what a pass has read stays a snapshot.
LEMMA StillReading ==
  ASSUME NEW c, Awaiting(c), \A t \in Purchases : Stays(t), Remembered
  PROVE  Awaiting(c)'
<1>1. CASE c.at = "idle"
  BY <1>1 DEF Awaiting
<1>2. CASE c.at # "idle"
  <2>1. c.txn \in Purchases /\ DOMAIN leg[c.txn] # {} /\ Stays(c.txn)
    BY <1>2 DEF Awaiting
  <2>2. ASSUME Snapshot(c) PROVE Snapshot(c)'
    <3>1. ASSUME c.txn \notin reworked'
          PROVE  /\ Agree(c.seen, leg'[c.txn])
                 /\ c.txn \notin corrected' => SameMinor(c.seen, leg'[c.txn])
      <4>1. Agree(c.seen, leg[c.txn]) /\ Agree(leg[c.txn], leg'[c.txn])
        BY <2>1, <2>2, <3>1 DEF Snapshot, Stays, Remembered
      <4>2. c.txn \notin corrected' =>
              SameMinor(c.seen, leg[c.txn]) /\ SameMinor(leg[c.txn], leg'[c.txn])
        BY <2>1, <2>2, <3>1 DEF Snapshot, Stays, Remembered
      <4> QED
        BY <4>1, <4>2, StillAgrees
    <3>2. Stored(c.seen)'
      BY <2>2 DEF Snapshot, Stored
    <3>3. (c.txn \notin reworked =>
             /\ Agree(c.seen, leg[c.txn])
             /\ c.txn \notin corrected => SameMinor(c.seen, leg[c.txn]))'
      BY <3>1 DEF Agree, SameMinor, BaseSum, InCur
    <3> QED
      BY <3>2, <3>3 DEF Snapshot
  <2>3. DOMAIN leg'[c.txn] # {}
    BY <2>1 DEF Stays
  <2> QED
    BY <1>2, <2>1, <2>2, <2>3 DEF Awaiting
<1> QED
  BY <1>1, <1>2

----------------------------------------------------------------------------
\* The days a rate can be of.
LEMMA GreatestDay ==
  ASSUME NEW S \in SUBSET Nat, NEW d \in Nat, \A b \in S : b <= d, S # {}
  PROVE  Newest(S) \in S /\ \A b \in S : b <= Newest(S)
  BY FS_BoundedSetOfNaturals, GreatestOf DEF Newest

LEMMA DaysAre ==
  /\ Days \subseteq Nat /\ Business \subseteq Days
  /\ \A t \in Purchases : On[t] \in Days
  /\ Null \notin Nat /\ Worths \subseteq Nat
  /\ \A c \in Foreign, b \in Business : Published[c][b] \in Nat \ {0}
<1>1. /\ MaxDay \in Nat /\ Business \subseteq Days /\ On \in [Purchases -> Days]
      /\ Null \notin Int /\ Worths \subseteq Nat
      /\ Published \in [Foreign -> [Business -> Nat \ {0}]]
  BY MoneyAssumption DEF MoneyAssumption
<1>2. Days \subseteq Nat
  BY <1>1 DEF Days
<1>3. Nat \subseteq Int
  OBVIOUS
<1> HIDE DEF Days, Business
<1> QED
  BY <1>1, <1>2, <1>3

LEMMA ServedIs ==
  ASSUME NEW d \in Days, NEW by, ServedDays(d, by) # {}
  PROVE  /\ Newest(ServedDays(d, by)) \in Business
         /\ Newest(ServedDays(d, by)) \in ServedDays(d, by)
         /\ \A b \in ServedDays(d, by) : b <= Newest(ServedDays(d, by))
<1>1. ServedDays(d, by) \in SUBSET Nat /\ \A b \in ServedDays(d, by) : b <= d
  BY DaysAre DEF ServedDays
<1>2. d \in Nat
  BY DaysAre
<1> QED
  BY <1>1, <1>2, GreatestDay DEF ServedDays

\* The answer that is kept is the last the source will give: either it is of
\* the day itself, or all the days up to it are out.
LEMMA KeptIsFinal ==
  ASSUME Calendar, NEW c \in Foreign, NEW d \in Days,
         ServedDays(d, out) # {}, ~Provisional(d, Newest(ServedDays(d, out)))
  PROVE  Published[c][Newest(ServedDays(d, out))] = Final(c, d)
<1> DEFINE days == ServedDays(d, out)
           all == ServedDays(d, MaxDay)
           b == Newest(days)
<1>0. d \in Nat /\ d <= MaxDay /\ out \in Int /\ today \in Nat /\ MaxDay \in Nat
      /\ Business \subseteq Nat /\ \A x \in Business : x <= MaxDay
  <2>1. MaxDay \in Nat /\ Business \subseteq Days
    BY MoneyAssumption DEF MoneyAssumption
  <2>2. today \in Days /\ out \in Business \cup {-1}
    BY DEF Calendar
  <2>3. \A x \in Days : x \in Nat /\ x <= MaxDay
    BY <2>1 DEF Days
  <2> QED
    BY <2>1, <2>2, <2>3
<1>1. b \in days /\ b \in Business /\ b <= d /\ b \in Nat
  BY <1>0, ServedIs DEF ServedDays
<1>2. days \subseteq all
  BY <1>0 DEF ServedDays
<1>3. Final(c, d) = Published[c][Newest(all)]
  BY DEF Final, Rate
<1>4. CASE b = d
  <2>1. b \in all /\ all # {}
    BY <1>1, <1>2
  <2>2. Newest(all) \in all /\ b <= Newest(all)
    BY <2>1, ServedIs
  <2>3. Newest(all) <= d /\ Newest(all) \in Nat
    BY <1>0, <2>2 DEF ServedDays
  <2>4. Newest(all) = b
    BY <1>0, <1>4, <2>2, <2>3
  <2> QED
    BY <1>3, <2>4
<1>5. CASE b # d
  <2>1. today - d > 2
    BY <1>0, <1>1, <1>5 DEF Provisional
  <2>2. ASSUME NEW x \in all PROVE x <= out
    <3>1. x \in Business /\ x \in Nat /\ x <= d
      BY <1>0 DEF ServedDays
    <3>2. x < today - 1
      BY <1>0, <2>1, <3>1
    <3> QED
      BY <3>1, <3>2 DEF Calendar
  <2>3. all = days
    BY <1>2, <2>2 DEF ServedDays
  <2> QED
    BY <1>3, <2>3
<1> QED
  BY <1>4, <1>5

----------------------------------------------------------------------------
LEMMA QuietReads == Awaiting(Idle)
  BY DEF Awaiting, Idle, Fields

LEMMA NextReads ==
  ASSUME NEW c, Awaiting(c), c.at # "idle"
  PROVE  Awaiting(NextPass(c))
<1> DEFINE d == [Idle EXCEPT !.at = "read", !.kind = "fx", !.txn = c.txn]
<1>1. Awaiting(d)
  BY DEF Awaiting, Idle, Fields
<1>2. NextPass(c) \in {d, Idle}
  BY DEF NextPass
<1> QED
  BY <1>1, <1>2, QuietReads

LEMMA GotReads ==
  ASSUME NEW c, Awaiting(c), c.at \in {"lookup", "fetch", "keep"},
         NEW x, NEW r \in Nat, r = 0 => x \in Points
  PROVE  Awaiting(Got(c, x, r))
<1> DEFINE rates == [y \in DOMAIN c.rates \cup {x} |-> IF y = x THEN r ELSE c.rates[y]]
           d == [c EXCEPT !.rates = rates, !.at = "lookup", !.cur = Null,
                          !.served = Null, !.tries = 0]
<1>1. \A y \in DOMAIN rates : rates[y] \in Nat /\ (rates[y] = 0 => y \in Points)
  BY DEF Awaiting
<1>2. Got(c, x, r) = d
  BY DEF Got
<1> HIDE DEF rates
<1>3. /\ DOMAIN d = Fields /\ d.at = "lookup" /\ d.kind = c.kind /\ d.txn = c.txn
      /\ d.seen = c.seen /\ d.rates = rates
  BY DEF Awaiting, Fields
<1> HIDE DEF d
<1>4. Snapshot(d)
  BY <1>3 DEF Awaiting, Snapshot
<1> QED
  BY <1>1, <1>2, <1>3, <1>4 DEF Awaiting

\* One call moves on, and the others go on holding what they hold.
LEMMA CallMoves ==
  ASSUME MoneyInv, NEW w \in Workers, NEW d, Awaiting(d), Go(w, d),
         \A t \in Purchases : Stays(t), Remembered
  PROVE  DOMAIN pass' = Workers /\ \A v \in Workers : Awaiting(pass[v])'
<1>1. DOMAIN pass' = Workers /\ \A v \in Workers : pass'[v] = IF v = w THEN d ELSE pass[v]
  BY DEF Go, MoneyInv
<1>2. ASSUME NEW v \in Workers PROVE Awaiting(pass[v])'
  <2>1. PICK c : c = pass'[v]
    OBVIOUS
  <2>2. Awaiting(c)
    BY <1>1, <2>1 DEF MoneyInv
  <2>3. Awaiting(c)'
    BY <2>2, StillReading
  <2> QED
    BY <2>1, <2>3 DEF Awaiting, Snapshot
<1> QED
  BY <1>1, <1>2

LEMMA CallsRest ==
  ASSUME MoneyInv, UNCHANGED pass, \A t \in Purchases : Stays(t), Remembered
  PROVE  DOMAIN pass' = Workers /\ \A v \in Workers : Awaiting(pass[v])'
<1>1. ASSUME NEW v \in Workers PROVE Awaiting(pass[v])'
  <2>1. PICK c : c = pass[v]
    OBVIOUS
  <2>2. Awaiting(c)'
    BY <2>1, StillReading DEF MoneyInv
  <2> QED
    BY <2>1, <2>2 DEF Awaiting, Snapshot
<1> QED
  BY <1>1 DEF MoneyInv

\* Steps that leave the postings alone.
LEMMA LegsRest ==
  ASSUME UNCHANGED <<leg, marks>>
  PROVE  (\A t \in Purchases : Stays(t)) /\ Remembered /\ (Books => Books')
<1>1. \A t \in Purchases : Stays(t)
  BY DEF Stays, Agree, SameMinor
<1>2. Remembered
  BY DEF Remembered, marks
<1>3. ASSUME NEW t \in Purchases, InOrder(t, leg[t]) PROVE InOrder(t, leg[t])'
  <2>1. PICK ms : ms = leg'[t]
    OBVIOUS
  <2>2. /\ Stored(ms) /\ (t \notin drafts' => LegsBalance(ms))
        /\ t \notin reworked' => Proper(ms) /\ Even(ms)
        /\ t \notin corrected' \cup reworked' => Entered(ms)
    BY <1>3, <2>1 DEF InOrder, marks
  <2> QED
    BY <2>1, <2>2
    DEF InOrder, Stored, Proper, Even, Entered, LegsBalance, BaseSum, MinorSum, InCur
<1>4. Books => Books'
  BY <1>3 DEF Books
<1> QED
  BY <1>1, <1>2, <1>4

\* A step of a pass that writes no leg.
LEMMA PassReads ==
  ASSUME MoneyInv, NEW w \in Workers, NEW d, Awaiting(d), Go(w, d),
         UNCHANGED <<leg, cache, worth, clock, marks>>
  PROVE  MoneyInv'
<1>1. (\A t \in Purchases : Stays(t)) /\ Remembered /\ (Books => Books')
  BY LegsRest
<1>2. DOMAIN pass' = Workers /\ \A v \in Workers : Awaiting(pass[v])'
  BY <1>1, CallMoves
<1>3. Books'
  BY <1>1 DEF MoneyInv
<1>4. Calendar'
  BY DEF MoneyInv, Calendar, clock
<1>5. Tables' /\ FrozenRatesAreFinal'
  BY DEF MoneyInv, Tables, FrozenRatesAreFinal, marks
<1> QED
  BY <1>2, <1>3, <1>4, <1>5 DEF MoneyInv

----------------------------------------------------------------------------
LEMMA Looking ==
  ASSUME MoneyInv, NEW w \in Workers
  PROVE  /\ Awaiting(pass[w]) /\ Books /\ Tables /\ FrozenRatesAreFinal /\ Calendar
         /\ pass[w].at # "idle" => On[pass[w].txn] \in Days
         /\ pass[w].at \in {"lookup", "fetch", "keep"} =>
              Kinds(pass[w].seen, pass[w].kind) \subseteq Mine(pass[w].kind)
  BY DaysAre DEF MoneyInv, Awaiting, Kinds, Legs

LEMMA BeginStep ==
  ASSUME MoneyInv, NEW w \in Workers, NEW t \in Purchases,
         RunPasses(w, t) \/ \E k \in {"fx", "points"} : RunForced(w, t, k)
  PROVE  MoneyInv'
<1>1. PICK d : /\ Go(w, d) /\ DOMAIN leg[t] # {} /\ DOMAIN d = Fields
               /\ d.at = "read" /\ d.kind \in {"fx", "points"} /\ d.txn = t
               /\ d.rates = [x \in {} |-> 0]
  <2>1. CASE RunPasses(w, t)
    <3> DEFINE e == [Idle EXCEPT !.at = "read", !.kind = "points", !.txn = t]
    <3>1. Go(w, e) /\ DOMAIN leg[t] # {}
      BY <2>1 DEF RunPasses
    <3>2. DOMAIN e = Fields /\ e.at = "read" /\ e.kind = "points" /\ e.txn = t
          /\ e.rates = [x \in {} |-> 0]
      BY DEF Idle, Fields
    <3> QED
      BY <3>1, <3>2
  <2>2. CASE \E k \in {"fx", "points"} : RunForced(w, t, k)
    <3>1. PICK k \in {"fx", "points"} : RunForced(w, t, k)
      BY <2>2
    <3> DEFINE e == [Idle EXCEPT !.at = "read", !.kind = k, !.txn = t, !.force = TRUE]
    <3>2. Go(w, e) /\ DOMAIN leg[t] # {}
      BY <3>1 DEF RunForced
    <3>3. DOMAIN e = Fields /\ e.at = "read" /\ e.kind = k /\ e.txn = t
          /\ e.rates = [x \in {} |-> 0]
      BY DEF Idle, Fields
    <3> QED
      BY <3>2, <3>3
  <2> QED
    BY <2>1, <2>2
<1>2. Awaiting(d)
  BY <1>1 DEF Awaiting
<1> QED
  BY <1>1, <1>2, PassReads DEF RunPasses, RunForced

LEMMA ReadLegsStep ==
  ASSUME MoneyInv, NEW w \in Workers, ReadLegs(w)
  PROVE  MoneyInv'
<1> DEFINE c == pass[w]
           ls == leg[c.txn]
           d == [c EXCEPT !.at = "lookup", !.seen = ls]
<1>1. Awaiting(c) /\ c.at = "read" /\ UNCHANGED <<leg, cache, worth, clock, marks>>
  BY Looking DEF ReadLegs
<1>2. /\ c.txn \in Purchases /\ c.kind \in {"fx", "points"} /\ DOMAIN ls # {} /\ Stored(ls)
      /\ c.rates = [x \in {} |-> 0] /\ DOMAIN c = Fields
  BY <1>1, Looking DEF Awaiting, Books, InOrder
<1>3. ASSUME Legs(ls, c.kind) # {} PROVE Awaiting(d)
  <2>1. /\ DOMAIN d = Fields /\ d.at = "lookup" /\ d.kind = c.kind /\ d.txn = c.txn
        /\ d.seen = ls /\ d.rates = c.rates
    BY <1>2 DEF Fields
  <2> HIDE DEF d
  <2>2. Snapshot(d)
    BY <1>2, <2>1 DEF Snapshot, Agree, SameMinor
  <2> QED
    BY <1>2, <1>3, <2>1, <2>2 DEF Awaiting
<1>4. \/ Go(w, NextPass(c))
      \/ Legs(ls, c.kind) # {} /\ Go(w, d)
  BY DEF ReadLegs, Unrated
<1>5. Awaiting(NextPass(c))
  BY <1>1, NextReads
<1> QED
  BY <1>1, <1>3, <1>4, <1>5, PassReads

\* A point is worth nothing or what the owner said.
LEMMA ValuedIs ==
  ASSUME Tables, NEW x \in Points, NEW t, On[t] \in Days
  PROVE  ValuedAt(x, t) \in Nat
<1> DEFINE known == {d \in 0..On[t] : worth[x][d] # Null}
<1>1. ValuedAt(x, t) = IF known = {} THEN 0 ELSE worth[x][Newest(known)]
  BY DEF ValuedAt
<1>2. CASE known = {}
  BY <1>1, <1>2
<1>3. CASE known # {}
  <2>1. On[t] \in Nat /\ On[t] <= MaxDay /\ MaxDay \in Nat
    <3>1. MaxDay \in Nat
      BY MoneyAssumption DEF MoneyAssumption
    <3> QED
      BY <3>1 DEF Days
  <2>2. known \in SUBSET Nat /\ \A b \in known : b <= On[t] /\ b \in Nat
    BY <2>1
  <2>3. Newest(known) \in known
    <3> HIDE DEF known
    <3> QED
      BY <1>3, <2>1, <2>2, GreatestDay
  <2>4. Newest(known) \in Days
    <3>1. PICK b : b = Newest(known)
      OBVIOUS
    <3>2. b \in Nat /\ b <= On[t]
      BY <2>2, <2>3, <3>1
    <3>3. b \in Days
      BY <2>1, <3>2 DEF Days
    <3> QED
      BY <3>1, <3>3
  <2>5. worth[x][Newest(known)] \in Worths
    BY <2>3, <2>4 DEF Tables, Valuations
  <2> QED
    BY <1>1, <1>3, <2>5, DaysAre
<1> QED
  BY <1>2, <1>3

LEMMA LookUpWorthStep ==
  ASSUME MoneyInv, NEW w \in Workers, LookUpWorth(w)
  PROVE  MoneyInv'
<1> DEFINE c == pass[w]
<1>1. PICK x \in Missing(c) : Go(w, Got(c, x, ValuedAt(x, c.txn)))
  BY DEF LookUpWorth
<1>2. /\ Awaiting(c) /\ c.at = "lookup" /\ c.kind = "points"
      /\ UNCHANGED <<leg, cache, worth, clock, marks>>
      /\ On[c.txn] \in Days /\ Tables
  BY Looking DEF LookUpWorth
<1>3. x \in Points
  BY <1>2, Looking, Currency DEF Missing
<1>4. PICK r : r = ValuedAt(x, c.txn)
  OBVIOUS
<1>5. r \in Nat
  BY <1>2, <1>3, <1>4, ValuedIs
<1>6. Awaiting(Got(c, x, r))
  BY <1>2, <1>3, <1>5, GotReads
<1> QED
  BY <1>1, <1>2, <1>4, <1>6, PassReads

LEMMA CachedRate ==
  ASSUME Tables, NEW x \in Foreign, NEW d \in Days, cache[x][d] # Null
  PROVE  cache[x][d] \in Nat \ {0}
  BY DEF Tables, RateCache

LEMMA LookUpCacheStep ==
  ASSUME MoneyInv, NEW w \in Workers, LookUpCache(w)
  PROVE  MoneyInv'
<1> DEFINE c == pass[w]
<1>1. PICK x \in Missing(c) :
        IF cache[x][On[c.txn]] # Null
        THEN Go(w, Got(c, x, cache[x][On[c.txn]]))
        ELSE Go(w, [c EXCEPT !.at = "fetch", !.cur = x])
  BY DEF LookUpCache
<1>2. /\ Awaiting(c) /\ c.at = "lookup" /\ c.kind = "fx" /\ Tables
      /\ UNCHANGED <<leg, cache, worth, clock, marks>>
      /\ On[c.txn] \in Days
  BY Looking DEF LookUpCache
<1>3. x \in Foreign
  BY <1>2, Looking, Currency DEF Missing
<1>4. CASE cache[x][On[c.txn]] # Null
  <2>1. cache[x][On[c.txn]] \in Nat \ {0}
    BY <1>2, <1>3, <1>4, CachedRate
  <2>2. Awaiting(Got(c, x, cache[x][On[c.txn]]))
    BY <1>2, <2>1, GotReads
  <2> QED
    BY <1>1, <1>2, <1>4, <2>2, PassReads
<1>5. CASE cache[x][On[c.txn]] = Null
  <2> DEFINE d == [c EXCEPT !.at = "fetch", !.cur = x]
  <2>1. /\ DOMAIN d = Fields /\ d.at = "fetch" /\ d.kind = c.kind /\ d.txn = c.txn
        /\ d.seen = c.seen /\ d.rates = c.rates /\ d.cur = x
    BY <1>2 DEF Awaiting, Fields
  <2>2. Go(w, d)
    BY <1>1, <1>5
  <2> HIDE DEF d
  <2>3. Snapshot(d)
    BY <1>2, <2>1 DEF Awaiting, Snapshot
  <2>4. Awaiting(d)
    BY <1>2, <1>3, <2>1, <2>3 DEF Awaiting
  <2> QED
    BY <1>2, <2>2, <2>4, PassReads
<1> QED
  BY <1>4, <1>5

LEMMA FetchFailsStep ==
  ASSUME MoneyInv, NEW w \in Workers, FetchFails(w)
  PROVE  MoneyInv'
<1> DEFINE c == pass[w]
           d == [c EXCEPT !.tries = c.tries + 1]
           near == Nearest(c)
<1>1. /\ Awaiting(c) /\ c.at = "fetch" /\ Tables /\ c.cur \in Foreign
      /\ UNCHANGED <<leg, cache, worth, clock, marks>>
      /\ On[c.txn] \in Days
  BY Looking DEF FetchFails, Awaiting
<1>2. \/ Go(w, d)
      \/ Go(w, NextPass(c))
      \/ near # {} /\ Go(w, Got(c, c.cur, cache[c.cur][Newest(near)]))
  BY DEF FetchFails
<1>3. Awaiting(d)
  <2>1. /\ DOMAIN d = Fields /\ d.at = "fetch" /\ d.kind = c.kind /\ d.txn = c.txn
        /\ d.seen = c.seen /\ d.rates = c.rates /\ d.cur = c.cur
    BY <1>1 DEF Awaiting, Fields
  <2> HIDE DEF d
  <2>2. Snapshot(d)
    BY <1>1, <2>1 DEF Awaiting, Snapshot
  <2> QED
    BY <1>1, <2>1, <2>2 DEF Awaiting
<1>4. Awaiting(NextPass(c))
  BY <1>1, NextReads
<1>5. ASSUME near # {} PROVE Awaiting(Got(c, c.cur, cache[c.cur][Newest(near)]))
  <2>1. On[c.txn] \in Nat /\ near \in SUBSET Nat /\ \A b \in near : b <= On[c.txn]
    BY <1>1, DaysAre DEF Nearest
  <2>2. Newest(near) \in near
    <3> HIDE DEF near
    <3> QED
      BY <1>5, <2>1, GreatestDay
  <2>3. cache[c.cur][Newest(near)] \in Nat \ {0}
    BY <1>1, <2>2, CachedRate DEF Nearest
  <2> QED
    BY <1>1, <2>3, GotReads
<1> QED
  BY <1>1, <1>2, <1>3, <1>4, <1>5, PassReads

LEMMA FetchAnswersStep ==
  ASSUME MoneyInv, NEW w \in Workers, FetchAnswers(w)
  PROVE  MoneyInv'
<1> DEFINE c == pass[w]
           days == ServedDays(On[c.txn], out)
           b == Newest(days)
           d == [c EXCEPT !.at = "keep", !.served = b]
<1>1. /\ Awaiting(c) /\ c.at = "fetch" /\ Calendar /\ c.cur \in Foreign
      /\ UNCHANGED <<leg, cache, worth, clock, marks>>
      /\ On[c.txn] \in Days /\ days # {}
  BY Looking DEF FetchAnswers, Awaiting
<1>2. \/ Go(w, Got(c, c.cur, Published[c.cur][b]))
      \/ ~Provisional(On[c.txn], b) /\ Go(w, d)
  BY DEF FetchAnswers
<1>3. b \in Business
  BY <1>1, ServedIs
<1>4. Awaiting(Got(c, c.cur, Published[c.cur][b]))
  <2>1. Published[c.cur][b] \in Nat \ {0}
    BY <1>1, <1>3, DaysAre
  <2> QED
    BY <1>1, <2>1, GotReads
<1>5. ASSUME ~Provisional(On[c.txn], b) PROVE Awaiting(d)
  <2>1. /\ DOMAIN d = Fields /\ d.at = "keep" /\ d.kind = c.kind /\ d.txn = c.txn
        /\ d.seen = c.seen /\ d.rates = c.rates /\ d.cur = c.cur /\ d.served = b
    BY <1>1 DEF Awaiting, Fields
  <2>2. Published[c.cur][b] = Final(c.cur, On[c.txn])
    BY <1>1, <1>5, KeptIsFinal
  <2> HIDE DEF d, b
  <2>3. Snapshot(d)
    BY <1>1, <2>1 DEF Awaiting, Snapshot
  <2> QED
    BY <1>1, <1>3, <2>1, <2>2, <2>3 DEF Awaiting
<1> QED
  BY <1>1, <1>2, <1>4, <1>5, PassReads

LEMMA KeepRateStep ==
  ASSUME MoneyInv, NEW w \in Workers, KeepRate(w)
  PROVE  MoneyInv'
<1> DEFINE c == pass[w]
           d == On[c.txn]
           r == Published[c.cur][c.served]
<1>1. /\ Awaiting(c) /\ c.at = "keep" /\ Tables /\ c.cur \in Foreign
      /\ c.served \in Business /\ r = Final(c.cur, d)
      /\ UNCHANGED <<leg, worth, clock, marks>>
      /\ d \in Days /\ FrozenRatesAreFinal
  BY Looking DEF KeepRate, Awaiting
<1>2. /\ cache' = [cache EXCEPT ![c.cur][d] = IF cache[c.cur][d] = Null THEN r
                                              ELSE cache[c.cur][d]]
      /\ Go(w, Got(c, c.cur, r))
  BY DEF KeepRate
<1>3. r \in Nat \ {0}
  BY <1>1, DaysAre
<1>4. Awaiting(Got(c, c.cur, r))
  BY <1>1, <1>3, GotReads
<1>5. (\A t \in Purchases : Stays(t)) /\ Remembered /\ (Books => Books')
  BY <1>1, LegsRest
<1>6. DOMAIN pass' = Workers /\ \A v \in Workers : Awaiting(pass[v])'
  BY <1>1, <1>2, <1>4, <1>5, CallMoves
<1>7. Books'
  BY <1>5, Looking
<1>8. Calendar'
  BY <1>1, Looking DEF Calendar, clock
<1>9. Tables' /\ FrozenRatesAreFinal'
  <2>1. cache \in [Foreign -> [Days -> Nat \cup {Null}]]
    BY <1>1 DEF Tables, RateCache
  <2>2. \A x \in Foreign, e \in Days :
          cache'[x][e] = IF x = c.cur /\ e = d /\ cache[x][e] = Null THEN r ELSE cache[x][e]
    BY <1>1, <1>2, <2>1
  <2>3. cache' \in RateCache
    BY <1>1, <1>2, <1>3, <2>1 DEF RateCache
  <2> HIDE DEF c, d, r
  <2>4. Tables'
    BY <1>1, <1>3, <2>2, <2>3 DEF Tables, marks
  <2>5. FrozenRatesAreFinal'
    BY <1>1, <2>2 DEF FrozenRatesAreFinal
  <2> QED
    BY <2>4, <2>5
<1> QED
  BY <1>6, <1>7, <1>8, <1>9 DEF MoneyInv

----------------------------------------------------------------------------
LEMMA OneBook ==
  ASSUME Books, NEW t \in Purchases, NEW ls, leg' = [leg EXCEPT ![t] = ls], Remembered,
         Stored(ls), t \notin drafts' => LegsBalance(ls),
         t \notin reworked' => Proper(ls) /\ Even(ls),
         t \notin corrected' \cup reworked' => Entered(ls)
  PROVE  Books'
<1>1. DOMAIN leg' = Purchases /\ \A u \in Purchases : leg'[u] = IF u = t THEN ls ELSE leg[u]
  BY DEF Books
<1>2. ASSUME NEW u \in Purchases PROVE InOrder(u, leg[u])'
  <2>1. PICK ms : ms = leg'[u]
    OBVIOUS
  <2>2. /\ Stored(ms) /\ (u \notin drafts' => LegsBalance(ms))
        /\ u \notin reworked' => Proper(ms) /\ Even(ms)
        /\ u \notin corrected' \cup reworked' => Entered(ms)
    <3>1. CASE u = t
      BY <1>1, <2>1, <3>1
    <3>2. CASE u # t
      BY <1>1, <2>1, <3>2 DEF Books, InOrder, Remembered
    <3> QED
      BY <3>1, <3>2
  <2> QED
    BY <2>1, <2>2 DEF InOrder, Stored, Proper, Even, Entered, LegsBalance, BaseSum, MinorSum, InCur
<1> QED
  BY <1>1, <1>2 DEF Books

LEMMA OneStays ==
  ASSUME Books, NEW t \in Purchases, NEW ls, leg' = [leg EXCEPT ![t] = ls],
         DOMAIN leg[t] # {} =>
           /\ DOMAIN ls # {}
           /\ t \notin reworked' =>
                /\ Agree(leg[t], ls)
                /\ t \notin corrected' => SameMinor(leg[t], ls)
  PROVE  \A u \in Purchases : Stays(u)
<1>1. DOMAIN leg' = Purchases /\ \A u \in Purchases : leg'[u] = IF u = t THEN ls ELSE leg[u]
  BY DEF Books
<1> SUFFICES ASSUME NEW u \in Purchases PROVE Stays(u)
  OBVIOUS
<1>2. CASE u = t
  BY <1>1, <1>2 DEF Stays
<1>3. CASE u # t
  BY <1>1, <1>3 DEF Stays, Agree, SameMinor
<1> QED
  BY <1>2, <1>3

\* Even legs balance.
LEMMA EvenBalances ==
  ASSUME NEW ls, Stored(ls), Even(ls)
  PROVE  LegsBalance(ls)
<1>1. PICK a, b : a = BaseSum(ls, Foreign) /\ b = BaseSum(ls, Points)
  OBVIOUS
<1>2. a \in Int /\ b \in Int
  BY <1>1, Parts
<1>3. a + b = 0 /\ BaseSum(ls, {BaseCurrency}) = 0
  BY <1>1 DEF Even
<1>4. AddUp([l \in DOMAIN ls |-> ls[l].base]) = a + b + 0
  BY <1>1, <1>3, TotalIs
<1>5. a + b + 0 = 0
  BY <1>2, <1>3
<1> QED
  BY <1>4, <1>5 DEF LegsBalance

LEMMA ReadyIsRated ==
  ASSUME NEW c, Awaiting(c), c.at = "lookup", Missing(c) = {}
  PROVE  /\ Rated(c)
         /\ \A l \in Legs(c.seen, c.kind) : c.rates[c.seen[l].cur] = 0
                                              => c.seen[l].cur \in Points
<1>1. \A l \in Legs(c.seen, c.kind) : c.seen[l].cur \in DOMAIN c.rates
  BY DEF Missing, Kinds
<1> QED
  BY <1>1 DEF Awaiting, Rated, Snapshot

\* Two sums, one of which is as it was, are both as they were.
LEMMA MakesUp ==
  ASSUME NEW a \in Int, NEW b \in Int, NEW x \in Int, NEW y \in Int,
         a + b + 0 = 0, x + y = 0, a = x \/ b = y
  PROVE  a = x /\ b = y
  OBVIOUS

\* What the write of a pass makes of the legs.
LEMMA WrittenFits ==
  ASSUME NEW c, Rated(c), NEW old, old = leg[c.txn], Stored(old),
         NEW f, f = Settled(c), NEW new, new = Written(c, f)
  PROVE  /\ DOMAIN new = DOMAIN old /\ Stored(new)
         /\ \A l \in DOMAIN old : new[l].cur = old[l].cur /\ new[l].minor = old[l].minor
         /\ \A l \in DOMAIN old \cap Legs(c.seen, c.kind) :
              new[l].base = f[l] /\ new[l].rate = c.rates[c.seen[l].cur]
         /\ \A l \in DOMAIN old \ Legs(c.seen, c.kind) : new[l] = old[l]
<1> DEFINE mine == Legs(c.seen, c.kind)
<1>1. /\ DOMAIN new = DOMAIN old
      /\ \A l \in DOMAIN old \cap mine :
           new[l] = [old[l] EXCEPT !.rate = c.rates[c.seen[l].cur], !.base = f[l]]
      /\ \A l \in DOMAIN old \ mine : new[l] = old[l]
  BY DEF Written
<1>2. \A l \in mine : f[l] \in Int /\ c.rates[c.seen[l].cur] \in Nat
  BY SettledFits DEF Rated
<1>3. \A l \in DOMAIN old : old[l] \in Posting
  BY DEF Stored
<1> HIDE DEF mine
<1>4. ASSUME NEW l \in DOMAIN old \cap mine
      PROVE  /\ new[l] \in Posting /\ new[l].cur = old[l].cur
             /\ new[l].minor = old[l].minor /\ new[l].base = f[l]
             /\ new[l].rate = c.rates[c.seen[l].cur]
  <2>1. PICK r : r = c.rates[c.seen[l].cur]
    OBVIOUS
  <2>2. PICK y : y = f[l]
    OBVIOUS
  <2>3. new[l] = [old[l] EXCEPT !.rate = r, !.base = y] /\ r \in Nat /\ y \in Int
    BY <1>1, <1>2, <2>1, <2>2
  <2>4. PICK o : o = old[l]
    OBVIOUS
  <2>5. PICK z : z = new[l]
    OBVIOUS
  <2>6. o \in Posting /\ z = [o EXCEPT !.rate = r, !.base = y]
    BY <1>3, <2>3, <2>4, <2>5
  <2>7. z \in Posting /\ z.cur = o.cur /\ z.minor = o.minor /\ z.base = y /\ z.rate = r
    <3>1. o = [cur |-> o.cur, minor |-> o.minor, rate |-> o.rate, base |-> o.base]
          /\ o.cur \in Currencies /\ o.minor \in Int
      BY <2>6 DEF Posting
    <3>2. z = [cur |-> o.cur, minor |-> o.minor, rate |-> r, base |-> y]
      BY <2>6, <3>1
    <3>3. r \in Int \cup {Null} /\ y \in Int
      BY <2>3
    <3> QED
      BY <3>1, <3>2, <3>3 DEF Posting
  <2> QED
    BY <2>1, <2>2, <2>4, <2>5, <2>7
<1>5. Stored(new)
  BY <1>1, <1>3, <1>4 DEF Stored
<1> QED
  BY <1>1, <1>4, <1>5 DEF mine

\* Where no person reworked the legs, the trigger sees to it that those of the
\* pass make up for the others, and these are off by what they were before.
LEMMA WrittenEven ==
  ASSUME NEW c, Rated(c), NEW t, t = c.txn, NEW old, old = leg[t],
         NEW f, f = Settled(c), NEW new, new = Written(c, f),
         Stored(old), Proper(old), Even(old), t \notin corrected => Entered(old),
         Agree(c.seen, old), t \notin corrected => SameMinor(c.seen, old),
         LegsBalance(new),
         \A l \in Legs(c.seen, c.kind) : c.rates[c.seen[l].cur] = 0
                                           => c.seen[l].cur \in Points
  PROVE  /\ Proper(new) /\ Even(new) /\ (t \notin corrected => Entered(new))
         /\ Agree(old, new) /\ SameMinor(old, new)
<1> DEFINE mine == Legs(c.seen, c.kind)
           n == Cardinality(DOMAIN old)
<1>2. /\ c.kind \in {"fx", "points"} /\ \A l \in mine : c.rates[c.seen[l].cur] \in Nat
      /\ Stored(c.seen)
  BY DEF Rated
<1>3. /\ DOMAIN c.seen = DOMAIN old /\ \A l \in DOMAIN old : c.seen[l].cur = old[l].cur
      /\ t \notin corrected => \A l \in DOMAIN old : c.seen[l].minor = old[l].minor
      /\ \A S \in {Foreign, Points, {BaseCurrency}} : BaseSum(c.seen, S) = BaseSum(old, S)
  BY DEF Agree, SameMinor
<1>4. \A S : InCur(c.seen, S) = InCur(old, S)
  BY <1>3 DEF InCur
<1>5. mine = InCur(old, Mine(c.kind)) /\ mine \subseteq DOMAIN old
  BY <1>4, OffIs DEF InCur
<1>6. /\ DOMAIN new = DOMAIN old /\ Stored(new)
      /\ \A l \in DOMAIN old : new[l].cur = old[l].cur /\ new[l].minor = old[l].minor
      /\ \A l \in mine : new[l].base = f[l] /\ new[l].rate = c.rates[c.seen[l].cur]
      /\ \A l \in DOMAIN old \ mine : new[l] = old[l]
  BY <1>5, WrittenFits
<1>7. \A l \in mine : f[l] \in Int
  BY SettledFits
<1>8. \A l \in mine : old[l].cur # BaseCurrency /\ c.seen[l].cur = old[l].cur
  BY <1>2, <1>3, <1>5, Currency DEF InCur
<1>9. \A l \in DOMAIN old : new[l].cur = old[l].cur /\ new[l].minor = old[l].minor
  BY <1>6
<1> HIDE DEF mine
<1>10. Proper(new)
  <2> SUFFICES ASSUME NEW l \in DOMAIN new
               PROVE  /\ new[l].rate \in Nat \cup {Null}
                      /\ new[l].cur = BaseCurrency => new[l].rate = Null
                      /\ new[l].rate = 0 => new[l].cur \in Points
    BY DEF Proper
  <2>1. CASE l \in mine
    <3>1. /\ new[l].rate = c.rates[c.seen[l].cur] /\ new[l].cur = c.seen[l].cur
          /\ new[l].cur # BaseCurrency
      BY <1>6, <1>8, <2>1
    <3>2. new[l].rate = 0 => new[l].cur \in Points
      BY <2>1, <3>1 DEF mine
    <3> QED
      BY <1>2, <2>1, <3>1, <3>2
  <2>2. CASE l \notin mine
    BY <1>6, <2>2 DEF Proper
  <2> QED
    BY <2>1, <2>2
<1>11. /\ \A S : InCur(new, S) = InCur(old, S)
       /\ \A S : (\A l \in InCur(new, S) : new[l].base = old[l].base)
                   => BaseSum(new, S) = BaseSum(old, S)
       /\ \A x : MinorSum(new, x) = MinorSum(old, x)
  <2>1. DOMAIN new = DOMAIN old /\ \A l \in DOMAIN new : new[l].cur = old[l].cur
    BY <1>6, <1>9
  <2>2. \A l \in DOMAIN new : new[l].minor = old[l].minor
    BY <1>6, <1>9
  <2> QED
    BY <2>1, <2>2, SameSums
<1>12. \A S : S \cap Mine(c.kind) = {} => BaseSum(new, S) = BaseSum(old, S)
  <2> SUFFICES ASSUME NEW S, S \cap Mine(c.kind) = {}
               PROVE  BaseSum(new, S) = BaseSum(old, S)
    OBVIOUS
  <2>1. \A l \in InCur(old, S) : l \in DOMAIN old \ mine
    BY <1>5 DEF InCur
  <2> QED
    BY <1>6, <1>11, <2>1
<1>13. BaseSum(new, Foreign) + BaseSum(new, Points) + BaseSum(new, {BaseCurrency}) = 0
  BY <1>6, TotalIs DEF LegsBalance
<1>14. \A S \in {Foreign, Points, {BaseCurrency}} : BaseSum(new, S) = BaseSum(old, S)
  <2>1. /\ BaseSum(new, Foreign) \in Int /\ BaseSum(old, Foreign) \in Int
        /\ BaseSum(new, Points) \in Int /\ BaseSum(old, Points) \in Int
    BY <1>6, Parts
  <2>2. /\ BaseSum(old, {BaseCurrency}) = 0
        /\ BaseSum(old, Foreign) + BaseSum(old, Points) = 0
    BY DEF Even
  <2>3. BaseSum(new, {BaseCurrency}) = BaseSum(old, {BaseCurrency})
    BY <1>2, <1>12, Currency
  <2>4. \/ BaseSum(new, Foreign) = BaseSum(old, Foreign)
        \/ BaseSum(new, Points) = BaseSum(old, Points)
    BY <1>2, <1>12, Currency
  <2>5. /\ BaseSum(new, Foreign) = BaseSum(old, Foreign)
        /\ BaseSum(new, Points) = BaseSum(old, Points)
    <3>1. BaseSum(new, {BaseCurrency}) = 0
      BY <2>2, <2>3
    <3>2. BaseSum(new, Foreign) + BaseSum(new, Points) + 0 = 0
      BY <1>13, <3>1
    <3>3. PICK a, b : a = BaseSum(new, Foreign) /\ b = BaseSum(new, Points)
      OBVIOUS
    <3>4. PICK x, y : x = BaseSum(old, Foreign) /\ y = BaseSum(old, Points)
      OBVIOUS
    <3>5. /\ a \in Int /\ b \in Int /\ x \in Int /\ y \in Int
          /\ a + b + 0 = 0 /\ x + y = 0 /\ (a = x \/ b = y)
      BY <2>1, <2>2, <2>4, <3>2, <3>3, <3>4
    <3>6. a = x /\ b = y
      BY <3>5, MakesUp
    <3> QED
      BY <3>3, <3>4, <3>6
  <2> QED
    BY <2>3, <2>5
<1>15. Even(new)
  BY <1>3, <1>11, <1>14 DEF Even
<1>16. ASSUME t \notin corrected PROVE Entered(new)
  <2>1. Entered(old) /\ \A l \in DOMAIN old : c.seen[l].minor = old[l].minor
    BY <1>3, <1>16
  <2>2. \A x : MinorSum(c.seen, x) = MinorSum(old, x)
    BY <1>3, <2>1, SameSums
  <2>3. Even(c.seen) /\ \A x \in Currencies : MinorSum(c.seen, x) = 0
    BY <1>3, <1>4, <2>1, <2>2 DEF Even, Entered
  <2>4. ASSUME NEW l \in mine PROVE Faithful(new[l], Cardinality(DOMAIN new))
    <3> DEFINE m == c.seen[l].minor * c.rates[c.seen[l].cur]
               b == (Cardinality(DOMAIN old) + 1) * Scale
    <3>1. Within(2 * (f[l] * Scale - m), b)
      BY <1>2, <1>3, <2>3, SettledFits DEF mine
    <3>2. c.seen[l].minor \in Int /\ Cardinality(DOMAIN old) \in Nat /\ l \in DOMAIN old
      BY <1>2, <1>3, <1>5, Parts DEF Rated
    <3>3. m \in Int /\ b \in Int
      BY <1>2, <3>2, Scales
    <3>4. new[l].base * Scale - new[l].minor * new[l].rate = f[l] * Scale - m
      BY <1>6, <1>8, <2>1, <3>2
    <3>5. f[l] * Scale - m \in Int
      BY <1>7, <3>3, Scales
    <3> HIDE DEF m, b
    <3>6. 2 * Size(f[l] * Scale - m) <= b
      BY <3>1, <3>3, <3>5, Sizes
    <3> QED
      BY <1>6, <3>4, <3>6 DEF Faithful, b
  <2>5. \A l \in DOMAIN new : new[l].rate # Null => Faithful(new[l], Cardinality(DOMAIN new))
    BY <1>6, <2>1, <2>4 DEF Entered
  <2> QED
    BY <1>11, <2>1, <2>5 DEF Entered
<1>17. Agree(old, new) /\ SameMinor(old, new)
  BY <1>6, <1>14 DEF Agree, SameMinor
<1> QED
  BY <1>10, <1>15, <1>16, <1>17

LEMMA WriteLegsStep ==
  ASSUME MoneyInv, NEW w \in Workers, WriteLegs(w)
  PROVE  MoneyInv'
<1>1. PICK c : c = pass[w]
  OBVIOUS
<1>2. PICK t : t = c.txn
  OBVIOUS
<1>3. PICK old : old = leg[t]
  OBVIOUS
<1>4. PICK new : new = Written(c, Settled(c))
  OBVIOUS
<1>5. /\ Awaiting(c) /\ c.at = "lookup" /\ Missing(c) = {} /\ Books
      /\ Commits(t, new) /\ leg' = [leg EXCEPT ![t] = new] /\ Go(w, NextPass(c))
      /\ UNCHANGED <<cache, worth, clock, marks>>
  BY <1>1, <1>2, <1>4, Looking DEF WriteLegs, Ready
<1>6. /\ Rated(c) /\ t \in Purchases /\ Snapshot(c) /\ DOMAIN old # {}
      /\ \A l \in Legs(c.seen, c.kind) : c.rates[c.seen[l].cur] = 0
                                            => c.seen[l].cur \in Points
  BY <1>2, <1>3, <1>5, ReadyIsRated DEF Awaiting
<1>7. InOrder(t, old) /\ Remembered /\ drafts \subseteq reworked
      /\ drafts' = drafts /\ corrected' = corrected /\ reworked' = reworked
  BY <1>3, <1>5, <1>6 DEF Books, Remembered, marks, MoneyInv, Tables
<1>8. DOMAIN new = DOMAIN old /\ Stored(new)
  BY <1>2, <1>3, <1>4, <1>6, <1>7, WrittenFits DEF InOrder
<1>9. t \notin drafts => LegsBalance(new)
  BY <1>5 DEF Commits
<1>10. ASSUME t \notin reworked
       PROVE  /\ Proper(new) /\ Even(new) /\ (t \notin corrected => Entered(new))
              /\ Agree(old, new) /\ SameMinor(old, new)
  <2>1. /\ Stored(old) /\ Proper(old) /\ Even(old) /\ (t \notin corrected => Entered(old))
        /\ LegsBalance(new)
    BY <1>7, <1>9, <1>10 DEF InOrder
  <2>2. Agree(c.seen, old) /\ (t \notin corrected => SameMinor(c.seen, old))
    BY <1>2, <1>3, <1>6, <1>10 DEF Snapshot
  <2> QED
    BY <1>2, <1>3, <1>4, <1>6, <2>1, <2>2, WrittenEven
<1>11. Books'
  <2>1. t \notin reworked' => Proper(new) /\ Even(new)
    BY <1>7, <1>10
  <2>2. t \notin corrected' \cup reworked' => Entered(new)
    BY <1>7, <1>10
  <2> QED
    BY <1>5, <1>6, <1>7, <1>8, <1>9, <2>1, <2>2, OneBook
<1>12. \A u \in Purchases : Stays(u)
  BY <1>3, <1>5, <1>6, <1>7, <1>8, <1>10, OneStays
<1>13. Awaiting(NextPass(c))
  BY <1>5, NextReads
<1>14. DOMAIN pass' = Workers /\ \A v \in Workers : Awaiting(pass[v])'
  BY <1>5, <1>7, <1>12, <1>13, CallMoves
<1>15. Calendar' /\ Tables' /\ FrozenRatesAreFinal'
  BY <1>5, Looking DEF Calendar, Tables, FrozenRatesAreFinal, clock, marks
<1> QED
  BY <1>11, <1>14, <1>15 DEF MoneyInv

LEMMA WriteRefusedStep ==
  ASSUME MoneyInv, NEW w \in Workers, WriteRefused(w)
  PROVE  MoneyInv'
<1>1. Awaiting(pass[w]) /\ pass[w].at = "lookup" /\ Go(w, NextPass(pass[w]))
  BY Looking DEF WriteRefused, Ready
<1> QED
  BY <1>1, NextReads, PassReads DEF WriteRefused

----------------------------------------------------------------------------
\* The legs of a receipt: each currency balances.
LEMMA FromReceipt ==
  ASSUME NEW r \in Receipts, NEW ls, DOMAIN ls = DOMAIN r,
         \A l \in DOMAIN r : ls[l].cur = r[l].cur /\ ls[l].minor = r[l].minor
  PROVE  /\ IsFiniteSet(DOMAIN ls) /\ DOMAIN ls \subseteq Int
         /\ \A l \in DOMAIN ls : ls[l].cur \in Currencies /\ ls[l].minor \in Int
         /\ \A c \in Currencies : MinorSum(ls, c) = 0
<1>1. /\ IsFiniteSet(DOMAIN r) /\ DOMAIN r \subseteq Int
      /\ \A l \in DOMAIN r : r[l] \in [cur : Currencies, minor : Int]
      /\ \A c \in Currencies : AddUp([l \in {x \in DOMAIN r : r[x].cur = c} |-> r[l].minor]) = 0
  BY MoneyAssumption DEF MoneyAssumption
<1>2. \A c : MinorSum(r, c) = AddUp([l \in {x \in DOMAIN r : r[x].cur = c} |-> r[l].minor])
  <2> SUFFICES ASSUME NEW c
               PROVE  MinorSum(r, c) = AddUp([l \in {x \in DOMAIN r : r[x].cur = c} |-> r[l].minor])
    OBVIOUS
  <2>1. InCur(r, {c}) = {x \in DOMAIN r : r[x].cur = c}
    BY DEF InCur
  <2> QED
    BY <2>1 DEF MinorSum
<1>3. \A c : MinorSum(ls, c) = MinorSum(r, c)
  <2>1. DOMAIN ls = DOMAIN r /\ (\A l \in DOMAIN ls : ls[l].cur = r[l].cur)
        /\ \A l \in DOMAIN ls : ls[l].minor = r[l].minor
    OBVIOUS
  <2> QED
    BY <2>1, SameSums
<1> QED
  BY <1>1, <1>2, <1>3

\* What is worth nothing to begin with is even.
LEMMA AsWritten ==
  ASSUME NEW ls, Stored(ls), \A l \in DOMAIN ls : ls[l].base = ls[l].minor,
         \A c \in Currencies : MinorSum(ls, c) = 0
  PROVE  Even(ls)
<1>1. ASSUME NEW S \in SUBSET Currencies PROVE BaseSum(ls, S) = 0
  <2>1. \A c \in S : SumOn(MinorOf(ls), InCur(ls, {c})) = 0
    BY <1>1, MinorParts
  <2>2. \A l \in InCur(ls, S) : MinorOf(ls)[l] \in Int
    BY Parts
  <2>3. SumOn(MinorOf(ls), InCur(ls, S)) = 0
    BY <2>1, <2>2, ByCurrency
  <2>4. \A l \in InCur(ls, S) : BaseOf(ls)[l] = MinorOf(ls)[l]
    BY Parts
  <2>5. IsFiniteSet(InCur(ls, S))
    BY Parts
  <2>6. SumOn(BaseOf(ls), InCur(ls, S)) = SumOn(MinorOf(ls), InCur(ls, S))
    BY <2>4, <2>5, SumSame
  <2> QED
    BY <2>3, <2>6, Parts
<1>2. BaseSum(ls, Foreign) = 0 /\ BaseSum(ls, Points) = 0 /\ BaseSum(ls, {BaseCurrency}) = 0
  BY <1>1, Currency
<1>3. Cardinality(InCur(ls, Foreign)) \in Nat /\ Cardinality(InCur(ls, Points)) \in Nat
  BY Parts
<1>4. 0 + 0 = 0 /\ \A n \in Nat : 2 * Size(0) <= n
  BY DEF Size
<1> QED
  BY <1>2, <1>3, <1>4 DEF Even

\* A transaction that was not there before is entered.
LEMMA NewBook ==
  ASSUME MoneyInv, NEW t \in Purchases, DOMAIN leg[t] = {}, NEW ls,
         leg' = [leg EXCEPT ![t] = ls], Stored(ls), Proper(ls), Even(ls), Entered(ls),
         UNCHANGED <<cache, worth, pass, clock, marks>>
  PROVE  MoneyInv'
<1>1. Books /\ Calendar /\ Tables /\ FrozenRatesAreFinal /\ Remembered
  BY DEF MoneyInv, Remembered, marks
<1>2. Books'
  BY <1>1, EvenBalances, OneBook
<1>3. \A u \in Purchases : Stays(u)
  BY <1>1, OneStays
<1>4. DOMAIN pass' = Workers /\ \A v \in Workers : Awaiting(pass[v])'
  BY <1>1, <1>3, CallsRest
<1>5. Calendar' /\ Tables' /\ FrozenRatesAreFinal'
  BY <1>1 DEF Calendar, Tables, FrozenRatesAreFinal, clock, marks
<1> QED
  BY <1>2, <1>4, <1>5 DEF MoneyInv

LEMMA AgentWritesStep ==
  ASSUME MoneyInv, NEW t \in Purchases, AgentWrites(t)
  PROVE  MoneyInv'
<1>1. PICK r \in Receipts :
        leg' = [leg EXCEPT ![t] = [l \in DOMAIN r |->
                  [cur |-> r[l].cur, minor |-> r[l].minor,
                   rate |-> Null, base |-> r[l].minor]]]
  BY DEF AgentWrites
<1> DEFINE ls == [l \in DOMAIN r |-> [cur |-> r[l].cur, minor |-> r[l].minor,
                                      rate |-> Null, base |-> r[l].minor]]
<1>2. /\ DOMAIN ls = DOMAIN r
      /\ \A l \in DOMAIN r :
           /\ ls[l].cur = r[l].cur /\ ls[l].minor = r[l].minor
           /\ ls[l].rate = Null /\ ls[l].base = r[l].minor
           /\ ls[l] = [cur |-> r[l].cur, minor |-> r[l].minor,
                       rate |-> Null, base |-> r[l].minor]
  OBVIOUS
<1>3. leg' = [leg EXCEPT ![t] = ls]
  BY <1>1
<1> HIDE DEF ls
<1>4. /\ IsFiniteSet(DOMAIN ls) /\ DOMAIN ls \subseteq Int
      /\ \A l \in DOMAIN ls : ls[l].cur \in Currencies /\ ls[l].minor \in Int
      /\ \A c \in Currencies : MinorSum(ls, c) = 0
  BY <1>2, FromReceipt
<1>5. Stored(ls) /\ Proper(ls)
  <2>1. \A l \in DOMAIN ls : ls[l] \in Posting
    BY <1>2, <1>4 DEF Posting
  <2>2. Null # 0
    BY DaysAre
  <2> QED
    BY <1>2, <1>4, <2>1, <2>2 DEF Stored, Proper
<1>6. Even(ls)
  BY <1>2, <1>4, <1>5, AsWritten
<1>7. Entered(ls)
  BY <1>2, <1>4 DEF Entered
<1> QED
  BY <1>3, <1>5, <1>6, <1>7, NewBook DEF AgentWrites

\* Legs that people send are stored as postings.
Sendable == [cur : Currencies, minor : Int, rate : HandRates \cup {Null}, base : Int \cup {Null}]

LEMMA EntriesAre ==
  /\ Spare \subseteq Int /\ HandRates \subseteq Int
  /\ \A e \in Entries : /\ IsFiniteSet(DOMAIN e) /\ DOMAIN e \subseteq Int /\ DOMAIN e # {}
                        /\ \A l \in DOMAIN e : e[l] \in Sendable
  BY MoneyAssumption DEF MoneyAssumption, Sendable

LEMMA PricedFits ==
  ASSUME Tables, NEW t \in Purchases, NEW p \in Sendable, Acceptable(p)
  PROVE  Priced(t, p) \in Posting
<1>1. /\ p.cur \in Currencies /\ p.minor \in Int
      /\ p.rate \in Int \cup {Null} /\ p.base \in Int \cup {Null}
  BY EntriesAre DEF Sendable
<1>2. PICK q : q = Priced(t, p)
  OBVIOUS
<1>3. PICK v : v = ValuedAt(p.cur, t)
  OBVIOUS
<1>4. PICK b : b = Round(p.minor * v)
  OBVIOUS
<1>5. q = [cur |-> p.cur, minor |-> p.minor,
           rate |-> IF p.cur = BaseCurrency THEN Null ELSE IF Given(p) THEN p.rate ELSE v,
           base |-> IF p.cur = BaseCurrency THEN IF p.base = Null THEN p.minor ELSE p.base
                    ELSE IF Given(p) THEN p.base ELSE b]
  BY <1>2, <1>3, <1>4 DEF Priced
<1>6. p.cur # BaseCurrency /\ ~Given(p) => v \in Int /\ b \in Int
  <2> SUFFICES ASSUME p.cur # BaseCurrency, ~Given(p) PROVE v \in Int /\ b \in Int
    OBVIOUS
  <2>1. p.cur \in Points
    BY <1>1, Currency DEF Acceptable
  <2>2. v \in Nat
    BY <1>3, <2>1, ValuedIs, DaysAre
  <2>3. p.minor * v \in Int
    BY <1>1, <2>2
  <2> QED
    BY <1>4, <2>2, <2>3, Rounds
<1>7. Given(p) => p.rate \in Int /\ p.base \in Int
  BY <1>1 DEF Given
<1>8. PICK r : r = IF p.cur = BaseCurrency THEN Null ELSE IF Given(p) THEN p.rate ELSE v
  OBVIOUS
<1>9. PICK a : a = IF p.cur = BaseCurrency THEN IF p.base = Null THEN p.minor ELSE p.base
                   ELSE IF Given(p) THEN p.base ELSE b
  OBVIOUS
<1>10. r \in Int \cup {Null} /\ a \in Int
  BY <1>1, <1>6, <1>7, <1>8, <1>9
<1>11. q = [cur |-> p.cur, minor |-> p.minor, rate |-> r, base |-> a]
  BY <1>5, <1>8, <1>9
<1> QED
  BY <1>1, <1>2, <1>10, <1>11 DEF Posting

\* What people make of the legs: the trigger sees that they balance, and no
\* more is said of them.
LEMMA ByPeople ==
  ASSUME MoneyInv, NEW t \in Purchases, NEW ls, leg' = [leg EXCEPT ![t] = ls],
         Stored(ls), DOMAIN ls # {}, t \notin drafts' => LegsBalance(ls),
         drafts \subseteq drafts', drafts' \subseteq drafts \cup {t},
         reworked' = reworked \cup {t}, UNCHANGED <<cache, worth, pass, clock, corrected>>
  PROVE  MoneyInv'
<1>1. Books /\ Calendar /\ Tables /\ FrozenRatesAreFinal /\ Remembered
  BY DEF MoneyInv, Remembered
<1>2. Books'
  BY <1>1, OneBook
<1>3. \A u \in Purchases : Stays(u)
  BY <1>1, OneStays
<1>4. DOMAIN pass' = Workers /\ \A v \in Workers : Awaiting(pass[v])'
  BY <1>1, <1>3, CallsRest
<1>5. Calendar' /\ Tables' /\ FrozenRatesAreFinal'
  BY <1>1 DEF Calendar, Tables, FrozenRatesAreFinal, clock
<1> QED
  BY <1>2, <1>4, <1>5 DEF MoneyInv

LEMMA ReworkStep ==
  ASSUME MoneyInv, NEW t \in Purchases, NEW ls, Rework(t, ls), Stored(ls), DOMAIN ls # {}
  PROVE  MoneyInv'
<1>1. t \notin drafts' => LegsBalance(ls)
  BY DEF Rework, Commits
<1> QED
  BY <1>1, ByPeople DEF Rework

LEMMA CreateByHandStep ==
  ASSUME MoneyInv, NEW t \in Purchases, CreateByHand(t)
  PROVE  MoneyInv'
<1>1. PICK e \in Entries, draft \in SUBSET {t} :
        /\ \A l \in DOMAIN e : Acceptable(e[l])
        /\ t \in draft \/ LegsBalance([l \in DOMAIN e |-> Priced(t, e[l])])
        /\ leg' = [leg EXCEPT ![t] = [l \in DOMAIN e |-> Priced(t, e[l])]]
        /\ drafts' = drafts \cup draft
  BY DEF CreateByHand
<1>2. PICK ls : ls = [l \in DOMAIN e |-> Priced(t, e[l])]
  OBVIOUS
<1>3. /\ IsFiniteSet(DOMAIN e) /\ DOMAIN e \subseteq Int /\ DOMAIN e # {}
      /\ \A l \in DOMAIN e : e[l] \in Sendable
  BY EntriesAre
<1>4. \A l \in DOMAIN e : Priced(t, e[l]) \in Posting
  BY <1>1, <1>3, PricedFits DEF MoneyInv
<1>5. Stored(ls) /\ DOMAIN ls # {}
  BY <1>2, <1>3, <1>4 DEF Stored
<1>6. t \notin drafts' => LegsBalance(ls)
  BY <1>1, <1>2
<1> QED
  BY <1>1, <1>2, <1>5, <1>6, ByPeople DEF CreateByHand

LEMMA AddLegStep ==
  ASSUME MoneyInv, NEW t \in Purchases, AddLeg(t)
  PROVE  MoneyInv'
<1>1. PICK l \in Spare, p \in UNION {{e[x] : x \in DOMAIN e} : e \in Entries} :
        /\ Acceptable(p)
        /\ Rework(t, [x \in DOMAIN leg[t] \cup {l} |->
                       IF x = l THEN Priced(t, p) ELSE leg[t][x]])
  BY DEF AddLeg
<1>2. PICK ls : ls = [x \in DOMAIN leg[t] \cup {l} |->
                       IF x = l THEN Priced(t, p) ELSE leg[t][x]]
  OBVIOUS
<1>3. p \in Sendable
  BY <1>1, EntriesAre
<1>4. Priced(t, p) \in Posting
  BY <1>1, <1>3, PricedFits DEF MoneyInv
<1>5. Stored(leg[t])
  BY DEF MoneyInv, Books, InOrder
<1>6. IsFiniteSet(DOMAIN leg[t] \cup {l}) /\ l \in Int
  BY <1>1, <1>5, EntriesAre, FS_AddElement DEF Stored
<1>7. Stored(ls) /\ DOMAIN ls # {}
  BY <1>2, <1>4, <1>5, <1>6 DEF Stored
<1> QED
  BY <1>1, <1>2, <1>7, ReworkStep

LEMMA DropLegStep ==
  ASSUME MoneyInv, NEW t \in Purchases, DropLeg(t)
  PROVE  MoneyInv'
<1>1. PICK l \in DOMAIN leg[t] : Rework(t, [x \in DOMAIN leg[t] \ {l} |-> leg[t][x]])
  BY DEF DropLeg
<1>2. PICK ls : ls = [x \in DOMAIN leg[t] \ {l} |-> leg[t][x]]
  OBVIOUS
<1>3. Stored(leg[t]) /\ Cardinality(DOMAIN leg[t]) > 1
  <2>1. Stored(leg[t])
    BY DEF MoneyInv, Books, InOrder
  <2>2. Cardinality(DOMAIN leg[t]) \in Nat
    BY <2>1, FS_CardinalityType DEF Stored
  <2> QED
    BY <2>1, <2>2 DEF DropLeg
<1>4. IsFiniteSet(DOMAIN leg[t] \ {l}) /\ DOMAIN leg[t] \ {l} # {}
  <2>1. /\ IsFiniteSet(DOMAIN leg[t] \ {l})
        /\ Cardinality(DOMAIN leg[t] \ {l}) = Cardinality(DOMAIN leg[t]) - 1
        /\ Cardinality(DOMAIN leg[t]) \in Nat
    BY <1>3, FS_RemoveElement, FS_CardinalityType DEF Stored
  <2>2. Cardinality(DOMAIN leg[t] \ {l}) # 0
    BY <1>3, <2>1
  <2> QED
    BY <2>1, <2>2, FS_EmptySet
<1>5. Stored(ls) /\ DOMAIN ls # {}
  BY <1>2, <1>3, <1>4 DEF Stored
<1> QED
  BY <1>1, <1>2, <1>5, ReworkStep

\* A leg that is patched.
LEMMA OneLeg ==
  ASSUME NEW ls, Stored(ls), NEW l \in DOMAIN ls, NEW p \in Posting
  PROVE  Stored([ls EXCEPT ![l] = p]) /\ DOMAIN [ls EXCEPT ![l] = p] # {}
  BY DEF Stored

LEMMA PatchLegStep ==
  ASSUME MoneyInv, NEW t \in Purchases, PatchLeg(t)
  PROVE  MoneyInv'
<1>1. PICK l \in DOMAIN leg[t] :
        \/ \E c \in Currencies : Rework(t, [leg[t] EXCEPT ![l].cur = c])
        \/ \E r \in HandRates : Rework(t, [leg[t] EXCEPT ![l].rate = r])
        \/ Rework(t, [leg[t] EXCEPT ![l].base = @ + 1])
  BY DEF PatchLeg
<1>2. PICK ls : ls = leg[t]
  OBVIOUS
<1>3. PICK q : q = ls[l]
  OBVIOUS
<1>4. Stored(ls) /\ l \in DOMAIN ls /\ q \in Posting
  BY <1>2, <1>3 DEF MoneyInv, Books, InOrder, Stored
<1>5. PICK p \in Posting : Rework(t, [ls EXCEPT ![l] = p])
  <2>1. ASSUME NEW c \in Currencies, Rework(t, [leg[t] EXCEPT ![l].cur = c])
        PROVE  \E p \in Posting : Rework(t, [ls EXCEPT ![l] = p])
    <3>1. [q EXCEPT !.cur = c] \in Posting
      BY <1>4 DEF Posting
    <3> QED
      BY <1>2, <1>3, <2>1, <3>1
  <2>2. ASSUME NEW r \in HandRates, Rework(t, [leg[t] EXCEPT ![l].rate = r])
        PROVE  \E p \in Posting : Rework(t, [ls EXCEPT ![l] = p])
    <3>1. [q EXCEPT !.rate = r] \in Posting
      BY <1>4, EntriesAre DEF Posting
    <3> QED
      BY <1>2, <1>3, <2>2, <3>1
  <2>3. ASSUME Rework(t, [leg[t] EXCEPT ![l].base = @ + 1])
        PROVE  \E p \in Posting : Rework(t, [ls EXCEPT ![l] = p])
    <3>1. [q EXCEPT !.base = q.base + 1] \in Posting
      BY <1>4 DEF Posting
    <3> QED
      BY <1>2, <1>3, <2>3, <3>1
  <2> QED
    BY <1>1, <2>1, <2>2, <2>3
<1> QED
  BY <1>4, <1>5, OneLeg, ReworkStep

LEMMA CorrectAmountStep ==
  ASSUME MoneyInv, NEW t \in Purchases, CorrectAmount(t)
  PROVE  MoneyInv'
<1>1. PICK l \in DOMAIN leg[t] : leg' = [leg EXCEPT ![t][l].minor = @ + 1]
  BY DEF CorrectAmount
<1> DEFINE p == [leg[t][l] EXCEPT !.minor = @ + 1]
           ls == [leg[t] EXCEPT ![l] = p]
<1>2. /\ Books /\ corrected' = corrected \cup {t} /\ Remembered
      /\ UNCHANGED <<cache, worth, pass, clock, drafts, reworked>>
  BY DEF CorrectAmount, MoneyInv, Remembered
<1>3. leg' = [leg EXCEPT ![t] = ls]
  BY <1>1, <1>2 DEF Books
<1>4. InOrder(t, leg[t]) /\ Stored(leg[t])
  BY <1>2 DEF Books, InOrder
<1>5. /\ p \in Posting /\ p.cur = leg[t][l].cur
      /\ p.rate = leg[t][l].rate /\ p.base = leg[t][l].base
  BY <1>4 DEF Stored, Posting
<1> HIDE DEF p
<1>6. /\ DOMAIN ls = DOMAIN leg[t]
      /\ \A k \in DOMAIN leg[t] : ls[k] = IF k = l THEN p ELSE leg[t][k]
  OBVIOUS
<1> HIDE DEF ls
<1>7. \A k \in DOMAIN leg[t] : /\ ls[k] \in Posting /\ ls[k].cur = leg[t][k].cur
                               /\ ls[k].rate = leg[t][k].rate
                               /\ ls[k].base = leg[t][k].base
  BY <1>4, <1>5, <1>6 DEF Stored
<1>8. Stored(ls) /\ DOMAIN ls # {}
  BY <1>4, <1>6, <1>7 DEF Stored
<1>9. \A S : InCur(leg[t], S) = InCur(ls, S) /\ BaseSum(leg[t], S) = BaseSum(ls, S)
  <2>1. \A S : InCur(leg[t], S) \subseteq DOMAIN leg[t]
    BY DEF InCur
  <2> QED
    BY <1>6, <1>7, <2>1, SameSums
<1>10. t \notin reworked' => Proper(ls) /\ Even(ls)
  BY <1>2, <1>4, <1>6, <1>7, <1>9 DEF InOrder, Proper, Even
<1>11. t \notin drafts' => LegsBalance(ls)
  <2>1. [k \in DOMAIN leg[t] |-> leg[t][k].base] = [k \in DOMAIN ls |-> ls[k].base]
    BY <1>6, <1>7
  <2> QED
    BY <1>2, <1>4, <2>1 DEF InOrder, LegsBalance
<1>12. Books'
  BY <1>2, <1>3, <1>8, <1>10, <1>11, OneBook
<1>13. \A u \in Purchases : Stays(u)
  <2>1. Agree(leg[t], ls)
    BY <1>6, <1>7, <1>9 DEF Agree
  <2> QED
    BY <1>2, <1>3, <1>8, <2>1, OneStays
<1>14. DOMAIN pass' = Workers /\ \A v \in Workers : Awaiting(pass[v])'
  BY <1>2, <1>13, CallsRest
<1>15. Calendar' /\ Tables' /\ FrozenRatesAreFinal'
  BY <1>2 DEF MoneyInv, Calendar, Tables, FrozenRatesAreFinal, clock
<1> QED
  BY <1>12, <1>14, <1>15 DEF MoneyInv

\* Steps that touch no posting and no pass.
LEMMA Around ==
  ASSUME MoneyInv, UNCHANGED <<leg, cache, pass, marks>>, Calendar', worth' \in Valuations
  PROVE  MoneyInv'
<1>1. (\A t \in Purchases : Stays(t)) /\ Remembered /\ (Books => Books')
  BY LegsRest
<1>2. DOMAIN pass' = Workers /\ \A v \in Workers : Awaiting(pass[v])'
  BY <1>1, CallsRest
<1>3. Books' /\ Tables' /\ FrozenRatesAreFinal'
  BY <1>1 DEF MoneyInv, Tables, FrozenRatesAreFinal, marks
<1> QED
  BY <1>2, <1>3 DEF MoneyInv

LEMMA SetWorthStep == ASSUME MoneyInv, SetWorth PROVE MoneyInv'
<1>1. PICK p \in Points, d \in Days, v \in Worths : worth' = [worth EXCEPT ![p][d] = v]
  BY DEF SetWorth
<1>2. worth' \in Valuations
  BY <1>1 DEF MoneyInv, Tables, Valuations
<1>3. Calendar'
  BY DEF MoneyInv, Calendar, SetWorth, clock
<1> QED
  BY <1>2, <1>3, Around DEF SetWorth

LEMMA PublishStep == ASSUME MoneyInv, Publish PROVE MoneyInv'
<1>1. PICK b \in Business : b > out /\ b <= today /\ out' = b
                            /\ \A x \in Business : x > out => b <= x
  BY DEF Publish
<1>2. Calendar'
  <2>1. \A x \in Business : x < today - 1 => x <= b
    <3> SUFFICES ASSUME NEW x \in Business, x < today - 1 PROVE x <= b
      OBVIOUS
    <3>1. x <= out /\ out < b
      BY <1>1 DEF MoneyInv, Calendar
    <3>2. x \in Int /\ b \in Int /\ out \in Int
      BY DaysAre DEF MoneyInv, Calendar
    <3> QED
      BY <3>1, <3>2
  <2>2. today' = today /\ today \in Days
    BY DEF Publish, MoneyInv, Calendar
  <2> QED
    BY <1>1, <2>1, <2>2 DEF Calendar
<1>3. worth' \in Valuations
  BY DEF MoneyInv, Tables, Publish
<1> QED
  BY <1>2, <1>3, Around DEF Publish

LEMMA NewDayStep == ASSUME MoneyInv, NewDay PROVE MoneyInv'
<1>1. /\ today < MaxDay /\ today' = today + 1 /\ out' = out
      /\ \A b \in Business : b < today => b <= out
      /\ today \in Days /\ out \in Business \cup {-1} /\ out <= today
  BY DEF NewDay, MoneyInv, Calendar
<1>2. MaxDay \in Nat /\ today \in Nat /\ out \in Int
  BY <1>1, DaysAre, MoneyAssumption DEF MoneyAssumption
<1>3. today' \in Days /\ out' <= today'
  BY <1>1, <1>2 DEF Days
<1>4. \A b \in Business : b < today' - 1 => b <= out'
  BY <1>1, <1>2
<1>5. Calendar'
  BY <1>1, <1>3, <1>4 DEF Calendar
<1>6. worth' \in Valuations
  BY DEF MoneyInv, Tables, NewDay
<1> QED
  BY <1>5, <1>6, Around DEF NewDay

LEMMA PassStep ==
  ASSUME MoneyInv, NEW w \in Workers, Pass(w)
  PROVE  MoneyInv'
  BY ReadLegsStep, LookUpWorthStep, LookUpCacheStep, FetchFailsStep, FetchAnswersStep,
     KeepRateStep, WriteLegsStep, WriteRefusedStep DEF Pass

LEMMA NextInv == MoneyInv /\ [MoneyNext]_moneyVars => MoneyInv'
<1> SUFFICES ASSUME MoneyInv, [MoneyNext]_moneyVars PROVE MoneyInv'
  OBVIOUS
<1>1. ASSUME NEW w \in Workers, Pass(w) PROVE MoneyInv'
  BY <1>1, PassStep
<1>2. ASSUME NEW w \in Workers, NEW t \in Purchases,
             RunPasses(w, t) \/ \E k \in {"fx", "points"} : RunForced(w, t, k)
      PROVE  MoneyInv'
  BY <1>2, BeginStep
<1>3. ASSUME NEW t \in Purchases, AgentWrites(t) \/ CreateByHand(t)
                                    \/ AddLeg(t) \/ DropLeg(t) \/ PatchLeg(t) \/ CorrectAmount(t)
      PROVE  MoneyInv'
  BY <1>3, AgentWritesStep, CreateByHandStep, AddLegStep, DropLegStep, PatchLegStep,
     CorrectAmountStep
<1>4. CASE SetWorth \/ Publish \/ NewDay
  BY <1>4, SetWorthStep, PublishStep, NewDayStep
<1>5. CASE UNCHANGED moneyVars
  <2>1. Calendar' /\ worth' \in Valuations
    BY <1>5 DEF MoneyInv, Calendar, Tables, moneyVars, clock
  <2> QED
    BY <1>5, <2>1, Around DEF moneyVars
<1> QED
  BY <1>1, <1>2, <1>3, <1>4, <1>5 DEF MoneyNext

LEMMA InitMoney == MoneyInit => MoneyInv
<1> SUFFICES ASSUME MoneyInit PROVE MoneyInv
  OBVIOUS
<1>1. PICK w \in [Points -> Worths \cup {Null}] : worth = Valued(w)
  BY DEF MoneyInit
<1> DEFINE none == [l \in {} |-> 0]
<1>2. \A t \in Purchases : leg[t] = none
  BY DEF MoneyInit
<1>3. Stored(none) /\ Proper(none) /\ \A S : InCur(none, S) = {} /\ \A l \in DOMAIN none : FALSE
  BY FS_EmptySet DEF Stored, Proper, InCur
<1>4. \A S : BaseSum(none, S) = 0
  <2> SUFFICES ASSUME NEW S PROVE BaseSum(none, S) = 0
    OBVIOUS
  <2>1. SumOn(BaseOf(none), InCur(none, S)) = 0
    BY <1>3, SumOfNone
  <2> QED
    BY <1>3, <2>1, Parts
<1>5. \A x : MinorSum(none, x) = 0
  <2> SUFFICES ASSUME NEW x PROVE MinorSum(none, x) = 0
    OBVIOUS
  <2>1. SumOn(MinorOf(none), InCur(none, {x})) = 0
    BY <1>3, SumOfNone
  <2> QED
    BY <1>3, <2>1, Parts
<1> HIDE DEF none
<1>6. Even(none)
  <2>1. Cardinality(InCur(none, Foreign)) = 0 /\ Cardinality(InCur(none, Points)) = 0
    BY <1>3, FS_EmptySet
  <2>2. 2 * Size(0) <= 0
    BY DEF Size
  <2> QED
    BY <1>4, <2>1, <2>2 DEF Even
<1>7. Entered(none)
  BY <1>3, <1>5 DEF Entered
<1>8. Books
  BY <1>2, <1>3, <1>6, <1>7, EvenBalances DEF Books, InOrder, MoneyInit
<1>9. Calendar
  <2>1. 0 \in Days
    BY MoneyAssumption DEF MoneyAssumption, Days
  <2>2. ASSUME NEW b \in Business PROVE ~(b < 0 - 1)
    <3>1. b \in Nat
      BY DaysAre, Zenon
    <3> QED
      BY <3>1
  <2> QED
    BY <2>1, <2>2 DEF Calendar, MoneyInit
<1>10. worth \in Valuations
  BY <1>1 DEF Valued, Valuations
<1>11. cache \in RateCache /\ \A c \in Foreign, d \in Days : cache[c][d] = Null
  BY DEF MoneyInit, RateCache
<1>12. Tables /\ FrozenRatesAreFinal
  BY <1>10, <1>11, DaysAre DEF Tables, FrozenRatesAreFinal, MoneyInit
<1>13. DOMAIN pass = Workers /\ \A v \in Workers : pass[v] = Idle
  BY DEF MoneyInit
<1> QED
  BY <1>8, <1>9, <1>12, <1>13, QuietReads DEF MoneyInv

----------------------------------------------------------------------------
\* The books are even at every step, the rates that are cached are final, and
\* what a pass has read is still what it is going to write to.
THEOREM MoneyInvariant == MoneySpec => []MoneyInv
  BY InitMoney, NextInv, PTL DEF MoneySpec

\* Every variable has its type; where nobody set a currency or a rate by hand,
\* only converted legs have a rate, and a rate of 0 is a point without a
\* valuation.
THEOREM MoneyTypes == MoneySpec => []MoneyTypeOK
<1>1. MoneyInv => MoneyTypeOK
  BY DEF MoneyInv, Books, InOrder, Calendar, Tables, Stored, Proper, Awaiting, MoneyTypeOK
<1> QED
  BY <1>1, MoneyInvariant, PTL

\* Whatever days pass and whatever is published while a pass waits for the
\* answer: a rate that is cached is the last the source gives for that day.
THEOREM RatesAreFinal == MoneySpec => []FrozenRatesAreFinal
<1>1. MoneyInv => FrozenRatesAreFinal
  BY DEF MoneyInv
<1> QED
  BY <1>1, MoneyInvariant, PTL

\* For every receipt, entry, rate and interleaving of passes with edits: what
\* is posted balances; where no person reworked the legs, what the foreign ones
\* are off the points make up, neither by more than half a unit a leg; and an
\* uncorrected leg among them is worth its amount at its rate.
THEOREM WorthHolds == MoneySpec => []WorthItsRate
<1>1. MoneyInv => WorthItsRate
  <2> SUFFICES ASSUME MoneyInv, NEW t \in Purchases
               PROVE  /\ t \notin drafts =>
                           AddUp([l \in DOMAIN leg[t] |-> leg[t][l].base]) = 0
                      /\ t \notin reworked =>
                           /\ Off(leg[t], "fx") + Off(leg[t], "points") = 0
                           /\ \A k \in {"fx", "points"} :
                                2 * Size(Off(leg[t], k)) <= Cardinality(Legs(leg[t], k))
                      /\ t \notin corrected \cup reworked =>
                           \A l \in DOMAIN leg[t] :
                             leg[t][l].rate # Null =>
                               Faithful(leg[t][l], Cardinality(DOMAIN leg[t]))
    BY DEF WorthItsRate
  <2>1. InOrder(t, leg[t])
    BY DEF MoneyInv, Books
  <2>2. ASSUME t \notin reworked
        PROVE  /\ Off(leg[t], "fx") + Off(leg[t], "points") = 0
               /\ \A k \in {"fx", "points"} :
                    2 * Size(Off(leg[t], k)) <= Cardinality(Legs(leg[t], k))
    BY <2>1, <2>2, OffIs, Currency DEF InOrder, Even
  <2> QED
    BY <2>1, <2>2 DEF InOrder, LegsBalance, Entered
<1> QED
  BY <1>1, MoneyInvariant, PTL
=============================================================================
