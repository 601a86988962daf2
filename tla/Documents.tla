------------------------------ MODULE Documents ------------------------------
(***************************************************************************)
(* Documents (src/routes/documents.service.ts): the rows that stand for    *)
(* uploaded files, the bytes on disk, the links to transactions, and the   *)
(* requests that upload, link, hide, restore, delete and cascade.          *)
(*                                                                         *)
(* A request is a sequence of statements with no lock between them, so     *)
(* other requests run in between; only a cascade is one database           *)
(* transaction, at READ COMMITTED, of which the reads are one step and the *)
(* writes with the commit another.  The disk is not part of any database   *)
(* transaction: a request writes its file before its row, and moves a file *)
(* to .trash/ after the row is gone.  A request may die at any step.       *)
(***************************************************************************)
EXTENDS Integers

CONSTANTS
  Shas,         \* contents of files; the path of a file is its hash
  DocIds,       \* bound: document rows ever inserted
  Txns,
  Actors,       \* concurrent requests
  None,
  MaxRequests   \* bound: requests in a behaviour

ASSUME DocumentsAssumption ==
  /\ None \notin Shas \cup DocIds
  /\ MaxRequests \in Nat

VARIABLES
  doc,     \* documents
  disk,    \* the contents that have a file at their path
  trash,   \* the contents that have a file in .trash/
  links,   \* document_links
  txn,     \* transactions, with how often each was written
  log,     \* transaction_events
  call,    \* the request of each actor
  served

vars == <<doc, disk, trash, links, txn, log, call, served>>

Draft == {"draft", "error"}   \* what a soft cascade deletes for good

NoDoc  == [state |-> "absent", sha |-> None]
DocRow == [state : {"live", "deleted", "gone"}, sha : Shas] \cup {NoDoc}
TxnRow == [status : {"draft", "posted", "reconciled", "gone"},
           deleted : BOOLEAN, version : Nat]

\* named: the payload carries the transaction's id, which its own column
\* loses when the row goes (ON DELETE SET NULL).
Event == [txn : Txns, type : {"deleted", "hard_deleted"}, named : BOOLEAN]

Steps == {"idle", "resurrect", "write", "insert", "link", "softDelete", "restore",
          "hardDelete", "quarantine", "cascadeSoft", "cascadeAgain", "cascadeHard"}

Quiet == [at |-> "idle", doc |-> None, sha |-> None, txns |-> [t \in {} |-> 0]]

Row(d)    == doc[d].state \in {"live", "deleted"}
RowsOf(s) == {d \in DocIds : Row(d) /\ doc[d].sha = s}
Kept(t)   == txn[t].status # "gone"
LinkedTo(d) == {t \in Txns : <<d, t>> \in links}

----------------------------------------------------------------------------
Begin(a) == call[a] = Quiet /\ served < MaxRequests /\ served' = served + 1

Go(a, c) == call' = [call EXCEPT ![a] = c]
Hang(a)  == Go(a, Quiet)

Step(a, at) == call[a].at = at

\* A process that dies, a statement that fails: what was done stays done.
Abort(a) ==
  /\ call[a] # Quiet
  /\ Hang(a)
  /\ UNCHANGED <<doc, disk, trash, links, txn, log, served>>

\* POST /documents: the dedup lookup by hash.
LookUp(a) ==
  \E s \in Shas :
    /\ Begin(a)
    /\ \/ /\ RowsOf(s) = {}
          /\ Go(a, [Quiet EXCEPT !.at = "write", !.sha = s])
       \/ \E d \in RowsOf(s) :
            /\ doc[d].state = "deleted"
            /\ Go(a, [Quiet EXCEPT !.at = "resurrect", !.doc = d])
    /\ UNCHANGED <<doc, disk, trash, links, txn, log>>

SetState(d, s) == doc' = [doc EXCEPT ![d].state = s]

\* The same bytes again, or POST /:id/restore: clears deleted_at by id.
Undelete(a) ==
  /\ call[a].at \in {"resurrect", "restore"}
  /\ Row(call[a].doc)
  /\ SetState(call[a].doc, "live")
  /\ Hang(a)
  /\ UNCHANGED <<disk, trash, links, txn, log, served>>

WriteBytes(a) ==
  /\ Step(a, "write")
  /\ disk' = disk \cup {call[a].sha}
  /\ Go(a, [call[a] EXCEPT !.at = "insert"])
  /\ UNCHANGED <<doc, trash, links, txn, log, served>>

\* The row comes after the perceptual hash; the unique index on the hash
\* lets one of two uploads of the same bytes through.
InsertRow(a) ==
  \E d \in DocIds :
    /\ Step(a, "insert") /\ doc[d].state = "absent"
    /\ RowsOf(call[a].sha) = {}
    /\ doc' = [doc EXCEPT ![d] = [state |-> "live", sha |-> call[a].sha]]
    /\ Hang(a)
    /\ UNCHANGED <<disk, trash, links, txn, log, served>>

CheckLink(a) ==
  \E d \in DocIds, t \in Txns :
    /\ Begin(a)
    /\ doc[d].state = "live" /\ Kept(t)
    /\ Go(a, [Quiet EXCEPT !.at = "link", !.doc = d, !.txns = [u \in {t} |-> txn[u]]])
    /\ UNCHANGED <<doc, disk, trash, links, txn, log>>

\* ON CONFLICT DO NOTHING, under the two foreign keys.
InsertLink(a) ==
  /\ Step(a, "link")
  /\ Row(call[a].doc) /\ \A t \in DOMAIN call[a].txns : Kept(t)
  /\ links' = links \cup {<<call[a].doc, t>> : t \in DOMAIN call[a].txns}
  /\ Hang(a)
  /\ UNCHANGED <<doc, disk, trash, txn, log, served>>

Unlink(a) ==
  \E l \in links :
    /\ Begin(a)
    /\ links' = links \ {l}
    /\ UNCHANGED <<doc, disk, trash, txn, log, call>>

\* The reads of DELETE /:id and of POST /:id/restore.
ReadDocument(a) ==
  \E d \in DocIds :
    /\ Begin(a)
    /\ \/ doc[d].state = "live" /\ Go(a, [Quiet EXCEPT !.at = "softDelete", !.doc = d])
       \/ doc[d].state = "deleted" /\ Go(a, [Quiet EXCEPT !.at = "restore", !.doc = d])
    /\ UNCHANGED <<doc, disk, trash, links, txn, log>>

SoftDeleteDocument(a) ==
  /\ Step(a, "softDelete")
  /\ IF Row(call[a].doc) THEN SetState(call[a].doc, "deleted") ELSE UNCHANGED doc
  /\ Hang(a)
  /\ UNCHANGED <<disk, trash, links, txn, log, served>>

----------------------------------------------------------------------------
(***************************************************************************)
(* Hard deletes                                                            *)
(***************************************************************************)

\* DELETE /:id?hard=true reads the row and counts its links.
CountLinks(a) ==
  \E d \in DocIds :
    /\ Begin(a)
    /\ Row(d) /\ LinkedTo(d) = {}
    /\ Go(a, [Quiet EXCEPT !.at = "hardDelete", !.doc = d, !.sha = doc[d].sha])
    /\ UNCHANGED <<doc, disk, trash, links, txn, log>>

\* The row of a document goes, and by cascade what is linked to it by now.
Drop(d) == /\ doc' = [doc EXCEPT ![d].state = IF Row(d) THEN "gone" ELSE @]
           /\ links' = {l \in links : l[1] # d}

HardDeleteDocument(a) ==
  /\ Step(a, "hardDelete")
  /\ Drop(call[a].doc)
  /\ Go(a, [call[a] EXCEPT !.at = "quarantine"])
  /\ UNCHANGED <<disk, trash, txn, log, served>>

\* Mutant: the bytes are unlinked, as they were before the trash folder.
UnlinkFile(a) ==
  /\ Step(a, "quarantine")
  /\ disk' = disk \ {call[a].sha}
  /\ Hang(a)
  /\ UNCHANGED <<trash, doc, links, txn, log, served>>

\* A file that is not there is not an error.
QuarantineFile(a) ==
  /\ Step(a, "quarantine")
  /\ disk' = disk \ {call[a].sha}
  /\ trash' = trash \cup (disk \cap {call[a].sha})
  /\ Hang(a)
  /\ UNCHANGED <<doc, links, txn, log, served>>

----------------------------------------------------------------------------
(***************************************************************************)
(* Cascades                                                                *)
(***************************************************************************)

\* Hard or soft; a soft one will not write a document that it reads as deleted.
Cascades(d) == {"cascadeHard",
                IF doc[d].state = "deleted" THEN "cascadeAgain" ELSE "cascadeSoft"}

\* Mutant: the reconciled guard is missing.
CascadeUnguarded(a) ==
  \E d \in DocIds : \E at \in Cascades(d) :
    /\ Begin(a) /\ Row(d)
    /\ Go(a, [at |-> at, doc |-> d, sha |-> doc[d].sha,
              txns |-> [t \in LinkedTo(d) |-> txn[t]]])
    /\ UNCHANGED <<doc, disk, trash, links, txn, log>>

\* The document, deleted or not, the transactions linked to it as they are
\* now, and the guard on the whole batch.
BeginCascade(a) ==
  \E d \in DocIds : \E at \in Cascades(d) :
    /\ Begin(a) /\ Row(d)
    /\ \A t \in LinkedTo(d) : txn[t].status # "reconciled"
    /\ Go(a, [at |-> at, doc |-> d, sha |-> doc[d].sha,
              txns |-> [t \in LinkedTo(d) |-> txn[t]]])
    /\ UNCHANGED <<doc, disk, trash, links, txn, log>>

\* DELETE FROM transactions: the row goes, and the links to it.
Remove(ts) == [t \in Txns |-> IF t \in ts THEN [txn[t] EXCEPT !.status = "gone",
                                                             !.version = @ + 1]
                             ELSE txn[t]]
Hide(ts, rows) == [t \in Txns |-> IF t \in ts THEN [rows[t] EXCEPT !.deleted = TRUE,
                                                                  !.version = @ + 1]
                                 ELSE rows[t]]

Events(ts, type, named) == {[txn |-> t, type |-> type, named |-> named] : t \in ts}

\* Every linked transaction as read is deleted by id, each after its event,
\* whose foreign key needs the row.
CascadeHard(a) ==
  LET ts == DOMAIN call[a].txns
  IN  /\ Step(a, "cascadeHard")
      /\ \A t \in ts : Kept(t)
      /\ txn' = Remove(ts)
      /\ log' = log \cup Events(ts, "hard_deleted", FALSE)
      /\ doc' = [doc EXCEPT ![call[a].doc].state = IF Row(call[a].doc) THEN "gone" ELSE @]
      /\ links' = {l \in links : l[1] # call[a].doc /\ l[2] \notin ts}
      /\ Go(a, [Quiet EXCEPT !.at = "quarantine", !.sha = call[a].sha])
      /\ UNCHANGED <<disk, trash, served>>

\* What was read as a draft is deleted, what was read as posted is hidden,
\* what was read as hidden is left alone with its link.
CascadeSoft(a) ==
  LET seen   == call[a].txns
      live   == {t \in DOMAIN seen : ~seen[t].deleted}
      drafts == {t \in live : seen[t].status \in Draft}
      others == live \ drafts
  IN  /\ call[a].at \in {"cascadeSoft", "cascadeAgain"}
      /\ \A t \in live : Kept(t)
      /\ txn' = Hide(others, Remove(drafts))
      /\ log' = log \cup Events(drafts, "hard_deleted", FALSE)
                    \cup Events(others, "deleted", FALSE)
      /\ links' = {l \in links : l[2] \notin drafts}
      /\ IF Step(a, "cascadeSoft") /\ Row(call[a].doc) THEN SetState(call[a].doc, "deleted") ELSE UNCHANGED doc
      /\ Hang(a)
      /\ UNCHANGED <<disk, trash, served>>

----------------------------------------------------------------------------
(***************************************************************************)
(* What the transactions' own requests do meanwhile (see Ledger)           *)
(***************************************************************************)

LedgerStep ==
  /\ \E t \in Txns :
       \/ /\ txn[t].status = "posted"
          /\ txn' = [txn EXCEPT ![t].status = "reconciled", ![t].version = @ + 1]
          /\ UNCHANGED <<links, log>>
       \/ /\ txn[t].status = "reconciled"
          /\ txn' = [txn EXCEPT ![t].status = "posted", ![t].version = @ + 1]
          /\ UNCHANGED <<links, log>>
       \/ /\ Kept(t) /\ txn[t].deleted
          /\ txn' = [txn EXCEPT ![t].deleted = FALSE, ![t].version = @ + 1]
          /\ UNCHANGED <<links, log>>
       \/ /\ txn[t].status \notin {"gone", "reconciled"}
          /\ txn' = Remove({t})
          /\ links' = {l \in links : l[2] # t}
          /\ log' = log \cup Events({t}, "hard_deleted", TRUE)
  /\ served < MaxRequests /\ served' = served + 1
  /\ UNCHANGED <<doc, disk, trash, call>>

----------------------------------------------------------------------------
\* One document is there, with a draft or an entry in the books linked to it.
Init ==
  /\ \E d \in DocIds, s \in Shas, t \in Txns, st \in {"draft", "posted"} :
       /\ doc = [e \in DocIds |-> IF e = d THEN [state |-> "live", sha |-> s]
                                 ELSE NoDoc]
       /\ disk = {s}
       /\ links = {<<d, t>>}
       /\ txn = [u \in Txns |-> [status |-> IF u = t THEN st ELSE "posted",
                                deleted |-> FALSE, version |-> 1]]
  /\ trash = {} /\ log = {}
  /\ call = [a \in Actors |-> Quiet]
  /\ served = 0

Next ==
  \/ \E a \in Actors :
       \/ LookUp(a) \/ WriteBytes(a) \/ InsertRow(a) \/ Undelete(a)
       \/ CheckLink(a) \/ InsertLink(a) \/ Unlink(a)
       \/ ReadDocument(a) \/ SoftDeleteDocument(a)
       \/ CountLinks(a) \/ HardDeleteDocument(a) \/ QuarantineFile(a)
       \/ BeginCascade(a) \/ CascadeHard(a) \/ CascadeSoft(a)
       \/ Abort(a)
  \/ LedgerStep

Spec == Init /\ [][Next]_vars

----------------------------------------------------------------------------
(***************************************************************************)
(* Properties                                                              *)
(***************************************************************************)

\* Every variable has its type (schema/documents.ts).
TypeOK ==
  /\ doc \in [DocIds -> DocRow]
  /\ disk \subseteq Shas /\ trash \subseteq Shas
  /\ links \subseteq DocIds \X Txns
  /\ txn \in [Txns -> TxnRow]
  /\ log \subseteq Event
  /\ \A a \in Actors : /\ call[a].at \in Steps
                       /\ call[a].doc \in DocIds \cup {None}
                       /\ call[a].sha \in Shas \cup {None}
  /\ served \in 0 .. MaxRequests

\* The dedup contract: however uploads of the same bytes interleave with
\* each other and with deletes, one row at most stands for them.
OneRowPerContent ==
  \A d, e \in DocIds : Row(d) /\ Row(e) /\ doc[d].sha = doc[e].sha => d = e

\* Whatever dies half-way, the bytes of a document that ever had a row are
\* at their path or in the trash (quarantineFile); and a row is without its
\* file only when an earlier row of the same bytes was hard-deleted: the move
\* to the trash comes after the delete, never before a rollback.
BytesAccounted ==
  \A d \in DocIds :
    /\ doc[d].state # "absent" => doc[d].sha \in disk \cup trash
    /\ Row(d) /\ doc[d].sha \notin disk =>
         \E e \in DocIds \ {d} : doc[e].state = "gone" /\ doc[e].sha = doc[d].sha

\* Both ends of every link exist, although they are checked in statements of
\* their own before the link is written.
LinksHaveEnds == \A l \in links : Row(l[1]) /\ Kept(l[2])

\* A transaction that is gone, with or without its document, left an event.
RemovalsLogged ==
  \A t \in Txns :
    /\ ~Kept(t) => \E e \in log : e.txn = t /\ e.type = "hard_deleted"
    /\ txn[t].deleted => \E e \in log : e.txn = t /\ e.type = "deleted"

\* A cascade removes a reconciled transaction only if it had read it before
\* it was reconciled.
OnlyStaleCascades ==
  [][\A t \in Txns :
       /\ txn[t].status = "reconciled"
       /\ txn'[t].status = "gone" \/ (txn'[t].deleted /\ ~txn[t].deleted)
       => \E a \in Actors : t \in DOMAIN call[a].txns
                            /\ call[a].txns[t].version < txn[t].version]_vars

\* What schema/audit.ts:35 says: the history of a transaction that is gone
\* can still be found, by the id inside the payload.
HistoryIsQueryable ==
  \A t \in Txns : ~Kept(t) => \E e \in log : e.txn = t /\ e.type = "hard_deleted" /\ e.named

\* What hardDeleteDocument says (documents.service.ts:534): a document that
\* is in the database is not quarantined on disk.
RowsHaveFiles == \A d \in DocIds : Row(d) => doc[d].sha \in disk
=============================================================================
