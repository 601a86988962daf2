---------------------------- MODULE DocumentsProofs ----------------------------
(***************************************************************************)
(* What holds of documents for any number of contents, rows, transactions  *)
(* and concurrent requests: the bytes, the links, the events and the gate  *)
(* on reconciled transactions.                                             *)
(***************************************************************************)
EXTENDS Documents, TLAPS

Typed == /\ doc \in [DocIds -> DocRow]
         /\ txn \in [Txns -> TxnRow]
         /\ DOMAIN call = Actors

\* A document with these bytes was hard-deleted.
WasDropped(s) == \E e \in DocIds : doc[e].state = "gone" /\ doc[e].sha = s

BytesFollowRows ==
  \A d \in DocIds :
    /\ doc[d].state # "absent" => doc[d].sha \in disk \cup trash
    /\ Row(d) /\ doc[d].sha \notin disk => WasDropped(doc[d].sha)

\* What a request holds between two of its statements.
Holds(c) ==
  /\ DOMAIN c = {"at", "doc", "sha", "txns"}
  /\ c.at \in Steps /\ c.doc \in DocIds \cup {None} /\ c.sha \in Shas \cup {None}
  /\ c.at \in {"resurrect", "softDelete", "restore", "hardDelete", "cascadeSoft",
               "cascadeAgain", "cascadeHard", "link"} => c.doc \in DocIds
  /\ c.at = "link" => DOMAIN c.txns \subseteq Txns
  /\ c.at \in {"write", "insert"} => c.sha \in Shas
  /\ c.at = "insert" =>
       c.sha \in disk \/ (c.sha \in trash /\ WasDropped(c.sha))
  /\ c.at \in {"hardDelete", "cascadeHard"} =>
       doc[c.doc].state # "absent" /\ doc[c.doc].sha = c.sha
  /\ c.at = "quarantine" => WasDropped(c.sha)
  /\ c.at \in {"cascadeSoft", "cascadeAgain", "cascadeHard"} =>
       \A t \in DOMAIN c.txns :
         /\ t \in Txns /\ c.txns[t] \in TxnRow /\ c.txns[t].status # "reconciled"
         /\ c.txns[t].version <= txn[t].version
         /\ c.txns[t].version = txn[t].version => c.txns[t] = txn[t]

DocumentsInv == /\ Typed /\ BytesFollowRows /\ OneRowPerContent
                /\ LinksHaveEnds /\ RemovalsLogged
                /\ links \subseteq DocIds \X Txns
                /\ \A a \in Actors : Holds(call[a])

----------------------------------------------------------------------------
\* How rows, files and transactions move, whoever moves them.
RowsMove ==
  /\ doc' \in [DocIds -> DocRow]
  /\ \A d \in DocIds :
       /\ doc[d].state # "absent" => doc'[d].state # "absent" /\ doc'[d].sha = doc[d].sha
       /\ doc[d].state = "gone" => doc'[d].state = "gone"

TxnsMove ==
  /\ txn' \in [Txns -> TxnRow]
  /\ \A t \in Txns : /\ txn[t].version <= txn'[t].version
                     /\ txn[t].version = txn'[t].version => txn'[t] = txn[t]

FilesMove ==
  /\ trash \subseteq trash'
  /\ \A s \in disk : s \in disk' \/ (s \in trash' /\ WasDropped(s)')

\* A row that comes is live, and its bytes are there or were dropped since.
NewRows ==
  \A d \in DocIds :
    doc[d].state = "absent" /\ doc'[d].state # "absent" =>
      /\ doc'[d].state = "live"
      /\ \E s : doc'[d].sha = s /\ (s \in disk' \/ (s \in trash' /\ WasDropped(s)'))

LEMMA DroppedForGood ==
  ASSUME RowsMove, NEW s, WasDropped(s)
  PROVE  WasDropped(s)'
  BY DEF RowsMove, WasDropped

\* What a request holds stays true while others write.
LEMMA OthersHold ==
  ASSUME DocumentsInv, RowsMove, TxnsMove, FilesMove, NEW c, Holds(c)
  PROVE  Holds(c)'
<1>1. c.at = "insert" => c.sha \in disk' \/ (c.sha \in trash' /\ WasDropped(c.sha)')
  BY DroppedForGood DEF Holds, FilesMove
<1>2. c.at \in {"hardDelete", "cascadeHard"} =>
        doc'[c.doc].state # "absent" /\ doc'[c.doc].sha = c.sha
  BY DEF Holds, RowsMove
<1>3. c.at = "quarantine" => WasDropped(c.sha)'
  BY DroppedForGood DEF Holds
<1>4. c.at \in {"cascadeSoft", "cascadeAgain", "cascadeHard"} =>
        \A t \in DOMAIN c.txns :
          /\ c.txns[t].version <= txn'[t].version
          /\ c.txns[t].version = txn'[t].version => c.txns[t] = txn'[t]
  <2> SUFFICES ASSUME c.at \in {"cascadeSoft", "cascadeAgain", "cascadeHard"}, NEW t \in DOMAIN c.txns
               PROVE  /\ c.txns[t].version <= txn'[t].version
                      /\ c.txns[t].version = txn'[t].version => c.txns[t] = txn'[t]
    OBVIOUS
  <2>1. /\ t \in Txns /\ c.txns[t] \in TxnRow /\ txn[t] \in TxnRow /\ txn'[t] \in TxnRow
        /\ c.txns[t].version <= txn[t].version
        /\ c.txns[t].version = txn[t].version => c.txns[t] = txn[t]
        /\ txn[t].version <= txn'[t].version
        /\ txn[t].version = txn'[t].version => txn'[t] = txn[t]
    BY DEF Holds, TxnsMove, DocumentsInv, Typed
  <2> QED
    BY <2>1 DEF TxnRow
<1> QED
  BY <1>1, <1>2, <1>3, <1>4 DEF Holds

LEMMA BytesStep ==
  ASSUME DocumentsInv, RowsMove, FilesMove, NewRows
  PROVE  BytesFollowRows'
<1> SUFFICES ASSUME NEW d \in DocIds, NEW s, doc'[d].sha = s, doc'[d].state # "absent"
             PROVE  s \in disk' \/ (s \in trash' /\ (Row(d)' => WasDropped(s)'))
  BY DEF BytesFollowRows, Row, WasDropped
<1>1. CASE doc[d].state = "absent"
  BY <1>1 DEF NewRows
<1>2. CASE doc[d].state # "absent"
  <2>1. doc[d].sha = s /\ (Row(d)' => Row(d))
    BY <1>2 DEF RowsMove, Row, DocumentsInv, Typed, DocRow, NoDoc
  <2>2. s \in disk \/ (s \in trash /\ (Row(d) => WasDropped(s)))
    BY <1>2, <2>1 DEF DocumentsInv, BytesFollowRows
  <2> QED
    BY <2>1, <2>2, DroppedForGood DEF FilesMove
<1> QED
  BY <1>1, <1>2

\* A step keeps the invariant when it moves rows, files and transactions as
\* above, and when what the acting request now holds is true.
LEMMA MovesKeep ==
  ASSUME DocumentsInv, RowsMove, TxnsMove, FilesMove, NewRows,
         OneRowPerContent', LinksHaveEnds', RemovalsLogged',
         links' \subseteq DocIds \X Txns, DOMAIN call' = Actors,
         \A a \in Actors : call'[a] = call[a] \/ \E c : call'[a] = c /\ Holds(c)'
  PROVE  DocumentsInv'
<1>1. Typed' /\ BytesFollowRows'
  BY BytesStep DEF Typed, RowsMove, TxnsMove
<1>2. ASSUME NEW a \in Actors
      PROVE  Holds(call[a])'
  <2>1. PICK c : call'[a] = c /\ Holds(c)'
    BY OthersHold DEF DocumentsInv
  <2> QED
    BY <2>1 DEF Holds
<1> QED
  BY <1>1, <1>2 DEF DocumentsInv

Still == UNCHANGED <<doc, disk, trash, links, txn, log>>

LEMMA StillKeeps ==
  ASSUME DocumentsInv, NEW a \in Actors, Still, NEW c, Go(a, c), Holds(c)
  PROVE  DocumentsInv'
<1>1. /\ RowsMove /\ TxnsMove /\ FilesMove /\ NewRows
      /\ OneRowPerContent' /\ LinksHaveEnds' /\ RemovalsLogged'
      /\ links' \subseteq DocIds \X Txns
  BY DEF Still, DocumentsInv, Typed, RowsMove, TxnsMove, FilesMove, NewRows, TxnRow,
         OneRowPerContent, LinksHaveEnds, RemovalsLogged, Row, Kept
<1>2. DOMAIN call' = Actors /\ \A b \in Actors : call'[b] = call[b] \/ call'[b] = c
  BY DEF Go, DocumentsInv, Typed
<1>3. Holds(c)'
  BY <1>1, OthersHold
<1> QED
  BY <1>1, <1>2, <1>3, MovesKeep

LEMMA QuietHolds == Holds(Quiet)
  BY DEF Holds, Quiet, Steps

\* The statements that only read.
LEMMA ReadStep ==
  ASSUME DocumentsInv, NEW a \in Actors,
         LookUp(a) \/ CheckLink(a) \/ ReadDocument(a) \/ CountLinks(a) \/ BeginCascade(a)
           \/ Abort(a)
  PROVE  DocumentsInv'
<1>0. Typed
  BY DEF DocumentsInv
<1>1. CASE LookUp(a)
  <2>1. PICK c : Go(a, c) /\ \/ \E s \in Shas : c = [Quiet EXCEPT !.at = "write", !.sha = s]
                             \/ \E d \in DocIds : c = [Quiet EXCEPT !.at = "resurrect", !.doc = d]
    BY <1>1 DEF LookUp, RowsOf
  <2>2. Holds(c)
    BY <2>1 DEF Holds, Quiet, Steps
  <2> QED
    BY <1>1, <2>1, <2>2, StillKeeps DEF LookUp, Still
<1>2. CASE CheckLink(a)
  <2>1. PICK d \in DocIds, t \in Txns :
          Go(a, [Quiet EXCEPT !.at = "link", !.doc = d, !.txns = [u \in {t} |-> txn[u]]])
    BY <1>2 DEF CheckLink
  <2>2. Holds([Quiet EXCEPT !.at = "link", !.doc = d, !.txns = [u \in {t} |-> txn[u]]])
    BY DEF Holds, Quiet, Steps
  <2> QED
    BY <1>2, <2>1, <2>2, StillKeeps DEF CheckLink, Still
<1>3. CASE ReadDocument(a)
  <2>1. PICK c : Go(a, c) /\ \E d \in DocIds, s \in {"softDelete", "restore"} :
                               c = [Quiet EXCEPT !.at = s, !.doc = d]
    BY <1>3 DEF ReadDocument
  <2>2. Holds(c)
    BY <2>1 DEF Holds, Quiet, Steps
  <2> QED
    BY <1>3, <2>1, <2>2, StillKeeps DEF ReadDocument, Still
<1>4. CASE CountLinks(a)
  <2>1. PICK d \in DocIds :
          /\ Row(d)
          /\ Go(a, [Quiet EXCEPT !.at = "hardDelete", !.doc = d, !.sha = doc[d].sha])
    BY <1>4 DEF CountLinks
  <2>2. doc[d].sha \in Shas
    BY <1>0, <2>1 DEF Typed, DocRow, NoDoc, Row
  <2>3. Holds([Quiet EXCEPT !.at = "hardDelete", !.doc = d, !.sha = doc[d].sha])
    BY <2>1, <2>2 DEF Holds, Quiet, Steps, Row
  <2> QED
    BY <1>4, <2>1, <2>3, StillKeeps DEF CountLinks, Still
<1>5. CASE BeginCascade(a)
  <2>1. PICK d \in DocIds, s \in {"cascadeSoft", "cascadeAgain", "cascadeHard"} :
          /\ Row(d)
          /\ \A t \in LinkedTo(d) : txn[t].status # "reconciled"
          /\ Go(a, [at |-> s, doc |-> d, sha |-> doc[d].sha,
                    txns |-> [t \in LinkedTo(d) |-> txn[t]]])
    BY <1>5 DEF BeginCascade, Cascades
  <2> DEFINE c == [at |-> s, doc |-> d, sha |-> doc[d].sha,
                   txns |-> [t \in LinkedTo(d) |-> txn[t]]]
  <2>2. \A t \in LinkedTo(d) : /\ t \in Txns /\ txn[t] \in TxnRow
                               /\ txn[t].version <= txn[t].version
    BY <1>0 DEF LinkedTo, Typed, TxnRow
  <2>3. doc[d].sha \in Shas
    BY <1>0, <2>1 DEF Typed, DocRow, NoDoc, Row
  <2>4. Holds(c)
    BY <2>1, <2>2, <2>3 DEF Holds, Steps, Row
  <2> QED
    BY <1>5, <2>1, <2>4, StillKeeps DEF BeginCascade, Still
<1>6. CASE Abort(a)
  BY <1>6, QuietHolds, StillKeeps DEF Abort, Hang, Still
<1> QED
  BY <1>1, <1>2, <1>3, <1>4, <1>5, <1>6

\* The statements that touch no transaction and no link of one.
TxnsStill == UNCHANGED <<txn, log>>

LEMMA TxnsStillMove ==
  ASSUME DocumentsInv, TxnsStill
  PROVE  TxnsMove /\ RemovalsLogged'
  BY DEF DocumentsInv, Typed, TxnsStill, TxnsMove, TxnRow, RemovalsLogged, Kept

LEMMA DocumentStep ==
  ASSUME DocumentsInv, NEW a \in Actors,
         Undelete(a) \/ SoftDeleteDocument(a) \/ WriteBytes(a) \/ InsertRow(a)
           \/ HardDeleteDocument(a) \/ QuarantineFile(a)
  PROVE  DocumentsInv'
<1>0. Typed /\ Holds(call[a]) /\ OneRowPerContent /\ LinksHaveEnds
  BY DEF DocumentsInv
<1>1. TxnsMove /\ RemovalsLogged'
  BY TxnsStillMove DEF TxnsStill, Undelete, SoftDeleteDocument, WriteBytes, InsertRow,
                       HardDeleteDocument, QuarantineFile
<1>q. Holds(Quiet)'
  BY DEF Holds, Quiet, Steps
<1>2. ASSUME NEW c, Go(a, c), Holds(c)'
      PROVE  /\ DOMAIN call' = Actors
             /\ \A b \in Actors : call'[b] = call[b] \/ \E d : call'[b] = d /\ Holds(d)'
  BY <1>0, <1>2 DEF Go, Typed
<1>3. CASE Undelete(a) \/ SoftDeleteDocument(a)
  <2>1. UNCHANGED doc \/ \E d \in DocIds, st \in {"live", "deleted"} : Row(d) /\ SetState(d, st)
    BY <1>0, <1>3 DEF Undelete, SoftDeleteDocument, Step, Holds
  <2>2. /\ RowsMove /\ NewRows /\ \A d \in DocIds : (Row(d) <=> Row(d)')
                                                    /\ (Row(d) => doc'[d].sha = doc[d].sha)
    BY <1>0, <2>1 DEF RowsMove, NewRows, Row, SetState, Typed, DocRow, NoDoc
  <2>3. FilesMove /\ UNCHANGED <<links, txn>>
    BY <1>3 DEF FilesMove, Undelete, SoftDeleteDocument
  <2>4. OneRowPerContent' /\ LinksHaveEnds'
    BY <1>0, <2>2, <2>3 DEF OneRowPerContent, LinksHaveEnds, DocumentsInv, Kept
  <2>5. Go(a, Quiet)
    BY <1>3 DEF Undelete, SoftDeleteDocument, Hang
  <2> QED
    BY <1>1, <1>2, <1>q, <2>2, <2>3, <2>4, <2>5, MovesKeep DEF DocumentsInv
<1>4. CASE WriteBytes(a)
  <2>1. /\ UNCHANGED <<doc, links, txn, trash>> /\ disk' = disk \cup {call[a].sha}
        /\ Go(a, [call[a] EXCEPT !.at = "insert"]) /\ call[a].at = "write"
    BY <1>4 DEF WriteBytes, Step
  <2>2. RowsMove /\ NewRows /\ FilesMove /\ OneRowPerContent' /\ LinksHaveEnds'
    BY <1>0, <2>1 DEF RowsMove, NewRows, FilesMove, Typed, OneRowPerContent, LinksHaveEnds,
                      Row, Kept
  <2>3. PICK c : c = [call[a] EXCEPT !.at = "insert"]
    OBVIOUS
  <2>4. Holds(c)'
    BY <1>0, <2>1, <2>3 DEF Holds, Steps
  <2> QED
    BY <1>1, <1>2, <2>1, <2>2, <2>3, <2>4, MovesKeep DEF DocumentsInv
<1>5. CASE InsertRow(a)
  <2>1. PICK d \in DocIds :
          /\ call[a].at = "insert" /\ doc[d].state = "absent" /\ RowsOf(call[a].sha) = {}
          /\ doc' = [doc EXCEPT ![d] = [state |-> "live", sha |-> call[a].sha]]
          /\ Go(a, Quiet) /\ UNCHANGED <<disk, trash, links, txn>>
    BY <1>5 DEF InsertRow, Step, Hang
  <2>2. /\ call[a].sha \in Shas
        /\ call[a].sha \in disk \/ (call[a].sha \in trash /\ WasDropped(call[a].sha))
    BY <1>0, <2>1 DEF Holds
  <2>3. doc'[d] = [state |-> "live", sha |-> call[a].sha]
          /\ \A e \in DocIds \ {d} : doc'[e] = doc[e]
    BY <1>0, <2>1 DEF Typed
  <2>4. RowsMove
    BY <1>0, <2>1, <2>2, <2>3 DEF RowsMove, Typed, DocRow
  <2>5. PICK s : s = call[a].sha
    OBVIOUS
  <2>6. s \in disk \/ (s \in trash /\ WasDropped(s)')
    BY <2>2, <2>4, <2>5, DroppedForGood
  <2>7. NewRows /\ FilesMove
    BY <2>1, <2>3, <2>5, <2>6 DEF NewRows, FilesMove
  <2>8. OneRowPerContent'
    BY <1>0, <2>1, <2>3 DEF OneRowPerContent, Row, RowsOf
  <2>9. LinksHaveEnds'
    BY <1>0, <2>1, <2>3 DEF LinksHaveEnds, Row, Kept, DocumentsInv
  <2> QED
    BY <1>1, <1>2, <1>q, <2>1, <2>4, <2>7, <2>8, <2>9, MovesKeep DEF DocumentsInv
<1>6. CASE HardDeleteDocument(a)
  <2> DEFINE d == call[a].doc
  <2>1. /\ call[a].at = "hardDelete" /\ d \in DocIds
        /\ doc[d].state # "absent" /\ doc[d].sha = call[a].sha
        /\ doc' = [doc EXCEPT ![d].state = IF Row(d) THEN "gone" ELSE @]
        /\ links' = {l \in links : l[1] # d}
        /\ Go(a, [call[a] EXCEPT !.at = "quarantine"])
        /\ UNCHANGED <<disk, trash, txn>>
    BY <1>0, <1>6 DEF HardDeleteDocument, Drop, Step, Holds
  <2>2. /\ doc'[d].state = "gone" /\ doc'[d].sha = doc[d].sha
        /\ \A e \in DocIds \ {d} : doc'[e] = doc[e]
        /\ RowsMove
    BY <1>0, <2>1 DEF Typed, DocRow, NoDoc, Row, RowsMove
  <2>3. NewRows /\ FilesMove
    BY <2>1, <2>2 DEF NewRows, FilesMove
  <2>4. OneRowPerContent'
    BY <1>0, <2>1, <2>2 DEF OneRowPerContent, Row
  <2>5. LinksHaveEnds' /\ links' \subseteq DocIds \X Txns
    BY <1>0, <2>1, <2>2 DEF LinksHaveEnds, Row, Kept, DocumentsInv
  <2>6. PICK c, s : c = [call[a] EXCEPT !.at = "quarantine"] /\ s = call[a].sha
    OBVIOUS
  <2>7. WasDropped(s)'
    BY <2>1, <2>2, <2>6 DEF WasDropped
  <2>8. Holds(c)'
    BY <1>0, <2>1, <2>6, <2>7 DEF Holds, Steps
  <2> QED
    BY <1>1, <1>2, <2>1, <2>2, <2>3, <2>4, <2>5, <2>6, <2>8, MovesKeep
<1>7. CASE QuarantineFile(a)
  <2>1. PICK s : /\ call[a].at = "quarantine" /\ s = call[a].sha
                 /\ disk' = disk \ {s} /\ trash' = trash \cup (disk \cap {s})
                 /\ Go(a, Quiet) /\ UNCHANGED <<doc, links, txn>>
    BY <1>7 DEF QuarantineFile, Step, Hang
  <2>2. RowsMove /\ NewRows /\ OneRowPerContent' /\ LinksHaveEnds'
    BY <1>0, <2>1 DEF RowsMove, NewRows, Typed, OneRowPerContent, LinksHaveEnds, Row, Kept
  <2>3. WasDropped(s)'
    BY <1>0, <2>1, <2>2, DroppedForGood DEF Holds
  <2>4. FilesMove
    BY <2>1, <2>3 DEF FilesMove
  <2> QED
    BY <1>1, <1>2, <1>q, <2>1, <2>2, <2>4, MovesKeep DEF DocumentsInv
<1> QED
  BY <1>3, <1>4, <1>5, <1>6, <1>7

\* Links come and go one at a time.
LEMMA LinkStep ==
  ASSUME DocumentsInv, NEW a \in Actors, InsertLink(a) \/ Unlink(a)
  PROVE  DocumentsInv'
<1>0. Typed /\ Holds(call[a]) /\ OneRowPerContent /\ LinksHaveEnds
  BY DEF DocumentsInv
<1>1. UNCHANGED <<doc, disk, trash, txn, log>> /\ (call' = call \/ Go(a, Quiet))
  BY DEF InsertLink, Unlink, Hang
<1>2. /\ TxnsMove /\ RemovalsLogged' /\ RowsMove /\ NewRows /\ FilesMove
      /\ OneRowPerContent'
  BY <1>0, <1>1, TxnsStillMove
     DEF TxnsStill, RowsMove, NewRows, FilesMove, Typed, OneRowPerContent, Row
<1>3. Holds(Quiet)'
  BY DEF Holds, Quiet, Steps
<1>4. /\ DOMAIN call' = Actors
      /\ \A b \in Actors : call'[b] = call[b] \/ \E d : call'[b] = d /\ Holds(d)'
  BY <1>0, <1>1, <1>3 DEF Go, Typed
<1>5. LinksHaveEnds' /\ links' \subseteq DocIds \X Txns
  <2>1. CASE Unlink(a)
    BY <1>0, <1>1, <2>1 DEF Unlink, LinksHaveEnds, DocumentsInv, Row, Kept
  <2>2. CASE InsertLink(a)
    <3>1. /\ call[a].doc \in DocIds /\ Row(call[a].doc)
          /\ links' = links \cup {<<call[a].doc, t>> : t \in DOMAIN call[a].txns}
          /\ \A t \in DOMAIN call[a].txns : t \in Txns /\ Kept(t)
      BY <1>0, <2>2 DEF InsertLink, Step, Holds
    <3> QED
      BY <1>0, <1>1, <3>1 DEF LinksHaveEnds, DocumentsInv, Row, Kept
  <2> QED
    BY <2>1, <2>2
<1> QED
  BY <1>2, <1>4, <1>5, MovesKeep

\* The statuses a transaction row may have.
Statuses == {"draft", "posted", "reconciled", "gone"}

\* It is a row, and newer.
LEMMA RestatedRow ==
  ASSUME NEW r \in TxnRow, NEW st \in Statuses, NEW v, v = r.version + 1
  PROVE  /\ [status |-> st, deleted |-> r.deleted, version |-> v] \in TxnRow
         /\ r.version <= v /\ r.version # v
<1>1. r.deleted \in BOOLEAN /\ r.version \in Nat
  BY DEF TxnRow
<1>2. v \in Nat /\ r.version <= v /\ r.version # v
  BY <1>1
<1> QED
  BY <1>1, <1>2 DEF TxnRow, Statuses

\* The row an UPDATE of the status leaves, field by field.
LEMMA RestatedFields ==
  ASSUME NEW r \in TxnRow, NEW st,
         NEW q, q = [r EXCEPT !.status = st, !.version = r.version + 1]
  PROVE  q = [status |-> st, deleted |-> r.deleted, version |-> r.version + 1]
<1>1. r = [status |-> r.status, deleted |-> r.deleted, version |-> r.version]
  BY DEF TxnRow
<1> QED
  BY <1>1

\* The same for an UPDATE of the mark of deletion.
LEMMA RemarkedRow ==
  ASSUME NEW r \in TxnRow, NEW b \in BOOLEAN,
         NEW q, q = [r EXCEPT !.deleted = b, !.version = r.version + 1]
  PROVE  /\ q \in TxnRow /\ r.version <= q.version /\ r.version # q.version
         /\ q.status = r.status /\ q.deleted = b
<1>1. r = [status |-> r.status, deleted |-> r.deleted, version |-> r.version]
  BY DEF TxnRow
<1>2. r.status \in {"draft", "posted", "reconciled", "gone"} /\ r.deleted \in BOOLEAN
        /\ r.version \in Nat
  BY DEF TxnRow
<1>3. q.version = r.version + 1
  BY <1>1
<1>4. q.status = r.status /\ q.deleted = b
  BY <1>1
<1>5. q = [status |-> r.status, deleted |-> b, version |-> r.version + 1]
  BY <1>1
<1>6. r.version + 1 \in Nat /\ r.version <= r.version + 1 /\ r.version # r.version + 1
  BY <1>2
<1>7. q \in TxnRow
  BY <1>2, <1>5, <1>6 DEF TxnRow
<1> QED
  BY <1>3, <1>4, <1>6, <1>7

\* Transactions that are removed lose their links and leave an event; those
\* that are hidden leave one as well.
LEMMA RemoveOrHide ==
  ASSUME DocumentsInv, NEW gone \in SUBSET Txns, NEW hidden \in SUBSET (Txns \ gone),
         txn' = Hide(hidden, Remove(gone)),
         \A t \in hidden : Kept(t),
         \E x, y : log' = log \cup Events(gone, "hard_deleted", x) \cup Events(hidden, "deleted", y)
  PROVE  /\ TxnsMove /\ RemovalsLogged'
         /\ \A t \in Txns \ gone : txn'[t].status = txn[t].status
<1>0. Typed /\ RemovalsLogged
  BY DEF DocumentsInv
<1>1. ASSUME NEW t \in gone
      PROVE  txn'[t] = [txn[t] EXCEPT !.status = "gone", !.version = txn[t].version + 1]
  BY <1>1 DEF Hide, Remove
<1>2. ASSUME NEW t \in hidden
      PROVE  txn'[t] = [txn[t] EXCEPT !.deleted = TRUE, !.version = txn[t].version + 1]
  BY <1>2 DEF Hide, Remove
<1>3. ASSUME NEW t \in Txns \ (gone \cup hidden)
      PROVE  txn'[t] = txn[t]
  BY <1>3 DEF Hide, Remove
<1>4. \A t \in Txns : txn[t] \in TxnRow
  BY <1>0 DEF Typed
<1>5. ASSUME NEW t \in Txns
      PROVE  /\ txn'[t] \in TxnRow /\ txn[t].version <= txn'[t].version
             /\ txn[t].version = txn'[t].version => txn'[t] = txn[t]
             /\ t \notin gone => txn'[t].status = txn[t].status
             /\ t \notin hidden => txn'[t].deleted = txn[t].deleted
  <2>0. txn[t] \in TxnRow
    BY <1>4
  <2>1. CASE t \in gone
    <3>1. PICK r \in TxnRow, st \in Statuses : r = txn[t] /\ st = "gone"
      BY <2>0 DEF Statuses
    <3>2. PICK q : q = txn'[t]
      OBVIOUS
    <3>3. q = [r EXCEPT !.status = st, !.version = r.version + 1]
      BY <1>1, <2>1, <3>1, <3>2
    <3>4. PICK v : v = r.version + 1
      OBVIOUS
    <3>5. q = [status |-> st, deleted |-> r.deleted, version |-> v]
      BY <3>3, <3>4, RestatedFields
    <3>6. q \in TxnRow /\ r.version <= v /\ r.version # v
      BY <3>4, <3>5, RestatedRow
    <3> QED
      BY <2>1, <3>1, <3>2, <3>5, <3>6
  <2>2. CASE t \in hidden
    <3>1. PICK r \in TxnRow, b \in BOOLEAN : r = txn[t] /\ b = TRUE
      BY <2>0
    <3>2. PICK q : q = txn'[t]
      OBVIOUS
    <3>3. q = [r EXCEPT !.deleted = b, !.version = r.version + 1]
      BY <1>2, <2>2, <3>1, <3>2
    <3>4. /\ q \in TxnRow /\ r.version <= q.version /\ r.version # q.version
          /\ q.status = r.status
      BY <3>3, RemarkedRow
    <3> QED
      BY <2>2, <3>1, <3>2, <3>4
  <2>3. CASE t \notin gone \cup hidden
    BY <1>3, <2>0, <2>3 DEF TxnRow
  <2> QED
    BY <2>1, <2>2, <2>3
<1>6. txn' \in [Txns -> TxnRow]
  BY <1>5 DEF Hide
<1>7. /\ log \subseteq log'
      /\ \A t \in gone : \E e \in log' : e.txn = t /\ e.type = "hard_deleted"
      /\ \A t \in hidden : \E e \in log' : e.txn = t /\ e.type = "deleted"
  <2>1. PICK x, y : log' = log \cup Events(gone, "hard_deleted", x)
                               \cup Events(hidden, "deleted", y)
    OBVIOUS
  <2>2. \A t \in gone : [txn |-> t, type |-> "hard_deleted", named |-> x] \in log'
    BY <2>1 DEF Events
  <2>3. \A t \in hidden : [txn |-> t, type |-> "deleted", named |-> y] \in log'
    BY <2>1 DEF Events
  <2> QED
    BY <2>1, <2>2, <2>3
<1>8. RemovalsLogged'
  BY <1>0, <1>5, <1>7 DEF RemovalsLogged, Kept
<1> QED
  BY <1>5, <1>6, <1>8 DEF TxnsMove

LEMMA NothingHidden ==
  ASSUME NEW gone \in SUBSET Txns
  PROVE  /\ Hide({}, Remove(gone)) = Remove(gone)
         /\ \A type, named : Events({}, type, named) = {}
  BY DEF Hide, Remove, Events

\* Rows and links after a cascade or a hard delete of transactions.
LEMMA RemovalStep ==
  ASSUME DocumentsInv, NEW gone \in SUBSET Txns, NEW hidden \in SUBSET (Txns \ gone),
         txn' = Hide(hidden, Remove(gone)),
         \A t \in hidden : Kept(t),
         \E x, y : log' = log \cup Events(gone, "hard_deleted", x) \cup Events(hidden, "deleted", y),
         NEW d \in DocIds \cup {None}, NEW st \in {"deleted", "gone"},
         UNCHANGED doc \/ (d \in DocIds /\ Row(d) /\ SetState(d, st)),
         links' \subseteq links, \A l \in links' : l[2] \notin gone,
         st = "gone" => \A l \in links' : l[1] # d,
         UNCHANGED <<disk, trash>>,
         DOMAIN call' = Actors,
         \A a \in Actors : call'[a] = call[a] \/ \E c : call'[a] = c /\ Holds(c)'
  PROVE  DocumentsInv'
<1>0. Typed /\ OneRowPerContent /\ LinksHaveEnds /\ links \subseteq DocIds \X Txns
  BY DEF DocumentsInv
<1>1. /\ TxnsMove /\ RemovalsLogged'
      /\ \A t \in Txns \ gone : txn'[t].status = txn[t].status
  BY RemoveOrHide
<1>2. /\ RowsMove /\ NewRows
      /\ \A e \in DocIds : Row(e)' => Row(e) /\ doc'[e].sha = doc[e].sha
      /\ \A e \in DocIds : Row(e) => Row(e)' \/ (e = d /\ st = "gone")
  BY <1>0 DEF RowsMove, NewRows, Row, SetState, Typed, DocRow, NoDoc
<1>3. FilesMove
  BY DEF FilesMove
<1>4. OneRowPerContent'
  BY <1>0, <1>2 DEF OneRowPerContent
<1>5. LinksHaveEnds'
  BY <1>0, <1>1, <1>2 DEF LinksHaveEnds, Kept
<1> QED
  BY <1>0, <1>1, <1>2, <1>3, <1>4, <1>5, MovesKeep

\* A cascade acts on what it had read.
LEMMA CascadeStep ==
  ASSUME DocumentsInv, NEW a \in Actors, CascadeHard(a) \/ CascadeSoft(a)
  PROVE  DocumentsInv'
<1> DEFINE d == call[a].doc
           seen == call[a].txns
<1>0. Typed /\ Holds(call[a])
  BY DEF DocumentsInv
<1>1. d \in DocIds /\ DOMAIN seen \subseteq Txns
  BY <1>0 DEF CascadeHard, CascadeSoft, Step, Holds
<1>c. ASSUME NEW c, Go(a, c), Holds(c)'
      PROVE  /\ DOMAIN call' = Actors
             /\ \A b \in Actors : call'[b] = call[b] \/ \E e : call'[b] = e /\ Holds(e)'
  BY <1>0, <1>c DEF Go, Typed
<1>2. CASE CascadeHard(a)
  <2>1. /\ call[a].at = "cascadeHard"
        /\ txn' = Remove(DOMAIN seen)
        /\ log' = log \cup Events(DOMAIN seen, "hard_deleted", FALSE)
        /\ doc' = [doc EXCEPT ![d].state = IF Row(d) THEN "gone" ELSE @]
        /\ links' = {l \in links : l[1] # d /\ l[2] \notin DOMAIN seen}
        /\ Go(a, [Quiet EXCEPT !.at = "quarantine", !.sha = call[a].sha])
        /\ UNCHANGED <<disk, trash>>
    BY <1>2 DEF CascadeHard, Step
  <2>2. /\ txn' = Hide({}, Remove(DOMAIN seen))
        /\ log' = log \cup Events(DOMAIN seen, "hard_deleted", FALSE)
                      \cup Events({}, "deleted", FALSE)
    BY <1>1, <2>1, NothingHidden
  <2>3. UNCHANGED doc \/ (Row(d) /\ SetState(d, "gone"))
    BY <1>0, <1>1, <2>1 DEF SetState, Typed, DocRow, NoDoc
  <2>4. doc[d].state # "absent" /\ doc[d].sha = call[a].sha /\ call[a].sha \in Shas \cup {None}
    BY <1>0, <2>1 DEF Holds
  <2>5. doc'[d].state = "gone" /\ doc'[d].sha = doc[d].sha
    BY <1>0, <1>1, <2>1, <2>4 DEF Typed, DocRow, NoDoc, Row
  <2>6. PICK c, s : c = [Quiet EXCEPT !.at = "quarantine", !.sha = s] /\ s = call[a].sha
    OBVIOUS
  <2>7. WasDropped(s)'
    BY <1>1, <2>4, <2>5, <2>6 DEF WasDropped
  <2>8. Holds(c)'
    BY <2>4, <2>6, <2>7 DEF Holds, Quiet, Steps
  <2>9. PICK e \in DocIds : e = d
    BY <1>1
  <2>10. PICK ts \in SUBSET Txns : ts = DOMAIN seen
    BY <1>1
  <2>11. /\ DOMAIN call' = Actors
         /\ \A b \in Actors : call'[b] = call[b] \/ \E x : call'[b] = x /\ Holds(x)'
    BY <1>c, <2>1, <2>6, <2>8
  <2>12. PICK none \in SUBSET (Txns \ ts) : none = {}
    OBVIOUS
  <2>13. /\ txn' = Hide(none, Remove(ts)) /\ \A t \in none : Kept(t)
         /\ \E x, y : log' = log \cup Events(ts, "hard_deleted", x)
                               \cup Events(none, "deleted", y)
    BY <2>2, <2>10, <2>12
  <2>14. /\ links' \subseteq links /\ \A l \in links' : l[2] \notin ts
         /\ \A l \in links' : l[1] # e
    BY <2>1, <2>9, <2>10
  <2>15. UNCHANGED doc \/ (e \in DocIds /\ Row(e) /\ SetState(e, "gone"))
    BY <2>3, <2>9
  <2> HIDE DEF d, seen
  <2> QED
    BY <2>1, <2>11, <2>13, <2>14, <2>15, RemovalStep
<1>3. CASE CascadeSoft(a)
  <2> DEFINE live   == {t \in DOMAIN seen : ~seen[t].deleted}
             drafts == {t \in live : seen[t].status \in Draft}
             others == live \ drafts
  <2>1. /\ \A t \in live : Kept(t)
        /\ txn' = Hide(others, Remove(drafts))
        /\ log' = log \cup Events(drafts, "hard_deleted", FALSE)
                      \cup Events(others, "deleted", FALSE)
        /\ links' = {l \in links : l[2] \notin drafts}
        /\ UNCHANGED doc \/ (Row(d) /\ SetState(d, "deleted"))
        /\ Go(a, Quiet)
        /\ UNCHANGED <<disk, trash>>
    BY <1>3 DEF CascadeSoft, Hang
  <2>2. Holds(Quiet)'
    BY DEF Holds, Quiet, Steps
  <2>3. /\ DOMAIN call' = Actors
        /\ \A b \in Actors : call'[b] = call[b] \/ \E x : call'[b] = x /\ Holds(x)'
    BY <1>c, <2>1, <2>2
  <2>g. PICK e \in DocIds, gone \in SUBSET Txns : e = d /\ gone = drafts
    BY <1>1
  <2>4. PICK hidden \in SUBSET (Txns \ gone) : hidden = others
    BY <1>1, <2>g
  <2>5. \A t \in hidden : Kept(t)
    BY <2>1, <2>4
  <2> HIDE DEF d, drafts, others
  <2> QED
    BY <2>1, <2>g, <2>3, <2>4, <2>5, RemovalStep
<1> QED
  BY <1>2, <1>3

\* What the transactions' own requests do.
LEMMA OwnStep ==
  ASSUME DocumentsInv, LedgerStep
  PROVE  DocumentsInv'
<1>0. Typed /\ OneRowPerContent /\ LinksHaveEnds /\ RemovalsLogged
  BY DEF DocumentsInv
<1>1. UNCHANGED <<doc, disk, trash, call>>
  BY DEF LedgerStep
<1>2. DOMAIN call' = Actors /\ \A a \in Actors : call'[a] = call[a]
  BY <1>0, <1>1 DEF Typed
<1>3. CASE \E t \in Txns : /\ txn' = Remove({t})
                           /\ links' = {l \in links : l[2] # t}
                           /\ log' = log \cup Events({t}, "hard_deleted", TRUE)
  <2>1. PICK t \in Txns : /\ txn' = Remove({t})
                          /\ links' = {l \in links : l[2] # t}
                          /\ log' = log \cup Events({t}, "hard_deleted", TRUE)
    BY <1>3
  <2>2. PICK gone \in SUBSET Txns : gone = {t}
    OBVIOUS
  <2>3. /\ txn' = Hide({}, Remove(gone))
        /\ log' = log \cup Events(gone, "hard_deleted", TRUE) \cup Events({}, "deleted", TRUE)
        /\ \A l \in links' : l[2] \notin gone
    BY <2>1, <2>2, NothingHidden
  <2>4. links' \subseteq links
    BY <2>1
  <2>5. PICK none \in SUBSET (Txns \ gone) : none = {}
    OBVIOUS
  <2>6. /\ txn' = Hide(none, Remove(gone)) /\ \A u \in none : Kept(u)
        /\ \E x, y : log' = log \cup Events(gone, "hard_deleted", x)
                              \cup Events(none, "deleted", y)
    BY <2>3, <2>5
  <2> QED
    BY <1>1, <1>2, <2>3, <2>4, <2>6, RemovalStep
<1>4. ASSUME UNCHANGED <<links, log>>, NEW t \in Txns, NEW r \in TxnRow,
             txn[t].version <= r.version, txn[t].version # r.version,
             r.status # "gone", txn[t].status # "gone",
             r.deleted => txn[t].deleted,
             txn' = [txn EXCEPT ![t] = r]
      PROVE  DocumentsInv'
  <2>1. TxnsMove
    BY <1>0, <1>4 DEF TxnsMove, Typed, TxnRow
  <2>2. RemovalsLogged' /\ LinksHaveEnds'
    BY <1>0, <1>1, <1>4 DEF RemovalsLogged, LinksHaveEnds, Kept, Row, Typed
  <2>3. RowsMove /\ NewRows /\ FilesMove /\ OneRowPerContent'
    BY <1>0, <1>1 DEF RowsMove, NewRows, FilesMove, OneRowPerContent, Typed, Row
  <2> QED
    BY <1>2, <1>4, <2>1, <2>2, <2>3, MovesKeep DEF DocumentsInv
<1>5. ASSUME NEW t \in Txns, NEW st \in {"posted", "reconciled"}, txn[t].status # "gone",
             txn' = [txn EXCEPT ![t].status = st, ![t].version = @ + 1],
             UNCHANGED <<links, log>>
      PROVE  DocumentsInv'
  <2>1. PICK o \in TxnRow : o = txn[t]
    BY <1>0 DEF Typed
  <2>2. PICK q : q = [o EXCEPT !.status = st, !.version = o.version + 1]
    OBVIOUS
  <2>3. txn' = [txn EXCEPT ![t] = q]
    BY <1>0, <1>5, <2>1, <2>2 DEF Typed
  <2>5. /\ q \in TxnRow /\ o.version <= q.version /\ o.version # q.version
        /\ q.deleted = o.deleted /\ q.status = st
    <3>1. st \in Statuses
      BY <1>5 DEF Statuses
    <3>2. PICK v : v = o.version + 1
      OBVIOUS
    <3>3. q = [status |-> st, deleted |-> o.deleted, version |-> v]
      BY <2>2, <3>2, RestatedFields
    <3>4. q \in TxnRow /\ o.version <= v /\ o.version # v
      BY <3>1, <3>2, <3>3, RestatedRow
    <3> QED
      BY <3>3, <3>4
  <2>4. q.status # "gone" /\ (q.deleted => o.deleted)
    BY <1>5, <2>5
  <2> QED
    BY <1>4, <1>5, <2>1, <2>3, <2>4, <2>5
<1>6. ASSUME NEW t \in Txns, txn[t].status # "gone",
             txn' = [txn EXCEPT ![t].deleted = FALSE, ![t].version = @ + 1],
             UNCHANGED <<links, log>>
      PROVE  DocumentsInv'
  <2>1. PICK o \in TxnRow : o = txn[t]
    BY <1>0 DEF Typed
  <2>0. PICK b \in BOOLEAN : b = FALSE
    OBVIOUS
  <2>2. PICK q : q = [o EXCEPT !.deleted = b, !.version = o.version + 1]
    OBVIOUS
  <2>3. txn' = [txn EXCEPT ![t] = q]
    BY <1>0, <1>6, <2>0, <2>1, <2>2 DEF Typed
  <2>5. /\ q \in TxnRow /\ o.version <= q.version /\ o.version # q.version
        /\ q.status = o.status /\ q.deleted = b
    BY <2>2, RemarkedRow, ZenonT(30)
  <2>4. q.status # "gone" /\ (q.deleted => o.deleted)
    BY <1>6, <2>0, <2>1, <2>5
  <2> QED
    BY <1>4, <1>6, <2>1, <2>3, <2>4, <2>5
<1> QED
  BY <1>3, <1>5, <1>6 DEF LedgerStep, Kept

----------------------------------------------------------------------------
LEMMA InitDocuments == Init => DocumentsInv
<1> SUFFICES ASSUME Init
             PROVE  DocumentsInv
  OBVIOUS
<1>1. PICK d \in DocIds, s \in Shas, t \in Txns, st \in {"draft", "posted"} :
        /\ doc = [e \in DocIds |-> IF e = d THEN [state |-> "live", sha |-> s] ELSE NoDoc]
        /\ disk = {s}
        /\ links = {<<d, t>>}
        /\ txn = [u \in Txns |-> [status |-> IF u = t THEN st ELSE "posted",
                                  deleted |-> FALSE, version |-> 1]]
  BY DEF Init
<1>2. trash = {} /\ log = {} /\ call = [a \in Actors |-> Quiet]
  BY DEF Init
<1>3. Typed /\ links \subseteq DocIds \X Txns
  BY <1>1, <1>2 DEF Typed, DocRow, NoDoc, TxnRow
<1>4. BytesFollowRows /\ OneRowPerContent
  BY <1>1 DEF BytesFollowRows, OneRowPerContent, Row, NoDoc
<1>5. LinksHaveEnds /\ RemovalsLogged
  BY <1>1 DEF LinksHaveEnds, RemovalsLogged, Row, Kept
<1>6. \A a \in Actors : Holds(call[a])
  BY <1>2 DEF Holds, Quiet, Steps
<1> QED
  BY <1>3, <1>4, <1>5, <1>6 DEF DocumentsInv

LEMMA DocumentsStep == DocumentsInv /\ [Next]_vars => DocumentsInv'
<1> SUFFICES ASSUME DocumentsInv, [Next]_vars
             PROVE  DocumentsInv'
  OBVIOUS
<1>1. CASE UNCHANGED vars
  BY <1>1 DEF vars, DocumentsInv, Typed, BytesFollowRows, WasDropped, OneRowPerContent,
              LinksHaveEnds, RemovalsLogged, Holds, Row, Kept
<1> QED
  BY <1>1, ReadStep, DocumentStep, LinkStep, CascadeStep, OwnStep DEF Next

\* Rows, files, links, events and requests are tied together: see DocumentsInv.
THEOREM DocumentsIsInv == Spec => []DocumentsInv
  BY InitDocuments, DocumentsStep, PTL DEF Spec

\* The bytes of a document are at their path or in the trash, and a row is
\* without its file only after a hard delete of the same bytes, wherever the
\* requests of documents.service.ts stop.
THEOREM BytesKept == Spec => []BytesAccounted
<1>1. DocumentsInv => BytesAccounted
  <2> SUFFICES ASSUME DocumentsInv, NEW d \in DocIds
               PROVE  /\ doc[d].state # "absent" => doc[d].sha \in disk \cup trash
                      /\ Row(d) /\ doc[d].sha \notin disk =>
                           \E e \in DocIds \ {d} :
                             doc[e].state = "gone" /\ doc[e].sha = doc[d].sha
    BY DEF BytesAccounted
  <2> QED
    BY DEF DocumentsInv, BytesFollowRows, WasDropped, Row
<1> QED
  BY <1>1, DocumentsIsInv, PTL

\* One row at most stands for the same bytes (the unique index on the hash and
\* the two lookups before it).
THEOREM OneRow == Spec => []OneRowPerContent
  BY DocumentsIsInv, PTL DEF DocumentsInv

\* Both ends of every link exist.
THEOREM LinksEnd == Spec => []LinksHaveEnds
  BY DocumentsIsInv, PTL DEF DocumentsInv

\* A transaction is never removed or hidden without an event.
THEOREM EveryRemovalLogged == Spec => []RemovalsLogged
  BY DocumentsIsInv, PTL DEF DocumentsInv

\* The gate of the cascades on reconciled transactions is passed only by a
\* cascade that read the transaction before it was reconciled.
THEOREM CascadesHold == Spec => OnlyStaleCascades
<1> DEFINE Fair == \A t \in Txns :
             /\ txn[t].status = "reconciled"
             /\ txn'[t].status = "gone" \/ (txn'[t].deleted /\ ~txn[t].deleted)
             => \E a \in Actors : t \in DOMAIN call[a].txns
                                  /\ call[a].txns[t].version < txn[t].version
<1>1. DocumentsInv /\ [Next]_vars => [Fair]_vars
  <2> SUFFICES ASSUME DocumentsInv, Next, NEW t \in Txns, txn[t].status = "reconciled",
                      txn'[t].status = "gone" \/ (txn'[t].deleted /\ ~txn[t].deleted)
               PROVE  \E a \in Actors : t \in DOMAIN call[a].txns
                                        /\ call[a].txns[t].version < txn[t].version
    OBVIOUS
  <2>0. Typed /\ txn[t] \in TxnRow
    BY DEF DocumentsInv, Typed
  <2>1. ~LedgerStep
    <3> SUFFICES ASSUME LedgerStep
                 PROVE  FALSE
      OBVIOUS
    <3>1. PICK u \in Txns :
            \/ \E st \in {"posted", "reconciled"} :
                 txn' = [txn EXCEPT ![u].status = st, ![u].version = @ + 1]
            \/ txn' = [txn EXCEPT ![u].deleted = FALSE, ![u].version = @ + 1]
            \/ txn[u].status # "reconciled" /\ txn' = Remove({u})
      BY DEF LedgerStep
    <3>2. CASE txn[u].status # "reconciled" /\ txn' = Remove({u})
      BY <3>2, <2>0 DEF Typed, TxnRow, Remove
    <3>3. CASE u # t
      BY <2>0, <3>1, <3>3 DEF Typed, TxnRow, Remove
    <3>4. CASE txn' = [txn EXCEPT ![u].deleted = FALSE, ![u].version = @ + 1]
      BY <2>0, <3>4 DEF Typed, TxnRow
    <3>5. ASSUME NEW st \in {"posted", "reconciled"},
                 txn' = [txn EXCEPT ![u].status = st, ![u].version = @ + 1]
          PROVE  FALSE
      BY <2>0, <3>5 DEF Typed, TxnRow
    <3> QED
      BY <3>1, <3>2, <3>3, <3>4, <3>5
  <2>2. PICK a \in Actors : CascadeHard(a) \/ CascadeSoft(a)
    BY <2>1
       DEF Next, LookUp, WriteBytes, InsertRow, Undelete, CheckLink, InsertLink, Unlink,
           ReadDocument, SoftDeleteDocument, CountLinks, HardDeleteDocument,
           QuarantineFile, BeginCascade, Abort
  <2>3. t \in DOMAIN call[a].txns
    <3>1. CASE CascadeHard(a)
      BY <2>0, <3>1 DEF CascadeHard, Remove
    <3>2. CASE CascadeSoft(a)
      BY <2>0, <3>2 DEF CascadeSoft, Remove, Hide
    <3> QED
      BY <2>2, <3>1, <3>2
  <2>4. /\ call[a].txns[t] \in TxnRow /\ call[a].txns[t].status # "reconciled"
        /\ call[a].txns[t].version <= txn[t].version
        /\ call[a].txns[t].version = txn[t].version => call[a].txns[t] = txn[t]
    BY <2>2, <2>3 DEF DocumentsInv, Holds, CascadeHard, CascadeSoft, Step
  <2> QED
    BY <2>0, <2>3, <2>4 DEF TxnRow
<1> QED
  BY <1>1, DocumentsIsInv, PTL DEF Spec, OnlyStaleCascades

===============================================================================
