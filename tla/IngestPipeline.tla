--------------------------- MODULE IngestPipeline ---------------------------
(***************************************************************************)
(* The upload-to-ledger pipeline of receipt-assistant.                     *)
(*                                                                         *)
(* An upload request creates a batch, stores each file, decides for each   *)
(* whether its bytes are already being handled, inserts the ingest rows    *)
(* and pushes the rest on the in-memory queue (ingest.service.ts).  A pool *)
(* of at most MaxConcurrency workers drains the queue (worker.ts); each    *)
(* worker spawns an agent process that writes the ledger and the ingest    *)
(* row itself (prompt.ts), then verifies what the agent reported and       *)
(* advances the batch.  A crash loses everything held in memory; the boot  *)
(* scan fails the batches it finds open.                                   *)
(*                                                                         *)
(* One action is one database round trip, or one turn of the event loop.   *)
(* A file is named by the ingest row it will get; the transaction an agent *)
(* writes for ingest i (source_ingest_id = i) is named i as well.          *)
(***************************************************************************)
EXTENDS Integers, Sequences, FiniteSets

CONSTANTS
  Batches,         \* upload requests; each creates the batch of that name
  Ingests,         \* files offered by those requests
  Docs,            \* distinct byte contents (sha256)
  Events,          \* distinct money events the documents describe
  BatchOf, DocOf,  \* request and content of each file
  EventOf,         \* money event each document describes
  Receipts,        \* documents the agent classifies as receipt_*; the others
                   \* it classifies as unsupported
  Emails,          \* documents that carry a Message-ID
  MaxConcurrency,  \* MAX_CLAUDE_CONCURRENCY
  Misbehaviours,   \* ways an agent may break its contract in this instance:
                   \* it "quits" with exit code 0 before closing its row,
                   \* "skips" the write, "omits" what it wrote from produced,
                   \* "invents" a transaction, or leaves an attach "unlinked"
  LateAgents,      \* may a timed-out agent's statement in flight still land?
  LedgerEdits,     \* does a user remove and restore transactions?
  MaxCrashes,      \* bound on process crashes
  MaxFaults        \* bound on failing database calls and missing rows

Files(b) == {i \in Ingests : BatchOf[i] = b}

ASSUME PipelineAssumption ==
  /\ BatchOf \in [Ingests -> Batches]
  /\ DocOf \in [Ingests -> Docs]
  /\ EventOf \in [Docs -> Events]
  /\ Receipts \subseteq Docs
  /\ Emails \subseteq Docs
  /\ MaxConcurrency \in Nat \ {0}
  /\ Misbehaviours \subseteq {"quits", "skips", "omits", "invents", "unlinked"}
  /\ LateAgents \in BOOLEAN
  /\ LedgerEdits \in BOOLEAN
  /\ MaxCrashes \in Nat
  /\ MaxFaults \in Nat
  /\ \A b \in Batches : \E i \in Ingests : BatchOf[i] = b

VARIABLES
  batch,        \* batches.status ("absent" before the row exists)
  status,       \* ingests.status ("absent" before the row exists)
  produced,     \* ingests.produced.transaction_ids
  sentinel,     \* ingests whose error is the duplicate Message-ID sentinel
  docs,         \* documents rows
  links,        \* document_links rows: <<document, transaction>>
  tx,           \* transactions: "none", "posted" or soft-deleted "removed"
  req,          \* where each upload request is in createBatchFromFiles
  cur,          \* the file that request is handling
  todo,         \* files it will extract, in order
  suppressed,   \* files it will record as born dedup
  queue,        \* the in-memory FIFO
  active,       \* activeWorkers
  step,         \* where runOne(i) is
  agent,        \* where the agent process of i is
  verdict,      \* the status the agent will report
  claim,        \* the transaction ids the agent will report
  killed,       \* agents sent SIGTERM whose last statement may still land
  server,       \* "up", or a stage of the boot recovery
  stale,        \* batch ids the boot scan selected
  announced,    \* how many batch.extracted events were emitted per batch
  crashes, faults

dbVars     == <<batch, status, produced, sentinel, docs, links, tx>>
reqVars    == <<req, cur, todo, suppressed>>
workVars   == <<queue, active, step>>
agentVars  == <<agent, verdict, claim, killed>>
bootVars   == <<server, stale>>
boundVars  == <<crashes, faults>>
vars == <<dbVars, reqVars, workVars, agentVars, bootVars, announced, boundVars>>

----------------------------------------------------------------------------

OpenBatch == {"pending", "processing"}
BatchStatus == {"absent", "pending", "processing", "extracted", "failed"}

InFlight == {"queued", "processing"}
Terminal == {"done", "error", "unsupported", "dedup", "near_dup"}
IngestStatus == {"absent"} \cup InFlight \cup Terminal

ReqStep == {"none", "next", "insert_doc", "probe_live", "probe_flight",
            "enqueue", "complete", "announce", "closed"}
WorkerStep == {"idle", "lookup", "mark", "start", "spawn", "wait", "verify",
               "fail", "force", "heal", "finish", "settle", "announce"}
AgentStep == {"off", "read", "insert", "attach", "close", "exited", "crashed"}
Verdict == {"done", "done_duplicate", "near_dup", "unsupported", "error"}

\* A transaction counts as live for the pipeline's own SQL when its status is
\* posted or reconciled; soft deletion leaves the status alone.
LiveByStatus(t) == tx[t] \in {"posted", "removed"}

----------------------------------------------------------------------------
(***************************************************************************)
(* createBatchFromFiles                                                    *)
(***************************************************************************)

\* Insert the batch row, then handle the files one after the other.
BatchInsert(b) ==
  /\ server = "up"
  /\ req[b] = "none"
  /\ batch' = [batch EXCEPT ![b] = "pending"]
  /\ req' = [req EXCEPT ![b] = "next"]
  /\ UNCHANGED <<status, produced, sentinel, docs, links, tx, cur, todo,
                 suppressed, workVars, agentVars, bootVars, announced, boundVars>>

\* uploadDocumentBytes: look the content up before writing anything.
UploadLookup(b, i) ==
  /\ req[b] = "next"
  /\ i \in Files(b) \ suppressed[b]
  /\ \A n \in 1 .. Len(todo[b]) : todo[b][n] # i
  /\ cur' = [cur EXCEPT ![b] = i]
  /\ req' = [req EXCEPT ![b] = IF DocOf[i] \in docs THEN "probe_live"
                                                     ELSE "insert_doc"]
  /\ UNCHANGED <<dbVars, todo, suppressed, workVars, agentVars, bootVars,
                 announced, boundVars>>

\* A new document: its file is extracted.  Another request may have inserted
\* the same content since the lookup; the unique index then fails the insert
\* and the exception leaves createBatchFromFiles.
UploadInsert(b) ==
  /\ req[b] = "insert_doc"
  /\ \/ /\ DocOf[cur[b]] \notin docs
        /\ docs' = docs \cup {DocOf[cur[b]]}
        /\ todo' = [todo EXCEPT ![b] = Append(@, cur[b])]
        /\ req' = [req EXCEPT ![b] = "next"]
     \/ /\ DocOf[cur[b]] \in docs
        /\ req' = [req EXCEPT ![b] = "closed"]
        /\ UNCHANGED <<docs, todo>>
  /\ UNCHANGED <<batch, status, produced, sentinel, links, tx, cur, suppressed,
                 workVars, agentVars, bootVars, announced, boundVars>>

\* findLiveTransactionForDocument
LinkedLive(d) == {t \in Ingests : <<d, t>> \in links /\ LiveByStatus(t)}

Suppress(b) ==
  /\ suppressed' = [suppressed EXCEPT ![b] = @ \cup {cur[b]}]
  /\ req' = [req EXCEPT ![b] = "next"]

\* Known bytes: suppressed, with the transaction as provenance, when a live
\* transaction is linked already; suppressed without when this very request is
\* going to extract them.
ProbeLive(b) ==
  /\ req[b] = "probe_live"
  /\ \/ \E t \in LinkedLive(DocOf[cur[b]]) :
          /\ produced' = [produced EXCEPT ![cur[b]] = {t}]
          /\ Suppress(b)
     \/ /\ LinkedLive(DocOf[cur[b]]) = {}
        /\ IF \E n \in 1 .. Len(todo[b]) : DocOf[todo[b][n]] = DocOf[cur[b]]
           THEN Suppress(b)
           ELSE /\ req' = [req EXCEPT ![b] = "probe_flight"]
                /\ UNCHANGED suppressed
        /\ UNCHANGED produced
  /\ UNCHANGED <<batch, status, sentinel, docs, links, tx, cur, todo, workVars,
                 agentVars, bootVars, announced, boundVars>>

\* Mutant: known bytes are taken as handled.
ProbeInFlightAssumed(b) ==
  /\ req[b] = "probe_flight"
  /\ Suppress(b)
  /\ UNCHANGED <<dbVars, cur, todo, workVars, agentVars, bootVars, announced,
                 boundVars>>

\* hasInFlightIngestForDocument: a second read, later than the first.
ProbeInFlight(b) ==
  /\ req[b] = "probe_flight"
  /\ IF \E j \in Ingests : DocOf[j] = DocOf[cur[b]] /\ status[j] \in InFlight
     THEN Suppress(b) /\ UNCHANGED todo
     ELSE /\ todo' = [todo EXCEPT ![b] = Append(@, cur[b])]
          /\ req' = [req EXCEPT ![b] = "next"]
          /\ UNCHANGED suppressed
  /\ UNCHANGED <<dbVars, cur, workVars, agentVars, bootVars, announced, boundVars>>

InTodo(b) == {todo[b][n] : n \in 1 .. Len(todo[b])}

\* One INSERT creates every row of the batch, queued or born terminal.
InsertRows(b) ==
  /\ req[b] = "next"
  /\ InTodo(b) \cup suppressed[b] = Files(b)
  /\ status' = [i \in Ingests |-> IF i \in suppressed[b] THEN "dedup"
                                  ELSE IF i \in InTodo(b) THEN "queued"
                                  ELSE status[i]]
  /\ req' = [req EXCEPT ![b] = "enqueue"]
  /\ UNCHANGED <<batch, produced, sentinel, docs, links, tx, cur, todo,
                 suppressed, workVars, agentVars, bootVars, announced, boundVars>>

\* Mutant: the concurrency cap is not consulted.
StartableUncapped(n, q) == Len(q)

\* maybeSpawnWorker runs inside the same turn as the push or the release that
\* calls it: with n workers left active and the queue q, it starts as many
\* items as there are free slots.
Startable(n, q) == IF MaxConcurrency - n < Len(q) THEN MaxConcurrency - n
                                                  ELSE Len(q)
First(q, k) == {q[n] : n \in 1 .. k}

\* The files to extract are pushed in one turn, after the rows are committed.
Enqueue(b) ==
  /\ req[b] = "enqueue"
  /\ LET q == queue \o todo[b]
         k == Startable(active, q)
     IN /\ queue' = SubSeq(q, k + 1, Len(q))
        /\ active' = active + k
        /\ step' = [i \in Ingests |-> IF i \in First(q, k) THEN "lookup"
                                                           ELSE step[i]]
  /\ req' = [req EXCEPT ![b] = IF suppressed[b] # {} THEN "complete"
                                                     ELSE "closed"]
  /\ UNCHANGED <<dbVars, cur, todo, suppressed, agentVars, bootVars, announced,
                 boundVars>>

\* Mutants: a row that no worker has picked up yet does not count as
\* outstanding; the status guard is dropped; dedup is not terminal (#124).
CompletableEarly(b) ==
  /\ batch[b] \in OpenBatch
  /\ \A i \in Files(b) : status[i] # "processing"
CompletableAgain(b) == \A i \in Files(b) : status[i] \in Terminal \cup {"absent"}
CompletableNoDedup(b) ==
  /\ batch[b] \in OpenBatch
  /\ \A i \in Files(b) : status[i] \in (Terminal \ {"dedup"}) \cup {"absent"}

\* The guarded UPDATE of onBatchChildTerminated.
Completable(b) ==
  /\ batch[b] \in OpenBatch
  /\ \A i \in Files(b) : status[i] \in Terminal \cup {"absent"}

\* maybeCompleteBatch, for a batch some of whose rows were born terminal.
CompleteBatch(b) ==
  /\ req[b] = "complete"
  /\ IF Completable(b)
     THEN /\ batch' = [batch EXCEPT ![b] = "extracted"]
          /\ req' = [req EXCEPT ![b] = "announce"]
     ELSE /\ req' = [req EXCEPT ![b] = "closed"]
          /\ UNCHANGED batch
  /\ UNCHANGED <<status, produced, sentinel, docs, links, tx, cur, todo,
                 suppressed, workVars, agentVars, bootVars, announced, boundVars>>

\* The winner of that UPDATE emits batch.extracted and starts reconciliation.
RequestAnnounce(b) ==
  /\ req[b] = "announce"
  /\ announced' = [announced EXCEPT ![b] = @ + 1]
  /\ req' = [req EXCEPT ![b] = "closed"]
  /\ UNCHANGED <<dbVars, cur, todo, suppressed, workVars, agentVars, bootVars,
                 boundVars>>

\* A database call of the request throws: the client gets a 500, and what was
\* written stays.
RequestThrows(b) ==
  /\ req[b] \notin {"none", "enqueue", "closed"}
  /\ faults < MaxFaults
  /\ faults' = faults + 1
  /\ req' = [req EXCEPT ![b] = "closed"]
  /\ UNCHANGED <<dbVars, cur, todo, suppressed, workVars, agentVars, bootVars,
                 announced, crashes>>

\* Mutant: the errored row is opened again in place.
RetryInPlace(i, b) ==
  /\ status[i] = "error" /\ step[i] = "idle" /\ server = "up"
  /\ status' = [status EXCEPT ![i] = "queued"]
  /\ req[b] = "none"
  /\ UNCHANGED <<batch, produced, sentinel, docs, links, tx, reqVars, workVars,
                 agentVars, bootVars, announced, boundVars>>

\* retryIngest: the stored bytes of a row closed as error go through
\* createBatchFromFiles again, as a batch of one file; the row itself stays.
Retry(i, b) ==
  /\ status[i] = "error"
  /\ \E j \in Ingests : Files(b) = {j} /\ DocOf[j] = DocOf[i]
  /\ BatchInsert(b)

Request(b) ==
  \/ BatchInsert(b)
  \/ \E i \in Ingests : UploadLookup(b, i) \/ Retry(i, b)
  \/ UploadInsert(b) \/ ProbeLive(b) \/ ProbeInFlight(b)
  \/ InsertRows(b) \/ Enqueue(b) \/ CompleteBatch(b) \/ RequestAnnounce(b)
  \/ RequestThrows(b)

----------------------------------------------------------------------------
(***************************************************************************)
(* runOne                                                                  *)
(***************************************************************************)

\* Mutant: a finished worker leaves the queue alone.
ReleaseOnly(i) ==
  /\ active' = active - 1
  /\ step' = [step EXCEPT ![i] = "idle"]
  /\ UNCHANGED queue

\* The promise of runOne(i) settled: .finally frees the slot and spawns again.
Release(i) ==
  LET k == Startable(active - 1, queue)
  IN /\ queue' = SubSeq(queue, k + 1, Len(queue))
     /\ active' = active - 1 + k
     /\ step' = [j \in Ingests |-> IF j \in First(queue, k) THEN "lookup"
                                   ELSE IF j = i THEN "idle" ELSE step[j]]

Goto(i, s) == step' = [step EXCEPT ![i] = s] /\ UNCHANGED <<queue, active>>

\* Workspace owner and document row are read first; either may be gone.
WorkerLookup(i) ==
  /\ step[i] = "lookup"
  /\ \/ Goto(i, "mark") /\ UNCHANGED faults
     \/ faults < MaxFaults /\ faults' = faults + 1 /\ Goto(i, "fail")
  /\ UNCHANGED <<dbVars, reqVars, agentVars, bootVars, announced, crashes>>

\* markProcessing, an UPDATE by id alone.
WorkerMark(i) ==
  /\ step[i] = "mark"
  /\ status' = [status EXCEPT ![i] = "processing"]
  /\ Goto(i, "start")
  /\ UNCHANGED <<batch, produced, sentinel, docs, links, tx, reqVars, agentVars,
                 bootVars, announced, boundVars>>

\* onBatchChildStarted, guarded by status = 'pending'.
WorkerStart(i) ==
  /\ step[i] = "start"
  /\ batch' = [batch EXCEPT ![BatchOf[i]] = IF @ = "pending" THEN "processing"
                                                              ELSE @]
  /\ Goto(i, "spawn")
  /\ UNCHANGED <<status, produced, sentinel, docs, links, tx, reqVars, agentVars,
                 bootVars, announced, boundVars>>

\* findPhashNeighbors, then the agent process starts.
WorkerSpawn(i) ==
  /\ step[i] = "spawn"
  /\ agent' = [agent EXCEPT ![i] = "read"]
  /\ Goto(i, "wait")
  /\ UNCHANGED <<dbVars, reqVars, verdict, claim, killed, bootVars, announced,
                 boundVars>>

\* The child closed: exit code 0 resolves the promise, any other rejects it.
WorkerReap(i) ==
  /\ step[i] = "wait"
  /\ agent[i] \in {"exited", "crashed"}
  /\ Goto(i, IF agent[i] = "exited" THEN "verify" ELSE "fail")
  /\ agent' = [agent EXCEPT ![i] = "off"]
  /\ UNCHANGED <<dbVars, reqVars, verdict, claim, killed, bootVars, announced,
                 boundVars>>

\* The timer sends SIGTERM and rejects at once, without waiting for the child
\* to close: the statement it had sent may still be carried out.
WorkerTimeout(i) ==
  /\ step[i] = "wait"
  /\ agent[i] \notin {"exited", "crashed"}
  /\ Goto(i, "fail")
  /\ IF LateAgents
     THEN killed' = killed \cup {i} /\ UNCHANGED agent
     ELSE agent' = [agent EXCEPT ![i] = "off"] /\ UNCHANGED killed
  /\ UNCHANGED <<dbVars, reqVars, verdict, claim, bootVars, announced, boundVars>>

\* markError wipes produced.
WorkerMarkError(i) ==
  /\ step[i] = "fail"
  /\ status' = [status EXCEPT ![i] = "error"]
  /\ produced' = [produced EXCEPT ![i] = {}]
  /\ sentinel' = sentinel \ {i}
  /\ Goto(i, "settle")
  /\ UNCHANGED <<batch, docs, links, tx, reqVars, agentVars, bootVars, announced,
                 boundVars>>

\* Mutant: naming a target is enough.
LinkClaimed(i) == produced[i] # {}

\* A near_dup needs a committed link from this document to its target.
LinkVerified(i) ==
  \E t \in produced[i] : <<DocOf[i], t>> \in links /\ LiveByStatus(t)

\* A receipt reported done without a transaction, and not as a repeated email.
DoneUnbacked(i) ==
  /\ status[i] = "done"
  /\ DocOf[i] \in Receipts
  /\ produced[i] = {}
  /\ i \notin sentinel

\* Mutants: the ledger is not asked before produced is repaired (#133); a row
\* that was not closed out is passed on.
AfterVerifyTrusting(i) ==
  CASE status[i] \notin Terminal \ {"dedup"}              -> "fail"
    [] status[i] = "near_dup" /\ ~LinkVerified(i)         -> "force"
    [] DoneUnbacked(i)                                    -> "heal"
    [] status[i] = "error"                                -> "settle"
    [] OTHER                                              -> "finish"
AfterVerifyUnclosed(i) ==
  CASE status[i] \notin Terminal \ {"dedup"}              -> "settle"
    [] status[i] = "near_dup" /\ ~LinkVerified(i)         -> "force"
    [] DoneUnbacked(i) /\ LiveByStatus(i)                 -> "heal"
    [] DoneUnbacked(i) /\ ~LiveByStatus(i)                -> "force"
    [] status[i] = "error"                                -> "settle"
    [] OTHER                                              -> "finish"

\* What the worker makes of the row the agent left, and of the guard's query.
\* Between the two reads nobody writes the row: the agent has exited.
AfterVerify(i) ==
  CASE status[i] \notin Terminal \ {"dedup"}              -> "fail"
    [] status[i] = "near_dup" /\ ~LinkVerified(i)         -> "force"
    [] DoneUnbacked(i) /\ LiveByStatus(i)                 -> "heal"
    [] DoneUnbacked(i) /\ ~LiveByStatus(i)                -> "force"
    [] status[i] = "error"                                -> "settle"
    [] OTHER                                              -> "finish"

WorkerVerify(i) ==
  /\ step[i] = "verify"
  /\ Goto(i, AfterVerify(i))
  /\ UNCHANGED <<dbVars, reqVars, agentVars, bootVars, announced, boundVars>>

\* The guards' own error stamp: produced is kept for triage.
WorkerForceError(i) ==
  /\ step[i] = "force"
  /\ status' = [status EXCEPT ![i] = "error"]
  /\ sentinel' = sentinel \ {i}
  /\ Goto(i, "settle")
  /\ UNCHANGED <<batch, produced, docs, links, tx, reqVars, agentVars, bootVars,
                 announced, boundVars>>

\* Self-heal: the transactions found by source_ingest_id become produced.
WorkerHeal(i) ==
  /\ step[i] = "heal"
  /\ produced' = [produced EXCEPT ![i] = {i}]
  /\ Goto(i, "finish")
  /\ UNCHANGED <<batch, status, sentinel, docs, links, tx, reqVars, agentVars,
                 bootVars, announced, boundVars>>

\* Points valuation and currency conversion, both of which swallow their
\* errors, then job.done.
WorkerFinish(i) ==
  /\ step[i] = "finish"
  /\ Goto(i, "settle")
  /\ UNCHANGED <<dbVars, reqVars, agentVars, bootVars, announced, boundVars>>

\* onBatchChildTerminated
WorkerSettle(i) ==
  /\ step[i] = "settle"
  /\ IF Completable(BatchOf[i])
     THEN /\ batch' = [batch EXCEPT ![BatchOf[i]] = "extracted"]
          /\ Goto(i, "announce")
     ELSE /\ Release(i)
          /\ UNCHANGED batch
  /\ UNCHANGED <<status, produced, sentinel, docs, links, tx, reqVars, agentVars,
                 bootVars, announced, boundVars>>

WorkerAnnounce(i) ==
  /\ step[i] = "announce"
  /\ announced' = [announced EXCEPT ![BatchOf[i]] = @ + 1]
  /\ Release(i)
  /\ UNCHANGED <<dbVars, reqVars, agentVars, bootVars, boundVars>>

\* A database call outside the extractor's try block throws: the exception is
\* logged by the pool and the row is left as it was.
WorkerThrows(i) ==
  /\ step[i] \notin {"idle", "wait", "finish"}
  /\ faults < MaxFaults
  /\ faults' = faults + 1
  /\ Release(i)
  /\ UNCHANGED <<dbVars, reqVars, agentVars, bootVars, announced, crashes>>

Worker(i) ==
  \/ WorkerLookup(i) \/ WorkerMark(i) \/ WorkerStart(i) \/ WorkerSpawn(i)
  \/ WorkerReap(i) \/ WorkerTimeout(i) \/ WorkerMarkError(i)
  \/ WorkerVerify(i) \/ WorkerForceError(i) \/ WorkerHeal(i)
  \/ WorkerFinish(i) \/ WorkerSettle(i) \/ WorkerAnnounce(i)
  \/ WorkerThrows(i)

----------------------------------------------------------------------------
(***************************************************************************)
(* The agent, as the prompt and the stub extractor use it.                 *)
(***************************************************************************)

\* A killed agent gets no further than the statement it had in flight.
AgentGoto(i, s) ==
  /\ agent' = [agent EXCEPT ![i] = IF i \in killed THEN "off" ELSE s]
  /\ killed' = killed \ {i}

SameEvent(i, t) == EventOf[DocOf[i]] = EventOf[DocOf[t]]

\* Another email with this one's Message-ID is stamped already; every write of
\* an email's link stamps its document in the same database transaction.
Repeated(i) ==
  /\ DocOf[i] \in Emails
  /\ \E d \in Emails \ {DocOf[i]}, t \in Ingests :
       <<d, t>> \in links /\ EventOf[d] = EventOf[DocOf[i]]

Decide(i, v, ids) ==
  /\ verdict' = [verdict EXCEPT ![i] = v]
  /\ claim' = [claim EXCEPT ![i] = ids]

\* Turn A, one read: not a receipt, a repeated Message-ID, a near-duplicate
\* candidate that was not removed, or none.
AgentRead(i) ==
  /\ agent[i] = "read"
  /\ \/ /\ DocOf[i] \notin Receipts
        /\ Decide(i, "unsupported", {})
        /\ AgentGoto(i, "close")
     \/ /\ DocOf[i] \in Receipts /\ Repeated(i)
        /\ Decide(i, "done_duplicate", {})
        /\ AgentGoto(i, "close")
     \/ /\ DocOf[i] \in Receipts /\ ~Repeated(i)
        /\ \E t \in Ingests : /\ SameEvent(i, t) /\ tx[t] = "posted"
                             /\ Decide(i, "near_dup", {t})
        /\ AgentGoto(i, "attach")
     \/ /\ DocOf[i] \in Receipts /\ ~Repeated(i)
        /\ \A t \in Ingests : SameEvent(i, t) => tx[t] # "posted"
        /\ Decide(i, "done", {i})
        /\ AgentGoto(i, "insert")
  /\ UNCHANGED <<dbVars, reqVars, workVars, bootVars, announced, boundVars>>

\* Turn B, one BEGIN..COMMIT: the transaction, its postings and its link all
\* land; or a constraint fails, the Message-ID index for one, and none does.
AgentInsert(i) ==
  /\ agent[i] = "insert"
  /\ \/ /\ ~Repeated(i)
        /\ tx' = [tx EXCEPT ![i] = "posted"]
        /\ links' = links \cup {<<DocOf[i], i>>}
        /\ UNCHANGED <<verdict, claim>>
     \/ Decide(i, "error", {}) /\ UNCHANGED <<tx, links>>
     \/ "skips" \in Misbehaviours /\ Decide(i, "done", {}) /\ UNCHANGED <<tx, links>>
     \/ "invents" \in Misbehaviours /\ UNCHANGED <<tx, links, verdict, claim>>
  /\ AgentGoto(i, "close")
  /\ UNCHANGED <<batch, status, produced, sentinel, docs, reqVars, workVars,
                 bootVars, announced, boundVars>>

\* The attach branch: the document becomes further evidence of its target.
AgentAttach(i) ==
  /\ agent[i] = "attach"
  /\ \/ /\ ~Repeated(i)
        /\ links' = links \cup {<<DocOf[i], t>> : t \in claim[i]}
        /\ UNCHANGED <<verdict, claim>>
     \/ Decide(i, "error", {}) /\ UNCHANGED links
     \/ "unlinked" \in Misbehaviours /\ UNCHANGED <<links, verdict, claim>>
  /\ AgentGoto(i, "close")
  /\ UNCHANGED <<batch, status, produced, sentinel, docs, tx, reqVars, workVars,
                 bootVars, announced, boundVars>>

\* Turn C closes the ingest row, whatever its status is by now.
AgentClose(i) ==
  /\ agent[i] = "close"
  /\ status' = [status EXCEPT ![i] = IF verdict[i] = "done_duplicate" THEN "done"
                                                               ELSE verdict[i]]
  /\ sentinel' = IF verdict[i] = "done_duplicate" THEN sentinel \cup {i}
                                                  ELSE sentinel \ {i}
  /\ \/ produced' = [produced EXCEPT ![i] = claim[i]]
     \/ "omits" \in Misbehaviours /\ produced' = [produced EXCEPT ![i] = {}]
  /\ AgentGoto(i, "exited")
  /\ UNCHANGED <<batch, docs, links, tx, reqVars, workVars, verdict, claim,
                 bootVars, announced, boundVars>>

\* The process dies at any point, or stops early with exit code 0.
AgentDies(i) ==
  /\ agent[i] \in {"read", "insert", "attach", "close"}
  /\ \/ AgentGoto(i, "crashed")
     \/ "quits" \in Misbehaviours /\ AgentGoto(i, "exited")
  /\ UNCHANGED <<dbVars, reqVars, workVars, verdict, claim, bootVars, announced,
                 boundVars>>

Agent(i) == AgentRead(i) \/ AgentInsert(i) \/ AgentAttach(i) \/ AgentClose(i)
            \/ AgentDies(i)

----------------------------------------------------------------------------
(***************************************************************************)
(* Users of the ledger, crashes and the boot scan.                         *)
(***************************************************************************)

\* softDeleteTransaction stamps deleted_at and leaves the status; restore
\* clears it.
RemoveTransaction(t) ==
  /\ LedgerEdits /\ server = "up"
  /\ tx[t] = "posted"
  /\ tx' = [tx EXCEPT ![t] = "removed"]
  /\ UNCHANGED <<batch, status, produced, sentinel, docs, links, reqVars,
                 workVars, agentVars, bootVars, announced, boundVars>>

RestoreTransaction(t) ==
  /\ LedgerEdits /\ server = "up"
  /\ tx[t] = "removed"
  /\ tx' = [tx EXCEPT ![t] = "posted"]
  /\ UNCHANGED <<batch, status, produced, sentinel, docs, links, reqVars,
                 workVars, agentVars, bootVars, announced, boundVars>>

\* The container goes down: the queue, the workers, the requests in progress
\* and the agent processes are lost, the database is not.
Crash ==
  /\ crashes < MaxCrashes
  /\ crashes' = crashes + 1
  /\ server' = "boot"
  /\ stale' = {}
  /\ queue' = <<>>
  /\ active' = 0
  /\ step' = [i \in Ingests |-> "idle"]
  /\ agent' = [i \in Ingests |-> "off"]
  /\ killed' = {}
  /\ req' = [b \in Batches |-> IF req[b] = "none" THEN "none" ELSE "closed"]
  /\ UNCHANGED <<dbVars, cur, todo, suppressed, verdict, claim, announced, faults>>

\* Mutant: every batch is taken as abandoned.
RecoverScanAll ==
  /\ server = "boot"
  /\ stale' = {b \in Batches : batch[b] # "absent"}
  /\ server' = IF stale' = {} THEN "up" ELSE "fail_batches"
  /\ UNCHANGED <<dbVars, reqVars, workVars, agentVars, announced, boundVars>>

\* Mutant: only the rows a worker had marked are failed.
RecoverIngestsMarked ==
  /\ server = "fail_ingests"
  /\ status' = [i \in Ingests |-> IF BatchOf[i] \in stale /\ status[i] = "processing"
                                  THEN "error" ELSE status[i]]
  /\ server' = "up"
  /\ stale' = {}
  /\ UNCHANGED <<batch, produced, sentinel, docs, links, tx, reqVars, workVars,
                 agentVars, announced, boundVars>>

\* recoverStaleBatches: three statements, before the server listens.
RecoverScan ==
  /\ server = "boot"
  /\ stale' = {b \in Batches : batch[b] \in OpenBatch}
  /\ server' = IF stale' = {} THEN "up" ELSE "fail_batches"
  /\ UNCHANGED <<dbVars, reqVars, workVars, agentVars, announced, boundVars>>

RecoverBatches ==
  /\ server = "fail_batches"
  /\ batch' = [b \in Batches |-> IF b \in stale THEN "failed" ELSE batch[b]]
  /\ server' = "fail_ingests"
  /\ UNCHANGED <<status, produced, sentinel, docs, links, tx, reqVars, workVars,
                 agentVars, stale, announced, boundVars>>

RecoverIngests ==
  /\ server = "fail_ingests"
  /\ status' = [i \in Ingests |-> IF BatchOf[i] \in stale /\ status[i] \in InFlight
                                  THEN "error" ELSE status[i]]
  /\ server' = "up"
  /\ stale' = {}
  /\ UNCHANGED <<batch, produced, sentinel, docs, links, tx, reqVars, workVars,
                 agentVars, announced, boundVars>>

\* start() swallows an error of the recovery and the server comes up anyway.
RecoverThrows ==
  /\ server \in {"boot", "fail_batches", "fail_ingests"}
  /\ faults < MaxFaults
  /\ faults' = faults + 1
  /\ server' = "up"
  /\ stale' = {}
  /\ UNCHANGED <<dbVars, reqVars, workVars, agentVars, announced, crashes>>

Recover == RecoverScan \/ RecoverBatches \/ RecoverIngests

----------------------------------------------------------------------------

Init ==
  /\ batch = [b \in Batches |-> "absent"]
  /\ status = [i \in Ingests |-> "absent"]
  /\ produced = [i \in Ingests |-> {}]
  /\ sentinel = {}
  /\ docs = {}
  /\ links = {}
  /\ tx = [i \in Ingests |-> "none"]
  /\ req = [b \in Batches |-> "none"]
  /\ cur = [b \in Batches |-> CHOOSE i \in Files(b) : TRUE]
  /\ todo = [b \in Batches |-> <<>>]
  /\ suppressed = [b \in Batches |-> {}]
  /\ queue = <<>>
  /\ active = 0
  /\ step = [i \in Ingests |-> "idle"]
  /\ agent = [i \in Ingests |-> "off"]
  /\ verdict = [i \in Ingests |-> "done"]
  /\ claim = [i \in Ingests |-> {}]
  /\ killed = {}
  /\ server = "up"
  /\ stale = {}
  /\ announced = [b \in Batches |-> 0]
  /\ crashes = 0
  /\ faults = 0

Next ==
  \/ \E b \in Batches : Request(b)
  \/ \E i \in Ingests : Worker(i) \/ Agent(i)
  \/ \E t \in Ingests : RemoveTransaction(t) \/ RestoreTransaction(t)
  \/ Crash \/ Recover \/ RecoverThrows

Spec == Init /\ [][Next]_vars

\* What the event loop goes on with by itself: a request it has accepted, a
\* worker it has started, the recovery it boots with.  Nothing obliges a user
\* to upload, an agent to make progress, or a fault to happen; an agent that
\* hangs is ended by the timer, which is a step of the worker.
RequestProgress(b) ==
  \/ \E i \in Ingests : UploadLookup(b, i)
  \/ UploadInsert(b) \/ ProbeLive(b) \/ ProbeInFlight(b)
  \/ InsertRows(b) \/ Enqueue(b) \/ CompleteBatch(b) \/ RequestAnnounce(b)

WorkerProgress(i) ==
  \/ WorkerLookup(i) \/ WorkerMark(i) \/ WorkerStart(i) \/ WorkerSpawn(i)
  \/ WorkerReap(i) \/ WorkerTimeout(i) \/ WorkerMarkError(i)
  \/ WorkerVerify(i) \/ WorkerForceError(i) \/ WorkerHeal(i)
  \/ WorkerFinish(i) \/ WorkerSettle(i) \/ WorkerAnnounce(i)

Fairness ==
  /\ \A b \in Batches : WF_vars(RequestProgress(b))
  /\ \A i \in Ingests : WF_vars(WorkerProgress(i))
  /\ WF_vars(Recover)

FairSpec == Spec /\ Fairness

----------------------------------------------------------------------------
(***************************************************************************)
(* Properties                                                              *)
(***************************************************************************)

\* Type correctness of the whole state.
TypeOK ==
  /\ batch \in [Batches -> BatchStatus]
  /\ status \in [Ingests -> IngestStatus]
  /\ produced \in [Ingests -> SUBSET Ingests]
  /\ sentinel \subseteq Ingests
  /\ docs \subseteq Docs
  /\ links \subseteq Docs \X Ingests
  /\ tx \in [Ingests -> {"none", "posted", "removed"}]
  /\ req \in [Batches -> ReqStep]
  /\ cur \in [Batches -> Ingests]
  /\ todo \in [Batches -> Seq(Ingests)]
  /\ suppressed \in [Batches -> SUBSET Ingests]
  /\ queue \in Seq(Ingests)
  /\ active \in Int /\ active <= MaxConcurrency
  /\ step \in [Ingests -> WorkerStep]
  /\ agent \in [Ingests -> AgentStep]
  /\ verdict \in [Ingests -> Verdict]
  /\ claim \in [Ingests -> SUBSET Ingests]
  /\ killed \subseteq Ingests
  /\ server \in {"up", "boot", "fail_batches", "fail_ingests"}
  /\ stale \subseteq Batches
  /\ announced \in [Batches -> Nat]
  /\ crashes \in 0 .. MaxCrashes
  /\ faults \in 0 .. MaxFaults

\* A batch that reads `extracted` has all its rows, and every one of them is
\* terminal: neither a worker picking a row up late (markProcessing is an
\* unguarded UPDATE), nor an agent that outlived its timeout, nor a restart
\* ever shows a client an extracted batch with work outstanding.
ExtractedIsComplete ==
  \A b \in Batches : batch[b] = "extracted" =>
    \A i \in Files(b) : status[i] \in Terminal

\* Once terminal, an ingest row never reads queued or processing again.
NeverReopened ==
  [][\A i \in Ingests : status[i] \in Terminal => status'[i] \in Terminal]_vars

\* batch.extracted is emitted, and reconciliation started, at most once per
\* batch, although every child and the request itself try to complete it.
AnnouncedOnce == \A b \in Batches : announced[b] <= 1

\* A row waiting in an open batch of a running server is really held by the
\* in-memory queue, by a worker that has not marked it yet, or by the request
\* that is about to push it: no job is lost between the database and memory.
NoJobLost ==
  server = "up" => \A i \in Ingests : status[i] = "queued" =>
    \/ \E n \in 1 .. Len(queue) : queue[n] = i
    \/ step[i] \in {"lookup", "mark", "fail"}
    \/ req[BatchOf[i]] = "enqueue"

\* The pool is work conserving and bounded: a file waits in the queue only
\* while MaxConcurrency workers are really running.
PoolSaturated ==
  /\ active = Cardinality({i \in Ingests : step[i] # "idle"})
  /\ active <= MaxConcurrency
  /\ queue # <<>> => active = MaxConcurrency

\* A suppressed duplicate is never the only trace of a document: another
\* ingest of the same bytes was really submitted for extraction.
DedupHasWitness ==
  \A i \in Ingests : status[i] = "dedup" =>
    \E j \in Ingests \ {i} : /\ DocOf[j] = DocOf[i]
                            /\ status[j] \notin {"absent", "dedup"}

\* #125: when its worker is gone, a receipt that reads done either wrote a
\* transaction or is the repeated email the sentinel names.
DoneIsBacked ==
  \A i \in Ingests :
    status[i] = "done" /\ step[i] = "idle" /\ DocOf[i] \in Receipts
      => i \in sentinel \/ tx[i] # "none"

\* #134: an ingest whose worker accepted near_dup left its document linked to
\* the transaction it names.
NearDupIsLinked ==
  \A i \in Ingests : status[i] = "near_dup" /\ step[i] = "idle"
    => \E t \in produced[i] : <<DocOf[i], t>> \in links

\* #225: two documents of one money event never both become live money.
NoDoubleCount ==
  \A t, u \in Ingests : tx[t] = "posted" /\ tx[u] = "posted" /\ SameEvent(t, u)
    => t = u

\* A duplicate's provenance is a transaction that was not removed when the
\* probe chose it.
ProvenanceIsLive ==
  [][\A i \in Ingests : status[i] = "absent" /\ produced'[i] # produced[i]
       => \A t \in produced'[i] : tx[t] = "posted"]_vars

\* Every accepted batch leaves pending/processing.
BatchSettles ==
  \A b \in Batches : batch[b] \in OpenBatch ~> batch[b] \notin OpenBatch

\* Every row leaves queued/processing, so no client polls it forever and no
\* later upload of the same bytes is suppressed in its favour forever.
IngestSettles ==
  \A i \in Ingests : status[i] \in InFlight ~> status[i] \in Terminal
============================================================================
