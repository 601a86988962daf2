------------------------- MODULE IngestPipelineInv --------------------------
(***************************************************************************)
(* The inductive invariant of the pipeline, and the batch life cycle it    *)
(* implements.  TLC checks both on small instances; IngestPipelineProofs   *)
(* proves them for every instance.                                         *)
(***************************************************************************)
EXTENDS IngestPipeline

\* Where a request is before and after the INSERT of its rows.
BeforeRows == {"none", "next", "insert_doc", "probe_live", "probe_flight"}
AfterRows == {"enqueue", "complete", "announce"}

Queued == {queue[n] : n \in 1 .. Len(queue)}

\* The rows of a batch exist together or not at all, and exist exactly when
\* the request has got past its INSERT; a request that died before or after
\* says nothing.
RowsTogether ==
  /\ \A i, j \in Ingests : BatchOf[i] = BatchOf[j] /\ status[i] = "absent"
                             => status[j] = "absent"
  /\ \A i \in Ingests :
       /\ req[BatchOf[i]] \in BeforeRows => status[i] = "absent"
       /\ req[BatchOf[i]] \in AfterRows => status[i] # "absent"

\* A batch row exists once its request has started, and is neither completed
\* nor failed while the request has not inserted the batch's rows.
BatchOpened ==
  \A b \in Batches :
    /\ req[b] = "none" => batch[b] = "absent"
    /\ req[b] \in BeforeRows \ {"none"} => batch[b] = "pending"

\* A request handles its own files, each once, and decides each one way.
FilesSplit ==
  \A b \in Batches :
    /\ InTodo(b) \cup suppressed[b] \subseteq Files(b)
    /\ InTodo(b) \cap suppressed[b] = {}
    /\ \A m, n \in 1 .. Len(todo[b]) : todo[b][m] = todo[b][n] => m = n
    /\ req[b] \in {"insert_doc", "probe_live", "probe_flight"}
         => cur[b] \in Files(b) \ (InTodo(b) \cup suppressed[b])

\* What is about to be pushed, or waits in the queue, waits there once, is
\* held by no worker and still reads queued.
QueueHeld ==
  /\ \A m, n \in 1 .. Len(queue) : queue[m] = queue[n] => m = n
  /\ \A i \in Queued : status[i] = "queued" /\ step[i] = "idle"
                         /\ req[BatchOf[i]] # "enqueue"
  /\ \A b \in Batches : req[b] = "enqueue" =>
       \A i \in InTodo(b) : status[i] = "queued" /\ step[i] = "idle"

\* A worker that has not marked its row finds it queued; one that has marked it
\* and not started the agent finds it processing; no agent runs before that.
WorkerRows ==
  \A i \in Ingests :
    /\ step[i] \in {"lookup", "mark"} => status[i] = "queued"
    /\ step[i] \in {"start", "spawn"} => status[i] = "processing"
    /\ step[i] # "idle" => status[i] # "absent"
    /\ agent[i] # "off" => /\ status[i] \notin {"absent", "queued"}
                           /\ step[i] \notin {"start", "spawn"}

\* While the server is down or recovering, nothing runs, and the batches the
\* scan selected are still open.
DownIsQuiet ==
  /\ server # "up" =>
       /\ queue = <<>>
       /\ \A i \in Ingests : step[i] = "idle" /\ agent[i] = "off"
       /\ \A b \in Batches : req[b] \in {"none", "closed"}
  /\ server = "fail_batches" => \A b \in stale : batch[b] \in OpenBatch

\* The one announcement of a batch is still to come, or was made.
AnnounceToken ==
  /\ \A b \in Batches :
       /\ batch[b] # "extracted" => announced[b] = 0 /\ req[b] # "announce"
       /\ req[b] = "announce" => announced[b] = 0
  /\ \A i \in Ingests : step[i] = "announce" =>
       /\ batch[BatchOf[i]] = "extracted"
       /\ announced[BatchOf[i]] = 0
       /\ req[BatchOf[i]] # "announce"
       /\ \A j \in Ingests \ {i} :
            BatchOf[j] = BatchOf[i] => step[j] # "announce"

PipelineInv ==
  /\ TypeOK
  /\ RowsTogether
  /\ BatchOpened
  /\ FilesSplit
  /\ QueueHeld
  /\ WorkerRows
  /\ DownIsQuiet
  /\ ExtractedIsComplete
  /\ AnnounceToken
  /\ AnnouncedOnce

----------------------------------------------------------------------------
(***************************************************************************)
(* What the pool, the queue, the duplicate check and the guards keep on    *)
(* top of it.  Each is inductive together with PipelineInv.                *)
(***************************************************************************)

\* The workers holding a slot.
Running == {i \in Ingests : step[i] # "idle"}

\* The counter activeWorkers is the number of running workers.
PoolCount ==
  /\ IsFiniteSet(Running)
  /\ PoolSaturated

\* Where a waiting row is while nothing fails and the process went down at
\* most once: with the running process, or among the batches the boot scan is
\* about to fail.
JobsHeld ==
  /\ \A b \in Batches : req[b] # "none" => batch[b] # "absent"
  /\ crashes = 0 => server = "up" /\ \A b \in Batches : batch[b] # "failed"
  /\ faults = 0 /\ crashes <= 1 =>
       \A i \in Ingests : status[i] = "queued" =>
         CASE server = "up"   -> \/ i \in Queued
                                 \/ step[i] \in {"lookup", "mark"}
                                 \/ /\ req[BatchOf[i]] = "enqueue"
                                    /\ i \in InTodo(BatchOf[i])
           [] server = "boot" -> batch[BatchOf[i]] \in OpenBatch
           [] OTHER           -> BatchOf[i] \in stale

\* Bytes that are being, or were, extracted under a row of their own.
Witness(i, j) == DocOf[j] = DocOf[i] /\ status[j] \notin {"absent", "dedup"}

\* A linked document was extracted; a file is suppressed in favour of a row
\* that exists or of one the same request is about to insert; and a row born
\* dedup is never run.
DedupWitnessed ==
  /\ \A i \in Ingests : status[i] = "dedup" => step[i] = "idle" /\ agent[i] = "off"
  /\ \A l \in links : \E j \in Ingests :
       DocOf[j] = l[1] /\ status[j] \notin {"absent", "dedup"}
  /\ \A b \in Batches : \A i \in suppressed[b] : \E j \in Ingests \ {i} :
       \/ Witness(i, j)
       \/ DocOf[j] = DocOf[i] /\ j \in InTodo(b)
  /\ DedupHasWitness

\* When a timed-out agent is gone at once, an agent runs only while its worker
\* waits for it.
AgentOwned ==
  ~LateAgents =>
    /\ killed = {}
    /\ \A i \in Ingests : agent[i] # "off" => step[i] = "wait"

\* Before its verdict is checked.
Unchecked(i) == step[i] \in {"wait", "verify", "force", "fail"}

\* What the guards of the worker rest on while no call fails and the process
\* stays up: a claim of a transaction is either empty or true, and a row that
\* the guards let pass is what it says.
GuardsBite ==
  ~LateAgents /\ crashes = 0 /\ faults = 0 =>
    \A i \in Ingests :
      /\ agent[i] = "attach" => verdict[i] = "near_dup"
      /\ step[i] = "heal" => status[i] = "done" /\ tx[i] # "none"
      /\ status[i] = "near_dup" =>
           Unchecked(i) \/ \E t \in produced[i] : <<DocOf[i], t>> \in links
      /\ "invents" \notin Misbehaviours =>
           /\ agent[i] = "close" /\ verdict[i] = "done" =>
                claim[i] = {} \/ tx[i] # "none"
           /\ status[i] = "done" /\ DocOf[i] \in Receipts =>
                \/ i \in sentinel \/ tx[i] # "none"
                \/ Unchecked(i) /\ produced[i] = {}

\* With one worker, the event an agent is about to insert has no live money.
InsertIsFirst ==
  MaxConcurrency = 1 /\ ~LateAgents /\ ~LedgerEdits =>
    /\ \A i \in Ingests : agent[i] = "insert" =>
         \A t \in Ingests : SameEvent(i, t) => tx[t] # "posted"
    /\ NoDoubleCount

FullInv ==
  /\ PipelineInv
  /\ PoolCount
  /\ JobsHeld
  /\ DedupWitnessed
  /\ AgentOwned
  /\ GuardsBite
  /\ InsertIsFirst

----------------------------------------------------------------------------

\* The pipeline seen through the API.
Phase(s) == IF s \in OpenBatch THEN "open" ELSE s
Row(s) == IF s = "absent" THEN "none" ELSE IF s \in InFlight THEN "open"
                                                            ELSE "closed"

Lifecycle == INSTANCE BatchLifecycle WITH
  Rows <- Ingests,
  phase <- [b \in Batches |-> Phase(batch[b])],
  row <- [i \in Ingests |-> Row(status[i])],
  notices <- announced

\* The pipeline implements the life cycle: its queue, its concurrent workers,
\* late agents, crashes and the boot scan never show a client anything else.
BatchLifecycleHolds == Lifecycle!Spec
=============================================================================
