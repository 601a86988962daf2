------------------------------ MODULE BatchStream ------------------------------
(***************************************************************************)
(* GET /v1/batches/:id/stream (src/routes/ingest.ts): a client follows one *)
(* batch by a snapshot of it and the events that the worker publishes on   *)
(* the bus of the process (src/events/bus.ts) from then on.                *)
(*                                                                         *)
(* The snapshot is three queries.  Hello and the subscription to the bus   *)
(* follow in one turn of the event loop, so an event published while the   *)
(* queries run reaches no listener.  The bus delivers to whoever listens   *)
(* at that moment, and keeps nothing.                                      *)
(***************************************************************************)
EXTENDS Integers, FiniteSets

CONSTANTS
  Jobs,         \* the ingests of the batch
  Streams,      \* connections at a time
  NoJob,
  MaxOpens      \* bound: connections in a behaviour

ASSUME StreamAssumption == NoJob \notin Jobs /\ MaxOpens \in Nat

VARIABLES
  batch,     \* batches.status
  job,       \* ingests.status
  worker,    \* what the worker does next for a job
  emitted,   \* every event published so far
  stream,
  opens

streamVars == <<batch, job, worker, emitted, stream, opens>>

Final   == {"reconciled", "failed"}     \* TERMINAL_STATUSES
Settled == {"done", "error"}

Event(name, j) == [name |-> name, job |-> j]

\* What a connection has: the snapshot, what it was sent since, and what was
\* published while it read the snapshot.
Closed == [at |-> "closed", gone |-> FALSE, status |-> "none",
           jobs |-> [j \in Jobs |-> "queued"], sent |-> {}, missed |-> {}]

\* emitter.emit: every open stream of the batch is sent the event.
Publish(e) ==
  /\ emitted' = emitted \cup {e}
  /\ stream' = [s \in Streams |->
       CASE stream[s].at = "open"                  -> [stream[s] EXCEPT !.sent = @ \cup {e}]
         [] stream[s].at \in {"reading", "counted"} -> [stream[s] EXCEPT !.missed = @ \cup {e}]
         [] OTHER                                  -> stream[s]]

Goes(j, at) == worker' = [worker EXCEPT ![j] = at]
Silent      == UNCHANGED <<emitted, stream>>

----------------------------------------------------------------------------
(* The worker, as far as it publishes (see IngestPipeline).                *)

MarkProcessing(j) ==
  /\ worker[j] = "mark"
  /\ job' = [job EXCEPT ![j] = "processing"]
  /\ Goes(j, "start") /\ Silent
  /\ UNCHANGED <<batch, opens>>

ChildStarted(j) ==
  /\ worker[j] = "start"
  /\ batch' = IF batch = "pending" THEN "processing" ELSE batch
  /\ Goes(j, "started") /\ Silent
  /\ UNCHANGED <<job, opens>>

PublishStarted(j) ==
  /\ worker[j] = "started"
  /\ Publish(Event("job.started", j))
  /\ Goes(j, "extract")
  /\ UNCHANGED <<batch, job, opens>>

\* The agent closes its row, or the worker stamps it with an error.
JobSettles(j) ==
  /\ worker[j] = "extract"
  /\ \E st \in Settled : job' = [job EXCEPT ![j] = st]
  /\ Goes(j, "ended") /\ Silent
  /\ UNCHANGED <<batch, opens>>

PublishEnded(j) ==
  /\ worker[j] = "ended"
  /\ Publish(Event(IF job[j] = "done" THEN "job.done" ELSE "job.error", j))
  /\ Goes(j, "complete")
  /\ UNCHANGED <<batch, job, opens>>

\* The guarded UPDATE of onBatchChildTerminated; its winner counts the rows
\* and publishes after that.
ChildTerminated(j) ==
  /\ worker[j] = "complete"
  /\ IF batch \in {"pending", "processing"} /\ \A i \in Jobs : job[i] \in Settled
     THEN batch' = "extracted" /\ Goes(j, "announce")
     ELSE UNCHANGED batch /\ Goes(j, "rest")
  /\ Silent
  /\ UNCHANGED <<job, opens>>

PublishExtracted(j) ==
  /\ worker[j] = "announce"
  /\ Publish(Event("batch.extracted", NoJob))
  /\ Goes(j, "rest")
  /\ UNCHANGED <<batch, job, opens>>

\* The engine moves the batch on (see Reconcile) and publishes nothing.
ReconcileBatch ==
  /\ \/ batch = "extracted" /\ batch' = "reconciling"
     \/ batch = "reconciling" /\ batch' \in {"reconciled", "reconcile_error"}
  /\ UNCHANGED <<job, worker, emitted, stream, opens>>

----------------------------------------------------------------------------
(* Connections.                                                            *)

At(s, at) == stream[s].at = at

\* getBatch: the batch row, then the counts of its ingests.
ReadBatch(s) ==
  /\ At(s, "closed") /\ opens < MaxOpens /\ opens' = opens + 1
  /\ stream' = [stream EXCEPT ![s] = [Closed EXCEPT !.at = "reading", !.status = batch]]
  /\ UNCHANGED <<batch, job, worker, emitted>>

ReadCounts(s) ==
  /\ At(s, "reading")
  /\ stream' = [stream EXCEPT ![s].at = "counted", ![s].jobs = job]
  /\ UNCHANGED <<batch, job, worker, emitted, opens>>

\* Mutant: the listeners are put on one turn of the event loop after hello.
SubscribeLater(s) ==
  /\ stream[s].at \in {"counted", "hello"}
  /\ stream' = [stream EXCEPT ![s].at = IF At(s, "counted") THEN "hello" ELSE "open"]
  /\ UNCHANGED <<batch, job, worker, emitted, opens>>

\* Hello, and the listeners; a batch that is final is told so and hung up.
\* The `close' of a client that left during the queries is over by now, and
\* nothing will take its listeners off the bus.
Subscribe(s) ==
  /\ At(s, "counted")
  /\ stream' = [stream EXCEPT ![s] =
       IF stream[s].status \in Final THEN Closed
       ELSE [stream[s] EXCEPT !.at = IF stream[s].gone THEN "leaked" ELSE "open"]]
  /\ UNCHANGED <<batch, job, worker, emitted, opens>>

Disconnect(s) ==
  /\ \/ stream[s].at \in {"reading", "counted"} /\ ~stream[s].gone
        /\ stream' = [stream EXCEPT ![s].gone = TRUE]
     \/ At(s, "open") /\ stream' = [stream EXCEPT ![s] = Closed]
  /\ UNCHANGED <<batch, job, worker, emitted, opens>>

\* The process dies with its sockets; the next one fails the open batch
\* before it listens.
LoseStreams ==
  /\ stream' = [s \in Streams |-> Closed]
  /\ worker' = [j \in Jobs |-> "rest"]
  /\ IF batch \in {"pending", "processing"}
     THEN /\ batch' = "failed"
          /\ job' = [j \in Jobs |-> IF job[j] \in Settled THEN job[j] ELSE "error"]
     ELSE UNCHANGED <<batch, job>>
  /\ UNCHANGED <<emitted, opens>>

StreamInit ==
  /\ batch = "pending" /\ emitted = {} /\ opens = 0
  /\ job = [j \in Jobs |-> "queued"]
  /\ worker = [j \in Jobs |-> "mark"]
  /\ stream = [s \in Streams |-> Closed]

StreamNext ==
  \/ \E j \in Jobs :
       \/ MarkProcessing(j) \/ ChildStarted(j) \/ PublishStarted(j) \/ JobSettles(j)
       \/ PublishEnded(j) \/ ChildTerminated(j) \/ PublishExtracted(j)
  \/ \E s \in Streams : ReadBatch(s) \/ ReadCounts(s) \/ Subscribe(s) \/ Disconnect(s)
  \/ ReconcileBatch

----------------------------------------------------------------------------
\* What the snapshot of a stream shows of an event.
Shows(s, e) ==
  CASE e.name = "batch.extracted" -> stream[s].status \notin {"pending", "processing"}
    [] e.name = "job.started"     -> stream[s].jobs[e.job] # "queued"
    [] OTHER                      -> stream[s].jobs[e.job] \in Settled

\* A client that is connected knows of every event: from the snapshot it was
\* given, from the stream, or it was published during the very queries of
\* the snapshot, which is the only time one can be missed.
EventsReachTheStream ==
  \A s \in Streams, e \in emitted :
    stream[s].at = "open" => Shows(s, e) \/ e \in stream[s].sent \/ e \in stream[s].missed

\* What routes/ingest.ts:161 says of a batch that ends: its streams are
\* closed.  They are not, as no code publishes batch.reconciled.
FinalClosesStreams ==
  \A s \in Streams : (stream[s].at = "open" /\ batch \in Final) ~> stream[s].at # "open"

\* What routes/ingest.ts:162 says of a client that leaves: its subscriptions
\* are torn down.  They are not when it leaves during the snapshot.
ListenersAreReleased == \A s \in Streams : stream[s].at # "leaked"
=============================================================================
