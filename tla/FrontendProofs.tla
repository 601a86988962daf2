---------------------------- MODULE FrontendProofs ----------------------------
(***************************************************************************)
(* What holds of the server's clients for any number of keys, requests,    *)
(* jobs, connections and rows: replies, streams and pages.                 *)
(***************************************************************************)
EXTENDS Frontend, TLAPS

(***************************************************************************)
(* Replies under a key                                                     *)
(***************************************************************************)

Creation  == [key : Keys, body : Bodies]
ReplyRow  == [body : Bodies \cup {None}, txn : Nat, fresh : BOOLEAN]
RequestOf == [at : {"idle", "run", "reply", "store"}, key : Keys \cup {None},
              body : Bodies \cup {None}, txn : Nat]

KeysTyped == /\ stored \in [Keys -> ReplyRow]
             /\ made \in Seq(Creation)
             /\ request \in [Requests -> RequestOf]

CreatedFrom(n, k, b) == n \in DOMAIN made /\ made[n] = [key |-> k, body |-> b]

StoredMatch ==
  \A k \in Keys : stored[k] # NoReply => CreatedFrom(stored[k].txn, k, stored[k].body)

RequestsMatch ==
  \A r \in Requests :
    LET q == request[r]
    IN  /\ q = Waiting \/ (q.at # "idle" /\ q.key \in Keys /\ q.body \in Bodies)
        /\ q.at \in {"reply", "store"} => CreatedFrom(q.txn, q.key, q.body)

Answered(r, k) == request[r].key = k /\ request[r].at \in {"reply", "store"}

\* Under a key whose reply could always be found there is one request at a
\* time, and what it made is stored or about to be.
Orderly(k) ==
  /\ \A q, r \in Requests : request[q].key = k /\ request[r].key = k => q = r
  /\ stored[k] # NoReply => stored[k].fresh
  /\ \A i \in DOMAIN made :
       made[i].key = k =>
         /\ stored[k].fresh \/ \E r \in Requests : Answered(r, k)
         /\ \A r \in Requests : ~(request[r].key = k /\ request[r].at = "run")
         /\ \A j \in DOMAIN made : made[j].key = k => i = j

KeysInv == /\ KeysTyped
           /\ RepliesMatch /\ StoredMatch /\ RequestsMatch
           /\ \A k \in Keys \ excused : Orderly(k)

LEMMA KeysInitially == KeysInit => KeysInv
<1> SUFFICES ASSUME KeysInit
             PROVE  KeysInv
  OBVIOUS
<1>1. KeysTyped
  BY DEF KeysInit, KeysTyped, NoReply, ReplyRow, Waiting, RequestOf, Creation
<1>2. RepliesMatch /\ StoredMatch /\ RequestsMatch
  BY DEF KeysInit, RepliesMatch, StoredMatch, RequestsMatch, Waiting
<1>3. \A k \in Keys : Orderly(k)
  <2>1. \A r \in Requests : request[r].key = None
    BY DEF KeysInit, Waiting
  <2>2. \A k \in Keys : stored[k] = NoReply
    BY DEF KeysInit
  <2>3. DOMAIN made = {}
    BY DEF KeysInit
  <2> QED
    BY <2>1, <2>2, <2>3, IdempotencyAssumption DEF IdempotencyAssumption, Orderly
<1> QED
  BY <1>1, <1>2, <1>3 DEF KeysInv

\* A step that creates nothing keeps what is known of the creations.
LEMMA NothingMade ==
  ASSUME KeysInv, UNCHANGED made, KeysTyped',
         \A x \in told' \ told : CreatedFrom(x.txn, x.key, x.body),
         \A k \in Keys : \/ stored'[k] = stored[k]
                         \/ stored'[k] = NoReply
                         \/ CreatedFrom(stored'[k].txn, k, stored'[k].body),
         \A r \in Requests :
           \/ request'[r] = request[r]
           \/ request'[r] = Waiting
           \/ /\ request'[r].at # "idle"
              /\ request'[r].key \in Keys /\ request'[r].body \in Bodies
              /\ request'[r].at \in {"reply", "store"} =>
                   CreatedFrom(request'[r].txn, request'[r].key, request'[r].body)
  PROVE  RepliesMatch' /\ StoredMatch' /\ RequestsMatch'
<1>1. RepliesMatch'
  BY DEF KeysInv, RepliesMatch, CreatedFrom
<1>2. StoredMatch'
  BY DEF KeysInv, StoredMatch, CreatedFrom
<1>3. RequestsMatch'
  <2> SUFFICES ASSUME NEW r \in Requests
               PROVE  /\ \/ request'[r] = Waiting
                         \/ /\ request'[r].at # "idle"
                            /\ request'[r].key \in Keys /\ request'[r].body \in Bodies
                      /\ request'[r].at \in {"reply", "store"} =>
                           CreatedFrom(request'[r].txn, request'[r].key, request'[r].body)
    BY DEF RequestsMatch, CreatedFrom
  <2>1. CASE request'[r] = request[r]
    BY <2>1 DEF KeysInv, RequestsMatch
  <2>2. CASE request'[r] = Waiting
    BY <2>2 DEF Waiting
  <2> QED
    BY <2>1, <2>2
<1> QED
  BY <1>1, <1>2, <1>3

LEMMA KeysStep ==
  ASSUME KeysInv, KeysNext
  PROVE  KeysInv'
<1>0. KeysTyped /\ RepliesMatch /\ StoredMatch /\ RequestsMatch /\ None \notin Keys
  BY IdempotencyAssumption DEF IdempotencyAssumption, KeysInv
<1>o. \A k \in Keys \ excused : Orderly(k)
  BY DEF KeysInv
<1>1. ASSUME NEW r \in Requests, Replay(r)
      PROVE  KeysInv'
  <2>1. PICK k \in Keys, b \in Bodies :
          /\ Matches(k, b)
          /\ told' = told \cup {[key |-> k, body |-> b, txn |-> stored[k].txn]}
          /\ UNCHANGED <<stored, made, request, excused>>
    BY <1>1 DEF Replay
  <2>2. CreatedFrom(stored[k].txn, k, b)
    BY <1>0, <2>1 DEF StoredMatch, Matches, NoReply
  <2>3. KeysTyped' /\ \A l \in Keys \ excused' : Orderly(l)'
    BY <1>0, <1>o, <2>1 DEF KeysTyped, Orderly, Answered
  <2>4. RepliesMatch' /\ StoredMatch' /\ RequestsMatch'
    BY <2>1, <2>2, <2>3, NothingMade
  <2> QED
    BY <2>3, <2>4 DEF KeysInv
<1>2. ASSUME NEW r \in Requests, LookUpReply(r)
      PROVE  KeysInv'
  <2>1. PICK k \in Keys, b \in Bodies :
          /\ request[r] = Waiting /\ ~stored[k].fresh
          /\ request' = [request EXCEPT ![r] =
                          [at |-> "run", key |-> k, body |-> b, txn |-> 0]]
          /\ excused' = excused \cup (IF InFlight(k) THEN {k} ELSE {})
          /\ UNCHANGED <<stored, made, told>>
    BY <1>2 DEF LookUpReply, Put, Excuse
  <2>2. KeysTyped'
    BY <1>0, <2>1 DEF KeysTyped, RequestOf
  <2>3. RepliesMatch' /\ StoredMatch' /\ RequestsMatch'
    BY <1>0, <2>1, <2>2, NothingMade DEF KeysTyped
  <2>4. ASSUME NEW l \in Keys \ excused'
        PROVE  Orderly(l)'
    <3>1. Orderly(l) /\ (l = k => ~InFlight(k))
      BY <1>o, <2>1, <2>4
    <3>2. request[r].key = None /\ \A q \in Requests \ {r} : request'[q] = request[q]
      BY <1>0, <2>1 DEF KeysTyped, Waiting
    <3>3. request'[r].key = k /\ request'[r].at = "run"
      BY <1>0, <2>1 DEF KeysTyped
    <3>4. CASE l # k
      BY <1>0, <2>1, <3>1, <3>2, <3>3, <3>4 DEF Orderly, Answered
    <3>5. CASE l = k
      <4>1. \A q \in Requests : request[q].key # k
        BY <3>1, <3>5 DEF InFlight
      <4>2. \A i \in DOMAIN made : made[i].key # k
        BY <2>1, <3>1, <3>5, <4>1 DEF Orderly, Answered
      <4> QED
        BY <2>1, <3>1, <3>2, <3>3, <3>5, <4>1, <4>2 DEF Orderly
    <3> QED
      BY <3>4, <3>5
  <2> QED
    BY <2>2, <2>3, <2>4 DEF KeysInv
<1>3. ASSUME NEW r \in Requests, RunHandler(r)
      PROVE  KeysInv'
  <2> DEFINE k == request[r].key
             b == request[r].body
             n == Len(made) + 1
  <2>1. /\ request[r].at = "run" /\ k \in Keys /\ b \in Bodies
        /\ made' = Append(made, [key |-> k, body |-> b])
        /\ UNCHANGED <<stored, told, excused>>
    BY <1>0, <1>3 DEF RunHandler, RequestsMatch, Waiting
  <2>2. /\ made' \in Seq(Creation) /\ Len(made') = n /\ n \in Nat
        /\ DOMAIN made' = DOMAIN made \cup {n} /\ n \notin DOMAIN made
        /\ \A i \in DOMAIN made : made'[i] = made[i]
        /\ made'[n] = [key |-> k, body |-> b]
    BY <1>0, <2>1 DEF KeysTyped, Creation
  <2>3. request' = [request EXCEPT ![r] = [request[r] EXCEPT !.at = "reply", !.txn = n]]
    BY <1>3, <2>2 DEF RunHandler, Put
  <2>4. /\ \A q \in Requests \ {r} : request'[q] = request[q]
        /\ request'[r] = [at |-> "reply", key |-> k, body |-> b, txn |-> n]
    BY <1>0, <2>3 DEF KeysTyped, RequestOf
  <2>5. KeysTyped'
    BY <1>0, <2>1, <2>2, <2>3 DEF KeysTyped, RequestOf
  <2>6. \A i, l, c : CreatedFrom(i, l, c) => CreatedFrom(i, l, c)'
    BY <2>2 DEF CreatedFrom
  <2>7. RepliesMatch' /\ StoredMatch'
    BY <1>0, <2>1, <2>2, <2>6 DEF RepliesMatch, StoredMatch, CreatedFrom
  <2>8. RequestsMatch'
    BY <1>0, <2>1, <2>2, <2>4, <2>6 DEF RequestsMatch, CreatedFrom, Waiting
  <2>9. ASSUME NEW l \in Keys \ excused'
        PROVE  Orderly(l)'
    <3>1. Orderly(l)
      BY <1>o, <2>1, <2>9
    <3>2. CASE l # k
      <4>1. \A i \in DOMAIN made' :
              made'[i].key = l => i \in DOMAIN made /\ made[i].key = l
        BY <2>2, <3>2
      <4>2. \A q \in Requests :
              /\ request'[q].key = l => q # r /\ request'[q] = request[q]
              /\ request[q].key = l => request'[q] = request[q]
        BY <2>4, <3>2
      <4> HIDE DEF k
      <4> QED
        BY <2>1, <3>1, <4>1, <4>2 DEF Orderly, Answered
    <3>3. CASE l = k
      <4>1. \A i \in DOMAIN made : made[i].key # l
        BY <2>1, <3>1, <3>3 DEF Orderly
      <4>2. \A q \in Requests \ {r} : request[q].key # l
        BY <3>1, <3>3 DEF Orderly
      <4> QED
        BY <2>1, <2>2, <2>4, <3>1, <3>3, <4>1, <4>2, SMTT(30) DEF Orderly, Answered
    <3> QED
      BY <3>2, <3>3
  <2> QED
    BY <2>5, <2>7, <2>8, <2>9 DEF KeysInv
<1>4. ASSUME NEW r \in Requests, Reply(r)
      PROVE  KeysInv'
  <2>1. /\ request[r].at = "reply"
        /\ told' = told \cup {[key |-> request[r].key, body |-> request[r].body,
                               txn |-> request[r].txn]}
        /\ request' = [request EXCEPT ![r] = [request[r] EXCEPT !.at = "store"]]
        /\ UNCHANGED <<stored, made, excused>>
    BY <1>4 DEF Reply, Put
  <2>2. /\ \A q \in Requests \ {r} : request'[q] = request[q]
        /\ request'[r].at = "store" /\ request'[r].key = request[r].key
        /\ request'[r].body = request[r].body /\ request'[r].txn = request[r].txn
    BY <1>0, <2>1 DEF KeysTyped, RequestOf
  <2>3. /\ CreatedFrom(request[r].txn, request[r].key, request[r].body)
        /\ request[r].key \in Keys /\ request[r].body \in Bodies
    BY <1>0, <2>1 DEF RequestsMatch, Waiting
  <2>4. KeysTyped'
    BY <1>0, <2>1 DEF KeysTyped, RequestOf
  <2>5. RepliesMatch' /\ StoredMatch' /\ RequestsMatch'
    BY <2>1, <2>2, <2>3, <2>4, NothingMade
  <2>6. \A l \in Keys \ excused' : Orderly(l)'
    BY <1>o, <2>1, <2>2 DEF Orderly, Answered
  <2> QED
    BY <2>4, <2>5, <2>6 DEF KeysInv
<1>5. ASSUME NEW r \in Requests, HandlerThrows(r) \/ ReplyLost(r)
      PROVE  KeysInv'
  <2>1. /\ request' = [request EXCEPT ![r] = Waiting]
        /\ excused \subseteq excused'
        /\ request[r].at # "run" => request[r].key \in excused'
        /\ UNCHANGED <<stored, made, told>>
    BY <1>5 DEF HandlerThrows, ReplyLost, Put, Excuse
  <2>2. /\ \A q \in Requests \ {r} : request'[q] = request[q]
        /\ request'[r] = Waiting /\ Waiting.key = None
    BY <1>0, <2>1 DEF KeysTyped, Waiting
  <2>3. KeysTyped'
    BY <1>0, <2>1 DEF KeysTyped, RequestOf, Waiting
  <2>4. RepliesMatch' /\ StoredMatch' /\ RequestsMatch'
    BY <2>1, <2>2, <2>3, NothingMade
  <2>5. ASSUME NEW l \in Keys \ excused'
        PROVE  Orderly(l)'
    <3>1. Orderly(l) /\ l # None
      BY <1>0, <1>o, <2>1, <2>5
    <3>2. \A q \in Requests : /\ Answered(q, l) => Answered(q, l)'
                              /\ request'[q].key = l => request'[q] = request[q]
      BY <2>1, <2>2, <2>5, <3>1 DEF Answered
    <3> QED
      BY <2>1, <3>1, <3>2 DEF Orderly
  <2> QED
    BY <2>3, <2>4, <2>5 DEF KeysInv
<1>6. ASSUME NEW r \in Requests, StoreReply(r)
      PROVE  KeysInv'
  <2> DEFINE k == request[r].key
             reply == [body |-> request[r].body, txn |-> request[r].txn, fresh |-> TRUE]
  <2>1. /\ request[r].at = "store"
        /\ stored' = IF stored[k] # NoReply THEN stored ELSE [stored EXCEPT ![k] = reply]
        /\ request' = [request EXCEPT ![r] = Waiting]
        /\ UNCHANGED <<made, told, excused>>
    BY <1>6 DEF StoreReply, Put
  <2>2. /\ \A q \in Requests \ {r} : request'[q] = request[q]
        /\ request'[r] = Waiting /\ Waiting.key = None
    BY <1>0, <2>1 DEF KeysTyped, Waiting
  <2>3. k \in Keys /\ CreatedFrom(request[r].txn, k, request[r].body) /\ reply \in ReplyRow
    BY <1>0, <2>1 DEF RequestsMatch, Waiting, KeysTyped, RequestOf, ReplyRow
  <2>4. /\ \A l \in Keys \ {k} : stored'[l] = stored[l]
        /\ stored'[k] = stored[k] \/ stored'[k] = reply
        /\ stored[k] # NoReply \/ stored'[k] = reply
    BY <1>0, <2>1, <2>3 DEF KeysTyped
  <2>5. KeysTyped'
    BY <1>0, <2>1, <2>3 DEF KeysTyped, RequestOf, Waiting
  <2>6. RepliesMatch' /\ StoredMatch' /\ RequestsMatch'
    BY <2>1, <2>2, <2>3, <2>4, <2>5, NothingMade
  <2>7. ASSUME NEW l \in Keys \ excused'
        PROVE  Orderly(l)'
    <3>1. Orderly(l) /\ l # None
      BY <1>0, <1>o, <2>1, <2>7
    <3>2. \A q \in Requests : /\ Answered(q, l) => Answered(q, l)' \/ q = r
                              /\ request'[q].key = l => request'[q] = request[q]
      BY <2>2, <3>1 DEF Answered
    <3>3. CASE l = k
      <4>1. stored'[l].fresh
        BY <2>4, <3>1, <3>3 DEF Orderly
      <4> QED
        BY <2>1, <3>1, <3>2, <4>1 DEF Orderly
    <3>4. CASE l # k
      <4>1. stored'[l] = stored[l] /\ ~Answered(r, l)
        BY <2>4, <3>4 DEF Answered
      <4> QED
        BY <2>1, <3>1, <3>2, <4>1 DEF Orderly
    <3> QED
      BY <3>3, <3>4
  <2> QED
    BY <2>5, <2>6, <2>7 DEF KeysInv
<1>7. CASE Expire
  <2>1. PICK k \in Keys :
          /\ stored[k].fresh
          /\ stored' = [stored EXCEPT ![k] = [stored[k] EXCEPT !.fresh = FALSE]]
          /\ excused' = excused \cup {k}
          /\ UNCHANGED <<made, request, told>>
    BY <1>7 DEF Expire, Excuse
  <2>2. CreatedFrom(stored[k].txn, k, stored[k].body)
    BY <1>0, <2>1 DEF StoredMatch, NoReply
  <2>3. /\ \A l \in Keys \ {k} : stored'[l] = stored[l]
        /\ stored'[k].txn = stored[k].txn /\ stored'[k].body = stored[k].body
    BY <1>0, <2>1 DEF KeysTyped, ReplyRow
  <2>4. KeysTyped'
    BY <1>0, <2>1 DEF KeysTyped, ReplyRow
  <2>5. RepliesMatch' /\ StoredMatch' /\ RequestsMatch'
    BY <2>1, <2>2, <2>3, <2>4, NothingMade
  <2>6. \A l \in Keys \ excused' : Orderly(l)'
    BY <1>o, <2>1, <2>3 DEF Orderly, Answered
  <2> QED
    BY <2>4, <2>5, <2>6 DEF KeysInv
<1> QED
  BY <1>1, <1>2, <1>3, <1>4, <1>5, <1>6, <1>7 DEF KeysNext, KeysInv

\* A crash excuses the keys of what was made and not yet stored.
LEMMA KeysSurvive ==
  ASSUME KeysInv, LoseRequests
  PROVE  KeysInv'
<1>0. KeysTyped /\ RequestsMatch /\ \A k \in Keys \ excused : Orderly(k)
  BY DEF KeysInv
<1>n. None \notin Keys /\ Waiting.key = None
  BY IdempotencyAssumption DEF IdempotencyAssumption, Waiting
<1>1. /\ excused' = excused \cup {request[r].key : r \in {q \in Requests : request[q].txn # 0}}
      /\ request' = [r \in Requests |-> Waiting]
      /\ UNCHANGED <<stored, made, told>>
  BY DEF LoseRequests, Excuse
<1>2. KeysTyped'
  BY <1>0, <1>1 DEF KeysTyped, RequestOf, Waiting
<1>3. RepliesMatch' /\ StoredMatch' /\ RequestsMatch'
  BY <1>1, <1>2, NothingMade
<1>4. ASSUME NEW k \in Keys \ excused'
      PROVE  Orderly(k)'
  <2>1. Orderly(k)
    BY <1>0, <1>1, <1>4
  <2>2. ASSUME NEW r \in Requests, Answered(r, k)
        PROVE  FALSE
    <3>1. request[r].txn \in DOMAIN made
      BY <1>0, <2>2 DEF RequestsMatch, Answered, CreatedFrom
    <3>2. request[r].txn # 0
      BY <1>0, <3>1 DEF KeysTyped
    <3> QED
      BY <1>1, <1>4, <2>2, <3>2 DEF Answered
  <2> QED
    BY <1>n, <1>1, <2>1, <2>2 DEF Orderly
<1> QED
  BY <1>2, <1>3, <1>4 DEF KeysInv

----------------------------------------------------------------------------
(***************************************************************************)
(* The stream of a batch                                                   *)
(***************************************************************************)

Events == [name : {"job.started", "job.done", "job.error"}, job : Jobs]
            \cup {Event("batch.extracted", NoJob)}

JobStatus   == {"queued", "processing", "done", "error"}
BatchStatus == {"pending", "processing", "extracted", "reconciling", "reconciled",
                "reconcile_error", "failed"}

StreamOf == [at : {"closed", "reading", "counted", "open", "leaked"}, gone : BOOLEAN,
             status : BatchStatus \cup {"none"}, jobs : [Jobs -> JobStatus],
             sent : SUBSET Events, missed : SUBSET Events]

StreamTyped == /\ job \in [Jobs -> JobStatus]
               /\ worker \in [Jobs -> {"mark", "start", "started", "extract", "ended",
                                       "complete", "announce", "rest"}]
               /\ batch \in BatchStatus
               /\ emitted \subseteq Events
               /\ stream \in [Streams -> StreamOf]

Unfinished == {"pending", "processing"}

\* What is true of the batch once an event was published: its truth is for good.
Holds(e) == CASE e.name = "batch.extracted" -> batch \notin Unfinished
              [] e.name = "job.started"     -> job[e.job] # "queued"
              [] OTHER                      -> job[e.job] \in Settled

\* The worker writes before it publishes.
WritesFirst ==
  /\ \A j \in Jobs :
       /\ worker[j] = "mark" <=> job[j] = "queued"
       /\ worker[j] \in {"ended", "complete", "announce", "rest"} => job[j] \in Settled
       /\ worker[j] = "announce" => batch \notin Unfinished
  /\ batch \notin Unfinished => \A j \in Jobs : job[j] \in Settled
  /\ \A e \in emitted : Holds(e)

Told(s, e) == e \in stream[s].sent \/ e \in stream[s].missed

\* A snapshot shows, as far as it was read, what was published before it.
SnapshotShows(s, e) ==
  /\ stream[s].at = "reading" /\ e.name = "batch.extracted" => Shows(s, e) \/ Told(s, e)
  /\ stream[s].at \in {"counted", "open"} => Shows(s, e) \/ Told(s, e)

StreamInv == /\ StreamTyped
             /\ WritesFirst
             /\ \A s \in Streams, e \in emitted : SnapshotShows(s, e)

LEMMA ClosedIsStream == Closed \in StreamOf
  BY DEF Closed, StreamOf, JobStatus

LEMMA StreamInitially == StreamInit => StreamInv
<1> SUFFICES ASSUME StreamInit
             PROVE  StreamInv
  OBVIOUS
<1>1. StreamTyped
  BY ClosedIsStream DEF StreamInit, StreamTyped, JobStatus, BatchStatus
<1>2. WritesFirst
  BY DEF StreamInit, WritesFirst, Unfinished
<1>3. emitted = {}
  BY DEF StreamInit
<1> QED
  BY <1>1, <1>2, <1>3 DEF StreamInv

\* A job that leaves a state never returns to it, and neither does the batch.
LEMMA TruthStays ==
  ASSUME StreamInv, StreamTyped', NEW e \in emitted,
         \A j \in Jobs : /\ job[j] # "queued" => job'[j] # "queued"
                         /\ job[j] \in Settled => job'[j] \in Settled,
         batch \notin Unfinished => batch' \notin Unfinished
  PROVE  Holds(e)'
<1>1. e \in Events /\ Holds(e)
  BY DEF StreamInv, StreamTyped, WritesFirst
<1>2. e.name = "batch.extracted" \/ e.job \in Jobs
  BY <1>1 DEF Events, Event
<1> QED
  BY <1>1, <1>2 DEF Holds

\* The steps that publish nothing.
LEMMA SilentStep ==
  ASSUME StreamInv, Silent, StreamTyped',
         \A j \in Jobs : /\ job[j] # "queued" => job'[j] # "queued"
                         /\ job[j] \in Settled => job'[j] \in Settled,
         batch \notin Unfinished => batch' \notin Unfinished,
         \A j \in Jobs :
           /\ worker'[j] = "mark" <=> job'[j] = "queued"
           /\ worker'[j] \in {"ended", "complete", "announce", "rest"} => job'[j] \in Settled
           /\ worker'[j] = "announce" => batch' \notin Unfinished,
         batch' \notin Unfinished => \A j \in Jobs : job'[j] \in Settled
  PROVE  StreamInv'
<1>1. \A e \in emitted' : Holds(e)'
  BY TruthStays DEF Silent
<1>2. WritesFirst'
  BY <1>1 DEF WritesFirst
<1>3. \A s \in Streams, e \in emitted' : SnapshotShows(s, e)'
  BY DEF StreamInv, Silent, SnapshotShows, Shows, Told
<1> QED
  BY <1>2, <1>3 DEF StreamInv

\* Publishing reaches every connection that has begun to read.
LEMMA PublishStep ==
  ASSUME StreamInv, NEW e \in Events, Publish(e), Holds(e), UNCHANGED <<job, batch>>,
         worker' \in [Jobs -> {"mark", "start", "started", "extract", "ended",
                               "complete", "announce", "rest"}],
         \A j \in Jobs :
           /\ worker'[j] = "mark" <=> job[j] = "queued"
           /\ worker'[j] \in {"ended", "complete", "announce", "rest"} => job[j] \in Settled
           /\ worker'[j] = "announce" => batch \notin Unfinished
  PROVE  StreamInv'
<1>0. StreamTyped /\ WritesFirst
  BY DEF StreamInv
<1>1. \A s \in Streams :
        /\ stream'[s].at = stream[s].at
        /\ stream'[s].status = stream[s].status /\ stream'[s].jobs = stream[s].jobs
        /\ stream[s].sent \subseteq stream'[s].sent
        /\ stream[s].missed \subseteq stream'[s].missed
        /\ stream[s].at \in {"reading", "counted", "open"} => Told(s, e)'
        /\ stream'[s] \in StreamOf
  <2> SUFFICES ASSUME NEW s \in Streams
               PROVE  /\ stream'[s].at = stream[s].at
                      /\ stream'[s].status = stream[s].status
                      /\ stream'[s].jobs = stream[s].jobs
                      /\ stream[s].sent \subseteq stream'[s].sent
                      /\ stream[s].missed \subseteq stream'[s].missed
                      /\ stream[s].at \in {"reading", "counted", "open"} => Told(s, e)'
                      /\ stream'[s] \in StreamOf
    OBVIOUS
  <2>0. stream[s] \in StreamOf
    BY <1>0 DEF StreamTyped
  <2>1. CASE stream[s].at = "open"
    <3>1. stream'[s] = [stream[s] EXCEPT !.sent = stream[s].sent \cup {e}]
      BY <2>1 DEF Publish
    <3> QED
      BY <2>0, <2>1, <3>1 DEF StreamOf, Told
  <2>2. CASE stream[s].at \in {"reading", "counted"}
    <3>1. stream'[s] = [stream[s] EXCEPT !.missed = stream[s].missed \cup {e}]
      BY <2>2 DEF Publish
    <3> QED
      BY <2>0, <2>2, <3>1 DEF StreamOf, Told
  <2>3. CASE stream[s].at \notin {"open", "reading", "counted"}
    <3>1. stream'[s] = stream[s]
      BY <2>3 DEF Publish
    <3> QED
      BY <2>0, <2>3, <3>1
  <2> QED
    BY <2>1, <2>2, <2>3
<1>f. stream' = [s \in Streams |-> stream'[s]]
  BY DEF Publish
<1>2. StreamTyped'
  <2>1. stream' \in [Streams -> StreamOf]
    BY <1>1, <1>f
  <2>2. emitted' \subseteq Events
    BY <1>0 DEF StreamTyped, Publish
  <2> QED
    BY <1>0, <2>1, <2>2 DEF StreamTyped
<1>3. WritesFirst'
  BY <1>0 DEF WritesFirst, Publish, Holds
<1>4. ASSUME NEW s \in Streams, NEW d \in emitted'
      PROVE  SnapshotShows(s, d)'
  <2>1. CASE d = e
    BY <1>1, <2>1 DEF SnapshotShows
  <2>2. CASE d \in emitted
    BY <1>1, <2>2 DEF StreamInv, SnapshotShows, Shows, Told
  <2> QED
    BY <2>1, <2>2 DEF Publish
<1> QED
  BY <1>2, <1>3, <1>4 DEF StreamInv

LEMMA WorkerStep ==
  ASSUME StreamInv, NEW j \in Jobs,
         \/ MarkProcessing(j) \/ ChildStarted(j) \/ PublishStarted(j) \/ JobSettles(j)
         \/ PublishEnded(j) \/ ChildTerminated(j) \/ PublishExtracted(j)
  PROVE  StreamInv'
<1>0. StreamTyped /\ WritesFirst
  BY DEF StreamInv
<1>1. CASE MarkProcessing(j)
  <2>1. StreamTyped'
    BY <1>0, <1>1 DEF MarkProcessing, Goes, Silent, StreamTyped, JobStatus, BatchStatus
  <2> QED
    BY <1>0, <1>1, <2>1, SilentStep
       DEF MarkProcessing, Goes, StreamTyped, WritesFirst, Settled
<1>2. CASE ChildStarted(j)
  <2>1. StreamTyped'
    BY <1>0, <1>2 DEF ChildStarted, Goes, Silent, StreamTyped, JobStatus, BatchStatus
  <2> QED
    BY <1>0, <1>2, <2>1, SilentStep
       DEF ChildStarted, Goes, StreamTyped, WritesFirst, Unfinished
<1>3. CASE PublishStarted(j)
  <2> DEFINE e == Event("job.started", j)
  <2>1. e \in Events /\ Holds(e)
    BY <1>0, <1>3 DEF Event, Events, Holds, PublishStarted, WritesFirst
  <2> QED
    BY <1>0, <1>3, <2>1, PublishStep DEF PublishStarted, Goes, StreamTyped, WritesFirst
<1>4. CASE JobSettles(j)
  <2>1. StreamTyped'
    BY <1>0, <1>4 DEF JobSettles, Goes, Silent, StreamTyped, JobStatus, BatchStatus, Settled
  <2> QED
    BY <1>0, <1>4, <2>1, SilentStep
       DEF JobSettles, Goes, StreamTyped, WritesFirst, Settled
<1>5. CASE PublishEnded(j)
  <2> DEFINE e == Event(IF job[j] = "done" THEN "job.done" ELSE "job.error", j)
  <2>1. e \in Events /\ Holds(e)
    BY <1>0, <1>5 DEF Event, Events, Holds, PublishEnded, WritesFirst
  <2> QED
    BY <1>0, <1>5, <2>1, PublishStep DEF PublishEnded, Goes, StreamTyped, WritesFirst
<1>6. CASE ChildTerminated(j)
  <2>1. StreamTyped'
    BY <1>0, <1>6 DEF ChildTerminated, Goes, Silent, StreamTyped, JobStatus, BatchStatus
  <2> QED
    BY <1>0, <1>6, <2>1, SilentStep
       DEF ChildTerminated, Goes, StreamTyped, WritesFirst, Unfinished
<1>7. CASE PublishExtracted(j)
  <2> DEFINE e == Event("batch.extracted", NoJob)
  <2>1. e \in Events /\ Holds(e)
    BY <1>0, <1>7 DEF Event, Events, Holds, PublishExtracted, WritesFirst
  <2> QED
    BY <1>0, <1>7, <2>1, PublishStep DEF PublishExtracted, Goes, StreamTyped, WritesFirst
<1> QED
  BY <1>1, <1>2, <1>3, <1>4, <1>5, <1>6, <1>7

\* A step of one connection concerns its own snapshot only.
LEMMA OneConnection ==
  ASSUME StreamInv, UNCHANGED <<batch, job, worker, emitted>>, NEW s \in Streams,
         NEW new \in StreamOf, stream' = [stream EXCEPT ![s] = new],
         \A e \in emitted : SnapshotShows(s, e)'
  PROVE  StreamInv'
<1>1. StreamTyped'
  BY DEF StreamInv, StreamTyped
<1>2. WritesFirst'
  BY DEF StreamInv, WritesFirst, Holds
<1>3. \A c \in Streams \ {s} : stream'[c] = stream[c]
  BY DEF StreamInv, StreamTyped
<1>4. \A c \in Streams \ {s}, e \in emitted : SnapshotShows(c, e)'
  BY <1>3 DEF StreamInv, SnapshotShows, Shows, Told
<1> QED
  BY <1>1, <1>2, <1>4 DEF StreamInv

LEMMA ConnectionStep ==
  ASSUME StreamInv, NEW s \in Streams,
         ReadBatch(s) \/ ReadCounts(s) \/ Subscribe(s) \/ Disconnect(s)
  PROVE  StreamInv'
<1>0. /\ StreamTyped /\ stream[s] \in StreamOf
      /\ \A e \in emitted : e \in Events /\ Holds(e) /\ SnapshotShows(s, e)
  BY DEF StreamInv, StreamTyped, WritesFirst
<1>1. UNCHANGED <<batch, job, worker, emitted>>
  BY DEF ReadBatch, ReadCounts, Subscribe, Disconnect
<1>c. Closed \in StreamOf /\ Closed.at = "closed"
  BY ClosedIsStream DEF Closed
<1>2. ASSUME stream' = [stream EXCEPT ![s] = Closed]
      PROVE  StreamInv'
  <2>1. stream'[s].at = "closed"
    BY <1>0, <1>2, <1>c DEF StreamTyped
  <2>2. \A e \in emitted : SnapshotShows(s, e)'
    BY <2>1 DEF SnapshotShows
  <2> QED
    BY <1>1, <1>2, <1>c, <2>2, OneConnection
<1>3. CASE ReadBatch(s)
  <2> DEFINE new == [Closed EXCEPT !.at = "reading", !.status = batch]
  <2>1. new \in StreamOf /\ new.at = "reading" /\ new.status = batch
    BY <1>0 DEF StreamTyped, StreamOf, Closed, JobStatus, BatchStatus
  <2>2. stream' = [stream EXCEPT ![s] = new]
    BY <1>3 DEF ReadBatch
  <2> HIDE DEF new
  <2>3. stream'[s] = new
    BY <1>0, <2>2 DEF StreamTyped
  <2>4. \A e \in emitted : SnapshotShows(s, e)'
    BY <1>0, <1>1, <2>1, <2>3 DEF SnapshotShows, Shows, Holds, Unfinished
  <2> QED
    BY <1>1, <2>1, <2>2, <2>4, OneConnection
<1>4. CASE ReadCounts(s)
  <2> DEFINE new == [stream[s] EXCEPT !.at = "counted", !.jobs = job]
  <2>1. /\ stream[s].at = "reading" /\ stream' = [stream EXCEPT ![s] = new]
    BY <1>4 DEF ReadCounts, At
  <2>2. /\ new \in StreamOf /\ new.status = stream[s].status /\ new.jobs = job
        /\ new.missed = stream[s].missed /\ new.sent = stream[s].sent
    BY <1>0 DEF StreamTyped, StreamOf
  <2>3. stream'[s] = new
    BY <1>0, <2>1 DEF StreamTyped
  <2> HIDE DEF new
  <2>4. ASSUME NEW e \in emitted
        PROVE  (Shows(s, e) \/ Told(s, e))'
    <3>1. CASE e.name = "batch.extracted"
      BY <1>0, <2>1, <2>2, <2>3, <3>1 DEF SnapshotShows, Shows, Told
    <3>2. CASE e.name # "batch.extracted"
      BY <1>0, <2>2, <2>3, <3>2 DEF Holds, Shows
    <3> QED
      BY <3>1, <3>2
  <2>5. \A e \in emitted : SnapshotShows(s, e)'
    BY <2>4 DEF SnapshotShows
  <2> QED
    BY <1>1, <2>1, <2>2, <2>5, OneConnection
<1>5. CASE Subscribe(s)
  <2>1. CASE stream[s].status \in Final
    BY <1>2, <1>5, <2>1 DEF Subscribe
  <2>2. CASE stream[s].status \notin Final
    <3> DEFINE new == [stream[s] EXCEPT !.at = IF stream[s].gone THEN "leaked" ELSE "open"]
    <3>1. stream[s].at = "counted" /\ stream' = [stream EXCEPT ![s] = new]
      BY <1>5, <2>2 DEF Subscribe, At
    <3>2. /\ new \in StreamOf /\ new.status = stream[s].status
          /\ new.jobs = stream[s].jobs
          /\ new.missed = stream[s].missed /\ new.sent = stream[s].sent
          /\ new.at \in {"leaked", "open"}
      BY <1>0 DEF StreamOf
    <3>3. stream'[s] = new
      BY <1>0, <3>1 DEF StreamTyped
    <3> HIDE DEF new
    <3>4. \A e \in emitted : SnapshotShows(s, e)'
      BY <1>0, <3>1, <3>2, <3>3 DEF SnapshotShows, Shows, Told
    <3> QED
      BY <1>1, <3>1, <3>2, <3>4, OneConnection
  <2> QED
    BY <2>1, <2>2
<1>6. CASE Disconnect(s)
  <2>1. CASE stream' = [stream EXCEPT ![s] = Closed]
    BY <1>2, <2>1
  <2>2. CASE stream' = [stream EXCEPT ![s].gone = TRUE]
    <3> DEFINE new == [stream[s] EXCEPT !.gone = TRUE]
    <3>2. /\ new \in StreamOf /\ new.status = stream[s].status /\ new.at = stream[s].at
          /\ new.jobs = stream[s].jobs
          /\ new.missed = stream[s].missed /\ new.sent = stream[s].sent
      BY <1>0 DEF StreamOf
    <3>3. stream' = [stream EXCEPT ![s] = new] /\ stream'[s] = new
      BY <1>0, <2>2 DEF StreamTyped
    <3> HIDE DEF new
    <3>4. \A e \in emitted : SnapshotShows(s, e)'
      BY <1>0, <3>2, <3>3 DEF SnapshotShows, Shows, Told
    <3> QED
      BY <1>1, <3>2, <3>3, <3>4, OneConnection
  <2> QED
    BY <1>6, <2>1, <2>2 DEF Disconnect
<1> QED
  BY <1>3, <1>4, <1>5, <1>6

LEMMA StreamStep ==
  ASSUME StreamInv, StreamNext
  PROVE  StreamInv'
<1>1. CASE ReconcileBatch
  <2>1. StreamTyped /\ WritesFirst
    BY DEF StreamInv
  <2>2. StreamTyped'
    BY <1>1, <2>1 DEF ReconcileBatch, StreamTyped, BatchStatus
  <2> QED
    BY <1>1, <2>1, <2>2, SilentStep DEF ReconcileBatch, Silent, WritesFirst, Unfinished
<1> QED
  BY <1>1, WorkerStep, ConnectionStep DEF StreamNext

\* A crash hangs up on everyone; the batch it leaves is settled.
LEMMA StreamSurvives ==
  ASSUME StreamInv, LoseStreams
  PROVE  StreamInv'
<1>0. StreamTyped /\ WritesFirst
  BY DEF StreamInv
<1>1. StreamTyped'
  BY <1>0, ClosedIsStream DEF LoseStreams, StreamTyped, Settled, JobStatus, BatchStatus
<1>2. \A j \in Jobs : job'[j] \in Settled /\ worker'[j] = "rest"
  BY <1>0 DEF LoseStreams, WritesFirst, Settled, Unfinished
<1>3. batch \notin Unfinished => batch' \notin Unfinished
  BY DEF LoseStreams, Unfinished
<1>4. batch' \notin Unfinished
  BY DEF LoseStreams, Unfinished
<1>5. emitted' = emitted /\ \A e \in emitted : Holds(e)'
  BY <1>1, <1>2, <1>3, TruthStays DEF LoseStreams, Settled
<1>6. WritesFirst'
  BY <1>2, <1>4, <1>5 DEF WritesFirst, Settled
<1>7. \A s \in Streams : stream'[s].at = "closed"
  BY DEF LoseStreams, Closed
<1> QED
  BY <1>1, <1>6, <1>7 DEF StreamInv, SnapshotShows

LEMMA StreamInvReaches == StreamInv => EventsReachTheStream
  BY DEF StreamInv, EventsReachTheStream, SnapshotShows, Told

----------------------------------------------------------------------------
(***************************************************************************)
(* Pages                                                                   *)
(***************************************************************************)

KeyOf == [ms : Nat, us : Nat, id : Int]

PagesTyped == /\ list \in Lists \cup {ByCreation} /\ order \in {"asc", "desc"}
              /\ row \in [Ids -> Row] /\ cursor \in KeyOf
              /\ at \in {"closed", "first", "more", "done"}
              /\ ~list.exact => order = "desc"

\* Where a row that stayed is, once the client has a cursor: behind it, or
\* still to come, or skipped by a cursor that dropped its microseconds.
Placed(r) ==
  /\ r \in seen => ~Beyond(Key(r))
  /\ r \notin seen => Beyond(Key(r)) \/ (~list.exact /\ row[r].ms \in ends)

PagesInv == /\ PagesTyped
            /\ steady \subseteq {r \in Ids : row[r].shown}
            /\ twice \cap steady = {}
            /\ at \in {"closed", "first"} => seen = {} /\ twice = {} /\ steady = {}
            /\ at = "more" => \A r \in steady : Placed(r)
            /\ at = "done" => \A r \in steady \ seen : ~list.exact /\ row[r].ms \in ends

LEMMA ListsAreLists ==
  ASSUME NEW l \in Lists
  PROVE  /\ l.exact \in BOOLEAN /\ l.orders \subseteq {"asc", "desc"}
         /\ ~l.exact => l.orders = {"desc"}
<1> DEFINE Fine(x) == \/ x.exact = TRUE /\ x.orders \subseteq {"asc", "desc"}
                      \/ x.exact = FALSE /\ x.orders = {"desc"}
<1>1. ByCreation \in List /\ Fine(ByCreation)
  BY DEF ByCreation, List
<1>2. TransactionsByCreation \in List /\ Fine(TransactionsByCreation)
  BY DEF TransactionsByCreation, ByCreation, List
<1>3. Fine(TransactionsByDate)
  BY <1>2 DEF TransactionsByDate, List
<1>4. Fine(PostingList) /\ Fine(ItemList) /\ Fine(BatchList) /\ Fine(IngestList)
  BY DEF ByCreation, PostingList, ItemList, BatchList, IngestList
<1>5. Fine(Register) /\ Fine(MerchantTransactions) /\ Fine(ProductList)
        /\ Fine(OwnedItemList) /\ Fine(WishItemList)
  BY DEF ByCreation, Register, MerchantTransactions, ProductList, OwnedItemList,
         WishItemList
<1>6. Fine(l)
  <2> HIDE DEF Fine
  <2> QED
    BY <1>2, <1>3, <1>4, <1>5 DEF Lists
<1> QED
  BY <1>6

LEMMA KeyIsKey ==
  ASSUME PagesTyped, NEW r \in Ids
  PROVE  Key(r) \in KeyOf /\ Key(r).ms = row[r].ms
  BY PagesAssumption DEF PagesAssumption, PagesTyped, Row, Key, KeyOf

\* The order of keys: total, and a cursor is never before the key it is of.
LEMMA LessIsOrder ==
  ASSUME NEW k \in KeyOf, NEW l \in KeyOf, NEW m \in KeyOf
  PROVE  /\ ~Less(k, k)
         /\ Less(k, l) /\ Less(l, m) => Less(k, m)
         /\ Less(k, l) => ~Less(l, k)
         /\ ~Less(k, l) /\ Less(m, l) => ~Less(k, m)
  BY DEF KeyOf, Less

LEMMA AfterIsOrder ==
  ASSUME NEW k \in KeyOf, NEW l \in KeyOf, NEW m \in KeyOf
  PROVE  /\ ~After(k, k)
         /\ After(k, l) => ~After(l, k)
         /\ ~After(k, l) /\ After(m, l) => ~After(k, m)
  BY LessIsOrder DEF After

LEMMA CursorOfRow ==
  ASSUME PagesTyped, NEW r \in Ids, NEW k \in KeyOf
  PROVE  /\ CursorOf(r) \in KeyOf
         /\ ~After(k, Key(r)) => ~After(k, CursorOf(r))
         /\ After(k, Key(r)) =>
              After(k, CursorOf(r)) \/ (~list.exact /\ k.ms = row[r].ms)
<1>1. Key(r) \in KeyOf /\ Key(r).ms = row[r].ms
  BY KeyIsKey
<1>2. CASE list.exact
  BY <1>1, <1>2 DEF CursorOf
<1>3. CASE ~list.exact
  <2>1. order = "desc" /\ CursorOf(r) = [Key(r) EXCEPT !.us = 0]
    BY <1>3 DEF PagesTyped, CursorOf
  <2> QED
    BY <1>1, <1>3, <2>1 DEF KeyOf, After, Less
<1> QED
  BY <1>2, <1>3

LEMMA PagesInitially == PagesInit => PagesInv
  BY PagesAssumption DEF PagesAssumption, PagesInit, PagesInv, PagesTyped, Row, NoRow,
     KeyOf, ByCreation

LEMMA OpenStep ==
  ASSUME PagesInv, OpenList
  PROVE  PagesInv'
  BY ListsAreLists DEF OpenList, PagesInv, PagesTyped

LEMMA NextPageStep ==
  ASSUME PagesInv, NextPage
  PROVE  PagesInv'
<1>0. PagesTyped /\ twice \cap steady = {} /\ steady \subseteq {r \in Ids : row[r].shown}
  BY DEF PagesInv
<1>1. PICK page \in SUBSET Candidates :
        /\ at \in {"first", "more"}
        /\ \A r \in page, s \in Candidates \ page : After(Key(s), Key(r))
        /\ \/ /\ page = Candidates
              /\ at' = "done"
              /\ UNCHANGED <<cursor, ends>>
           \/ /\ at' = "more"
              /\ \E last \in page :
                   /\ \A r \in page \ {last} : After(Key(last), Key(r))
                   /\ cursor' = CursorOf(last)
                   /\ ends' = ends \cup {row[last].ms}
        /\ seen' = seen \cup page
        /\ twice' = twice \cup (seen \cap page)
        /\ steady' = IF at = "first" THEN Candidates ELSE steady
        /\ UNCHANGED <<list, order, row, writes>>
  BY DEF NextPage
<1>2. Candidates \subseteq {r \in Ids : row[r].shown}
  BY DEF Candidates
<1>3. steady' \subseteq {r \in Ids : row[r].shown}
  BY <1>0, <1>1, <1>2
<1>4. /\ at = "first" => seen = {} /\ twice = {} /\ steady = {}
      /\ at = "more" => \A r \in Candidates : Beyond(Key(r))
      /\ at = "more" => \A r \in steady : Placed(r)
  BY <1>1 DEF PagesInv, Candidates
<1>5. \A r \in steady' : r \notin seen \cap page
  BY <1>1, <1>4 DEF Placed
<1>6. twice' \cap steady' = {}
  BY <1>0, <1>1, <1>4, <1>5
<1>7. PagesTyped'
  <2>1. cursor' \in KeyOf
    BY <1>0, <1>1, <1>2, CursorOfRow DEF PagesTyped
  <2> QED
    BY <1>0, <1>1, <2>1 DEF PagesTyped
<1>8. \A r \in Ids : Key(r)' = Key(r) /\ Key(r) \in KeyOf
  BY <1>0, <1>1, KeyIsKey DEF Key
<1>9. CASE at' = "done"
  <2>1. page = Candidates /\ UNCHANGED <<cursor, ends>>
    BY <1>1, <1>9
  <2>2. ASSUME NEW r \in steady', r \notin seen'
        PROVE  ~list.exact /\ row[r].ms \in ends
    <3>1. r \notin Candidates /\ r \notin seen /\ r \in Ids /\ row[r].shown
      BY <1>1, <1>3, <2>1, <2>2
    <3>2. at = "more" /\ r \in steady
      BY <1>1, <2>2, <3>1
    <3>3. ~Beyond(Key(r))
      BY <3>1, <3>2 DEF Candidates
    <3> QED
      BY <1>4, <3>1, <3>2, <3>3 DEF Placed
  <2> QED
    BY <1>1, <1>3, <1>6, <1>7, <1>9, <2>1, <2>2 DEF PagesInv
<1>10. CASE at' = "more"
  <2>1. PICK last \in page :
          /\ \A r \in page \ {last} : After(Key(last), Key(r))
          /\ cursor' = CursorOf(last)
          /\ ends' = ends \cup {row[last].ms}
    BY <1>1, <1>10
  <2>2. last \in Ids /\ Key(last) \in KeyOf /\ cursor \in KeyOf
    BY <1>0, <1>2, <1>8 DEF PagesTyped
  <2>3. \A r \in Ids : Beyond(Key(r))' <=> After(Key(r), CursorOf(last))
    BY <1>1, <1>8, <2>1 DEF Beyond, After
  <2>4. \A r \in Ids : ~After(Key(r), Key(last)) => ~Beyond(Key(r))'
    BY <1>0, <1>8, <2>2, <2>3, CursorOfRow
  <2>5. \A r \in Ids : After(Key(r), Key(last)) =>
           Beyond(Key(r))' \/ (~list.exact /\ row[r].ms = row[last].ms)
    BY <1>0, <1>8, <2>2, <2>3, CursorOfRow, KeyIsKey
  <2>6. \A r \in page : ~After(Key(r), Key(last))
    BY <1>2, <1>8, <2>1, <2>2, AfterIsOrder
  <2>7. ASSUME NEW r \in steady'
        PROVE  Placed(r)'
    <3>0. r \in Ids
      BY <1>3, <2>7
    <3>1. CASE r \in page
      BY <1>1, <2>4, <2>6, <3>0, <3>1 DEF Placed
    <3>2. CASE r \in Candidates \ page
      <4>1. After(Key(r), Key(last)) /\ r \notin seen'
        BY <1>1, <1>4, <2>7, <3>2 DEF Placed
      <4> QED
        BY <1>1, <2>1, <2>5, <3>0, <4>1 DEF Placed
    <3>3. CASE r \notin Candidates
      <4>1. at = "more" /\ r \in steady /\ ~Beyond(Key(r)) /\ r \notin page
        BY <1>1, <1>3, <2>7, <3>3 DEF Candidates
      <4>2. After(Key(last), cursor)
        BY <1>1, <1>4, <2>1, <4>1 DEF Beyond
      <4>3. ~After(Key(r), Key(last))
        BY <1>8, <2>2, <3>0, <4>1, <4>2, AfterIsOrder DEF Beyond
      <4>4. r \notin seen => ~list.exact /\ row[r].ms \in ends
        BY <1>4, <4>1 DEF Placed
      <4> QED
        BY <1>1, <2>1, <2>4, <3>0, <4>1, <4>3, <4>4 DEF Placed
    <3> QED
      BY <3>1, <3>2, <3>3
  <2> QED
    BY <1>1, <1>3, <1>6, <1>7, <1>10, <2>7 DEF PagesInv
<1> QED
  BY <1>1, <1>9, <1>10

\* Whoever writes to a row takes it out of those that stay.
LEMMA WriteStep ==
  ASSUME PagesInv, InsertRow \/ EditRow \/ HideRow
  PROVE  PagesInv'
<1>1. PICK r \in Ids, to \in Row : Write(r, to)
  <2>1. row \in [Ids -> Row]
    BY DEF PagesInv, PagesTyped
  <2>2. CASE InsertRow \/ EditRow
    <3>1. PICK r \in Ids, ms \in Instants, us \in Instants :
            Write(r, [ms |-> ms, us |-> us, shown |-> TRUE])
      BY <2>2 DEF InsertRow, EditRow
    <3>2. [ms |-> ms, us |-> us, shown |-> TRUE] \in Row
      BY DEF Row
    <3> QED
      BY <3>1, <3>2
  <2>3. CASE HideRow
    <3>1. PICK r \in Ids : Write(r, [row[r] EXCEPT !.shown = FALSE])
      BY <2>3 DEF HideRow
    <3>2. [row[r] EXCEPT !.shown = FALSE] \in Row
      BY <2>1 DEF Row
    <3> QED
      BY <3>1, <3>2
  <2> QED
    BY <2>2, <2>3
<1>2. /\ row' = [row EXCEPT ![r] = to] /\ steady' = steady \ {r}
      /\ UNCHANGED <<list, order, at, cursor, seen, twice, ends>>
  BY <1>1 DEF Write
<1>3. PagesTyped'
  BY <1>1, <1>2 DEF PagesInv, PagesTyped
<1>4. \A q \in steady' : /\ q \in steady /\ row'[q] = row[q]
                         /\ Placed(q) => Placed(q)'
  BY <1>2 DEF PagesInv, PagesTyped, Placed, Beyond, After, Key
<1> QED
  BY <1>2, <1>3, <1>4 DEF PagesInv

LEMMA PagesStep ==
  ASSUME PagesInv, PagesNext
  PROVE  PagesInv'
  BY OpenStep, NextPageStep, WriteStep DEF PagesNext

----------------------------------------------------------------------------
(***************************************************************************)
(* The server                                                              *)
(***************************************************************************)

FrontendInv == KeysInv /\ StreamInv /\ PagesInv

LEMMA KeysUntouched == KeysInv /\ UNCHANGED keyVars => KeysInv'
  BY DEF keyVars, KeysInv, KeysTyped, RepliesMatch, StoredMatch, RequestsMatch, Orderly,
         CreatedFrom, Answered

LEMMA StreamUntouched == StreamInv /\ UNCHANGED streamVars => StreamInv'
  BY DEF streamVars, StreamInv, StreamTyped, WritesFirst, Holds, SnapshotShows, Shows, Told

LEMMA PagesUntouched == PagesInv /\ UNCHANGED pageVars => PagesInv'
  BY DEF pageVars, PagesInv, PagesTyped, Placed, Beyond, After, Key

LEMMA FrontendStep == FrontendInv /\ [Next]_vars => FrontendInv'
<1> SUFFICES ASSUME FrontendInv, [Next]_vars
             PROVE  FrontendInv'
  OBVIOUS
<1>1. CASE KeysNext /\ UNCHANGED <<streamVars, pageVars, crashes>>
  BY <1>1, KeysStep, StreamUntouched, PagesUntouched DEF FrontendInv
<1>2. CASE StreamNext /\ UNCHANGED <<keyVars, pageVars, crashes>>
  BY <1>2, StreamStep, KeysUntouched, PagesUntouched DEF FrontendInv
<1>3. CASE PagesNext /\ UNCHANGED <<keyVars, streamVars, crashes>>
  BY <1>3, PagesStep, KeysUntouched, StreamUntouched DEF FrontendInv
<1>4. CASE Crash
  BY <1>4, KeysSurvive, StreamSurvives, PagesUntouched DEF Crash, FrontendInv
<1>5. CASE UNCHANGED vars
  BY <1>5, KeysUntouched, StreamUntouched, PagesUntouched
     DEF vars, keyVars, streamVars, pageVars, FrontendInv
<1> QED
  BY <1>1, <1>2, <1>3, <1>4, <1>5 DEF Next

\* The three invariants of keys, streams and lists, together.
THEOREM FrontendIsInv == Spec => []FrontendInv
<1>1. Init => FrontendInv
  BY KeysInitially, StreamInitially, PagesInitially DEF Init, FrontendInv
<1> QED
  BY <1>1, FrontendStep, PTL DEF Spec

\* A replay under an Idempotency-Key never answers for another request, for any
\* number of keys and requests (http/idempotency.ts).
THEOREM ReplaysAreTrue == Spec => []RepliesMatch
  BY FrontendIsInv, PTL DEF FrontendInv, KeysInv

\* A key makes a second transaction only if its reply could not be found.
THEOREM RepeatsExplained == Spec => []RepeatsHaveCause
<1>1. FrontendInv => RepeatsHaveCause
  <2> SUFFICES ASSUME KeysInv, NEW i \in DOMAIN made, NEW j \in DOMAIN made,
                      i # j, made[i].key = made[j].key, made[i].key \notin excused
               PROVE  FALSE
    BY DEF FrontendInv, RepeatsHaveCause
  <2>1. made \in Seq(Creation)
    BY DEF KeysInv, KeysTyped
  <2>2. made[i] \in Creation
    BY <2>1
  <2>3. made[i].key \in Keys
    BY <2>2 DEF Creation
  <2>4. Orderly(made[i].key)
    BY <2>3 DEF KeysInv
  <2> QED
    BY <2>4 DEF Orderly
<1> QED
  BY <1>1, FrontendIsInv, PTL

\* Nothing falls between the snapshot of a stream and its subscription but what
\* is published during the queries of the snapshot (routes/ingest.ts).
THEOREM StreamsAreTold == Spec => []EventsReachTheStream
  BY FrontendIsInv, StreamInvReaches, PTL DEF FrontendInv

\* Every list shows a row that stays exactly once, or skips it for a cursor that
\* dropped its microseconds (http/pagination.ts).
THEOREM ListsPartition == Spec => []PagesPartition
<1>1. FrontendInv => PagesPartition
  BY DEF FrontendInv, PagesInv, PagesPartition
<1> QED
  BY <1>1, FrontendIsInv, PTL
===============================================================================
