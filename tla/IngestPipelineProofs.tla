------------------------ MODULE IngestPipelineProofs ------------------------
(***************************************************************************)
(* The types of the pipeline, what each variable can do in one step, the   *)
(* inductive invariant and the properties that follow from it, the proof   *)
(* that the pipeline implements the batch life cycle, and what holds of    *)
(* the pool, the queue, the duplicate check and the worker's guards.       *)
(***************************************************************************)
EXTENDS IngestPipelineInv, FiniteSetTheorems, FunctionTheorems, TLAPS

----------------------------------------------------------------------------
(***************************************************************************)
(* Types: the pipeline keeps them, whatever the instance.                  *)
(***************************************************************************)

\* The number of items maybeSpawnWorker starts fits the queue and the cap.
LEMMA StartableBounds ==
  ASSUME NEW n \in Int, n <= MaxConcurrency, NEW q \in Seq(Ingests)
  PROVE  /\ Startable(n, q) \in Nat
         /\ Startable(n, q) <= Len(q)
         /\ n + Startable(n, q) <= MaxConcurrency
  BY PipelineAssumption DEF PipelineAssumption, Startable

\* What is left of a queue after taking its first k items.
LEMMA DropFirst ==
  ASSUME NEW q \in Seq(Ingests), NEW k \in Nat, k <= Len(q)
  PROVE  /\ SubSeq(q, k + 1, Len(q)) \in Seq(Ingests)
         /\ Len(SubSeq(q, k + 1, Len(q))) = Len(q) - k
         /\ \A n \in 1 .. Len(q) - k : SubSeq(q, k + 1, Len(q))[n] = q[n + k]
  OBVIOUS

\* Pushing the request's files, and releasing a slot, keep the pool's types.
LEMMA EnqueueType ==
  ASSUME TypeOK, NEW b \in Batches, Enqueue(b)
  PROVE  /\ queue' \in Seq(Ingests)
         /\ active' \in Int /\ active' <= MaxConcurrency
         /\ step' \in [Ingests -> WorkerStep]
<1> DEFINE q == queue \o todo[b]
           k == Startable(active, q)
<1>1. q \in Seq(Ingests)
  BY DEF TypeOK
<1>2. k \in Nat /\ k <= Len(q) /\ active + k <= MaxConcurrency
  BY <1>1, StartableBounds DEF TypeOK
<1>3. /\ queue' = SubSeq(q, k + 1, Len(q))
      /\ active' = active + k
      /\ step' = [i \in Ingests |-> IF i \in First(q, k) THEN "lookup" ELSE step[i]]
  BY DEF Enqueue
<1> HIDE DEF q, k
<1> QED
  BY <1>1, <1>2, <1>3, DropFirst DEF TypeOK, WorkerStep

\* A slot is given back, or handed to the next item, at its type.
LEMMA ReleaseType ==
  ASSUME TypeOK, NEW i \in Ingests, Release(i)
  PROVE  /\ queue' \in Seq(Ingests)
         /\ active' \in Int /\ active' <= MaxConcurrency
         /\ step' \in [Ingests -> WorkerStep]
<1> DEFINE k == Startable(active - 1, queue)
<1>1. k \in Nat /\ k <= Len(queue) /\ (active - 1) + k <= MaxConcurrency
  <2>1. active - 1 \in Int /\ active - 1 <= MaxConcurrency
    BY PipelineAssumption DEF TypeOK, PipelineAssumption
  <2> QED
    BY <2>1, StartableBounds DEF TypeOK
<1>2. /\ queue' = SubSeq(queue, k + 1, Len(queue))
      /\ active' = active - 1 + k
      /\ step' = [j \in Ingests |-> IF j \in First(queue, k) THEN "lookup"
                                    ELSE IF j = i THEN "idle" ELSE step[j]]
  BY DEF Release
<1> HIDE DEF k
<1> QED
  BY <1>1, <1>2, DropFirst DEF TypeOK, WorkerStep

\* The initial state has the declared types.
LEMMA TypeInit == Init => TypeOK
  BY PipelineAssumption
  DEF PipelineAssumption, Init, TypeOK, Files, BatchStatus, IngestStatus, ReqStep,
      WorkerStep, AgentStep, Verdict

\* Every action keeps them.
LEMMA TypeStep == TypeOK /\ [Next]_vars => TypeOK'
<1> SUFFICES ASSUME TypeOK, [Next]_vars PROVE TypeOK'
  OBVIOUS
<1>1. ASSUME NEW b \in Batches, BatchInsert(b) PROVE TypeOK'
  BY <1>1
  DEF TypeOK, BatchInsert, BatchStatus, ReqStep, dbVars, reqVars, workVars,
      agentVars, bootVars, boundVars
<1>2. ASSUME NEW b \in Batches, UploadInsert(b) PROVE TypeOK'
  <2>1. docs' \subseteq Docs
    BY <1>2, PipelineAssumption
    DEF TypeOK, UploadInsert, PipelineAssumption
  <2>2. req' \in [Batches -> ReqStep]
    BY <1>2
    DEF TypeOK, UploadInsert, ReqStep
  <2>3. todo' \in [Batches -> Seq(Ingests)]
    <3>1. Append(todo[b], cur[b]) \in Seq(Ingests)
      BY DEF TypeOK
    <3> QED
      BY <1>2, <3>1 DEF TypeOK, UploadInsert
  <2> QED
    BY <1>2, <2>1, <2>2, <2>3
    DEF TypeOK, UploadInsert, dbVars, reqVars, workVars, agentVars, bootVars,
        boundVars
<1>3. ASSUME NEW b \in Batches, ProbeLive(b) PROVE TypeOK'
  <2>1. produced' \in [Ingests -> SUBSET Ingests]
    <3>1. \A t \in Ingests :
            [produced EXCEPT ![cur[b]] = {t}] \in [Ingests -> SUBSET Ingests]
      BY DEF TypeOK
    <3>2. \/ \E t \in Ingests : produced' = [produced EXCEPT ![cur[b]] = {t}]
          \/ produced' = produced
      BY <1>3 DEF ProbeLive, LinkedLive
    <3>3. produced \in [Ingests -> SUBSET Ingests]
      BY DEF TypeOK
    <3> QED
      BY <3>1, <3>2, <3>3
  <2>2. req' \in [Batches -> ReqStep]
    BY <1>3, ZenonT(30)
    DEF TypeOK, ProbeLive, Suppress, ReqStep
  <2>3. suppressed' \in [Batches -> SUBSET Ingests]
    <3>1. suppressed[b] \cup {cur[b]} \in SUBSET Ingests
      BY DEF TypeOK
    <3> QED
      BY <1>3, <3>1 DEF TypeOK, ProbeLive, Suppress
  <2> QED
    BY <1>3, <2>1, <2>2, <2>3
    DEF TypeOK, ProbeLive, dbVars, reqVars, workVars, agentVars, bootVars,
        boundVars
<1>4. ASSUME NEW b \in Batches, ProbeInFlight(b) PROVE TypeOK'
  <2>1. req' \in [Batches -> ReqStep]
    BY <1>4
    DEF TypeOK, ProbeInFlight, Suppress, ReqStep
  <2>2. todo' \in [Batches -> Seq(Ingests)]
    <3>1. Append(todo[b], cur[b]) \in Seq(Ingests)
      BY DEF TypeOK
    <3> QED
      BY <1>4, <3>1, ZenonT(30) DEF TypeOK, ProbeInFlight
  <2>3. suppressed' \in [Batches -> SUBSET Ingests]
    <3>1. suppressed[b] \cup {cur[b]} \in SUBSET Ingests
      BY DEF TypeOK
    <3> QED
      BY <1>4, <3>1 DEF TypeOK, ProbeInFlight, Suppress
  <2> QED
    BY <1>4, <2>1, <2>2, <2>3
    DEF TypeOK, ProbeInFlight, dbVars, reqVars, workVars, agentVars,
        bootVars, boundVars
<1>5. ASSUME NEW b \in Batches, InsertRows(b) PROVE TypeOK'
  BY <1>5
  DEF TypeOK, InsertRows, IngestStatus, InFlight, Terminal, ReqStep, dbVars,
      reqVars, workVars, agentVars, bootVars, boundVars
<1>6. ASSUME NEW b \in Batches, Enqueue(b) PROVE TypeOK'
  BY <1>6, EnqueueType
  DEF TypeOK, Enqueue, ReqStep, WorkerStep, dbVars, reqVars, workVars,
      agentVars, bootVars, boundVars
<1>7. ASSUME NEW b \in Batches, CompleteBatch(b) PROVE TypeOK'
  BY <1>7
  DEF TypeOK, CompleteBatch, BatchStatus, ReqStep, dbVars, reqVars, workVars,
      agentVars, bootVars, boundVars
<1>8. ASSUME NEW b \in Batches, RequestAnnounce(b) PROVE TypeOK'
  BY <1>8
  DEF TypeOK, RequestAnnounce, ReqStep, dbVars, reqVars, workVars, agentVars,
      bootVars, boundVars
<1>9. ASSUME NEW b \in Batches, RequestThrows(b) PROVE TypeOK'
  <2>1. req' \in [Batches -> ReqStep]
    BY <1>9
    DEF TypeOK, RequestThrows, ReqStep
  <2>2. faults' \in 0 .. MaxFaults
    BY <1>9, PipelineAssumption
    DEF TypeOK, RequestThrows, PipelineAssumption
  <2> QED
    BY <1>9, <2>1, <2>2
    DEF TypeOK, RequestThrows, dbVars, reqVars, workVars, agentVars,
        bootVars, boundVars
<1>10. ASSUME NEW b \in Batches, NEW i \in Ingests, UploadLookup(b, i) PROVE TypeOK'
  BY <1>10
  DEF TypeOK, UploadLookup, ReqStep, dbVars, reqVars, workVars, agentVars,
      bootVars, boundVars
<1>11. ASSUME NEW i \in Ingests, WorkerLookup(i) PROVE TypeOK'
  <2>1. step' \in [Ingests -> WorkerStep] /\ UNCHANGED <<queue, active>>
    <3>1. Goto(i, "mark") \/ Goto(i, "fail")
      BY <1>11 DEF WorkerLookup
    <3>2. "mark" \in WorkerStep /\ "fail" \in WorkerStep
      BY DEF WorkerStep
    <3>3. step \in [Ingests -> WorkerStep]
      BY DEF TypeOK
    <3> QED
      BY <3>1, <3>2, <3>3 DEF Goto
  <2>2. faults' \in 0 .. MaxFaults
    BY <1>11, PipelineAssumption
    DEF TypeOK, WorkerLookup, Goto, PipelineAssumption
  <2> QED
    BY <1>11, <2>1, <2>2
    DEF TypeOK, WorkerLookup, dbVars, reqVars, workVars, agentVars, bootVars,
        boundVars
<1>12. ASSUME NEW i \in Ingests, WorkerMark(i) PROVE TypeOK'
  BY <1>12
  DEF TypeOK, WorkerMark, Goto, IngestStatus, InFlight, Terminal, WorkerStep,
      dbVars, reqVars, workVars, agentVars, bootVars, boundVars
<1>13. ASSUME NEW i \in Ingests, WorkerStart(i) PROVE TypeOK'
  BY <1>13
  DEF TypeOK, WorkerStart, Goto, BatchStatus, WorkerStep, dbVars, reqVars,
      workVars, agentVars, bootVars, boundVars
<1>14. ASSUME NEW i \in Ingests, WorkerSpawn(i) PROVE TypeOK'
  BY <1>14
  DEF TypeOK, WorkerSpawn, Goto, WorkerStep, AgentStep, dbVars, reqVars,
      workVars, agentVars, bootVars, boundVars
<1>15. ASSUME NEW i \in Ingests, WorkerReap(i) PROVE TypeOK'
  BY <1>15
  DEF TypeOK, WorkerReap, Goto, WorkerStep, AgentStep, dbVars, reqVars,
      workVars, agentVars, bootVars, boundVars
<1>16. ASSUME NEW i \in Ingests, WorkerTimeout(i) PROVE TypeOK'
  BY <1>16
  DEF TypeOK, WorkerTimeout, Goto, WorkerStep, AgentStep, dbVars, reqVars,
      workVars, agentVars, bootVars, boundVars
<1>17. ASSUME NEW i \in Ingests, WorkerMarkError(i) PROVE TypeOK'
  BY <1>17
  DEF TypeOK, WorkerMarkError, Goto, IngestStatus, InFlight, Terminal,
      WorkerStep, dbVars, reqVars, workVars, agentVars, bootVars, boundVars
<1>18. ASSUME NEW i \in Ingests, WorkerVerify(i) PROVE TypeOK'
  <2>1. step' \in [Ingests -> WorkerStep] /\ UNCHANGED <<queue, active>>
    <3>1. AfterVerify(i) \in WorkerStep
      BY DEF AfterVerify, WorkerStep
    <3> QED
      BY <1>18, <3>1 DEF TypeOK, WorkerVerify, Goto
  <2> QED
    BY <1>18, <2>1
    DEF TypeOK, WorkerVerify, dbVars, reqVars, workVars, agentVars, bootVars,
        boundVars
<1>19. ASSUME NEW i \in Ingests, WorkerForceError(i) PROVE TypeOK'
  BY <1>19
  DEF TypeOK, WorkerForceError, Goto, IngestStatus, InFlight, Terminal,
      WorkerStep, dbVars, reqVars, workVars, agentVars, bootVars, boundVars
<1>20. ASSUME NEW i \in Ingests, WorkerHeal(i) PROVE TypeOK'
  BY <1>20
  DEF TypeOK, WorkerHeal, Goto, WorkerStep, dbVars, reqVars, workVars,
      agentVars, bootVars, boundVars
<1>21. ASSUME NEW i \in Ingests, WorkerFinish(i) PROVE TypeOK'
  BY <1>21
  DEF TypeOK, WorkerFinish, Goto, WorkerStep, dbVars, reqVars, workVars,
      agentVars, bootVars, boundVars
<1>22. ASSUME NEW i \in Ingests, WorkerSettle(i) PROVE TypeOK'
  BY <1>22, ReleaseType
  DEF TypeOK, WorkerSettle, Goto, BatchStatus, WorkerStep, dbVars, reqVars,
      workVars, agentVars, bootVars, boundVars
<1>23. ASSUME NEW i \in Ingests, WorkerAnnounce(i) PROVE TypeOK'
  <2>1. announced' \in [Batches -> Nat]
    <3>1. BatchOf[i] \in Batches
      BY PipelineAssumption DEF PipelineAssumption
    <3> QED
      BY <1>23, <3>1 DEF TypeOK, WorkerAnnounce
  <2>2. /\ queue' \in Seq(Ingests)
       /\ active' \in Int /\ active' <= MaxConcurrency
       /\ step' \in [Ingests -> WorkerStep]
    BY <1>23, ReleaseType DEF WorkerAnnounce
  <2> QED
    BY <1>23, <2>1, <2>2
    DEF TypeOK, WorkerAnnounce, dbVars, reqVars, workVars, agentVars,
        bootVars, boundVars
<1>24. ASSUME NEW i \in Ingests, WorkerThrows(i) PROVE TypeOK'
  <2>1. faults' \in 0 .. MaxFaults
    BY <1>24, PipelineAssumption
    DEF TypeOK, WorkerThrows, PipelineAssumption
  <2>2. /\ queue' \in Seq(Ingests)
       /\ active' \in Int /\ active' <= MaxConcurrency
       /\ step' \in [Ingests -> WorkerStep]
    BY <1>24, ReleaseType DEF WorkerThrows
  <2> QED
    BY <1>24, <2>1, <2>2
    DEF TypeOK, WorkerThrows, dbVars, reqVars, workVars, agentVars, bootVars,
        boundVars
<1>25. ASSUME NEW i \in Ingests, AgentRead(i) PROVE TypeOK'
  <2>1. agent' \in [Ingests -> AgentStep]
    BY <1>25
    DEF TypeOK, AgentRead, AgentGoto, Decide, AgentStep
  <2>2. verdict' \in [Ingests -> Verdict]
    BY <1>25
    DEF TypeOK, AgentRead, AgentGoto, Decide, Verdict
  <2>3. claim' \in [Ingests -> SUBSET Ingests]
    <3>1. \A S \in SUBSET Ingests :
            [claim EXCEPT ![i] = S] \in [Ingests -> SUBSET Ingests]
      BY DEF TypeOK
    <3> QED
      BY <1>25, <3>1 DEF AgentRead, Decide
  <2>4. killed' \subseteq Ingests
    BY <1>25
    DEF TypeOK, AgentRead, AgentGoto, Decide
  <2> QED
    BY <1>25, <2>1, <2>2, <2>3, <2>4
    DEF TypeOK, AgentRead, dbVars, reqVars, workVars, agentVars, bootVars,
        boundVars
<1>26. ASSUME NEW i \in Ingests, AgentInsert(i) PROVE TypeOK'
  <2>1. links' \subseteq Docs \X Ingests
    <3>1. <<DocOf[i], i>> \in Docs \X Ingests
      BY PipelineAssumption DEF PipelineAssumption
    <3> QED
      BY <1>26, <3>1 DEF TypeOK, AgentInsert
  <2>2. tx' \in [Ingests -> {"none", "posted", "removed"}]
    BY <1>26
    DEF TypeOK, AgentInsert, AgentGoto, Decide
  <2>3. agent' \in [Ingests -> AgentStep]
    BY <1>26
    DEF TypeOK, AgentInsert, AgentGoto, Decide, AgentStep
  <2>4. verdict' \in [Ingests -> Verdict]
    BY <1>26
    DEF TypeOK, AgentInsert, AgentGoto, Decide, Verdict
  <2>5. claim' \in [Ingests -> SUBSET Ingests]
    BY <1>26
    DEF TypeOK, AgentInsert, AgentGoto, Decide
  <2>6. killed' \subseteq Ingests
    BY <1>26
    DEF TypeOK, AgentInsert, AgentGoto, Decide
  <2> QED
    BY <1>26, <2>1, <2>2, <2>3, <2>4, <2>5, <2>6
    DEF TypeOK, AgentInsert, dbVars, reqVars, workVars, agentVars, bootVars,
        boundVars
<1>27. ASSUME NEW i \in Ingests, AgentAttach(i) PROVE TypeOK'
  <2>1. links' \subseteq Docs \X Ingests
    <3>1. {<<DocOf[i], t>> : t \in claim[i]} \subseteq Docs \X Ingests
      BY PipelineAssumption DEF PipelineAssumption, TypeOK
    <3> QED
      BY <1>27, <3>1 DEF TypeOK, AgentAttach
  <2>2. agent' \in [Ingests -> AgentStep]
    BY <1>27
    DEF TypeOK, AgentAttach, AgentGoto, Decide, AgentStep
  <2>3. verdict' \in [Ingests -> Verdict]
    BY <1>27
    DEF TypeOK, AgentAttach, AgentGoto, Decide, Verdict
  <2>4. claim' \in [Ingests -> SUBSET Ingests]
    BY <1>27
    DEF TypeOK, AgentAttach, AgentGoto, Decide
  <2>5. killed' \subseteq Ingests
    BY <1>27
    DEF TypeOK, AgentAttach, AgentGoto, Decide
  <2> QED
    BY <1>27, <2>1, <2>2, <2>3, <2>4, <2>5
    DEF TypeOK, AgentAttach, dbVars, reqVars, workVars, agentVars, bootVars,
        boundVars
<1>28. ASSUME NEW i \in Ingests, AgentClose(i) PROVE TypeOK'
  <2>1. status' \in [Ingests -> IngestStatus]
    <3>1. /\ "done" \in IngestStatus
          /\ verdict[i] # "done_duplicate" => verdict[i] \in IngestStatus
      BY DEF TypeOK, Verdict, IngestStatus, Terminal
    <3> QED
      BY <1>28, <3>1 DEF TypeOK, AgentClose
  <2>2. produced' \in [Ingests -> SUBSET Ingests]
    BY <1>28
    DEF TypeOK, AgentClose, AgentGoto
  <2>3. sentinel' \subseteq Ingests
    BY <1>28
    DEF TypeOK, AgentClose, AgentGoto
  <2>4. agent' \in [Ingests -> AgentStep]
    BY <1>28
    DEF TypeOK, AgentClose, AgentGoto, AgentStep
  <2>5. killed' \subseteq Ingests
    BY <1>28
    DEF TypeOK, AgentClose, AgentGoto
  <2> QED
    BY <1>28, <2>1, <2>2, <2>3, <2>4, <2>5
    DEF TypeOK, AgentClose, dbVars, reqVars, workVars, agentVars, bootVars,
        boundVars
<1>29. ASSUME NEW i \in Ingests, AgentDies(i) PROVE TypeOK'
  BY <1>29
  DEF TypeOK, AgentDies, AgentGoto, AgentStep, dbVars, reqVars, workVars,
      agentVars, bootVars, boundVars
<1>30. ASSUME NEW i \in Ingests, RemoveTransaction(i) PROVE TypeOK'
  BY <1>30
  DEF TypeOK, RemoveTransaction, dbVars, reqVars, workVars, agentVars,
      bootVars, boundVars
<1>31. ASSUME NEW i \in Ingests, RestoreTransaction(i) PROVE TypeOK'
  BY <1>31
  DEF TypeOK, RestoreTransaction, dbVars, reqVars, workVars, agentVars,
      bootVars, boundVars
<1>32. CASE Crash
  <2>1. req' \in [Batches -> ReqStep]
    BY <1>32
    DEF TypeOK, Crash, ReqStep
  <2>2. step' \in [Ingests -> WorkerStep]
    BY <1>32
    DEF TypeOK, Crash, WorkerStep
  <2>3. agent' \in [Ingests -> AgentStep]
    BY <1>32
    DEF TypeOK, Crash, AgentStep
  <2>4. killed' \subseteq Ingests
    BY <1>32
    DEF TypeOK, Crash
  <2>5. crashes' \in 0 .. MaxCrashes
    BY <1>32, PipelineAssumption
    DEF TypeOK, Crash, PipelineAssumption
  <2>6. queue' \in Seq(Ingests)
    BY <1>32
    DEF TypeOK, Crash
  <2>7. active' \in Int /\ active' <= MaxConcurrency
    BY <1>32, PipelineAssumption
    DEF TypeOK, Crash, PipelineAssumption
  <2>8. server' \in {"up", "boot", "fail_batches", "fail_ingests"}
    BY <1>32
    DEF TypeOK, Crash
  <2>9. stale' \subseteq Batches
    BY <1>32
    DEF TypeOK, Crash
  <2> QED
    BY <1>32, <2>1, <2>2, <2>3, <2>4, <2>5, <2>6, <2>7, <2>8, <2>9
    DEF TypeOK, Crash, dbVars, reqVars, workVars, agentVars, bootVars,
        boundVars
<1>33. CASE RecoverScan
  BY <1>33
  DEF TypeOK, RecoverScan, dbVars, reqVars, workVars, agentVars, bootVars,
      boundVars
<1>34. CASE RecoverBatches
  BY <1>34
  DEF TypeOK, RecoverBatches, BatchStatus, dbVars, reqVars, workVars,
      agentVars, bootVars, boundVars
<1>35. CASE RecoverIngests
  BY <1>35
  DEF TypeOK, RecoverIngests, IngestStatus, InFlight, Terminal, dbVars,
      reqVars, workVars, agentVars, bootVars, boundVars
<1>36. CASE RecoverThrows
  <2>1. faults' \in 0 .. MaxFaults
    BY <1>36, PipelineAssumption
    DEF TypeOK, RecoverThrows, PipelineAssumption
  <2>2. server' \in {"up", "boot", "fail_batches", "fail_ingests"}
    BY <1>36
    DEF TypeOK, RecoverThrows
  <2>3. stale' \subseteq Batches
    BY <1>36
    DEF TypeOK, RecoverThrows
  <2> QED
    BY <1>36, <2>1, <2>2, <2>3
    DEF TypeOK, RecoverThrows, dbVars, reqVars, workVars, agentVars,
        bootVars, boundVars
<1>40. CASE UNCHANGED vars
  BY <1>40 DEF TypeOK, vars, dbVars, reqVars, workVars, agentVars, bootVars, boundVars
<1> QED
  BY <1>1, <1>2, <1>3, <1>4, <1>5, <1>6, <1>7, <1>8, <1>9, <1>10, <1>11,
      <1>12, <1>13, <1>14, <1>15, <1>16, <1>17, <1>18, <1>19, <1>20, <1>21,
      <1>22, <1>23, <1>24, <1>25, <1>26, <1>27, <1>28, <1>29, <1>30, <1>31,
      <1>32, <1>33, <1>34, <1>35, <1>36, <1>40
  DEF Next, Request, Retry, Worker, Agent, Recover

\* Type correctness holds in every reachable state.
THEOREM TypeInvariant == Spec => []TypeOK
  BY TypeInit, TypeStep, PTL DEF Spec

----------------------------------------------------------------------------
(***************************************************************************)
(* What each variable can do in one step.                                  *)
(***************************************************************************)

\* The steps that write an ingest status.
LEMMA ChangesStatus ==
  ASSUME [Next]_vars
  PROVE
  \/ UNCHANGED status
  \/ \E b \in Batches : InsertRows(b)
  \/ \E i \in Ingests : WorkerMark(i) \/ WorkerMarkError(i)
                        \/ WorkerForceError(i) \/ AgentClose(i)
  \/ RecoverIngests
<1>1. CASE UNCHANGED vars
  BY <1>1 DEF vars, dbVars
<1>2. CASE \E b \in Batches : Request(b)
  BY <1>2 DEF Request, Retry, dbVars, BatchInsert, UploadInsert, ProbeLive,
         ProbeInFlight, Enqueue, CompleteBatch, RequestAnnounce, RequestThrows,
         UploadLookup
<1>3. CASE \E i \in Ingests : Worker(i)
  BY <1>3 DEF Worker, dbVars, WorkerLookup, WorkerStart, WorkerSpawn,
         WorkerReap, WorkerTimeout, WorkerVerify, WorkerHeal, WorkerFinish,
         WorkerSettle, WorkerAnnounce, WorkerThrows
<1>4. CASE \E i \in Ingests : Agent(i)
  BY <1>4 DEF Agent, dbVars, AgentRead, AgentInsert, AgentAttach, AgentDies
<1> QED
  BY <1>1, <1>2, <1>3, <1>4 DEF Next, Recover, dbVars, RemoveTransaction,
         RestoreTransaction, Crash, RecoverScan, RecoverBatches, RecoverThrows

\* The steps that write a batch status.
LEMMA ChangesBatch ==
  ASSUME [Next]_vars
  PROVE
  \/ UNCHANGED batch
  \/ \E b \in Batches : BatchInsert(b) \/ CompleteBatch(b)
  \/ \E i \in Ingests : WorkerStart(i) \/ WorkerSettle(i)
  \/ RecoverBatches
<1>1. CASE UNCHANGED vars
  BY <1>1 DEF vars, dbVars
<1>2. CASE \E b \in Batches : Request(b)
  BY <1>2 DEF Request, Retry, dbVars, UploadInsert, ProbeLive, ProbeInFlight,
         InsertRows, Enqueue, RequestAnnounce, RequestThrows, UploadLookup
<1>3. CASE \E i \in Ingests : Worker(i)
  BY <1>3 DEF Worker, dbVars, WorkerLookup, WorkerMark, WorkerSpawn,
         WorkerReap, WorkerTimeout, WorkerMarkError, WorkerVerify, WorkerForceError,
         WorkerHeal, WorkerFinish, WorkerAnnounce, WorkerThrows
<1>4. CASE \E i \in Ingests : Agent(i)
  BY <1>4 DEF Agent, dbVars, AgentRead, AgentInsert, AgentAttach, AgentClose,
         AgentDies
<1> QED
  BY <1>1, <1>2, <1>3, <1>4 DEF Next, Recover, dbVars, RemoveTransaction,
         RestoreTransaction, Crash, RecoverScan, RecoverIngests, RecoverThrows

\* The steps that move a request on.
LEMMA ChangesReq ==
  ASSUME [Next]_vars
  PROVE
  \/ UNCHANGED req
  \/ \E b \in Batches : BatchInsert(b) \/ UploadInsert(b) \/ ProbeLive(b)
                        \/ ProbeInFlight(b) \/ InsertRows(b) \/ Enqueue(b)
                        \/ CompleteBatch(b) \/ RequestAnnounce(b)
                        \/ RequestThrows(b)
                        \/ \E i \in Ingests : UploadLookup(b, i)
  \/ Crash
<1>1. CASE UNCHANGED vars
  BY <1>1 DEF vars, reqVars
<1>2. CASE \E b \in Batches : Request(b)
  BY <1>2 DEF Request, Retry, reqVars
<1>3. CASE \E i \in Ingests : Worker(i)
  BY <1>3 DEF Worker, reqVars, WorkerLookup, WorkerMark, WorkerStart,
         WorkerSpawn, WorkerReap, WorkerTimeout, WorkerMarkError, WorkerVerify,
         WorkerForceError, WorkerHeal, WorkerFinish, WorkerSettle, WorkerAnnounce,
         WorkerThrows
<1>4. CASE \E i \in Ingests : Agent(i)
  BY <1>4 DEF Agent, reqVars, AgentRead, AgentInsert, AgentAttach, AgentClose,
         AgentDies
<1> QED
  BY <1>1, <1>2, <1>3, <1>4 DEF Next, Recover, reqVars, RemoveTransaction,
         RestoreTransaction, RecoverScan, RecoverBatches, RecoverIngests,
         RecoverThrows

\* The step that takes the next file.
LEMMA ChangesCur ==
  ASSUME [Next]_vars
  PROVE
  \/ UNCHANGED cur
  \/ \E b \in Batches : \E i \in Ingests : UploadLookup(b, i)
<1>1. CASE UNCHANGED vars
  BY <1>1 DEF vars, reqVars
<1>2. CASE \E b \in Batches : Request(b)
  BY <1>2 DEF Request, Retry, reqVars, BatchInsert, UploadInsert, ProbeLive,
         ProbeInFlight, InsertRows, Enqueue, CompleteBatch, RequestAnnounce,
         RequestThrows
<1>3. CASE \E i \in Ingests : Worker(i)
  BY <1>3 DEF Worker, reqVars, WorkerLookup, WorkerMark, WorkerStart,
         WorkerSpawn, WorkerReap, WorkerTimeout, WorkerMarkError, WorkerVerify,
         WorkerForceError, WorkerHeal, WorkerFinish, WorkerSettle, WorkerAnnounce,
         WorkerThrows
<1>4. CASE \E i \in Ingests : Agent(i)
  BY <1>4 DEF Agent, reqVars, AgentRead, AgentInsert, AgentAttach, AgentClose,
         AgentDies
<1> QED
  BY <1>1, <1>2, <1>3, <1>4 DEF Next, Recover, reqVars, RemoveTransaction,
         RestoreTransaction, Crash, RecoverScan, RecoverBatches, RecoverIngests,
         RecoverThrows

\* The steps that decide to extract a file.
LEMMA ChangesTodo ==
  ASSUME [Next]_vars
  PROVE
  \/ UNCHANGED todo
  \/ \E b \in Batches : UploadInsert(b) \/ ProbeInFlight(b)
<1>1. CASE UNCHANGED vars
  BY <1>1 DEF vars, reqVars
<1>2. CASE \E b \in Batches : Request(b)
  BY <1>2 DEF Request, Retry, reqVars, BatchInsert, ProbeLive, InsertRows,
         Enqueue, CompleteBatch, RequestAnnounce, RequestThrows, UploadLookup
<1>3. CASE \E i \in Ingests : Worker(i)
  BY <1>3 DEF Worker, reqVars, WorkerLookup, WorkerMark, WorkerStart,
         WorkerSpawn, WorkerReap, WorkerTimeout, WorkerMarkError, WorkerVerify,
         WorkerForceError, WorkerHeal, WorkerFinish, WorkerSettle, WorkerAnnounce,
         WorkerThrows
<1>4. CASE \E i \in Ingests : Agent(i)
  BY <1>4 DEF Agent, reqVars, AgentRead, AgentInsert, AgentAttach, AgentClose,
         AgentDies
<1> QED
  BY <1>1, <1>2, <1>3, <1>4 DEF Next, Recover, reqVars, RemoveTransaction,
         RestoreTransaction, Crash, RecoverScan, RecoverBatches, RecoverIngests,
         RecoverThrows

\* The steps that decide to suppress a file.
LEMMA ChangesSuppressed ==
  ASSUME [Next]_vars
  PROVE
  \/ UNCHANGED suppressed
  \/ \E b \in Batches : ProbeLive(b) \/ ProbeInFlight(b)
<1>1. CASE UNCHANGED vars
  BY <1>1 DEF vars, reqVars
<1>2. CASE \E b \in Batches : Request(b)
  BY <1>2 DEF Request, Retry, reqVars, BatchInsert, UploadInsert, InsertRows,
         Enqueue, CompleteBatch, RequestAnnounce, RequestThrows, UploadLookup
<1>3. CASE \E i \in Ingests : Worker(i)
  BY <1>3 DEF Worker, reqVars, WorkerLookup, WorkerMark, WorkerStart,
         WorkerSpawn, WorkerReap, WorkerTimeout, WorkerMarkError, WorkerVerify,
         WorkerForceError, WorkerHeal, WorkerFinish, WorkerSettle, WorkerAnnounce,
         WorkerThrows
<1>4. CASE \E i \in Ingests : Agent(i)
  BY <1>4 DEF Agent, reqVars, AgentRead, AgentInsert, AgentAttach, AgentClose,
         AgentDies
<1> QED
  BY <1>1, <1>2, <1>3, <1>4 DEF Next, Recover, reqVars, RemoveTransaction,
         RestoreTransaction, Crash, RecoverScan, RecoverBatches, RecoverIngests,
         RecoverThrows

\* The steps that move a worker on.
LEMMA ChangesStep ==
  ASSUME [Next]_vars
  PROVE
  \/ UNCHANGED step
  \/ \E b \in Batches : Enqueue(b)
  \/ \E i \in Ingests : WorkerLookup(i) \/ WorkerMark(i) \/ WorkerStart(i)
                        \/ WorkerSpawn(i) \/ WorkerReap(i)
                        \/ WorkerTimeout(i) \/ WorkerMarkError(i)
                        \/ WorkerVerify(i) \/ WorkerForceError(i)
                        \/ WorkerHeal(i) \/ WorkerFinish(i)
                        \/ WorkerSettle(i) \/ WorkerAnnounce(i)
                        \/ WorkerThrows(i)
  \/ Crash
<1>1. CASE UNCHANGED vars
  BY <1>1 DEF vars, workVars
<1>2. CASE \E b \in Batches : Request(b)
  BY <1>2 DEF Request, Retry, workVars, BatchInsert, UploadInsert, ProbeLive,
         ProbeInFlight, InsertRows, CompleteBatch, RequestAnnounce, RequestThrows,
         UploadLookup
<1>3. CASE \E i \in Ingests : Worker(i)
  BY <1>3 DEF Worker, workVars, Goto
<1>4. CASE \E i \in Ingests : Agent(i)
  BY <1>4 DEF Agent, workVars, AgentRead, AgentInsert, AgentAttach,
         AgentClose, AgentDies
<1> QED
  BY <1>1, <1>2, <1>3, <1>4 DEF Next, Recover, workVars, RemoveTransaction,
         RestoreTransaction, RecoverScan, RecoverBatches, RecoverIngests,
         RecoverThrows

\* The steps that touch the queue, the slots or a worker.
LEMMA ChangesPool ==
  ASSUME [Next]_vars
  PROVE
  \/ UNCHANGED <<queue, active, step>>
  \/ \E b \in Batches : Enqueue(b)
  \/ \E i \in Ingests : WorkerLookup(i) \/ WorkerMark(i) \/ WorkerStart(i)
                        \/ WorkerSpawn(i) \/ WorkerReap(i)
                        \/ WorkerTimeout(i) \/ WorkerMarkError(i)
                        \/ WorkerVerify(i) \/ WorkerForceError(i)
                        \/ WorkerHeal(i) \/ WorkerFinish(i)
                        \/ WorkerSettle(i) \/ WorkerAnnounce(i)
                        \/ WorkerThrows(i)
  \/ Crash
<1>1. CASE UNCHANGED vars
  BY <1>1 DEF vars, workVars
<1>2. CASE \E b \in Batches : Request(b)
  BY <1>2 DEF Request, Retry, workVars, BatchInsert, UploadInsert, ProbeLive,
         ProbeInFlight, InsertRows, CompleteBatch, RequestAnnounce, RequestThrows,
         UploadLookup
<1>3. CASE \E i \in Ingests : Worker(i)
  BY <1>3 DEF Worker, workVars, Goto
<1>4. CASE \E i \in Ingests : Agent(i)
  BY <1>4 DEF Agent, workVars, AgentRead, AgentInsert, AgentAttach,
         AgentClose, AgentDies
<1> QED
  BY <1>1, <1>2, <1>3, <1>4 DEF Next, Recover, workVars, RemoveTransaction,
         RestoreTransaction, RecoverScan, RecoverBatches, RecoverIngests,
         RecoverThrows

\* The steps that move an agent on.
LEMMA ChangesAgent ==
  ASSUME [Next]_vars
  PROVE
  \/ UNCHANGED agent
  \/ \E i \in Ingests : WorkerSpawn(i) \/ WorkerReap(i) \/ WorkerTimeout(i)
                        \/ AgentRead(i) \/ AgentInsert(i) \/ AgentAttach(i)
                        \/ AgentClose(i) \/ AgentDies(i)
  \/ Crash
<1>1. CASE UNCHANGED vars
  BY <1>1 DEF vars, agentVars
<1>2. CASE \E b \in Batches : Request(b)
  BY <1>2 DEF Request, Retry, agentVars, BatchInsert, UploadInsert, ProbeLive,
         ProbeInFlight, InsertRows, Enqueue, CompleteBatch, RequestAnnounce,
         RequestThrows, UploadLookup
<1>3. CASE \E i \in Ingests : Worker(i)
  BY <1>3 DEF Worker, agentVars, WorkerLookup, WorkerMark, WorkerStart,
         WorkerMarkError, WorkerVerify, WorkerForceError, WorkerHeal, WorkerFinish,
         WorkerSettle, WorkerAnnounce, WorkerThrows
<1>4. CASE \E i \in Ingests : Agent(i)
  BY <1>4 DEF Agent, agentVars
<1> QED
  BY <1>1, <1>2, <1>3, <1>4 DEF Next, Recover, agentVars, RemoveTransaction,
         RestoreTransaction, RecoverScan, RecoverBatches, RecoverIngests,
         RecoverThrows

\* The steps of a restart.
LEMMA ChangesServer ==
  ASSUME [Next]_vars
  PROVE
  \/ UNCHANGED server
  \/ Crash \/ RecoverScan \/ RecoverBatches \/ RecoverIngests \/ RecoverThrows
<1>1. CASE UNCHANGED vars
  BY <1>1 DEF vars, bootVars
<1>2. CASE \E b \in Batches : Request(b)
  BY <1>2 DEF Request, Retry, bootVars, BatchInsert, UploadInsert, ProbeLive,
         ProbeInFlight, InsertRows, Enqueue, CompleteBatch, RequestAnnounce,
         RequestThrows, UploadLookup
<1>3. CASE \E i \in Ingests : Worker(i)
  BY <1>3 DEF Worker, bootVars, WorkerLookup, WorkerMark, WorkerStart,
         WorkerSpawn, WorkerReap, WorkerTimeout, WorkerMarkError, WorkerVerify,
         WorkerForceError, WorkerHeal, WorkerFinish, WorkerSettle, WorkerAnnounce,
         WorkerThrows
<1>4. CASE \E i \in Ingests : Agent(i)
  BY <1>4 DEF Agent, bootVars, AgentRead, AgentInsert, AgentAttach,
         AgentClose, AgentDies
<1> QED
  BY <1>1, <1>2, <1>3, <1>4 DEF Next, Recover, bootVars, RemoveTransaction,
         RestoreTransaction

\* The steps that select the batches to abandon.
LEMMA ChangesStale ==
  ASSUME [Next]_vars
  PROVE
  \/ UNCHANGED stale
  \/ Crash \/ RecoverScan \/ RecoverIngests \/ RecoverThrows
<1>1. CASE UNCHANGED vars
  BY <1>1 DEF vars, bootVars
<1>2. CASE \E b \in Batches : Request(b)
  BY <1>2 DEF Request, Retry, bootVars, BatchInsert, UploadInsert, ProbeLive,
         ProbeInFlight, InsertRows, Enqueue, CompleteBatch, RequestAnnounce,
         RequestThrows, UploadLookup
<1>3. CASE \E i \in Ingests : Worker(i)
  BY <1>3 DEF Worker, bootVars, WorkerLookup, WorkerMark, WorkerStart,
         WorkerSpawn, WorkerReap, WorkerTimeout, WorkerMarkError, WorkerVerify,
         WorkerForceError, WorkerHeal, WorkerFinish, WorkerSettle, WorkerAnnounce,
         WorkerThrows
<1>4. CASE \E i \in Ingests : Agent(i)
  BY <1>4 DEF Agent, bootVars, AgentRead, AgentInsert, AgentAttach,
         AgentClose, AgentDies
<1> QED
  BY <1>1, <1>2, <1>3, <1>4 DEF Next, Recover, bootVars, RemoveTransaction,
         RestoreTransaction, RecoverBatches

\* The steps that emit batch.extracted.
LEMMA ChangesAnnounced ==
  ASSUME [Next]_vars
  PROVE
  \/ UNCHANGED announced
  \/ \E b \in Batches : RequestAnnounce(b)
  \/ \E i \in Ingests : WorkerAnnounce(i)
<1>1. CASE UNCHANGED vars
  BY <1>1 DEF vars
<1>2. CASE \E b \in Batches : Request(b)
  BY <1>2 DEF Request, Retry, BatchInsert, UploadInsert, ProbeLive,
         ProbeInFlight, InsertRows, Enqueue, CompleteBatch, RequestThrows,
         UploadLookup
<1>3. CASE \E i \in Ingests : Worker(i)
  BY <1>3 DEF Worker, WorkerLookup, WorkerMark, WorkerStart, WorkerSpawn,
         WorkerReap, WorkerTimeout, WorkerMarkError, WorkerVerify, WorkerForceError,
         WorkerHeal, WorkerFinish, WorkerSettle, WorkerThrows
<1>4. CASE \E i \in Ingests : Agent(i)
  BY <1>4 DEF Agent, AgentRead, AgentInsert, AgentAttach, AgentClose,
         AgentDies
<1> QED
  BY <1>1, <1>2, <1>3, <1>4 DEF Next, Recover, RemoveTransaction,
         RestoreTransaction, Crash, RecoverScan, RecoverBatches, RecoverIngests,
         RecoverThrows

\* The steps that link a document to a transaction.
LEMMA ChangesLinks ==
  ASSUME [Next]_vars
  PROVE
  \/ UNCHANGED links
  \/ \E i \in Ingests : AgentInsert(i) \/ AgentAttach(i)
<1>1. CASE UNCHANGED vars
  BY <1>1 DEF vars, dbVars
<1>2. CASE \E b \in Batches : Request(b)
  BY <1>2 DEF Request, Retry, dbVars, BatchInsert, UploadInsert, ProbeLive,
         ProbeInFlight, InsertRows, Enqueue, CompleteBatch, RequestAnnounce,
         RequestThrows, UploadLookup
<1>3. CASE \E i \in Ingests : Worker(i)
  BY <1>3 DEF Worker, dbVars, WorkerLookup, WorkerMark, WorkerStart,
         WorkerSpawn, WorkerReap, WorkerTimeout, WorkerMarkError, WorkerVerify,
         WorkerForceError, WorkerHeal, WorkerFinish, WorkerSettle, WorkerAnnounce,
         WorkerThrows
<1>4. CASE \E i \in Ingests : Agent(i)
  BY <1>4 DEF Agent, dbVars, AgentRead, AgentClose, AgentDies
<1> QED
  BY <1>1, <1>2, <1>3, <1>4 DEF Next, Recover, dbVars, RemoveTransaction,
         RestoreTransaction, Crash, RecoverScan, RecoverBatches, RecoverIngests,
         RecoverThrows

\* The steps that write what an ingest produced.
LEMMA ChangesProduced ==
  ASSUME [Next]_vars
  PROVE
  \/ UNCHANGED produced
  \/ \E b \in Batches : ProbeLive(b)
  \/ \E i \in Ingests : WorkerMarkError(i) \/ WorkerHeal(i) \/ AgentClose(i)
<1>1. CASE UNCHANGED vars
  BY <1>1 DEF vars, dbVars
<1>2. CASE \E b \in Batches : Request(b)
  BY <1>2 DEF Request, Retry, dbVars, BatchInsert, UploadInsert,
         ProbeInFlight, InsertRows, Enqueue, CompleteBatch, RequestAnnounce,
         RequestThrows, UploadLookup
<1>3. CASE \E i \in Ingests : Worker(i)
  BY <1>3 DEF Worker, dbVars, WorkerLookup, WorkerMark, WorkerStart,
         WorkerSpawn, WorkerReap, WorkerTimeout, WorkerVerify, WorkerForceError,
         WorkerFinish, WorkerSettle, WorkerAnnounce, WorkerThrows
<1>4. CASE \E i \in Ingests : Agent(i)
  BY <1>4 DEF Agent, dbVars, AgentRead, AgentInsert, AgentAttach, AgentDies
<1> QED
  BY <1>1, <1>2, <1>3, <1>4 DEF Next, Recover, dbVars, RemoveTransaction,
         RestoreTransaction, Crash, RecoverScan, RecoverBatches, RecoverIngests,
         RecoverThrows

\* The steps that set or clear the duplicate Message-ID sentinel.
LEMMA ChangesSentinel ==
  ASSUME [Next]_vars
  PROVE
  \/ UNCHANGED sentinel
  \/ \E i \in Ingests : WorkerMarkError(i) \/ WorkerForceError(i) \/ AgentClose(i)
<1>1. CASE UNCHANGED vars
  BY <1>1 DEF vars, dbVars
<1>2. CASE \E b \in Batches : Request(b)
  BY <1>2 DEF Request, Retry, dbVars, BatchInsert, UploadInsert, ProbeLive,
         ProbeInFlight, InsertRows, Enqueue, CompleteBatch, RequestAnnounce,
         RequestThrows, UploadLookup
<1>3. CASE \E i \in Ingests : Worker(i)
  BY <1>3 DEF Worker, dbVars, WorkerLookup, WorkerMark, WorkerStart,
         WorkerSpawn, WorkerReap, WorkerTimeout, WorkerVerify, WorkerHeal,
         WorkerFinish, WorkerSettle, WorkerAnnounce, WorkerThrows
<1>4. CASE \E i \in Ingests : Agent(i)
  BY <1>4 DEF Agent, dbVars, AgentRead, AgentInsert, AgentAttach, AgentDies
<1> QED
  BY <1>1, <1>2, <1>3, <1>4 DEF Next, Recover, dbVars, RemoveTransaction,
         RestoreTransaction, Crash, RecoverScan, RecoverBatches, RecoverIngests,
         RecoverThrows

\* The steps that write a transaction.
LEMMA ChangesTx ==
  ASSUME [Next]_vars
  PROVE
  \/ UNCHANGED tx
  \/ \E i \in Ingests : \/ AgentInsert(i)
                          \/ RemoveTransaction(i) \/ RestoreTransaction(i)
<1>1. CASE UNCHANGED vars
  BY <1>1 DEF vars, dbVars
<1>2. CASE \E b \in Batches : Request(b)
  BY <1>2 DEF Request, Retry, dbVars, BatchInsert, UploadInsert, ProbeLive,
         ProbeInFlight, InsertRows, Enqueue, CompleteBatch, RequestAnnounce,
         RequestThrows, UploadLookup
<1>3. CASE \E i \in Ingests : Worker(i)
  BY <1>3 DEF Worker, dbVars, WorkerLookup, WorkerMark, WorkerStart,
         WorkerSpawn, WorkerReap, WorkerTimeout, WorkerMarkError, WorkerVerify,
         WorkerForceError, WorkerHeal, WorkerFinish, WorkerSettle, WorkerAnnounce,
         WorkerThrows
<1>4. CASE \E i \in Ingests : Agent(i)
  BY <1>4 DEF Agent, dbVars, AgentRead, AgentAttach, AgentClose, AgentDies
<1> QED
  BY <1>1, <1>2, <1>3, <1>4 DEF Next, Recover, dbVars, Crash, RecoverScan,
         RecoverBatches, RecoverIngests, RecoverThrows

\* The steps in which an agent makes up its mind.
LEMMA ChangesVerdict ==
  ASSUME [Next]_vars
  PROVE
  \/ UNCHANGED <<verdict, claim>>
  \/ \E i \in Ingests : AgentRead(i) \/ AgentInsert(i) \/ AgentAttach(i)
<1>1. CASE UNCHANGED vars
  BY <1>1 DEF vars, agentVars
<1>2. CASE \E b \in Batches : Request(b)
  BY <1>2 DEF Request, Retry, agentVars, BatchInsert, UploadInsert, ProbeLive,
         ProbeInFlight, InsertRows, Enqueue, CompleteBatch, RequestAnnounce,
         RequestThrows, UploadLookup
<1>3. CASE \E i \in Ingests : Worker(i)
  BY <1>3 DEF Worker, agentVars, WorkerLookup, WorkerMark, WorkerStart,
         WorkerSpawn, WorkerReap, WorkerTimeout, WorkerMarkError, WorkerVerify,
         WorkerForceError, WorkerHeal, WorkerFinish, WorkerSettle, WorkerAnnounce,
         WorkerThrows
<1>4. CASE \E i \in Ingests : Agent(i)
  BY <1>4 DEF Agent, agentVars, AgentClose, AgentDies
<1> QED
  BY <1>1, <1>2, <1>3, <1>4 DEF Next, Recover, agentVars, RemoveTransaction,
         RestoreTransaction, Crash, RecoverScan, RecoverBatches, RecoverIngests,
         RecoverThrows

\* The steps that kill an agent, or see it go.
LEMMA ChangesKilled ==
  ASSUME [Next]_vars
  PROVE
  \/ UNCHANGED killed
  \/ \E i \in Ingests : WorkerTimeout(i) \/ Agent(i)
  \/ Crash
<1>1. CASE UNCHANGED vars
  BY <1>1 DEF vars, agentVars
<1>2. CASE \E b \in Batches : Request(b)
  BY <1>2 DEF Request, Retry, agentVars, BatchInsert, UploadInsert, ProbeLive,
         ProbeInFlight, InsertRows, Enqueue, CompleteBatch, RequestAnnounce,
         RequestThrows, UploadLookup
<1>3. CASE \E i \in Ingests : Worker(i)
  BY <1>3 DEF Worker, agentVars, WorkerLookup, WorkerMark, WorkerStart,
         WorkerSpawn, WorkerReap, WorkerMarkError, WorkerVerify, WorkerForceError,
         WorkerHeal, WorkerFinish, WorkerSettle, WorkerAnnounce, WorkerThrows
<1>4. CASE \E i \in Ingests : Agent(i)
  BY <1>4 DEF Agent, agentVars
<1> QED
  BY <1>1, <1>2, <1>3, <1>4 DEF Next, Recover, agentVars, RemoveTransaction,
         RestoreTransaction, RecoverScan, RecoverBatches, RecoverIngests,
         RecoverThrows

\* The steps in which a call fails.
LEMMA ChangesFaults ==
  ASSUME [Next]_vars
  PROVE
  \/ UNCHANGED faults
  \/ \E b \in Batches : RequestThrows(b)
  \/ \E i \in Ingests : WorkerLookup(i) \/ WorkerThrows(i)
  \/ RecoverThrows
<1>1. CASE UNCHANGED vars
  BY <1>1 DEF vars, boundVars
<1>2. CASE \E b \in Batches : Request(b)
  BY <1>2 DEF Request, Retry, boundVars, BatchInsert, UploadInsert, ProbeLive,
         ProbeInFlight, InsertRows, Enqueue, CompleteBatch, RequestAnnounce,
         UploadLookup
<1>3. CASE \E i \in Ingests : Worker(i)
  BY <1>3 DEF Worker, boundVars, WorkerMark, WorkerStart, WorkerSpawn,
         WorkerReap, WorkerTimeout, WorkerMarkError, WorkerVerify, WorkerForceError,
         WorkerHeal, WorkerFinish, WorkerSettle, WorkerAnnounce
<1>4. CASE \E i \in Ingests : Agent(i)
  BY <1>4 DEF Agent, boundVars, AgentRead, AgentInsert, AgentAttach,
         AgentClose, AgentDies
<1> QED
  BY <1>1, <1>2, <1>3, <1>4 DEF Next, Recover, boundVars, RemoveTransaction,
         RestoreTransaction, Crash, RecoverScan, RecoverBatches, RecoverIngests

\* The step in which the process goes down.
LEMMA ChangesCrashes ==
  ASSUME [Next]_vars
  PROVE
  \/ UNCHANGED crashes
  \/ Crash
<1>1. CASE UNCHANGED vars
  BY <1>1 DEF vars, boundVars
<1>2. CASE \E b \in Batches : Request(b)
  BY <1>2 DEF Request, Retry, boundVars, BatchInsert, UploadInsert, ProbeLive,
         ProbeInFlight, InsertRows, Enqueue, CompleteBatch, RequestAnnounce,
         RequestThrows, UploadLookup
<1>3. CASE \E i \in Ingests : Worker(i)
  BY <1>3 DEF Worker, boundVars, WorkerLookup, WorkerMark, WorkerStart,
         WorkerSpawn, WorkerReap, WorkerTimeout, WorkerMarkError, WorkerVerify,
         WorkerForceError, WorkerHeal, WorkerFinish, WorkerSettle, WorkerAnnounce,
         WorkerThrows
<1>4. CASE \E i \in Ingests : Agent(i)
  BY <1>4 DEF Agent, boundVars, AgentRead, AgentInsert, AgentAttach,
         AgentClose, AgentDies
<1> QED
  BY <1>1, <1>2, <1>3, <1>4 DEF Next, Recover, boundVars, RemoveTransaction,
         RestoreTransaction, RecoverScan, RecoverBatches, RecoverIngests,
         RecoverThrows


\* What one step may do to one ingest status.
LEMMA StatusEffect ==
  ASSUME PipelineInv, [Next]_vars, NEW i \in Ingests
  PROVE  \/ status'[i] = status[i]
         \/ /\ InsertRows(BatchOf[i]) /\ status[i] = "absent"
            /\ \/ i \in suppressed[BatchOf[i]] /\ status'[i] = "dedup"
               \/ i \in InTodo(BatchOf[i]) /\ status'[i] = "queued"
         \/ WorkerMark(i) /\ status[i] = "queued" /\ status'[i] = "processing"
         \/ /\ step[i] \in {"fail", "force"} /\ step'[i] = "settle"
            /\ status[i] # "absent" /\ status'[i] = "error"
         \/ /\ AgentClose(i) /\ agent[i] = "close"
            /\ status[i] \notin {"absent", "queued"}
            /\ status'[i] \in Terminal \ {"dedup"}
         \/ /\ server = "fail_ingests"
            /\ status[i] \in InFlight /\ status'[i] = "error"
<1>0. status \in [Ingests -> IngestStatus]
  BY DEF PipelineInv, TypeOK
<1>1. CASE UNCHANGED status
  BY <1>1
<1>2. ASSUME NEW b \in Batches, InsertRows(b), status'[i] # status[i]
      PROVE  /\ b = BatchOf[i]
             /\ status[i] = "absent"
             /\ \/ i \in suppressed[b] /\ status'[i] = "dedup"
                \/ i \in InTodo(b) /\ status'[i] = "queued"
  <2>1. \/ i \in suppressed[b] /\ status'[i] = "dedup"
        \/ i \in InTodo(b) /\ status'[i] = "queued"
    BY <1>2 DEF InsertRows
  <2>2. i \in Files(b)
    BY <2>1 DEF PipelineInv, FilesSplit
  <2>3. req[b] \in BeforeRows
    BY <1>2 DEF InsertRows, BeforeRows
  <2> QED
    BY <2>1, <2>2, <2>3 DEF Files, PipelineInv, RowsTogether
<1>3. ASSUME NEW j \in Ingests, WorkerMark(j), status'[i] # status[i]
      PROVE  WorkerMark(i) /\ status[i] = "queued" /\ status'[i] = "processing"
  BY <1>0, <1>3 DEF WorkerMark, PipelineInv, WorkerRows
<1>4. ASSUME NEW j \in Ingests, WorkerMarkError(j) \/ WorkerForceError(j),
             status'[i] # status[i]
      PROVE  /\ step[i] \in {"fail", "force"} /\ step'[i] = "settle"
             /\ status[i] # "absent" /\ status'[i] = "error"
  <2>1. i = j /\ status'[i] = "error" /\ step[j] \in {"fail", "force"}
    BY <1>0, <1>4 DEF WorkerMarkError, WorkerForceError
  <2>2. step'[j] = "settle"
    BY <1>4 DEF WorkerMarkError, WorkerForceError, Goto, PipelineInv, TypeOK
  <2> QED
    BY <2>1, <2>2 DEF PipelineInv, WorkerRows
<1>5. ASSUME NEW j \in Ingests, AgentClose(j), status'[i] # status[i]
      PROVE  /\ AgentClose(i) /\ agent[i] = "close"
             /\ status[i] \notin {"absent", "queued"}
             /\ status'[i] \in Terminal \ {"dedup"}
  <2>1. i = j /\ agent[i] = "close"
    BY <1>0, <1>5 DEF AgentClose
  <2>2. verdict[i] \in Verdict
    BY DEF PipelineInv, TypeOK
  <2>3. status'[i] \in Terminal \ {"dedup"}
    BY <1>0, <1>5, <2>1, <2>2 DEF AgentClose, Verdict, Terminal
  <2> QED
    BY <1>5, <2>1, <2>3 DEF PipelineInv, WorkerRows
<1>6. ASSUME RecoverIngests, status'[i] # status[i]
      PROVE  /\ server = "fail_ingests"
             /\ status[i] \in InFlight /\ status'[i] = "error"
  BY <1>0, <1>6 DEF RecoverIngests
<1> QED
  BY ChangesStatus, <1>1, <1>2, <1>3, <1>4, <1>5, <1>6

\* What one step may do to one request.
LEMMA ReqEffect ==
  ASSUME TypeOK, [Next]_vars, NEW b \in Batches
  PROVE  \/ req'[b] = req[b]
         \/ BatchInsert(b) /\ req[b] = "none" /\ req'[b] = "next"
         \/ req[b] \in BeforeRows \ {"none"} /\ req'[b] \in BeforeRows \ {"none"}
         \/ InsertRows(b) /\ req[b] = "next" /\ req'[b] = "enqueue"
         \/ req[b] = "enqueue" /\ req'[b] = "complete"
         \/ CompleteBatch(b) /\ req[b] = "complete" /\ req'[b] = "announce"
         \/ req[b] # "none" /\ req'[b] = "closed"
<1>0. req \in [Batches -> ReqStep]
  BY DEF TypeOK
<1>1. CASE UNCHANGED req
  BY <1>1
<1>2. ASSUME NEW c \in Batches, BatchInsert(c) PROVE
        \/ req'[b] = req[b]
        \/ BatchInsert(b) /\ req[b] = "none" /\ req'[b] = "next"
  <2>1. req[c] = "none" /\ req' = [req EXCEPT ![c] = "next"]
    BY <1>2 DEF BatchInsert
  <2> QED
    BY <1>0, <1>2, <2>1
<1>3. ASSUME NEW c \in Batches, NEW i \in Ingests, UploadLookup(c, i) PROVE
        \/ req'[b] = req[b]
        \/ req[b] \in BeforeRows \ {"none"} /\ req'[b] \in BeforeRows \ {"none"}
  BY <1>0, <1>3 DEF UploadLookup, BeforeRows
<1>4. ASSUME NEW c \in Batches, UploadInsert(c) PROVE
        \/ req'[b] = req[b]
        \/ req[b] \in BeforeRows \ {"none"} /\ req'[b] \in BeforeRows \ {"none"}
        \/ req[b] # "none" /\ req'[b] = "closed"
  BY <1>0, <1>4 DEF UploadInsert, BeforeRows
<1>5. ASSUME NEW c \in Batches, ProbeLive(c) \/ ProbeInFlight(c) PROVE
        \/ req'[b] = req[b]
        \/ req[b] \in BeforeRows \ {"none"} /\ req'[b] \in BeforeRows \ {"none"}
  BY <1>0, <1>5 DEF ProbeLive, ProbeInFlight, Suppress, BeforeRows
<1>6. ASSUME NEW c \in Batches, InsertRows(c) PROVE
        \/ req'[b] = req[b]
        \/ InsertRows(b) /\ req[b] = "next" /\ req'[b] = "enqueue"
  BY <1>0, <1>6 DEF InsertRows
<1>7. ASSUME NEW c \in Batches, Enqueue(c) PROVE
        \/ req'[b] = req[b]
        \/ req[b] = "enqueue" /\ req'[b] \in {"complete", "closed"}
  BY <1>0, <1>7 DEF Enqueue
<1>8. ASSUME NEW c \in Batches, CompleteBatch(c) PROVE
        \/ req'[b] = req[b]
        \/ CompleteBatch(b) /\ req[b] = "complete" /\ req'[b] \in {"announce", "closed"}
  BY <1>0, <1>8 DEF CompleteBatch
<1>9. ASSUME NEW c \in Batches, RequestAnnounce(c) \/ RequestThrows(c) PROVE
        \/ req'[b] = req[b]
        \/ req[b] # "none" /\ req'[b] = "closed"
  <2>1. req[c] # "none" /\ req' = [req EXCEPT ![c] = "closed"]
    BY <1>9 DEF RequestAnnounce, RequestThrows
  <2> QED
    BY <1>0, <2>1
<1>10. CASE Crash
  BY <1>10, <1>0 DEF Crash
<1> QED
  BY ChangesReq, <1>1, <1>2, <1>3, <1>4, <1>5, <1>6, <1>7, <1>8, <1>9, <1>10

\* What one step may do to one batch status.
LEMMA BatchEffect ==
  ASSUME PipelineInv, [Next]_vars, NEW b \in Batches
  PROVE  \/ batch'[b] = batch[b]
         \/ /\ req[b] = "none" /\ req'[b] = "next"
            /\ batch[b] = "absent" /\ batch'[b] = "pending"
         \/ /\ CompleteBatch(b) /\ req[b] = "complete" /\ req'[b] = "announce"
            /\ Completable(b) /\ batch'[b] = "extracted"
         \/ \E i \in Files(b) : /\ step[i] = "start"
                                /\ batch[b] = "pending" /\ batch'[b] = "processing"
         \/ \E i \in Files(b) : /\ WorkerSettle(i) /\ step[i] = "settle"
                                /\ step'[i] = "announce"
                                /\ Completable(b) /\ batch'[b] = "extracted"
         \/ /\ RecoverBatches /\ server = "fail_batches" /\ b \in stale
            /\ batch[b] \in OpenBatch /\ batch'[b] = "failed"
<1>0. /\ batch \in [Batches -> BatchStatus] /\ req \in [Batches -> ReqStep]
      /\ step \in [Ingests -> WorkerStep]
      /\ BatchOf \in [Ingests -> Batches]
  BY PipelineAssumption DEF PipelineAssumption, PipelineInv, TypeOK
<1>1. ASSUME NEW c \in Batches, BatchInsert(c), batch'[b] # batch[b]
      PROVE  /\ req[b] = "none" /\ req'[b] = "next"
             /\ batch[b] = "absent" /\ batch'[b] = "pending"
  <2>1. b = c /\ req[b] = "none" /\ req'[b] = "next" /\ batch'[b] = "pending"
    BY <1>0, <1>1 DEF BatchInsert
  <2> QED
    BY <2>1 DEF PipelineInv, BatchOpened
<1>2. ASSUME NEW c \in Batches, CompleteBatch(c), batch'[b] # batch[b]
      PROVE  /\ CompleteBatch(b) /\ req[b] = "complete" /\ req'[b] = "announce"
             /\ Completable(b) /\ batch'[b] = "extracted"
  BY <1>0, <1>2 DEF CompleteBatch
<1>3. ASSUME NEW i \in Ingests, WorkerStart(i), batch'[b] # batch[b]
      PROVE  /\ i \in Files(b) /\ step[i] = "start"
             /\ batch[b] = "pending" /\ batch'[b] = "processing"
  BY <1>0, <1>3 DEF WorkerStart, Files
<1>4. ASSUME NEW i \in Ingests, WorkerSettle(i), batch'[b] # batch[b]
      PROVE  /\ i \in Files(b) /\ step[i] = "settle" /\ step'[i] = "announce"
             /\ Completable(b) /\ batch'[b] = "extracted"
  <2>1. Completable(BatchOf[i]) /\ batch' = [batch EXCEPT ![BatchOf[i]] = "extracted"]
        /\ step[i] = "settle" /\ Goto(i, "announce")
    BY <1>4 DEF WorkerSettle
  <2>2. b = BatchOf[i] /\ batch'[b] = "extracted"
    BY <1>0, <1>4, <2>1
  <2> QED
    BY <1>0, <2>1, <2>2 DEF Goto, Files
<1>5. ASSUME RecoverBatches, batch'[b] # batch[b]
      PROVE  /\ server = "fail_batches" /\ b \in stale
             /\ batch[b] \in OpenBatch /\ batch'[b] = "failed"
  BY <1>5 DEF RecoverBatches, PipelineInv, DownIsQuiet
<1> QED
  BY ChangesBatch, <1>1, <1>2, <1>3, <1>4, <1>5

\* Where a request is while it decides about a file.
Handling == {"insert_doc", "probe_live", "probe_flight"}

\* What one step may do to the files of one request: take the next, decide to
\* extract the one it has, decide to suppress it, or nothing.
LEMMA FilesEffect ==
  ASSUME TypeOK, [Next]_vars, NEW b \in Batches
  PROVE  \/ /\ todo'[b] = todo[b] /\ suppressed'[b] = suppressed[b]
            /\ \/ req'[b] \notin Handling
               \/ req[b] \in Handling /\ cur'[b] = cur[b]
               \/ cur'[b] \in Files(b) \ (InTodo(b) \cup suppressed[b])
         \/ /\ req[b] \in Handling /\ req'[b] = "next"
            /\ todo'[b] = Append(todo[b], cur[b]) /\ suppressed'[b] = suppressed[b]
         \/ /\ req[b] \in Handling /\ req'[b] = "next"
            /\ todo'[b] = todo[b] /\ suppressed'[b] = suppressed[b] \cup {cur[b]}
<1>0. /\ req \in [Batches -> ReqStep] /\ cur \in [Batches -> Ingests]
      /\ todo \in [Batches -> Seq(Ingests)]
      /\ suppressed \in [Batches -> SUBSET Ingests]
  BY DEF TypeOK
<1>1. ASSUME NEW i \in Ingests, UploadLookup(b, i)
      PROVE  /\ todo'[b] = todo[b] /\ suppressed'[b] = suppressed[b]
             /\ cur'[b] \in Files(b) \ (InTodo(b) \cup suppressed[b])
  BY <1>0, <1>1 DEF UploadLookup, InTodo, Files
<1>2. ASSUME NEW c \in Batches, c # b,
             \/ UploadInsert(c) \/ ProbeLive(c) \/ ProbeInFlight(c)
             \/ \E i \in Ingests : UploadLookup(c, i)
      PROVE  /\ todo'[b] = todo[b] /\ suppressed'[b] = suppressed[b]
             /\ req'[b] = req[b] /\ cur'[b] = cur[b]
  <2>1. CASE UploadInsert(c)
    BY <1>0, <1>2, <2>1 DEF UploadInsert
  <2>2. CASE ProbeLive(c)
    BY <1>0, <1>2, <2>2 DEF ProbeLive, Suppress
  <2>3. CASE ProbeInFlight(c)
    BY <1>0, <1>2, <2>3 DEF ProbeInFlight, Suppress
  <2>4. ASSUME NEW i \in Ingests, UploadLookup(c, i)
        PROVE  /\ todo'[b] = todo[b] /\ suppressed'[b] = suppressed[b]
               /\ req'[b] = req[b] /\ cur'[b] = cur[b]
    BY <1>0, <1>2, <2>4 DEF UploadLookup
  <2> QED
    BY <1>2, <2>1, <2>2, <2>3, <2>4
<1>3. ASSUME UploadInsert(b)
      PROVE  \/ /\ todo'[b] = todo[b] /\ suppressed'[b] = suppressed[b]
                /\ req'[b] \notin Handling
             \/ /\ req[b] \in Handling /\ req'[b] = "next"
                /\ todo'[b] = Append(todo[b], cur[b])
                /\ suppressed'[b] = suppressed[b]
  BY <1>0, <1>3 DEF UploadInsert, Handling
<1>4. ASSUME ProbeLive(b)
      PROVE  \/ /\ todo'[b] = todo[b] /\ suppressed'[b] = suppressed[b]
                /\ req[b] \in Handling /\ cur'[b] = cur[b]
             \/ /\ req[b] \in Handling /\ req'[b] = "next"
                /\ todo'[b] = todo[b]
                /\ suppressed'[b] = suppressed[b] \cup {cur[b]}
  BY <1>0, <1>4 DEF ProbeLive, Suppress, Handling
<1>5. ASSUME ProbeInFlight(b)
      PROVE  \/ /\ req[b] \in Handling /\ req'[b] = "next"
                /\ todo'[b] = Append(todo[b], cur[b])
                /\ suppressed'[b] = suppressed[b]
             \/ /\ req[b] \in Handling /\ req'[b] = "next"
                /\ todo'[b] = todo[b]
                /\ suppressed'[b] = suppressed[b] \cup {cur[b]}
  BY <1>0, <1>5 DEF ProbeInFlight, Suppress, Handling
<1>6. ASSUME UNCHANGED <<todo, suppressed, cur>>
      PROVE  /\ todo'[b] = todo[b] /\ suppressed'[b] = suppressed[b]
             /\ cur'[b] = cur[b]
  BY <1>6
<1>7. \/ UNCHANGED <<todo, suppressed, cur>>
      \/ \E c \in Batches : \/ UploadInsert(c) \/ ProbeLive(c) \/ ProbeInFlight(c)
                            \/ \E i \in Ingests : UploadLookup(c, i)
  BY ChangesTodo, ChangesSuppressed, ChangesCur
<1>8. ASSUME UNCHANGED <<todo, suppressed, cur>>, req'[b] \in Handling
      PROVE  \/ req[b] \in Handling
             \/ \E c \in Batches : \/ UploadInsert(c) \/ ProbeLive(c) \/ ProbeInFlight(c)
                                   \/ \E i \in Ingests : UploadLookup(c, i)
  <2>1. ASSUME NEW c \in Batches,
               \/ BatchInsert(c) \/ InsertRows(c) \/ Enqueue(c) \/ CompleteBatch(c)
               \/ RequestAnnounce(c) \/ RequestThrows(c)
        PROVE  req[b] \in Handling
    <3>1. \E s \in {"next", "enqueue", "complete", "closed", "announce"} :
            req' = [req EXCEPT ![c] = s]
      BY <2>1 DEF BatchInsert, InsertRows, Enqueue, CompleteBatch, RequestAnnounce,
                  RequestThrows
    <3> QED
      BY <1>0, <1>8, <3>1 DEF Handling
  <2>2. CASE Crash
    BY <1>0, <1>8, <2>2 DEF Crash, Handling
  <2> QED
    BY <1>8, <2>1, <2>2, ChangesReq
<1> QED
  BY <1>1, <1>2, <1>3, <1>4, <1>5, <1>6, <1>7, <1>8

\* A worker goes on to its next step, or gives its slot back.
LEMMA WorkerMoves ==
  ASSUME NEW j \in Ingests, Worker(j)
  PROVE  /\ step[j] # "idle"
         /\ \/ Release(j)
            \/ \E s \in WorkerStep \ {"idle", "lookup"} : Goto(j, s)
<1>1. ASSUME \/ WorkerMark(j) \/ WorkerStart(j) \/ WorkerSpawn(j)
             \/ WorkerMarkError(j) \/ WorkerForceError(j) \/ WorkerHeal(j)
             \/ WorkerFinish(j) \/ WorkerTimeout(j)
      PROVE  \E s \in WorkerStep \ {"idle", "lookup"} : step[j] # "idle" /\ Goto(j, s)
  <2>1. \E s \in {"start", "spawn", "wait", "settle", "finish", "fail"} :
          step[j] # "idle" /\ Goto(j, s)
    BY <1>1 DEF WorkerMark, WorkerStart, WorkerSpawn, WorkerMarkError,
                WorkerForceError, WorkerHeal, WorkerFinish, WorkerTimeout
  <2> QED
    BY <2>1 DEF WorkerStep
<1>2. ASSUME WorkerLookup(j) \/ WorkerReap(j) \/ WorkerVerify(j)
      PROVE  \E s \in WorkerStep \ {"idle", "lookup"} : step[j] # "idle" /\ Goto(j, s)
  <2>1. CASE WorkerLookup(j)
    <3>1. \E s \in {"mark", "fail"} : step[j] # "idle" /\ Goto(j, s)
      BY <2>1 DEF WorkerLookup
    <3> QED
      BY <3>1 DEF WorkerStep
  <2>2. CASE WorkerReap(j)
    <3>1. \E s \in {"verify", "fail"} : step[j] # "idle" /\ Goto(j, s)
      BY <2>2 DEF WorkerReap
    <3> QED
      BY <3>1 DEF WorkerStep
  <2>3. CASE WorkerVerify(j)
    <3>1. AfterVerify(j) \in WorkerStep \ {"idle", "lookup"}
      BY DEF AfterVerify, WorkerStep
    <3> QED
      BY <2>3, <3>1 DEF WorkerVerify
  <2> QED
    BY <1>2, <2>1, <2>2, <2>3
<1>3. ASSUME WorkerSettle(j)
      PROVE  \/ step[j] # "idle" /\ Release(j)
             \/ \E s \in WorkerStep \ {"idle", "lookup"} : step[j] # "idle" /\ Goto(j, s)
  <2>1. step[j] # "idle" /\ (Release(j) \/ Goto(j, "announce"))
    BY <1>3 DEF WorkerSettle
  <2>2. "announce" \in WorkerStep \ {"idle", "lookup"}
    BY DEF WorkerStep
  <2> QED
    BY <2>1, <2>2
<1>4. ASSUME WorkerAnnounce(j) \/ WorkerThrows(j)
      PROVE  step[j] # "idle" /\ Release(j)
  BY <1>4 DEF WorkerAnnounce, WorkerThrows
<1> QED
  BY <1>1, <1>2, <1>3, <1>4 DEF Worker

\* The four ways the pool changes: a push, a release, a crash, or one worker
\* going on to its next step.
LEMMA PoolMoves ==
  ASSUME [Next]_vars
  PROVE  \/ \E b \in Batches : Enqueue(b)
         \/ \E j \in Ingests : step[j] # "idle" /\ Release(j)
         \/ Crash
         \/ UNCHANGED <<queue, active, step>>
         \/ \E j \in Ingests, s \in WorkerStep \ {"idle", "lookup"} :
              step[j] # "idle" /\ Goto(j, s)
  BY ChangesPool, WorkerMoves DEF Worker

\* Taking the first k items off a queue without repetitions.
LEMMA TakeFirst ==
  ASSUME NEW q \in Seq(Ingests), NEW k \in Nat, k <= Len(q),
         \A m, n \in 1 .. Len(q) : q[m] = q[n] => m = n
  PROVE  LET r == SubSeq(q, k + 1, Len(q))
         IN /\ \A m, n \in 1 .. Len(r) : r[m] = r[n] => m = n
            /\ \A n \in 1 .. Len(r) : /\ r[n] \notin First(q, k)
                                      /\ \E m \in 1 .. Len(q) : r[n] = q[m]
            /\ \A i \in First(q, k) : \E m \in 1 .. Len(q) : i = q[m]
<1> DEFINE r == SubSeq(q, k + 1, Len(q))
<1>1. /\ Len(r) = Len(q) - k
      /\ \A n \in 1 .. Len(q) - k : r[n] = q[n + k]
  BY DropFirst
<1>2. \A n \in 1 .. Len(r) : n + k \in 1 .. Len(q) /\ r[n] = q[n + k]
  BY <1>1
<1>3. \A m, n \in 1 .. Len(r) : r[m] = r[n] => m = n
  <2> SUFFICES ASSUME NEW m \in 1 .. Len(r), NEW n \in 1 .. Len(r), r[m] = r[n]
               PROVE  m = n
    OBVIOUS
  <2>1. m + k = n + k
    BY <1>2
  <2> QED
    BY <2>1, <1>1
<1>4. \A n \in 1 .. Len(r) : r[n] \notin First(q, k)
  <2> SUFFICES ASSUME NEW n \in 1 .. Len(r), NEW m \in 1 .. k, r[n] = q[m]
               PROVE  FALSE
    BY DEF First
  <2>1. m \in 1 .. Len(q) /\ n + k = m
    BY <1>2
  <2> QED
    BY <2>1, <1>1
<1>5. \A n \in 1 .. Len(r) : \E m \in 1 .. Len(q) : r[n] = q[m]
  BY <1>2
<1>6. \A i \in First(q, k) : \E m \in 1 .. Len(q) : i = q[m]
  <2>1. \A m \in 1 .. k : m \in 1 .. Len(q)
    OBVIOUS
  <2> QED
    BY <2>1 DEF First
<1> QED
  BY <1>3, <1>4, <1>5, <1>6

\* What a request pushes goes behind what waits, and nothing waits twice or is
\* running already.
LEMMA PushedOnce ==
  ASSUME PipelineInv, NEW b \in Batches, Enqueue(b)
  PROVE  LET q == queue \o todo[b]
         IN /\ \A m, n \in 1 .. Len(q) : q[m] = q[n] => m = n
            /\ \A n \in 1 .. Len(q) : q[n] \in Queued \cup InTodo(b) /\ step[q[n]] = "idle"
<1> DEFINE q == queue \o todo[b]
<1>0. /\ queue \in Seq(Ingests) /\ todo[b] \in Seq(Ingests)
      /\ FilesSplit /\ QueueHeld
  BY DEF PipelineInv, TypeOK
<1>1. q \in Seq(Ingests) /\ Len(q) = Len(queue) + Len(todo[b])
  BY <1>0
<1>2. /\ \A n \in 1 .. Len(queue) : q[n] = queue[n]
      /\ \A n \in Len(queue) + 1 .. Len(q) :
           /\ n - Len(queue) \in 1 .. Len(todo[b])
           /\ q[n] = todo[b][n - Len(queue)]
  BY <1>0, <1>1
<1>3. \A i \in InTodo(b) : i \notin Queued /\ step[i] = "idle"
  <2>1. req[b] = "enqueue"
    BY DEF Enqueue
  <2>2. \A i \in InTodo(b) : BatchOf[i] = b
    BY <1>0 DEF FilesSplit, Files
  <2> QED
    BY <1>0, <2>1, <2>2 DEF QueueHeld
<1>4. \A n \in 1 .. Len(q) : q[n] \in Queued \cup InTodo(b) /\ step[q[n]] = "idle"
  <2> SUFFICES ASSUME NEW n \in 1 .. Len(q)
               PROVE  q[n] \in Queued \cup InTodo(b) /\ step[q[n]] = "idle"
    OBVIOUS
  <2>1. CASE n \in 1 .. Len(queue)
    BY <1>0, <1>2, <2>1 DEF QueueHeld, Queued
  <2>2. CASE n \in Len(queue) + 1 .. Len(q)
    BY <1>2, <1>3, <2>2 DEF InTodo
  <2> QED
    BY <1>0, <1>1, <2>1, <2>2
<1>5. \A m, n \in 1 .. Len(q) : q[m] = q[n] => m = n
  <2> SUFFICES ASSUME NEW m \in 1 .. Len(q), NEW n \in 1 .. Len(q), q[m] = q[n]
               PROVE  m = n
    OBVIOUS
  <2>1. CASE m \in 1 .. Len(queue) /\ n \in 1 .. Len(queue)
    BY <1>0, <1>2, <2>1 DEF QueueHeld
  <2>2. CASE m \in 1 .. Len(queue) /\ n \in Len(queue) + 1 .. Len(q)
    <3>1. q[m] \in Queued
      BY <1>2, <2>2 DEF Queued
    <3>2. q[n] \in InTodo(b)
      BY <1>2, <2>2 DEF InTodo
    <3> QED
      BY <1>3, <3>1, <3>2
  <2>3. CASE m \in Len(queue) + 1 .. Len(q) /\ n \in 1 .. Len(queue)
    <3>1. q[n] \in Queued
      BY <1>2, <2>3 DEF Queued
    <3>2. q[m] \in InTodo(b)
      BY <1>2, <2>3 DEF InTodo
    <3> QED
      BY <1>3, <3>1, <3>2
  <2>4. CASE m \in Len(queue) + 1 .. Len(q) /\ n \in Len(queue) + 1 .. Len(q)
    <3>1. \A u, v \in 1 .. Len(todo[b]) : todo[b][u] = todo[b][v] => u = v
      BY <1>0 DEF FilesSplit
    <3>2. /\ m - Len(queue) \in 1 .. Len(todo[b])
          /\ n - Len(queue) \in 1 .. Len(todo[b])
          /\ todo[b][m - Len(queue)] = todo[b][n - Len(queue)]
      BY <1>2, <2>4
    <3>3. m - Len(queue) = n - Len(queue)
      BY <3>1, <3>2
    <3> QED
      BY <1>0, <1>1, <3>3
  <2> QED
    BY <1>0, <1>1, <2>1, <2>2, <2>3, <2>4
<1> QED
  BY <1>4, <1>5

\* Whatever is left in the queue was waiting before, once, and has no worker.
LEMMA QueueEffect ==
  ASSUME PipelineInv, [Next]_vars
  PROVE  /\ \A m, n \in 1 .. Len(queue') : queue'[m] = queue'[n] => m = n
         /\ \A i \in Queued' : step'[i] = "idle"
         /\ \A i \in Queued' : \/ i \in Queued
                               \/ \E b \in Batches : Enqueue(b) /\ i \in InTodo(b)
<1>0. /\ queue \in Seq(Ingests) /\ step \in [Ingests -> WorkerStep]
      /\ \A b \in Batches : todo[b] \in Seq(Ingests)
      /\ active \in Int /\ active <= MaxConcurrency
      /\ TypeOK /\ FilesSplit /\ QueueHeld
  BY DEF PipelineInv, TypeOK
<1>1. ASSUME NEW b \in Batches, Enqueue(b)
      PROVE  /\ \A m, n \in 1 .. Len(queue') : queue'[m] = queue'[n] => m = n
             /\ \A i \in Queued' : i \in Queued \cup InTodo(b) /\ step'[i] = "idle"
  <2> DEFINE q == queue \o todo[b]
             k == Startable(active, q)
  <2>1. q \in Seq(Ingests)
    BY <1>0
  <2>4. \A n \in 1 .. Len(q) : q[n] \in Queued \cup InTodo(b) /\ step[q[n]] = "idle"
    BY <1>1, PushedOnce
  <2>5. \A m, n \in 1 .. Len(q) : q[m] = q[n] => m = n
    BY <1>1, PushedOnce
  <2>6. k \in Nat /\ k <= Len(q)
    BY <1>0, <2>1, StartableBounds
  <2>7. /\ queue' = SubSeq(q, k + 1, Len(q))
        /\ step' = [i \in Ingests |-> IF i \in First(q, k) THEN "lookup" ELSE step[i]]
    BY <1>1 DEF Enqueue
  <2> HIDE DEF q, k
  <2>8. /\ \A m, n \in 1 .. Len(queue') : queue'[m] = queue'[n] => m = n
        /\ \A n \in 1 .. Len(queue') : /\ queue'[n] \notin First(q, k)
                                       /\ \E m \in 1 .. Len(q) : queue'[n] = q[m]
    <3> DEFINE r == SubSeq(q, k + 1, Len(q))
    <3>1. /\ \A m, n \in 1 .. Len(r) : r[m] = r[n] => m = n
          /\ \A n \in 1 .. Len(r) : /\ r[n] \notin First(q, k)
                                    /\ \E m \in 1 .. Len(q) : r[n] = q[m]
      BY <2>1, <2>5, <2>6, TakeFirst
    <3>2. queue' = r
      BY <2>7
    <3> HIDE DEF r
    <3> QED
      BY <3>1, <3>2
  <2>9. \A i \in Queued' : i \notin First(q, k) /\ \E m \in 1 .. Len(q) : i = q[m]
    BY <2>8 DEF Queued
  <2>10. \A m \in 1 .. Len(q) : q[m] \in Ingests
    BY <2>1
  <2> QED
    <3>1. \A i \in Queued' : i \in Queued \cup InTodo(b) /\ step[i] = "idle" /\ i \in Ingests
      BY <2>4, <2>9, <2>10
    <3>2. \A i \in Queued' : step'[i] = "idle"
      BY <2>7, <2>9, <3>1
    <3> QED
      BY <2>8, <3>1, <3>2
<1>2. ASSUME NEW j \in Ingests, step[j] # "idle", Release(j)
      PROVE  /\ \A m, n \in 1 .. Len(queue') : queue'[m] = queue'[n] => m = n
             /\ \A i \in Queued' : i \in Queued /\ step'[i] = "idle"
  <2> DEFINE k == Startable(active - 1, queue)
  <2>1. k \in Nat /\ k <= Len(queue)
    <3>1. active - 1 \in Int /\ active - 1 <= MaxConcurrency
      BY <1>0, PipelineAssumption DEF PipelineAssumption
    <3> QED
      BY <1>0, <3>1, StartableBounds
  <2>2. /\ queue' = SubSeq(queue, k + 1, Len(queue))
        /\ step' = [i \in Ingests |-> IF i \in First(queue, k) THEN "lookup"
                                      ELSE IF i = j THEN "idle" ELSE step[i]]
    BY <1>2 DEF Release
  <2> HIDE DEF k
  <2>3. \A m, n \in 1 .. Len(queue) : queue[m] = queue[n] => m = n
    BY <1>0 DEF QueueHeld
  <2>4. /\ \A m, n \in 1 .. Len(queue') : queue'[m] = queue'[n] => m = n
        /\ \A n \in 1 .. Len(queue') : /\ queue'[n] \notin First(queue, k)
                                       /\ \E m \in 1 .. Len(queue) : queue'[n] = queue[m]
    <3> DEFINE r == SubSeq(queue, k + 1, Len(queue))
    <3>1. /\ \A m, n \in 1 .. Len(r) : r[m] = r[n] => m = n
          /\ \A n \in 1 .. Len(r) : /\ r[n] \notin First(queue, k)
                                    /\ \E m \in 1 .. Len(queue) : r[n] = queue[m]
      BY <1>0, <2>1, <2>3, TakeFirst
    <3>2. queue' = r
      BY <2>2
    <3> HIDE DEF r
    <3> QED
      BY <3>1, <3>2
  <2>5. \A i \in Queued' : i \notin First(queue, k) /\ i \in Queued /\ i \in Ingests
    BY <1>0, <2>4 DEF Queued
  <2>6. \A i \in Queued : step[i] = "idle"
    BY <1>0 DEF QueueHeld
  <2> QED
    BY <2>2, <2>4, <2>5, <2>6
<1>3. CASE Crash
  BY <1>3 DEF Crash, Queued
<1>4. CASE UNCHANGED <<queue, active, step>>
  BY <1>0, <1>4 DEF Queued, QueueHeld
<1>5. ASSUME NEW j \in Ingests, NEW s \in WorkerStep, step[j] # "idle", Goto(j, s)
      PROVE  /\ \A m, n \in 1 .. Len(queue') : queue'[m] = queue'[n] => m = n
             /\ \A i \in Queued' : i \in Queued /\ step'[i] = "idle"
  <2>1. queue' = queue /\ step' = [step EXCEPT ![j] = s]
    BY <1>5 DEF Goto
  <2>2. \A i \in Queued : i # j /\ step[i] = "idle" /\ i \in Ingests
    BY <1>0, <1>5 DEF QueueHeld, Queued
  <2> QED
    BY <1>0, <2>1, <2>2 DEF Queued, QueueHeld
<1> QED
  BY <1>1, <1>2, <1>3, <1>4, <1>5, PoolMoves

\* A worker starts on an item that waited in the queue, or that its request is
\* pushing right now; nothing else happens to the database in that step.
LEMMA Started ==
  ASSUME PipelineInv, [Next]_vars, NEW i \in Ingests, step[i] = "idle"
  PROVE  \/ step'[i] = "idle"
         \/ /\ step'[i] = "lookup"
            /\ i \in Queued \/ (Enqueue(BatchOf[i]) /\ i \in InTodo(BatchOf[i]))
<1>0. /\ step \in [Ingests -> WorkerStep] /\ queue \in Seq(Ingests)
      /\ \A b \in Batches : todo[b] \in Seq(Ingests)
      /\ active \in Int /\ active <= MaxConcurrency
      /\ \A b \in Batches : InTodo(b) \subseteq Files(b)
  BY DEF PipelineInv, TypeOK, FilesSplit
<1>1. ASSUME NEW b \in Batches, Enqueue(b), step'[i] # "idle"
      PROVE  step'[i] = "lookup" /\ (i \in Queued \/ (b = BatchOf[i] /\ i \in InTodo(b)))
  <2> DEFINE q == queue \o todo[b]
             k == Startable(active, q)
  <2>1. step'[i] = "lookup" /\ i \in First(q, k)
    BY <1>0, <1>1 DEF Enqueue
  <2>2. q \in Seq(Ingests) /\ Len(q) = Len(queue) + Len(todo[b])
    BY <1>0
  <2>3. k \in Nat /\ k <= Len(q)
    BY <1>0, <2>2, StartableBounds
  <2> HIDE DEF k
  <2>4. PICK n \in 1 .. Len(q) : i = q[n]
    BY <2>1, <2>2, <2>3 DEF First
  <2>5. CASE n \in 1 .. Len(queue)
    BY <1>0, <2>1, <2>4, <2>5 DEF Queued
  <2>6. CASE n \in Len(queue) + 1 .. Len(q)
    <3>1. /\ n - Len(queue) \in 1 .. Len(todo[b])
          /\ i = todo[b][n - Len(queue)]
      BY <1>0, <2>2, <2>4, <2>6
    <3>2. i \in InTodo(b)
      BY <3>1 DEF InTodo
    <3> QED
      BY <1>0, <2>1, <3>2 DEF Files
  <2> QED
    BY <1>0, <2>2, <2>5, <2>6
<1>2. ASSUME NEW j \in Ingests, Release(j), step'[i] # "idle"
      PROVE  step'[i] = "lookup" /\ i \in Queued
  <2> DEFINE k == Startable(active - 1, queue)
  <2>1. k \in Nat /\ k <= Len(queue)
    <3>1. active - 1 \in Int /\ active - 1 <= MaxConcurrency
      BY <1>0, PipelineAssumption DEF PipelineAssumption
    <3> QED
      BY <1>0, <3>1, StartableBounds
  <2>2. step'[i] = "lookup" /\ i \in First(queue, k)
    BY <1>0, <1>2 DEF Release
  <2> HIDE DEF k
  <2> QED
    BY <1>0, <2>1, <2>2 DEF First, Queued
<1>3. ASSUME NEW j \in Ingests, NEW s \in WorkerStep, step[j] # "idle", Goto(j, s)
      PROVE  step'[i] = "idle"
  BY <1>0, <1>3 DEF Goto
<1>4. CASE Crash
  BY <1>4 DEF Crash
<1> QED
  BY <1>1, <1>2, <1>3, <1>4, PoolMoves

\* A slot that is given back goes to items that wait, never to a running one.
LEMMA ReleaseKeepsRunning ==
  ASSUME PipelineInv, NEW i \in Ingests, NEW j \in Ingests,
         Release(j), step[i] # "idle"
  PROVE  step'[i] = IF i = j THEN "idle" ELSE step[i]
<1>0. /\ \A n \in 1 .. Len(queue) : queue[n] \in Queued
      /\ \A m \in Queued : step[m] = "idle"
  BY DEF PipelineInv, QueueHeld, Queued
<1> DEFINE k == Startable(active - 1, queue)
<1>1. k \in Nat /\ k <= Len(queue)
  <2>1. /\ active - 1 \in Int /\ active - 1 <= MaxConcurrency
        /\ queue \in Seq(Ingests)
    BY PipelineAssumption DEF PipelineAssumption, PipelineInv, TypeOK
  <2> QED
    BY <2>1, StartableBounds
<1>2. step' = [m \in Ingests |-> IF m \in First(queue, k) THEN "lookup"
                                 ELSE IF m = j THEN "idle" ELSE step[m]]
  BY DEF Release
<1> HIDE DEF k
<1>3. queue \in Seq(Ingests)
  BY DEF PipelineInv, TypeOK
<1>4. i \notin First(queue, k)
  BY <1>0, <1>1, <1>3 DEF First
<1> QED
  BY <1>2, <1>4

\* A push starts workers on items that wait, never on a running one.
LEMMA PushKeepsRunning ==
  ASSUME PipelineInv, NEW i \in Ingests, NEW b \in Batches,
         Enqueue(b), step[i] # "idle"
  PROVE  step'[i] = step[i]
<1> DEFINE q == queue \o todo[b]
           k == Startable(active, q)
<1>1. q \in Seq(Ingests)
  BY DEF PipelineInv, TypeOK
<1>2. k \in Nat /\ k <= Len(q)
  <2>1. active \in Int /\ active <= MaxConcurrency
    BY DEF PipelineInv, TypeOK
  <2> QED
    BY <1>1, <2>1, StartableBounds
<1>3. step' = [m \in Ingests |-> IF m \in First(q, k) THEN "lookup" ELSE step[m]]
  BY DEF Enqueue
<1>4. \A n \in 1 .. Len(q) : step[q[n]] = "idle"
  BY PushedOnce
<1> HIDE DEF q, k
<1>5. i \notin First(q, k)
  BY <1>1, <1>2, <1>4 DEF First
<1> QED
  BY <1>3, <1>5

\* Only its own worker moves a running ingest on.
LEMMA OwnWorker ==
  ASSUME PipelineInv, [Next]_vars, NEW i \in Ingests, step[i] # "idle"
  PROVE  step'[i] = step[i] \/ Worker(i) \/ Crash
<1>1. ASSUME NEW j \in Ingests, Worker(j), j # i PROVE step'[i] = step[i]
  <2>1. step \in [Ingests -> WorkerStep]
    BY DEF PipelineInv, TypeOK
  <2>2. ASSUME NEW s, Goto(j, s) PROVE step'[i] = step[i]
    BY <1>1, <2>1, <2>2 DEF Goto
  <2>3. Release(j) \/ \E s \in WorkerStep : Goto(j, s)
    BY <1>1, WorkerMoves
  <2> QED
    BY <1>1, <2>2, <2>3, ReleaseKeepsRunning
<1> QED
  BY ChangesStep, <1>1, PushKeepsRunning DEF Worker

\* What one step may do to one worker.
LEMMA StepEffect ==
  ASSUME PipelineInv, [Next]_vars, NEW i \in Ingests
  PROVE  \/ step'[i] = step[i]
         \/ step'[i] = "idle"
         \/ step[i] = "idle" /\ step'[i] = "lookup"
         \/ step[i] = "lookup" /\ step'[i] \in {"mark", "fail"}
         \/ WorkerMark(i) /\ step[i] = "mark" /\ step'[i] = "start"
         \/ step[i] = "start" /\ step'[i] = "spawn"
         \/ step[i] # "idle" /\ step'[i] \in {"wait", "verify", "fail", "force", "heal",
                                              "finish", "settle"}
         \/ WorkerSettle(i) /\ step[i] = "settle" /\ step'[i] = "announce"
            /\ Completable(BatchOf[i])
<1>0. /\ step \in [Ingests -> WorkerStep]
      /\ \A n \in 1 .. Len(queue) : queue[n] \in Queued
      /\ \A j \in Queued : step[j] = "idle"
  BY DEF PipelineInv, TypeOK, QueueHeld, Queued
<1>1. CASE step[i] = "idle"
  BY <1>1, Started
<1>2. ASSUME NEW j \in Ingests, NEW s, Goto(j, s)
      PROVE  step'[i] = IF i = j THEN s ELSE step[i]
  BY <1>0, <1>2 DEF Goto
<1>3. ASSUME NEW j \in Ingests, Release(j), step[i] # "idle"
      PROVE  step'[i] \in {"idle", step[i]}
  BY <1>3, ReleaseKeepsRunning
<1>4. ASSUME NEW b \in Batches, Enqueue(b)
      PROVE  step'[i] \in {step[i], "lookup"}
  BY <1>4 DEF Enqueue
<1>5. ASSUME NEW b \in Batches, Enqueue(b), step[i] # "idle"
      PROVE  step'[i] = step[i]
  BY <1>5, PushKeepsRunning
<1>6. ASSUME NEW j \in Ingests, step[i] # "idle", step'[i] # step[i],
             \/ WorkerLookup(j) \/ WorkerMark(j) \/ WorkerStart(j)
      PROVE  \/ step[i] = "lookup" /\ step'[i] \in {"mark", "fail"}
             \/ WorkerMark(i) /\ step[i] = "mark" /\ step'[i] = "start"
             \/ step[i] = "start" /\ step'[i] = "spawn"
  BY <1>2, <1>6 DEF WorkerLookup, WorkerMark, WorkerStart
<1>7. ASSUME NEW j \in Ingests, step[i] # "idle", step'[i] # step[i],
             \/ WorkerSpawn(j) \/ WorkerReap(j) \/ WorkerTimeout(j)
             \/ WorkerMarkError(j) \/ WorkerForceError(j) \/ WorkerHeal(j)
             \/ WorkerFinish(j) \/ WorkerVerify(j)
      PROVE  step'[i] \in {"wait", "verify", "fail", "force", "heal",
                           "finish", "settle"}
  <2>1. \E s \in {"wait", "verify", "fail", "force", "heal", "finish", "settle"} :
          Goto(j, s)
    <3>1. AfterVerify(j) \in {"fail", "force", "heal", "settle", "finish"}
      BY DEF AfterVerify
    <3> QED
      BY <1>7, <3>1 DEF WorkerSpawn, WorkerReap, WorkerTimeout, WorkerMarkError,
           WorkerForceError, WorkerHeal, WorkerFinish, WorkerVerify
  <2> QED
    BY <1>2, <1>7, <2>1
<1>8. ASSUME NEW j \in Ingests, step[i] # "idle", step'[i] # step[i], WorkerSettle(j)
      PROVE  \/ step'[i] = "idle"
             \/ WorkerSettle(i) /\ step[i] = "settle" /\ step'[i] = "announce"
                /\ Completable(BatchOf[i])
  BY <1>2, <1>3, <1>8 DEF WorkerSettle
<1>9. ASSUME NEW j \in Ingests, step[i] # "idle", step'[i] # step[i],
             WorkerAnnounce(j) \/ WorkerThrows(j)
      PROVE  step'[i] = "idle"
  BY <1>3, <1>9 DEF WorkerAnnounce, WorkerThrows
<1>10. CASE Crash
  BY <1>10 DEF Crash
<1> QED
  BY ChangesStep, <1>1, <1>5, <1>6, <1>7, <1>8, <1>9, <1>10

\* Only a worker starts an agent.
LEMMA AgentEffect ==
  ASSUME PipelineInv, [Next]_vars, NEW i \in Ingests, agent'[i] # "off"
  PROVE  agent[i] # "off" \/ WorkerSpawn(i)
<1>0. agent \in [Ingests -> AgentStep]
  BY DEF PipelineInv, TypeOK
<1>1. ASSUME NEW j \in Ingests, agent[i] = "off",
             \/ WorkerReap(j) \/ WorkerTimeout(j) \/ WorkerSpawn(j)
      PROVE  WorkerSpawn(i)
  BY <1>0, <1>1 DEF WorkerReap, WorkerTimeout, WorkerSpawn
<1>2. ASSUME NEW j \in Ingests, Agent(j)
      PROVE  agent[i] # "off"
  <2>1. agent[j] # "off" /\ \E s \in AgentStep : AgentGoto(j, s)
    BY <1>2 DEF Agent, AgentRead, AgentInsert, AgentAttach, AgentClose, AgentDies,
                AgentStep
  <2> QED
    BY <1>0, <2>1 DEF AgentGoto
<1>3. CASE Crash
  BY <1>3 DEF Crash
<1> QED
  BY ChangesAgent, <1>1, <1>2, <1>3 DEF Agent

\* While no call fails and the process stays up, it was so before.
LEMMA QuietPast ==
  ASSUME TypeOK, [Next]_vars
  PROVE  /\ faults' = 0 => faults = 0 /\ UNCHANGED faults
         /\ crashes' <= 1 => crashes <= 1
         /\ crashes' = 0 => crashes = 0 /\ ~Crash
         /\ crashes' <= 1 /\ Crash => crashes = 0
<1>1. faults \in Nat /\ crashes \in Nat
  BY PipelineAssumption DEF TypeOK, PipelineAssumption
<1>2. UNCHANGED faults \/ faults' = faults + 1
  BY ChangesFaults DEF RequestThrows, WorkerLookup, WorkerThrows, RecoverThrows
<1>3. UNCHANGED crashes \/ Crash
  BY ChangesCrashes
<1>4. Crash => crashes' = crashes + 1
  BY DEF Crash
<1> QED
  BY <1>1, <1>2, <1>3, <1>4

\* Only its own worker starts, reaps or kills the agent of an ingest.
LEMMA OwnAgent ==
  ASSUME PipelineInv, [Next]_vars, NEW i \in Ingests
  PROVE  \/ agent'[i] = agent[i]
         \/ WorkerSpawn(i) \/ WorkerReap(i) \/ WorkerTimeout(i) \/ Agent(i)
         \/ Crash
<1>0. agent \in [Ingests -> AgentStep]
  BY DEF PipelineInv, TypeOK
<1>1. ASSUME NEW j \in Ingests, j # i,
             \/ WorkerReap(j) \/ WorkerTimeout(j) \/ WorkerSpawn(j)
      PROVE  agent'[i] = agent[i]
  BY <1>0, <1>1 DEF WorkerReap, WorkerTimeout, WorkerSpawn
<1>2. ASSUME NEW j \in Ingests, j # i, Agent(j)
      PROVE  agent'[i] = agent[i]
  <2>1. \E s \in AgentStep : AgentGoto(j, s)
    BY <1>2 DEF Agent, AgentRead, AgentInsert, AgentAttach, AgentClose, AgentDies,
                AgentStep
  <2> QED
    BY <1>0, <1>2, <2>1 DEF AgentGoto
<1> QED
  BY ChangesAgent, <1>1, <1>2 DEF Agent

\* What one step may do to what an ingest produced.
LEMMA OwnProduced ==
  ASSUME PipelineInv, [Next]_vars, NEW i \in Ingests, status[i] # "absent"
  PROVE  \/ produced'[i] = produced[i]
         \/ WorkerMarkError(i) \/ WorkerHeal(i) \/ AgentClose(i)
<1>0. produced \in [Ingests -> SUBSET Ingests]
  BY DEF PipelineInv, TypeOK
<1>1. ASSUME NEW b \in Batches, ProbeLive(b) PROVE produced'[i] = produced[i]
  <2>1. cur[b] \in Files(b) /\ req[b] \in BeforeRows
    BY <1>1 DEF PipelineInv, FilesSplit, ProbeLive, BeforeRows
  <2>2. i # cur[b]
    BY <2>1 DEF PipelineInv, RowsTogether, Files
  <2> QED
    BY <1>0, <1>1, <2>2 DEF ProbeLive
<1>2. ASSUME NEW j \in Ingests, i # j,
             WorkerMarkError(j) \/ WorkerHeal(j) \/ AgentClose(j)
      PROVE  produced'[i] = produced[i]
  BY <1>0, <1>2 DEF WorkerMarkError, WorkerHeal, AgentClose
<1> QED
  BY ChangesProduced, <1>1, <1>2

\* What one step may do to the sentinel of an ingest.
LEMMA OwnSentinel ==
  ASSUME [Next]_vars, NEW i \in Ingests
  PROVE  \/ i \in sentinel' <=> i \in sentinel
         \/ WorkerMarkError(i) \/ WorkerForceError(i) \/ AgentClose(i)
<1>1. ASSUME NEW j \in Ingests, i # j,
             WorkerMarkError(j) \/ WorkerForceError(j) \/ AgentClose(j)
      PROVE  i \in sentinel' <=> i \in sentinel
  BY <1>1 DEF WorkerMarkError, WorkerForceError, AgentClose
<1> QED
  BY ChangesSentinel, <1>1

\* What one step may do to a transaction: it is never unwritten.
LEMMA OwnTx ==
  ASSUME PipelineInv, [Next]_vars, NEW i \in Ingests
  PROVE  /\ \/ tx'[i] = tx[i]
            \/ AgentInsert(i) \/ RemoveTransaction(i) \/ RestoreTransaction(i)
         /\ tx[i] # "none" => tx'[i] # "none"
<1>0. tx \in [Ingests -> {"none", "posted", "removed"}]
  BY DEF PipelineInv, TypeOK
<1>1. ASSUME NEW j \in Ingests, i # j,
             AgentInsert(j) \/ RemoveTransaction(j) \/ RestoreTransaction(j)
      PROVE  tx'[i] = tx[i]
  BY <1>0, <1>1 DEF AgentInsert, RemoveTransaction, RestoreTransaction
<1>2. ASSUME AgentInsert(i) \/ RemoveTransaction(i) \/ RestoreTransaction(i)
      PROVE  tx[i] # "none" => tx'[i] # "none"
  BY <1>0, <1>2 DEF AgentInsert, RemoveTransaction, RestoreTransaction
<1> QED
  BY ChangesTx, <1>1, <1>2

\* An agent alone makes up its mind.
LEMMA OwnVerdict ==
  ASSUME PipelineInv, [Next]_vars, NEW i \in Ingests
  PROVE  \/ verdict'[i] = verdict[i] /\ claim'[i] = claim[i]
         \/ AgentRead(i) \/ AgentInsert(i) \/ AgentAttach(i)
<1>0. verdict \in [Ingests -> Verdict] /\ claim \in [Ingests -> SUBSET Ingests]
  BY DEF PipelineInv, TypeOK
<1>1. ASSUME NEW j \in Ingests, i # j,
             AgentRead(j) \/ AgentInsert(j) \/ AgentAttach(j)
      PROVE  verdict'[i] = verdict[i] /\ claim'[i] = claim[i]
  <2>1. \/ UNCHANGED <<verdict, claim>>
        \/ \E v, ids : Decide(j, v, ids)
    BY <1>1 DEF AgentRead, AgentInsert, AgentAttach
  <2> QED
    BY <1>0, <1>1, <2>1 DEF Decide
<1> QED
  BY ChangesVerdict, <1>1

\* Links are never removed.
LEMMA LinksStay ==
  ASSUME [Next]_vars PROVE links \subseteq links'
  BY ChangesLinks DEF AgentInsert, AgentAttach

\* Where each step of a worker leads.
LEMMA WorkerEffect ==
  ASSUME PipelineInv, NEW i \in Ingests, Worker(i)
  PROVE  \/ /\ WorkerSettle(i) \/ WorkerAnnounce(i) \/ WorkerThrows(i)
            /\ step'[i] = "idle"
         \/ /\ WorkerLookup(i)
            /\ \/ step'[i] = "mark"
               \/ step'[i] = "fail" /\ faults' = faults + 1
         \/ WorkerMark(i) /\ step'[i] = "start"
         \/ WorkerStart(i) /\ step'[i] = "spawn"
         \/ WorkerSpawn(i) /\ step'[i] = "wait"
         \/ WorkerReap(i) /\ step'[i] \in {"verify", "fail"}
         \/ WorkerTimeout(i) /\ step'[i] = "fail"
         \/ WorkerMarkError(i) /\ step'[i] = "settle"
         \/ WorkerVerify(i) /\ step'[i] = AfterVerify(i)
         \/ WorkerForceError(i) /\ step'[i] = "settle"
         \/ WorkerHeal(i) /\ step'[i] = "finish"
         \/ WorkerFinish(i) /\ step'[i] = "settle"
         \/ WorkerSettle(i) /\ step'[i] = "announce"
<1>1. \A s : Goto(i, s) => step'[i] = s
  BY DEF Goto, PipelineInv, TypeOK
<1>2. step[i] # "idle" /\ (Release(i) => step'[i] = "idle")
  BY WorkerMoves, ReleaseKeepsRunning
<1>3. CASE WorkerLookup(i) \/ WorkerMark(i) \/ WorkerStart(i) \/ WorkerSpawn(i)
  BY <1>1, <1>3 DEF WorkerLookup, WorkerMark, WorkerStart, WorkerSpawn
<1>4. CASE WorkerReap(i) \/ WorkerTimeout(i) \/ WorkerMarkError(i) \/ WorkerVerify(i)
  BY <1>1, <1>4 DEF WorkerReap, WorkerTimeout, WorkerMarkError, WorkerVerify
<1>5. CASE WorkerForceError(i) \/ WorkerHeal(i) \/ WorkerFinish(i)
  BY <1>1, <1>5 DEF WorkerForceError, WorkerHeal, WorkerFinish
<1>6. CASE WorkerSettle(i) \/ WorkerAnnounce(i) \/ WorkerThrows(i)
  BY <1>1, <1>2, <1>6 DEF WorkerSettle, WorkerAnnounce, WorkerThrows
<1> QED
  BY <1>3, <1>4, <1>5, <1>6 DEF Worker

----------------------------------------------------------------------------
(***************************************************************************)
(* The invariant, step by step.                                            *)
(***************************************************************************)

\* Rows appear together, at the request's INSERT, and never disappear.
LEMMA RowsTogetherStep ==
  ASSUME PipelineInv, [Next]_vars PROVE RowsTogether'
<1>0. /\ BatchOf \in [Ingests -> Batches] /\ TypeOK /\ RowsTogether
  BY PipelineAssumption DEF PipelineAssumption, PipelineInv
<1>1. ASSUME NEW i \in Ingests, ~InsertRows(BatchOf[i])
      PROVE  status'[i] = "absent" <=> status[i] = "absent"
  BY <1>1, StatusEffect DEF InFlight, Terminal
<1>2. ASSUME NEW i \in Ingests, InsertRows(BatchOf[i])
      PROVE  status'[i] # "absent" /\ req'[BatchOf[i]] = "enqueue"
  <2>1. i \in Files(BatchOf[i])
    BY DEF Files
  <2>2. i \in InTodo(BatchOf[i]) \cup suppressed[BatchOf[i]]
    BY <1>2, <2>1 DEF InsertRows
  <2> QED
    BY <1>0, <1>2, <2>2 DEF InsertRows, TypeOK
<1>3. ASSUME NEW i \in Ingests, req'[BatchOf[i]] \in BeforeRows
      PROVE  status'[i] = "absent"
  <2>1. ~InsertRows(BatchOf[i])
    BY <1>2, <1>3 DEF BeforeRows
  <2>2. req[BatchOf[i]] \in BeforeRows
    BY <1>0, <1>3, ReqEffect DEF BeforeRows
  <2> QED
    BY <1>0, <1>1, <2>1, <2>2 DEF RowsTogether
<1>4. ASSUME NEW i \in Ingests, req'[BatchOf[i]] \in AfterRows
      PROVE  status'[i] # "absent"
  <2>1. CASE InsertRows(BatchOf[i])
    BY <1>2, <2>1
  <2>2. CASE ~InsertRows(BatchOf[i])
    <3>1. req[BatchOf[i]] \in AfterRows
      BY <1>0, <1>4, <2>2, ReqEffect DEF BeforeRows, AfterRows
    <3> QED
      BY <1>0, <1>1, <2>2, <3>1 DEF RowsTogether
  <2> QED
    BY <2>1, <2>2
<1> QED
  BY <1>0, <1>1, <1>2, <1>3, <1>4 DEF RowsTogether

\* A batch stays pending while its request has not inserted the rows.
LEMMA BatchOpenedStep ==
  ASSUME PipelineInv, [Next]_vars PROVE BatchOpened'
<1>0. TypeOK /\ RowsTogether /\ BatchOpened /\ WorkerRows /\ DownIsQuiet
  BY DEF PipelineInv
<1> SUFFICES ASSUME NEW b \in Batches
             PROVE  /\ req'[b] = "none" => batch'[b] = "absent"
                    /\ req'[b] \in BeforeRows \ {"none"} => batch'[b] = "pending"
  BY DEF BatchOpened
<1>1. req'[b] = "none" => req[b] = "none"
  BY <1>0, ReqEffect DEF BeforeRows
<1>2. req'[b] \in BeforeRows \ {"none"} =>
        \/ req[b] \in BeforeRows \ {"none"}
        \/ BatchInsert(b)
  BY <1>0, ReqEffect DEF BeforeRows
<1>3. BatchInsert(b) => batch'[b] = "pending"
  BY <1>0 DEF BatchInsert, TypeOK
<1>4. ASSUME req[b] \in BeforeRows, batch'[b] # batch[b]
      PROVE  req[b] = "none" /\ req'[b] = "next" /\ batch'[b] = "pending"
  <2>1. \A i \in Files(b) : status[i] = "absent"
    BY <1>0, <1>4 DEF RowsTogether, Files
  <2>2. \A i \in Files(b) : step[i] \notin {"start", "settle"}
    BY <1>0, <2>1 DEF WorkerRows, Files
  <2>3. ~CompleteBatch(b)
    BY <1>4 DEF CompleteBatch, BeforeRows
  <2>4. ~(server = "fail_batches" /\ batch[b] \in OpenBatch)
    <3>1. server = "fail_batches" => req[b] = "none"
      BY <1>0, <1>4 DEF DownIsQuiet, BeforeRows
    <3> QED
      BY <1>0, <3>1 DEF BatchOpened, OpenBatch
  <2> QED
    BY <1>4, <2>2, <2>3, <2>4, BatchEffect
<1> QED
  BY <1>0, <1>1, <1>2, <1>3, <1>4 DEF BatchOpened, BeforeRows

\* A request keeps deciding each of its files once.
LEMMA FilesSplitStep ==
  ASSUME PipelineInv, [Next]_vars PROVE FilesSplit'
<1>0. TypeOK /\ FilesSplit
  BY DEF PipelineInv
<1> SUFFICES ASSUME NEW b \in Batches
             PROVE  /\ InTodo(b)' \cup suppressed'[b] \subseteq Files(b)
                    /\ InTodo(b)' \cap suppressed'[b] = {}
                    /\ \A m, n \in 1 .. Len(todo'[b]) :
                         todo'[b][m] = todo'[b][n] => m = n
                    /\ req'[b] \in Handling
                         => cur'[b] \in Files(b) \ (InTodo(b)' \cup suppressed'[b])
  BY DEF FilesSplit, Handling, Files
<1>1. /\ todo[b] \in Seq(Ingests)
      /\ InTodo(b) \cup suppressed[b] \subseteq Files(b)
      /\ InTodo(b) \cap suppressed[b] = {}
      /\ \A m, n \in 1 .. Len(todo[b]) : todo[b][m] = todo[b][n] => m = n
      /\ req[b] \in Handling
           => cur[b] \in Files(b) \ (InTodo(b) \cup suppressed[b])
  BY <1>0 DEF FilesSplit, TypeOK, Handling
<1>2. CASE /\ todo'[b] = todo[b] /\ suppressed'[b] = suppressed[b]
           /\ \/ req'[b] \notin Handling
              \/ req[b] \in Handling /\ cur'[b] = cur[b]
              \/ cur'[b] \in Files(b) \ (InTodo(b) \cup suppressed[b])
  BY <1>1, <1>2 DEF InTodo
<1>3. CASE /\ req[b] \in Handling /\ req'[b] = "next"
           /\ todo'[b] = Append(todo[b], cur[b]) /\ suppressed'[b] = suppressed[b]
  <2>1. /\ Len(todo'[b]) = Len(todo[b]) + 1
        /\ \A n \in 1 .. Len(todo[b]) : todo'[b][n] = todo[b][n]
        /\ todo'[b][Len(todo[b]) + 1] = cur[b]
    <3>1. cur[b] \in Ingests
      BY <1>0 DEF TypeOK
    <3> QED
      BY <1>1, <1>3, <3>1
  <2>2. cur[b] \in Files(b) \ (InTodo(b) \cup suppressed[b])
    BY <1>1, <1>3
  <2>3. \A n \in 1 .. Len(todo[b]) : todo[b][n] # cur[b]
    BY <2>2 DEF InTodo
  <2>4. InTodo(b)' = InTodo(b) \cup {cur[b]}
    BY <1>1, <2>1 DEF InTodo
  <2>5. \A m, n \in 1 .. Len(todo'[b]) : todo'[b][m] = todo'[b][n] => m = n
    BY <1>1, <2>1, <2>3
  <2> QED
    BY <1>1, <1>3, <2>2, <2>4, <2>5 DEF Handling
<1>4. CASE /\ req[b] \in Handling /\ req'[b] = "next"
           /\ todo'[b] = todo[b] /\ suppressed'[b] = suppressed[b] \cup {cur[b]}
  BY <1>1, <1>4 DEF InTodo, Handling
<1> QED
  BY <1>0, <1>2, <1>3, <1>4, FilesEffect

\* A waiting row is not written by anything but its own worker.
LEMMA QueuedStays ==
  ASSUME PipelineInv, [Next]_vars, NEW i \in Ingests,
         status[i] = "queued", server = "up", step[i] \notin {"fail", "force"}
  PROVE  \/ status'[i] = "queued"
         \/ WorkerMark(i) /\ step[i] = "mark" /\ status'[i] = "processing"
  BY StatusEffect DEF WorkerMark, Terminal

\* A row that is being pushed, or waits in the queue, belongs to a running
\* server.
LEMMA WaitingIsUp ==
  ASSUME PipelineInv, NEW i \in Ingests,
         i \in Queued \/ req[BatchOf[i]] = "enqueue" \/ step[i] # "idle" \/ agent[i] # "off"
  PROVE  server = "up"
<1>1. BatchOf[i] \in Batches
  BY PipelineAssumption DEF PipelineAssumption
<1>2. i \in Queued => queue # <<>>
  BY DEF Queued
<1> QED
  BY <1>1, <1>2 DEF PipelineInv, DownIsQuiet

\* The queue holds waiting rows, once, and so does what is about to be pushed.
LEMMA QueueHeldStep ==
  ASSUME PipelineInv, [Next]_vars PROVE QueueHeld'
<1>0. /\ TypeOK /\ RowsTogether /\ FilesSplit /\ QueueHeld /\ WorkerRows
      /\ BatchOf \in [Ingests -> Batches]
  BY PipelineAssumption DEF PipelineAssumption, PipelineInv
<1>1. Queued \subseteq Ingests
  BY <1>0, SMTT(30) DEF TypeOK, Queued
<1>2. \A m, n \in 1 .. Len(queue') : queue'[m] = queue'[n] => m = n
  BY QueueEffect
<1>3. ASSUME NEW i \in Queued'
      PROVE  status'[i] = "queued" /\ step'[i] = "idle" /\ req'[BatchOf[i]] # "enqueue"
  <2>1. step'[i] = "idle"
    BY QueueEffect
  <2>2. CASE i \in Queued
    <3>1. /\ i \in Ingests /\ status[i] = "queued" /\ step[i] = "idle"
          /\ req[BatchOf[i]] # "enqueue" /\ server = "up"
      BY <1>0, <1>1, <2>2, WaitingIsUp DEF QueueHeld
    <3>2. status'[i] = "queued"
      BY <3>1, QueuedStays
    <3>3. ~InsertRows(BatchOf[i])
      <4>1. InsertRows(BatchOf[i]) => req[BatchOf[i]] \in BeforeRows
        BY DEF InsertRows, BeforeRows
      <4> QED
        BY <1>0, <3>1, <4>1 DEF RowsTogether
    <3>4. req'[BatchOf[i]] # "enqueue"
      BY <1>0, <3>1, <3>3, ReqEffect DEF BeforeRows
    <3> QED
      BY <2>1, <3>2, <3>4
  <2>3. ASSUME NEW b \in Batches, Enqueue(b), i \in InTodo(b)
        PROVE  status'[i] = "queued" /\ req'[BatchOf[i]] # "enqueue"
    <3>1. i \in Files(b)
      BY <1>0, <2>3 DEF FilesSplit
    <3>2. b = BatchOf[i] /\ i \in Ingests /\ req[b] = "enqueue"
      BY <2>3, <3>1 DEF Files, Enqueue
    <3>3. status[i] = "queued" /\ step[i] = "idle"
      BY <1>0, <2>3, <3>2 DEF QueueHeld
    <3>4. server = "up"
      BY <3>2, WaitingIsUp
    <3>5. status'[i] = "queued"
      BY <3>2, <3>3, <3>4, QueuedStays
    <3>6. req'[b] # "enqueue"
      BY <1>0, <2>3 DEF Enqueue, TypeOK
    <3> QED
      BY <3>2, <3>5, <3>6
  <2> QED
    BY <2>1, <2>2, <2>3, QueueEffect
<1>4. ASSUME NEW b \in Batches, req'[b] = "enqueue", NEW i \in InTodo(b)'
      PROVE  status'[i] = "queued" /\ step'[i] = "idle"
  <2>1. CASE InsertRows(b)
    <3>1. i \in InTodo(b) /\ req[b] \in BeforeRows
      BY <1>4, <2>1 DEF InsertRows, InTodo, BeforeRows
    <3>2. i \in Files(b) /\ i \notin suppressed[b]
      BY <1>0, <3>1 DEF FilesSplit
    <3>3. i \in Ingests /\ BatchOf[i] = b
      BY <3>2 DEF Files
    <3>4. status'[i] = "queued"
      BY <2>1, <3>1, <3>2, <3>3 DEF InsertRows
    <3>5. step[i] = "idle"
      BY <1>0, <3>1, <3>3 DEF WorkerRows, RowsTogether
    <3>6. step' = step
      BY <2>1 DEF InsertRows, workVars
    <3> QED
      BY <3>4, <3>5, <3>6
  <2>2. CASE ~InsertRows(b)
    <3>1. req[b] = "enqueue"
      BY <1>0, <1>4, <2>2, ReqEffect DEF BeforeRows
    <3>2. i \in InTodo(b)
      <4>1. todo'[b] = todo[b]
        BY <1>0, <3>1, FilesEffect DEF Handling
      <4> QED
        BY <1>4, <4>1 DEF InTodo
    <3>3. i \in Files(b)
      BY <1>0, <3>2 DEF FilesSplit
    <3>4. i \in Ingests /\ BatchOf[i] = b
      BY <3>3 DEF Files
    <3>5. status[i] = "queued" /\ step[i] = "idle"
      BY <1>0, <3>1, <3>2 DEF QueueHeld
    <3>6. server = "up"
      BY <3>1, <3>4, WaitingIsUp
    <3>7. status'[i] = "queued"
      BY <3>4, <3>5, <3>6, QueuedStays
    <3>8. i \notin Queued
      BY <1>0, <3>1, <3>4 DEF QueueHeld
    <3>9. ~Enqueue(b)
      BY <1>0, <1>4 DEF Enqueue, TypeOK
    <3>10. step'[i] = "idle"
      BY <3>4, <3>5, <3>8, <3>9, Started
    <3> QED
      BY <3>7, <3>10
  <2> QED
    BY <2>1, <2>2
<1> QED
  BY <1>2, <1>3, <1>4 DEF QueueHeld

\* Workers find their rows as they left them, and agents run on marked rows.
LEMMA WorkerRowsStep ==
  ASSUME PipelineInv, [Next]_vars PROVE WorkerRows'
<1>0. /\ TypeOK /\ QueueHeld /\ WorkerRows
      /\ BatchOf \in [Ingests -> Batches]
  BY PipelineAssumption DEF PipelineAssumption, PipelineInv
<1> SUFFICES ASSUME NEW i \in Ingests
             PROVE  /\ step'[i] \in {"lookup", "mark"} => status'[i] = "queued"
                    /\ step'[i] \in {"start", "spawn"} => status'[i] = "processing"
                    /\ step'[i] # "idle" => status'[i] # "absent"
                    /\ agent'[i] # "off" => /\ status'[i] \notin {"absent", "queued"}
                                            /\ step'[i] \notin {"start", "spawn"}
  BY DEF WorkerRows
<1>1. /\ step[i] \in {"lookup", "mark"} => status[i] = "queued"
      /\ step[i] \in {"start", "spawn"} => status[i] = "processing"
      /\ step[i] # "idle" => status[i] # "absent"
      /\ agent[i] # "off" => /\ status[i] \notin {"absent", "queued"}
                             /\ step[i] \notin {"start", "spawn"}
  BY <1>0 DEF WorkerRows
<1>2. ASSUME step[i] = "idle", step'[i] # "idle"
      PROVE  step'[i] = "lookup" /\ status'[i] = "queued"
  <2>1. step'[i] = "lookup" /\ (i \in Queued
                                \/ (Enqueue(BatchOf[i]) /\ i \in InTodo(BatchOf[i])))
    BY <1>2, Started
  <2>2. Enqueue(BatchOf[i]) => req[BatchOf[i]] = "enqueue"
    BY DEF Enqueue
  <2>3. status[i] = "queued"
    BY <1>0, <2>1, <2>2 DEF QueueHeld
  <2>4. server = "up"
    BY <2>1, <2>2, WaitingIsUp
  <2>5. ~WorkerMark(i)
    BY <1>2 DEF WorkerMark
  <2> QED
    BY <1>2, <2>1, <2>3, <2>4, <2>5, QueuedStays
<1>3. ASSUME step'[i] \in {"lookup", "mark"}, step[i] # "idle"
      PROVE  status'[i] = "queued"
  <2>1. step[i] \in {"lookup", "mark"}
    BY <1>3, StepEffect
  <2>2. status[i] = "queued" /\ server = "up"
    BY <1>1, <2>1, WaitingIsUp
  <2>3. WorkerMark(i) => step'[i] = "start"
    BY <1>0 DEF WorkerMark, Goto, TypeOK
  <2> QED
    BY <1>3, <2>1, <2>2, <2>3, QueuedStays
<1>4. WorkerMark(i) => status'[i] = "processing"
  BY <1>0 DEF WorkerMark, TypeOK
<1>5. ASSUME step'[i] \in {"start", "spawn"}, step[i] \in {"start", "spawn"}
      PROVE  status'[i] = "processing"
  <2>1. status[i] = "processing" /\ agent[i] = "off" /\ server = "up"
    BY <1>1, <1>5, WaitingIsUp
  <2> QED
    BY <1>5, <2>1, StatusEffect
<1>6. ASSUME step'[i] \in {"start", "spawn"}
      PROVE  step[i] \in {"start", "spawn"} \/ (WorkerMark(i) /\ step[i] = "mark")
  BY <1>6, StepEffect
<1>7. status[i] # "absent" => status'[i] # "absent"
  BY StatusEffect DEF Terminal
<1>8. status[i] \notin {"absent", "queued"} => status'[i] \notin {"absent", "queued"}
  BY StatusEffect DEF Terminal
<1>9. ASSUME agent'[i] # "off"
      PROVE  /\ status'[i] \notin {"absent", "queued"}
             /\ step'[i] \notin {"start", "spawn"}
  <2>1. CASE WorkerSpawn(i)
    <3>1. step[i] = "spawn" /\ status' = status /\ step'[i] = "wait"
      BY <1>0, <2>1 DEF WorkerSpawn, Goto, dbVars, TypeOK
    <3> QED
      BY <1>1, <3>1
  <2>2. CASE agent[i] # "off"
    BY <1>1, <1>6, <1>8, <2>2
  <2> QED
    BY <1>9, <2>1, <2>2, AgentEffect
<1> QED
  BY <1>1, <1>2, <1>3, <1>4, <1>5, <1>6, <1>7, <1>9

\* The initial state satisfies every part of the invariant.
LEMMA InvInit == Init => PipelineInv
<1> SUFFICES ASSUME Init PROVE PipelineInv
  OBVIOUS
<1>1. TypeOK
  BY TypeInit
<1>2. /\ \A b \in Batches : batch[b] = "absent" /\ req[b] = "none" /\ announced[b] = 0
      /\ \A i \in Ingests : status[i] = "absent" /\ step[i] = "idle" /\ agent[i] = "off"
      /\ \A b \in Batches : suppressed[b] = {} /\ Len(todo[b]) = 0
      /\ queue = <<>> /\ Len(queue) = 0 /\ server = "up"
      /\ BatchOf \in [Ingests -> Batches]
  BY PipelineAssumption DEF PipelineAssumption, Init
<1>3. \A b \in Batches : InTodo(b) = {}
  BY <1>2 DEF InTodo
<1>4. Queued = {}
  BY <1>2 DEF Queued
<1>5. RowsTogether /\ BatchOpened
  BY <1>2 DEF RowsTogether, BatchOpened, AfterRows
<1>6. FilesSplit
  BY <1>2, <1>3 DEF FilesSplit
<1>7. QueueHeld
  BY <1>2, <1>4 DEF QueueHeld
<1>8. WorkerRows /\ DownIsQuiet /\ ExtractedIsComplete /\ AnnounceToken /\ AnnouncedOnce
  BY <1>2 DEF WorkerRows, DownIsQuiet, ExtractedIsComplete, AnnounceToken, AnnouncedOnce
<1> QED
  BY <1>1, <1>5, <1>6, <1>7, <1>8 DEF PipelineInv

\* A crash empties the process, and nothing starts before the boot scan ends.
LEMMA DownIsQuietStep ==
  ASSUME PipelineInv, [Next]_vars PROVE DownIsQuiet'
<1>0. TypeOK /\ DownIsQuiet /\ TypeOK'
  BY TypeStep DEF PipelineInv
<1>1. CASE Crash
  <2>1. /\ server' = "boot" /\ queue' = <<>>
        /\ \A i \in Ingests : step'[i] = "idle" /\ agent'[i] = "off"
        /\ \A b \in Batches : req'[b] \in {"none", "closed"}
    BY <1>1 DEF Crash
  <2> QED
    BY <2>1 DEF DownIsQuiet
<1>2. CASE server = "up" /\ ~Crash
  <2>1. server' = "up"
    BY <1>2, ChangesServer DEF RecoverScan, RecoverBatches, RecoverIngests, RecoverThrows
  <2> QED
    BY <2>1 DEF DownIsQuiet
<1>3. CASE server # "up" /\ ~Crash
  <2>1. /\ queue = <<>>
        /\ \A i \in Ingests : step[i] = "idle" /\ agent[i] = "off"
        /\ \A b \in Batches : req[b] \in {"none", "closed"}
    BY <1>0, <1>3 DEF DownIsQuiet
  <2>2. ASSUME NEW b \in Batches PROVE req'[b] \in {"none", "closed"}
    <3>1. ~BatchInsert(b)
      BY <1>3 DEF BatchInsert
    <3> QED
      BY <1>0, <2>1, <3>1, ReqEffect DEF BeforeRows
  <2>3. ASSUME NEW b \in Batches PROVE ~Enqueue(b)
    BY <2>1, <2>3 DEF Enqueue
  <2>4. Queued = {}
    BY <2>1 DEF Queued
  <2>5. ASSUME NEW i \in Ingests PROVE step'[i] = "idle"
    <3>1. BatchOf[i] \in Batches
      BY PipelineAssumption DEF PipelineAssumption
    <3> QED
      BY <2>1, <2>3, <2>4, <3>1, Started
  <2>6. ASSUME NEW i \in Ingests PROVE agent'[i] = "off"
    BY <2>1, AgentEffect DEF WorkerSpawn
  <2>7. queue' = <<>>
    <3>1. Queued' = {}
      BY <2>3, <2>4, QueueEffect
    <3>2. queue' \in Seq(Ingests)
      BY <1>0 DEF TypeOK
    <3>3. Len(queue') = 0
      <4>1. Len(queue') \in Nat
        BY <3>2
      <4>2. Len(queue') > 0 => queue'[1] \in Queued'
        BY <4>1 DEF Queued
      <4> QED
        BY <3>1, <4>1, <4>2
    <3> QED
      BY <3>2, <3>3
  <2>8. ASSUME server' = "fail_batches", NEW b \in stale'
        PROVE  batch'[b] \in OpenBatch
    <3>1. CASE RecoverScan
      BY <2>8, <3>1 DEF RecoverScan, dbVars
    <3>2. CASE ~RecoverScan
      <4>1. server = "fail_batches"
        BY <1>3, <2>8, <3>2, ChangesServer DEF RecoverBatches, RecoverIngests, RecoverThrows
      <4>2. ~RecoverBatches /\ ~RecoverIngests /\ ~RecoverThrows
        BY <2>8 DEF RecoverBatches, RecoverIngests, RecoverThrows
      <4>3. stale' = stale
        BY <1>3, <3>2, <4>2, ChangesStale
      <4>4. b \in Batches /\ batch[b] \in OpenBatch
        BY <1>0, <2>8, <4>1, <4>3 DEF DownIsQuiet, TypeOK
      <4>5. \A i \in Files(b) : step[i] = "idle"
        BY <2>1 DEF Files
      <4> QED
        BY <2>1, <4>2, <4>4, <4>5, BatchEffect DEF OpenBatch
    <3> QED
      BY <3>1, <3>2
  <2> QED
    BY <2>1, <2>2, <2>5, <2>6, <2>7, <2>8 DEF DownIsQuiet
<1> QED
  BY <1>1, <1>2, <1>3

\* A batch may be completed only when all its rows are terminal: they exist by
\* then.
LEMMA CompletableIsComplete ==
  ASSUME PipelineInv, NEW b \in Batches, Completable(b),
         \/ req[b] = "complete"
         \/ \E i \in Files(b) : step[i] # "idle"
  PROVE  \A i \in Files(b) : status[i] \in Terminal
<1>0. RowsTogether /\ WorkerRows
  BY DEF PipelineInv
<1>1. \A i \in Files(b) : i \in Ingests /\ BatchOf[i] = b
  BY DEF Files
<1>2. \A i \in Files(b) : status[i] # "absent"
  <2>1. CASE req[b] = "complete"
    BY <1>0, <1>1, <2>1 DEF RowsTogether, AfterRows
  <2>2. ASSUME NEW i \in Files(b), step[i] # "idle"
        PROVE  \A j \in Files(b) : status[j] # "absent"
    BY <1>0, <1>1, <2>2 DEF RowsTogether, WorkerRows
  <2> QED
    BY <2>1, <2>2
<1> QED
  BY <1>2 DEF Completable

\* Whatever the step, a terminal row stays terminal.
LEMMA TerminalStays ==
  ASSUME PipelineInv, [Next]_vars, NEW i \in Ingests, status[i] \in Terminal
  PROVE  status'[i] \in Terminal
  BY StatusEffect DEF Terminal, InFlight

\* A batch gets to extracted only with its rows closed, and they stay closed.
LEMMA ExtractedIsCompleteStep ==
  ASSUME PipelineInv, [Next]_vars PROVE ExtractedIsComplete'
<1> SUFFICES ASSUME NEW b \in Batches, batch'[b] = "extracted"
             PROVE  \A i \in Files(b) : status'[i] \in Terminal
  BY DEF ExtractedIsComplete, Files
<1>1. \A i \in Files(b) : i \in Ingests
  BY DEF Files
<1>2. \A i \in Files(b) : status[i] \in Terminal
  <2>1. CASE batch[b] = "extracted"
    BY <2>1 DEF PipelineInv, ExtractedIsComplete
  <2>2. CASE batch[b] # "extracted"
    <3>1. /\ Completable(b)
          /\ req[b] = "complete" \/ \E i \in Files(b) : step[i] # "idle"
      BY <2>2, BatchEffect
    <3> QED
      BY <3>1, CompletableIsComplete
  <2> QED
    BY <2>1, <2>2
<1> QED
  BY <1>1, <1>2, TerminalStays

\* Once extracted, always extracted.
LEMMA ExtractedStays ==
  ASSUME PipelineInv, [Next]_vars, NEW b \in Batches, batch[b] = "extracted"
  PROVE  batch'[b] = "extracted" /\ ~Completable(b)
  BY BatchEffect DEF Completable, OpenBatch

\* Who emits batch.extracted, and what becomes of it.
LEMMA AnnounceEffect ==
  ASSUME PipelineInv, [Next]_vars, NEW b \in Batches
  PROVE  \/ announced'[b] = announced[b]
         \/ /\ req[b] = "announce" /\ req'[b] = "closed" /\ step' = step
            /\ announced[b] = 0 /\ announced'[b] = 1
         \/ \E i \in Files(b) :
              /\ step[i] = "announce" /\ step'[i] # "announce" /\ req' = req
              /\ announced[b] = 0 /\ announced'[b] = 1
<1>0. /\ TypeOK /\ AnnounceToken /\ QueueHeld
  BY DEF PipelineInv
<1>1. ASSUME NEW c \in Batches, RequestAnnounce(c), announced'[b] # announced[b]
      PROVE  /\ req[b] = "announce" /\ req'[b] = "closed" /\ step' = step
             /\ announced[b] = 0 /\ announced'[b] = 1
  <2>1. c = b /\ req[b] = "announce" /\ announced'[b] = announced[b] + 1
    BY <1>0, <1>1 DEF RequestAnnounce, TypeOK
  <2>2. req'[b] = "closed" /\ step' = step
    BY <1>0, <1>1, <2>1 DEF RequestAnnounce, workVars, TypeOK
  <2>3. announced[b] = 0
    BY <1>0, <2>1 DEF AnnounceToken
  <2> QED
    BY <2>1, <2>2, <2>3
<1>2. ASSUME NEW i \in Ingests, WorkerAnnounce(i), announced'[b] # announced[b]
      PROVE  /\ i \in Files(b)
             /\ step[i] = "announce" /\ step'[i] # "announce" /\ req' = req
             /\ announced[b] = 0 /\ announced'[b] = 1
  <2>1. BatchOf[i] = b /\ step[i] = "announce" /\ announced'[b] = announced[b] + 1
    BY <1>0, <1>2 DEF WorkerAnnounce, TypeOK
  <2>2. announced[b] = 0
    BY <1>0, <2>1 DEF AnnounceToken
  <2>3. step'[i] # "announce" /\ req' = req
    BY <1>0, <1>2 DEF WorkerAnnounce, Release, reqVars, TypeOK
  <2> QED
    BY <2>1, <2>2, <2>3 DEF Files
<1> QED
  BY <1>1, <1>2, ChangesAnnounced

\* Exactly one completer holds the announcement of an extracted batch.
LEMMA AnnounceTokenStep ==
  ASSUME PipelineInv, [Next]_vars PROVE AnnounceToken'
<1>0. /\ TypeOK /\ AnnounceToken
      /\ BatchOf \in [Ingests -> Batches]
  BY PipelineAssumption DEF PipelineAssumption, PipelineInv
<1>1. ASSUME NEW b \in Batches, batch'[b] # "extracted"
      PROVE  announced'[b] = 0 /\ req'[b] # "announce"
  <2>1. batch[b] # "extracted"
    BY <1>1, ExtractedStays
  <2>2. /\ announced[b] = 0 /\ req[b] # "announce"
        /\ \A i \in Files(b) : step[i] # "announce"
    BY <1>0, <2>1 DEF AnnounceToken, Files
  <2>3. CompleteBatch(b) /\ req'[b] = "announce" => batch'[b] = "extracted"
    BY <1>0 DEF CompleteBatch, TypeOK
  <2>4. req'[b] # "announce"
    BY <1>0, <1>1, <2>2, <2>3, ReqEffect DEF BeforeRows
  <2> QED
    BY <2>2, <2>4, AnnounceEffect
<1>2. ASSUME NEW b \in Batches, req'[b] = "announce"
      PROVE  announced'[b] = 0
  <2>1. CASE req[b] = "announce"
    <3>1. announced[b] = 0 /\ \A i \in Files(b) : step[i] # "announce"
      BY <1>0, <2>1 DEF AnnounceToken, Files
    <3> QED
      BY <1>2, <3>1, AnnounceEffect
  <2>2. CASE req[b] # "announce"
    <3>1. CompleteBatch(b)
      BY <1>0, <1>2, <2>2, ReqEffect DEF BeforeRows
    <3>2. announced'[b] = announced[b]
      BY <3>1 DEF CompleteBatch
    <3>3. Completable(b)
      BY <1>0, <1>2, <3>1 DEF CompleteBatch, TypeOK
    <3>4. batch[b] # "extracted"
      BY <3>3, ExtractedStays
    <3> QED
      BY <1>0, <3>2, <3>4 DEF AnnounceToken
  <2> QED
    BY <2>1, <2>2
<1>3. ASSUME NEW i \in Ingests, step'[i] = "announce"
      PROVE  /\ batch'[BatchOf[i]] = "extracted"
             /\ announced'[BatchOf[i]] = 0
             /\ req'[BatchOf[i]] # "announce"
             /\ \A j \in Ingests \ {i} :
                  BatchOf[j] = BatchOf[i] => step'[j] # "announce"
  <2> DEFINE b == BatchOf[i]
  <2>0. b \in Batches /\ i \in Files(b)
    BY <1>0 DEF Files
  <2>1. CASE step[i] = "announce"
    <3>1. /\ batch[b] = "extracted" /\ announced[b] = 0 /\ req[b] # "announce"
          /\ \A j \in Ingests \ {i} : BatchOf[j] = b => step[j] # "announce"
      BY <1>0, <2>1 DEF AnnounceToken
    <3> HIDE DEF b
    <3>2. batch'[b] = "extracted" /\ ~Completable(b)
      BY <2>0, <3>1, ExtractedStays
    <3>3. announced'[b] = 0
      <4>1. \A j \in Files(b) : j # i => step[j] # "announce"
        BY <3>1 DEF Files
      <4> QED
        BY <1>3, <2>0, <3>1, <4>1, AnnounceEffect
    <3>4. req'[b] # "announce"
      <4>1. CompleteBatch(b) /\ req'[b] = "announce" => Completable(b)
        BY <1>0, <2>0 DEF CompleteBatch, TypeOK
      <4> QED
        BY <1>0, <2>0, <3>1, <3>2, <4>1, ReqEffect DEF BeforeRows
    <3>5. ASSUME NEW j \in Ingests \ {i}, BatchOf[j] = b PROVE step'[j] # "announce"
      BY <3>1, <3>2, <3>5, StepEffect
    <3> QED
      BY <3>2, <3>3, <3>4, <3>5 DEF b
  <2>2. CASE step[i] # "announce"
    <3>1. WorkerSettle(i) /\ step[i] = "settle" /\ Completable(b)
      BY <1>3, <2>2, StepEffect
    <3>2. /\ batch' = [batch EXCEPT ![b] = "extracted"]
          /\ step' = [step EXCEPT ![i] = "announce"]
      BY <3>1 DEF WorkerSettle, Goto
    <3>3. req' = req /\ announced' = announced
      BY <3>1 DEF WorkerSettle, reqVars
    <3> HIDE DEF b
    <3>4. batch[b] # "extracted"
      BY <2>0, <3>1, ExtractedStays
    <3>5. /\ announced[b] = 0 /\ req[b] # "announce"
          /\ \A j \in Ingests : BatchOf[j] = b => step[j] # "announce"
      BY <1>0, <2>0, <3>4 DEF AnnounceToken
    <3>6. batch'[b] = "extracted"
      BY <1>0, <2>0, <3>2 DEF TypeOK
    <3>7. \A j \in Ingests \ {i} : step'[j] = step[j]
      BY <1>0, <3>2 DEF TypeOK
    <3> QED
      BY <3>3, <3>5, <3>6, <3>7 DEF b
  <2> QED
    BY <2>1, <2>2
<1> QED
  BY <1>1, <1>2, <1>3 DEF AnnounceToken

\* Only an unannounced batch is announced.
LEMMA AnnouncedOnceStep ==
  ASSUME PipelineInv, [Next]_vars PROVE AnnouncedOnce'
<1> SUFFICES ASSUME NEW b \in Batches PROVE announced'[b] <= 1
  BY DEF AnnouncedOnce
<1>1. announced[b] <= 1
  BY DEF PipelineInv, AnnouncedOnce
<1> QED
  BY <1>1, AnnounceEffect

\* The invariant is inductive.
LEMMA InvStep == PipelineInv /\ [Next]_vars => PipelineInv'
<1> SUFFICES ASSUME PipelineInv, [Next]_vars PROVE PipelineInv'
  OBVIOUS
<1>1. TypeOK'
  BY TypeStep DEF PipelineInv
<1>2. RowsTogether' /\ BatchOpened' /\ FilesSplit' /\ QueueHeld'
  BY RowsTogetherStep, BatchOpenedStep, FilesSplitStep, QueueHeldStep
<1>3. WorkerRows' /\ DownIsQuiet' /\ ExtractedIsComplete' /\ AnnounceToken' /\ AnnouncedOnce'
  BY WorkerRowsStep, DownIsQuietStep, ExtractedIsCompleteStep, AnnounceTokenStep,
     AnnouncedOnceStep
<1> QED
  BY <1>1, <1>2, <1>3 DEF PipelineInv

\* The inductive invariant holds in every reachable state of every instance.
THEOREM PipelineInvariant == Spec => []PipelineInv
  BY InvInit, InvStep, PTL DEF Spec

\* A batch that reads extracted has all its rows, all of them terminal, whatever
\* the workers, late agents, faults and restarts do (onBatchChildTerminated).
THEOREM ExtractedBatchIsComplete == Spec => []ExtractedIsComplete
<1>1. PipelineInv => ExtractedIsComplete
  BY DEF PipelineInv
<1> QED
  BY <1>1, PipelineInvariant, PTL

\* batch.extracted goes out at most once per batch, so one upload starts at most
\* one automatic reconciliation (the guarded UPDATE of onBatchChildTerminated).
THEOREM BatchAnnouncedOnce == Spec => []AnnouncedOnce
<1>1. PipelineInv => AnnouncedOnce
  BY DEF PipelineInv
<1> QED
  BY <1>1, PipelineInvariant, PTL

\* No worker, agent, retry or restart ever reopens a row that was closed.
THEOREM TerminalForever == Spec => NeverReopened
<1>1. PipelineInv /\ [Next]_vars
        => [\A i \in Ingests : status[i] \in Terminal => status'[i] \in Terminal]_vars
  BY TerminalStays
<1> QED
  BY <1>1, PipelineInvariant, PTL DEF Spec, NeverReopened

\* A step of the pipeline that moves no batch, no row and no announcement, or
\* moves a row between queued and processing, is invisible to the life cycle.
LEMMA Invisible ==
  ASSUME \A b \in Batches : Phase(batch'[b]) = Phase(batch[b]),
         \A i \in Ingests : Row(status'[i]) = Row(status[i]),
         announced' = announced
  PROVE  UNCHANGED Lifecycle!vars
  BY DEF Lifecycle!vars

\* The batch a request starts is opened.
LEMMA OpensBatch ==
  ASSUME PipelineInv, NEW b \in Batches, BatchInsert(b)
  PROVE  Lifecycle!Open(b)
<1>1. batch \in [Batches -> BatchStatus]
  BY DEF PipelineInv, TypeOK
<1>2. batch[b] = "absent"
  BY DEF BatchInsert, PipelineInv, BatchOpened
<1>3. /\ batch' = [batch EXCEPT ![b] = "pending"]
      /\ status' = status /\ announced' = announced
  BY DEF BatchInsert
<1> QED
  BY <1>1, <1>2, <1>3 DEF Lifecycle!Open, Phase, OpenBatch

\* Its rows are registered together, the suppressed ones born closed.
LEMMA RegistersRows ==
  ASSUME PipelineInv, NEW b \in Batches, InsertRows(b)
  PROVE  Lifecycle!Register(b)
<1>0. /\ FilesSplit /\ RowsTogether /\ BatchOpened /\ TypeOK
  BY DEF PipelineInv
<1>1. batch[b] = "pending" /\ req[b] \in BeforeRows
  BY <1>0 DEF InsertRows, BatchOpened, BeforeRows
<1>2. \A i \in Files(b) : i \in Ingests /\ status[i] = "absent"
  BY <1>0, <1>1 DEF RowsTogether, Files
<1>3. /\ InTodo(b) \cup suppressed[b] = Files(b)
      /\ InTodo(b) \cap suppressed[b] = {}
      /\ batch' = batch /\ announced' = announced
      /\ \A i \in Ingests : status'[i] = IF i \in suppressed[b] THEN "dedup"
                                         ELSE IF i \in InTodo(b) THEN "queued"
                                         ELSE status[i]
  BY <1>0 DEF InsertRows, FilesSplit
<1>4. suppressed[b] \in SUBSET Lifecycle!RowsOf(b) /\ Lifecycle!RowsOf(b) = Files(b)
  BY <1>3 DEF Lifecycle!RowsOf, Files
<1>5. \A i \in Ingests : Row(status'[i]) = IF i \notin Files(b) THEN Row(status[i])
                                           ELSE IF i \in suppressed[b] THEN "closed"
                                           ELSE "open"
  BY <1>3 DEF Row, InFlight
<1>6. \A i \in Files(b) : Row(status[i]) = "none"
  BY <1>2 DEF Row
<1>7. Phase(batch[b]) = "open"
  BY <1>1 DEF Phase, OpenBatch
<1>8. [i \in Ingests |-> Row(status'[i])] =
        [i \in Ingests |-> IF i \notin Files(b) THEN Row(status[i])
                           ELSE IF i \in suppressed[b] THEN "closed" ELSE "open"]
  BY <1>5
<1>9. \A i \in Files(b) : i \in Ingests
  BY <1>2
<1> QED
  BY <1>3, <1>4, <1>6, <1>7, <1>8, <1>9 DEF Lifecycle!Register

\* A completed batch had all its rows closed.
LEMMA CompletesBatch ==
  ASSUME PipelineInv, NEW b \in Batches, Completable(b),
         \/ req[b] = "complete"
         \/ \E i \in Files(b) : step[i] # "idle",
         batch' = [batch EXCEPT ![b] = "extracted"],
         status' = status, announced' = announced
  PROVE  Lifecycle!Complete(b)
<1>1. \A i \in Files(b) : i \in Ingests /\ status[i] \in Terminal
  BY CompletableIsComplete DEF Files
<1>2. \A i \in Files(b) : Row(status[i]) = "closed"
  BY <1>1 DEF Row, Terminal, InFlight
<1>3. batch \in [Batches -> BatchStatus] /\ batch[b] \in OpenBatch
  BY DEF PipelineInv, TypeOK, Completable
<1>4. Lifecycle!RowsOf(b) = Files(b)
  BY DEF Lifecycle!RowsOf, Files
<1>5. \A i \in Files(b) : i \in Ingests
  BY <1>1
<1>6. Phase(batch[b]) = "open"
  BY <1>3 DEF Phase
<1>7. [c \in Batches |-> Phase(batch'[c])]
        = [[c \in Batches |-> Phase(batch[c])] EXCEPT ![b] = "extracted"]
  BY <1>3 DEF Phase, OpenBatch
<1> QED
  BY <1>2, <1>4, <1>5, <1>6, <1>7 DEF Lifecycle!Complete

\* The rows a step brings to a terminal status are closed; the others stay.
LEMMA ClosesRows ==
  ASSUME PipelineInv, [Next]_vars,
         \A b \in Batches : ~InsertRows(b),
         batch' = batch, announced' = announced
  PROVE  \E S \in SUBSET Ingests : Lifecycle!Close(S)
<1> DEFINE S == {i \in Ingests : status[i] \in InFlight /\ status'[i] \notin InFlight}
<1>0. BatchOf \in [Ingests -> Batches]
  BY PipelineAssumption DEF PipelineAssumption
<1>1. \A i \in S : Row(status[i]) = "open"
  BY DEF Row, InFlight
<1>2. ASSUME NEW i \in Ingests
      PROVE  Row(status'[i]) = IF i \in S THEN "closed" ELSE Row(status[i])
  <2>1. \/ status'[i] = status[i]
        \/ status[i] # "absent" /\ status'[i] \in Terminal
        \/ status[i] = "queued" /\ status'[i] = "processing"
    BY <1>0, StatusEffect DEF Terminal, InFlight
  <2> QED
    BY <2>1 DEF Row, InFlight, Terminal
<1> HIDE DEF S
<1>3. S \in SUBSET Ingests
  BY DEF S
<1>4. \A i \in S : i \in Ingests
  BY <1>3
<1>5. Lifecycle!Close(S)
  BY <1>1, <1>2, <1>4 DEF Lifecycle!Close
<1> QED
  BY <1>3, <1>5

\* batch.extracted is emitted once, for an extracted batch.
LEMMA AnnouncesBatch ==
  ASSUME PipelineInv, NEW b \in Batches,
         \/ RequestAnnounce(b)
         \/ \E i \in Files(b) : WorkerAnnounce(i)
  PROVE  Lifecycle!Announce(b)
<1>0. TypeOK /\ AnnounceToken
  BY DEF PipelineInv
<1>1. batch[b] = "extracted" /\ announced[b] = 0
  <2>1. CASE RequestAnnounce(b)
    BY <1>0, <2>1 DEF RequestAnnounce, AnnounceToken
  <2>2. ASSUME NEW i \in Files(b), WorkerAnnounce(i)
        PROVE  batch[b] = "extracted" /\ announced[b] = 0
    BY <1>0, <2>2 DEF WorkerAnnounce, AnnounceToken, Files
  <2> QED
    BY <2>1, <2>2
<1>2. /\ announced' = [announced EXCEPT ![b] = announced[b] + 1]
      /\ batch' = batch /\ status' = status
  BY DEF RequestAnnounce, WorkerAnnounce, dbVars, Files
<1>3. announced' = [announced EXCEPT ![b] = 1]
  BY <1>1, <1>2
<1> QED
  BY <1>1, <1>2, <1>3 DEF Lifecycle!Announce, Phase, OpenBatch

\* The boot scan abandons the batches it selected, all of them open.
LEMMA AbandonsBatches ==
  ASSUME PipelineInv, RecoverBatches
  PROVE  \E B \in SUBSET Batches : Lifecycle!Abandon(B)
<1>1. stale \in SUBSET Batches /\ \A b \in stale : Phase(batch[b]) = "open"
  BY DEF PipelineInv, TypeOK, DownIsQuiet, RecoverBatches, Phase
<1>2. /\ batch' = [b \in Batches |-> IF b \in stale THEN "failed" ELSE batch[b]]
      /\ status' = status /\ announced' = announced
  BY DEF RecoverBatches
<1>3. \A b \in stale : b \in Batches
  BY <1>1
<1>4. \A b \in Batches : Phase(batch'[b]) = IF b \in stale THEN "failed" ELSE Phase(batch[b])
  BY <1>2 DEF Phase, OpenBatch
<1>5. Lifecycle!Abandon(stale)
  BY <1>1, <1>2, <1>3, <1>4 DEF Lifecycle!Abandon
<1> QED
  BY <1>1, <1>5

\* Every step of the pipeline is a step of the life cycle, or is invisible.
LEMMA LifecycleStep ==
  ASSUME PipelineInv, [Next]_vars
  PROVE  [Lifecycle!Next]_(Lifecycle!vars)
<1>0. /\ TypeOK /\ BatchOf \in [Ingests -> Batches]
  BY PipelineAssumption DEF PipelineAssumption, PipelineInv
<1>1. ASSUME NEW b \in Batches, BatchInsert(b) PROVE Lifecycle!Next
  BY <1>1, OpensBatch DEF Lifecycle!Next
<1>2. ASSUME NEW b \in Batches, CompleteBatch(b), batch' # batch PROVE Lifecycle!Next
  <2>1. /\ Completable(b) /\ req[b] = "complete"
        /\ batch' = [batch EXCEPT ![b] = "extracted"]
        /\ status' = status /\ announced' = announced
    BY <1>2 DEF CompleteBatch
  <2> QED
    BY <2>1, CompletesBatch DEF Lifecycle!Next
<1>3. ASSUME NEW i \in Ingests, WorkerStart(i) PROVE UNCHANGED Lifecycle!vars
  <2>1. \A b \in Batches : Phase(batch'[b]) = Phase(batch[b])
    BY <1>0, <1>3 DEF WorkerStart, Phase, OpenBatch, TypeOK
  <2>2. status' = status /\ announced' = announced
    BY <1>3 DEF WorkerStart
  <2> QED
    BY <2>1, <2>2, Invisible
<1>4. ASSUME NEW i \in Ingests, WorkerSettle(i), batch' # batch PROVE Lifecycle!Next
  <2>1. /\ Completable(BatchOf[i]) /\ step[i] = "settle"
        /\ batch' = [batch EXCEPT ![BatchOf[i]] = "extracted"]
        /\ status' = status /\ announced' = announced
    BY <1>4 DEF WorkerSettle
  <2>2. BatchOf[i] \in Batches /\ i \in Files(BatchOf[i])
    BY <1>0 DEF Files
  <2>3. Lifecycle!Complete(BatchOf[i])
    BY <2>1, <2>2, CompletesBatch
  <2> QED
    BY <2>2, <2>3 DEF Lifecycle!Next
<1>5. CASE RecoverBatches
  BY <1>5, AbandonsBatches DEF Lifecycle!Next
<1>6. ASSUME batch' = batch PROVE [Lifecycle!Next]_(Lifecycle!vars)
  <2>1. ASSUME NEW b \in Batches, InsertRows(b) PROVE Lifecycle!Next
    BY <2>1, RegistersRows DEF Lifecycle!Next
  <2>2. CASE announced' = announced /\ \A b \in Batches : ~InsertRows(b)
    BY <1>6, <2>2, ClosesRows DEF Lifecycle!Next
  <2>3. ASSUME NEW b \in Batches, RequestAnnounce(b) PROVE Lifecycle!Next
    BY <2>3, AnnouncesBatch DEF Lifecycle!Next
  <2>4. ASSUME NEW i \in Ingests, WorkerAnnounce(i) PROVE Lifecycle!Next
    <3>1. BatchOf[i] \in Batches /\ i \in Files(BatchOf[i])
      BY <1>0 DEF Files
    <3>2. Lifecycle!Announce(BatchOf[i])
      BY <2>4, <3>1, AnnouncesBatch
    <3> QED
      BY <3>1, <3>2 DEF Lifecycle!Next
  <2> QED
    BY <2>1, <2>2, <2>3, <2>4, ChangesAnnounced
<1> QED
  BY <1>1, <1>2, <1>3, <1>4, <1>5, <1>6, ChangesBatch

\* The pipeline implements the batch life cycle the API documents.
THEOREM ImplementsLifecycle == Spec => BatchLifecycleHolds
<1>1. Init => Lifecycle!Init
  BY DEF Init, Lifecycle!Init, Phase, Row, OpenBatch
<1>2. PipelineInv /\ [Next]_vars => [Lifecycle!Next]_(Lifecycle!vars)
  BY LifecycleStep
<1> QED
  BY <1>1, <1>2, PipelineInvariant, PTL DEF Spec, BatchLifecycleHolds, Lifecycle!Spec

----------------------------------------------------------------------------
(***************************************************************************)
(* The pool, the queue, the duplicate check and the guards.                *)
(***************************************************************************)

\* The first k items of a queue without repetitions are k items.
LEMMA CountFirst ==
  ASSUME NEW q \in Seq(Ingests), NEW k \in Nat, k <= Len(q),
         \A m, n \in 1 .. Len(q) : q[m] = q[n] => m = n
  PROVE  IsFiniteSet(First(q, k)) /\ Cardinality(First(q, k)) = k
<1> DEFINE f == [n \in 1 .. k |-> q[n]]
<1>1. \A n \in 1 .. k : n \in 1 .. Len(q)
  OBVIOUS
<1>2. f \in Bijection(1 .. k, First(q, k))
  BY <1>1, Fun_IsBij DEF First
<1>3. IsFiniteSet(1 .. k) /\ Cardinality(1 .. k) = k
  BY FS_Interval
<1> QED
  BY <1>2, <1>3, FS_Bijection DEF ExistsBijection

\* The counter counts the workers, and no slot is free while a file waits.
LEMMA PoolCountStep ==
  ASSUME PipelineInv, PoolCount, [Next]_vars PROVE PoolCount'
<1>0. /\ queue \in Seq(Ingests) /\ step \in [Ingests -> WorkerStep]
      /\ \A b \in Batches : todo[b] \in Seq(Ingests)
      /\ active \in Int /\ active <= MaxConcurrency /\ MaxConcurrency \in Nat
      /\ IsFiniteSet(Running) /\ active = Cardinality(Running)
      /\ queue # <<>> => active = MaxConcurrency
      /\ \A i \in Queued : step[i] = "idle"
  BY PipelineAssumption
  DEF PipelineInv, TypeOK, PoolCount, PoolSaturated, Running, PipelineAssumption,
      QueueHeld
\* Starting the first k items of q, with the workers S still running.
<1>1. ASSUME NEW q \in Seq(Ingests), NEW S, NEW n \in Int, IsFiniteSet(S),
             n = Cardinality(S), n <= MaxConcurrency,
             \A m, r \in 1 .. Len(q) : q[m] = q[r] => m = r,
             \A m \in 1 .. Len(q) : q[m] \notin S,
             queue' = SubSeq(q, Startable(n, q) + 1, Len(q)),
             active' = n + Startable(n, q),
             Running' = S \cup First(q, Startable(n, q))
      PROVE  PoolCount'
  <2> DEFINE k == Startable(n, q)
  <2>1. k \in Nat /\ k <= Len(q) /\ n + k <= MaxConcurrency
        /\ (k = Len(q) \/ n + k = MaxConcurrency)
    <3>1. k \in Nat /\ k <= Len(q) /\ n + k <= MaxConcurrency
      BY <1>1, StartableBounds
    <3>2. Len(q) \in Nat
      BY <1>1
    <3> QED
      BY <1>0, <1>1, <3>1, <3>2 DEF Startable
  <2>2. Len(queue') = Len(q) - k /\ queue' \in Seq(Ingests)
    BY <1>1, <2>1, DropFirst
  <2>3. queue' # <<>> => active' = MaxConcurrency
    BY <1>1, <2>1, <2>2
  <2>4. IsFiniteSet(First(q, k)) /\ Cardinality(First(q, k)) = k
    BY <1>1, <2>1, CountFirst
  <2>5. S \cap First(q, k) = {}
    BY <1>1, <2>1 DEF First
  <2> HIDE DEF k
  <2>6. IsFiniteSet(S \cup First(q, k)) /\ Cardinality(S \cup First(q, k)) = n + k
    <3>1. IsFiniteSet(S \cup First(q, k)) /\ Cardinality(S \cup First(q, k))
            = Cardinality(S) + Cardinality(First(q, k)) - Cardinality(S \cap First(q, k))
      BY <1>1, <2>4, FS_Union
    <3>2. Cardinality(S \cap First(q, k)) = 0
      BY <2>5, FS_EmptySet
    <3> QED
      BY <1>1, <2>1, <2>4, <3>1, <3>2
  <2> QED
    BY <1>1, <2>1, <2>3, <2>6 DEF PoolCount, PoolSaturated, Running, k
<1>2. ASSUME NEW b \in Batches, Enqueue(b) PROVE PoolCount'
  <2> DEFINE q == queue \o todo[b]
  <2>1. q \in Seq(Ingests)
    BY <1>0
  <2>2. /\ \A m, n \in 1 .. Len(q) : q[m] = q[n] => m = n
        /\ \A n \in 1 .. Len(q) : step[q[n]] = "idle"
    BY <1>2, PushedOnce
  <2>3. /\ queue' = SubSeq(q, Startable(active, q) + 1, Len(q))
        /\ active' = active + Startable(active, q)
        /\ step' = [i \in Ingests |-> IF i \in First(q, Startable(active, q))
                                      THEN "lookup" ELSE step[i]]
    BY <1>2 DEF Enqueue
  <2>4. First(q, Startable(active, q)) \subseteq Ingests
    <3>1. Startable(active, q) \in Nat /\ Startable(active, q) <= Len(q)
      BY <1>0, <2>1, StartableBounds
    <3> QED
      BY <2>1, <3>1 DEF First
  <2> HIDE DEF q
  <2>5. Running' = Running \cup First(q, Startable(active, q))
    BY <1>0, <2>3, <2>4 DEF Running
  <2>6. \A n \in 1 .. Len(q) : q[n] \notin Running
    BY <2>2 DEF Running
  <2> QED
    BY <1>0, <1>1, <2>1, <2>2, <2>3, <2>5, <2>6
<1>3. ASSUME NEW j \in Ingests, step[j] # "idle", Release(j) PROVE PoolCount'
  <2> DEFINE k == Startable(active - 1, queue)
  <2>1. j \in Running /\ IsFiniteSet(Running \ {j})
        /\ Cardinality(Running \ {j}) = active - 1
    BY <1>0, <1>3, FS_RemoveElement DEF Running
  <2>2. /\ queue' = SubSeq(queue, k + 1, Len(queue))
        /\ active' = (active - 1) + k
        /\ step' = [i \in Ingests |-> IF i \in First(queue, k) THEN "lookup"
                                      ELSE IF i = j THEN "idle" ELSE step[i]]
    BY <1>3 DEF Release
  <2>3. First(queue, k) \subseteq Queued /\ First(queue, k) \subseteq Ingests
    <3>1. k \in Nat /\ k <= Len(queue)
      BY <1>0, StartableBounds
    <3> QED
      BY <1>0, <3>1 DEF First, Queued
  <2> HIDE DEF k
  <2>4. Running' = (Running \ {j}) \cup First(queue, k)
    BY <1>0, <2>2, <2>3 DEF Running
  <2>5. /\ \A m, n \in 1 .. Len(queue) : queue[m] = queue[n] => m = n
        /\ \A n \in 1 .. Len(queue) : queue[n] \notin Running \ {j}
    BY <1>0 DEF PipelineInv, QueueHeld, Queued, Running
  <2> QED
    <3>1. active - 1 \in Int /\ active - 1 <= MaxConcurrency
      BY <1>0
    <3> QED
      BY <1>0, <1>1, <2>1, <2>2, <2>4, <2>5, <3>1 DEF k
<1>4. CASE Crash
  <2>1. queue' = <<>> /\ active' = 0 /\ Running' = {}
    BY <1>4 DEF Crash, Running
  <2> QED
    <3>1. IsFiniteSet(Running') /\ active' = Cardinality(Running')
      BY <2>1, FS_EmptySet
    <3> QED
      BY <1>0, <2>1, <3>1 DEF PoolCount, PoolSaturated, Running
<1>5. CASE UNCHANGED <<queue, active, step>>
  BY <1>5 DEF PoolCount, PoolSaturated, Running
<1>6. ASSUME NEW j \in Ingests, NEW s \in WorkerStep \ {"idle", "lookup"},
             step[j] # "idle", Goto(j, s)
      PROVE  PoolCount'
  <2>1. queue' = queue /\ active' = active /\ step' = [step EXCEPT ![j] = s]
    BY <1>6 DEF Goto
  <2>2. Running' = Running
    BY <1>0, <1>6, <2>1 DEF Running
  <2> QED
    BY <2>1, <2>2 DEF PoolCount, PoolSaturated, Running
<1> QED
  BY <1>2, <1>3, <1>4, <1>5, <1>6, PoolMoves

\* Only a waiting worker has an agent, when none outlives its worker.
LEMMA AgentOwnedStep ==
  ASSUME PipelineInv, AgentOwned, [Next]_vars PROVE AgentOwned'
<1> SUFFICES ASSUME ~LateAgents
             PROVE  /\ killed' = {}
                    /\ \A i \in Ingests : agent'[i] # "off" => step'[i] = "wait"
  BY DEF AgentOwned
<1>0. /\ killed = {}
      /\ \A i \in Ingests : agent[i] # "off" => step[i] = "wait"
      /\ agent \in [Ingests -> AgentStep] /\ step \in [Ingests -> WorkerStep]
  BY DEF AgentOwned, PipelineInv, TypeOK
<1>1. killed' = {}
  <2>1. ASSUME NEW j \in Ingests, Agent(j) PROVE killed' = {}
    <3>1. \E s \in AgentStep : AgentGoto(j, s)
      BY <2>1 DEF Agent, AgentRead, AgentInsert, AgentAttach, AgentClose, AgentDies,
                  AgentStep
    <3> QED
      BY <1>0, <3>1 DEF AgentGoto
  <2>2. ASSUME NEW j \in Ingests, WorkerTimeout(j) PROVE killed' = {}
    BY <1>0, <2>2 DEF WorkerTimeout
  <2>3. Crash => killed' = {}
    BY DEF Crash
  <2> QED
    BY <1>0, <2>1, <2>2, <2>3, ChangesKilled
<1>2. ASSUME NEW i \in Ingests, agent'[i] # "off" PROVE step'[i] = "wait"
  <2>1. CASE WorkerSpawn(i)
    BY <1>0, <2>1 DEF WorkerSpawn, Goto
  <2>2. ASSUME ~WorkerSpawn(i) PROVE step'[i] = "wait"
    <3>1. agent[i] # "off" /\ step[i] = "wait"
      BY <1>0, <1>2, <2>2, AgentEffect
    <3>2. ~Crash
      BY <1>2 DEF Crash
    <3>3. ~WorkerReap(i) /\ ~WorkerTimeout(i)
      BY <1>0, <1>2 DEF WorkerReap, WorkerTimeout
    <3>4. Worker(i) => FALSE
      BY <3>1, <3>3
      DEF Worker, WorkerLookup, WorkerMark, WorkerStart, WorkerSpawn,
          WorkerMarkError, WorkerVerify, WorkerForceError, WorkerHeal,
          WorkerFinish, WorkerSettle, WorkerAnnounce, WorkerThrows
    <3> QED
      BY <3>1, <3>2, <3>4, OwnWorker
  <2> QED
    BY <2>1, <2>2
<1> QED
  BY <1>1, <1>2

\* While no agent outlives its worker, an agent goes where it says.
LEMMA AgentGoes ==
  ASSUME TypeOK, AgentOwned, ~LateAgents, NEW i \in Ingests, NEW s, AgentGoto(i, s)
  PROVE  agent'[i] = s
  BY DEF AgentGoto, AgentOwned, TypeOK

\* What the agent does is checked, step by step.
LEMMA GuardsBiteStep ==
  ASSUME PipelineInv, AgentOwned, GuardsBite, [Next]_vars PROVE GuardsBite'
<1> SUFFICES ASSUME ~LateAgents, crashes' = 0, faults' = 0, NEW i \in Ingests
             PROVE
      /\ agent'[i] = "attach" => verdict'[i] = "near_dup"
      /\ step'[i] = "heal" => status'[i] = "done" /\ tx'[i] # "none"
      /\ status'[i] = "near_dup" =>
           Unchecked(i)' \/ \E t \in produced'[i] : <<DocOf[i], t>> \in links'
      /\ "invents" \notin Misbehaviours =>
           /\ agent'[i] = "close" /\ verdict'[i] = "done" =>
                claim'[i] = {} \/ tx'[i] # "none"
           /\ status'[i] = "done" /\ DocOf[i] \in Receipts =>
                \/ i \in sentinel' \/ tx'[i] # "none"
                \/ Unchecked(i)' /\ produced'[i] = {}
  BY DEF GuardsBite
<1>0. /\ agent[i] = "attach" => verdict[i] = "near_dup"
      /\ step[i] = "heal" => status[i] = "done" /\ tx[i] # "none"
      /\ status[i] = "near_dup" =>
           Unchecked(i) \/ \E t \in produced[i] : <<DocOf[i], t>> \in links
      /\ "invents" \notin Misbehaviours =>
           /\ agent[i] = "close" /\ verdict[i] = "done" =>
                claim[i] = {} \/ tx[i] # "none"
           /\ status[i] = "done" /\ DocOf[i] \in Receipts =>
                \/ i \in sentinel \/ tx[i] # "none"
                \/ Unchecked(i) /\ produced[i] = {}
      /\ faults = 0 /\ crashes = 0 /\ UNCHANGED faults /\ ~Crash
  BY QuietPast DEF GuardsBite, PipelineInv
<1>1. /\ agent \in [Ingests -> AgentStep] /\ step \in [Ingests -> WorkerStep]
      /\ status \in [Ingests -> IngestStatus] /\ verdict \in [Ingests -> Verdict]
      /\ claim \in [Ingests -> SUBSET Ingests] /\ produced \in [Ingests -> SUBSET Ingests]
      /\ tx \in [Ingests -> {"none", "posted", "removed"}]
      /\ agent[i] # "off" => step[i] = "wait"
      /\ tx[i] # "none" => tx'[i] # "none"
      /\ links \subseteq links'
      /\ TypeOK
  BY OwnTx, LinksStay DEF PipelineInv, TypeOK, AgentOwned
\* The agent's decisions.
<1>2. /\ agent'[i] = "attach" => verdict'[i] = "near_dup"
      /\ "invents" \notin Misbehaviours /\ agent'[i] = "close" /\ verdict'[i] = "done"
           => claim'[i] = {} \/ tx'[i] # "none"
  <2>1. CASE AgentRead(i)
    <3>1. \/ verdict'[i] # "done" /\ agent'[i] = "close"
          \/ verdict'[i] = "near_dup" /\ agent'[i] = "attach"
          \/ agent'[i] = "insert"
      BY <1>1, <2>1, AgentGoes DEF AgentRead, Decide
    <3> QED
      BY <3>1
  <2>2. CASE AgentInsert(i)
    <3>1. agent'[i] = "close"
      BY <1>1, <2>2, AgentGoes DEF AgentInsert
    <3>2. \/ tx'[i] = "posted" \/ verdict'[i] = "error" \/ claim'[i] = {}
          \/ "invents" \in Misbehaviours
      BY <1>1, <2>2 DEF AgentInsert, Decide
    <3> QED
      BY <3>1, <3>2
  <2>3. CASE AgentAttach(i)
    <3>1. agent'[i] = "close"
      BY <1>1, <2>3, AgentGoes DEF AgentAttach
    <3>2. verdict'[i] \in {"error", "near_dup"}
      BY <1>0, <1>1, <2>3 DEF AgentAttach, Decide
    <3> QED
      BY <3>1, <3>2
  <2>4. CASE AgentClose(i) \/ AgentDies(i)
    <3>1. agent'[i] \in {"exited", "crashed"}
      BY <1>1, <2>4, AgentGoes DEF AgentClose, AgentDies
    <3> QED
      BY <3>1
  <2>5. CASE WorkerSpawn(i) \/ WorkerReap(i) \/ WorkerTimeout(i)
    <3>1. agent'[i] \in {"read", "off"}
      BY <1>1, <2>5 DEF WorkerSpawn, WorkerReap, WorkerTimeout
    <3> QED
      BY <3>1
  <2>6. ASSUME agent'[i] = agent[i], verdict'[i] = verdict[i], claim'[i] = claim[i]
        PROVE  /\ agent'[i] = "attach" => verdict'[i] = "near_dup"
               /\ "invents" \notin Misbehaviours /\ agent'[i] = "close"
                    /\ verdict'[i] = "done" => claim'[i] = {} \/ tx'[i] # "none"
    BY <1>0, <1>1, <2>6
  <2> QED
    BY <1>0, <2>1, <2>2, <2>3, <2>4, <2>5, <2>6, OwnAgent, OwnVerdict DEF Agent
\* Whatever the worker is about to do, an agent's own close leaves it waiting.
<1>3. AgentClose(i) => step'[i] = "wait" /\ Unchecked(i)'
  <2>1. ASSUME AgentClose(i) PROVE step'[i] = "wait"
    BY <1>1, <2>1 DEF AgentClose, workVars
  <2> QED
    BY <2>1 DEF Unchecked
<1>4. step'[i] = "heal" => status'[i] = "done" /\ tx'[i] # "none"
  <2>1. CASE step[i] = "heal"
    <3>1. status'[i] = status[i] \/ step'[i] # "heal"
      BY <1>0, <1>1, <2>1, StatusEffect, WaitingIsUp
      DEF WorkerMark
    <3> QED
      BY <1>0, <1>1, <2>1, <3>1
  <2>2. ASSUME step[i] # "heal", step'[i] = "heal" PROVE status'[i] = "done" /\ tx'[i] # "none"
    <3>1. step[i] # "idle" /\ Worker(i)
      BY <1>0, <2>2, StepEffect, OwnWorker, Started
    <3>2. WorkerVerify(i) /\ AfterVerify(i) = "heal"
      BY <2>2, <3>1, WorkerEffect
    <3>3. status[i] = "done" /\ LiveByStatus(i) /\ status' = status
      BY <3>2 DEF AfterVerify, DoneUnbacked, WorkerVerify, dbVars
    <3> QED
      BY <1>1, <3>3 DEF LiveByStatus
  <2> QED
    BY <2>1, <2>2
\* A row whose verdict no guard has passed yet stays so.
<1>5. ASSUME Unchecked(i), status'[i] \in {"done", "near_dup"}
      PROVE  \/ Unchecked(i)'
             \/ WorkerVerify(i) /\ step'[i] = AfterVerify(i) /\ status' = status
  <2>1. step[i] # "idle"
    BY <1>5 DEF Unchecked
  <2>2. CASE step'[i] = step[i]
    BY <1>5, <2>2 DEF Unchecked
  <2>3. CASE Worker(i)
    <3>1. ~WorkerThrows(i)
      <4>1. faults \in Nat
        BY DEF PipelineInv, TypeOK
      <4> QED
        BY <1>0, <4>1 DEF WorkerThrows
    <3>2. ~WorkerMarkError(i) /\ ~WorkerForceError(i)
      BY <1>1, <1>5 DEF WorkerMarkError, WorkerForceError
    <3>3. \/ WorkerReap(i) /\ step'[i] \in {"verify", "fail"}
          \/ WorkerTimeout(i) /\ step'[i] = "fail"
          \/ WorkerVerify(i) /\ step'[i] = AfterVerify(i)
      BY <1>5, <2>3, <3>1, <3>2, WorkerEffect
      DEF Unchecked, WorkerLookup, WorkerMark, WorkerStart, WorkerSpawn, WorkerHeal,
          WorkerFinish, WorkerSettle, WorkerAnnounce
    <3> QED
      BY <3>3 DEF Unchecked, WorkerVerify, dbVars
  <2> QED
    BY <1>0, <2>1, <2>2, <2>3, OwnWorker
<1>6. ASSUME ~AgentClose(i), status'[i] \in {"done", "near_dup"}
      PROVE  /\ status'[i] = status[i]
             /\ produced'[i] = produced[i] \/ WorkerHeal(i)
             /\ i \in sentinel' <=> i \in sentinel
  <2>1. status'[i] = status[i]
    BY <1>6, StatusEffect
  <2>2. ~WorkerMarkError(i) /\ ~WorkerForceError(i)
    BY <1>1, <1>6 DEF WorkerMarkError, WorkerForceError
  <2> QED
    BY <1>6, <2>1, <2>2, OwnProduced, OwnSentinel
<1>7. status'[i] = "near_dup" =>
        Unchecked(i)' \/ \E t \in produced'[i] : <<DocOf[i], t>> \in links'
  <2> SUFFICES ASSUME ~AgentClose(i), status'[i] = "near_dup"
               PROVE  Unchecked(i)' \/ \E t \in produced'[i] : <<DocOf[i], t>> \in links'
    BY <1>3
  <2>1. status[i] = "near_dup" /\ produced'[i] = produced[i]
    BY <1>0, <1>6 DEF WorkerHeal
  <2>2. CASE \E t \in produced[i] : <<DocOf[i], t>> \in links
    BY <1>1, <2>1, <2>2
  <2>3. CASE Unchecked(i)
    <3>1. ASSUME step'[i] = AfterVerify(i)
          PROVE  Unchecked(i)' \/ LinkVerified(i)
      BY <2>1, <3>1 DEF AfterVerify, Unchecked, Terminal, DoneUnbacked
    <3> QED
      BY <1>1, <1>5, <2>1, <2>3, <3>1 DEF LinkVerified
  <2> QED
    BY <1>0, <2>1, <2>2, <2>3
<1>8. ASSUME "invents" \notin Misbehaviours, status'[i] = "done", DocOf[i] \in Receipts
      PROVE  \/ i \in sentinel' \/ tx'[i] # "none"
             \/ Unchecked(i)' /\ produced'[i] = {}
  <2>1. CASE AgentClose(i)
    <3>1. agent[i] = "close" /\ verdict[i] \in {"done", "done_duplicate"}
      BY <1>1, <1>8, <2>1 DEF AgentClose
    <3>2. verdict[i] = "done_duplicate" => i \in sentinel'
      BY <2>1 DEF AgentClose
    <3>3. produced'[i] = claim[i] \/ produced'[i] = {}
      BY <1>1, <2>1 DEF AgentClose
    <3> QED
      BY <1>0, <1>1, <1>3, <1>8, <2>1, <3>1, <3>2, <3>3
  <2>2. CASE ~AgentClose(i) /\ tx[i] = "none" /\ i \notin sentinel
    <3>1. status[i] = "done" /\ produced'[i] = produced[i]
      BY <1>0, <1>6, <1>8, <2>2 DEF WorkerHeal
    <3>2. Unchecked(i) /\ produced[i] = {}
      BY <1>0, <1>8, <2>2, <3>1
    <3>3. ASSUME step'[i] = AfterVerify(i) PROVE Unchecked(i)'
      BY <1>8, <2>2, <3>1, <3>2, <3>3
      DEF AfterVerify, Unchecked, Terminal, DoneUnbacked, LiveByStatus
    <3> QED
      BY <1>5, <1>8, <3>1, <3>2, <3>3
  <2> QED
    BY <1>1, <1>6, <1>8, <2>1, <2>2
<1> QED
  BY <1>2, <1>4, <1>7, <1>8

\* With one worker there is one agent.
LEMMA OneAgent ==
  ASSUME PipelineInv, PoolCount, AgentOwned, MaxConcurrency = 1, ~LateAgents,
         NEW i \in Ingests, NEW j \in Ingests, agent[i] # "off", agent[j] # "off"
  PROVE  i = j
<1>1. /\ i \in Running /\ j \in Running /\ IsFiniteSet(Running)
      /\ Cardinality(Running) <= 1
  BY DEF AgentOwned, PoolCount, PoolSaturated, Running
<1>2. IsFiniteSet(Running \ {i}) /\ Cardinality(Running \ {i}) = Cardinality(Running) - 1
  BY <1>1, FS_RemoveElement
<1>3. Cardinality(Running) \in Nat /\ Cardinality(Running \ {i}) \in Nat
  BY <1>1, <1>2, FS_CardinalityType
<1>4. Cardinality(Running \ {i}) = 0
  BY <1>1, <1>2, <1>3
<1>5. Running \ {i} = {}
  BY <1>2, <1>4, FS_EmptySet
<1> QED
  BY <1>1, <1>5

\* With one worker, no second document of an event is read between the first
\* one's read and its insert.
LEMMA InsertIsFirstStep ==
  ASSUME PipelineInv, PoolCount, AgentOwned, InsertIsFirst, [Next]_vars
  PROVE  InsertIsFirst'
<1> SUFFICES ASSUME MaxConcurrency = 1, ~LateAgents, ~LedgerEdits
             PROVE
               /\ \A i \in Ingests : agent'[i] = "insert" =>
                    \A t \in Ingests : SameEvent(i, t) => tx'[t] # "posted"
               /\ NoDoubleCount'
  BY DEF InsertIsFirst, SameEvent
<1>0. /\ \A i \in Ingests : agent[i] = "insert" =>
           \A t \in Ingests : SameEvent(i, t) => tx[t] # "posted"
      /\ NoDoubleCount
      /\ TypeOK
  BY DEF InsertIsFirst, PipelineInv
<1>1. ASSUME NEW t \in Ingests
      PROVE  tx'[t] = tx[t] \/ (AgentInsert(t) /\ agent[t] = "insert" /\ agent'[t] = "close")
  <2>1. ~RemoveTransaction(t) /\ ~RestoreTransaction(t)
    BY DEF RemoveTransaction, RestoreTransaction
  <2>2. AgentInsert(t) => agent[t] = "insert" /\ agent'[t] = "close"
    BY <1>0, AgentGoes DEF AgentInsert
  <2> QED
    BY <2>1, <2>2, OwnTx
<1>2. ASSUME NEW i \in Ingests, agent'[i] = "insert", agent[i] # "insert"
      PROVE  tx' = tx /\ \A t \in Ingests : SameEvent(i, t) => tx[t] # "posted"
  <2>1. agent' # [m \in Ingests |-> "off"] /\ ~Crash
    BY <1>2 DEF Crash
  <2>2. ~WorkerSpawn(i) /\ ~WorkerReap(i) /\ ~WorkerTimeout(i)
    BY <1>0, <1>2 DEF WorkerSpawn, WorkerReap, WorkerTimeout, TypeOK
  <2>3. AgentInsert(i) \/ AgentAttach(i) \/ AgentClose(i) \/ AgentDies(i)
          => agent'[i] \in {"close", "exited", "crashed"}
    BY <1>0, AgentGoes DEF AgentInsert, AgentAttach, AgentClose, AgentDies
  <2>4. AgentRead(i)
    BY <1>2, <2>1, <2>2, <2>3, OwnAgent DEF Agent
  <2>5. \A s : AgentGoto(i, s) => agent'[i] = s
    BY <1>0, AgentGoes
  <2> QED
    BY <1>2, <2>4, <2>5 DEF AgentRead, dbVars
<1>3. ASSUME NEW i \in Ingests, agent'[i] = "insert", NEW t \in Ingests, SameEvent(i, t)
      PROVE  tx'[t] # "posted"
  <2>1. CASE agent[i] # "insert"
    BY <1>2, <1>3, <2>1
  <2>2. CASE agent[i] = "insert"
    <3>1. tx[t] # "posted"
      BY <1>0, <1>3, <2>2
    <3>2. AgentInsert(t) => t = i
      BY <2>2, OneAgent DEF AgentInsert
    <3> QED
      BY <1>1, <1>3, <3>1, <3>2
  <2> QED
    BY <2>1, <2>2
<1>4. ASSUME NEW t \in Ingests, NEW u \in Ingests, tx'[t] = "posted", tx'[u] = "posted",
             SameEvent(t, u), t # u
      PROVE  FALSE
  <2>1. \A m, n \in Ingests : agent[m] = "insert" /\ SameEvent(m, n) => tx[n] # "posted"
    BY <1>0
  <2>2. SameEvent(u, t)
    BY <1>4 DEF SameEvent
  <2>3. ~(tx'[t] = tx[t] /\ tx'[u] = tx[u])
    BY <1>0, <1>4 DEF NoDoubleCount
  <2>4. agent[t] = "insert" /\ agent[u] = "insert"
    BY <1>1, <1>4, <2>1, <2>2, <2>3
  <2> QED
    BY <1>4, <2>4, OneAgent
<1> QED
  BY <1>3, <1>4 DEF NoDoubleCount, SameEvent

\* Extracted bytes stay extracted.
LEMMA WitnessStays ==
  ASSUME PipelineInv, [Next]_vars, NEW j \in Ingests, status[j] \notin {"absent", "dedup"}
  PROVE  status'[j] \notin {"absent", "dedup"}
  BY StatusEffect DEF Terminal

\* A file a request decided to extract stays so decided.
LEMMA TodoGrows ==
  ASSUME TypeOK, [Next]_vars, NEW b \in Batches
  PROVE  InTodo(b) \subseteq InTodo(b)'
<1>1. todo[b] \in Seq(Ingests) /\ cur[b] \in Ingests
  BY DEF TypeOK
<1>2. todo'[b] = todo[b] \/ todo'[b] = Append(todo[b], cur[b])
  BY FilesEffect
<1>3. Len(todo'[b]) \in Nat /\ Len(todo[b]) <= Len(todo'[b])
      /\ \A n \in 1 .. Len(todo[b]) : todo'[b][n] = todo[b][n]
  BY <1>1, <1>2
<1>4. \A n \in 1 .. Len(todo[b]) : n \in 1 .. Len(todo'[b])
  BY <1>1, <1>3
<1> QED
  BY <1>3, <1>4 DEF InTodo

\* Only a probe suppresses a file, the one the request is handling.
LEMMA SuppressedBy ==
  ASSUME TypeOK, [Next]_vars, NEW b \in Batches, NEW i \in suppressed'[b],
         i \notin suppressed[b]
  PROVE  (ProbeLive(b) \/ ProbeInFlight(b)) /\ i = cur[b]
<1>1. suppressed \in [Batches -> SUBSET Ingests]
  BY DEF TypeOK
<1>2. ASSUME NEW c \in Batches, ProbeLive(c) \/ ProbeInFlight(c)
      PROVE  \/ suppressed' = suppressed
             \/ suppressed' = [suppressed EXCEPT ![c] = @ \cup {cur[c]}]
  BY <1>2 DEF ProbeLive, ProbeInFlight, Suppress
<1> QED
  BY <1>1, <1>2, ChangesSuppressed

\* A row born dedup is not run, and leaves bytes that were extracted.
LEMMA DedupWitnessedStep ==
  ASSUME PipelineInv, DedupWitnessed, [Next]_vars PROVE DedupWitnessed'
<1>0. /\ \A i \in Ingests : status[i] = "dedup" => step[i] = "idle" /\ agent[i] = "off"
      /\ \A l \in links : \E j \in Ingests :
           DocOf[j] = l[1] /\ status[j] \notin {"absent", "dedup"}
      /\ \A b \in Batches : \A i \in suppressed[b] : \E j \in Ingests \ {i} :
           \/ Witness(i, j)
           \/ DocOf[j] = DocOf[i] /\ j \in InTodo(b)
      /\ \A i \in Ingests : status[i] = "dedup" => \E j \in Ingests \ {i} : Witness(i, j)
      /\ TypeOK /\ RowsTogether /\ FilesSplit /\ QueueHeld /\ WorkerRows
      /\ BatchOf \in [Ingests -> Batches]
  BY PipelineAssumption
  DEF DedupWitnessed, DedupHasWitness, Witness, PipelineInv, PipelineAssumption
<1>1. ASSUME NEW i \in Ingests, NEW j \in Ingests, Witness(i, j) PROVE Witness(i, j)'
  BY <1>1, WitnessStays DEF Witness
<1>2. ASSUME NEW i \in Ingests, status'[i] = "dedup"
      PROVE  \/ status[i] = "dedup"
             \/ /\ status[i] = "absent" /\ InsertRows(BatchOf[i])
                /\ i \in suppressed[BatchOf[i]]
  BY <1>2, StatusEffect DEF Terminal
<1>3. ASSUME NEW i \in Ingests, status'[i] = "dedup"
      PROVE  step'[i] = "idle" /\ agent'[i] = "off"
  <2>1. step[i] = "idle" /\ agent[i] = "off" /\ status[i] \in {"absent", "dedup"}
    BY <1>0, <1>2, <1>3 DEF WorkerRows
  <2>2. i \notin Queued
    BY <1>0, <2>1 DEF QueueHeld
  <2>3. ~(Enqueue(BatchOf[i]) /\ i \in InTodo(BatchOf[i]))
    BY <1>0, <2>1 DEF Enqueue, QueueHeld
  <2>4. step'[i] = "idle"
    BY <2>1, <2>2, <2>3, Started
  <2>5. ~WorkerSpawn(i)
    BY <2>1 DEF WorkerSpawn
  <2> QED
    BY <2>1, <2>4, <2>5, AgentEffect
\* Links are written by agents, which run rows of their own.
<1>4. ASSUME NEW l \in links' PROVE \E j \in Ingests : DocOf[j] = l[1] /\ status'[j] \notin {"absent", "dedup"}
  <2>1. CASE l \in links
    BY <1>0, <2>1, WitnessStays
  <2>2. ASSUME NEW i \in Ingests, AgentInsert(i) \/ AgentAttach(i), l \notin links
        PROVE  DocOf[i] = l[1] /\ status'[i] \notin {"absent", "dedup"}
    <3>1. l \in {<<DocOf[i], t>> : t \in Ingests \cup claim[i]} /\ agent[i] # "off"
      BY <1>4, <2>2 DEF AgentInsert, AgentAttach
    <3>2. status[i] \notin {"absent", "dedup"}
      BY <1>0, <3>1 DEF WorkerRows
    <3> QED
      BY <3>1, <3>2, WitnessStays
  <2> QED
    BY <2>1, <2>2, ChangesLinks, <1>4
\* A file is suppressed in favour of another one's extraction.
<1>5. ASSUME NEW b \in Batches, NEW i \in suppressed'[b]
      PROVE  \E j \in Ingests \ {i} : \/ Witness(i, j)'
                                      \/ DocOf[j] = DocOf[i] /\ j \in InTodo(b)'
  <2>1. InTodo(b) \subseteq InTodo(b)'
    BY <1>0, TodoGrows
  <2>2. CASE i \in suppressed[b]
    <3>1. i \in Ingests
      BY <1>0, <2>2 DEF TypeOK
    <3> QED
      BY <1>0, <1>1, <2>1, <2>2, <3>1
  <2>3. CASE i \notin suppressed[b]
    <3>1. (ProbeLive(b) \/ ProbeInFlight(b)) /\ i = cur[b]
      BY <1>0, <1>5, <2>3, SuppressedBy
    <3>2. i \in Files(b) \ InTodo(b) /\ i \in Ingests /\ status[i] = "absent"
      <4>1. cur[b] \in Files(b) \ (InTodo(b) \cup suppressed[b]) /\ req[b] \in BeforeRows
        BY <1>0, <3>1 DEF FilesSplit, ProbeLive, ProbeInFlight, BeforeRows
      <4> QED
        BY <1>0, <3>1, <4>1 DEF Files, RowsTogether
    <3>3. CASE \E t \in LinkedLive(DocOf[i]) : TRUE
      <4>1. PICK t \in Ingests : <<DocOf[i], t>> \in links
        BY <3>3 DEF LinkedLive
      <4>2. PICK j \in Ingests : DocOf[j] = DocOf[i] /\ status[j] \notin {"absent", "dedup"}
        BY <1>0, <4>1
      <4> QED
        BY <1>1, <3>2, <4>2 DEF Witness
    <3>4. CASE \E n \in 1 .. Len(todo[b]) : DocOf[todo[b][n]] = DocOf[i]
      <4>1. PICK j \in InTodo(b) : DocOf[j] = DocOf[i]
        BY <3>4 DEF InTodo
      <4>2. j \in Ingests \ {i}
        BY <1>0, <3>2, <4>1 DEF FilesSplit, Files
      <4> QED
        BY <2>1, <4>1, <4>2
    <3>5. CASE \E j \in Ingests : DocOf[j] = DocOf[i] /\ status[j] \in InFlight
      <4>1. PICK j \in Ingests : DocOf[j] = DocOf[i] /\ status[j] \in InFlight
        BY <3>5
      <4>2. Witness(i, j) /\ j # i
        BY <3>2, <4>1 DEF Witness, InFlight
      <4> QED
        BY <1>1, <3>2, <4>1, <4>2
    <3> QED
      BY <1>0, <1>5, <2>3, <3>1, <3>3, <3>4, <3>5
      DEF ProbeLive, ProbeInFlight, Suppress, TypeOK
  <2> QED
    BY <2>2, <2>3
<1>6. ASSUME NEW i \in Ingests, status'[i] = "dedup"
      PROVE  \E j \in Ingests \ {i} : Witness(i, j)'
  <2>1. CASE status[i] = "dedup"
    BY <1>0, <1>1, <2>1
  <2>2. CASE InsertRows(BatchOf[i]) /\ i \in suppressed[BatchOf[i]]
    <3>1. PICK j \in Ingests \ {i} : \/ Witness(i, j)
                                     \/ DocOf[j] = DocOf[i] /\ j \in InTodo(BatchOf[i])
      BY <1>0, <2>2
    <3>2. ASSUME j \in InTodo(BatchOf[i]) PROVE status'[j] = "queued"
      <4>1. j \notin suppressed[BatchOf[i]]
        BY <1>0, <3>2 DEF FilesSplit
      <4> QED
        BY <2>2, <3>2, <4>1 DEF InsertRows
    <3> QED
      BY <1>1, <3>1, <3>2 DEF Witness
  <2> QED
    BY <1>2, <1>6, <2>1, <2>2
<1> QED
  BY <1>3, <1>4, <1>5, <1>6 DEF DedupWitnessed, DedupHasWitness, Witness

\* An item of a queue is among the first k or among the rest.
LEMMA TakeAll ==
  ASSUME NEW q \in Seq(Ingests), NEW k \in Nat, k <= Len(q), NEW n \in 1 .. Len(q)
  PROVE  LET r == SubSeq(q, k + 1, Len(q))
         IN q[n] \in First(q, k) \/ \E m \in 1 .. Len(r) : r[m] = q[n]
<1> DEFINE r == SubSeq(q, k + 1, Len(q))
<1>1. /\ Len(r) = Len(q) - k
      /\ \A m \in 1 .. Len(q) - k : r[m] = q[m + k]
  BY DropFirst
<1>2. CASE n <= k
  BY <1>2 DEF First
<1>3. CASE ~(n <= k)
  <2>1. n - k \in 1 .. Len(q) - k /\ (n - k) + k = n
    BY <1>3
  <2>2. r[n - k] = q[n] /\ n - k \in 1 .. Len(r)
    BY <1>1, <2>1
  <2> QED
    BY <2>2
<1> QED
  BY <1>2, <1>3

\* What waits, or is pushed, goes on waiting or gets a worker.
LEMMA StillHeld ==
  ASSUME PipelineInv, [Next]_vars, ~Crash, NEW i \in Ingests,
         \/ i \in Queued
         \/ \E b \in Batches : Enqueue(b) /\ i \in InTodo(b)
  PROVE  i \in Queued' \/ step'[i] = "lookup"
<1>0. /\ queue \in Seq(Ingests) /\ \A b \in Batches : todo[b] \in Seq(Ingests)
      /\ active \in Int /\ active <= MaxConcurrency /\ active - 1 \in Int
      /\ active - 1 <= MaxConcurrency
  BY PipelineAssumption DEF PipelineInv, TypeOK, PipelineAssumption
<1>1. ASSUME NEW q \in Seq(Ingests), NEW k \in Nat, k <= Len(q), NEW n \in 1 .. Len(q),
             queue' = SubSeq(q, k + 1, Len(q)), i = q[n],
             \A j \in First(q, k) : j \in Ingests => step'[j] = "lookup"
      PROVE  i \in Queued' \/ step'[i] = "lookup"
  <2>1. i \in First(q, k) \/ \E m \in 1 .. Len(queue') : queue'[m] = i
    BY <1>1, TakeAll
  <2> QED
    BY <1>1, <2>1 DEF Queued
<1>2. ASSUME NEW b \in Batches, Enqueue(b), i \in Queued \cup InTodo(b)
      PROVE  i \in Queued' \/ step'[i] = "lookup"
  <2> DEFINE q == queue \o todo[b]
             k == Startable(active, q)
  <2>1. q \in Seq(Ingests) /\ Len(q) = Len(queue) + Len(todo[b])
    BY <1>0
  <2>2. k \in Nat /\ k <= Len(q)
    BY <1>0, <2>1, StartableBounds
  <2>3. \E n \in 1 .. Len(q) : i = q[n]
    <3>1. CASE i \in Queued
      <4>1. PICK n \in 1 .. Len(queue) : i = queue[n]
        BY <3>1 DEF Queued
      <4>2. n \in 1 .. Len(q) /\ q[n] = queue[n]
        BY <1>0, <2>1
      <4> QED
        BY <4>1, <4>2
    <3>2. CASE i \in InTodo(b)
      <4>1. PICK n \in 1 .. Len(todo[b]) : i = todo[b][n]
        BY <3>2 DEF InTodo
      <4>2. Len(queue) + n \in 1 .. Len(q) /\ q[Len(queue) + n] = todo[b][n]
        BY <1>0, <2>1
      <4> QED
        BY <4>1, <4>2
    <3> QED
      BY <1>2, <3>1, <3>2
  <2>4. queue' = SubSeq(q, k + 1, Len(q))
        /\ \A j \in First(q, k) : j \in Ingests => step'[j] = "lookup"
    BY <1>2 DEF Enqueue
  <2> HIDE DEF q, k
  <2> QED
    BY <1>1, <2>1, <2>2, <2>3, <2>4
<1>3. ASSUME NEW j \in Ingests, Release(j), i \in Queued
      PROVE  i \in Queued' \/ step'[i] = "lookup"
  <2> DEFINE k == Startable(active - 1, queue)
  <2>1. k \in Nat /\ k <= Len(queue)
    BY <1>0, StartableBounds
  <2>2. queue' = SubSeq(queue, k + 1, Len(queue))
        /\ \A m \in First(queue, k) : m \in Ingests => step'[m] = "lookup"
    BY <1>3 DEF Release
  <2>3. \E n \in 1 .. Len(queue) : i = queue[n]
    BY <1>3 DEF Queued
  <2> HIDE DEF k
  <2> QED
    BY <1>0, <1>1, <2>1, <2>2, <2>3
<1>4. CASE \E b \in Batches : Enqueue(b) /\ i \in InTodo(b)
  BY <1>2, <1>4
<1>5. CASE i \in Queued
  <2>1. ASSUME UNCHANGED queue PROVE i \in Queued'
    BY <1>5, <2>1 DEF Queued
  <2> QED
    BY <1>2, <1>3, <1>5, <2>1, PoolMoves DEF Goto
<1> QED
  BY <1>4, <1>5

\* While nothing fails a waiting row stays where it is held.
LEMMA RunningHolds ==
  ASSUME PipelineInv, JobsHeld, [Next]_vars, ~Crash, server = "up",
         crashes <= 1, faults = 0, faults' = 0,
         NEW i \in Ingests, status'[i] = "queued"
  PROVE  \/ i \in Queued'
         \/ step'[i] \in {"lookup", "mark"}
         \/ req'[BatchOf[i]] = "enqueue" /\ i \in InTodo(BatchOf[i])'
<1>0. BatchOf[i] \in Batches /\ TypeOK /\ req \in [Batches -> ReqStep]
  BY PipelineAssumption DEF PipelineAssumption, PipelineInv, TypeOK
<1>1. CASE status[i] # "queued"
  <2>1. InsertRows(BatchOf[i]) /\ i \in InTodo(BatchOf[i])
    BY <1>1, StatusEffect DEF Terminal
  <2>2. req'[BatchOf[i]] = "enqueue"
    BY <1>0, <2>1 DEF InsertRows
  <2> QED
    BY <1>0, <2>1, <2>2, TodoGrows
<1>2. CASE i \in Queued
  BY <1>2, StillHeld
<1>3. CASE step[i] \in {"lookup", "mark"}
  <2>1. step'[i] = step[i] \/ Worker(i)
    BY <1>3, OwnWorker
  <2>2. ~WorkerThrows(i) /\ faults' # faults + 1
    BY DEF WorkerThrows
  <2>3. ~WorkerMark(i)
    BY <1>0 DEF WorkerMark, TypeOK
  <2>4. Worker(i) => step'[i] = "mark"
    BY <1>3, <2>2, <2>3, WorkerEffect
    DEF WorkerStart, WorkerSpawn, WorkerReap, WorkerTimeout, WorkerMarkError,
        WorkerVerify, WorkerForceError, WorkerHeal, WorkerFinish, WorkerSettle,
        WorkerAnnounce
  <2> QED
    BY <1>3, <2>1, <2>4
<1>4. CASE req[BatchOf[i]] = "enqueue" /\ i \in InTodo(BatchOf[i])
  <2>1. CASE Enqueue(BatchOf[i])
    BY <1>0, <1>4, <2>1, StillHeld
  <2>2. CASE ~Enqueue(BatchOf[i])
    <3>1. ASSUME NEW b \in Batches,
                 \/ BatchInsert(b) \/ UploadInsert(b) \/ ProbeLive(b) \/ ProbeInFlight(b)
                 \/ InsertRows(b) \/ Enqueue(b) \/ CompleteBatch(b) \/ RequestAnnounce(b)
                 \/ RequestThrows(b) \/ \E j \in Ingests : UploadLookup(b, j)
          PROVE  req'[BatchOf[i]] = "enqueue"
      <4>1. b # BatchOf[i]
        BY <1>4, <2>2, <3>1
        DEF BatchInsert, UploadInsert, ProbeLive, ProbeInFlight, InsertRows,
            CompleteBatch, RequestAnnounce, RequestThrows, UploadLookup
      <4>2. \E s : req' = [req EXCEPT ![b] = s]
        BY <3>1
        DEF BatchInsert, UploadInsert, ProbeLive, ProbeInFlight, InsertRows, Enqueue,
            CompleteBatch, RequestAnnounce, RequestThrows, UploadLookup, Suppress
      <4> QED
        BY <1>0, <1>4, <4>1, <4>2
    <3>2. req'[BatchOf[i]] = "enqueue"
      BY <1>4, <3>1, ChangesReq
    <3> QED
      BY <1>0, <1>4, <3>2, TodoGrows
  <2> QED
    BY <2>1, <2>2
<1> QED
  BY <1>1, <1>2, <1>3, <1>4 DEF JobsHeld

\* While the process recovers, nothing is inserted and no batch is completed.
LEMMA RecoveryHolds ==
  ASSUME PipelineInv, JobsHeld, [Next]_vars, ~Crash, server # "up",
         crashes <= 1, faults = 0, faults' = 0,
         NEW i \in Ingests, status'[i] = "queued"
  PROVE  /\ server' # "up"
         /\ server' = "boot" => batch'[BatchOf[i]] \in OpenBatch
         /\ server' # "boot" => BatchOf[i] \in stale'
<1>0. /\ BatchOf[i] \in Batches /\ TypeOK
      /\ \A j \in Ingests : step[j] = "idle"
      /\ \A b \in Batches : req[b] \in {"none", "closed"}
      /\ server \in {"boot", "fail_batches", "fail_ingests"}
  BY PipelineAssumption DEF PipelineAssumption, PipelineInv, TypeOK, DownIsQuiet
<1>1. status[i] = "queued"
  <2>1. ~InsertRows(BatchOf[i])
    BY <1>0 DEF InsertRows
  <2> QED
    BY <2>1, StatusEffect DEF Terminal
<1>2. ~RecoverThrows
  BY DEF RecoverThrows
<1>3. CASE server = "boot"
  <2>1. batch[BatchOf[i]] \in OpenBatch
    BY <1>1, <1>3 DEF JobsHeld
  <2>2. CASE RecoverScan
    <3>1. BatchOf[i] \in stale' /\ server' = "fail_batches"
      BY <1>0, <2>1, <2>2 DEF RecoverScan
    <3> QED
      BY <3>1
  <2>3. CASE ~RecoverScan
    <3>1. server' = "boot"
      BY <1>2, <1>3, <2>3, ChangesServer DEF RecoverBatches, RecoverIngests
    <3>2. batch'[BatchOf[i]] \in OpenBatch
      <4>1. \A j \in Files(BatchOf[i]) : step[j] = "idle"
        BY <1>0 DEF Files
      <4> QED
        BY <1>0, <1>3, <2>1, <4>1, BatchEffect DEF OpenBatch
    <3> QED
      BY <3>1, <3>2
  <2> QED
    BY <2>2, <2>3
<1>4. CASE server # "boot"
  <2>1. BatchOf[i] \in stale
    BY <1>0, <1>1, <1>4 DEF JobsHeld
  <2>2. ~RecoverIngests
    BY <1>1, <2>1 DEF RecoverIngests, InFlight
  <2>3. stale' = stale
    BY <1>2, <1>4, <2>2, ChangesStale DEF RecoverScan
  <2>4. server' \in {"fail_batches", "fail_ingests"}
    BY <1>0, <1>2, <1>4, <2>2, ChangesServer DEF RecoverScan, RecoverBatches
  <2> QED
    BY <2>1, <2>3, <2>4
<1> QED
  BY <1>3, <1>4

\* No step loses a job while no call fails and the process goes down once.
LEMMA JobsHeldStep ==
  ASSUME PipelineInv, JobsHeld, [Next]_vars PROVE JobsHeld'
<1>0. /\ TypeOK /\ batch \in [Batches -> BatchStatus]
      /\ \A i \in Ingests : BatchOf[i] \in Batches
  BY PipelineAssumption DEF PipelineAssumption, PipelineInv, TypeOK
<1>1. ASSUME NEW b \in Batches, req'[b] # "none" PROVE batch'[b] # "absent"
  <2>1. CASE req[b] # "none"
    BY <2>1, BatchEffect DEF JobsHeld
  <2>2. CASE req[b] = "none"
    <3>1. BatchInsert(b)
      BY <1>0, <1>1, <2>2, ReqEffect DEF CompleteBatch
    <3> QED
      BY <1>0, <3>1 DEF BatchInsert
  <2> QED
    BY <2>1, <2>2
<1>2. ASSUME crashes' = 0
      PROVE  server' = "up" /\ \A b \in Batches : batch'[b] # "failed"
  <2>1. ~Crash /\ server = "up" /\ \A b \in Batches : batch[b] # "failed"
    BY <1>0, <1>2, QuietPast DEF JobsHeld
  <2>2. server' = "up"
    BY <2>1, ChangesServer DEF RecoverScan, RecoverBatches, RecoverIngests, RecoverThrows
  <2> QED
    BY <2>1, <2>2, BatchEffect
<1>3. ASSUME faults' = 0, crashes' <= 1, NEW i \in Ingests, status'[i] = "queued"
      PROVE  CASE server' = "up"   -> \/ i \in Queued'
                                      \/ step'[i] \in {"lookup", "mark"}
                                      \/ /\ req'[BatchOf[i]] = "enqueue"
                                         /\ i \in InTodo(BatchOf[i])'
               [] server' = "boot" -> batch'[BatchOf[i]] \in OpenBatch
               [] OTHER            -> BatchOf[i] \in stale'
  <2>1. faults = 0 /\ crashes <= 1
    BY <1>0, <1>3, QuietPast
  <2>2. CASE Crash
    <3>1. server' = "boot" /\ batch' = batch /\ status' = status
      BY <2>2 DEF Crash, dbVars
    <3>2. crashes = 0
      BY <1>0, <1>3, <2>2, QuietPast
    <3>3. batch[BatchOf[i]] # "failed" /\ status[i] = "queued"
      BY <1>0, <1>3, <3>1, <3>2 DEF JobsHeld
    <3>4. batch[BatchOf[i]] # "extracted"
      BY <1>0, <3>3 DEF PipelineInv, ExtractedIsComplete, Files, Terminal
    <3>5. batch[BatchOf[i]] # "absent"
      <4>1. req[BatchOf[i]] # "none"
        BY <1>0, <3>3 DEF PipelineInv, RowsTogether, BeforeRows
      <4> QED
        BY <1>0, <4>1 DEF JobsHeld
    <3>6. batch[BatchOf[i]] \in OpenBatch
      BY <1>0, <3>3, <3>4, <3>5 DEF BatchStatus, OpenBatch
    <3> QED
      BY <3>1, <3>6
  <2>3. CASE ~Crash /\ server = "up"
    <3>1. server' = "up"
      BY <2>3, ChangesServer DEF RecoverScan, RecoverBatches, RecoverIngests, RecoverThrows
    <3> QED
      BY <1>3, <2>1, <2>3, <3>1, RunningHolds
  <2>4. CASE ~Crash /\ server # "up"
    BY <1>3, <2>1, <2>4, RecoveryHolds
  <2> QED
    BY <2>2, <2>3, <2>4
<1> QED
  BY <1>1, <1>2, <1>3 DEF JobsHeld

\* The process starts with nothing running, waiting, linked or written.
LEMMA FullInit == Init => FullInv
<1> SUFFICES ASSUME Init PROVE FullInv
  OBVIOUS
<1>1. PipelineInv
  BY InvInit
<1>2. /\ \A b \in Batches : batch[b] = "absent" /\ req[b] = "none" /\ suppressed[b] = {}
      /\ \A i \in Ingests : /\ status[i] = "absent" /\ step[i] = "idle"
                            /\ agent[i] = "off" /\ tx[i] = "none"
      /\ queue = <<>> /\ active = 0 /\ server = "up" /\ crashes = 0 /\ killed = {}
      /\ links = {}
  BY DEF Init
<1>3. PoolCount
  <2>1. Running = {}
    BY <1>2 DEF Running
  <2>2. IsFiniteSet(Running) /\ Cardinality(Running) = 0
    BY <2>1, FS_EmptySet
  <2>3. active <= MaxConcurrency
    BY <1>1 DEF PipelineInv, TypeOK
  <2> QED
    BY <1>2, <2>2, <2>3 DEF PoolCount, PoolSaturated, Running
<1>4. JobsHeld
  BY <1>2 DEF JobsHeld
<1>5. DedupWitnessed
  BY <1>2 DEF DedupWitnessed, DedupHasWitness
<1>6. AgentOwned /\ GuardsBite /\ InsertIsFirst
  BY <1>2 DEF AgentOwned, GuardsBite, InsertIsFirst, NoDoubleCount
<1> QED
  BY <1>1, <1>3, <1>4, <1>5, <1>6 DEF FullInv

\* Every step keeps the whole invariant.
LEMMA FullStep == FullInv /\ [Next]_vars => FullInv'
<1> SUFFICES ASSUME FullInv, [Next]_vars PROVE FullInv'
  OBVIOUS
<1>1. PipelineInv' /\ PoolCount' /\ JobsHeld' /\ DedupWitnessed'
  BY InvStep, PoolCountStep, JobsHeldStep, DedupWitnessedStep DEF FullInv
<1>2. AgentOwned' /\ GuardsBite' /\ InsertIsFirst'
  BY AgentOwnedStep, GuardsBiteStep, InsertIsFirstStep DEF FullInv
<1> QED
  BY <1>1, <1>2 DEF FullInv

\* The whole invariant holds in every reachable state of every instance.
THEOREM FullInvariant == Spec => []FullInv
  BY FullInit, FullStep, PTL DEF Spec

\* The pool is bounded and work conserving, through crashes, faults and late
\* agents: activeWorkers counts the workers that hold a slot, and a file waits
\* only while MAX_CLAUDE_CONCURRENCY of them do (worker.ts).
THEOREM PoolIsSaturated == Spec => []PoolSaturated
<1>1. FullInv => PoolSaturated
  BY DEF FullInv, PoolCount
<1> QED
  BY <1>1, FullInvariant, PTL

\* A row born dedup always leaves another row of the same bytes that was put up
\* for extraction, whatever two requests that race on those bytes read, and
\* whatever is lost in a crash (createBatchFromFiles).
THEOREM DuplicatesHaveWitness == Spec => []DedupHasWitness
<1>1. FullInv => DedupHasWitness
  BY DEF FullInv, DedupWitnessed
<1> QED
  BY <1>1, FullInvariant, PTL

\* As long as no database call fails, no waiting row of a running server is lost
\* by the queue, the pool or the boot scan, whose three statements may be cut by
\* no second crash (worker.ts, recoverStaleBatches).
THEOREM WaitingJobsAreHeld ==
  Spec => [](faults = 0 /\ crashes <= 1 => NoJobLost)
<1>1. FullInv => (faults = 0 /\ crashes <= 1 => NoJobLost)
  BY DEF FullInv, JobsHeld, NoJobLost, Queued
<1> QED
  BY <1>1, FullInvariant, PTL

\* The worker's guard against a receipt reported done without a transaction
\* (#125, #133) lets none pass, in a process that stays up and whose calls
\* succeed, when an agent is gone once it is killed and claims no transaction it
\* did not write.
THEOREM DoneRowsAreBacked ==
  Spec => [](~LateAgents /\ "invents" \notin Misbehaviours /\ crashes = 0 /\ faults = 0
               => DoneIsBacked)
<1>1. FullInv => (~LateAgents /\ "invents" \notin Misbehaviours /\ crashes = 0 /\ faults = 0
                    => DoneIsBacked)
  <2>1. \A i \in Ingests : step[i] = "idle" => ~Unchecked(i)
    BY DEF Unchecked
  <2> QED
    BY <2>1 DEF FullInv, GuardsBite, DoneIsBacked
<1> QED
  BY <1>1, FullInvariant, PTL

\* The worker's guard on near_dup (#134) lets no row pass whose document is not
\* linked to what it names, under the same conditions, whatever else the agent
\* does wrong.
THEOREM NearDupRowsAreLinked ==
  Spec => [](~LateAgents /\ crashes = 0 /\ faults = 0 => NearDupIsLinked)
<1>1. FullInv => (~LateAgents /\ crashes = 0 /\ faults = 0 => NearDupIsLinked)
  BY DEF FullInv, GuardsBite, NearDupIsLinked, Unchecked
<1> QED
  BY <1>1, FullInvariant, PTL

\* One worker whose agents end with it never books one money event twice,
\* through crashes and failing calls: the read for near-duplicates and the
\* insert are not one database transaction, and only the serial pool keeps a
\* second document from being read in between (#225).
THEOREM OneWorkerNoDoubleCount ==
  Spec => [](MaxConcurrency = 1 /\ ~LateAgents /\ ~LedgerEdits => NoDoubleCount)
<1>1. FullInv => (MaxConcurrency = 1 /\ ~LateAgents /\ ~LedgerEdits => NoDoubleCount)
  BY DEF FullInv, InsertIsFirst
<1> QED
  BY <1>1, FullInvariant, PTL
=============================================================================
