----------------------------- MODULE PlacesProofs -----------------------------
(***************************************************************************)
(* What is proved of the place cache: for any set of names and answers and *)
(* any number of requests and agents, layer 2 follows the stored body, a   *)
(* name and its source change together, and a name read by OCR is lost     *)
(* only to one who looked before it was there.                             *)
(*                                                                         *)
(* No lock orders the writers, so the argument is about what is in flight: *)
(* a refresh that has stored its body and not yet projected it is on the   *)
(* list of jobs until it ends one way or the other, and a name that waits  *)
(* in a request or in an agent is as well sourced as one in the row.       *)
(***************************************************************************)
EXTENDS Places, TLAPS

JobRow == [at : {"idle", "fetch", "store", "read", "write"},
           raw : Bodies \cup {None}, before : Columns, stored : BOOLEAN]

AgentRow == [at : {"idle", "upsert", "snapshot", "dead"},
             raw : Bodies, cols : Columns, cached : BOOLEAN]

\* A name with the source it has.
Sourced(name) ==
  /\ name.src = None <=> name.zh = None
  /\ name.src = "google_text" => name.zh \in ZhNames \cup {Tagged}
  /\ name.src = "photo_ocr" => name.zh = Sign
  /\ name.src = "receipt_ocr" => name.zh = Letterhead

\* Layer 1, once there, stays; so a job that has begun finds the row, and
\* one that has stored a body finds a body.
JobFits(x) ==
  /\ x.at # "idle" => Known
  /\ x.at = "store" => x.raw # None
  /\ x.stored => x.at \in {"read", "write"} /\ Known /\ place.raw # None
  /\ Sourced(x.before.name)

\* An agent's columns are those of its body; one that found the row has
\* no name, or the receipt's.
AgentFits(x) ==
  /\ x.cols.en = x.raw.en
  /\ x.cached => x.cols.name = Unnamed \/ FromOcr(x.cols)
  /\ Sourced(x.cols.name)

\* The row's name is sourced, and a script that has begun has found the row.
RowFits ==
  /\ Known => Sourced(place.cols.name)
  /\ script.at # "idle" => Known

\* TypeOK, its parts one by one.
Typed ==
  /\ place \in Row \cup {None}
  /\ snapshots \subseteq Bodies
  /\ job \in [Jobs -> JobRow]
  /\ \A j \in Jobs : job[j].at = "write" => job[j].raw # None
  /\ agent \in [Agents -> AgentRow]
  /\ script \in [at : {"idle", "photo", "languages"}, raw : Bodies \cup {None}]
  /\ served \in 0 .. MaxRequests
  /\ skewed \in BOOLEAN

PlacesInv ==
  /\ Typed
  /\ \A j \in Jobs : JobFits(job[j])
  /\ \A a \in Agents : AgentFits(agent[a])
  /\ RowFits
  /\ LayerTwoFollowsRaw

----------------------------------------------------------------------------
(* The operators.                                                          *)

\* The empty values are of the types of the full ones.
LEMMA EmptyTypes ==
  /\ Bare \in Bodies /\ Unnamed \in Chinese /\ Absent \in Row /\ Absent.cols \in Columns
  /\ Quiet \in JobRow /\ Idle \in AgentRow
  /\ Sourced(Unnamed)
PROOF
  BY NullAssumption
     DEF Bare, Bodies, Unnamed, Chinese, Absent, Row, Columns, Quiet, JobRow, Idle,
         AgentRow, Sourced

\* NULL is none of the records and none of the names (NullAssumption and
\* PlacesAssumption, in the form the proofs use).
LEMMA NullIsApart ==
  /\ \A r \in Row : r # None
  /\ \A b \in Bodies : b # None
  /\ None \notin ZhNames \cup {Tagged, Sign, Letterhead}
  /\ None \notin {"google_text", "photo_ocr", "receipt_ocr"}
PROOF
  BY NullAssumption, PlacesAssumption

\* projectPlace gives columns of the row's types, with Google as the source
\* of every name it gives.
LEMMA ProjectionFits ==
  ASSUME NEW body \in Bodies
  PROVE  /\ ProjectPlace(body) \in Columns
         /\ ProjectPlace(body).en = body.en
         /\ Sourced(ProjectPlace(body).name)
PROOF
  <1>1. GoogleName(body) \in Chinese
    <2>1. IsNative(body) \in BOOLEAN
      BY DEF IsNative
    <2>. QED
      BY <2>1 DEF GoogleName, Chinese, Unnamed
  <1>2. Sourced(GoogleName(body))
    BY NullIsApart, EmptyTypes DEF GoogleName, Sourced
  <1>. QED
    BY <1>1, <1>2 DEF ProjectPlace, Columns, Bodies

\* A re-derive writes the body's English columns, and a name that is sourced
\* when the one it read was; a name read by OCR it writes back.
LEMMA DerivedFits ==
  ASSUME NEW body \in Bodies, NEW before \in Columns, Sourced(before.name)
  PROVE  /\ Derived(before, body) \in Columns
         /\ Derived(before, body).en = body.en
         /\ Sourced(Derived(before, body).name)
         /\ FromOcr(before) => FromOcr(Derived(before, body))
PROOF
  <1>. DEFINE p == ProjectPlace(body)
  <1>1. p \in Columns /\ p.en = body.en /\ Sourced(p.name)
    BY ProjectionFits
  <1>. HIDE DEF p
  <1>2. CASE FromOcr(before)
    <2>1. Derived(before, body) = [p EXCEPT !.name = before.name]
      BY <1>2 DEF Derived, p
    <2>2. /\ [p EXCEPT !.name = before.name] \in Columns
          /\ [p EXCEPT !.name = before.name].en = p.en
          /\ [p EXCEPT !.name = before.name].name = before.name
      BY <1>1 DEF Columns
    <2>. QED
      BY <1>1, <1>2, <2>1, <2>2 DEF FromOcr
  <1>3. CASE ~ FromOcr(before)
    BY <1>1, <1>3 DEF Derived, p
  <1>. QED
    BY <1>2, <1>3

\* The upsert's COALESCEs: of two names, each with its source, the result is
\* one of them whole, but for the flag; an agent without a name changes none.
LEMMA MergeFits ==
  ASSUME NEW new \in Columns, NEW old \in Columns, Sourced(new.name), Sourced(old.name)
  PROVE  /\ Merge(new, old) \in Columns
         /\ new.en # None => Merge(new, old).en = new.en
         /\ Sourced(Merge(new, old).name)
         /\ new.name = Unnamed => Merge(new, old).name.src = old.name.src
         /\ FromOcr(new) => FromOcr(Merge(new, old))
PROOF
  <1>1. Merge(new, old).name \in Chinese
    BY DEF Merge, Coalesce, Columns, Chinese
  <1>2. Merge(new, old).en \in EnNames \cup {None}
    BY DEF Merge, Coalesce, Columns
  <1>3. Merge(new, old) \in Columns
    BY <1>1, <1>2 DEF Merge, Columns
  <1>4. Sourced(Merge(new, old).name)
    BY DEF Merge, Coalesce, Sourced
  <1>5. FromOcr(new) => FromOcr(Merge(new, old))
    BY NullIsApart DEF FromOcr, OcrSources, Merge, Coalesce
  <1>. QED
    BY <1>3, <1>4, <1>5 DEF Merge, Coalesce, Unnamed

\* What Phases 3c to 3e find is a name with its source.
LEMMA FoundFits ==
  ASSUME NEW body \in Bodies, NEW f \in Found(body) \cup {Unnamed, OnReceipt}
  PROVE  f \in Chinese /\ Sourced(f)
PROOF
  <1>1. GoogleName(body) \in Chinese /\ Sourced(GoogleName(body))
    BY ProjectionFits DEF ProjectPlace, Columns
  <1>2. Unnamed \in Chinese /\ Sourced(Unnamed)
    BY EmptyTypes
  <1>3. \A n \in {[zh |-> Sign, src |-> "photo_ocr", native |-> TRUE], OnReceipt} :
          n \in Chinese /\ Sourced(n)
    <2>1. [zh |-> Sign, src |-> "photo_ocr", native |-> TRUE] \in Chinese
      BY DEF Chinese
    <2>2. OnReceipt \in Chinese
      BY DEF Chinese, OnReceipt
    <2>3. Sourced([zh |-> Sign, src |-> "photo_ocr", native |-> TRUE])
      BY NullIsApart DEF Sourced
    <2>4. Sourced(OnReceipt)
      BY NullIsApart DEF Sourced, OnReceipt
    <2>. QED
      BY <2>1, <2>2, <2>3, <2>4
  <1>4. CASE body.zh \in ZhNames
    BY <1>1, <1>2, <1>3, <1>4 DEF Found
  <1>5. CASE body.zh \notin ZhNames
    <2>1. Found(body) = {Unnamed} \cup
            {[zh |-> Sign, src |-> "photo_ocr", native |-> TRUE], OnReceipt}
      BY <1>5 DEF Found
    <2>. QED
      BY <1>2, <1>3, <2>1
  <1>. QED
    BY <1>2, <1>3, <1>4, <1>5

----------------------------------------------------------------------------
(* The steps.                                                              *)

\* A cache that nobody has used.
LEMMA InitInv == Init => PlacesInv
PROOF
  <1>. SUFFICES ASSUME Init PROVE PlacesInv
    OBVIOUS
  <1>1. Typed
    <2>1. job \in [Jobs -> JobRow] /\ agent \in [Agents -> AgentRow]
      BY EmptyTypes DEF Init
    <2>2. \A j \in Jobs : job[j].at = "write" => job[j].raw # None
      BY DEF Init, Quiet
    <2>3. served \in 0 .. MaxRequests
      BY PlacesAssumption DEF Init
    <2>. QED
      BY <2>1, <2>2, <2>3, EmptyTypes DEF Init, Typed
  <1>2. \A j \in Jobs : JobFits(job[j])
    BY EmptyTypes DEF Init, JobFits, Quiet, Absent
  <1>3. \A a \in Agents : AgentFits(agent[a])
    BY EmptyTypes DEF Init, AgentFits, Idle, Absent, Bare
  <1>4. RowFits /\ LayerTwoFollowsRaw
    BY EmptyTypes DEF Init, RowFits, LayerTwoFollowsRaw, Known, Absent
  <1>. QED
    BY <1>1, <1>2, <1>3, <1>4 DEF PlacesInv

\* The rules have to be checked only where a step changes something: of a
\* row that is still there with a body where it had one, the jobs and agents
\* that did not move fit as before.
LEMMA JobsStillFit ==
  ASSUME PlacesInv, NEW j \in Jobs, job'[j] = job[j],
         Known => Known',
         Known /\ place.raw # None => place'.raw # None
  PROVE  JobFits(job[j])'
PROOF
  BY DEF PlacesInv, JobFits, Known

\* An agent that did not move holds what it held, whatever the row is now.
LEMMA AgentsStillFit ==
  ASSUME PlacesInv, NEW a \in Agents, agent'[a] = agent[a]
  PROVE  AgentFits(agent[a])'
PROOF
  BY DEF PlacesInv, AgentFits

\* A job that moves to s, the row still there: every rule for the jobs.
LEMMA JobMoves ==
  ASSUME PlacesInv, NEW j \in Jobs, NEW s \in JobRow, Go(j, s),
         Known => Known',
         Known /\ place.raw # None => place'.raw # None,
         JobFits(s)', s.at = "write" => s.raw # None
  PROVE  /\ job' \in [Jobs -> JobRow]
         /\ \A i \in Jobs : job'[i].at = "write" => job'[i].raw # None
         /\ \A i \in Jobs : JobFits(job[i])'
         /\ job'[j] = s
         /\ \A i \in Jobs \ {j} : job'[i] = job[i]
PROOF
  <1>1. job \in [Jobs -> JobRow]
    BY DEF PlacesInv, Typed
  <1>2. job' = [job EXCEPT ![j] = s]
    BY DEF Go
  <1>3. job'[j] = s /\ \A i \in Jobs \ {j} : job'[i] = job[i]
    BY <1>1, <1>2
  <1>4. \A i \in Jobs : JobFits(job[i])'
    <2>. SUFFICES ASSUME NEW i \in Jobs PROVE JobFits(job[i])'
      OBVIOUS
    <2>1. CASE i = j
      BY <1>3, <2>1 DEF JobFits
    <2>2. CASE i # j
      BY <1>3, <2>2, JobsStillFit
    <2>. QED
      BY <2>1, <2>2
  <1>. QED
    BY <1>1, <1>2, <1>3, <1>4 DEF PlacesInv, Typed

\* An agent that moves to s: every rule for the agents.
LEMMA AgentMoves ==
  ASSUME PlacesInv, NEW a \in Agents, NEW s \in AgentRow, Turn(a, s), AgentFits(s)
  PROVE  /\ agent' \in [Agents -> AgentRow]
         /\ \A b \in Agents : AgentFits(agent[b])'
         /\ agent'[a] = s
         /\ \A b \in Agents \ {a} : agent'[b] = agent[b]
PROOF
  <1>1. agent \in [Agents -> AgentRow]
    BY DEF PlacesInv, Typed
  <1>2. agent'[a] = s /\ \A b \in Agents \ {a} : agent'[b] = agent[b]
    BY <1>1 DEF Turn
  <1>3. \A b \in Agents : AgentFits(agent[b])'
    <2>. SUFFICES ASSUME NEW b \in Agents PROVE AgentFits(agent[b])'
      OBVIOUS
    <2>1. CASE b = a
      BY <1>2, <2>1 DEF AgentFits
    <2>2. CASE b # a
      BY <1>2, <2>2, AgentsStillFit
    <2>. QED
      BY <2>1, <2>2
  <1>. QED
    BY <1>1, <1>2, <1>3 DEF Turn

\* The same when no job moves.
LEMMA JobsRest ==
  ASSUME PlacesInv, UNCHANGED job, Known => Known',
         Known /\ place.raw # None => place'.raw # None
  PROVE  /\ job' \in [Jobs -> JobRow]
         /\ \A i \in Jobs : job'[i].at = "write" => job'[i].raw # None
         /\ \A i \in Jobs : JobFits(job[i])'
PROOF
  BY JobsStillFit DEF PlacesInv, Typed

\* ... and no agent.
LEMMA AgentsRest ==
  ASSUME PlacesInv, UNCHANGED agent
  PROVE  agent' \in [Agents -> AgentRow] /\ \A b \in Agents : AgentFits(agent[b])'
PROOF
  BY AgentsStillFit DEF PlacesInv, Typed

\* A step that leaves the row and `skewed' alone, and every job that has
\* stored its body as it was, leaves layer 2 as far behind as it was.
LEMMA LayerTwoRests ==
  ASSUME LayerTwoFollowsRaw, UNCHANGED <<place, skewed>>,
         \A i \in Jobs : job[i].stored => job'[i].stored
  PROVE  LayerTwoFollowsRaw'
PROOF
  BY DEF LayerTwoFollowsRaw, Known

\* PATCH /v1/places/:id and the calls to Google of a refresh or a re-derive
\* leave both layers alone.
LEMMA RequestBegins ==
  ASSUME PlacesInv, NEW j \in Jobs,
         UpdatePlace(j) \/ StartReDerive(j) \/ StartRefresh(j) \/ FetchPlace(j)
  PROVE  PlacesInv'
PROOF
  <1>. USE NullIsApart
  <1>t. Typed /\ JobFits(job[j]) /\ job[j] \in JobRow
    BY DEF PlacesInv, Typed
  <1>1. CASE UpdatePlace(j)
    <2>1. PICK c \in BOOLEAN : place' = [place EXCEPT !.custom = c]
      BY <1>1 DEF UpdatePlace
    <2>2. /\ place' \in Row /\ place \in Row
          /\ place'.cols = place.cols /\ place'.raw = place.raw
      BY <1>1, <1>t, <2>1 DEF UpdatePlace, Known, Typed, Row
    <2>3. served' \in 0 .. MaxRequests
      BY <1>1, <1>t, PlacesAssumption DEF UpdatePlace, Serve, Typed
    <2>4. UNCHANGED <<job, agent, script, snapshots, skewed>>
      BY <1>1 DEF UpdatePlace, Others
    <2>5. Typed'
      BY <1>t, <2>2, <2>3, <2>4 DEF Typed
    <2>6. \A i \in Jobs : JobFits(job[i])'
      BY <2>2, <2>4, JobsRest DEF Known
    <2>7. \A b \in Agents : AgentFits(agent[b])'
      BY <2>4, AgentsRest
    <2>8. RowFits' /\ LayerTwoFollowsRaw'
      BY <2>2, <2>4 DEF PlacesInv, RowFits, LayerTwoFollowsRaw, Known
    <2>. QED
      BY <2>5, <2>6, <2>7, <2>8 DEF PlacesInv
  <1>2. ASSUME NEW s \in JobRow, Go(j, s), Known,
               s.at # "write", s.at = "store" => s.raw # None,
               ~ s.stored, ~ job[j].stored, Sourced(s.before.name),
               UNCHANGED <<place, snapshots, agent, script, skewed>>,
               served' \in 0 .. MaxRequests
        PROVE  PlacesInv'
    <2>1. JobFits(s)'
      BY <1>2 DEF JobFits, Known
    <2>2. /\ job' \in [Jobs -> JobRow]
          /\ \A i \in Jobs : job'[i].at = "write" => job'[i].raw # None
          /\ \A i \in Jobs : JobFits(job[i])'
          /\ \A i \in Jobs \ {j} : job'[i] = job[i]
      BY <1>2, <2>1, JobMoves DEF Known
    <2>3. Typed'
      BY <1>t, <1>2, <2>2 DEF Typed
    <2>4. \A b \in Agents : AgentFits(agent[b])'
      BY <1>2, AgentsRest
    <2>5. LayerTwoFollowsRaw'
      BY <1>2, <2>2, LayerTwoRests DEF PlacesInv
    <2>6. RowFits'
      BY <1>2 DEF PlacesInv, RowFits, Known
    <2>. QED
      BY <2>2, <2>3, <2>4, <2>5, <2>6 DEF PlacesInv
  <1>3. ASSUME NEW at \in {"read", "fetch"}, Begin(j, at),
               UNCHANGED <<place, snapshots, agent, script, skewed>>
        PROVE  PlacesInv'
    <2>1. [Quiet EXCEPT !.at = at] \in JobRow
      BY EmptyTypes DEF JobRow
    <2>2. served' \in 0 .. MaxRequests
      BY <1>3, <1>t, PlacesAssumption DEF Begin, Serve, Typed
    <2>3. /\ Known /\ Go(j, [Quiet EXCEPT !.at = at])
          /\ ~ job[j].stored /\ Sourced(Quiet.before.name)
      BY <1>3, <1>t DEF Begin, JobFits, Quiet
    <2>. QED
      BY <1>2, <1>3, <2>1, <2>2, <2>3 DEF Quiet
  <1>4. CASE FetchPlace(j)
    <2>1. PICK b \in Answers : Go(j, [job[j] EXCEPT !.at = "store", !.raw = b])
      BY <1>4 DEF FetchPlace
    <2>2. b \in Bodies
      BY PlacesAssumption
    <2>3. [job[j] EXCEPT !.at = "store", !.raw = b] \in JobRow
      BY <1>t, <2>2 DEF JobRow
    <2>4. served' \in 0 .. MaxRequests
      BY <1>4, <1>t DEF FetchPlace, Typed
    <2>5. /\ job[j].at = "fetch" /\ Known /\ ~ job[j].stored
          /\ Sourced(job[j].before.name)
      BY <1>4, <1>t DEF FetchPlace, JobFits, JobRow
    <2>6. UNCHANGED <<place, snapshots, agent, script, skewed>>
      BY <1>4 DEF FetchPlace, Others
    <2>7. /\ [job[j] EXCEPT !.at = "store", !.raw = b].at = "store"
          /\ [job[j] EXCEPT !.at = "store", !.raw = b].raw = b
          /\ [job[j] EXCEPT !.at = "store", !.raw = b].stored = job[j].stored
          /\ [job[j] EXCEPT !.at = "store", !.raw = b].before = job[j].before
      BY <1>t DEF JobRow
    <2>. QED
      BY <1>2, <2>1, <2>2, <2>3, <2>4, <2>5, <2>6, <2>7
  <1>. QED
    BY <1>1, <1>3, <1>4 DEF StartReDerive, StartRefresh, Others

\* A row with other columns, or with another body, is a row.
LEMMA RowChanges ==
  ASSUME Typed, Known
  PROVE  /\ place \in Row /\ place.cols \in Columns
         /\ \A b \in Bodies :
              /\ [place EXCEPT !.raw = b] \in Row
              /\ [place EXCEPT !.raw = b].raw = b
              /\ [place EXCEPT !.raw = b].cols = place.cols
         /\ \A c \in Columns :
              /\ [place EXCEPT !.cols = c] \in Row
              /\ [place EXCEPT !.cols = c].raw = place.raw
              /\ [place EXCEPT !.cols = c].cols = c
         /\ \A b \in Bodies, c \in Columns :
              /\ [place EXCEPT !.raw = b, !.cols = c] \in Row
              /\ [place EXCEPT !.raw = b, !.cols = c].raw = b
              /\ [place EXCEPT !.raw = b, !.cols = c].cols = c
PROOF
  BY DEF Typed, Known, Row

\* A refresh stores its body: from here on layer 2 may be behind, and the
\* job is on record as the reason.
LEMMA StoreRawStep ==
  ASSUME PlacesInv, NEW j \in Jobs, StoreRaw(j)
  PROVE  PlacesInv'
PROOF
  <1>. USE NullIsApart
  <1>t. Typed /\ JobFits(job[j]) /\ job[j] \in JobRow
    BY DEF PlacesInv, Typed
  <1>. DEFINE s == [Quiet EXCEPT !.at = "read", !.stored = TRUE]
  <1>1. s \in JobRow /\ s.at = "read" /\ s.stored /\ s.before = Absent.cols
    BY EmptyTypes DEF JobRow, Quiet
  <1>2. Known /\ job[j].raw \in Bodies
    BY <1>t DEF StoreRaw, JobFits, JobRow
  <1>3. place' \in Row /\ place'.raw = job[j].raw /\ place'.cols = place.cols
    BY <1>t, <1>2, RowChanges DEF StoreRaw
  <1>4. JobFits(s)'
    BY <1>1, <1>2, <1>3, EmptyTypes DEF JobFits, Known, Absent
  <1>5. Go(j, s) /\ UNCHANGED <<agent, script, served, skewed>>
    BY DEF StoreRaw, Others
  <1>. HIDE DEF s
  <1>6. /\ job' \in [Jobs -> JobRow]
        /\ \A i \in Jobs : job'[i].at = "write" => job'[i].raw # None
        /\ \A i \in Jobs : JobFits(job[i])'
        /\ job'[j] = s
    BY <1>1, <1>2, <1>3, <1>4, <1>5, JobMoves DEF Known
  <1>7. snapshots' \subseteq Bodies
    BY <1>t, <1>2 DEF StoreRaw, Typed
  <1>8. Typed'
    BY <1>t, <1>3, <1>5, <1>6, <1>7 DEF Typed
  <1>9. \A b \in Agents : AgentFits(agent[b])'
    BY <1>5, AgentsRest
  <1>10. RowFits'
    BY <1>2, <1>3 DEF PlacesInv, RowFits, Known
  <1>11. LayerTwoFollowsRaw'
    BY <1>1, <1>6 DEF LayerTwoFollowsRaw
  <1>. QED
    BY <1>6, <1>8, <1>9, <1>10, <1>11 DEF PlacesInv

\* A re-derive reads the row: what it will project, and the columns that say
\* whether the name was read by OCR.  A job that has stored a body finds one.
LEMMA ReadRowStep ==
  ASSUME PlacesInv, NEW j \in Jobs, ReadRow(j)
  PROVE  PlacesInv'
PROOF
  <1>. USE NullIsApart
  <1>t. /\ Typed /\ JobFits(job[j]) /\ job[j] \in JobRow
        /\ UNCHANGED <<place, snapshots, agent, script, served, skewed>>
        /\ job[j].at = "read" /\ Known
    BY DEF PlacesInv, Typed, ReadRow, Others, JobFits
  <1>r. place \in Row /\ place.cols \in Columns /\ place.raw \in Bodies \cup {None}
    BY <1>t, RowChanges DEF Row
  <1>1. ASSUME NEW s \in JobRow, Go(j, s), JobFits(s), s.at = "write" => s.raw # None,
               job[j].stored => s.stored
        PROVE  PlacesInv'
    <2>1. JobFits(s)'
      BY <1>t, <1>1 DEF JobFits, Known
    <2>2. /\ job' \in [Jobs -> JobRow]
          /\ \A i \in Jobs : job'[i].at = "write" => job'[i].raw # None
          /\ \A i \in Jobs : JobFits(job[i])'
          /\ job'[j] = s /\ \A i \in Jobs \ {j} : job'[i] = job[i]
      BY <1>t, <1>1, <2>1, JobMoves DEF Known
    <2>3. Typed'
      BY <1>t, <2>2 DEF Typed
    <2>4. \A b \in Agents : AgentFits(agent[b])'
      BY <1>t, AgentsRest
    <2>5. LayerTwoFollowsRaw'
      BY <1>t, <1>1, <2>2, LayerTwoRests DEF PlacesInv
    <2>6. RowFits'
      BY <1>t DEF PlacesInv, RowFits, Known
    <2>. QED
      BY <2>2, <2>3, <2>4, <2>5, <2>6 DEF PlacesInv
  <1>2. CASE place.raw = None /\ Go(j, Quiet)
    <2>1. JobFits(Quiet) /\ Quiet \in JobRow /\ Quiet.at = "idle" /\ ~ job[j].stored
      BY <1>t, <1>2, EmptyTypes DEF JobFits, Quiet, Absent
    <2>. QED
      BY <1>1, <1>2, <2>1
  <1>3. CASE /\ place.raw # None
             /\ Go(j, [job[j] EXCEPT !.at = "write", !.raw = place.raw,
                                     !.before = place.cols])
    <2>. DEFINE s == [job[j] EXCEPT !.at = "write", !.raw = place.raw,
                                    !.before = place.cols]
    <2>1. /\ s \in JobRow /\ s.at = "write" /\ s.raw = place.raw
          /\ s.before = place.cols /\ s.stored = job[j].stored
      BY <1>t, <1>r DEF JobRow
    <2>2. JobFits(s)
      BY <1>t, <1>3, <2>1 DEF JobFits, PlacesInv, RowFits
    <2>. QED
      BY <1>1, <1>3, <2>1, <2>2
  <1>. QED
    BY <1>2, <1>3 DEF ReadRow

\* A re-derive writes its columns: they show the body it read, so they are
\* behind exactly when another has been stored since.
LEMMA WriteDerivedStep ==
  ASSUME PlacesInv, NEW j \in Jobs, WriteDerived(j)
  PROVE  PlacesInv'
PROOF
  <1>. USE NullIsApart
  <1>t. /\ Typed /\ JobFits(job[j]) /\ job[j] \in JobRow
        /\ UNCHANGED <<snapshots, agent, script, served>>
        /\ job[j].at = "write" /\ job[j].raw # None
    BY DEF PlacesInv, Typed, WriteDerived, Others
  <1>1. /\ job[j].raw \in Bodies /\ job[j].before \in Columns
        /\ Sourced(job[j].before.name) /\ Known
    BY <1>t DEF JobRow, JobFits
  <1>. DEFINE c == Derived(job[j].before, job[j].raw)
  <1>2. c \in Columns /\ c.en = job[j].raw.en /\ Sourced(c.name)
    BY <1>1, DerivedFits
  <1>3. place' \in Row /\ place'.raw = place.raw /\ place'.cols = c
    <2>1. place' = [place EXCEPT !.cols = c]
      BY DEF WriteDerived
    <2>. QED
      BY <1>t, <1>1, <1>2, <2>1, RowChanges
  <1>4. skewed' = (place.raw # job[j].raw) /\ Go(j, Quiet)
    BY DEF WriteDerived
  <1>. HIDE DEF c
  <1>5. Quiet \in JobRow /\ JobFits(Quiet)' /\ Quiet.at = "idle"
    BY EmptyTypes DEF JobFits, Quiet, Absent
  <1>6. /\ job' \in [Jobs -> JobRow]
        /\ \A i \in Jobs : job'[i].at = "write" => job'[i].raw # None
        /\ \A i \in Jobs : JobFits(job[i])'
    BY <1>1, <1>3, <1>4, <1>5, JobMoves DEF Known
  <1>7. Typed'
    BY <1>t, <1>3, <1>4, <1>6 DEF Typed
  <1>8. \A b \in Agents : AgentFits(agent[b])'
    BY <1>t, AgentsRest
  <1>9. RowFits'
    BY <1>2, <1>3 DEF RowFits, Known
  <1>10. LayerTwoFollowsRaw'
    BY <1>2, <1>3, <1>4 DEF LayerTwoFollowsRaw
  <1>. QED
    BY <1>6, <1>7, <1>8, <1>9, <1>10 DEF PlacesInv

\* A job that stops between its body and its columns leaves layer 2 behind,
\* and `skewed' says so.
LEMMA AbortStep ==
  ASSUME PlacesInv, NEW j \in Jobs, Abort(j)
  PROVE  PlacesInv'
PROOF
  <1>. USE NullIsApart
  <1>t. /\ Typed /\ job[j] \in JobRow
        /\ UNCHANGED <<place, snapshots, agent, script, served>>
        /\ skewed' = (skewed \/ job[j].stored) /\ Go(j, Quiet)
    BY DEF PlacesInv, Typed, Abort, Others
  <1>1. Quiet \in JobRow /\ JobFits(Quiet)' /\ Quiet.at = "idle"
    BY EmptyTypes DEF JobFits, Quiet, Absent
  <1>2. /\ job' \in [Jobs -> JobRow]
        /\ \A i \in Jobs : job'[i].at = "write" => job'[i].raw # None
        /\ \A i \in Jobs : JobFits(job[i])'
        /\ \A i \in Jobs \ {j} : job'[i] = job[i]
    BY <1>t, <1>1, JobMoves DEF Known
  <1>3. skewed' \in BOOLEAN
    BY <1>t, Zenon DEF Typed, JobRow
  <1>4. Typed'
    BY <1>t, <1>2, <1>3 DEF Typed
  <1>5. \A b \in Agents : AgentFits(agent[b])'
    BY <1>t, AgentsRest
  <1>6. RowFits'
    BY <1>t DEF PlacesInv, RowFits, Known
  <1>7. LayerTwoFollowsRaw'
    BY <1>t, <1>2 DEF PlacesInv, LayerTwoFollowsRaw, Known
  <1>. QED
    BY <1>2, <1>4, <1>5, <1>6, <1>7 DEF PlacesInv

\* Phase 3 finds the row, and has nothing but its geocoding answer to write;
\* or finds none, and has Google's columns and a name with its source.
LEMMA AgentLooksStep ==
  ASSUME PlacesInv, NEW a \in Agents, AgentLooks(a)
  PROVE  PlacesInv'
PROOF
  <1>. USE NullIsApart
  <1>t. /\ Typed /\ UNCHANGED <<place, snapshots, job, script, skewed>>
        /\ served' \in 0 .. MaxRequests
    <2>1. Typed /\ Serve
      BY DEF PlacesInv, AgentLooks
    <2>2. served' \in 0 .. MaxRequests
      BY <2>1, PlacesAssumption DEF Serve, Typed
    <2>. QED
      BY <2>1, <2>2 DEF AgentLooks
  <1>1. ASSUME NEW s \in AgentRow, Turn(a, s), AgentFits(s)
        PROVE  PlacesInv'
    <2>1. agent' \in [Agents -> AgentRow] /\ \A b \in Agents : AgentFits(agent[b])'
      BY <1>1, AgentMoves
    <2>2. /\ job' \in [Jobs -> JobRow]
          /\ \A i \in Jobs : job'[i].at = "write" => job'[i].raw # None
          /\ \A i \in Jobs : JobFits(job[i])'
      BY <1>t, JobsRest DEF Known
    <2>3. Typed'
      BY <1>t, <2>1, <2>2 DEF Typed
    <2>4. RowFits' /\ LayerTwoFollowsRaw'
      BY <1>t, LayerTwoRests DEF PlacesInv, RowFits, Known
    <2>. QED
      BY <2>1, <2>2, <2>3, <2>4 DEF PlacesInv
  <1>2. ASSUME NEW f \in {Unnamed, OnReceipt},
               Turn(a, [Idle EXCEPT !.at = "upsert", !.cached = TRUE,
                                    !.cols = [en |-> None, name |-> f]])
        PROVE  PlacesInv'
    <2>. DEFINE s == [Idle EXCEPT !.at = "upsert", !.cached = TRUE,
                                  !.cols = [en |-> None, name |-> f]]
    <2>1. Bare \in Bodies /\ f \in Chinese /\ Sourced(f)
      BY EmptyTypes, FoundFits
    <2>2. [en |-> None, name |-> f] \in Columns
      BY <2>1 DEF Columns
    <2>3. s \in AgentRow
      BY <2>2, EmptyTypes DEF AgentRow
    <2>4. s.cols = [en |-> None, name |-> f] /\ s.raw = Bare
      BY DEF Idle
    <2>5. f = Unnamed \/ FromOcr(s.cols)
      BY <2>4 DEF FromOcr, OcrSources, OnReceipt
    <2>6. AgentFits(s)
      BY <2>1, <2>4, <2>5 DEF AgentFits, Bare
    <2>. QED
      BY <1>1, <1>2, <2>3, <2>6
  <1>3. ASSUME NEW b \in Answers, NEW f \in Found(b),
               Turn(a, [Idle EXCEPT !.at = "upsert", !.raw = b,
                                    !.cols = [en |-> b.en, name |-> f]])
        PROVE  PlacesInv'
    <2>. DEFINE s == [Idle EXCEPT !.at = "upsert", !.raw = b,
                                  !.cols = [en |-> b.en, name |-> f]]
    <2>1. b \in Bodies
      BY PlacesAssumption
    <2>2. f \in Chinese /\ Sourced(f)
      BY <2>1, FoundFits
    <2>3. [en |-> b.en, name |-> f] \in Columns
      BY <2>1, <2>2 DEF Columns, Bodies
    <2>4. s \in AgentRow
      BY <2>1, <2>3, EmptyTypes DEF AgentRow
    <2>5. s.cols = [en |-> b.en, name |-> f] /\ s.raw = b /\ s.cached = FALSE
      BY DEF Idle
    <2>6. AgentFits(s)
      BY <2>2, <2>5 DEF AgentFits
    <2>. QED
      BY <1>1, <1>3, <2>4, <2>6
  <1>. QED
    BY <1>2, <1>3 DEF AgentLooks

\* Block (9): the row takes the agent's body, and every column of it the
\* agent has; what it keeps of the old columns is what the body lacks.
LEMMA AgentUpsertsStep ==
  ASSUME PlacesInv, NEW a \in Agents, AgentUpserts(a)
  PROVE  PlacesInv'
PROOF
  <1>. USE NullIsApart
  <1>t. /\ Typed /\ agent[a] \in AgentRow /\ AgentFits(agent[a])
        /\ UNCHANGED <<snapshots, job, script, served>> /\ skewed' = FALSE
        /\ Turn(a, [agent[a] EXCEPT !.at = "snapshot"])
    BY DEF PlacesInv, Typed, AgentUpserts
  <1>a. agent[a].raw \in Bodies /\ agent[a].cols \in Columns
    BY <1>t DEF AgentRow
  <1>1. /\ place' \in Row /\ place'.raw = agent[a].raw
        /\ Sourced(place'.cols.name)
        /\ agent[a].raw.en \in {None, place'.cols.en}
    <2>1. CASE Known
      <3>1. place.cols \in Columns /\ Sourced(place.cols.name)
        BY <1>t, <2>1, RowChanges DEF PlacesInv, RowFits
      <3>. DEFINE m == Merge(agent[a].cols, place.cols)
      <3>2. /\ m \in Columns /\ Sourced(m.name)
            /\ agent[a].cols.en # None => m.en = agent[a].cols.en
        BY <1>t, <1>a, <3>1, MergeFits DEF AgentFits
      <3>3. place' = [place EXCEPT !.raw = agent[a].raw, !.cols = m]
        BY <2>1 DEF AgentUpserts
      <3>. HIDE DEF m
      <3>4. place' \in Row /\ place'.raw = agent[a].raw /\ place'.cols = m
        BY <1>t, <1>a, <2>1, <3>2, <3>3, RowChanges
      <3>. QED
        BY <1>t, <3>2, <3>4 DEF AgentFits
    <2>2. CASE ~ Known
      <3>1. place' = [Absent EXCEPT !.raw = agent[a].raw, !.cols = agent[a].cols]
        BY <2>2 DEF AgentUpserts
      <3>2. /\ place' \in Row /\ place'.raw = agent[a].raw
            /\ place'.cols = agent[a].cols
        BY <1>a, <3>1 DEF Row, Absent
      <3>. QED
        BY <1>t, <3>2 DEF AgentFits
    <2>. QED
      BY <2>1, <2>2
  <1>2. /\ [agent[a] EXCEPT !.at = "snapshot"] \in AgentRow
        /\ AgentFits([agent[a] EXCEPT !.at = "snapshot"])
    BY <1>t DEF AgentRow, AgentFits
  <1>3. agent' \in [Agents -> AgentRow] /\ \A b \in Agents : AgentFits(agent[b])'
    BY <1>t, <1>2, AgentMoves
  <1>4. place' # None /\ place'.raw # None
    BY <1>a, <1>1
  <1>5. /\ job' \in [Jobs -> JobRow]
        /\ \A i \in Jobs : job'[i].at = "write" => job'[i].raw # None
        /\ \A i \in Jobs : JobFits(job[i])'
    BY <1>t, <1>4, JobsRest DEF Known
  <1>6. Typed'
    BY <1>t, <1>1, <1>3, <1>5 DEF Typed
  <1>7. RowFits' /\ LayerTwoFollowsRaw'
    BY <1>1, <1>4 DEF RowFits, LayerTwoFollowsRaw, Known
  <1>. QED
    BY <1>3, <1>5, <1>6, <1>7 DEF PlacesInv

\* Block (10), and an agent that stops before it.
LEMMA AgentEndsStep ==
  ASSUME PlacesInv, NEW a \in Agents, AgentSnapshots(a) \/ AgentDies(a)
  PROVE  PlacesInv'
PROOF
  <1>. USE NullIsApart
  <1>t. /\ Typed /\ agent[a] \in AgentRow /\ AgentFits(agent[a])
        /\ UNCHANGED <<place, job, script, served, skewed>>
    BY DEF PlacesInv, Typed, AgentSnapshots, AgentDies
  <1>1. snapshots' \subseteq Bodies
    BY <1>t DEF AgentSnapshots, AgentDies, Typed, AgentRow
  <1>2. PICK s \in AgentRow : Turn(a, s) /\ AgentFits(s)
    <2>1. Idle \in AgentRow /\ AgentFits(Idle)
      BY EmptyTypes DEF AgentFits, Idle, Absent, Bare
    <2>2. /\ [agent[a] EXCEPT !.at = "dead"] \in AgentRow
          /\ AgentFits([agent[a] EXCEPT !.at = "dead"])
      BY <1>t DEF AgentRow, AgentFits
    <2>. QED
      BY <2>1, <2>2 DEF AgentSnapshots, AgentDies
  <1>3. agent' \in [Agents -> AgentRow] /\ \A b \in Agents : AgentFits(agent[b])'
    BY <1>2, AgentMoves
  <1>4. /\ job' \in [Jobs -> JobRow]
        /\ \A i \in Jobs : job'[i].at = "write" => job'[i].raw # None
        /\ \A i \in Jobs : JobFits(job[i])'
    BY <1>t, JobsRest DEF Known
  <1>5. Typed'
    BY <1>t, <1>1, <1>3, <1>4 DEF Typed
  <1>6. RowFits' /\ LayerTwoFollowsRaw'
    BY <1>t, LayerTwoRests DEF PlacesInv, RowFits, Known
  <1>. QED
    BY <1>3, <1>4, <1>5, <1>6 DEF PlacesInv

\* The scripts: ApplyOcr names a row that has no name, ApplyUpdate writes
\* both layers at once; neither looks at a job or at an agent.
LEMMA ScriptStep ==
  ASSUME PlacesInv, LoadCandidates \/ ApplyOcr \/ LoadPending \/ ApplyUpdate
  PROVE  PlacesInv'
PROOF
  <1>. USE NullIsApart
  <1>t. /\ Typed /\ UNCHANGED <<snapshots, job, agent>>
        /\ served' \in 0 .. MaxRequests
    <2>1. Typed /\ (Serve \/ UNCHANGED served)
      BY DEF PlacesInv, LoadCandidates, ApplyOcr, LoadPending, ApplyUpdate
    <2>2. served' \in 0 .. MaxRequests
      BY <2>1, PlacesAssumption DEF Serve, Typed
    <2>. QED
      BY <2>1, <2>2 DEF LoadCandidates, ApplyOcr, LoadPending, ApplyUpdate, NotScripts
  <1>2. ASSUME place' \in Row \cup {None}, Known => Known',
               Known /\ place.raw # None => place'.raw # None,
               script' \in [at : {"idle", "photo", "languages"}, raw : Bodies \cup {None}],
               skewed' \in BOOLEAN, RowFits', LayerTwoFollowsRaw'
        PROVE  PlacesInv'
    <2>1. /\ job' \in [Jobs -> JobRow]
          /\ \A i \in Jobs : job'[i].at = "write" => job'[i].raw # None
          /\ \A i \in Jobs : JobFits(job[i])'
      BY <1>t, <1>2, JobsRest
    <2>2. agent' \in [Agents -> AgentRow] /\ \A b \in Agents : AgentFits(agent[b])'
      BY <1>t, AgentsRest
    <2>3. Typed'
      BY <1>t, <1>2, <2>1, <2>2 DEF Typed
    <2>. QED
      BY <1>2, <2>1, <2>2, <2>3 DEF PlacesInv
  <1>3. CASE LoadCandidates \/ LoadPending \/ (ApplyOcr /\ UNCHANGED place)
    <2>1. UNCHANGED <<place, skewed>>
      BY <1>3 DEF LoadCandidates, LoadPending, ApplyOcr
    <2>2. script' \in [at : {"idle", "photo", "languages"}, raw : Bodies \cup {None}]
      BY <1>3, <1>t DEF LoadCandidates, LoadPending, ApplyOcr, Typed
    <2>3. script'.at # "idle" => Known
      BY <1>3, <1>t DEF LoadCandidates, LoadPending, ApplyOcr, Typed
    <2>4. RowFits'
      BY <2>1, <2>3 DEF PlacesInv, RowFits, Known
    <2>5. LayerTwoFollowsRaw'
      BY <1>t, <2>1, LayerTwoRests DEF PlacesInv
    <2>6. place' \in Row \cup {None}
      BY <1>t, <2>1 DEF Typed
    <2>7. skewed' \in BOOLEAN
      BY <1>t, <2>1 DEF Typed
    <2>8. Known => Known'
      BY <2>1 DEF Known
    <2>. QED
      BY <1>2, <2>1, <2>2, <2>4, <2>5, <2>6, <2>7, <2>8
  <1>4. ASSUME NEW r \in Row, place' = r,
               Known /\ place.raw # None => r.raw # None, Sourced(r.cols.name),
               script'.at = "idle", script'.raw \in Bodies \cup {None},
               script' = [at |-> "idle", raw |-> script'.raw],
               skewed' \in BOOLEAN, LayerTwoFollowsRaw'
        PROVE  PlacesInv'
    <2>1. script' \in [at : {"idle", "photo", "languages"}, raw : Bodies \cup {None}]
      BY <1>4
    <2>2. RowFits'
      BY <1>4 DEF RowFits
    <2>. QED
      BY <1>2, <1>4, <2>1, <2>2 DEF Known
  <1>5. CASE /\ ApplyOcr /\ place.cols.name.zh = None
             /\ place' = [place EXCEPT !.cols.name.zh = Sign,
                                       !.cols.name.src = "photo_ocr"]
    <2>1. Known /\ script.at = "photo"
      BY <1>5 DEF ApplyOcr, PlacesInv, RowFits
    <2>2. place \in Row /\ place.cols \in Columns
      BY <1>t, <2>1, RowChanges
    <2>. DEFINE r == [place EXCEPT !.cols.name.zh = Sign, !.cols.name.src = "photo_ocr"]
    <2>3. /\ r \in Row /\ r.raw = place.raw /\ r.cols.en = place.cols.en
          /\ r.cols.name.zh = Sign /\ r.cols.name.src = "photo_ocr"
      BY <2>2 DEF Row, Columns, Chinese
    <2>4. Sourced(r.cols.name)
      BY <2>3 DEF Sourced
    <2>5. UNCHANGED <<skewed, job>> /\ place' = r
      BY <1>5, <1>t DEF ApplyOcr
    <2>. HIDE DEF r
    <2>6. LayerTwoFollowsRaw'
      BY <2>1, <2>3, <2>5 DEF PlacesInv, LayerTwoFollowsRaw, Known
    <2>7. skewed' \in BOOLEAN
      BY <1>t, <2>5 DEF Typed
    <2>8. /\ script'.at = "idle" /\ script'.raw \in Bodies \cup {None}
          /\ script' = [at |-> "idle", raw |-> script'.raw]
      BY <1>5, <1>t DEF ApplyOcr, Typed
    <2>. QED
      BY <1>4, <2>3, <2>4, <2>5, <2>6, <2>7, <2>8
  <1>6. CASE ApplyUpdate
    <2>1. PICK b \in Answers :
            \E body \in {b, [b EXCEPT !.en = None], [b EXCEPT !.zh = None]} :
              /\ place' = [place EXCEPT !.raw = body, !.cols.en = body.en,
                             !.cols.name.zh = body.zh,
                             !.cols.name.src = IF body.zh = None THEN None ELSE "google_text"]
              /\ script' = [at |-> "idle", raw |-> body]
      BY <1>6 DEF ApplyUpdate
    <2>2. PICK body \in {b, [b EXCEPT !.en = None], [b EXCEPT !.zh = None]} :
              /\ place' = [place EXCEPT !.raw = body, !.cols.en = body.en,
                             !.cols.name.zh = body.zh,
                             !.cols.name.src = IF body.zh = None THEN None ELSE "google_text"]
              /\ script' = [at |-> "idle", raw |-> body]
      BY <2>1
    <2>3. body \in Bodies
      BY PlacesAssumption DEF Bodies
    <2>4. Known /\ skewed' = FALSE
      BY <1>6 DEF ApplyUpdate, PlacesInv, RowFits
    <2>5. place \in Row /\ place.cols \in Columns
      BY <1>t, <2>4, RowChanges
    <2>. DEFINE r == [place EXCEPT !.raw = body, !.cols.en = body.en,
                        !.cols.name.zh = body.zh,
                        !.cols.name.src = IF body.zh = None THEN None ELSE "google_text"]
    <2>6. /\ r \in Row /\ r.raw = body /\ r.cols.en = body.en
          /\ r.cols.name.zh = body.zh
          /\ r.cols.name.src = IF body.zh = None THEN None ELSE "google_text"
      BY <2>3, <2>5, ZenonT(30) DEF Row, Columns, Chinese, Bodies
    <2>7. Sourced(r.cols.name)
      BY <2>3, <2>6 DEF Sourced, Bodies
    <2>8. place' = r
      BY <2>2
    <2>. HIDE DEF r
    <2>9. LayerTwoFollowsRaw'
      BY <2>6, <2>8 DEF LayerTwoFollowsRaw
    <2>10. script' = [at |-> "idle", raw |-> script'.raw] /\ script'.raw = body
      BY <2>2
    <2>11. skewed' \in BOOLEAN /\ r.raw # None
      BY <2>3, <2>4, <2>6
    <2>12. script'.at = "idle" /\ script'.raw \in Bodies \cup {None}
      BY <2>2, <2>3
    <2>. QED
      BY <1>4, <2>6, <2>7, <2>8, <2>9, <2>10, <2>11, <2>12
  <1>. QED
    BY <1>3, <1>5, <1>6 DEF ApplyOcr

\* Every step keeps the invariant.
LEMMA NextInv == PlacesInv /\ [Next]_vars => PlacesInv'
PROOF
  <1>. SUFFICES ASSUME PlacesInv, [Next]_vars PROVE PlacesInv'
    OBVIOUS
  <1>1. CASE UNCHANGED vars
    <2>1. UNCHANGED <<place, snapshots, job, agent, script, served, skewed>>
      BY <1>1 DEF vars
    <2>2. Typed' /\ RowFits'
      BY <2>1 DEF PlacesInv, Typed, RowFits, Known
    <2>3. \A j \in Jobs : JobFits(job[j])'
      BY <2>1, JobsRest DEF Known
    <2>4. \A a \in Agents : AgentFits(agent[a])'
      BY <2>1, AgentsRest
    <2>5. LayerTwoFollowsRaw'
      BY <2>1, LayerTwoRests DEF PlacesInv
    <2>. QED
      BY <2>2, <2>3, <2>4, <2>5 DEF PlacesInv
  <1>2. ASSUME NEW j \in Jobs, Request(j) PROVE PlacesInv'
    BY <1>2, RequestBegins, StoreRawStep, ReadRowStep, WriteDerivedStep, AbortStep
       DEF Request
  <1>3. ASSUME NEW a \in Agents, Ingest(a) PROVE PlacesInv'
    BY <1>3, AgentLooksStep, AgentUpsertsStep, AgentEndsStep DEF Ingest
  <1>4. CASE LoadCandidates \/ ApplyOcr \/ LoadPending \/ ApplyUpdate
    BY <1>4, ScriptStep
  <1>. QED
    BY <1>1, <1>2, <1>3, <1>4 DEF Next

----------------------------------------------------------------------------
(* The theorems.                                                           *)

\* The inductive invariant: see PlacesInv.
THEOREM PlacesInvariant == Spec => []PlacesInv
PROOF
  BY InitInv, NextInv, PTL DEF Spec

\* What the row, the requests, the agents and the scripts hold has its type.
THEOREM PlacesTypes == Spec => []TypeOK
PROOF
  <1>1. PlacesInv => TypeOK
    BY DEF PlacesInv, Typed, TypeOK, JobRow, AgentRow
  <1>. QED
    BY <1>1, PlacesInvariant, PTL

\* Whatever requests, agents and scripts interleave, the projected columns
\* show the stored body, but while a refresh is between its two transactions
\* and after one that was overtaken or stopped there.
THEOREM ColumnsFollowBody == Spec => []LayerTwoFollowsRaw
PROOF
  <1>1. PlacesInv => LayerTwoFollowsRaw
    BY DEF PlacesInv
  <1>. QED
    BY <1>1, PlacesInvariant, PTL

\* Whoever writes it, COALESCE by COALESCE or whole, a Chinese name stands
\* beside its own source.
THEOREM NamesHaveSources == Spec => []NameHasItsSource
PROOF
  <1>1. PlacesInv => NameHasItsSource
    <2>. SUFFICES ASSUME PlacesInv, Known PROVE NameHasItsSource
      BY DEF NameHasItsSource
    <2>. DEFINE name == place.cols.name
    <2>1. name \in Chinese /\ Sourced(name)
      BY RowChanges DEF PlacesInv, RowFits, Columns
    <2>2. name.src \in {None, "google_text", "photo_ocr", "receipt_ocr"}
      BY <2>1 DEF Chinese
    <2>3. CASE name.src = None
      BY <2>1, <2>3, NullIsApart DEF NameHasItsSource, Sourced
    <2>4. CASE name.src = "google_text"
      BY <2>1, <2>4, NullIsApart DEF NameHasItsSource, Sourced
    <2>5. CASE name.src = "photo_ocr"
      BY <2>1, <2>5, NullIsApart DEF NameHasItsSource, Sourced
    <2>6. CASE name.src = "receipt_ocr"
      BY <2>1, <2>6, NullIsApart DEF NameHasItsSource, Sourced
    <2>. QED
      BY <2>2, <2>3, <2>4, <2>5, <2>6
  <1>. QED
    BY <1>1, PlacesInvariant, PTL

\* Only a re-derive or an agent that looked before the name was there, or
\* the operator's backfill, replaces a name read by OCR: a re-derive writes
\* the name it read, an agent that found the row brings none, and the photo
\* script names only the nameless.
THEOREM OcrNamesSurvive == Spec => OcrNameSurvives
PROOF
  <1>. DEFINE Excused ==
         \/ \E j \in Jobs : job[j].at = "write" /\ job'[j] = Quiet /\ ~FromOcr(job[j].before)
         \/ \E a \in Agents : agent[a].at = "upsert" /\ agent'[a].at = "snapshot"
                                /\ ~agent[a].cached
         \/ script.at = "languages" /\ script'.at = "idle"
  <1>1. ASSUME PlacesInv, [Next]_vars, Known, FromOcr(place.cols), ~ FromOcr(place'.cols)
        PROVE  Excused
    <2>t. Typed /\ place \in Row
      BY <1>1, RowChanges DEF PlacesInv
    <2>1. CASE UNCHANGED place
      BY <1>1, <2>1 DEF FromOcr
    <2>2. ASSUME NEW j \in Jobs, Request(j) PROVE Excused
      <3>1. CASE UpdatePlace(j)
        BY <1>1, <2>t, <3>1 DEF UpdatePlace, FromOcr, Row
      <3>2. CASE StoreRaw(j)
        BY <1>1, <2>t, <3>2 DEF StoreRaw, FromOcr, Row
      <3>3. CASE WriteDerived(j)
        <4>1. /\ job[j] \in JobRow /\ job[j].at = "write" /\ job[j].raw # None
              /\ Sourced(job[j].before.name)
          BY <1>1, <3>3 DEF PlacesInv, Typed, JobFits, WriteDerived
        <4>2. job[j].raw \in Bodies /\ job[j].before \in Columns
          BY <4>1 DEF JobRow
        <4>3. place'.cols = Derived(job[j].before, job[j].raw)
          BY <1>1, <2>t, <3>3 DEF WriteDerived, Row
        <4>4. ~ FromOcr(job[j].before)
          BY <1>1, <4>1, <4>2, <4>3, DerivedFits
        <4>5. job'[j] = Quiet
          BY <1>1, <3>3 DEF WriteDerived, Go, PlacesInv, Typed
        <4>. QED
          BY <4>1, <4>4, <4>5
      <3>. QED
        BY <2>1, <2>2, <3>1, <3>2, <3>3
           DEF Request, StartReDerive, StartRefresh, FetchPlace, ReadRow, Abort
    <2>3. ASSUME NEW a \in Agents, Ingest(a) PROVE Excused
      <3>1. CASE AgentUpserts(a)
        <4>1. /\ agent[a] \in AgentRow /\ AgentFits(agent[a])
              /\ agent[a].at = "upsert"
          BY <1>1, <3>1 DEF PlacesInv, Typed, AgentUpserts
        <4>2. agent'[a].at = "snapshot"
          BY <1>1, <3>1 DEF AgentUpserts, Turn, PlacesInv, Typed, AgentRow
        <4>3. place.cols \in Columns /\ Sourced(place.cols.name)
          BY <1>1, RowChanges DEF PlacesInv, RowFits
        <4>4. place'.cols = Merge(agent[a].cols, place.cols)
          BY <1>1, <2>t, <3>1 DEF AgentUpserts, Row
        <4>5. agent[a].cols.name # Unnamed /\ ~ FromOcr(agent[a].cols)
          BY <1>1, <4>1, <4>3, <4>4, MergeFits DEF AgentFits, AgentRow, FromOcr
        <4>6. ~ agent[a].cached
          BY <4>1, <4>5 DEF AgentFits
        <4>. QED
          BY <4>1, <4>2, <4>6
      <3>. QED
        BY <2>1, <2>3, <3>1 DEF Ingest, AgentLooks, AgentSnapshots, AgentDies
    <2>4. CASE ApplyOcr
      <3>1. place' # place =>
              place' = [place EXCEPT !.cols.name.zh = Sign, !.cols.name.src = "photo_ocr"]
        BY <2>4 DEF ApplyOcr
      <3>2. place' # place => place'.cols.name.src = "photo_ocr"
        <4>. DEFINE r == [place EXCEPT !.cols.name.zh = Sign, !.cols.name.src = "photo_ocr"]
        <4>1. r.cols.name.src = "photo_ocr"
          BY <2>t DEF Row, Columns, Chinese
        <4>. QED
          BY <3>1, <4>1
      <3>. QED
        BY <1>1, <2>1, <3>2 DEF FromOcr, OcrSources
    <2>5. CASE ApplyUpdate
      <3>1. script.at = "languages" /\ script'.at = "idle"
        BY <2>5 DEF ApplyUpdate
      <3>. QED
        BY <3>1
    <2>. QED
      BY <1>1, <2>1, <2>2, <2>3, <2>4, <2>5 DEF Next, LoadCandidates, LoadPending, vars
  <1>2. PlacesInv /\ [Next]_vars =>
          [ (Known /\ FromOcr(place.cols) /\ ~FromOcr(place'.cols)) => Excused ]_vars
    BY <1>1
  <1>3. Spec => [][ (Known /\ FromOcr(place.cols) /\ ~FromOcr(place'.cols)) => Excused ]_vars
    BY <1>2, PlacesInvariant, PTL DEF Spec
  <1>. QED
    BY <1>3 DEF OcrNameSurvives
=============================================================================
