-------------------------------- MODULE Places --------------------------------
(***************************************************************************)
(* The place cache (src/routes/places.service.ts, the agent's Phase 3 and  *)
(* the two backfill scripts): one row of `places', its raw Google body     *)
(* (layer 1), the columns projected from it (layer 2) and the user's own   *)
(* name (layer 3).                                                         *)
(*                                                                         *)
(* Four kinds of process write the row with no lock between them.  A       *)
(* re-derive reads the row and writes its columns in a later transaction;  *)
(* a refresh first stores a new body in a transaction of its own; an agent *)
(* looks for the row, spends minutes with Google and upserts; a script     *)
(* selects its rows long before it updates them.  Each may stop anywhere.  *)
(*                                                                         *)
(* display_name_en stands for every column projected from the English      *)
(* body; name, source and is_native for the four Chinese ones.             *)
(***************************************************************************)
EXTENDS Integers

CONSTANTS
  EnNames,     \* English names Google gives over time
  ZhNames,     \* names with Han characters
  Glosses,     \* those of them that only translate a global English brand
  Tagged,      \* a Latin name that Google tags `zh'
  Sign,        \* the name on the storefront
  Letterhead,  \* the name on the receipt
  Answers,     \* the bodies Google gives
  Jobs,        \* requests the server serves at a time
  Agents,      \* ingestions that resolve to this place
  None,
  MaxRequests  \* bound: requests, ingestions and script runs in a behaviour

Bodies == [en : EnNames \cup {None}, zh : ZhNames \cup {Tagged, None}]

ASSUME PlacesAssumption ==
  /\ Glosses \subseteq ZhNames
  /\ Answers \subseteq Bodies
  /\ Tagged \notin {Sign, Letterhead, None} /\ Sign \notin {Letterhead, None}
  /\ Letterhead # None
  /\ {Tagged, Sign, Letterhead, None} \cap (EnNames \cup ZhNames) = {}
  /\ MaxRequests \in Nat

VARIABLES
  place,      \* the row of `places'
  snapshots,  \* place_snapshots
  job,        \* the refresh or re-derive each server process runs
  agent,
  script,     \* the backfill script that runs, and the body it last wrote
  served,
  skewed      \* history: layer 2 was last projected from a body since replaced

vars == <<place, snapshots, job, agent, script, served, skewed>>

Bare    == [en |-> None, zh |-> None]      \* a body with neither v1 answer
Unnamed == [zh |-> None, src |-> None, native |-> None]

Chinese == [zh : ZhNames \cup {Tagged, Sign, Letterhead, None},
            src : {None, "google_text", "photo_ocr", "receipt_ocr"},
            native : BOOLEAN \cup {None}]
Columns == [en : EnNames \cup {None}, name : Chinese]
Row     == [raw : Bodies \cup {None}, cols : Columns, custom : BOOLEAN]
Absent  == [raw |-> None, cols |-> [en |-> None, name |-> Unnamed], custom |-> FALSE]

\* NULL is neither a row, nor a body, nor the name of a source.
ASSUME NullAssumption ==
  None \notin Row \cup Bodies \cup {"google_text", "photo_ocr", "receipt_ocr"}

Quiet == [at |-> "idle", raw |-> None, before |-> Absent.cols, stored |-> FALSE]

OcrSources == {"photo_ocr", "receipt_ocr"}
FromOcr(cols) == cols.name.src \in OcrSources

----------------------------------------------------------------------------
(* The projection.                                                         *)

IsNative(body) == ~ (body.zh \in Glosses /\ body.en # None)

GoogleName(body) ==
  IF body.zh \in ZhNames
  THEN [zh |-> body.zh, src |-> "google_text", native |-> IsNative(body)]
  ELSE Unnamed

ProjectPlace(body) == [en |-> body.en, name |-> GoogleName(body)]

\* Mutant: the projection wins over a name read by OCR.
DerivedFlat(before, body) == ProjectPlace(body)

\* Names read by OCR are kept as they were read; the rest is overwritten.
Derived(before, body) ==
  IF FromOcr(before) THEN [ProjectPlace(body) EXCEPT !.name = before.name]
                     ELSE ProjectPlace(body)

Coalesce(new, old) == IF new = None THEN old ELSE new

\* Mutant: the Chinese name is taken from the new row even when it has none.
MergeOver(new, old) ==
  [en |-> Coalesce(new.en, old.en),
   name |-> [zh |-> new.name.zh,
             src |-> Coalesce(new.name.src, old.name.src),
             native |-> Coalesce(new.name.native, old.name.native)]]

Merge(new, old) ==
  [en |-> Coalesce(new.en, old.en),
   name |-> [zh |-> Coalesce(new.name.zh, old.name.zh),
             src |-> Coalesce(new.name.src, old.name.src),
             native |-> Coalesce(new.name.native, old.name.native)]]

----------------------------------------------------------------------------
(* Requests.                                                               *)

Known == place # None

Go(j, s) == job' = [job EXCEPT ![j] = s]

Serve == served < MaxRequests /\ served' = served + 1

Begin(j, at) ==
  /\ job[j] = Quiet /\ Known /\ Serve
  /\ Go(j, [Quiet EXCEPT !.at = at])

Others == <<agent, script>>

UpdatePlace(j) ==
  /\ job[j] = Quiet /\ Known /\ Serve
  /\ \E c \in BOOLEAN : place' = [place EXCEPT !.custom = c]
  /\ UNCHANGED <<snapshots, job, Others, skewed>>

StartReDerive(j) == Begin(j, "read") /\ UNCHANGED <<place, snapshots, Others, skewed>>

StartRefresh(j) == Begin(j, "fetch") /\ UNCHANGED <<place, snapshots, Others, skewed>>

FetchPlace(j) ==
  /\ job[j].at = "fetch"
  /\ \E b \in Answers : Go(j, [job[j] EXCEPT !.at = "store", !.raw = b])
  /\ UNCHANGED <<place, snapshots, Others, served, skewed>>

\* Mutant: the refresh answers without projecting the body it stored.
StoreRawOnly(j) ==
  /\ job[j].at = "store"
  /\ place' = [place EXCEPT !.raw = job[j].raw]
  /\ snapshots' = snapshots \cup {job[j].raw}
  /\ Go(j, Quiet)
  /\ UNCHANGED <<Others, served, skewed>>

StoreRaw(j) ==
  /\ job[j].at = "store"
  /\ place' = [place EXCEPT !.raw = job[j].raw]
  /\ snapshots' = snapshots \cup {job[j].raw}
  /\ Go(j, [Quiet EXCEPT !.at = "read", !.stored = TRUE])
  /\ UNCHANGED <<Others, served, skewed>>

\* A row without a body answers 422.
ReadRow(j) ==
  /\ job[j].at = "read"
  /\ \/ place.raw = None /\ Go(j, Quiet)
     \/ /\ place.raw # None
        /\ Go(j, [job[j] EXCEPT !.at = "write", !.raw = place.raw, !.before = place.cols])
  /\ UNCHANGED <<place, snapshots, Others, served, skewed>>

\* The derivation_events row of the same transaction is never read again.
WriteDerived(j) ==
  /\ job[j].at = "write"
  /\ place' = [place EXCEPT !.cols = Derived(job[j].before, job[j].raw)]
  /\ skewed' = (place.raw # job[j].raw)
  /\ Go(j, Quiet)
  /\ UNCHANGED <<snapshots, Others, served>>

\* Google answers an error, a statement fails, the server goes down.
Abort(j) ==
  /\ job[j] # Quiet
  /\ skewed' = (skewed \/ job[j].stored)
  /\ Go(j, Quiet)
  /\ UNCHANGED <<place, snapshots, Others, served>>

----------------------------------------------------------------------------
(* Agents.                                                                 *)

Idle == [at |-> "idle", raw |-> Bare, cols |-> Absent.cols, cached |-> FALSE]

Turn(a, s) == agent' = [agent EXCEPT ![a] = s]

OnReceipt == [zh |-> Letterhead, src |-> "receipt_ocr", native |-> TRUE]

\* What Phases 3c to 3e find: Google's name, else the storefront's, else the
\* receipt's, else nothing.
Found(body) ==
  IF body.zh \in ZhNames THEN {GoogleName(body)}
  ELSE {Unnamed, [zh |-> Sign, src |-> "photo_ocr", native |-> TRUE], OnReceipt}

\* Turn A: a row that is there spares the calls to Google, and leaves the
\* agent with its geocoding answer and the receipt's own name, if it has one.
AgentLooks(a) ==
  /\ agent[a] = Idle /\ Serve
  /\ \/ /\ Known
        /\ \E f \in {Unnamed, OnReceipt} :
             Turn(a, [Idle EXCEPT !.at = "upsert", !.cached = TRUE,
                                  !.cols = [en |-> None, name |-> f]])
     \/ /\ ~Known
        /\ \E b \in Answers : \E f \in Found(b) :
             Turn(a, [Idle EXCEPT !.at = "upsert", !.raw = b,
                                  !.cols = [en |-> b.en, name |-> f]])
  /\ UNCHANGED <<place, snapshots, job, script, skewed>>

\* Block (9): a row that is there keeps each column the agent has no value
\* for, and takes the agent's body.
AgentUpserts(a) ==
  /\ agent[a].at = "upsert"
  /\ place' = IF Known
              THEN [place EXCEPT !.raw = agent[a].raw,
                                 !.cols = Merge(agent[a].cols, place.cols)]
              ELSE [Absent EXCEPT !.raw = agent[a].raw, !.cols = agent[a].cols]
  /\ Turn(a, [agent[a] EXCEPT !.at = "snapshot"])
  /\ skewed' = FALSE
  /\ UNCHANGED <<snapshots, job, script, served>>

\* Block (10).
AgentSnapshots(a) ==
  /\ agent[a].at = "snapshot"
  /\ snapshots' = snapshots \cup {agent[a].raw}
  /\ Turn(a, Idle)
  /\ UNCHANGED <<place, job, script, served, skewed>>

\* An agent that has written nothing might as well not have run.
AgentDies(a) ==
  /\ agent[a].at = "snapshot"
  /\ Turn(a, [agent[a] EXCEPT !.at = "dead"])
  /\ UNCHANGED <<place, snapshots, job, script, served, skewed>>

----------------------------------------------------------------------------
(* Backfill scripts, run by hand, one at a time.  Each selects its rows     *)
(* once, before the minutes the first of them takes.                       *)

NotScripts == <<job, agent>>

LoadCandidates ==
  /\ script.at = "idle" /\ Serve
  /\ Known /\ place.raw # None /\ place.cols.name.zh = None
  /\ script' = [script EXCEPT !.at = "photo"]
  /\ UNCHANGED <<place, snapshots, skewed, NotScripts>>

\* Nothing is read off the photographs, or the row has a name by now, or
\* the name is written: is_native is left as it was.
ApplyOcr ==
  /\ script.at = "photo"
  /\ \/ UNCHANGED place
     \/ /\ place.cols.name.zh = None
        /\ place' = [place EXCEPT !.cols.name.zh = Sign, !.cols.name.src = "photo_ocr"]
  /\ script' = [script EXCEPT !.at = "idle"]
  /\ UNCHANGED <<snapshots, served, skewed, NotScripts>>

\* Rows without an English name, or the one named with --only-id.
LoadPending ==
  /\ script.at = "idle" /\ Serve
  /\ Known
  /\ script' = [script EXCEPT !.at = "languages"]
  /\ UNCHANGED <<place, snapshots, skewed, NotScripts>>

\* One of Google's two answers may be missing.  The script's own projection
\* takes whatever name is tagged `zh'; it leaves is_native as it was, and no
\* snapshot.
ApplyUpdate ==
  /\ script.at = "languages"
  /\ \E b \in Answers : \E body \in {b, [b EXCEPT !.en = None], [b EXCEPT !.zh = None]} :
       /\ place' = [place EXCEPT !.raw = body, !.cols.en = body.en,
                      !.cols.name.zh = body.zh,
                      !.cols.name.src = IF body.zh = None THEN None ELSE "google_text"]
       /\ script' = [at |-> "idle", raw |-> body]
  /\ skewed' = FALSE
  /\ UNCHANGED <<snapshots, served, NotScripts>>

----------------------------------------------------------------------------
Init ==
  /\ place \in {None, Absent}     \* not yet cached, or cached before layer 2
  /\ snapshots = {}
  /\ job = [j \in Jobs |-> Quiet]
  /\ agent = [a \in Agents |-> Idle]
  /\ script = [at |-> "idle", raw |-> None]
  /\ served = 0
  /\ skewed = FALSE

Request(j) ==
  \/ UpdatePlace(j) \/ StartReDerive(j) \/ StartRefresh(j) \/ FetchPlace(j)
  \/ StoreRaw(j) \/ ReadRow(j) \/ WriteDerived(j) \/ Abort(j)

Ingest(a) == AgentLooks(a) \/ AgentUpserts(a) \/ AgentSnapshots(a) \/ AgentDies(a)

Next ==
  \/ \E j \in Jobs : Request(j)
  \/ \E a \in Agents : Ingest(a)
  \/ LoadCandidates \/ ApplyOcr \/ LoadPending \/ ApplyUpdate

Spec == Init /\ [][Next]_vars

----------------------------------------------------------------------------
(* Properties.                                                             *)

\* The types of everything the cache stores.
TypeOK ==
  /\ place \in Row \cup {None}
  /\ snapshots \subseteq Bodies
  /\ job \in [Jobs -> [at : {"idle", "fetch", "store", "read", "write"},
                       raw : Bodies \cup {None}, before : Columns, stored : BOOLEAN]]
  /\ \A j \in Jobs : job[j].at = "write" => job[j].raw # None
  /\ agent \in [Agents -> [at : {"idle", "upsert", "snapshot", "dead"},
                           raw : Bodies, cols : Columns, cached : BOOLEAN]]
  /\ script \in [at : {"idle", "photo", "languages"}, raw : Bodies \cup {None}]
  /\ served \in 0 .. MaxRequests
  /\ skewed \in BOOLEAN

\* The columns show the body that is stored (places.service.ts, refreshPlace:
\* `so Layer 2 columns reflect the new body'), except while a refresh is on
\* its way from the one to the other, and after one that stopped there or a
\* re-derive that wrote what it had projected from a body since replaced.
LayerTwoFollowsRaw ==
  (Known /\ place.raw # None /\ place.raw.en \notin {None, place.cols.en}) =>
    skewed \/ \E j \in Jobs : job[j].stored

\* A Chinese name and where it came from change together, whoever writes:
\* Google's names are marked as Google's, those read off the storefront or
\* the receipt as such, and a row without a name names no source.
NameHasItsSource ==
  Known => LET name == place.cols.name IN
    CASE name.src = None          -> name.zh = None
      [] name.src = "google_text" -> name.zh \in ZhNames \cup {Tagged}
      [] name.src = "photo_ocr"   -> name.zh = Sign
      [] name.src = "receipt_ocr" -> name.zh = Letterhead

\* A name read off the merchant's own surface is lost only to a writer that
\* looked before the name was there (a re-derive that read the row, an agent
\* that found none), or to the operator's own backfill run.
OcrNameSurvives ==
  [][ (Known /\ FromOcr(place.cols) /\ ~FromOcr(place'.cols)) =>
        \/ \E j \in Jobs : job[j].at = "write" /\ job'[j] = Quiet /\ ~FromOcr(job[j].before)
        \/ \E a \in Agents : agent[a].at = "upsert" /\ agent'[a].at = "snapshot"
                               /\ ~agent[a].cached
        \/ script.at = "languages" /\ script'.at = "idle" ]_vars

\* What the schema says of a name read by OCR: it is native.  The backfill
\* leaves the flag of whatever name was there before, or none.
OcrIsNative == (Known /\ FromOcr(place.cols)) => place.cols.name.native = TRUE

\* What the prompt says of an ingestion that finds the place cached: it only
\* touches last_seen_at and hit_count.
CachedIsKept ==
  [][ \A a \in Agents :
        (agent[a].at = "upsert" /\ agent[a].cached /\ agent'[a].at = "snapshot")
          => place'.raw = place.raw ]_vars
=============================================================================
