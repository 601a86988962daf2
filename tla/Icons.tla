--------------------------------- MODULE Icons ---------------------------------
(***************************************************************************)
(* The pictures of brands and products (src/routes/brands.ts,              *)
(* src/routes/products.ts): candidate files on disk, a row for each, and   *)
(* the preferred one, which the owner's row points at without a foreign    *)
(* key.                                                                    *)
(*                                                                         *)
(* A user uploads and picks; an agent that ingests or re-extracts a        *)
(* receipt fetches candidates for its brand, looks at them and picks one   *)
(* unless the user has (src/ingest/brand-icon-prompt.ts and the procedure  *)
(* beside it); a script seeds products.  Each is a sequence of statements  *)
(* with nothing to hold off the others, and may stop after any of them.    *)
(* An asset is named by its hash, which is unique for its owner.           *)
(***************************************************************************)
EXTENDS Integers, FiniteSets

CONSTANTS
  Brands,
  Products,
  Shas,         \* contents of picture files
  Actors,       \* requests and script runs at a time
  Agents,
  None,
  Stray,        \* an id that is no asset of the owner's: unknown, or another's
  MaxRequests   \* bound: requests, script runs and agent runs in a behaviour

ASSUME IconsAssumption ==
  /\ Brands \cap Products = {}
  /\ None \notin Brands \cup Products \cup Shas
  /\ Stray \notin Shas \cup {None}
  /\ MaxRequests \in Nat

Owners == Brands \cup Products

VARIABLES
  owner,   \* brands and products: the preferred asset, and the user's lock
  asset,   \* brand_assets and product_assets
  disk,    \* the files: by hash where users and the seed put them, one file
           \* under a name of its own where agents do
  call,
  agent,
  served

vars == <<owner, asset, disk, call, agent, served>>

OwnerRow == [preferred : Shas \cup {None, Stray}, chosen : BOOLEAN]
AssetRow == [state : {"absent", "live", "retired"},
             path : {"user_upload", "manual_seed", "tier"},
             user : BOOLEAN, score : {"none", "low", "high"}]
NoAsset  == [state |-> "absent", path |-> "tier", user |-> FALSE, score |-> "none"]
Files    == [user_upload : SUBSET Shas, manual_seed : SUBSET Shas, tier : Shas \cup {None}]
NoFiles  == [user_upload |-> {}, manual_seed |-> {}, tier |-> None]

CallSteps  == {"idle", "write", "insert", "revive", "choose",
               "seedWrite", "seedInsert", "seedPoint"}
AgentSteps == {"idle", "fetch", "record", "look", "judge", "pick", "dead"}

Quiet == [at |-> "idle", owner |-> None, sha |-> None]
Idle  == [at |-> "idle", owner |-> None, sha |-> None, seen |-> {}]

Kept(o, s) == asset[o][s].state # "absent"
Live(o)    == {s \in Shas : asset[o][s].state = "live"}

\* What the file an asset's row names holds.
Shown(o, s) ==
  IF asset[o][s].path = "tier" THEN disk[o].tier
  ELSE IF s \in disk[o][asset[o][s].path] THEN s ELSE None

----------------------------------------------------------------------------
(* Requests.                                                               *)

Serve == served < MaxRequests /\ served' = served + 1

Go(a, c) == call' = [call EXCEPT ![a] = c]
Turn(g, s) == agent' = [agent EXCEPT ![g] = s]

Abort(a) ==
  /\ call[a] # Quiet /\ Go(a, Quiet)
  /\ UNCHANGED <<owner, asset, disk, agent, served>>

\* POST /:id/assets looks for a row with the hash of the file.
Upload(a, owners) ==
  \E o \in owners, s \in Shas :
    /\ call[a] = Quiet /\ Serve
    /\ Go(a, [at |-> CASE asset[o][s].state = "absent"  -> "write"
                        [] asset[o][s].state = "retired" -> "revive"
                        [] asset[o][s].state = "live"    -> "choose",
              owner |-> o, sha |-> s])
    /\ UNCHANGED <<owner, asset, disk, agent>>

UploadBrandAsset(a)   == Upload(a, Brands)
UploadProductAsset(a) == Upload(a, Products)

Onward(a, at) == Go(a, [call[a] EXCEPT !.at = at])

Revive(a) ==
  /\ call[a].at = "revive"
  /\ asset' = [asset EXCEPT ![call[a].owner][call[a].sha].state = "live"]
  /\ Onward(a, "choose")
  /\ UNCHANGED <<owner, disk, agent, served>>

\* Mutant: the row comes first, and the file is written after it.
WriteFileLater(a) ==
  /\ call[a].at = "write"
  /\ Onward(a, "insert")
  /\ UNCHANGED <<owner, asset, disk, agent, served>>

WriteFile(a) ==
  /\ call[a].at = "write"
  /\ disk' = [disk EXCEPT ![call[a].owner].user_upload = @ \cup {call[a].sha}]
  /\ Onward(a, "insert")
  /\ UNCHANGED <<owner, asset, agent, served>>

\* The plain INSERT fails on the unique index when another request or an
\* agent has brought the same bytes meanwhile; the upload then answers 500.
InsertAsset(a) ==
  LET o == call[a].owner  s == call[a].sha IN
  /\ call[a].at = "insert" /\ ~Kept(o, s)
  /\ asset' = [asset EXCEPT ![o][s] =
                 [state |-> "live", path |-> "user_upload", user |-> TRUE, score |-> "none"]]
  /\ Onward(a, "choose")
  /\ UNCHANGED <<owner, disk, agent, served>>

\* The upload is the user's choice.
Choose(a) ==
  /\ call[a].at = "choose"
  /\ owner' = [owner EXCEPT ![call[a].owner] = [preferred |-> call[a].sha, chosen |-> TRUE]]
  /\ Go(a, Quiet)
  /\ UNCHANGED <<asset, disk, agent, served>>

\* PATCH stores any id unchecked, that of a retired asset or of none; the ids
\* are random, so one that names nothing now never will.  Clearing keeps the
\* lock.
PatchPreferred(a, owners) ==
  \E o \in owners :
    /\ call[a] = Quiet /\ Serve
    /\ \/ owner' = [owner EXCEPT ![o].preferred = None]
       \/ \E s \in {r \in Shas : Kept(o, r)} \cup {Stray} :
            owner' = [owner EXCEPT ![o] = [preferred |-> s, chosen |-> TRUE]]
    /\ UNCHANGED <<asset, disk, call, agent>>

UpdateBrand(a)   == PatchPreferred(a, Brands)
UpdateProduct(a) == PatchPreferred(a, Products)

\* scripts/seed-apple-product-images.ts, one file for one product.
Seed(a) ==
  \E o \in Products, s \in Shas :
    /\ call[a] = Quiet /\ Serve
    /\ Go(a, [at |-> "seedWrite", owner |-> o, sha |-> s])
    /\ UNCHANGED <<owner, asset, disk, agent>>

SeedWrite(a) ==
  /\ call[a].at = "seedWrite"
  /\ disk' = [disk EXCEPT ![call[a].owner].manual_seed = @ \cup {call[a].sha}]
  /\ Onward(a, "seedInsert")
  /\ UNCHANGED <<owner, asset, agent, served>>

SeedInsert(a) ==
  LET o == call[a].owner  s == call[a].sha IN
  /\ call[a].at = "seedInsert"
  /\ asset' = IF Kept(o, s) THEN asset
              ELSE [asset EXCEPT ![o][s] = [NoAsset EXCEPT !.state = "live",
                                                           !.path = "manual_seed"]]
  /\ Onward(a, "seedPoint")
  /\ UNCHANGED <<owner, disk, agent, served>>

\* Mutant: the seed points at its file whatever was chosen.
SeedPointAnyway(a) ==
  /\ call[a].at = "seedPoint"
  /\ owner' = [owner EXCEPT ![call[a].owner] = [preferred |-> call[a].sha, chosen |-> TRUE]]
  /\ Go(a, Quiet)
  /\ UNCHANGED <<asset, disk, agent, served>>

\* The seed takes the lock too.
SeedPoint(a) ==
  /\ call[a].at = "seedPoint"
  /\ owner' = IF owner[call[a].owner].chosen THEN owner
              ELSE [owner EXCEPT ![call[a].owner] = [preferred |-> call[a].sha, chosen |-> TRUE]]
  /\ Go(a, Quiet)
  /\ UNCHANGED <<asset, disk, agent, served>>

----------------------------------------------------------------------------
(* Agents.                                                                 *)

\* The gate reads the registry once: Case A leaves a brand with a preferred
\* asset alone, Case D fetches for one with no live candidate, Case B only
\* looks.  (Case C, no domain, is an agent that does not run here.)
Gate(g) ==
  \E b \in Brands :
    /\ agent[g] = Idle /\ Serve
    /\ owner[b].preferred = None
    /\ Turn(g, [Idle EXCEPT !.at = IF Live(b) = {} THEN "fetch" ELSE "look", !.owner = b])
    /\ UNCHANGED <<owner, asset, disk, call>>

\* Phase 4b saves the file under the name its source gives it, over what
\* was there, then records it; nothing found leads on as well.
FetchIcon(g) ==
  /\ agent[g].at = "fetch"
  /\ \/ Turn(g, [agent[g] EXCEPT !.at = "look"]) /\ UNCHANGED disk
     \/ \E s \in Shas :
          /\ disk' = [disk EXCEPT ![agent[g].owner].tier = s]
          /\ Turn(g, [agent[g] EXCEPT !.at = "record", !.sha = s])
  /\ UNCHANGED <<owner, asset, call, served>>

\* INSERT ... ON CONFLICT: bytes already known keep their row and its path.
RecordIcon(g) ==
  LET o == agent[g].owner  s == agent[g].sha IN
  /\ agent[g].at = "record"
  /\ asset' = IF Kept(o, s) THEN asset
              ELSE [asset EXCEPT ![o][s] = [NoAsset EXCEPT !.state = "live"]]
  /\ Turn(g, [agent[g] EXCEPT !.at = "look", !.sha = None])
  /\ UNCHANGED <<owner, disk, call, served>>

\* Phase 4c lists the live candidates and looks at each.
ListCandidates(g) ==
  /\ agent[g].at = "look"
  /\ Turn(g, IF Live(agent[g].owner) = {} THEN Idle
             ELSE [agent[g] EXCEPT !.at = "judge", !.seen = Live(agent[g].owner)])
  /\ UNCHANGED <<owner, asset, disk, call, served>>

\* One UPDATE by id for each candidate, of which some are retired.
Judged(r, good, bad) == [r EXCEPT !.score = IF good THEN "high" ELSE "low",
                                  !.state = IF bad THEN "retired" ELSE @]

Verdicts(o, seen, good, bad) ==
  [s \in Shas |-> IF s \in seen THEN Judged(asset[o][s], s \in good, s \in bad)
                                ELSE asset[o][s]]

JudgeCandidates(g) ==
  LET o == agent[g].owner  seen == agent[g].seen IN
  /\ agent[g].at = "judge"
  /\ \E good \in SUBSET seen : \E bad \in SUBSET (seen \ good) :
       asset' = [asset EXCEPT ![o] = Verdicts(o, seen, good, bad)]
  /\ Turn(g, [agent[g] EXCEPT !.at = "pick"])
  /\ UNCHANGED <<owner, disk, call, served>>

\* Mutant: the winner is picked from all candidates, retired ones as well.
WinnersAny(o) == {s \in Shas : Kept(o, s) /\ asset[o][s].score # "none"}

Winners(o) == {s \in Live(o) : asset[o][s].score = "high"}

\* Steps 4 and 5 of Phase 4c, with the Layer-3 lock in the WHERE.
Pick(g) ==
  LET o == agent[g].owner IN
  /\ agent[g].at = "pick"
  /\ \/ owner[o].chosen /\ UNCHANGED owner
     \/ /\ ~owner[o].chosen /\ Winners(o) = {}
        /\ owner' = [owner EXCEPT ![o].preferred = None]
     \/ /\ ~owner[o].chosen
        /\ \E s \in Winners(o) : owner' = [owner EXCEPT ![o].preferred = s]
  /\ Turn(g, Idle)
  /\ UNCHANGED <<asset, disk, call, served>>

\* Killed, timed out or out of turns.
AgentDies(g) ==
  /\ agent[g].at \notin {"idle", "dead"}
  /\ Turn(g, IF agent[g].at = "pick" THEN [agent[g] EXCEPT !.at = "dead"] ELSE Idle)
  /\ UNCHANGED <<owner, asset, disk, call, served>>

----------------------------------------------------------------------------
Init ==
  /\ owner = [o \in Owners |-> [preferred |-> None, chosen |-> FALSE]]
  /\ asset = [o \in Owners |-> [s \in Shas |-> NoAsset]]
  /\ disk  = [o \in Owners |-> NoFiles]
  /\ call  = [a \in Actors |-> Quiet]
  /\ agent = [g \in Agents |-> Idle]
  /\ served = 0

Request(a) ==
  \/ UploadBrandAsset(a) \/ UploadProductAsset(a)
  \/ Revive(a) \/ WriteFile(a) \/ InsertAsset(a) \/ Choose(a)
  \/ UpdateBrand(a) \/ UpdateProduct(a) \/ Seed(a) \/ SeedWrite(a) \/ SeedInsert(a) \/ SeedPoint(a)
  \/ Abort(a)

Ingest(g) ==
  \/ Gate(g) \/ FetchIcon(g) \/ RecordIcon(g) \/ ListCandidates(g)
  \/ JudgeCandidates(g) \/ Pick(g) \/ AgentDies(g)

Next == (\E a \in Actors : Request(a)) \/ (\E g \in Agents : Ingest(g))

Spec == Init /\ [][Next]_vars

----------------------------------------------------------------------------
(* Properties.                                                             *)

\* The types of the rows, the files and the processes.
TypeOK ==
  /\ owner \in [Owners -> OwnerRow]
  /\ asset \in [Owners -> [Shas -> AssetRow]]
  /\ disk \in [Owners -> Files]
  /\ call \in [Actors -> [at : CallSteps, owner : Owners \cup {None}, sha : Shas \cup {None}]]
  /\ agent \in [Agents -> [at : AgentSteps, owner : Owners \cup {None},
                           sha : Shas \cup {None}, seen : SUBSET Shas]]
  /\ served \in 0 .. MaxRequests

\* A row never comes before the bytes it stands for, whichever request, agent
\* or script stops where; a picture that users or the seed brought keeps its
\* own bytes.
RowsHaveBytes ==
  \A o \in Owners, s \in Shas :
    Kept(o, s) => IF asset[o][s].path = "tier" THEN Shown(o, s) # None ELSE Shown(o, s) = s

\* What upload, seed and agents point at exists; only a PATCH leaves a pointer
\* to nothing, and it takes the lock.  A pointer to a retired asset is the
\* user's, or an agent that had looked at it before retired it and has not,
\* or will never, pick again (brands.ts 483: `Stale pointer').
RetiredPointerHasCause ==
  \A o \in Owners :
    /\ owner[o].preferred = Stray => owner[o].chosen
    /\ \A s \in {owner[o].preferred} \ {None, Stray} :
         /\ Kept(o, s)
         /\ asset[o][s].state = "retired" =>
              \/ owner[o].chosen
              \/ \E g \in Agents : /\ agent[g].at \in {"pick", "dead"}
                                   /\ agent[g].owner = o /\ s \in agent[g].seen

\* Once the user has chosen, no agent and no seed changes the picture, even
\* those that looked at the owner before the choice (prompt, Phase 4c:
\* `never overwrite it').
ChoiceStands ==
  [][ \A o \in Owners :
        (owner[o].chosen /\ owner'[o] # owner[o]) =>
          /\ owner'[o].chosen
          /\ agent' = agent
          /\ \A a \in Actors : call[a].at = "seedPoint" => call'[a] = call[a] ]_vars

\* What the upload promises: the icon it chose shows the bytes it was given.
\* It does not for bytes an agent had fetched before, once its file has been
\* fetched again under the same name.
ChosenShowsItsBytes ==
  \A o \in Owners :
    (owner[o].chosen /\ owner[o].preferred \in Live(o)) =>
      Shown(o, owner[o].preferred) = owner[o].preferred

\* What the re-extraction prompt says of a user's uploads: it does not touch
\* them.  Phase 4c does, once the user clears the choice.
UploadsUntouched ==
  [][ \A o \in Owners, s \in Shas : (asset[o][s].user /\ agent' # agent)
        => asset'[o][s] = asset[o][s] ]_vars
=============================================================================
