------------------------------ MODULE IconsProofs ------------------------------
(***************************************************************************)
(* What is proved of the pictures of brands and products: for any number   *)
(* of brands, products, pictures, requests and agents, a row never comes   *)
(* before its bytes, a pointer leads to a row unless a PATCH says          *)
(* otherwise, and the user's choice stands.                                *)
(*                                                                         *)
(* Files and rows only ever come: a file may be fetched again under its    *)
(* name, a row may be retired, but neither disappears.  So what a request  *)
(* or an agent has made, and what it has seen, is there when it goes on,   *)
(* whatever others did meanwhile.                                          *)
(***************************************************************************)
EXTENDS Icons, TLAPS

CallRow  == [at : CallSteps, owner : Owners \cup {None}, sha : Shas \cup {None}]
AgentRow == [at : AgentSteps, owner : Owners \cup {None}, sha : Shas \cup {None},
             seen : SUBSET Shas]

Typed ==
  /\ owner \in [Owners -> OwnerRow]
  /\ asset \in [Owners -> [Shas -> AssetRow]]
  /\ disk \in [Owners -> Files]
  /\ call \in [Actors -> CallRow]
  /\ agent \in [Agents -> AgentRow]

\* What a request or a seeding has done by the time it is where it is.
Holds(c) ==
  /\ c.at # "idle" => c.owner \in Owners /\ c.sha \in Shas
  /\ c.at = "insert" => c.sha \in disk[c.owner].user_upload
  /\ c.at = "seedInsert" => c.sha \in disk[c.owner].manual_seed
  /\ c.at \in {"revive", "choose", "seedPoint"} => Kept(c.owner, c.sha)

\* The same of an agent.
Knows(x) ==
  /\ x.at # "idle" => x.owner \in Owners
  /\ x.at = "record" => x.sha \in Shas /\ disk[x.owner].tier # None
  /\ x.at \in {"judge", "pick", "dead"} => \A s \in x.seen : Kept(x.owner, s)

IconsInv ==
  /\ Typed
  /\ RowsHaveBytes
  /\ RetiredPointerHasCause
  /\ \A a \in Actors : Holds(call[a])
  /\ \A g \in Agents : Knows(agent[g])

----------------------------------------------------------------------------
(* What a step may do to files and rows.                                   *)

\* The bytes of a row are on disk, by the path the row names.
Filed(o, s, p) ==
  \/ p = "user_upload" /\ s \in disk[o].user_upload
  \/ p = "manual_seed" /\ s \in disk[o].manual_seed
  \/ p = "tier" /\ disk[o].tier # None

\* Files stay, if under the agents' name with other bytes.
FilesStay ==
  /\ disk' \in [Owners -> Files]
  /\ \A o \in Owners :
       /\ disk[o].user_upload \subseteq disk'[o].user_upload
       /\ disk[o].manual_seed \subseteq disk'[o].manual_seed
       /\ disk[o].tier # None => disk'[o].tier # None

\* A row stays and keeps its path; one that comes finds its bytes.
RowsStay ==
  /\ asset' \in [Owners -> [Shas -> AssetRow]]
  /\ \A o \in Owners, s \in Shas :
       /\ Kept(o, s) => Kept(o, s)' /\ asset'[o][s].path = asset[o][s].path
       /\ Kept(o, s)' /\ ~Kept(o, s) => Filed(o, s, asset'[o][s].path)

\* The three ways a row may have its bytes.
LEMMA BytesByPath ==
  ASSUME Typed, NEW o \in Owners, NEW s \in Shas
  PROVE  (IF asset[o][s].path = "tier" THEN Shown(o, s) # None ELSE Shown(o, s) = s)
           <=> Filed(o, s, asset[o][s].path)
<1>1. asset[o][s].path \in {"user_upload", "manual_seed", "tier"}
  BY DEF Typed, AssetRow
<1>2. s # None
  BY IconsAssumption
<1> QED
  BY <1>1, <1>2 DEF Shown, Filed

LEMMA BytesStay ==
  ASSUME IconsInv, FilesStay, RowsStay
  PROVE  RowsHaveBytes'
<1> SUFFICES ASSUME NEW o \in Owners, NEW s \in Shas, Kept(o, s)'
             PROVE  (IF asset[o][s].path = "tier" THEN Shown(o, s) # None
                                                  ELSE Shown(o, s) = s)'
  BY DEF RowsHaveBytes
<1>1. asset'[o][s].path \in {"user_upload", "manual_seed", "tier"} /\ s # None
  BY IconsAssumption DEF RowsStay, AssetRow
<1>2. Filed(o, s, asset'[o][s].path)
  <2>1. CASE Kept(o, s)
    <3>1. asset'[o][s].path = asset[o][s].path
      BY <2>1 DEF RowsStay
    <3>2. IF asset[o][s].path = "tier" THEN Shown(o, s) # None ELSE Shown(o, s) = s
      BY <2>1 DEF IconsInv, RowsHaveBytes
    <3> QED
      BY <3>1, <3>2, BytesByPath DEF IconsInv
  <2>2. CASE ~Kept(o, s)
    BY <2>2 DEF RowsStay
  <2> QED
    BY <2>1, <2>2
<1>3. CASE asset'[o][s].path = "user_upload"
  BY <1>1, <1>2, <1>3 DEF FilesStay, Shown, Filed
<1>4. CASE asset'[o][s].path = "manual_seed"
  BY <1>1, <1>2, <1>4 DEF FilesStay, Shown, Filed
<1>5. CASE asset'[o][s].path = "tier"
  BY <1>1, <1>2, <1>5 DEF FilesStay, Shown, Filed
<1> QED
  BY <1>1, <1>3, <1>4, <1>5

\* What a user may choose: an asset there is, or an id that names none.
Leads(o, s) == s = Stray \/ (s # None /\ Kept(o, s))

LEMMA StillHolds ==
  ASSUME FilesStay, RowsStay, NEW c, Holds(c)
  PROVE  Holds(c)'
BY DEF Holds, FilesStay, RowsStay

LEMMA StillKnows ==
  ASSUME FilesStay, RowsStay, NEW x \in AgentRow, Knows(x)
  PROVE  Knows(x)'
BY DEF Knows, FilesStay, RowsStay, AgentRow

\* A step that moves files and rows as above keeps the invariant when the
\* pointers are right after it and the one who acts holds what it says.
LEMMA StepKeeps ==
  ASSUME IconsInv, FilesStay, RowsStay,
         owner' \in [Owners -> OwnerRow], RetiredPointerHasCause',
         call' \in [Actors -> CallRow], agent' \in [Agents -> AgentRow],
         \A a \in Actors : call'[a] = call[a] \/ \E c : call'[a] = c /\ Holds(c)',
         \A g \in Agents : agent'[g] = agent[g] \/ \E x : agent'[g] = x /\ Knows(x)'
  PROVE  IconsInv'
<1>1. RowsHaveBytes'
  BY BytesStay
<1>2. ASSUME NEW a \in Actors
      PROVE  \E c : call'[a] = c /\ Holds(c)'
  <2>1. CASE call'[a] = call[a]
    <3>1. PICK c \in CallRow : c = call[a] /\ Holds(c)
      BY DEF IconsInv, Typed
    <3> QED
      BY <2>1, <3>1, StillHolds
  <2> QED
    BY <2>1
<1>3. ASSUME NEW g \in Agents
      PROVE  \E x : agent'[g] = x /\ Knows(x)'
  <2>1. CASE agent'[g] = agent[g]
    <3>1. PICK x \in AgentRow : x = agent[g] /\ Knows(x)
      BY DEF IconsInv, Typed
    <3> QED
      BY <2>1, <3>1, StillKnows
  <2> QED
    BY <2>1
<1>4. \A a \in Actors : Holds(call[a])'
  BY <1>2 DEF Holds
<1>5. \A g \in Agents : Knows(agent[g])'
  BY <1>3 DEF Knows
<1> QED
  BY <1>1, <1>2, <1>3, <1>4, <1>5 DEF IconsInv, Typed, FilesStay, RowsStay

----------------------------------------------------------------------------
(* What a step may do to pointers.                                         *)

\* An agent that may have retired a row goes on to pick, or never will.
StillACause(x, y) ==
  x.at \in {"pick", "dead"} =>
    y.at \in {"pick", "dead"} /\ y.owner = x.owner /\ y.seen = x.seen

\* No row is retired, and a pointer that is new leads to a live row or is the
\* user's.
LEMMA PointersStay ==
  ASSUME IconsInv, RowsStay,
         \A o \in Owners, s \in Shas :
           asset'[o][s].state = "retired" => asset[o][s].state = "retired",
         \A o \in Owners :
           \/ owner'[o] = owner[o]
           \/ owner'[o].preferred = None
           \/ owner'[o].chosen /\ Leads(o, owner'[o].preferred),
         owner' \in [Owners -> OwnerRow],
         \A g \in Agents : StillACause(agent[g], agent'[g])
  PROVE  RetiredPointerHasCause'
<1>0. ASSUME NEW o \in Owners, owner'[o].preferred = Stray
      PROVE  owner'[o].chosen
  BY <1>0, IconsAssumption DEF IconsInv, RetiredPointerHasCause, IconsAssumption
<1> SUFFICES ASSUME NEW o \in Owners, NEW s \in {owner'[o].preferred} \ {None, Stray}
             PROVE  /\ Kept(o, s)'
                    /\ asset'[o][s].state = "retired" =>
                         \/ owner'[o].chosen
                         \/ \E g \in Agents : /\ agent'[g].at \in {"pick", "dead"}
                                              /\ agent'[g].owner = o /\ s \in agent'[g].seen
  BY <1>0 DEF RetiredPointerHasCause
<1>1. s \in Shas
  BY DEF OwnerRow
<1>2. CASE owner'[o] = owner[o]
  <2>1. /\ Kept(o, s)
        /\ asset[o][s].state = "retired" =>
             \/ owner[o].chosen
             \/ \E g \in Agents : /\ agent[g].at \in {"pick", "dead"}
                                  /\ agent[g].owner = o /\ s \in agent[g].seen
    BY <1>2 DEF IconsInv, RetiredPointerHasCause
  <2> QED
    BY <1>1, <1>2, <2>1 DEF RowsStay, StillACause
<1>3. CASE owner'[o].chosen /\ Leads(o, owner'[o].preferred)
  BY <1>1, <1>3 DEF RowsStay, Leads
<1> QED
  BY <1>2, <1>3

\* A request's step that leaves the agents alone and retires nothing.
LEMMA RequestKeeps ==
  ASSUME IconsInv, FilesStay, RowsStay, UNCHANGED agent,
         \A o \in Owners, s \in Shas :
           asset'[o][s].state = "retired" => asset[o][s].state = "retired",
         owner' \in [Owners -> OwnerRow],
         \A o \in Owners :
           \/ owner'[o] = owner[o]
           \/ owner'[o].preferred = None
           \/ owner'[o].chosen /\ Leads(o, owner'[o].preferred),
         NEW a \in Actors, NEW c \in CallRow, Go(a, c), Holds(c)'
  PROVE  IconsInv'
<1>1. RetiredPointerHasCause'
  BY PointersStay DEF StillACause
<1>2. call' \in [Actors -> CallRow]
  BY DEF IconsInv, Typed, Go
<1>3. \A b \in Actors : call'[b] = call[b] \/ \E x : call'[b] = x /\ Holds(x)'
  BY DEF IconsInv, Typed, Go
<1>4. agent' \in [Agents -> AgentRow]
  BY DEF IconsInv, Typed
<1> QED
  BY <1>1, <1>2, <1>3, <1>4, StepKeeps

LEMMA NothingMoves ==
  ASSUME Typed, UNCHANGED <<asset, disk>>
  PROVE  /\ FilesStay /\ RowsStay
         /\ \A o \in Owners, s \in Shas :
              asset'[o][s].state = "retired" => asset[o][s].state = "retired"
BY DEF Typed, FilesStay, RowsStay, Kept

LEMMA QuietHolds == Quiet \in CallRow /\ Holds(Quiet)'
BY DEF Quiet, CallRow, CallSteps, Holds

\* A request that begins, or goes on to its next statement.
LEMMA Moves ==
  ASSUME NEW at \in CallSteps, NEW o \in Owners, NEW s \in Shas,
         NEW c, c = [at |-> at, owner |-> o, sha |-> s]
  PROVE  c \in CallRow /\ c.at = at /\ c.owner = o /\ c.sha = s
BY DEF CallRow

LEMMA Onwards ==
  ASSUME Typed, NEW a \in Actors, NEW at \in CallSteps,
         call[a].at # "idle", Holds(call[a])
  PROVE  /\ call[a].owner \in Owners /\ call[a].sha \in Shas
         /\ [call[a] EXCEPT !.at = at]
              = [at |-> at, owner |-> call[a].owner, sha |-> call[a].sha]
BY DEF Typed, CallRow, Holds

----------------------------------------------------------------------------
(* The requests.                                                           *)

\* A step of a request that leaves rows, files and owners alone.
LEMMA Advances ==
  ASSUME IconsInv, UNCHANGED <<owner, asset, disk, agent>>,
         NEW a \in Actors, NEW c \in CallRow, Go(a, c), Holds(c)
  PROVE  IconsInv'
<1>1. FilesStay /\ RowsStay
      /\ \A o \in Owners, s \in Shas :
           asset'[o][s].state = "retired" => asset[o][s].state = "retired"
  BY NothingMoves DEF IconsInv
<1>2. Holds(c)'
  BY <1>1, StillHolds
<1>3. owner' \in [Owners -> OwnerRow] /\ \A o \in Owners : owner'[o] = owner[o]
  BY DEF IconsInv, Typed
<1> QED
  BY <1>1, <1>2, <1>3, RequestKeeps

\* A request's last step, which may write the owner's row.
LEMMA Ends ==
  ASSUME IconsInv, UNCHANGED <<asset, disk, agent>>, NEW a \in Actors, Go(a, Quiet),
         NEW o \in Owners, NEW r \in OwnerRow, owner' = [owner EXCEPT ![o] = r],
         r = owner[o] \/ r.preferred = None \/ (r.chosen /\ Leads(o, r.preferred))
  PROVE  IconsInv'
<1>1. FilesStay /\ RowsStay
      /\ \A e \in Owners, s \in Shas :
           asset'[e][s].state = "retired" => asset[e][s].state = "retired"
  BY NothingMoves DEF IconsInv
<1>2. owner' \in [Owners -> OwnerRow]
      /\ \A e \in Owners : \/ owner'[e] = owner[e]
                           \/ owner'[e].preferred = None
                           \/ owner'[e].chosen /\ Leads(e, owner'[e].preferred)
  BY DEF IconsInv, Typed
<1> QED
  BY <1>1, <1>2, QuietHolds, RequestKeeps

LEMMA UploadStep ==
  ASSUME IconsInv, NEW a \in Actors, NEW owners \in SUBSET Owners, Upload(a, owners)
  PROVE  IconsInv'
<1>1. PICK o \in owners, s \in Shas, at \in {"write", "revive", "choose"} :
        /\ Go(a, [at |-> at, owner |-> o, sha |-> s])
        /\ at # "write" => Kept(o, s)
  <2>1. PICK o \in owners, s \in Shas :
          Go(a, [at |-> CASE asset[o][s].state = "absent"  -> "write"
                          [] asset[o][s].state = "retired" -> "revive"
                          [] asset[o][s].state = "live"    -> "choose",
                 owner |-> o, sha |-> s])
    BY DEF Upload
  <2>2. asset[o][s].state \in {"absent", "live", "retired"}
    BY DEF IconsInv, Typed, AssetRow
  <2> QED
    BY <2>1, <2>2 DEF Kept
<1>2. PICK c : c = [at |-> at, owner |-> o, sha |-> s]
  OBVIOUS
<1>3. at \in CallSteps /\ o \in Owners
  BY DEF CallSteps
<1>4. c \in CallRow /\ c.at = at /\ c.owner = o /\ c.sha = s
  BY <1>2, <1>3, Moves
<1>5. Holds(c)
  BY <1>1, <1>3, <1>4 DEF Holds
<1> QED
  BY <1>1, <1>2, <1>4, <1>5, Advances DEF Upload

\* A request or a seeding that goes on to its next statement.
LEMMA Goes ==
  ASSUME IconsInv, NEW a \in Actors, NEW at \in CallSteps, call[a].at # "idle", Onward(a, at)
  PROVE  \E c \in CallRow : /\ Go(a, c) /\ c.at = at
                            /\ c.owner = call[a].owner /\ c.sha = call[a].sha
                            /\ c.owner \in Owners /\ c.sha \in Shas
<1>1. Typed /\ Holds(call[a])
  BY DEF IconsInv
<1>2. PICK o \in Owners, s \in Shas : o = call[a].owner /\ s = call[a].sha
  BY <1>1, Onwards
<1>3. PICK c : c = [at |-> at, owner |-> o, sha |-> s]
  OBVIOUS
<1>4. Go(a, c)
  BY <1>1, <1>2, <1>3, Onwards DEF Onward
<1> QED
  BY <1>2, <1>3, <1>4, Moves

\* The row an UPDATE of the state leaves.
LEMMA StateSet ==
  ASSUME NEW r \in AssetRow, NEW st \in {"absent", "live", "retired"}
  PROVE  \E q \in AssetRow : q = [r EXCEPT !.state = st] /\ q.state = st /\ q.path = r.path
<1>1. r = [state |-> r.state, path |-> r.path, user |-> r.user, score |-> r.score]
  BY DEF AssetRow
<1>2. PICK q : q = [r EXCEPT !.state = st]
  OBVIOUS
<1>3. q = [state |-> st, path |-> r.path, user |-> r.user, score |-> r.score]
  BY <1>1, <1>2
<1>4. q \in AssetRow
  BY <1>3 DEF AssetRow
<1> QED
  BY <1>2, <1>3, <1>4

\* A row that comes to life again.
LEMMA ReviveStep ==
  ASSUME IconsInv, NEW a \in Actors, Revive(a)
  PROVE  IconsInv'
<1>0. Typed /\ Holds(call[a])
  BY DEF IconsInv
<1>1. PICK c \in CallRow : /\ Go(a, c) /\ c.at = "choose"
                          /\ c.owner = call[a].owner /\ c.sha = call[a].sha
                          /\ c.owner \in Owners /\ c.sha \in Shas
  BY Goes DEF Revive, CallSteps
<1>2. asset' = [asset EXCEPT ![c.owner][c.sha].state = "live"] /\ Kept(c.owner, c.sha)
  BY <1>0, <1>1 DEF Revive, Holds
<1>3. PICK r \in AssetRow : r = asset[c.owner][c.sha] /\ r.state # "absent"
  BY <1>0, <1>1, <1>2 DEF Typed, Kept
<1>4. PICK q \in AssetRow : /\ q = [r EXCEPT !.state = "live"]
                           /\ q.state = "live" /\ q.path = r.path
  BY StateSet
<1>5. /\ asset' \in [Owners -> [Shas -> AssetRow]]
      /\ asset'[c.owner][c.sha] = q
      /\ \A o \in Owners, s \in Shas :
           asset'[o][s] = asset[o][s] \/ (o = c.owner /\ s = c.sha)
  BY <1>0, <1>1, <1>2, <1>3, <1>4 DEF Typed
<1>6. RowsStay
  BY <1>2, <1>3, <1>4, <1>5 DEF RowsStay, Kept
<1>7. FilesStay
  BY <1>0 DEF FilesStay, Revive, Typed
<1>8. Holds(c)'
  BY <1>1, <1>2, <1>6 DEF Holds, RowsStay
<1>9. owner' \in [Owners -> OwnerRow] /\ \A o \in Owners : owner'[o] = owner[o]
  BY <1>0 DEF Typed, Revive
<1>10. \A o \in Owners, s \in Shas :
         asset'[o][s].state = "retired" => asset[o][s].state = "retired"
  BY <1>4, <1>5
<1> QED
  BY <1>1, <1>6, <1>7, <1>8, <1>9, <1>10, RequestKeeps DEF Revive

\* A file that is written, over what was there or beside it.
LEMMA FileWritten ==
  ASSUME Typed, NEW o \in Owners, NEW g \in Files, disk' = [disk EXCEPT ![o] = g]
  PROVE  /\ disk' \in [Owners -> Files] /\ disk'[o] = g
         /\ \A e \in Owners : e # o => disk'[e] = disk[e]
<1>1. disk \in [Owners -> Files]
  BY DEF Typed
<1> QED
  BY <1>1

\* The file of an upload, and the file of a seeding.
LEMMA WriteFileStep ==
  ASSUME IconsInv, NEW a \in Actors, WriteFile(a)
  PROVE  IconsInv'
<1>0. Typed /\ Holds(call[a])
  BY DEF IconsInv
<1>1. PICK c \in CallRow : /\ Go(a, c) /\ c.at = "insert"
                          /\ c.owner = call[a].owner /\ c.sha = call[a].sha
                          /\ c.owner \in Owners /\ c.sha \in Shas
  BY Goes DEF WriteFile, CallSteps
<1>2. PICK o \in Owners, s \in Shas, f \in Files :
        o = c.owner /\ s = c.sha /\ f = disk[o]
  BY <1>0, <1>1 DEF Typed
<1>3. f = [user_upload |-> f.user_upload, manual_seed |-> f.manual_seed, tier |-> f.tier]
  BY DEF Files
<1>4. PICK g : g = [user_upload |-> f.user_upload \cup {s}, manual_seed |-> f.manual_seed,
                  tier |-> f.tier]
  OBVIOUS
<1>5. g \in Files
  BY <1>4 DEF Files
<1>6. g = [f EXCEPT !.user_upload = f.user_upload \cup {s}]
  BY <1>3, <1>4
<1>7. disk' = [disk EXCEPT ![o] = g]
  BY <1>0, <1>1, <1>2, <1>6 DEF WriteFile, Typed
<1>8. /\ f.user_upload \subseteq g.user_upload /\ f.manual_seed \subseteq g.manual_seed
      /\ g.tier = f.tier /\ s \in g.user_upload
  BY <1>4
<1>9. FilesStay /\ disk'[o] = g
  <2>1. /\ disk' \in [Owners -> Files] /\ disk'[o] = g
        /\ \A e \in Owners : e # o => disk'[e] = disk[e]
    BY <1>0, <1>5, <1>7, FileWritten
  <2> QED
    BY <1>2, <1>8, <2>1 DEF FilesStay
<1>10. UNCHANGED <<owner, asset, agent>>
  BY DEF WriteFile
<1>11. RowsStay /\ \A e \in Owners, t \in Shas :
                   asset'[e][t].state = "retired" => asset[e][t].state = "retired"
  BY <1>0, <1>10 DEF RowsStay, Kept, Typed
<1>12. c.at = "insert" /\ c.owner \in Owners /\ c.sha \in Shas
       /\ c.sha \in disk'[c.owner].user_upload
  BY <1>1, <1>2, <1>8, <1>9
<1>13. Holds(c)'
  BY <1>12 DEF Holds
<1>14. owner' \in [Owners -> OwnerRow] /\ \A e \in Owners : owner'[e] = owner[e]
  BY <1>0, <1>10 DEF Typed
<1> QED
  BY <1>1, <1>9, <1>10, <1>11, <1>13, <1>14, RequestKeeps

LEMMA SeedWriteStep ==
  ASSUME IconsInv, NEW a \in Actors, SeedWrite(a)
  PROVE  IconsInv'
<1>0. Typed /\ Holds(call[a])
  BY DEF IconsInv
<1>1. PICK c \in CallRow : /\ Go(a, c) /\ c.at = "seedInsert"
                          /\ c.owner = call[a].owner /\ c.sha = call[a].sha
                          /\ c.owner \in Owners /\ c.sha \in Shas
  BY Goes DEF SeedWrite, CallSteps
<1>2. PICK o \in Owners, s \in Shas, f \in Files :
        o = c.owner /\ s = c.sha /\ f = disk[o]
  BY <1>0, <1>1 DEF Typed
<1>3. f = [user_upload |-> f.user_upload, manual_seed |-> f.manual_seed, tier |-> f.tier]
  BY DEF Files
<1>4. PICK g : g = [user_upload |-> f.user_upload, manual_seed |-> f.manual_seed \cup {s},
                  tier |-> f.tier]
  OBVIOUS
<1>5. g \in Files
  BY <1>4 DEF Files
<1>6. g = [f EXCEPT !.manual_seed = f.manual_seed \cup {s}]
  BY <1>3, <1>4
<1>7. disk' = [disk EXCEPT ![o] = g]
  BY <1>0, <1>1, <1>2, <1>6 DEF SeedWrite, Typed
<1>8. /\ f.user_upload \subseteq g.user_upload /\ f.manual_seed \subseteq g.manual_seed
      /\ g.tier = f.tier /\ s \in g.manual_seed
  BY <1>4
<1>9. FilesStay /\ disk'[o] = g
  <2>1. /\ disk' \in [Owners -> Files] /\ disk'[o] = g
        /\ \A e \in Owners : e # o => disk'[e] = disk[e]
    BY <1>0, <1>5, <1>7, FileWritten
  <2> QED
    BY <1>2, <1>8, <2>1 DEF FilesStay
<1>10. UNCHANGED <<owner, asset, agent>>
  BY DEF SeedWrite
<1>11. RowsStay /\ \A e \in Owners, t \in Shas :
                   asset'[e][t].state = "retired" => asset[e][t].state = "retired"
  BY <1>0, <1>10 DEF RowsStay, Kept, Typed
<1>12. c.at = "seedInsert" /\ c.owner \in Owners /\ c.sha \in Shas
       /\ c.sha \in disk'[c.owner].manual_seed
  BY <1>1, <1>2, <1>8, <1>9
<1>13. Holds(c)'
  BY <1>12 DEF Holds
<1>14. owner' \in [Owners -> OwnerRow] /\ \A e \in Owners : owner'[e] = owner[e]
  BY <1>0, <1>10 DEF Typed
<1> QED
  BY <1>1, <1>9, <1>10, <1>11, <1>13, <1>14, RequestKeeps

\* A row that is inserted, where there was none, after its file.
LEMMA RowComes ==
  ASSUME Typed, NEW o \in Owners, NEW s \in Shas, ~Kept(o, s),
         NEW r \in AssetRow, r.state = "live", Filed(o, s, r.path),
         asset' = [asset EXCEPT ![o][s] = r]
  PROVE  /\ RowsStay /\ Kept(o, s)'
         /\ \A e \in Owners, t \in Shas :
              asset'[e][t].state = "retired" => asset[e][t].state = "retired"
<1>1. /\ asset' \in [Owners -> [Shas -> AssetRow]]
      /\ asset'[o][s] = r
      /\ \A e \in Owners, t \in Shas :
           asset'[e][t] = asset[e][t] \/ (e = o /\ t = s)
  BY DEF Typed
<1> QED
  BY <1>1 DEF RowsStay, Kept

\* An INSERT of an upload or of the seed, which may find the row there.
LEMMA InsertsStep ==
  ASSUME IconsInv, NEW a \in Actors, InsertAsset(a) \/ SeedInsert(a)
  PROVE  IconsInv'
<1>0. Typed /\ Holds(call[a])
  BY DEF IconsInv
<1>1. PICK at \in {"choose", "seedPoint"} : call[a].at # "idle" /\ Onward(a, at)
  BY DEF InsertAsset, SeedInsert
<1>2. PICK c \in CallRow : /\ Go(a, c) /\ c.at = at
                          /\ c.owner = call[a].owner /\ c.sha = call[a].sha
                          /\ c.owner \in Owners /\ c.sha \in Shas
  BY <1>1, Goes DEF CallSteps
<1>3. UNCHANGED <<owner, disk, agent>>
  BY DEF InsertAsset, SeedInsert
<1>4. FilesStay
  BY <1>0, <1>3 DEF FilesStay, Typed
<1>5. /\ RowsStay /\ Kept(c.owner, c.sha)'
      /\ \A o \in Owners, s \in Shas :
           asset'[o][s].state = "retired" => asset[o][s].state = "retired"
  <2>1. CASE Kept(c.owner, c.sha)
    <3>1. UNCHANGED asset
      BY <1>2, <2>1 DEF InsertAsset, SeedInsert
    <3> QED
      BY <1>0, <1>2, <1>3, <2>1, <3>1, NothingMoves DEF Kept
  <2>2. CASE ~Kept(c.owner, c.sha)
    <3>1. PICK r \in AssetRow : /\ r.state = "live" /\ Filed(c.owner, c.sha, r.path)
                               /\ asset' = [asset EXCEPT ![c.owner][c.sha] = r]
      <4>1. CASE InsertAsset(a)
        <5>1. PICK r : r = [state |-> "live", path |-> "user_upload", user |-> TRUE, score |-> "none"]
          OBVIOUS
        <5>2. r \in AssetRow
          BY <5>1 DEF AssetRow
        <5>3. asset' = [asset EXCEPT ![c.owner][c.sha] = r]
          BY <1>2, <4>1, <5>1 DEF InsertAsset
        <5>4. Filed(c.owner, c.sha, r.path)
          BY <1>0, <1>2, <4>1, <5>1 DEF InsertAsset, Filed, Holds
        <5> QED
          BY <5>1, <5>2, <5>3, <5>4
      <4>2. CASE SeedInsert(a)
        <5>1. PICK r : r = [NoAsset EXCEPT !.state = "live", !.path = "manual_seed"]
          OBVIOUS
        <5>2. r \in AssetRow /\ r.state = "live" /\ r.path = "manual_seed"
          BY <5>1 DEF AssetRow, NoAsset
        <5>3. asset' = [asset EXCEPT ![c.owner][c.sha] = r]
          BY <1>2, <2>2, <4>2, <5>1 DEF SeedInsert
        <5>4. Filed(c.owner, c.sha, r.path)
          BY <1>0, <1>2, <4>2, <5>2 DEF SeedInsert, Filed, Holds
        <5> QED
          BY <5>2, <5>3, <5>4
      <4> QED
        BY <4>1, <4>2
    <3> QED
      BY <1>0, <1>2, <2>2, <3>1, RowComes
  <2> QED
    BY <2>1, <2>2
<1>6. Holds(c)'
  BY <1>1, <1>2, <1>5 DEF Holds
<1>7. owner' \in [Owners -> OwnerRow] /\ \A o \in Owners : owner'[o] = owner[o]
  BY <1>0, <1>3 DEF Typed
<1> QED
  BY <1>2, <1>3, <1>4, <1>5, <1>6, <1>7, RequestKeeps

\* The owner's row a choice leaves.
LEMMA Chosen ==
  ASSUME NEW s \in Shas \cup {Stray}
  PROVE  \E r \in OwnerRow : /\ r = [preferred |-> s, chosen |-> TRUE]
                             /\ r.preferred = s /\ r.chosen
<1>1. PICK r : r = [preferred |-> s, chosen |-> TRUE]
  OBVIOUS
<1>2. r \in OwnerRow
  BY <1>1 DEF OwnerRow
<1> QED
  BY <1>1, <1>2

\* The choice of an upload, and of the seed where the user has not chosen.
LEMMA ChoiceStep ==
  ASSUME IconsInv, NEW a \in Actors, Choose(a) \/ SeedPoint(a)
  PROVE  IconsInv'
<1>0. Typed /\ Holds(call[a])
  BY DEF IconsInv
<1>1. PICK o \in Owners, s \in Shas : o = call[a].owner /\ s = call[a].sha /\ Kept(o, s)
  BY <1>0 DEF Holds, Choose, SeedPoint
<1>2. Go(a, Quiet) /\ UNCHANGED <<asset, disk, agent>>
  BY DEF Choose, SeedPoint
<1>3. CASE owner' = [owner EXCEPT ![o] = [preferred |-> s, chosen |-> TRUE]]
  <2>1. PICK r \in OwnerRow : r = [preferred |-> s, chosen |-> TRUE] /\ r.preferred = s /\ r.chosen
    BY Chosen
  <2>2. Leads(o, s)
    BY <1>1, IconsAssumption DEF IconsAssumption, Leads
  <2> QED
    BY <1>2, <1>3, <2>1, <2>2, Ends
<1>4. CASE UNCHANGED owner
  BY <1>2, <1>4, QuietHolds, Advances DEF Quiet, Holds
<1> QED
  BY <1>1, <1>3, <1>4 DEF Choose, SeedPoint

\* PATCH writes the owner's row and is done at once.
LEMMA PatchStep ==
  ASSUME IconsInv, NEW a \in Actors, NEW owners \in SUBSET Owners, PatchPreferred(a, owners)
  PROVE  IconsInv'
<1>0. Typed
  BY DEF IconsInv
<1>1. call[a] = Quiet /\ UNCHANGED <<asset, disk, call, agent>>
  BY DEF PatchPreferred
<1>2. Go(a, Quiet)
  BY <1>0, <1>1 DEF Go, Typed
<1>3. PICK o \in owners : \/ owner' = [owner EXCEPT ![o].preferred = None]
                         \/ \E s \in {r \in Shas : Kept(o, r)} \cup {Stray} :
                              owner' = [owner EXCEPT ![o] = [preferred |-> s, chosen |-> TRUE]]
  BY DEF PatchPreferred
<1>4. CASE owner' = [owner EXCEPT ![o].preferred = None]
  <2>1. PICK q \in OwnerRow : q = owner[o]
    BY <1>0 DEF Typed
  <2>2. PICK r : r = [preferred |-> None, chosen |-> q.chosen]
    OBVIOUS
  <2>3. r \in OwnerRow /\ r.preferred = None
    BY <2>2 DEF OwnerRow
  <2>4. r = [q EXCEPT !.preferred = None]
    BY <2>2 DEF OwnerRow
  <2>5. owner' = [owner EXCEPT ![o] = r]
    BY <1>0, <1>4, <2>1, <2>4 DEF Typed
  <2> QED
    BY <1>1, <1>2, <2>3, <2>5, Ends
<1>5. ASSUME NEW s \in {r \in Shas : Kept(o, r)} \cup {Stray},
             owner' = [owner EXCEPT ![o] = [preferred |-> s, chosen |-> TRUE]]
      PROVE  IconsInv'
  <2>1. PICK r \in OwnerRow : r = [preferred |-> s, chosen |-> TRUE] /\ r.preferred = s /\ r.chosen
    BY Chosen
  <2>2. Leads(o, s)
    BY IconsAssumption DEF IconsAssumption, Leads
  <2> QED
    BY <1>1, <1>2, <1>5, <2>1, <2>2, Ends
<1> QED
  BY <1>3, <1>4, <1>5

LEMMA SeedStep ==
  ASSUME IconsInv, NEW a \in Actors, Seed(a)
  PROVE  IconsInv'
<1>1. PICK o \in Products, s \in Shas :
        Go(a, [at |-> "seedWrite", owner |-> o, sha |-> s])
  BY DEF Seed
<1>2. PICK c : c = [at |-> "seedWrite", owner |-> o, sha |-> s]
  OBVIOUS
<1>3. "seedWrite" \in CallSteps /\ o \in Owners
  BY DEF CallSteps, Owners
<1>4. c \in CallRow /\ c.at = "seedWrite" /\ c.owner = o /\ c.sha = s
  BY <1>2, <1>3, Moves
<1>5. Holds(c)
  BY <1>3, <1>4 DEF Holds
<1> QED
  BY <1>1, <1>2, <1>4, <1>5, Advances DEF Seed

LEMMA RequestStep ==
  ASSUME IconsInv, NEW a \in Actors, Request(a)
  PROVE  IconsInv'
<1>1. Brands \in SUBSET Owners /\ Products \in SUBSET Owners
  BY DEF Owners
<1>2. CASE UploadBrandAsset(a) \/ UploadProductAsset(a)
  BY <1>1, <1>2, UploadStep DEF UploadBrandAsset, UploadProductAsset
<1>3. CASE UpdateBrand(a) \/ UpdateProduct(a)
  BY <1>1, <1>3, PatchStep DEF UpdateBrand, UpdateProduct
<1>4. CASE Abort(a)
  <2>1. Quiet \in CallRow /\ Holds(Quiet)
    BY DEF Quiet, CallRow, CallSteps, Holds
  <2> QED
    BY <1>4, <2>1, Advances DEF Abort
<1> QED
  BY <1>2, <1>3, <1>4, ReviveStep, WriteFileStep, InsertsStep, ChoiceStep, SeedStep,
     SeedWriteStep
     DEF Request

----------------------------------------------------------------------------
(* The agents.                                                             *)

\* An agent's step; its pointers are for the step to show.
LEMMA AgentKeeps ==
  ASSUME IconsInv, FilesStay, RowsStay, UNCHANGED call,
         owner' \in [Owners -> OwnerRow], RetiredPointerHasCause',
         NEW g \in Agents, NEW x \in AgentRow, Turn(g, x), Knows(x)'
  PROVE  IconsInv'
<1>1. agent' \in [Agents -> AgentRow]
  BY DEF IconsInv, Typed, Turn
<1>2. \A h \in Agents : agent'[h] = agent[h] \/ \E y : agent'[h] = y /\ Knows(y)'
  BY DEF IconsInv, Typed, Turn
<1>3. call' \in [Actors -> CallRow] /\ \A a \in Actors : call'[a] = call[a]
  BY DEF IconsInv, Typed
<1> QED
  BY <1>1, <1>2, <1>3, StepKeeps

\* One that retires nothing, and forgets nothing it has retired.
LEMMA AgentLooks ==
  ASSUME IconsInv, FilesStay, RowsStay, UNCHANGED <<owner, call>>,
         \A o \in Owners, s \in Shas :
           asset'[o][s].state = "retired" => asset[o][s].state = "retired",
         NEW g \in Agents, NEW x \in AgentRow, Turn(g, x), Knows(x)',
         StillACause(agent[g], x)
  PROVE  IconsInv'
<1>1. owner' \in [Owners -> OwnerRow] /\ \A o \in Owners : owner'[o] = owner[o]
  BY DEF IconsInv, Typed
<1>2. \A h \in Agents : StillACause(agent[h], agent'[h])
  BY DEF IconsInv, Typed, Turn, StillACause
<1>3. RetiredPointerHasCause'
  BY <1>1, <1>2, PointersStay
<1> QED
  BY <1>1, <1>3, AgentKeeps

LEMMA AtRest == Idle \in AgentRow /\ Idle.at = "idle" /\ Knows(Idle) /\ Knows(Idle)'
BY DEF Idle, AgentRow, AgentSteps, Knows

\* An agent that goes on: what it becomes, field by field.
LEMMA AgentSet ==
  ASSUME NEW x \in AgentRow
  PROVE  \E u, o, s, n : x = [at |-> u, owner |-> o, sha |-> s, seen |-> n]
BY DEF AgentRow

LEMMA AgentTo ==
  ASSUME NEW at \in AgentSteps, NEW o \in Owners, NEW s \in Shas \cup {None},
         NEW seen \in SUBSET Shas,
         NEW y, y = [at |-> at, owner |-> o, sha |-> s, seen |-> seen]
  PROVE  y \in AgentRow /\ y.at = at /\ y.owner = o /\ y.sha = s /\ y.seen = seen
BY DEF AgentRow

LEMMA AgentIs ==
  ASSUME IconsInv, NEW g \in Agents, agent[g].at # "idle"
  PROVE  \E x \in AgentRow : /\ x = agent[g] /\ Knows(x)
                             /\ x.owner \in Owners /\ x.sha \in Shas \cup {None}
                             /\ x.seen \in SUBSET Shas
<1>1. PICK x \in AgentRow : x = agent[g] /\ Knows(x)
  BY DEF IconsInv, Typed
<1>2. x.sha \in Shas \cup {None} /\ x.seen \in SUBSET Shas
  BY DEF AgentRow
<1>3. x.owner \in Owners
  BY <1>1 DEF Knows
<1> QED
  BY <1>1, <1>2, <1>3

LEMMA GateStep ==
  ASSUME IconsInv, NEW g \in Agents, Gate(g)
  PROVE  IconsInv'
<1>1. PICK b \in Owners, at \in {"fetch", "look"} :
        agent[g] = Idle /\ Turn(g, [Idle EXCEPT !.at = at, !.owner = b])
  BY DEF Gate, Owners
<1>2. at \in AgentSteps
  BY DEF AgentSteps
<1>3. PICK y : y = [Idle EXCEPT !.at = at, !.owner = b]
  OBVIOUS
<1>4. y = [at |-> at, owner |-> b, sha |-> None, seen |-> {}]
  BY <1>3 DEF Idle
<1>5. y \in AgentRow /\ y.at = at /\ y.owner = b
  BY <1>2, <1>4, AgentTo
<1>6. Knows(y)' /\ StillACause(agent[g], y)
  BY <1>1, <1>5, AtRest DEF Knows, StillACause
<1>7. UNCHANGED <<owner, asset, disk, call>> /\ Turn(g, y)
  BY <1>1, <1>3 DEF Gate
<1> QED
  BY <1>5, <1>6, <1>7, NothingMoves, AgentLooks DEF IconsInv

\* A fetch that finds something puts it under the name of its source.
LEMMA FetchStep ==
  ASSUME IconsInv, NEW g \in Agents, FetchIcon(g)
  PROVE  IconsInv'
<1>0. Typed /\ agent[g].at = "fetch"
  BY DEF IconsInv, FetchIcon
<1>1. PICK x \in AgentRow : /\ x = agent[g] /\ Knows(x)
                           /\ x.owner \in Owners /\ x.sha \in Shas \cup {None}
                           /\ x.seen \in SUBSET Shas
  BY <1>0, AgentIs
<1>2. UNCHANGED <<owner, asset, call>>
  BY DEF FetchIcon
<1>3. RowsStay /\ \A e \in Owners, t \in Shas :
                   asset'[e][t].state = "retired" => asset[e][t].state = "retired"
  BY <1>0, <1>2 DEF RowsStay, Kept, Typed
<1>4. "look" \in AgentSteps /\ "record" \in AgentSteps
  BY DEF AgentSteps
<1>5. CASE Turn(g, [x EXCEPT !.at = "look"]) /\ UNCHANGED disk
  <2>1. PICK y : y = [x EXCEPT !.at = "look"]
    OBVIOUS
  <2>2. y = [at |-> "look", owner |-> x.owner, sha |-> x.sha, seen |-> x.seen]
    <3>1. PICK u, o, s, n : x = [at |-> u, owner |-> o, sha |-> s, seen |-> n]
      BY AgentSet
    <3> QED
      BY <2>1, <3>1
  <2>3. y \in AgentRow /\ y.at = "look" /\ y.owner = x.owner
    BY <1>1, <1>4, <2>2, AgentTo
  <2>4. Knows(y)' /\ StillACause(agent[g], y)
    BY <1>0, <1>1, <2>3 DEF Knows, StillACause
  <2>5. FilesStay
    BY <1>0, <1>5 DEF FilesStay, Typed
  <2>6. Turn(g, y)
    BY <1>5, <2>1
  <2> QED
    BY <1>2, <1>3, <2>3, <2>4, <2>5, <2>6, AgentLooks
<1>6. ASSUME NEW t \in Shas, disk' = [disk EXCEPT ![x.owner].tier = t],
             Turn(g, [x EXCEPT !.at = "record", !.sha = t])
      PROVE  IconsInv'
  <2>1. PICK y : y = [x EXCEPT !.at = "record", !.sha = t]
    OBVIOUS
  <2>2. y = [at |-> "record", owner |-> x.owner, sha |-> t, seen |-> x.seen]
    <3>1. PICK u, o, s, n : x = [at |-> u, owner |-> o, sha |-> s, seen |-> n]
      BY AgentSet
    <3> QED
      BY <2>1, <3>1
  <2>3. y \in AgentRow /\ y.at = "record" /\ y.owner = x.owner /\ y.sha = t
    BY <1>1, <1>4, <2>2, AgentTo
  <2>4. PICK o \in Owners, f \in Files : o = x.owner /\ f = disk[o]
    BY <1>0, <1>1 DEF Typed
  <2>5. f = [user_upload |-> f.user_upload, manual_seed |-> f.manual_seed, tier |-> f.tier]
    BY DEF Files
  <2>6. PICK h : h = [user_upload |-> f.user_upload, manual_seed |-> f.manual_seed, tier |-> t]
    OBVIOUS
  <2>7. h \in Files
    BY <2>6 DEF Files
  <2>8. h = [f EXCEPT !.tier = t]
    BY <2>5, <2>6
  <2>9. disk' = [disk EXCEPT ![o] = h]
    BY <1>0, <1>6, <2>4, <2>8 DEF Typed
  <2>10. /\ disk' \in [Owners -> Files] /\ disk'[o] = h
         /\ \A e \in Owners : e # o => disk'[e] = disk[e]
    BY <1>0, <2>7, <2>9, FileWritten
  <2>11. t # None /\ h.tier = t
    BY <2>6, IconsAssumption
  <2>12. FilesStay
    BY <2>4, <2>6, <2>10, <2>11 DEF FilesStay
  <2>13. Knows(y)' /\ StillACause(agent[g], y)
    BY <1>0, <1>1, <2>3, <2>4, <2>10, <2>11 DEF Knows, StillACause
  <2>14. Turn(g, y)
    BY <1>6, <2>1
  <2> QED
    BY <1>2, <1>3, <2>3, <2>12, <2>13, <2>14, AgentLooks
<1> QED
  BY <1>1, <1>5, <1>6 DEF FetchIcon

\* INSERT ... ON CONFLICT.
LEMMA RecordStep ==
  ASSUME IconsInv, NEW g \in Agents, RecordIcon(g)
  PROVE  IconsInv'
<1>0. Typed /\ agent[g].at = "record"
  BY DEF IconsInv, RecordIcon
<1>1. PICK x \in AgentRow : /\ x = agent[g] /\ Knows(x)
                           /\ x.owner \in Owners /\ x.sha \in Shas \cup {None}
                           /\ x.seen \in SUBSET Shas
  BY <1>0, AgentIs
<1>2. PICK o \in Owners, s \in Shas : o = x.owner /\ s = x.sha /\ disk[o].tier # None
  BY <1>0, <1>1 DEF Knows
<1>3. UNCHANGED <<owner, disk, call>>
  BY DEF RecordIcon
<1>4. FilesStay
  BY <1>0, <1>3 DEF FilesStay, Typed
<1>5. RowsStay /\ \A e \in Owners, t \in Shas :
                   asset'[e][t].state = "retired" => asset[e][t].state = "retired"
  <2>1. CASE Kept(o, s)
    <3>1. UNCHANGED asset
      BY <1>1, <1>2, <2>1 DEF RecordIcon
    <3> QED
      BY <1>0, <1>3, <3>1, NothingMoves
  <2>2. CASE ~Kept(o, s)
    <3>1. PICK r : r = [NoAsset EXCEPT !.state = "live"]
      OBVIOUS
    <3>2. r \in AssetRow /\ r.state = "live" /\ r.path = "tier"
      BY <3>1 DEF AssetRow, NoAsset
    <3>3. asset' = [asset EXCEPT ![o][s] = r]
      BY <1>1, <1>2, <2>2, <3>1 DEF RecordIcon
    <3>4. Filed(o, s, r.path)
      BY <1>2, <3>2 DEF Filed
    <3> QED
      BY <1>0, <2>2, <3>2, <3>3, <3>4, RowComes
  <2> QED
    BY <2>1, <2>2
<1>6. PICK y : y = [x EXCEPT !.at = "look", !.sha = None]
  OBVIOUS
<1>7. y = [at |-> "look", owner |-> x.owner, sha |-> None, seen |-> x.seen]
  <2>1. PICK u, e, t, n : x = [at |-> u, owner |-> e, sha |-> t, seen |-> n]
    BY AgentSet
  <2> QED
    BY <1>6, <2>1
<1>8. "look" \in AgentSteps
  BY DEF AgentSteps
<1>9. y \in AgentRow /\ y.at = "look" /\ y.owner = x.owner
  BY <1>1, <1>7, <1>8, AgentTo
<1>10. Knows(y)' /\ StillACause(agent[g], y)
  BY <1>0, <1>1, <1>9 DEF Knows, StillACause
<1>11. Turn(g, y)
  BY <1>1, <1>6 DEF RecordIcon
<1> QED
  BY <1>3, <1>4, <1>5, <1>9, <1>10, <1>11, AgentLooks

LEMMA ListStep ==
  ASSUME IconsInv, NEW g \in Agents, ListCandidates(g)
  PROVE  IconsInv'
<1>0. Typed /\ agent[g].at = "look"
  BY DEF IconsInv, ListCandidates
<1>1. UNCHANGED <<owner, asset, disk, call>>
  BY DEF ListCandidates
<1>2. PICK x \in AgentRow : /\ x = agent[g] /\ Knows(x)
                           /\ x.owner \in Owners /\ x.sha \in Shas \cup {None}
                           /\ x.seen \in SUBSET Shas
  BY <1>0, AgentIs
<1>3. CASE Turn(g, Idle)
  <2>1. StillACause(agent[g], Idle)
    BY <1>0 DEF StillACause
  <2> QED
    BY <1>1, <1>3, <2>1, AtRest, NothingMoves, AgentLooks DEF IconsInv
<1>4. CASE Turn(g, [x EXCEPT !.at = "judge", !.seen = Live(x.owner)])
  <2>1. PICK live \in SUBSET Shas : live = Live(x.owner)
    BY DEF Live
  <2>2. PICK y : y = [x EXCEPT !.at = "judge", !.seen = live]
    OBVIOUS
  <2>3. y = [at |-> "judge", owner |-> x.owner, sha |-> x.sha, seen |-> live]
    <3>1. PICK u, o, s, n : x = [at |-> u, owner |-> o, sha |-> s, seen |-> n]
      BY AgentSet
    <3> QED
      BY <2>2, <3>1
  <2>4. "judge" \in AgentSteps
    BY DEF AgentSteps
  <2>5. y \in AgentRow /\ y.at = "judge" /\ y.owner = x.owner /\ y.seen = live
    BY <1>2, <2>3, <2>4, AgentTo
  <2>6. \A s \in live : Kept(x.owner, s)'
    BY <1>1, <2>1 DEF Live, Kept
  <2>7. Knows(y)' /\ StillACause(agent[g], y)
    BY <1>0, <1>2, <2>5, <2>6 DEF Knows, StillACause, Kept
  <2>8. Turn(g, y)
    BY <1>4, <2>1, <2>2
  <2> QED
    BY <1>1, <2>5, <2>7, <2>8, NothingMoves, AgentLooks DEF IconsInv
<1> QED
  BY <1>2, <1>3, <1>4 DEF ListCandidates

\* The row a judgement leaves.
LEMMA JudgedRow ==
  ASSUME NEW r \in AssetRow, NEW good, NEW bad
  PROVE  /\ Judged(r, good, bad) \in AssetRow
         /\ Judged(r, good, bad).path = r.path
         /\ Judged(r, good, bad).state \in {r.state, "retired"}
<1>1. PICK u \in {"absent", "live", "retired"}, n \in BOOLEAN,
           p \in {"user_upload", "manual_seed", "tier"}, v \in {"none", "low", "high"} :
        r = [state |-> u, path |-> p, user |-> n, score |-> v]
  BY DEF AssetRow
<1>2. PICK sc \in {"low", "high"} : sc = IF good THEN "high" ELSE "low"
  OBVIOUS
<1>3. PICK st \in {u, "retired"} : st = IF bad THEN "retired" ELSE u
  OBVIOUS
<1>4. PICK q : q = Judged(r, good, bad)
  OBVIOUS
<1>5. q = [state |-> st, path |-> p, user |-> n, score |-> sc]
  BY <1>1, <1>2, <1>3, <1>4 DEF Judged
<1>6. q \in AssetRow /\ q.path = p /\ q.state = st
  BY <1>5 DEF AssetRow
<1> QED
  BY <1>1, <1>4, <1>6

LEMMA JudgeStep ==
  ASSUME IconsInv, NEW g \in Agents, JudgeCandidates(g)
  PROVE  IconsInv'
<1>0. Typed /\ agent[g].at = "judge"
  BY DEF IconsInv, JudgeCandidates
<1>1. UNCHANGED <<owner, disk, call>>
  BY DEF JudgeCandidates
<1>2. PICK x \in AgentRow : /\ x = agent[g] /\ Knows(x)
                           /\ x.owner \in Owners /\ x.sha \in Shas \cup {None}
                           /\ x.seen \in SUBSET Shas
  BY <1>0, AgentIs
<1>3. PICK o \in Owners, seen \in SUBSET Shas :
        /\ o = x.owner /\ seen = x.seen /\ \A s \in seen : Kept(o, s)
        /\ o = agent[g].owner /\ seen = agent[g].seen
  BY <1>0, <1>2 DEF Knows
<1>4. PICK good, bad :
        asset' = [asset EXCEPT ![o] = Verdicts(o, seen, good, bad)]
  BY <1>3 DEF JudgeCandidates
<1>5. ASSUME NEW s \in seen
      PROVE  \E q \in AssetRow : /\ asset'[o][s] = q /\ q.path = asset[o][s].path
                                /\ q.state \in {asset[o][s].state, "retired"}
  <2>1. asset[o][s] \in AssetRow
    BY <1>0, <1>5 DEF Typed
  <2>2. asset'[o][s] = Judged(asset[o][s], s \in good, s \in bad)
    BY <1>0, <1>4, <1>5 DEF Typed, Verdicts
  <2> QED
    BY <2>1, <2>2, JudgedRow
<1>6. \A e \in Owners, s \in Shas :
        (e # o \/ s \notin seen) => asset'[e][s] = asset[e][s]
  BY <1>0, <1>4 DEF Typed, Verdicts
<1>7. ASSUME NEW e \in Owners, NEW s \in Shas
      PROVE  /\ asset'[e][s] \in AssetRow /\ asset'[e][s].path = asset[e][s].path
             /\ \/ asset'[e][s].state = asset[e][s].state
                \/ e = o /\ s \in seen /\ asset'[e][s].state = "retired"
  <2>1. CASE e = o /\ s \in seen
    BY <1>5, <2>1
  <2>2. CASE e # o \/ s \notin seen
    BY <1>0, <1>6, <2>2 DEF Typed
  <2> QED
    BY <2>1, <2>2
<1>8. asset' \in [Owners -> [Shas -> AssetRow]]
  <2>1. asset'[o] = Verdicts(o, seen, good, bad)
    BY <1>0, <1>4 DEF Typed
  <2>2. Verdicts(o, seen, good, bad) \in [Shas -> AssetRow]
    BY <1>7, <2>1 DEF Verdicts
  <2> QED
    BY <1>0, <1>4, <2>2 DEF Typed
<1>9. RowsStay /\ \A s \in seen : Kept(o, s)'
  BY <1>3, <1>7, <1>8 DEF RowsStay, Kept
<1>10. FilesStay
  BY <1>0, <1>1 DEF FilesStay, Typed
<1>11. PICK y : y = [x EXCEPT !.at = "pick"]
  OBVIOUS
<1>12. y = [at |-> "pick", owner |-> x.owner, sha |-> x.sha, seen |-> x.seen]
  <2>1. PICK u, v, w, n : x = [at |-> u, owner |-> v, sha |-> w, seen |-> n]
    BY AgentSet
  <2> QED
    BY <1>11, <2>1
<1>13. "pick" \in AgentSteps
  BY DEF AgentSteps
<1>14. y \in AgentRow /\ y.at = "pick" /\ y.owner = o /\ y.seen = seen
  BY <1>2, <1>3, <1>12, <1>13, AgentTo
<1>15. Turn(g, y)
  BY <1>2, <1>11 DEF JudgeCandidates
<1>16. Knows(y)'
  BY <1>9, <1>14 DEF Knows
<1>17. owner' \in [Owners -> OwnerRow]
  BY <1>0, <1>1 DEF Typed
<1>18. agent'[g] = y /\ \A h \in Agents : h # g => agent'[h] = agent[h]
  BY <1>0, <1>15 DEF Typed, Turn
<1>19. RetiredPointerHasCause'
  <2>0. \A e \in Owners : owner[e].preferred = Stray => owner[e].chosen
    BY DEF IconsInv, RetiredPointerHasCause
  <2> SUFFICES ASSUME NEW e \in Owners, NEW s \in {owner[e].preferred} \ {None, Stray}
               PROVE  /\ Kept(e, s)'
                      /\ asset'[e][s].state = "retired" =>
                           \/ owner[e].chosen
                           \/ \E h \in Agents : /\ agent'[h].at \in {"pick", "dead"}
                                                /\ agent'[h].owner = e /\ s \in agent'[h].seen
    BY <1>1, <2>0 DEF RetiredPointerHasCause
  <2>1. s \in Shas
    BY <1>0 DEF Typed, OwnerRow
  <2>2. /\ Kept(e, s)
        /\ asset[e][s].state = "retired" =>
             \/ owner[e].chosen
             \/ \E h \in Agents : /\ agent[h].at \in {"pick", "dead"}
                                  /\ agent[h].owner = e /\ s \in agent[h].seen
    BY DEF IconsInv, RetiredPointerHasCause
  <2>3. Kept(e, s)'
    BY <1>9, <2>1, <2>2 DEF RowsStay
  <2>4. CASE asset'[e][s].state = asset[e][s].state
    <3> SUFFICES ASSUME NEW h \in Agents, agent[h].at \in {"pick", "dead"},
                        agent[h].owner = e, s \in agent[h].seen
                 PROVE  \E i \in Agents : /\ agent'[i].at \in {"pick", "dead"}
                                         /\ agent'[i].owner = e /\ s \in agent'[i].seen
      BY <2>2, <2>3, <2>4
    <3>1. h # g
      BY <1>0
    <3> QED
      BY <1>18, <3>1
  <2>5. CASE e = o /\ s \in seen
    BY <1>14, <1>18, <2>3, <2>5
  <2> QED
    BY <1>7, <2>1, <2>4, <2>5
<1> QED
  BY <1>1, <1>9, <1>10, <1>14, <1>15, <1>16, <1>17, <1>19, AgentKeeps

LEMMA PickStep ==
  ASSUME IconsInv, NEW g \in Agents, Pick(g)
  PROVE  IconsInv'
<1>0. Typed /\ agent[g].at = "pick"
  BY DEF IconsInv, Pick
<1>1. UNCHANGED <<asset, disk, call>> /\ Turn(g, Idle)
  BY DEF Pick
<1>2. PICK o \in Owners : o = agent[g].owner
  BY <1>0, AgentIs
<1>3. \/ owner[o].chosen /\ UNCHANGED owner
      \/ owner' = [owner EXCEPT ![o].preferred = None]
      \/ \E s \in Live(o) : owner' = [owner EXCEPT ![o].preferred = s]
  BY <1>2 DEF Pick, Winners
<1>4. \E q \in OwnerRow :
        /\ owner' = [owner EXCEPT ![o] = q]
        /\ q.chosen \/ q.preferred = None \/ q.preferred \in Live(o)
        /\ q.chosen => q = owner[o] \/ q.preferred = None \/ q.preferred \in Live(o)
  <2>1. PICK r \in OwnerRow : r = owner[o]
    BY <1>0 DEF Typed
  <2>2. CASE owner[o].chosen /\ UNCHANGED owner
    <3>1. owner' = [owner EXCEPT ![o] = r]
      BY <1>0, <2>1, <2>2 DEF Typed
    <3> QED
      BY <2>1, <2>2, <3>1
  <2>3. ASSUME NEW p \in Live(o) \cup {None}, owner' = [owner EXCEPT ![o].preferred = p]
        PROVE  \E q \in OwnerRow :
                 /\ owner' = [owner EXCEPT ![o] = q]
                 /\ q.preferred = p
    <3>1. p \in Shas \cup {None}
      BY DEF Live
    <3>2. PICK q : q = [r EXCEPT !.preferred = p]
      OBVIOUS
    <3>3. q \in OwnerRow /\ q.preferred = p
      <4>1. PICK b \in BOOLEAN, u \in Shas \cup {None, Stray} : r = [preferred |-> u, chosen |-> b]
        BY DEF OwnerRow
      <4>2. q = [preferred |-> p, chosen |-> b]
        BY <3>2, <4>1
      <4> QED
        BY <3>1, <4>2 DEF OwnerRow
    <3>4. owner' = [owner EXCEPT ![o] = q]
      BY <1>0, <2>1, <2>3, <3>2 DEF Typed
    <3> QED
      BY <3>3, <3>4
  <2> QED
    BY <1>3, <2>2, <2>3
<1>5. PICK q \in OwnerRow :
        /\ owner' = [owner EXCEPT ![o] = q]
        /\ (q = owner[o] /\ q.chosen) \/ q.preferred = None \/ q.preferred \in Live(o)
  BY <1>4
<1>6. /\ owner' \in [Owners -> OwnerRow] /\ owner'[o] = q
      /\ \A e \in Owners : e # o => owner'[e] = owner[e]
  BY <1>0, <1>5 DEF Typed
<1>7. \A h \in Agents : h # g => agent'[h] = agent[h]
  BY <1>0, <1>1 DEF Typed, Turn
<1>8. RetiredPointerHasCause'
  <2>0. ASSUME NEW e \in Owners, owner'[e].preferred = Stray
        PROVE  owner'[e].chosen
    BY <1>5, <1>6, <2>0, IconsAssumption
       DEF IconsInv, RetiredPointerHasCause, IconsAssumption, Live
  <2> SUFFICES ASSUME NEW e \in Owners, NEW s \in {owner'[e].preferred} \ {None, Stray}
               PROVE  /\ Kept(e, s)
                      /\ asset[e][s].state = "retired" =>
                           \/ owner'[e].chosen
                           \/ \E h \in Agents : /\ agent'[h].at \in {"pick", "dead"}
                                                /\ agent'[h].owner = e /\ s \in agent'[h].seen
    BY <1>1, <2>0 DEF RetiredPointerHasCause, Kept
  <2>1. CASE owner'[e] = owner[e] /\ (e = o => owner[e].chosen)
    <3>1. /\ Kept(e, s)
          /\ asset[e][s].state = "retired" =>
               \/ owner[e].chosen
               \/ \E h \in Agents : /\ agent[h].at \in {"pick", "dead"}
                                    /\ agent[h].owner = e /\ s \in agent[h].seen
      BY <2>1 DEF IconsInv, RetiredPointerHasCause
    <3> QED
      BY <1>2, <1>7, <2>1, <3>1
  <2>2. CASE e = o /\ owner'[o].preferred \in Live(o)
    BY <2>2 DEF Live, Kept
  <2> QED
    BY <1>5, <1>6, <2>1, <2>2
<1>9. FilesStay /\ RowsStay
  BY <1>0, <1>1, NothingMoves
<1> QED
  BY <1>1, <1>6, <1>8, <1>9, AtRest, AgentKeeps

LEMMA DiesStep ==
  ASSUME IconsInv, NEW g \in Agents, AgentDies(g)
  PROVE  IconsInv'
<1>1. agent[g].at \notin {"idle", "dead"} /\ UNCHANGED <<owner, asset, disk, call>>
  BY DEF AgentDies
<1>2. PICK x \in AgentRow : /\ x = agent[g] /\ Knows(x)
                           /\ x.owner \in Owners /\ x.sha \in Shas \cup {None}
                           /\ x.seen \in SUBSET Shas
  BY <1>1, AgentIs
<1>3. CASE x.at = "pick"
  <2>1. PICK y : y = [x EXCEPT !.at = "dead"]
    OBVIOUS
  <2>2. y = [at |-> "dead", owner |-> x.owner, sha |-> x.sha, seen |-> x.seen]
    <3>1. PICK u, v, w, n : x = [at |-> u, owner |-> v, sha |-> w, seen |-> n]
      BY AgentSet
    <3> QED
      BY <2>1, <3>1
  <2>3. "dead" \in AgentSteps
    BY DEF AgentSteps
  <2>4. y \in AgentRow /\ y.at = "dead" /\ y.owner = x.owner /\ y.seen = x.seen
    BY <1>2, <2>2, <2>3, AgentTo
  <2>5. Knows(y)' /\ StillACause(agent[g], y)
    BY <1>1, <1>2, <1>3, <2>4 DEF Knows, StillACause, Kept
  <2>6. Turn(g, y)
    BY <1>2, <1>3, <2>1 DEF AgentDies
  <2> QED
    BY <1>1, <2>4, <2>5, <2>6, NothingMoves, AgentLooks DEF IconsInv
<1>4. CASE x.at # "pick"
  <2>1. Turn(g, Idle) /\ StillACause(agent[g], Idle)
    BY <1>1, <1>2, <1>4 DEF AgentDies, StillACause
  <2> QED
    BY <1>1, <2>1, AtRest, NothingMoves, AgentLooks DEF IconsInv
<1> QED
  BY <1>3, <1>4

----------------------------------------------------------------------------
LEMMA InitIcons == Init => IconsInv
<1> SUFFICES ASSUME Init
             PROVE  IconsInv
  OBVIOUS
<1>1. NoAsset \in AssetRow /\ NoAsset.state = "absent"
  BY DEF AssetRow, NoAsset
<1>2. NoFiles \in Files
  BY DEF NoFiles, Files
<1>3. Quiet \in CallRow /\ Holds(Quiet)
  BY DEF Quiet, CallRow, CallSteps, Holds
<1>4. [preferred |-> None, chosen |-> FALSE] \in OwnerRow
  BY DEF OwnerRow
<1>5. Typed
  BY <1>1, <1>2, <1>3, <1>4, AtRest DEF Init, Typed
<1>6. RowsHaveBytes
  BY <1>1 DEF Init, RowsHaveBytes, Kept
<1>7. \A o \in Owners : owner[o].preferred = None
  BY DEF Init
<1>8. RetiredPointerHasCause
  BY <1>7, IconsAssumption DEF RetiredPointerHasCause, IconsAssumption
<1> QED
  BY <1>3, <1>5, <1>6, <1>8, AtRest DEF Init, IconsInv

LEMMA IconsStep == IconsInv /\ [Next]_vars => IconsInv'
<1> SUFFICES ASSUME IconsInv, [Next]_vars
             PROVE  IconsInv'
  OBVIOUS
<1>1. CASE UNCHANGED vars
  BY <1>1 DEF vars, IconsInv, Typed, RowsHaveBytes, RetiredPointerHasCause, Holds, Knows,
              Kept, Shown
<1>2. ASSUME NEW g \in Agents, Ingest(g)
      PROVE  IconsInv'
  BY <1>2, GateStep, FetchStep, RecordStep, ListStep, JudgeStep, PickStep, DiesStep DEF Ingest
<1> QED
  BY <1>1, <1>2, RequestStep DEF Next

\* The invariant that ties rows, files, pointers and processes together.
THEOREM IconsIsInv == Spec => []IconsInv
  BY InitIcons, IconsStep, PTL DEF Spec

\* A row of brand_assets or product_assets never comes before its bytes, in
\* whatever order uploads, fetches and seedings write, and wherever they stop.
THEOREM BytesBeforeRows == Spec => []RowsHaveBytes
  BY IconsIsInv, PTL DEF IconsInv

\* The preferred pointer, which has no foreign key, leads to a row unless a
\* PATCH was given another id; to a retired one only by the user's choice or
\* an agent that has yet to pick.
THEOREM PointersHaveCause == Spec => []RetiredPointerHasCause
  BY IconsIsInv, PTL DEF IconsInv

\* No agent and no seed changes what the user chose.
THEOREM UsersChoiceStands == Spec => ChoiceStands
<1> DEFINE Stands == \A o \in Owners :
             (owner[o].chosen /\ owner'[o] # owner[o]) =>
               /\ owner'[o].chosen
               /\ agent' = agent
               /\ \A a \in Actors : call[a].at = "seedPoint" => call'[a] = call[a]
<1>1. IconsInv /\ [Next]_vars => [Stands]_vars
  <2> SUFFICES ASSUME IconsInv, Next, NEW o \in Owners, owner[o].chosen, owner'[o] # owner[o]
               PROVE  /\ owner'[o].chosen
                      /\ agent' = agent
                      /\ \A a \in Actors : call[a].at = "seedPoint" => call'[a] = call[a]
    OBVIOUS
  <2>0. Typed /\ owner[o] \in OwnerRow
    BY DEF IconsInv, Typed
  <2>1. ASSUME NEW g \in Agents, Ingest(g)
        PROVE  FALSE
    <3>1. CASE Pick(g)
      BY <2>0, <3>1 DEF Pick, Typed
    <3> QED
      BY <2>1, <3>1 DEF Ingest, Gate, FetchIcon, RecordIcon, ListCandidates, JudgeCandidates,
                        AgentDies
  <2>2. PICK a \in Actors : Request(a)
    BY <2>1 DEF Next
  <2>3. Choose(a) \/ UpdateBrand(a) \/ UpdateProduct(a) \/ SeedPoint(a)
    BY <2>2 DEF Request, UploadBrandAsset, UploadProductAsset, Upload, Revive, WriteFile,
                InsertAsset, Seed, SeedWrite, SeedInsert, Abort
  <2>4. CASE Choose(a)
    <3>1. owner' = [owner EXCEPT ![call[a].owner] = [preferred |-> call[a].sha, chosen |-> TRUE]]
          /\ call' = [call EXCEPT ![a] = Quiet] /\ agent' = agent /\ call[a].at = "choose"
      BY <2>4 DEF Choose, Go
    <3>2. owner'[o] = [preferred |-> call[a].sha, chosen |-> TRUE]
      BY <2>0, <3>1 DEF Typed
    <3> QED
      BY <2>0, <3>1, <3>2 DEF Typed
  <2>5. ASSUME NEW owners, PatchPreferred(a, owners)
        PROVE  /\ owner'[o].chosen /\ agent' = agent /\ call' = call
    <3>1. agent' = agent /\ call' = call
      BY <2>5 DEF PatchPreferred
    <3>2. PICK e : \/ owner' = [owner EXCEPT ![e].preferred = None]
                   \/ \E s : owner' = [owner EXCEPT ![e] = [preferred |-> s, chosen |-> TRUE]]
      BY <2>5 DEF PatchPreferred
    <3>3. CASE owner' = [owner EXCEPT ![e].preferred = None]
      <4>1. PICK q \in OwnerRow : q = owner[o] /\ q.chosen
        BY <2>0
      <4>2. owner'[o] = [q EXCEPT !.preferred = None]
        BY <2>0, <3>3, <4>1 DEF Typed
      <4>3. PICK b \in BOOLEAN, u \in Shas \cup {None, Stray} :
              q = [preferred |-> u, chosen |-> b] /\ b
        BY <4>1 DEF OwnerRow
      <4> QED
        BY <3>1, <4>2, <4>3
    <3>4. ASSUME NEW s, owner' = [owner EXCEPT ![e] = [preferred |-> s, chosen |-> TRUE]]
          PROVE  owner'[o].chosen
      BY <2>0, <3>4 DEF Typed
    <3> QED
      BY <3>1, <3>2, <3>3, <3>4
  <2>6. CASE SeedPoint(a)
    BY <2>0, <2>6 DEF SeedPoint, Typed
  <2> QED
    BY <2>3, <2>4, <2>5, <2>6 DEF UpdateBrand, UpdateProduct
<1> QED
  BY <1>1, IconsIsInv, PTL DEF Spec, ChoiceStands

===============================================================================
