-------------------------------- MODULE Frontend --------------------------------
(***************************************************************************)
(* What the server process tells its clients: replies under a key and the  *)
(* stream of a batch, which share its memory and die with it, and lists    *)
(* that are fetched page by page, of which it keeps nothing.               *)
(***************************************************************************)
EXTENDS Idempotency, BatchStream, Pages

CONSTANT MaxCrashes   \* bound

VARIABLE crashes

vars == <<stored, made, request, told, excused, posts,
          batch, job, worker, emitted, stream, opens,
          list, order, row, at, cursor, seen, twice, steady, ends, writes, crashes>>

Init == KeysInit /\ StreamInit /\ PagesInit /\ crashes = 0

\* A bound: the clients of a behaviour post, follow the batch or fetch a list.
NotFollowing == batch = "pending" /\ opens = 0 /\ \A j \in Jobs : worker[j] = "mark"
Posting      == NotFollowing /\ at = "closed"
Following    == posts = 0 /\ at = "closed"
Listing      == NotFollowing /\ posts = 0

Crash ==
  /\ crashes < MaxCrashes /\ crashes' = crashes + 1
  /\ at = "closed"   \* it is nothing to a list
  /\ LoseRequests /\ LoseStreams
  /\ UNCHANGED pageVars

Next ==
  \/ Posting /\ KeysNext /\ UNCHANGED <<streamVars, pageVars, crashes>>
  \/ Following /\ StreamNext /\ UNCHANGED <<keyVars, pageVars, crashes>>
  \/ Listing /\ PagesNext /\ UNCHANGED <<keyVars, streamVars, crashes>>
  \/ Crash

Spec == Init /\ [][Next]_vars
=============================================================================
