------------------------------ MODULE Idempotency ------------------------------
(***************************************************************************)
(* The Idempotency-Key of POST /v1/transactions                            *)
(* (src/http/idempotency.ts): a reply is looked up by the key before the   *)
(* handler runs and stored after the response has gone out.  Nothing holds *)
(* the key in between, and the row of an expired key is never removed.     *)
(***************************************************************************)
EXTENDS Integers, Sequences

CONSTANTS
  Keys,
  Bodies,       \* request bodies, told apart by their hash
  Requests,     \* requests in flight at a time
  None,
  MaxPosts      \* bound: requests in a behaviour

ASSUME IdempotencyAssumption ==
  /\ None \notin Keys \cup Bodies
  /\ MaxPosts \in Nat

VARIABLES
  stored,    \* idempotency_keys
  made,      \* the transactions created, by the request they came from
  request,   \* requests that found no reply
  told,      \* the 201 replies that clients were given
  excused,   \* keys whose reply was not there to be found: in flight twice,
             \* not stored, or expired (recorded for the properties)
  posts

keyVars == <<stored, made, request, told, excused, posts>>

NoReply == [body |-> None, txn |-> 0, fresh |-> FALSE]
Waiting == [at |-> "idle", key |-> None, body |-> None, txn |-> 0]

InFlight(k) == \E r \in Requests : request[r].key = k
Put(r, q)   == request' = [request EXCEPT ![r] = q]
Excuse(ks)  == excused' = excused \cup ks

\* Mutant: a replay is not compared with the body it was stored for.
MatchesAny(k, b) == stored[k].fresh

Matches(k, b) == stored[k].fresh /\ stored[k].body = b

\* A stored reply is served again.
Replay(r) ==
  \E k \in Keys, b \in Bodies :
    /\ request[r] = Waiting /\ posts < MaxPosts /\ Matches(k, b)
    /\ told' = told \cup {[key |-> k, body |-> b, txn |-> stored[k].txn]}
    /\ posts' = posts + 1
    /\ UNCHANGED <<stored, made, request, excused>>

\* No row that has not expired: the handler runs.  (A row of another body is
\* answered with 409, which changes nothing.)
LookUpReply(r) ==
  \E k \in Keys, b \in Bodies :
    /\ request[r] = Waiting /\ posts < MaxPosts /\ ~stored[k].fresh
    /\ Put(r, [at |-> "run", key |-> k, body |-> b, txn |-> 0])
    /\ Excuse(IF InFlight(k) THEN {k} ELSE {})
    /\ posts' = posts + 1
    /\ UNCHANGED <<stored, made, told>>

\* createTransaction commits (see Ledger).
RunHandler(r) ==
  /\ request[r].at = "run"
  /\ made' = Append(made, [key |-> request[r].key, body |-> request[r].body])
  /\ Put(r, [request[r] EXCEPT !.at = "reply", !.txn = Len(made')])
  /\ UNCHANGED <<stored, told, excused, posts>>

\* It throws: the reply is a problem, which is not stored.
HandlerThrows(r) ==
  /\ request[r].at = "run"
  /\ Put(r, Waiting)
  /\ UNCHANGED <<stored, made, told, excused, posts>>

Reply(r) ==
  /\ request[r].at = "reply"
  /\ told' = told \cup {[key |-> request[r].key, body |-> request[r].body,
                         txn |-> request[r].txn]}
  /\ Put(r, [request[r] EXCEPT !.at = "store"])
  /\ UNCHANGED <<stored, made, excused, posts>>

\* The client is gone before the reply is out, so `finish' does not fire;
\* or the INSERT fails, which is logged only.
ReplyLost(r) ==
  /\ request[r].at \in {"reply", "store"}
  /\ Excuse({request[r].key})
  /\ Put(r, Waiting)
  /\ UNCHANGED <<stored, made, told, posts>>

\* Mutant: of the successful replies only a 200 is stored.
StoreReplyOk(r) ==
  /\ request[r].at = "store"
  /\ Put(r, Waiting)
  /\ UNCHANGED <<stored, made, told, excused, posts>>

\* ON CONFLICT DO NOTHING, also when the row that is there has expired.
StoreReply(r) ==
  LET k == request[r].key IN
  /\ request[r].at = "store"
  /\ stored' = IF stored[k] # NoReply THEN stored
               ELSE [stored EXCEPT ![k] = [body |-> request[r].body, txn |-> request[r].txn,
                                           fresh |-> TRUE]]
  /\ Put(r, Waiting)
  /\ UNCHANGED <<made, told, excused, posts>>

\* 24 hours pass.
Expire ==
  \E k \in Keys :
    /\ stored[k].fresh
    /\ stored' = [stored EXCEPT ![k].fresh = FALSE]
    /\ Excuse({k})
    /\ UNCHANGED <<made, request, told, posts>>

\* The process dies with its requests.
LoseRequests ==
  /\ Excuse({request[r].key : r \in {q \in Requests : request[q].txn # 0}})
  /\ request' = [r \in Requests |-> Waiting]
  /\ UNCHANGED <<stored, made, told, posts>>

KeysInit ==
  /\ stored = [k \in Keys |-> NoReply]
  /\ made = <<>> /\ told = {} /\ excused = {} /\ posts = 0
  /\ request = [r \in Requests |-> Waiting]

KeysNext ==
  \/ \E r \in Requests : \/ Replay(r) \/ LookUpReply(r) \/ RunHandler(r) \/ HandlerThrows(r)
                         \/ Reply(r) \/ ReplyLost(r) \/ StoreReply(r)
  \/ Expire

----------------------------------------------------------------------------
\* Whatever interleaves under one key, a client is shown the transaction that
\* was created from the body it sent: a replay never answers for another
\* request (src/http/idempotency.ts: `served verbatim', `hash differs: 409').
RepliesMatch ==
  \A x \in told : /\ x.txn \in DOMAIN made
                  /\ made[x.txn] = [key |-> x.key, body |-> x.body]

\* A key creates a second transaction only if its reply was not there to be
\* found: the requests overlapped, the reply got lost on its way into the
\* table, or it expired.
RepeatsHaveCause ==
  \A i, j \in DOMAIN made : (i # j /\ made[i].key = made[j].key) => made[i].key \in excused

\* What `key new: capture the response and persist it' says, also of a key
\* that has expired: when the reply is stored it can be replayed.  It cannot:
\* the expired row keeps the new one out of the table.
KeysRecover ==
  [][\A r \in Requests : StoreReply(r) => stored'[request[r].key].fresh]_keyVars
=============================================================================
