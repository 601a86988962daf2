----------------------------- MODULE Reconcile -----------------------------
(***************************************************************************)
(* The reconciliation engine (src/reconcile/engine.ts, dedup.ts): what     *)
(* happens to the transactions of a batch once it is extracted.  A run     *)
(* looks for duplicates inside the batch and across batches, writes its    *)
(* findings as proposals, removes the certain ones itself, and leaves the  *)
(* rest for a user to apply or to reject.                                  *)
(*                                                                         *)
(* Every await is a step of its own: nothing in the engine runs in one     *)
(* database transaction, and runs of several batches (each is started fire *)
(* and forget) interleave with each other and with the users' requests.    *)
(*                                                                         *)
(* A transaction is named by a number: its place in the (created_at, id)   *)
(* order of the database.  Clock is created_at as the program reads it, in *)
(* milliseconds, in which two transactions may agree.  The document a      *)
(* transaction was read from bears its number.                             *)
(***************************************************************************)
EXTENDS Integers, SequencesExt

CONSTANTS
  Batches,
  Outside,      \* stands for source_ingest_id when no batch brought the row in
  Txns,
  BatchOf,      \* the batch whose agent writes the transaction, or Outside
  Clock,        \* its created_at, in milliseconds
  Facts,        \* what the detectors read of a transaction
  Actors,       \* concurrent calls of the engine
  Threshold,    \* auto_apply_threshold, in hundredths
  MayUpset,     \* what may happen once, unforeseen, in a behaviour
  MaxUpsets,    \* bound: how many of these happen in one behaviour
  MaxRequests,  \* bound: apply and reject requests
  MaxNamed      \* bound: proposals a request names

Null == 0

\* Edits of the ledger by hand, an operator who flips a batch back, a restart
\* of the server, a database call that throws, the one in a run's catch block
\* that throws as well.
Upsets == {"remove", "restore", "reconcile", "unreconcile", "reset", "crash",
           "fault", "relapse"}

ASSUME ReconcileAssumption ==
  /\ Txns \subseteq Nat
  /\ IsFiniteSet(Txns)
  /\ Outside \notin Batches
  /\ BatchOf \in [Txns -> Batches \cup {Outside}]
  /\ Clock \in [Txns -> Nat]
  /\ \A t, u \in Txns : t < u => Clock[t] <= Clock[u]
  /\ Facts \in [Txns -> [day: Nat, payee: Nat, total: Int, card: Nat,
                         order: Nat, payment: Nat]]
  /\ Threshold \in Nat
  /\ MayUpset \subseteq Upsets
  /\ {MaxUpsets, MaxRequests, MaxNamed} \subseteq Nat

VARIABLES
  batch,      \* batches.status, from "open" (not yet extracted)
  status,     \* transactions.status, "absent" before the row is written
  deleted,    \* transactions whose deleted_at is set
  version,    \* transactions.version
  links,      \* document_links: the documents of each transaction
  proposals,  \* reconcile_proposals in the order they were inserted
  call,       \* where each actor is in its call of the engine
  upsets,     \* what has happened of MayUpset
  requests,   \* how many apply and reject requests there were
  overtaken   \* history: <<actor, proposal>>, decided by another while in hand

ledger == <<status, deleted, version, links>>
bounds == <<upsets, requests, overtaken>>
vars == <<batch, ledger, proposals, call, bounds>>

BatchStatus == {"open", "extracted", "reconciling", "reconciled", "reconcile_error"}
ProposalStatus == {"proposed", "auto_applied", "user_applied", "rejected"}
CallStep == {"idle", "exact", "near", "filter", "insert", "next", "copy", "drop",
             "check", "delete", "stamp", "view", "abort"}

\* A call keeps its findings, the proposals it still has to deal with, the
\* one in hand, the version it read of that one's duplicate, and the status
\* it gives to a proposal it has dealt with.
Idle == [at |-> "idle", batch |-> Outside, found |-> {}, todo |-> {},
         cur |-> 0, read |-> 0, verdict |-> "proposed"]

Running(a) == call[a].verdict = "auto_applied"

\* A run of the engine is under way on the batch.
AtWork(b) == \E a \in Actors : Running(a) /\ call[a].batch = b

Live(t) == status[t] \in {"posted", "reconciled"} /\ t \notin deleted

----------------------------------------------------------------------------
(***************************************************************************)
(* The detectors, over what their queries read                             *)
(***************************************************************************)

\* Both queries select by status; neither looks at deleted_at.
Counted == {t \in Txns : status[t] \in {"posted", "reconciled"}}

\* Same day, payee and signed total: the key of detectDuplicates.
Twin(t, u) ==
  /\ Facts[t].day = Facts[u].day
  /\ Facts[t].payee = Facts[u].payee /\ Facts[t].payee # Null
  /\ Facts[t].total = Facts[u].total /\ Facts[t].total # 0

\* detectDuplicates: of each group of twins of the batch all but the earliest.
Exact(b) ==
  LET own == {t \in Counted : BatchOf[t] = b}
      group(t) == {u \in own : Twin(t, u)}
  IN  {[dup |-> t, canon |-> Min(group(t)), score |-> 100] :
         t \in {u \in own : \E e \in group(u) : e < u}}

Agree(x, y)  == x # Null /\ x = y
Differ(x, y) == x # Null /\ y # Null /\ x # y

\* An order number or a payment id that both carry.
StrongId(f, g) == Agree(f.order, g.order) \/ Agree(f.payment, g.payment)

\* Mutant: a match on every soft attribute counts as certain.
ScoreUncapped(f, g) ==
  LET bonus(c, n) == IF c THEN n ELSE 0
  IN  50 + bonus(f.day = g.day, 25) + bonus(Agree(f.payee, g.payee), 15)
         + bonus(Agree(f.card, g.card), 10)

\* The weighted score of detectNearDuplicates: certain with a strong
\* identifier, capped below any automatic threshold without one.
Score(f, g) ==
  LET bonus(c, n) == IF c THEN n ELSE 0
      sum == 50 + bonus(f.day = g.day, 25) + bonus(Agree(f.payee, g.payee), 15)
                + bonus(Agree(f.card, g.card), 10)
                - bonus(Differ(f.card, g.card), 100)
                - bonus(Differ(f.order, g.order), 100)
                - bonus(Differ(f.payment, g.payment), 100)
  IN  IF StrongId(f, g) THEN 100 ELSE Min({sum, 90})

\* The join: equal sums of the positive legs (the sign is lost), three days.
Comparable(f, g) ==
  /\ f.total \in {g.total, -g.total} /\ f.total # 0
  /\ f.day - g.day \in -3 .. 3

\* Mutant: the row of the batch is taken for the duplicate.
SideByBatch(t, u) == [dup |-> t, canon |-> u]

\* The later of the two is proposed for removal, whichever side it is on; the
\* row of the batch, t, if both are of the same millisecond.
Side(t, u) == IF Clock[t] >= Clock[u] THEN [dup |-> t, canon |-> u]
                                      ELSE [dup |-> u, canon |-> t]

\* detectNearDuplicates: rows of the batch against all rows outside it.
Near(b) ==
  {[dup |-> Side(p[1], p[2]).dup, canon |-> Side(p[1], p[2]).canon,
    score |-> Score(Facts[p[1]], Facts[p[2]])] :
     p \in {q \in Counted \X Counted :
              /\ BatchOf[q[1]] = b /\ BatchOf[q[2]] # b
              /\ Comparable(Facts[q[1]], Facts[q[2]])
              /\ Score(Facts[q[1]], Facts[q[2]]) >= 50}}

\* Mutant: a second run proposes its findings again.
UnseenUnfiltered(b, found) == found

\* The run's filter: findings no earlier proposal of the batch names already.
Unseen(b, found) ==
  {c \in found : \A i \in DOMAIN proposals :
     ~ (/\ proposals[i].batch = b
        /\ proposals[i].dup = c.dup /\ proposals[i].canon = c.canon)}

----------------------------------------------------------------------------

Init ==
  /\ batch = [b \in Batches |-> "open"]
  /\ status = [t \in Txns |-> IF BatchOf[t] = Outside THEN "posted" ELSE "absent"]
  /\ deleted = {}
  /\ version = [t \in Txns |-> 1]
  /\ links = [t \in Txns |-> IF BatchOf[t] = Outside THEN {t} ELSE {}]
  /\ proposals = <<>>
  /\ call = [a \in Actors |-> Idle]
  /\ upsets = {}
  /\ requests = 0
  /\ overtaken = {}

\* The pipeline, seen from here: the transactions of a batch arrive one by
\* one, and then the batch is extracted.
Post(t) ==
  /\ status[t] = "absent"
  /\ batch[BatchOf[t]] = "open"
  /\ status' = [status EXCEPT ![t] = "posted"]
  /\ links' = [links EXCEPT ![t] = {t}]
  /\ UNCHANGED <<batch, deleted, version, proposals, call, bounds>>

Extract(b) ==
  /\ batch[b] = "open"
  /\ \A t \in Txns : BatchOf[t] = b => status[t] # "absent"
  /\ batch' = [batch EXCEPT ![b] = "extracted"]
  /\ UNCHANGED <<ledger, proposals, call, bounds>>

----------------------------------------------------------------------------
(***************************************************************************)
(* runReconcile                                                            *)
(***************************************************************************)

\* The condition in the UPDATE that elects one run; a caller that loses it
\* only reads.
Electable(b) == batch[b] = "extracted"

\* A caller may disable the dedup step, which then finds nothing.
StartRun(a, b) ==
  /\ call[a] = Idle
  /\ Electable(b)
  /\ batch' = [batch EXCEPT ![b] = "reconciling"]
  /\ \E first \in {"exact", "filter"} :
       call' = [call EXCEPT ![a] = [Idle EXCEPT !.at = first, !.batch = b,
                                                !.verdict = "auto_applied"]]
  /\ UNCHANGED <<ledger, proposals, bounds>>

Detect(a) ==
  /\ \/ /\ call[a].at = "exact"
        /\ call' = [call EXCEPT ![a].found = Exact(call[a].batch), ![a].at = "near"]
     \/ /\ call[a].at = "near"
        /\ call' = [call EXCEPT ![a].found = @ \cup Near(call[a].batch),
                                ![a].at = "filter"]
  /\ UNCHANGED <<batch, ledger, proposals, bounds>>

\* The findings already proposed by an earlier run of the batch are dropped.
FilterPrior(a) ==
  /\ call[a].at = "filter"
  /\ call' = [call EXCEPT ![a].found = Unseen(call[a].batch, @), ![a].at = "insert"]
  /\ UNCHANGED <<batch, ledger, proposals, bounds>>

\* One INSERT for all of them; those at the threshold are applied next.
InsertProposals(a) ==
  /\ call[a].at = "insert"
  /\ LET new == SetToSeq({[batch |-> call[a].batch, dup |-> c.dup, canon |-> c.canon,
                           score |-> c.score, status |-> "proposed"] :
                          c \in call[a].found})
         old == Len(proposals)
     IN  /\ proposals' = proposals \o new
         /\ call' = [call EXCEPT
              ![a].found = {},
              ![a].todo = {old + k : k \in {j \in DOMAIN new : new[j].score >= Threshold}},
              ![a].at = "next"]
  /\ UNCHANGED <<batch, ledger, bounds>>

\* No proposal is left: the batch is reconciled, whatever its status is now.
\* The answer is then read inside the same try block.
FinishRun(a) ==
  /\ \/ /\ Running(a)
        /\ call[a].at = "next" /\ call[a].todo = {}
        /\ batch' = [batch EXCEPT ![call[a].batch] = "reconciled"]
        /\ call' = [call EXCEPT ![a].at = "view"]
     \/ /\ call[a].at = "view"
        /\ call' = [call EXCEPT ![a] = Idle]
        /\ UNCHANGED batch
  /\ UNCHANGED <<ledger, proposals, bounds>>

\* The catch block of the run.
Abort(a) ==
  /\ call[a].at = "abort"
  /\ batch' = [batch EXCEPT ![call[a].batch] = "reconcile_error"]
  /\ call' = [call EXCEPT ![a] = Idle]
  /\ UNCHANGED <<ledger, proposals, bounds>>

----------------------------------------------------------------------------
(***************************************************************************)
(* softDeleteDuplicate, for a run and for a user's apply                   *)
(***************************************************************************)

Dup(a) == proposals[call[a].cur].dup
Canon(a) == proposals[call[a].cur].canon

\* The proposal in hand is done with; the next one is taken up.
Next1(c) == [c EXCEPT !.todo = @ \ {c.cur}, !.cur = 0, !.read = 0, !.at = "next"]

\* Mutant: a removal that failed is reported as done.
AfterThrowStamped(c) ==
  IF c.at \in {"copy", "drop", "check", "delete"} THEN [c EXCEPT !.at = "stamp"]
  ELSE IF c.at = "stamp" THEN Next1(c)
  ELSE IF c.verdict = "auto_applied" /\ c.at # "abort" THEN [c EXCEPT !.at = "abort"]
  ELSE Idle

\* Mutant: a run has no catch block.
AfterThrowUncaught(c) ==
  IF c.at \in {"copy", "drop", "check", "delete", "stamp"} THEN Next1(c) ELSE Idle

\* A call throws.  While a proposal is in hand it stays open and the next one
\* is taken up; elsewhere a run goes to its catch block, whose own statement
\* may throw too, and a reject request ends.
AfterThrow(c) ==
  IF c.at \in {"copy", "drop", "check", "delete", "stamp"} THEN Next1(c)
  ELSE IF c.verdict = "auto_applied" /\ c.at # "abort" THEN [c EXCEPT !.at = "abort"]
  ELSE Idle

\* A duplicate that is gone already counts as removed.
ReadDuplicate(a, i) ==
  /\ call[a].at = "next" /\ i \in call[a].todo
  /\ call[a].verdict # "rejected"
  /\ call' = [call EXCEPT ![a].cur = i,
                          ![a].read = version[proposals[i].dup],
                          ![a].at = IF Live(proposals[i].dup) THEN "copy" ELSE "stamp"]
  /\ UNCHANGED <<batch, ledger, proposals, bounds>>

\* Mutant: the links are not copied first.
CopyLinksForgotten(a) ==
  /\ call[a].at = "copy"
  /\ call' = [call EXCEPT ![a].at = "drop"]
  /\ UNCHANGED <<batch, ledger, proposals, bounds>>

\* The documents of the duplicate are filed under the transaction that is kept ...
CopyLinks(a) ==
  /\ call[a].at = "copy"
  /\ links' = [links EXCEPT ![Canon(a)] = @ \cup links[Dup(a)]]
  /\ call' = [call EXCEPT ![a].at = "drop"]
  /\ UNCHANGED <<batch, status, deleted, version, proposals, bounds>>

\* ... and then taken from the duplicate.
DropLinks(a) ==
  /\ call[a].at = "drop"
  /\ links' = [links EXCEPT ![Dup(a)] = {}]
  /\ call' = [call EXCEPT ![a].at = "check"]
  /\ UNCHANGED <<batch, status, deleted, version, proposals, bounds>>

\* softDeleteTransaction reads the row again: it throws if the version moved,
\* if the row is deleted meanwhile or if it was reconciled by hand.
Deletable(t, v) == version[t] = v /\ t \notin deleted /\ status[t] # "reconciled"

CheckDelete(a) ==
  /\ call[a].at = "check"
  /\ call' = [call EXCEPT ![a] = IF Deletable(Dup(a), call[a].read)
                                 THEN [@ EXCEPT !.at = "delete"] ELSE AfterThrow(@)]
  /\ UNCHANGED <<batch, ledger, proposals, bounds>>

\* Its UPDATE names the row by id only.
WriteDelete(a) ==
  /\ call[a].at = "delete"
  /\ deleted' = deleted \cup {Dup(a)}
  /\ version' = [version EXCEPT ![Dup(a)] = @ + 1]
  /\ call' = [call EXCEPT ![a].at = "stamp"]
  /\ UNCHANGED <<batch, status, links, proposals, bounds>>

\* The other calls that have proposal i in hand when a decides it.
Overtakes(a, i) == {o \in Actors \ {a} : i \in call[o].todo} \X {i}

\* The UPDATE names the proposal by id only, whatever its status is by now.
Stamp(a) ==
  /\ call[a].at = "stamp"
  /\ proposals' = [proposals EXCEPT ![call[a].cur].status = call[a].verdict]
  /\ call' = [call EXCEPT ![a] = Next1(@)]
  /\ overtaken' = overtaken \cup Overtakes(a, call[a].cur)
  /\ UNCHANGED <<batch, ledger, upsets, requests>>

----------------------------------------------------------------------------
(***************************************************************************)
(* applyProposals and rejectProposals                                      *)
(***************************************************************************)

\* Mutant: what was applied already is not skipped.
UndecidedOrApplied(p) == p.status \in {"proposed", "auto_applied", "user_applied"}

Undecided(p) == p.status = "proposed"

\* Both read the rows they are asked for once, and act on those that were
\* still open at that moment.
StartRequest(a, b, verdict) ==
  /\ call[a] = Idle
  /\ requests < MaxRequests
  /\ LET open == {i \in DOMAIN proposals : proposals[i].batch = b
                                            /\ Undecided(proposals[i])}
     IN  \E S \in (SUBSET open) \ {{}} :
           /\ Cardinality(S) <= MaxNamed
           /\ call' = [call EXCEPT ![a] = [Idle EXCEPT !.at = "next", !.batch = b,
                                             !.todo = S, !.verdict = verdict]]
  /\ requests' = requests + 1
  /\ overtaken' = {p \in overtaken : p[1] # a}
  /\ UNCHANGED <<batch, ledger, proposals, upsets>>

Reject(a, i) ==
  /\ call[a].at = "next" /\ i \in call[a].todo
  /\ call[a].verdict = "rejected"
  /\ proposals' = [proposals EXCEPT ![i].status = "rejected"]
  /\ call' = [call EXCEPT ![a].todo = @ \ {i}]
  /\ overtaken' = overtaken \cup Overtakes(a, i)
  /\ UNCHANGED <<batch, ledger, upsets, requests>>

FinishRequest(a) ==
  /\ call[a].verdict \in {"user_applied", "rejected"}
  /\ call[a].at = "next" /\ call[a].todo = {}
  /\ call' = [call EXCEPT ![a] = Idle]
  /\ UNCHANGED <<batch, ledger, proposals, bounds>>

----------------------------------------------------------------------------
(***************************************************************************)
(* Failures and the world outside                                          *)
(***************************************************************************)

Upset(kind) ==
  /\ kind \in MayUpset \ upsets
  /\ Cardinality(upsets) < MaxUpsets
  /\ upsets' = upsets \cup {kind}
  /\ UNCHANGED <<requests, overtaken>>

\* A database call throws; the one in the catch block of a run is counted
\* apart, for it takes an earlier one to get there.
Fault(a) ==
  /\ Upset(IF call[a].at = "abort" THEN "relapse" ELSE "fault")
  /\ call[a].at # "idle"
  /\ \/ call[a].at # "next"
     \/ Running(a) /\ call[a].todo = {}
     \/ call[a].verdict = "rejected" /\ call[a].todo # {}
  /\ call' = [call EXCEPT ![a] = AfterThrow(@)]
  /\ UNCHANGED <<batch, ledger, proposals>>

\* The SELECT with which a proposal is taken up throws.
FaultOnRead(a, i) ==
  /\ Upset("fault")
  /\ call[a].at = "next" /\ i \in call[a].todo
  /\ call[a].verdict # "rejected"
  /\ call' = [call EXCEPT ![a].todo = @ \ {i}]
  /\ UNCHANGED <<batch, ledger, proposals>>

\* The process dies with all its calls.  The recovery at boot does not look
\* at batches that are reconciling.
Crash ==
  /\ Upset("crash")
  /\ call' = [a \in Actors |-> Idle]
  /\ UNCHANGED <<batch, ledger, proposals>>

\* An operator flips a batch back to have it reconciled again.
Reset(b) ==
  /\ Upset("reset")
  /\ batch[b] \in {"reconciled", "reconcile_error"}
  /\ \A a \in Actors : call[a].batch # b
  /\ batch' = [batch EXCEPT ![b] = "extracted"]
  /\ UNCHANGED <<ledger, proposals, call>>

\* A user deletes or restores a transaction by hand (links stay), or marks it
\* reconciled or no longer so.
EditByHand(t) ==
  /\ \/ /\ Upset("remove") /\ status[t] = "posted" /\ t \notin deleted
        /\ deleted' = deleted \cup {t} /\ UNCHANGED status
     \/ /\ Upset("restore") /\ t \in deleted
        /\ deleted' = deleted \ {t} /\ UNCHANGED status
     \/ /\ Upset("reconcile") /\ status[t] = "posted"
        /\ status' = [status EXCEPT ![t] = "reconciled"] /\ UNCHANGED deleted
     \/ /\ Upset("unreconcile") /\ status[t] = "reconciled"
        /\ status' = [status EXCEPT ![t] = "posted"] /\ UNCHANGED deleted
  /\ version' = [version EXCEPT ![t] = @ + 1]
  /\ UNCHANGED <<batch, links, proposals, call>>

----------------------------------------------------------------------------

\* One statement of the call actor a has under way.
Progress(a) ==
  \/ Detect(a) \/ FilterPrior(a) \/ InsertProposals(a) \/ FinishRun(a) \/ Abort(a)
  \/ CopyLinks(a) \/ DropLinks(a) \/ CheckDelete(a) \/ WriteDelete(a) \/ Stamp(a)
  \/ \E i \in call[a].todo : ReadDuplicate(a, i) \/ Reject(a, i)
  \/ FinishRequest(a)

Next ==
  \/ \E t \in Txns : (BatchOf[t] # Outside /\ Post(t)) \/ EditByHand(t)
  \/ \E b \in Batches : Extract(b) \/ Reset(b)
  \/ \E a \in Actors :
       \/ Progress(a)
       \/ \E b \in Batches : \/ StartRun(a, b)
                             \/ StartRequest(a, b, "user_applied")
                             \/ StartRequest(a, b, "rejected")
       \/ Fault(a)
       \/ \E i \in call[a].todo : FaultOnRead(a, i)
  \/ Crash

\* The event loop serves every call that waits for the database.  Users,
\* operators, failures and the start of a run are under no obligation.
Fairness == \A a \in Actors : WF_vars(Progress(a))

Spec == Init /\ [][Next]_vars /\ Fairness

----------------------------------------------------------------------------
(***************************************************************************)
(* Properties                                                              *)
(***************************************************************************)

\* The state keeps its types; the proposal in hand is one that exists.
TypeOK ==
  /\ batch \in [Batches -> BatchStatus]
  /\ status \in [Txns -> {"absent", "posted", "reconciled"}]
  /\ deleted \subseteq Txns
  /\ version \in [Txns -> Nat]
  /\ links \in [Txns -> SUBSET Txns]
  /\ proposals \in Seq([batch: Batches, dup: Txns, canon: Txns, score: 0 .. 100,
                        status: ProposalStatus])
  /\ \A a \in Actors :
       /\ call[a].at \in CallStep
       /\ call[a].batch \in Batches \cup {Outside}
       /\ call[a].todo \subseteq DOMAIN proposals
       /\ call[a].cur \in call[a].todo \cup {0}
       /\ call[a].found \subseteq [dup: Txns, canon: Txns, score: 0 .. 100]
       /\ call[a].read \in Nat
       /\ call[a].verdict \in ProposalStatus

\* Two runs of the engine never work on one batch at a time, and the batch of
\* a run at work is in status reconciling: the conditional lock elects one
\* caller, and no other statement takes the status away from it.
OneRunPerBatch ==
  \A a \in Actors : Running(a) /\ call[a].at \notin {"view", "abort"} =>
    /\ batch[call[a].batch] = "reconciling"
    /\ \A o \in Actors \ {a} : Running(o) => call[o].batch # call[a].batch

\* However often a batch is reconciled, and whichever runs overlap or break
\* off, it never gets two proposals for the same pair of transactions.
MintedOnce ==
  \A i, j \in DOMAIN proposals :
    /\ proposals[i].batch = proposals[j].batch
    /\ proposals[i].dup = proposals[j].dup
    /\ proposals[i].canon = proposals[j].canon
    => i = j

\* A purchase never disappears because each of its records was removed as a
\* duplicate of another: no set of removed transactions has proposals that
\* only lead back into the set.  (Users do not remove records themselves, and
\* no two transactions are of the same millisecond.)
PurchaseSurvives ==
  \A S \in (SUBSET deleted) \ {{}} :
    \E t \in S, i \in DOMAIN proposals : /\ proposals[i].dup = t
                                         /\ proposals[i].canon \notin S

\* No removal happens without a user unless the two rows are twins of one
\* batch or carry the same order number or payment id: two equal purchases of
\* a day, filed in two batches, are for a person to judge.
AutoNeedsIdentity ==
  \A i \in DOMAIN proposals :
    LET p == proposals[i] IN
    p.status = "auto_applied" =>
      \/ BatchOf[p.dup] = BatchOf[p.canon] /\ Twin(p.dup, p.canon)
      \/ StrongId(Facts[p.dup], Facts[p.canon])

\* A proposal shown as applied stands for a duplicate that is really gone,
\* also when the removal failed half-way, was refused or met another one.
\* (Users do not restore transactions.)
AppliedIsGone ==
  \A i \in DOMAIN proposals :
    proposals[i].status \in {"auto_applied", "user_applied"}
      => proposals[i].dup \in deleted

\* A batch that is reconciling leaves the status that keeps every other run
\* away, unless the process dies or the UPDATE in the catch block fails like
\* the statement before it did; and if one of these has happened already, so
\* does a batch that a run is at work on, unless the other one happens too.
ReconcileSettles ==
  LET CutOff == upsets \cap {"crash", "relapse"} IN
  \A b \in Batches, C \in SUBSET {"crash", "relapse"} :
    (batch[b] = "reconciling" /\ CutOff = C /\ (C = {} \/ AtWork(b)))
      ~> (batch[b] # "reconciling" \/ CutOff # C)

\* Every document stays filed under some transaction: evidence survives the
\* removal of a duplicate (engine.ts 222-225).
EvidenceSurvives ==
  \A t \in Txns : status[t] # "absent" => \E u \in Txns : t \in links[u]

\* A purchase and its refund are not duplicates of each other, and neither is
\* removed for the other without a user (dedup.ts 28-36).
RefundIsKept ==
  \A i \in DOMAIN proposals :
    proposals[i].status = "auto_applied" =>
      (Facts[proposals[i].dup].total > 0) = (Facts[proposals[i].canon].total > 0)

\* A rejected proposal is frozen (engine.ts 23-24).
RejectedIsFrozen ==
  [][\A i \in DOMAIN proposals :
       proposals[i].status = "rejected" => proposals'[i].status = "rejected"]_vars

\* What became of a proposal, removed by the engine, applied or rejected by a
\* user, is overruled only by a call that had taken the proposal up before it
\* was decided, and was overtaken by the decision: of calls that follow one
\* another the first one counts.
OverruledByOvertakenOnly ==
  [][\A i \in DOMAIN proposals :
       /\ proposals[i].status # "proposed"
       /\ proposals'[i].status # proposals[i].status
       => \E a \in Actors : /\ <<a, i>> \in overtaken
                            /\ i \in call[a].todo \ call'[a].todo]_vars
=============================================================================
