--------------------------- MODULE ReconcileProofs ---------------------------
(***************************************************************************)
(* What the reconciliation engine guarantees, proved for every number of   *)
(* batches, transactions and concurrent calls: no pair is proposed twice   *)
(* in a batch, a purchase keeps a record, nothing is removed by itself     *)
(* without an identifier, and what is shown as applied is gone.  Where     *)
(* calls come one at a time, a rejection stands and no document is lost.   *)
(***************************************************************************)
EXTENDS Reconcile, TLAPS, FiniteSetTheorems, SequenceTheorems

LEMMA LeastOf ==
  ASSUME NEW S \in SUBSET Nat, S # {}
  PROVE  Min(S) \in S /\ \A y \in S : Min(S) <= y
<1>1. PICK R : R = OpToRel(<, Nat)
  OBVIOUS
<1>2. \A x, y \in Nat : <<y, x>> \in R <=> y < x
  BY <1>1 DEF OpToRel
<1>3. IsWellFoundedOn(R, Nat)
  BY <1>1, NatLessThanWellFounded
<1>4. PICK x \in S : \A y \in S : ~ (<<y, x>> \in R)
  BY <1>3, WFMin
<1>5. ASSUME NEW y \in S
      PROVE  x <= y
  <2>1. x \in Nat /\ y \in Nat
    OBVIOUS
  <2>2. ~ (y < x)
    BY <1>2, <1>4, <2>1
  <2> QED
    BY <2>1, <2>2
<1> QED
  BY <1>5 DEF Min

LEMMA SetAsSeq ==
  ASSUME NEW S, IsFiniteSet(S)
  PROVE  /\ SetToSeq(S) \in Seq(S)
         /\ DOMAIN SetToSeq(S) = 1 .. Len(SetToSeq(S))
         /\ \A i, j \in DOMAIN SetToSeq(S) : SetToSeq(S)[i] = SetToSeq(S)[j] => i = j
<1>1. Cardinality(S) \in Nat /\ ExistsBijection(1 .. Cardinality(S), S)
  BY FS_CardinalityType
<1>2. \E f \in [1 .. Cardinality(S) -> S] : IsInjective(f)
  BY <1>1 DEF ExistsBijection, Bijection, Injection
<1>3. SetToSeq(S) \in [1 .. Cardinality(S) -> S] /\ IsInjective(SetToSeq(S))
  BY <1>2 DEF SetToSeq
<1> QED
  BY <1>1, <1>3 DEF IsInjective

----------------------------------------------------------------------------
(* What the detectors find.                                                *)

Candidate == [dup: Txns, canon: Txns, score: 0 .. 100]

\* dup is the later of two records and canon the earlier one, with the score
\* that the detector which compares them gives: an exact twin of the batch, or
\* a near-duplicate of which one is in the batch and the other is not.
Finding(b, dup, canon, score) ==
  /\ dup \in Txns /\ canon \in Txns /\ score \in 0 .. 100
  /\ canon # dup /\ Clock[canon] <= Clock[dup]
  /\ \/ /\ BatchOf[dup] = b /\ BatchOf[canon] = b
        /\ Twin(dup, canon) /\ score = 100
     \/ /\ BatchOf[dup] = b /\ BatchOf[canon] # b
        /\ score = Score(Facts[dup], Facts[canon])
     \/ /\ BatchOf[dup] # b /\ BatchOf[canon] = b
        /\ score = Score(Facts[canon], Facts[dup])

LEMMA ExactFinds ==
  ASSUME NEW b, NEW c \in Exact(b)
  PROVE  c \in Candidate /\ Finding(b, c.dup, c.canon, c.score)
         /\ c.dup \in Counted /\ c.canon \in Counted
<1>1. DEFINE own == {t \in Counted : BatchOf[t] = b}
             group(t) == {u \in own : Twin(t, u)}
<1>2. PICK t \in own : /\ \E e \in group(t) : e < t
                      /\ c = [dup |-> t, canon |-> Min(group(t)), score |-> 100]
  BY DEF Exact
<1>3. group(t) \in SUBSET Txns /\ Txns \subseteq Nat
  BY ReconcileAssumption DEF Counted
<1>4. PICK m : m = Min(group(t))
  OBVIOUS
<1>5. m \in group(t) /\ \A u \in group(t) : m <= u
  BY <1>2, <1>3, <1>4, LeastOf
<1>6. m \in Txns /\ t \in Txns /\ m < t /\ m \in Nat /\ t \in Nat
  BY <1>2, <1>3, <1>5 DEF Counted
<1>7. Clock[m] <= Clock[t]
  BY <1>6, ReconcileAssumption
<1>8. c \in Candidate /\ c.dup = t /\ c.canon = m /\ c.score = 100
  BY <1>2, <1>4, <1>6 DEF Candidate
<1>9. BatchOf[t] = b /\ BatchOf[m] = b /\ Twin(t, m) /\ t # m /\ t \in Counted
  BY <1>2, <1>5, <1>6
<1>10. m \in Counted
  BY <1>5
<1>11. Finding(b, t, m, 100)
  BY <1>6, <1>7, <1>9 DEF Finding
<1> QED
  BY <1>8, <1>9, <1>10, <1>11

LEMMA ScoreRange ==
  ASSUME NEW t \in Txns, NEW u \in Txns
  PROVE  /\ Score(Facts[t], Facts[u]) \in Int
         /\ Score(Facts[t], Facts[u]) <= 100
         /\ Score(Facts[t], Facts[u]) > 90 => StrongId(Facts[t], Facts[u])
<1>1. DEFINE f == Facts[t]
             g == Facts[u]
             bonus(c, n) == IF c THEN n ELSE 0
             sum == 50 + bonus(f.day = g.day, 25) + bonus(Agree(f.payee, g.payee), 15)
                       + bonus(Agree(f.card, g.card), 10)
                       - bonus(Differ(f.card, g.card), 100)
                       - bonus(Differ(f.order, g.order), 100)
                       - bonus(Differ(f.payment, g.payment), 100)
<1>2. Score(f, g) = IF StrongId(f, g) THEN 100 ELSE Min({sum, 90})
  BY DEF Score
<1>3. sum \in Int
  OBVIOUS
<1> HIDE DEF sum, f, g
<1>4. PICK s \in Int : s = sum
  BY <1>3
<1>5. Min({s, 90}) \in Int /\ Min({s, 90}) <= 90
  <2>1. \E x \in {s, 90} : \A y \in {s, 90} : x <= y
    OBVIOUS
  <2>2. Min({s, 90}) \in {s, 90} /\ \A y \in {s, 90} : Min({s, 90}) <= y
    BY <2>1 DEF Min
  <2> QED
    BY <2>2
<1>6. CASE StrongId(f, g)
  BY <1>2, <1>6 DEF f, g
<1>7. CASE ~ StrongId(f, g)
  BY <1>2, <1>4, <1>5, <1>7 DEF f, g
<1> QED
  BY <1>6, <1>7

LEMMA NearFinds ==
  ASSUME NEW b, NEW c \in Near(b)
  PROVE  c \in Candidate /\ Finding(b, c.dup, c.canon, c.score)
         /\ c.dup \in Counted /\ c.canon \in Counted
<1>1. PICK t \in Counted, u \in Counted :
        /\ BatchOf[t] = b /\ BatchOf[u] # b
        /\ Score(Facts[t], Facts[u]) >= 50
        /\ c = [dup |-> Side(t, u).dup, canon |-> Side(t, u).canon,
                score |-> Score(Facts[t], Facts[u])]
  BY DEF Near
<1>2. t \in Txns /\ u \in Txns /\ t # u /\ Clock[t] \in Nat /\ Clock[u] \in Nat
  BY <1>1, ReconcileAssumption DEF Counted
<1>3. PICK n : n = Score(Facts[t], Facts[u])
  OBVIOUS
<1>4. n \in 0 .. 100
  BY <1>1, <1>2, <1>3, ScoreRange
<1>5. CASE Clock[t] >= Clock[u]
  <2>1. c = [dup |-> t, canon |-> u, score |-> n]
    BY <1>1, <1>3, <1>5 DEF Side
  <2>2. c \in Candidate /\ c.dup = t /\ c.canon = u /\ c.score = n
    BY <1>2, <1>4, <2>1 DEF Candidate
  <2>3. Finding(b, t, u, n)
    BY <1>1, <1>2, <1>3, <1>4, <1>5 DEF Finding
  <2> QED
    BY <2>2, <2>3
<1>6. CASE ~ (Clock[t] >= Clock[u])
  <2>1. c = [dup |-> u, canon |-> t, score |-> n]
    BY <1>1, <1>3, <1>6 DEF Side
  <2>2. c \in Candidate /\ c.dup = u /\ c.canon = t /\ c.score = n
    BY <1>2, <1>4, <2>1 DEF Candidate
  <2>3. Finding(b, u, t, n)
    BY <1>1, <1>2, <1>3, <1>4, <1>6 DEF Finding
  <2> QED
    BY <2>2, <2>3
<1> QED
  BY <1>5, <1>6

\* A batch has one finding at most for a pair of records.
LEMMA OneFinding ==
  ASSUME NEW b, NEW dup, NEW canon, NEW m, NEW n,
         Finding(b, dup, canon, m), Finding(b, dup, canon, n)
  PROVE  m = n
  BY DEF Finding

LEMMA FindingsFinite ==
  ASSUME NEW S \in SUBSET Candidate
  PROVE  IsFiniteSet(S)
<1>1. IsFiniteSet(0 .. 100)
  <2>1. \A m, n \in Int : IsFiniteSet(m .. n)
    BY FS_Interval
  <2>2. 0 \in Int /\ 100 \in Int
    OBVIOUS
  <2> QED
    BY <2>1, <2>2, Zenon
<1>2. IsFiniteSet((Txns \X Txns) \X (0 .. 100))
  BY <1>1, FS_Product, ReconcileAssumption
<1>3. PICK f : f = [c \in Candidate |-> <<<<c.dup, c.canon>>, c.score>>]
  OBVIOUS
<1>4. f \in Injection(Candidate, (Txns \X Txns) \X (0 .. 100))
  <2>1. f \in [Candidate -> (Txns \X Txns) \X (0 .. 100)]
    BY <1>3 DEF Candidate
  <2>2. ASSUME NEW c \in Candidate, NEW d \in Candidate, f[c] = f[d]
        PROVE  c = d
    <3>1. c.dup = d.dup /\ c.canon = d.canon /\ c.score = d.score
      BY <1>3, <2>2
    <3> QED
      BY <3>1 DEF Candidate
  <2> QED
    BY <2>1, <2>2 DEF Injection, IsInjective
<1>5. IsFiniteSet(Candidate)
  BY <1>2, <1>4, FS_Injection
<1> QED
  BY <1>5, FS_Subset

----------------------------------------------------------------------------
(* The invariant.                                                          *)

Proposal == [batch: Batches, dup: Txns, canon: Txns, score: 0 .. 100,
             status: ProposalStatus]

CallRow == [at: CallStep, batch: Batches \cup {Outside}, found: SUBSET Candidate,
            todo: SUBSET Nat, cur: Nat, read: Nat, verdict: ProposalStatus]

Typed ==
  /\ batch \in [Batches -> BatchStatus]
  /\ status \in [Txns -> {"absent", "posted", "reconciled"}]
  /\ deleted \subseteq Txns
  /\ version \in [Txns -> Nat]
  /\ links \in [Txns -> SUBSET Txns]
  /\ proposals \in Seq(Proposal)
  /\ call \in [Actors -> CallRow]

Removing == {"copy", "drop", "check", "delete", "stamp"}
OfRun == {"exact", "near", "filter", "insert", "view", "abort"}
Applied == {"auto_applied", "user_applied"}

\* One call: what it has in hand exists; a run keeps only certain proposals;
\* what it has found are findings; before it marks a proposal as applied the
\* duplicate is gone, unless a user may bring it back.
CallOK(c) ==
  /\ c.todo \subseteq DOMAIN proposals
  /\ c.at \in Removing => c.cur \in c.todo
  /\ c.at \notin Removing => c.cur = 0
  /\ c.at \in OfRun => c.verdict = "auto_applied"
  /\ c.verdict = "auto_applied" =>
       c.batch \in Batches /\ \A i \in c.todo : proposals[i].score >= Threshold
  /\ \A f \in c.found : /\ Finding(c.batch, f.dup, f.canon, f.score)
                        /\ status[f.dup] # "absent" /\ status[f.canon] # "absent"
  /\ c.at = "stamp" /\ "restore" \notin MayUpset => proposals[c.cur].dup \in deleted

CallsOK == \A a \in Actors : CallOK(call[a])

\* One proposal: it came from a detector, a run applies it only with the score
\* for it, and an applied one has lost its duplicate.
ProposalOK(p) ==
  /\ Finding(p.batch, p.dup, p.canon, p.score)
  /\ status[p.dup] # "absent" /\ status[p.canon] # "absent"
  /\ p.status = "auto_applied" => p.score >= Threshold
  /\ p.status \in Applied /\ "restore" \notin MayUpset => p.dup \in deleted

ProposalsOK == \A i \in DOMAIN proposals : ProposalOK(proposals[i])

\* What a run is about to insert is not there yet.
FreshCall(c) ==
  c.at = "insert" =>
    \A f \in c.found, i \in DOMAIN proposals :
      ~ (proposals[i].batch = c.batch /\ proposals[i].dup = f.dup
         /\ proposals[i].canon = f.canon)

Fresh == \A a \in Actors : FreshCall(call[a])

\* A batch has one run at a time, which alone moves its status.
RunsApart ==
  \A a \in Actors : Running(a) =>
    /\ batch[call[a].batch] \in {"reconciling", "reconciled"}
    /\ call[a].at \notin {"view", "abort"} => batch[call[a].batch] = "reconciling"
    /\ \A o \in Actors \ {a} : Running(o) => call[o].batch # call[a].batch

\* Nothing was removed without a proposal, unless users do so.
RemovedProposed ==
  "remove" \notin MayUpset =>
    \A t \in deleted : \E i \in DOMAIN proposals : proposals[i].dup = t

ReconcileInv ==
  Typed /\ CallsOK /\ ProposalsOK /\ MintedOnce /\ Fresh /\ RunsApart /\ RemovedProposed

LEMMA InitInv == ASSUME Init PROVE ReconcileInv
<1>1. Typed
  BY ReconcileAssumption DEF Init, Typed, Idle, CallRow, CallStep, ProposalStatus,
     BatchStatus
<1>2. proposals = <<>> /\ deleted = {}
  BY DEF Init
<1>3. \A a \in Actors : /\ call[a].at = "idle" /\ call[a].verdict = "proposed"
                        /\ call[a].todo = {} /\ call[a].cur = 0 /\ call[a].found = {}
  BY DEF Init, Idle
<1>4. CallsOK
  BY <1>3 DEF CallsOK, CallOK, Removing, OfRun
<1>5. ProposalsOK /\ MintedOnce /\ RemovedProposed
  BY <1>2 DEF ProposalsOK, MintedOnce, RemovedProposed
<1>6. Fresh /\ RunsApart
  BY <1>3 DEF Fresh, FreshCall, RunsApart, Running
<1> QED
  BY <1>1, <1>4, <1>5, <1>6 DEF ReconcileInv

----------------------------------------------------------------------------
(* How a step may move the state.                                          *)

\* Proposals keep what was found, rows stay rows, removals stand unless a
\* user may undo them.
Grows ==
  /\ DOMAIN proposals \subseteq DOMAIN proposals'
  /\ \A i \in DOMAIN proposals :
       /\ proposals'[i].batch = proposals[i].batch
       /\ proposals'[i].dup = proposals[i].dup
       /\ proposals'[i].canon = proposals[i].canon
       /\ proposals'[i].score = proposals[i].score
  /\ \A t \in Txns : status[t] # "absent" => status'[t] # "absent"
  /\ "restore" \notin MayUpset => deleted \subseteq deleted'

LEMMA CallKept ==
  ASSUME Typed, Grows, NEW c \in CallRow, CallOK(c)
  PROVE  CallOK(c)'
<1>1. /\ c.todo \subseteq DOMAIN proposals'
      /\ c.at \in Removing => c.cur \in c.todo
      /\ c.at \notin Removing => c.cur = 0
      /\ c.at \in OfRun => c.verdict = "auto_applied"
  BY DEF CallOK, Grows
<1>2. c.verdict = "auto_applied" =>
        c.batch \in Batches /\ \A i \in c.todo : proposals'[i].score >= Threshold
  BY DEF CallOK, Grows
<1>3. \A f \in c.found : /\ Finding(c.batch, f.dup, f.canon, f.score)
                         /\ status'[f.dup] # "absent" /\ status'[f.canon] # "absent"
  BY DEF CallOK, Grows, Finding
<1>4. c.at = "stamp" /\ "restore" \notin MayUpset => proposals'[c.cur].dup \in deleted'
  BY DEF CallOK, Grows, Removing
<1> QED
  BY <1>1, <1>2, <1>3, <1>4 DEF CallOK

\* A step of one call disturbs only what is known of that call.
LEMMA OneMoves ==
  ASSUME Typed, CallsOK, Grows, NEW a \in Actors, NEW y \in CallRow,
         call' = [call EXCEPT ![a] = y], CallOK(y)'
  PROVE  CallsOK'
<1>1. \A o \in Actors : call'[o] = IF o = a THEN y ELSE call[o]
  BY DEF Typed
<1>2. ASSUME NEW o \in Actors PROVE CallOK(call[o])'
  <2>1. CASE o = a
    BY <1>1, <2>1 DEF CallOK
  <2>2. CASE o # a
    <3>1. PICK c \in CallRow : c = call[o]
      BY DEF Typed
    <3>2. CallOK(c)'
      BY <3>1, CallKept DEF CallsOK
    <3>3. call'[o] = c
      BY <1>1, <2>2, <3>1
    <3> QED
      BY <3>2, <3>3 DEF CallOK
  <2> QED
    BY <2>1, <2>2
<1> QED
  BY <1>2 DEF CallsOK

LEMMA ProposalsKept ==
  ASSUME Typed, ProposalsOK, Grows, proposals' = proposals
  PROVE  ProposalsOK'
  BY DEF ProposalsOK, ProposalOK, Grows, Finding

LEMMA FreshKept ==
  ASSUME Typed, Fresh, proposals' = proposals, NEW a \in Actors, NEW y \in CallRow,
         call' = [call EXCEPT ![a] = y], FreshCall(y)
  PROVE  Fresh'
<1>1. \A o \in Actors : call'[o] = IF o = a THEN y ELSE call[o]
  BY DEF Typed
<1>2. FreshCall(y)'
  BY DEF FreshCall
<1>3. ASSUME NEW o \in Actors PROVE FreshCall(call[o])'
  <2>1. CASE o = a
    BY <1>1, <1>2, <2>1 DEF FreshCall
  <2>2. CASE o # a
    <3>1. call'[o] = call[o] /\ FreshCall(call[o])
      BY <1>1, <2>2 DEF Fresh
    <3> QED
      BY <3>1 DEF FreshCall
  <2> QED
    BY <2>1, <2>2
<1> QED
  BY <1>3 DEF Fresh

\* A call that leaves x behind and becomes y stays in its run, or is in none.
GoesOn(x, y) ==
  y.verdict = "auto_applied" =>
    /\ x.verdict = "auto_applied" /\ y.batch = x.batch
    /\ x.at \notin {"view", "abort"} \/ y.at \in {"view", "abort"}

LEMMA RunsKept ==
  ASSUME Typed, RunsApart, batch' = batch, NEW a \in Actors, NEW x, x = call[a],
         NEW y \in CallRow, call' = [call EXCEPT ![a] = y], GoesOn(x, y)
  PROVE  RunsApart'
<1>1. \A o \in Actors : call'[o] = IF o = a THEN y ELSE call[o]
  BY DEF Typed
<1> QED
  BY <1>1 DEF RunsApart, Running, GoesOn

\* The pattern of most steps: one call moves, on the rows and the proposals as
\* they are.
LEMMA CallOnly ==
  ASSUME ReconcileInv, NEW a \in Actors, NEW y \in CallRow,
         batch' \in [Batches -> BatchStatus], links' \in [Txns -> SUBSET Txns],
         UNCHANGED <<status, deleted, version, proposals>>,
         call' = [call EXCEPT ![a] = y], CallOK(y), FreshCall(y), RunsApart'
  PROVE  ReconcileInv'
<1>1. Typed'
  BY DEF ReconcileInv, Typed
<1>2. Grows
  BY DEF Grows
<1>3. CallsOK'
  <2>1. CallOK(y)'
    BY <1>2, CallKept DEF ReconcileInv
  <2> QED
    BY <1>2, <2>1, OneMoves DEF ReconcileInv
<1>4. ProposalsOK'
  BY <1>2, ProposalsKept DEF ReconcileInv
<1>5. Fresh'
  BY FreshKept DEF ReconcileInv
<1>6. MintedOnce' /\ RemovedProposed'
  BY DEF ReconcileInv, MintedOnce, RemovedProposed
<1> QED
  BY <1>1, <1>3, <1>4, <1>5, <1>6 DEF ReconcileInv

LEMMA IdleRow ==
  Idle \in CallRow /\ CallOK(Idle) /\ FreshCall(Idle) /\ Idle.verdict = "proposed"
<1>1. Idle \in CallRow
  BY DEF Idle, CallRow, CallStep, ProposalStatus
<1>2. CallOK(Idle) /\ FreshCall(Idle) /\ Idle.verdict = "proposed"
  BY DEF Idle, CallOK, FreshCall, Removing, OfRun
<1> QED
  BY <1>1, <1>2

\* A proposal less to deal with.
LEMMA NextRow ==
  ASSUME Typed, NEW x \in CallRow, CallOK(x), NEW y \in CallRow,
         y.todo \subseteq x.todo, y.cur = 0, y.at = "next", y.found = x.found,
         y.verdict = x.verdict, y.batch = x.batch
  PROVE  CallOK(y) /\ FreshCall(y)
  BY DEF CallOK, FreshCall, Removing, OfRun

\* What a call that throws leaves of itself.
LEMMA ThrowRow ==
  ASSUME Typed, NEW x \in CallRow, CallOK(x), NEW y, y = AfterThrow(x)
  PROVE  /\ y \in CallRow /\ CallOK(y) /\ FreshCall(y)
         /\ GoesOn(x, y)
<1>1. CASE x.at \in Removing
  <2>1. y = Next1(x)
    BY <1>1 DEF AfterThrow, Removing
  <2>2. y \in CallRow
    <3>1. PICK rest \in SUBSET Nat : rest = x.todo \ {x.cur}
      BY DEF CallRow
    <3>2. y = [x EXCEPT !.todo = rest, !.cur = 0, !.read = 0, !.at = "next"]
      BY <2>1, <3>1 DEF Next1
    <3>3. "next" \in CallStep
      BY DEF CallStep
    <3>4. PICK at \in CallStep, b \in Batches \cup {Outside}, fo \in SUBSET Candidate,
               td \in SUBSET Nat, cu \in Nat, re \in Nat, v \in ProposalStatus :
            x = [at |-> at, batch |-> b, found |-> fo, todo |-> td, cur |-> cu,
                 read |-> re, verdict |-> v]
      BY DEF CallRow
    <3>5. y = [at |-> "next", batch |-> b, found |-> fo, todo |-> rest, cur |-> 0,
               read |-> 0, verdict |-> v]
      BY <3>2, <3>4
    <3> QED
      BY <3>3, <3>5 DEF CallRow
  <2>3. /\ y.todo = x.todo \ {x.cur} /\ y.cur = 0 /\ y.at = "next"
        /\ y.found = x.found /\ y.verdict = x.verdict /\ y.batch = x.batch
    BY <2>1 DEF Next1, CallRow
  <2>4. CallOK(y) /\ FreshCall(y)
    BY <2>2, <2>3, NextRow
  <2>5. x.at \notin {"view", "abort"}
    BY <1>1 DEF Removing
  <2> QED
    BY <2>2, <2>3, <2>4, <2>5 DEF GoesOn
<1>2. CASE x.at \notin Removing /\ x.verdict = "auto_applied" /\ x.at # "abort"
  <2>1. y = [x EXCEPT !.at = "abort"]
    BY <1>2 DEF AfterThrow, Removing
  <2>2. y \in CallRow
    BY <2>1 DEF CallRow, CallStep
  <2>3. /\ y.todo = x.todo /\ y.cur = x.cur /\ y.at = "abort" /\ y.found = x.found
        /\ y.verdict = x.verdict /\ y.batch = x.batch
    BY <2>1 DEF CallRow
  <2>4. CallOK(y) /\ FreshCall(y)
    BY <1>2, <2>3 DEF CallOK, FreshCall, Removing, OfRun
  <2> QED
    BY <1>2, <2>2, <2>3, <2>4 DEF GoesOn
<1>3. CASE x.at \notin Removing /\ ~ (x.verdict = "auto_applied" /\ x.at # "abort")
  <2>1. y = Idle
    BY <1>3 DEF AfterThrow, Removing
  <2> QED
    BY <2>1, IdleRow DEF GoesOn
<1> QED
  BY <1>1, <1>2, <1>3

----------------------------------------------------------------------------
(* The run.                                                                *)

LEMMA CallAt ==
  ASSUME ReconcileInv, NEW a \in Actors
  PROVE  call[a] \in CallRow /\ CallOK(call[a])
  BY DEF ReconcileInv, Typed, CallsOK

LEMMA DetectKeeps ==
  ASSUME ReconcileInv, NEW a \in Actors, Detect(a)
  PROVE  ReconcileInv'
<1>1. PICK x \in CallRow : x = call[a] /\ CallOK(x)
  BY CallAt
<1>2. x.at \in OfRun /\ x.verdict = "auto_applied" /\ x.at \notin {"view", "abort"}
  BY <1>1 DEF Detect, CallOK, OfRun
<1>3. PICK more \in SUBSET Candidate, st \in {"near", "filter"} :
        /\ call' = [call EXCEPT ![a].found = more, ![a].at = st]
        /\ \A f \in more : /\ Finding(x.batch, f.dup, f.canon, f.score)
                           /\ status[f.dup] # "absent" /\ status[f.canon] # "absent"
  <2>1. \A t \in Counted : status[t] # "absent"
    BY DEF Counted
  <2>2. \A f \in Exact(x.batch) : /\ f \in Candidate
                                  /\ status[f.dup] # "absent" /\ status[f.canon] # "absent"
                                 /\ Finding(x.batch, f.dup, f.canon, f.score)
    BY <2>1, ExactFinds
  <2>3. \A f \in Near(x.batch) : /\ f \in Candidate
                                 /\ status[f.dup] # "absent" /\ status[f.canon] # "absent"
                                /\ Finding(x.batch, f.dup, f.canon, f.score)
    BY <2>1, NearFinds
  <2>4. CASE x.at = "exact"
    <3>1. PICK more : more = Exact(x.batch)
      OBVIOUS
    <3>2. call' = [call EXCEPT ![a].found = more, ![a].at = "near"]
      BY <1>1, <2>4, <3>1 DEF Detect
    <3> QED
      BY <2>2, <3>1, <3>2
  <2>5. CASE x.at = "near"
    <3>1. PICK more : more = x.found \cup Near(x.batch)
      OBVIOUS
    <3>2. call' = [call EXCEPT ![a].found = more, ![a].at = "filter"]
      BY <1>1, <2>5, <3>1 DEF Detect
    <3>3. x.found \in SUBSET Candidate
      BY DEF CallRow
    <3>4. \A f \in more : /\ f \in Candidate
                          /\ status[f.dup] # "absent" /\ status[f.canon] # "absent"
                         /\ Finding(x.batch, f.dup, f.canon, f.score)
      BY <1>1, <2>3, <3>1, <3>3 DEF CallOK
    <3> QED
      BY <3>2, <3>4
  <2> QED
    BY <1>1, <2>4, <2>5 DEF Detect
<1>4. PICK y : y = [x EXCEPT !.found = more, !.at = st]
  OBVIOUS
<1>5. call' = [call EXCEPT ![a] = y]
  BY <1>1, <1>3, <1>4 DEF ReconcileInv, Typed
<1>6. y \in CallRow
  BY <1>4 DEF CallRow, CallStep
<1>7. /\ y.todo = x.todo /\ y.cur = x.cur /\ y.at = st /\ y.found = more
      /\ y.verdict = x.verdict /\ y.batch = x.batch
  BY <1>4 DEF CallRow
<1>8. CallOK(y) /\ FreshCall(y)
  BY <1>1, <1>2, <1>3, <1>7 DEF CallOK, FreshCall, Removing, OfRun
<1>9. UNCHANGED <<batch, status, deleted, version, links, proposals>>
  BY DEF Detect, ledger
<1>10. RunsApart'
  BY <1>1, <1>2, <1>5, <1>6, <1>7, <1>9, RunsKept DEF ReconcileInv, GoesOn
<1> QED
  BY <1>5, <1>6, <1>8, <1>9, <1>10, CallOnly DEF ReconcileInv, Typed

LEMMA FilterPriorKeeps ==
  ASSUME ReconcileInv, NEW a \in Actors, FilterPrior(a)
  PROVE  ReconcileInv'
<1>1. PICK x \in CallRow : x = call[a] /\ CallOK(x)
  BY CallAt
<1>2. x.at = "filter" /\ x.verdict = "auto_applied"
  BY <1>1 DEF FilterPrior, CallOK, OfRun
<1>3. PICK fewer : fewer = Unseen(x.batch, x.found)
  OBVIOUS
<1>4. fewer \in SUBSET Candidate /\ fewer \subseteq x.found
  BY <1>3 DEF Unseen, CallRow
<1>5. PICK y : y = [x EXCEPT !.found = fewer, !.at = "insert"]
  OBVIOUS
<1>6. call' = [call EXCEPT ![a] = y]
  BY <1>1, <1>3, <1>5 DEF ReconcileInv, Typed, FilterPrior
<1>7. y \in CallRow
  BY <1>4, <1>5 DEF CallRow, CallStep
<1>8. /\ y.todo = x.todo /\ y.cur = x.cur /\ y.at = "insert" /\ y.found = fewer
      /\ y.verdict = x.verdict /\ y.batch = x.batch
  BY <1>5 DEF CallRow
<1>9. CallOK(y)
  BY <1>1, <1>2, <1>4, <1>8 DEF CallOK, Removing, OfRun
<1>10. FreshCall(y)
  BY <1>3, <1>8 DEF FreshCall, Unseen
<1>11. UNCHANGED <<batch, status, deleted, version, links, proposals>>
  BY DEF FilterPrior, ledger
<1>12. RunsApart'
  BY <1>1, <1>2, <1>6, <1>7, <1>8, <1>11, RunsKept DEF ReconcileInv, GoesOn
<1> QED
  BY <1>6, <1>7, <1>9, <1>10, <1>11, <1>12, CallOnly DEF ReconcileInv, Typed

LEMMA FinishRunKeeps ==
  ASSUME ReconcileInv, NEW a \in Actors, FinishRun(a)
  PROVE  ReconcileInv'
<1>1. PICK x \in CallRow : x = call[a] /\ CallOK(x)
  BY CallAt
<1>2. UNCHANGED <<status, deleted, version, links, proposals>>
  BY DEF FinishRun, ledger
<1>3. CASE x.at = "view"
  <2>1. call' = [call EXCEPT ![a] = Idle] /\ batch' = batch
    BY <1>1, <1>3 DEF FinishRun
  <2>2. RunsApart'
    BY <1>1, <2>1, IdleRow, RunsKept DEF ReconcileInv, GoesOn
  <2> QED
    BY <1>2, <2>1, <2>2, IdleRow, CallOnly DEF ReconcileInv, Typed
<1>4. CASE x.at # "view"
  <2>1. /\ x.verdict = "auto_applied" /\ x.at = "next"
        /\ batch' = [batch EXCEPT ![x.batch] = "reconciled"]
        /\ call' = [call EXCEPT ![a].at = "view"]
    BY <1>1, <1>4 DEF FinishRun, Running
  <2>2. PICK y : y = [x EXCEPT !.at = "view"]
    OBVIOUS
  <2>3. call' = [call EXCEPT ![a] = y]
    BY <1>1, <2>1, <2>2 DEF ReconcileInv, Typed
  <2>4. y \in CallRow
    BY <2>2 DEF CallRow, CallStep
  <2>5. /\ y.todo = x.todo /\ y.cur = x.cur /\ y.at = "view" /\ y.found = x.found
        /\ y.verdict = x.verdict /\ y.batch = x.batch
    BY <2>2 DEF CallRow
  <2>6. CallOK(y) /\ FreshCall(y)
    BY <1>1, <2>1, <2>5 DEF CallOK, FreshCall, Removing, OfRun
  <2>7. batch' \in [Batches -> BatchStatus] /\ x.batch \in Batches
    BY <1>1, <2>1 DEF ReconcileInv, Typed, CallOK, BatchStatus
  <2>8. RunsApart'
    <3>1. \A o \in Actors : call'[o] = IF o = a THEN y ELSE call[o]
      BY <2>3 DEF ReconcileInv, Typed
    <3>2. \A b \in Batches : batch'[b] = IF b = x.batch THEN "reconciled" ELSE batch[b]
      BY <2>1 DEF ReconcileInv, Typed
    <3>3. \A o \in Actors : Running(o) => call[o].batch \in Batches
      BY DEF ReconcileInv, CallsOK, CallOK, Running
    <3> QED
      BY <1>1, <2>1, <2>5, <2>7, <3>1, <3>2, <3>3 DEF ReconcileInv, RunsApart, Running
  <2> QED
    BY <1>2, <2>3, <2>4, <2>6, <2>7, <2>8, CallOnly DEF ReconcileInv, Typed
<1> QED
  BY <1>3, <1>4

LEMMA AbortKeeps ==
  ASSUME ReconcileInv, NEW a \in Actors, Abort(a)
  PROVE  ReconcileInv'
<1>1. PICK x \in CallRow : x = call[a] /\ CallOK(x)
  BY CallAt
<1>2. /\ UNCHANGED <<status, deleted, version, links, proposals>>
      /\ call' = [call EXCEPT ![a] = Idle]
      /\ batch' = [batch EXCEPT ![x.batch] = "reconcile_error"]
  BY <1>1 DEF Abort, ledger
<1>3. x.verdict = "auto_applied" /\ x.batch \in Batches
  BY <1>1 DEF Abort, CallOK, OfRun
<1>4. batch' \in [Batches -> BatchStatus]
  BY <1>2 DEF ReconcileInv, Typed, BatchStatus
<1>5. RunsApart'
  <2>1. \A o \in Actors : call'[o] = IF o = a THEN Idle ELSE call[o]
    BY <1>2 DEF ReconcileInv, Typed
  <2>2. \A b \in Batches :
          batch'[b] = IF b = x.batch THEN "reconcile_error" ELSE batch[b]
    BY <1>2 DEF ReconcileInv, Typed
  <2>3. \A o \in Actors : Running(o) => call[o].batch \in Batches
    BY DEF ReconcileInv, CallsOK, CallOK, Running
  <2> QED
    BY <1>1, <1>3, <2>1, <2>2, <2>3, IdleRow DEF ReconcileInv, RunsApart, Running
<1> QED
  BY <1>2, <1>4, <1>5, IdleRow, CallOnly DEF ReconcileInv, Typed

LEMMA StartRunKeeps ==
  ASSUME ReconcileInv, NEW a \in Actors, NEW b \in Batches, StartRun(a, b)
  PROVE  ReconcileInv'
<1>1. /\ UNCHANGED <<status, deleted, version, links, proposals>>
      /\ batch' = [batch EXCEPT ![b] = "reconciling"] /\ batch[b] = "extracted"
  BY DEF StartRun, Electable, ledger
<1>2. PICK first \in {"exact", "filter"} :
        call' = [call EXCEPT ![a] = [Idle EXCEPT !.at = first, !.batch = b,
                                                 !.verdict = "auto_applied"]]
  BY DEF StartRun
<1>3. PICK y : y = [Idle EXCEPT !.at = first, !.batch = b, !.verdict = "auto_applied"]
  OBVIOUS
<1>4. /\ y.at = first /\ y.batch = b /\ y.verdict = "auto_applied"
      /\ y.found = {} /\ y.todo = {} /\ y.cur = 0
  BY <1>3 DEF Idle
<1>5. y \in CallRow
  BY <1>3 DEF Idle, CallRow, CallStep, ProposalStatus
<1>6. CallOK(y) /\ FreshCall(y)
  BY <1>4 DEF CallOK, FreshCall, Removing, OfRun
<1>7. call' = [call EXCEPT ![a] = y]
  BY <1>2, <1>3
<1>8. batch' \in [Batches -> BatchStatus]
  BY <1>1 DEF ReconcileInv, Typed, BatchStatus
<1>9. RunsApart'
  <2>1. \A o \in Actors : call'[o] = IF o = a THEN y ELSE call[o]
    BY <1>7 DEF ReconcileInv, Typed
  <2>2. \A d \in Batches : batch'[d] = IF d = b THEN "reconciling" ELSE batch[d]
    BY <1>1 DEF ReconcileInv, Typed
  <2>3. \A o \in Actors : Running(o) => call[o].batch \in Batches /\ call[o].batch # b
    BY <1>1 DEF ReconcileInv, CallsOK, CallOK, Running, RunsApart
  <2> QED
    BY <1>4, <2>1, <2>2, <2>3 DEF ReconcileInv, RunsApart, Running
<1> QED
  BY <1>1, <1>5, <1>6, <1>7, <1>8, <1>9, CallOnly DEF ReconcileInv, Typed

\* What one INSERT adds: a row for each finding, undecided, behind the rows
\* that are there; the certain ones are those that the run deals with next.
Inserted(a, x, old, new, sure) ==
  /\ old \in Nat /\ DOMAIN proposals = 1 .. old
  /\ sure = {old + k : k \in {j \in DOMAIN new : new[j].score >= Threshold}}
  /\ call' = [call EXCEPT ![a].found = {}, ![a].todo = sure, ![a].at = "next"]
  /\ UNCHANGED <<batch, status, deleted, version, links>>
  /\ DOMAIN new = 1 .. Len(new) /\ Len(new) \in Nat
  /\ \A i, j \in DOMAIN new : new[i] = new[j] => i = j
  /\ proposals' \in Seq(Proposal)
  /\ DOMAIN proposals' = 1 .. (old + Len(new))
  /\ \A i \in DOMAIN proposals : proposals'[i] = proposals[i]
  /\ \A k \in DOMAIN new : proposals'[old + k] = new[k]
  /\ \A k \in DOMAIN new : \E c \in x.found :
       /\ new[k] = [batch |-> x.batch, dup |-> c.dup, canon |-> c.canon,
                    score |-> c.score, status |-> "proposed"]
       /\ Finding(x.batch, c.dup, c.canon, c.score)
       /\ status[c.dup] # "absent" /\ status[c.canon] # "absent"

LEMMA InsertShape ==
  ASSUME ReconcileInv, NEW a \in Actors, InsertProposals(a),
         NEW x \in CallRow, x = call[a], CallOK(x), x.batch \in Batches,
         x.found \in SUBSET Candidate
  PROVE  \E old, new, sure : Inserted(a, x, old, new, sure)
<1>1. PICK rows : rows = {[batch |-> x.batch, dup |-> c.dup, canon |-> c.canon,
                           score |-> c.score, status |-> "proposed"] : c \in x.found}
  OBVIOUS
<1>2. PICK new : new = SetToSeq(rows)
  OBVIOUS
<1>3. PICK sure : sure = {Len(proposals) + k : k \in {j \in DOMAIN new :
                                                       new[j].score >= Threshold}}
  OBVIOUS
<1>4. /\ proposals' = proposals \o new
      /\ call' = [call EXCEPT ![a].found = {}, ![a].todo = sure, ![a].at = "next"]
      /\ UNCHANGED <<batch, status, deleted, version, links>>
  <2>1. PICK b, found : b = x.batch /\ found = x.found
    OBVIOUS
  <2>2. call[a].batch = b /\ call[a].found = found
    BY <2>1
  <2>3. new = SetToSeq({[batch |-> b, dup |-> c.dup, canon |-> c.canon,
                         score |-> c.score, status |-> "proposed"] : c \in found})
    BY <1>1, <1>2, <2>1
  <2>4. proposals' = proposals \o new
    BY <2>2, <2>3 DEF InsertProposals
  <2> DEFINE seq == SetToSeq({[batch |-> call[a].batch, dup |-> c.dup,
                               canon |-> c.canon, score |-> c.score,
                               status |-> "proposed"] : c \in call[a].found})
             idx == {Len(proposals) + k : k \in {j \in DOMAIN seq :
                                                  seq[j].score >= Threshold}}
  <2>5. call' = [call EXCEPT ![a].found = {}, ![a].todo = idx, ![a].at = "next"]
    BY DEF InsertProposals
  <2>6. seq = new
    BY <2>2, <2>3
  <2> HIDE DEF seq
  <2>7. idx = sure
    BY <1>3, <2>6
  <2> HIDE DEF idx
  <2>8. call' = [call EXCEPT ![a].found = {}, ![a].todo = sure, ![a].at = "next"]
    BY <2>5, <2>7
  <2> QED
    BY <2>4, <2>8 DEF InsertProposals, ledger
<1>5. rows \subseteq Proposal
  BY <1>1 DEF Proposal, Candidate, ProposalStatus
<1>6. IsFiniteSet(rows)
  <2>1. IsFiniteSet(x.found)
    BY FindingsFinite
  <2>2. PICK f : f = [c \in x.found |->
                       [batch |-> x.batch, dup |-> c.dup, canon |-> c.canon,
                        score |-> c.score, status |-> "proposed"]]
    OBVIOUS
  <2>3. f \in Surjection(x.found, rows)
    BY <1>1, <2>2 DEF Surjection
  <2> QED
    BY <2>1, <2>3, FS_Surjection
<1>7. /\ new \in Seq(rows) /\ DOMAIN new = 1 .. Len(new)
      /\ \A i, j \in DOMAIN new : new[i] = new[j] => i = j
  BY <1>2, <1>6, SetAsSeq
<1>8. \A j \in DOMAIN new : new[j] \in rows /\ new[j] \in Proposal
  BY <1>5, <1>7
<1>9. PICK old \in Nat : old = Len(proposals) /\ DOMAIN proposals = 1 .. old
  BY DEF ReconcileInv, Typed
<1>10. /\ proposals' \in Seq(Proposal)
       /\ DOMAIN proposals' = 1 .. (old + Len(new)) /\ Len(new) \in Nat
       /\ \A i \in DOMAIN proposals : proposals'[i] = proposals[i]
       /\ \A k \in DOMAIN new : proposals'[old + k] = new[k]
  <2>1. proposals \in Seq(Proposal) /\ new \in Seq(Proposal)
    BY <1>5, <1>7 DEF ReconcileInv, Typed
  <2> QED
    BY <1>4, <1>9, <2>1
<1>11. ASSUME NEW k \in DOMAIN new
       PROVE  \E c \in x.found :
                /\ new[k] = [batch |-> x.batch, dup |-> c.dup, canon |-> c.canon,
                             score |-> c.score, status |-> "proposed"]
                /\ Finding(x.batch, c.dup, c.canon, c.score)
                /\ status[c.dup] # "absent" /\ status[c.canon] # "absent"
  BY <1>1, <1>8 DEF CallOK
<1>12. DOMAIN new = 1 .. Len(new) /\ \A i, k \in DOMAIN new : new[i] = new[k] => i = k
  BY <1>7
<1>13. /\ call' = [call EXCEPT ![a].found = {}, ![a].todo = sure, ![a].at = "next"]
       /\ UNCHANGED <<batch, status, deleted, version, links>>
  BY <1>4
<1>14. sure = {old + k : k \in {j \in DOMAIN new : new[j].score >= Threshold}}
  BY <1>3, <1>9
<1>15. Inserted(a, x, old, new, sure)
  BY <1>9, <1>10, <1>11, <1>12, <1>13, <1>14 DEF Inserted
<1> QED
  BY <1>15

\* It adds a row for every pair in hand, in a batch that no other run is at
\* work on.
LEMMA InsertKeeps ==
  ASSUME ReconcileInv, NEW a \in Actors, InsertProposals(a)
  PROVE  ReconcileInv'
<1>1. PICK x \in CallRow : x = call[a] /\ CallOK(x)
  BY CallAt
<1>2. /\ x.at = "insert" /\ x.verdict = "auto_applied" /\ x.batch \in Batches
      /\ x.cur = 0 /\ x.found \in SUBSET Candidate
  BY <1>1 DEF InsertProposals, CallOK, OfRun, Removing, CallRow
<1>3. PICK old, new, sure : Inserted(a, x, old, new, sure)
  BY <1>1, <1>2, InsertShape
<1>4. sure = {old + k : k \in {j \in DOMAIN new : new[j].score >= Threshold}}
  BY <1>3 DEF Inserted
<1>5. /\ call' = [call EXCEPT ![a].found = {}, ![a].todo = sure, ![a].at = "next"]
      /\ UNCHANGED <<batch, status, deleted, version, links>>
  BY <1>3 DEF Inserted
<1>6. /\ DOMAIN new = 1 .. Len(new) /\ \A i, j \in DOMAIN new : new[i] = new[j] => i = j
  BY <1>3 DEF Inserted
<1>7. old \in Nat /\ DOMAIN proposals = 1 .. old
  BY <1>3 DEF Inserted
<1>8. /\ proposals' \in Seq(Proposal)
      /\ DOMAIN proposals' = 1 .. (old + Len(new)) /\ Len(new) \in Nat
      /\ \A i \in DOMAIN proposals : proposals'[i] = proposals[i]
      /\ \A k \in DOMAIN new : proposals'[old + k] = new[k]
  BY <1>3 DEF Inserted
<1>9. \A i \in DOMAIN proposals' :
         i \in DOMAIN proposals \/ \E k \in DOMAIN new : i = old + k
  <2>1. ASSUME NEW i \in DOMAIN proposals', i \notin DOMAIN proposals
        PROVE  i - old \in DOMAIN new /\ i = old + (i - old)
    BY <1>6, <1>7, <1>8, <2>1
  <2> QED
    BY <2>1
<1>10. \A k \in DOMAIN new :
         \E c \in x.found :
           /\ new[k] = [batch |-> x.batch, dup |-> c.dup, canon |-> c.canon,
                        score |-> c.score, status |-> "proposed"]
           /\ Finding(x.batch, c.dup, c.canon, c.score)
           /\ status[c.dup] # "absent" /\ status[c.canon] # "absent"
  BY <1>3 DEF Inserted
<1>11. Grows
  <2>1. DOMAIN proposals \subseteq DOMAIN proposals'
    BY <1>7, <1>8
  <2> QED
    BY <1>5, <1>8, <2>1 DEF Grows
<1>12. sure \in SUBSET Nat /\ sure \subseteq DOMAIN proposals'
       /\ \A i \in sure : proposals'[i].score >= Threshold
  <2>1. ASSUME NEW i \in sure
        PROVE  i \in Nat /\ i \in DOMAIN proposals' /\ proposals'[i].score >= Threshold
    <3>1. PICK k \in DOMAIN new : i = old + k /\ new[k].score >= Threshold
      BY <1>4, <1>7, <2>1
    <3>2. proposals'[i].score >= Threshold
      BY <1>8, <3>1
    <3>3. i \in 1 .. (old + Len(new))
      BY <1>6, <1>7, <1>8, <3>1
    <3> QED
      BY <1>8, <3>2, <3>3
  <2> QED
    BY <2>1
<1>13. PICK y : y = [x EXCEPT !.found = {}, !.todo = sure, !.at = "next"]
  OBVIOUS
<1>14. y \in CallRow
  BY <1>12, <1>13 DEF CallRow, CallStep
<1>15. /\ y.todo = sure /\ y.cur = 0 /\ y.at = "next" /\ y.found = {}
       /\ y.verdict = x.verdict /\ y.batch = x.batch
  BY <1>2, <1>13 DEF CallRow
<1>16. call' = [call EXCEPT ![a] = y]
  BY <1>1, <1>5, <1>13 DEF ReconcileInv, Typed
<1>17. Typed'
  BY <1>5, <1>8, <1>14, <1>16 DEF ReconcileInv, Typed
<1>18. CallsOK'
  <2>1. CallOK(y)'
    BY <1>2, <1>12, <1>15 DEF CallOK, Removing, OfRun
  <2> QED
    BY <1>11, <1>14, <1>16, <2>1, OneMoves DEF ReconcileInv
<1>19. ProposalsOK'
  <2>1. ASSUME NEW i \in DOMAIN proposals'
        PROVE  ProposalOK(proposals[i])'
    <3>1. CASE i \in DOMAIN proposals
      <4>1. PICK p : p = proposals[i] /\ ProposalOK(p)
        BY <3>1 DEF ReconcileInv, ProposalsOK
      <4>2. proposals'[i] = p
        BY <1>8, <3>1, <4>1
      <4>3. ProposalOK(p)'
        BY <1>5, <4>1 DEF ProposalOK, Finding
      <4> QED
        BY <4>2, <4>3 DEF ProposalOK
    <3>2. CASE i \notin DOMAIN proposals
      <4>1. PICK k \in DOMAIN new : i = old + k
        BY <1>9, <3>2
      <4>2. PICK c \in x.found :
              /\ proposals'[i] = [batch |-> x.batch, dup |-> c.dup, canon |-> c.canon,
                                  score |-> c.score, status |-> "proposed"]
              /\ Finding(x.batch, c.dup, c.canon, c.score)
              /\ status[c.dup] # "absent" /\ status[c.canon] # "absent"
        <5>1. proposals'[i] = new[k]
          BY <1>8, <4>1
        <5> QED
          BY <1>10, <5>1
      <4>3. PICK p : p = proposals'[i]
        OBVIOUS
      <4>4. /\ p.batch = x.batch /\ p.dup = c.dup /\ p.canon = c.canon
            /\ p.score = c.score /\ p.status = "proposed"
        BY <4>2, <4>3
      <4>5. ProposalOK(p)'
        BY <1>5, <4>2, <4>4 DEF ProposalOK, Applied, Finding
      <4> QED
        BY <4>3, <4>5 DEF ProposalOK
    <3> QED
      BY <3>1, <3>2
  <2> QED
    BY <2>1 DEF ProposalsOK
<1>20. MintedOnce'
  <2>1. ASSUME NEW i \in DOMAIN proposals, NEW k \in DOMAIN new
        PROVE  ~ /\ proposals[i].batch = new[k].batch /\ proposals[i].dup = new[k].dup
                 /\ proposals[i].canon = new[k].canon
    <3>1. PICK c \in x.found :
            new[k] = [batch |-> x.batch, dup |-> c.dup, canon |-> c.canon,
                      score |-> c.score, status |-> "proposed"]
      BY <1>10
    <3>2. FreshCall(x)
      BY <1>1 DEF ReconcileInv, Fresh
    <3> QED
      BY <1>2, <3>1, <3>2 DEF FreshCall
  <2>2. ASSUME NEW j \in DOMAIN new, NEW k \in DOMAIN new,
               new[j].dup = new[k].dup, new[j].canon = new[k].canon
        PROVE  j = k
    <3>1. PICK c \in x.found :
            /\ new[j] = [batch |-> x.batch, dup |-> c.dup, canon |-> c.canon,
                         score |-> c.score, status |-> "proposed"]
            /\ Finding(x.batch, c.dup, c.canon, c.score)
      BY <1>10
    <3>2. PICK d \in x.found :
            /\ new[k] = [batch |-> x.batch, dup |-> d.dup, canon |-> d.canon,
                         score |-> d.score, status |-> "proposed"]
            /\ Finding(x.batch, d.dup, d.canon, d.score)
      BY <1>10
    <3>3. c.dup = d.dup /\ c.canon = d.canon
      BY <2>2, <3>1, <3>2
    <3>4. c.score = d.score
      BY <3>1, <3>2, <3>3, OneFinding
    <3>5. new[j] = new[k]
      BY <3>1, <3>2, <3>3, <3>4
    <3> QED
      BY <1>6, <3>5
  <2>3. ASSUME NEW i \in DOMAIN proposals', NEW j \in DOMAIN proposals',
               proposals'[i].batch = proposals'[j].batch,
               proposals'[i].dup = proposals'[j].dup,
               proposals'[i].canon = proposals'[j].canon
        PROVE  i = j
    <3>1. CASE i \in DOMAIN proposals /\ j \in DOMAIN proposals
      <4>1. proposals'[i] = proposals[i] /\ proposals'[j] = proposals[j]
        BY <1>8, <3>1
      <4> QED
        BY <2>3, <3>1, <4>1 DEF ReconcileInv, MintedOnce
    <3>2. CASE i \in DOMAIN proposals /\ j \notin DOMAIN proposals
      <4>1. PICK k \in DOMAIN new : j = old + k
        BY <1>9, <3>2
      <4>2. proposals'[i] = proposals[i] /\ proposals'[j] = new[k]
        BY <1>8, <3>2, <4>1
      <4> QED
        BY <2>1, <2>3, <3>2, <4>2
    <3>3. CASE i \notin DOMAIN proposals /\ j \in DOMAIN proposals
      <4>1. PICK k \in DOMAIN new : i = old + k
        BY <1>9, <3>3
      <4>2. proposals'[j] = proposals[j] /\ proposals'[i] = new[k]
        BY <1>8, <3>3, <4>1
      <4> QED
        BY <2>1, <2>3, <3>3, <4>2
    <3>4. CASE i \notin DOMAIN proposals /\ j \notin DOMAIN proposals
      <4>1. PICK k \in DOMAIN new, m \in DOMAIN new : i = old + k /\ j = old + m
        BY <1>9, <3>4
      <4>2. proposals'[i] = new[k] /\ proposals'[j] = new[m]
        BY <1>8, <4>1
      <4>3. k = m
        BY <2>2, <2>3, <4>2
      <4> QED
        BY <4>1, <4>3
    <3> QED
      BY <3>1, <3>2, <3>3, <3>4
  <2> QED
    BY <2>3 DEF MintedOnce
<1>21. Fresh'
  <2>1. ASSUME NEW o \in Actors PROVE FreshCall(call[o])'
    <3>1. CASE o = a
      <4>1. call'[o] = y
        BY <1>16, <3>1 DEF ReconcileInv, Typed
      <4> QED
        BY <1>15, <4>1 DEF FreshCall
    <3>2. CASE o # a
      <4>1. PICK z \in CallRow : z = call[o] /\ CallOK(z) /\ FreshCall(z)
        BY CallAt DEF ReconcileInv, Fresh
      <4>2. call'[o] = z
        BY <1>16, <3>2, <4>1 DEF ReconcileInv, Typed
      <4>3. z.at = "insert" => z.batch # x.batch
        BY <1>1, <1>2, <3>2, <4>1 DEF CallOK, OfRun, ReconcileInv, RunsApart, Running
      <4>4. \A k \in DOMAIN new : new[k].batch = x.batch
        BY <1>10
      <4>5. ASSUME z.at = "insert", NEW f \in z.found, NEW i \in DOMAIN proposals',
                   proposals'[i].batch = z.batch, proposals'[i].dup = f.dup,
                   proposals'[i].canon = f.canon
            PROVE  FALSE
        BY <1>8, <1>9, <4>1, <4>3, <4>4, <4>5 DEF FreshCall
      <4> QED
        BY <4>2, <4>5 DEF FreshCall
    <3> QED
      BY <3>1, <3>2
  <2> QED
    BY <2>1 DEF Fresh
<1>22. RunsApart'
  <2>1. x.at \notin {"view", "abort"}
    BY <1>2
  <2> QED
    BY <1>1, <1>2, <1>5, <1>14, <1>15, <1>16, <2>1, RunsKept DEF ReconcileInv, GoesOn
<1>23. RemovedProposed'
  BY <1>5, <1>11 DEF ReconcileInv, RemovedProposed, Grows
<1> QED
  BY <1>17, <1>18, <1>19, <1>20, <1>21, <1>22, <1>23 DEF ReconcileInv

----------------------------------------------------------------------------
(* The removal of a duplicate, and the requests.                           *)

\* A duplicate that is not live is removed already: its row was written once.
LEMMA ReadKeeps ==
  ASSUME ReconcileInv, NEW a \in Actors, NEW i \in call[a].todo, ReadDuplicate(a, i)
  PROVE  ReconcileInv'
<1>1. PICK x \in CallRow : x = call[a] /\ CallOK(x)
  BY CallAt
<1>2. x.at = "next" /\ i \in x.todo /\ i \in DOMAIN proposals /\ i \in Nat
  BY <1>1 DEF ReadDuplicate, CallOK, CallRow
<1>3. PICK t \in Txns : t = proposals[i].dup /\ status[t] # "absent"
  BY <1>2 DEF ReconcileInv, ProposalsOK, ProposalOK, Finding
<1>4. PICK v \in Nat : v = version[t]
  BY DEF ReconcileInv, Typed
<1>5. PICK st \in {"copy", "stamp"} :
        /\ st = IF Live(t) THEN "copy" ELSE "stamp"
        /\ st = "stamp" => t \in deleted
  BY <1>3 DEF Live, ReconcileInv, Typed
<1>6. call' = [call EXCEPT ![a].cur = i, ![a].read = v, ![a].at = st]
  <2>1. version[proposals[i].dup] = v
    BY <1>3, <1>4
  <2>2. CASE Live(proposals[i].dup)
    <3>1. st = "copy"
      BY <1>3, <1>5, <2>2 DEF Live
    <3>2. call' = [call EXCEPT ![a].cur = i, ![a].read = version[proposals[i].dup],
                               ![a].at = "copy"]
      BY <2>2 DEF ReadDuplicate
    <3> QED
      BY <2>1, <3>1, <3>2
  <2>3. CASE ~ Live(proposals[i].dup)
    <3>1. st = "stamp"
      BY <1>3, <1>5, <2>3 DEF Live
    <3>2. call' = [call EXCEPT ![a].cur = i, ![a].read = version[proposals[i].dup],
                               ![a].at = "stamp"]
      BY <2>3 DEF ReadDuplicate
    <3> QED
      BY <2>1, <3>1, <3>2
  <2> QED
    BY <2>2, <2>3
<1>7. PICK y : y = [x EXCEPT !.cur = i, !.read = v, !.at = st]
  OBVIOUS
<1>8. call' = [call EXCEPT ![a] = y]
  BY <1>1, <1>6, <1>7 DEF ReconcileInv, Typed
<1>9. y \in CallRow
  BY <1>2, <1>7 DEF CallRow, CallStep
<1>10. /\ y.todo = x.todo /\ y.cur = i /\ y.at = st /\ y.found = x.found
       /\ y.verdict = x.verdict /\ y.batch = x.batch
  BY <1>7 DEF CallRow
<1>11. CallOK(y) /\ FreshCall(y)
  <2>1. st \in Removing /\ st \notin OfRun /\ st # "insert"
    BY <1>5 DEF Removing, OfRun
  <2>2. st = "stamp" => proposals[i].dup \in deleted
    BY <1>3, <1>5
  <2> QED
    BY <1>1, <1>2, <1>10, <2>1, <2>2 DEF CallOK, FreshCall
<1>12. UNCHANGED <<batch, status, deleted, version, links, proposals>>
  BY DEF ReadDuplicate, ledger
<1>13. RunsApart'
  <2>1. x.at \notin {"view", "abort"}
    BY <1>2
  <2> QED
    BY <1>1, <1>8, <1>9, <1>10, <1>12, <2>1, RunsKept DEF ReconcileInv, GoesOn
<1> QED
  BY <1>8, <1>9, <1>11, <1>12, <1>13, CallOnly DEF ReconcileInv, Typed

\* What a call with a proposal in hand knows of it.
LEMMA InHand ==
  ASSUME ReconcileInv, NEW a \in Actors, call[a].at \in Removing
  PROVE  /\ call[a].cur \in DOMAIN proposals /\ call[a].cur \in call[a].todo
         /\ Dup(a) \in Txns /\ Canon(a) \in Txns
         /\ proposals[call[a].cur] \in Proposal /\ ProposalOK(proposals[call[a].cur])
<1>1. call[a].cur \in call[a].todo /\ call[a].cur \in DOMAIN proposals
  BY CallAt DEF CallOK
<1>2. ProposalOK(proposals[call[a].cur]) /\ proposals[call[a].cur] \in Proposal
  BY <1>1 DEF ReconcileInv, ProposalsOK, Typed
<1> QED
  BY <1>1, <1>2 DEF ProposalOK, Finding, Dup, Canon

\* A call goes from one statement of the removal to the next.
LEMMA AdvanceKeeps ==
  ASSUME ReconcileInv, NEW a \in Actors, NEW st \in Removing \ {"stamp"},
         call[a].at \in Removing, call' = [call EXCEPT ![a].at = st],
         links' \in [Txns -> SUBSET Txns],
         UNCHANGED <<batch, status, deleted, version, proposals>>
  PROVE  ReconcileInv'
<1>1. PICK x \in CallRow : x = call[a] /\ CallOK(x)
  BY CallAt
<1>2. PICK y : y = [x EXCEPT !.at = st]
  OBVIOUS
<1>3. call' = [call EXCEPT ![a] = y]
  BY <1>1, <1>2 DEF ReconcileInv, Typed
<1>4. y \in CallRow
  BY <1>2 DEF CallRow, CallStep, Removing
<1>5. /\ y.todo = x.todo /\ y.cur = x.cur /\ y.at = st /\ y.found = x.found
      /\ y.verdict = x.verdict /\ y.batch = x.batch
  BY <1>2 DEF CallRow
<1>6. CallOK(y) /\ FreshCall(y)
  BY <1>1, <1>5 DEF CallOK, FreshCall, Removing, OfRun
<1>7. RunsApart'
  <2>1. x.at \notin {"view", "abort"}
    BY <1>1 DEF Removing
  <2>2. GoesOn(x, y)
    BY <1>5, <2>1 DEF GoesOn
  <2> QED
    BY <1>1, <1>3, <1>4, <2>2, RunsKept DEF ReconcileInv
<1> QED
  BY <1>3, <1>4, <1>6, <1>7, CallOnly DEF ReconcileInv, Typed

LEMMA LinksKeep ==
  ASSUME ReconcileInv, NEW a \in Actors, CopyLinks(a) \/ DropLinks(a)
  PROVE  ReconcileInv'
<1>1. call[a].at \in Removing
  BY DEF CopyLinks, DropLinks, Removing
<1>2. PICK d \in Txns, c \in Txns : d = Dup(a) /\ c = Canon(a)
  BY <1>1, InHand
<1>3. links' \in [Txns -> SUBSET Txns]
  <2>1. CASE CopyLinks(a)
    <3>1. links' = [links EXCEPT ![c] = @ \cup links[d]]
      BY <1>2, <2>1 DEF CopyLinks
    <3> QED
      BY <3>1 DEF ReconcileInv, Typed
  <2>2. CASE DropLinks(a)
    <3>1. links' = [links EXCEPT ![d] = {}]
      BY <1>2, <2>2 DEF DropLinks
    <3> QED
      BY <3>1 DEF ReconcileInv, Typed
  <2> QED
    BY <2>1, <2>2
<1>4. PICK st \in Removing \ {"stamp"} : call' = [call EXCEPT ![a].at = st]
  BY DEF CopyLinks, DropLinks, Removing
<1> QED
  BY <1>1, <1>3, <1>4, AdvanceKeeps DEF CopyLinks, DropLinks

\* A call that throws, on rows that stay.
LEMMA ThrowKeeps ==
  ASSUME ReconcileInv, NEW a \in Actors, call' = [call EXCEPT ![a] = AfterThrow(@)],
         UNCHANGED <<batch, ledger, proposals>>
  PROVE  ReconcileInv'
<1>1. PICK x \in CallRow : x = call[a] /\ CallOK(x)
  BY CallAt
<1>2. PICK y : y = AfterThrow(x)
  OBVIOUS
<1>3. call' = [call EXCEPT ![a] = y]
  BY <1>1, <1>2
<1>4. /\ y \in CallRow /\ CallOK(y) /\ FreshCall(y)
      /\ GoesOn(x, y)
  BY <1>1, <1>2, ThrowRow DEF ReconcileInv
<1>5. RunsApart'
  BY <1>1, <1>3, <1>4, RunsKept, ZenonT(30) DEF ReconcileInv, GoesOn
<1> QED
  BY <1>3, <1>4, <1>5, CallOnly DEF ReconcileInv, Typed, ledger

LEMMA CheckKeeps ==
  ASSUME ReconcileInv, NEW a \in Actors, CheckDelete(a)
  PROVE  ReconcileInv'
<1>1. call[a].at \in Removing /\ UNCHANGED <<batch, ledger, proposals>>
  BY DEF CheckDelete, Removing
<1>2. CASE Deletable(Dup(a), call[a].read)
  <2>1. call' = [call EXCEPT ![a].at = "delete"]
    BY <1>2 DEF CheckDelete
  <2>2. PICK st \in Removing \ {"stamp"} : call' = [call EXCEPT ![a].at = st]
    BY <2>1 DEF Removing
  <2>3. links' \in [Txns -> SUBSET Txns]
    BY <1>1 DEF ReconcileInv, Typed, ledger
  <2> QED
    BY <1>1, <2>2, <2>3, AdvanceKeeps DEF ledger
<1>3. CASE ~ Deletable(Dup(a), call[a].read)
  <2>1. call' = [call EXCEPT ![a] = AfterThrow(@)]
    BY <1>3 DEF CheckDelete
  <2> QED
    BY <1>1, <2>1, ThrowKeeps
<1> QED
  BY <1>2, <1>3

\* The row in hand is deleted, and has a proposal.
LEMMA DeleteKeeps ==
  ASSUME ReconcileInv, NEW a \in Actors, WriteDelete(a)
  PROVE  ReconcileInv'
<1>1. PICK x \in CallRow : x = call[a] /\ CallOK(x)
  BY CallAt
<1>2. x.at = "delete" /\ x.at \in Removing
  BY <1>1 DEF WriteDelete, Removing
<1>3. PICK d \in Txns : d = Dup(a)
  BY <1>1, <1>2, InHand
<1>4. x.cur \in x.todo /\ x.cur \in DOMAIN proposals /\ proposals[x.cur].dup = d
  BY <1>1, <1>2, <1>3, InHand DEF Dup
<1>5. /\ deleted' = deleted \cup {d} /\ version' = [version EXCEPT ![d] = @ + 1]
      /\ call' = [call EXCEPT ![a].at = "stamp"]
      /\ UNCHANGED <<batch, status, links, proposals>>
  BY <1>3 DEF WriteDelete
<1>6. PICK y : y = [x EXCEPT !.at = "stamp"]
  OBVIOUS
<1>7. call' = [call EXCEPT ![a] = y]
  BY <1>1, <1>5, <1>6 DEF ReconcileInv, Typed
<1>8. y \in CallRow
  BY <1>6 DEF CallRow, CallStep
<1>9. /\ y.todo = x.todo /\ y.cur = x.cur /\ y.at = "stamp" /\ y.found = x.found
      /\ y.verdict = x.verdict /\ y.batch = x.batch
  BY <1>6 DEF CallRow
<1>10. Grows
  BY <1>5 DEF Grows
<1>11. Typed'
  <2>1. version' \in [Txns -> Nat]
    BY <1>5 DEF ReconcileInv, Typed
  <2>2. call' \in [Actors -> CallRow]
    BY <1>7, <1>8 DEF ReconcileInv, Typed
  <2> QED
    BY <1>5, <2>1, <2>2 DEF ReconcileInv, Typed
<1>13. CallOK(y)'
  BY <1>1, <1>2, <1>4, <1>5, <1>9 DEF CallOK, Removing, OfRun, Finding
<1>14. CallsOK'
  BY <1>7, <1>8, <1>10, <1>13, OneMoves DEF ReconcileInv
<1>15. ProposalsOK' /\ Fresh' /\ MintedOnce'
  <2>1. ProposalsOK'
    BY <1>5, <1>10, ProposalsKept DEF ReconcileInv
  <2>2. FreshCall(y)
    BY <1>9 DEF FreshCall
  <2>3. Fresh'
    BY <1>5, <1>7, <1>8, <2>2, FreshKept DEF ReconcileInv
  <2> QED
    BY <1>5, <2>1, <2>3 DEF ReconcileInv, MintedOnce
<1>16. RunsApart'
  <2>1. x.at \notin {"view", "abort"}
    BY <1>2
  <2>2. GoesOn(x, y)
    BY <1>9, <2>1 DEF GoesOn
  <2> QED
    BY <1>1, <1>5, <1>7, <1>8, <2>2, RunsKept DEF ReconcileInv
<1>17. RemovedProposed'
  BY <1>4, <1>5 DEF ReconcileInv, RemovedProposed
<1> QED
  BY <1>11, <1>14, <1>15, <1>16, <1>17 DEF ReconcileInv

\* A proposal gets a status it may have, from a call that goes on.
LEMMA MarkKeeps ==
  ASSUME ReconcileInv, NEW a \in Actors, NEW i \in DOMAIN proposals,
         NEW st \in ProposalStatus, NEW y \in CallRow,
         proposals' = [proposals EXCEPT ![i].status = st],
         call' = [call EXCEPT ![a] = y],
         UNCHANGED <<batch, status, deleted, version, links>>,
         st = "auto_applied" => proposals[i].score >= Threshold,
         st \in Applied /\ "restore" \notin MayUpset => proposals[i].dup \in deleted,
         CallOK(y), FreshCall(y), y.at = "next", RunsApart'
  PROVE  ReconcileInv'
<1>1. PICK p \in Proposal : p = proposals[i] /\ ProposalOK(p)
  BY DEF ReconcileInv, ProposalsOK, Typed
<1>2. PICK q : q = [p EXCEPT !.status = st]
  OBVIOUS
<1>3. q \in Proposal /\ q.status = st /\ q.batch = p.batch /\ q.dup = p.dup
      /\ q.canon = p.canon /\ q.score = p.score
  BY <1>2 DEF Proposal
<1>4. proposals' = [proposals EXCEPT ![i] = q]
  BY <1>1, <1>2
<1>5. /\ proposals' \in Seq(Proposal) /\ DOMAIN proposals' = DOMAIN proposals
      /\ \A j \in DOMAIN proposals : proposals'[j] = IF j = i THEN q ELSE proposals[j]
  <2>1. proposals \in Seq(Proposal) /\ i \in 1 .. Len(proposals)
    BY DEF ReconcileInv, Typed
  <2>2. /\ proposals' \in Seq(Proposal) /\ Len(proposals') = Len(proposals)
        /\ \A j \in 1 .. Len(proposals) :
             proposals'[j] = IF j = i THEN q ELSE proposals[j]
    BY <1>3, <1>4, <2>1, ExceptSeq, SMTT(30)
  <2> QED
    BY <2>1, <2>2
<1>6. \A j \in DOMAIN proposals :
        /\ proposals'[j].batch = proposals[j].batch /\ proposals'[j].dup = proposals[j].dup
        /\ proposals'[j].canon = proposals[j].canon
        /\ proposals'[j].score = proposals[j].score
  BY <1>1, <1>3, <1>5
<1>7. Grows
  BY <1>5, <1>6 DEF Grows
<1>8. Typed'
  <2>1. call' \in [Actors -> CallRow]
    BY DEF ReconcileInv, Typed
  <2> QED
    BY <1>5, <2>1 DEF ReconcileInv, Typed
<1>9. CallsOK'
  <2>1. CallOK(y)'
    BY <1>7, CallKept DEF ReconcileInv
  <2> QED
    BY <1>7, <2>1, OneMoves DEF ReconcileInv
<1>10. ProposalsOK'
  <2>1. ProposalOK(q)'
    BY <1>1, <1>3 DEF ProposalOK, Finding
  <2>2. ASSUME NEW j \in DOMAIN proposals PROVE ProposalOK(proposals[j])'
    <3>1. CASE j = i
      BY <1>5, <2>1, <3>1 DEF ProposalOK
    <3>2. CASE j # i
      <4>1. PICK r : r = proposals[j] /\ ProposalOK(r)
        BY DEF ReconcileInv, ProposalsOK
      <4>2. proposals'[j] = r
        BY <1>5, <3>2, <4>1
      <4>3. ProposalOK(r)'
        BY <4>1 DEF ProposalOK, Finding
      <4> QED
        BY <4>2, <4>3 DEF ProposalOK
    <3> QED
      BY <3>1, <3>2
  <2> QED
    BY <1>5, <2>2 DEF ProposalsOK
<1>11. MintedOnce'
  BY <1>5, <1>6 DEF ReconcileInv, MintedOnce
<1>12. Fresh'
  <2>1. ASSUME NEW o \in Actors PROVE FreshCall(call[o])'
    <3>1. CASE o = a
      <4>1. call'[o] = y
        BY <3>1 DEF ReconcileInv, Typed
      <4> QED
        BY <4>1 DEF FreshCall
    <3>2. CASE o # a
      <4>1. call'[o] = call[o] /\ FreshCall(call[o])
        BY <3>2 DEF ReconcileInv, Typed, Fresh
      <4> QED
        BY <1>5, <1>6, <4>1 DEF FreshCall
    <3> QED
      BY <3>1, <3>2
  <2> QED
    BY <2>1 DEF Fresh
<1>13. RemovedProposed'
  BY <1>5, <1>6 DEF ReconcileInv, RemovedProposed
<1> QED
  BY <1>8, <1>9, <1>10, <1>11, <1>12, <1>13 DEF ReconcileInv

LEMMA StampKeeps ==
  ASSUME ReconcileInv, NEW a \in Actors, Stamp(a)
  PROVE  ReconcileInv'
<1>1. PICK x \in CallRow : x = call[a] /\ CallOK(x)
  BY CallAt
<1>2. x.at = "stamp" /\ x.at \in Removing
  BY <1>1 DEF Stamp, Removing
<1>3. PICK i \in DOMAIN proposals : i = x.cur /\ i \in x.todo
  BY <1>1, <1>2 DEF CallOK
<1>4. PICK st \in ProposalStatus : st = x.verdict
  BY DEF CallRow
<1>5. PICK y : y = Next1(x)
  OBVIOUS
<1>6. /\ y \in CallRow /\ CallOK(y) /\ FreshCall(y) /\ GoesOn(x, y) /\ y.at = "next"
  <2>1. y = AfterThrow(x)
    BY <1>2, <1>5 DEF AfterThrow
  <2>2. y.at = "next"
    BY <1>5 DEF Next1, CallRow
  <2> QED
    BY <1>1, <2>1, <2>2, ThrowRow DEF ReconcileInv
<1>7. /\ proposals' = [proposals EXCEPT ![i].status = st]
      /\ call' = [call EXCEPT ![a] = y]
      /\ UNCHANGED <<batch, status, deleted, version, links>>
  BY <1>1, <1>3, <1>4, <1>5 DEF Stamp, ledger
<1>8. /\ st = "auto_applied" => proposals[i].score >= Threshold
      /\ "restore" \notin MayUpset => proposals[i].dup \in deleted
  BY <1>1, <1>2, <1>3, <1>4 DEF CallOK
<1>9. RunsApart'
  BY <1>1, <1>6, <1>7, RunsKept DEF ReconcileInv
<1> QED
  BY <1>6, <1>7, <1>8, <1>9, MarkKeeps

LEMMA RejectKeeps ==
  ASSUME ReconcileInv, NEW a \in Actors, NEW i \in call[a].todo, Reject(a, i)
  PROVE  ReconcileInv'
<1>1. PICK x \in CallRow : x = call[a] /\ CallOK(x)
  BY CallAt
<1>2. x.at = "next" /\ x.cur = 0 /\ i \in DOMAIN proposals
  BY <1>1 DEF Reject, CallOK, Removing
<1>3. PICK st \in ProposalStatus : st = "rejected"
  BY DEF ProposalStatus
<1>4. PICK y : y = [x EXCEPT !.todo = x.todo \ {i}]
  OBVIOUS
<1>5. /\ y \in CallRow /\ y.todo \subseteq x.todo /\ y.cur = 0 /\ y.at = "next"
      /\ y.found = x.found /\ y.verdict = x.verdict /\ y.batch = x.batch
  BY <1>2, <1>4 DEF CallRow
<1>6. /\ proposals' = [proposals EXCEPT ![i].status = st]
      /\ call' = [call EXCEPT ![a] = y]
      /\ UNCHANGED <<batch, status, deleted, version, links>>
  BY <1>1, <1>3, <1>4 DEF Reject, ledger, ReconcileInv, Typed
<1>7. CallOK(y) /\ FreshCall(y) /\ GoesOn(x, y)
  BY <1>1, <1>2, <1>5, NextRow DEF ReconcileInv, GoesOn
<1>8. RunsApart'
  BY <1>1, <1>5, <1>6, <1>7, RunsKept DEF ReconcileInv
<1>9. /\ st = "auto_applied" => proposals[i].score >= Threshold
      /\ st \in Applied /\ "restore" \notin MayUpset => proposals[i].dup \in deleted
  BY <1>3 DEF Applied
<1>10. CallOK(y) /\ FreshCall(y) /\ y \in CallRow /\ y.at = "next"
  BY <1>5, <1>7
<1> QED
  BY <1>2, <1>6, <1>8, <1>9, <1>10, MarkKeeps

LEMMA FaultOnReadKeeps ==
  ASSUME ReconcileInv, NEW a \in Actors, NEW i \in call[a].todo, FaultOnRead(a, i)
  PROVE  ReconcileInv'
<1>1. PICK x \in CallRow : x = call[a] /\ CallOK(x)
  BY CallAt
<1>2. x.at = "next" /\ x.cur = 0
  BY <1>1 DEF FaultOnRead, CallOK, Removing
<1>3. PICK y : y = [x EXCEPT !.todo = x.todo \ {i}]
  OBVIOUS
<1>4. /\ y \in CallRow /\ y.todo \subseteq x.todo /\ y.cur = 0 /\ y.at = "next"
      /\ y.found = x.found /\ y.verdict = x.verdict /\ y.batch = x.batch
  BY <1>2, <1>3 DEF CallRow
<1>5. /\ call' = [call EXCEPT ![a] = y]
      /\ UNCHANGED <<batch, status, deleted, version, links, proposals>>
  BY <1>1, <1>3 DEF FaultOnRead, ledger, ReconcileInv, Typed
<1>6. CallOK(y) /\ FreshCall(y) /\ GoesOn(x, y)
  BY <1>1, <1>2, <1>4, NextRow DEF ReconcileInv, GoesOn
<1>7. RunsApart'
  BY <1>1, <1>4, <1>5, <1>6, RunsKept DEF ReconcileInv
<1> QED
  BY <1>4, <1>5, <1>6, <1>7, CallOnly DEF ReconcileInv, Typed

LEMMA StartRequestKeeps ==
  ASSUME ReconcileInv, NEW a \in Actors, NEW b \in Batches,
         NEW v \in {"user_applied", "rejected"}, StartRequest(a, b, v)
  PROVE  ReconcileInv'
<1>1. PICK S : /\ S \subseteq DOMAIN proposals
               /\ call' = [call EXCEPT ![a] = [Idle EXCEPT !.at = "next", !.batch = b,
                                                 !.todo = S, !.verdict = v]]
  BY DEF StartRequest
<1>2. PICK y : y = [Idle EXCEPT !.at = "next", !.batch = b, !.todo = S, !.verdict = v]
  OBVIOUS
<1>3. S \in SUBSET Nat
  BY <1>1 DEF ReconcileInv, Typed
<1>4. /\ y.at = "next" /\ y.batch = b /\ y.verdict = v /\ y.found = {} /\ y.todo = S
      /\ y.cur = 0
  BY <1>2 DEF Idle
<1>5. y \in CallRow
  BY <1>2, <1>3 DEF Idle, CallRow, CallStep, ProposalStatus
<1>6. CallOK(y) /\ FreshCall(y)
  BY <1>1, <1>4 DEF CallOK, FreshCall, Removing, OfRun
<1>7. /\ call' = [call EXCEPT ![a] = y]
      /\ UNCHANGED <<batch, status, deleted, version, links, proposals>>
  BY <1>1, <1>2 DEF StartRequest, ledger
<1>8. RunsApart'
  <2>1. PICK x : x = call[a]
    OBVIOUS
  <2>2. GoesOn(x, y)
    BY <1>4 DEF GoesOn
  <2> QED
    BY <1>5, <1>7, <2>1, <2>2, RunsKept DEF ReconcileInv
<1> QED
  BY <1>5, <1>6, <1>7, <1>8, CallOnly DEF ReconcileInv, Typed

LEMMA FinishRequestKeeps ==
  ASSUME ReconcileInv, NEW a \in Actors, FinishRequest(a)
  PROVE  ReconcileInv'
<1>1. /\ call' = [call EXCEPT ![a] = Idle]
      /\ UNCHANGED <<batch, status, deleted, version, links, proposals>>
  BY DEF FinishRequest, ledger
<1>2. RunsApart'
  <2>1. PICK x : x = call[a]
    OBVIOUS
  <2>2. GoesOn(x, Idle)
    BY IdleRow DEF GoesOn
  <2> QED
    BY <1>1, <2>1, <2>2, IdleRow, RunsKept DEF ReconcileInv
<1> QED
  BY <1>1, <1>2, IdleRow, CallOnly DEF ReconcileInv, Typed

----------------------------------------------------------------------------
(* The world around the engine.                                            *)

LEMMA CrashKeeps ==
  ASSUME ReconcileInv, Crash
  PROVE  ReconcileInv'
<1>1. /\ call' = [a \in Actors |-> Idle]
      /\ UNCHANGED <<batch, status, deleted, version, links, proposals>>
  BY DEF Crash, ledger
<1>2. \A a \in Actors : call'[a] = Idle
  BY <1>1
<1>3. Typed'
  BY <1>1, IdleRow DEF ReconcileInv, Typed
<1>4. Grows
  BY <1>1 DEF Grows
<1>5. CallsOK'
  <2>1. CallOK(Idle)'
    BY <1>4, IdleRow, CallKept DEF ReconcileInv
  <2>2. ASSUME NEW a \in Actors PROVE CallOK(call[a])'
    BY <1>2, <2>1 DEF CallOK
  <2> QED
    BY <2>2 DEF CallsOK
<1>6. ProposalsOK'
  BY <1>1, <1>4, ProposalsKept DEF ReconcileInv
<1>7. Fresh' /\ RunsApart'
  BY <1>2, IdleRow DEF Fresh, FreshCall, RunsApart, Running, Idle
<1> QED
  BY <1>1, <1>3, <1>5, <1>6, <1>7 DEF ReconcileInv, MintedOnce, RemovedProposed

\* A step that no call and no proposal has part in.
LEMMA WorldKeeps ==
  ASSUME ReconcileInv, Grows, UNCHANGED <<call, proposals>>, Typed', RunsApart',
         RemovedProposed'
  PROVE  ReconcileInv'
<1>1. ASSUME NEW a \in Actors PROVE CallOK(call[a])'
  <2>1. PICK x \in CallRow : x = call[a] /\ CallOK(x)
    BY CallAt
  <2>2. CallOK(x)'
    BY <2>1, CallKept DEF ReconcileInv
  <2> QED
    BY <2>1, <2>2 DEF CallOK
<1>2. CallsOK'
  BY <1>1 DEF CallsOK
<1>3. ProposalsOK'
  BY ProposalsKept DEF ReconcileInv
<1>4. MintedOnce' /\ Fresh'
  BY DEF ReconcileInv, MintedOnce, Fresh, FreshCall
<1> QED
  BY <1>2, <1>3, <1>4 DEF ReconcileInv

LEMMA ResetKeeps ==
  ASSUME ReconcileInv, NEW b \in Batches, Extract(b) \/ Reset(b)
  PROVE  ReconcileInv'
<1>1. /\ batch' = [batch EXCEPT ![b] = "extracted"]
      /\ UNCHANGED <<call, proposals, status, deleted, version, links>>
  BY DEF Extract, Reset, ledger
<1>2. \A a \in Actors : Running(a) => call[a].batch \in Batches /\ call[a].batch # b
  BY DEF Extract, Reset, ReconcileInv, CallsOK, CallOK, Running, RunsApart
<1>3. Grows /\ RemovedProposed'
  BY <1>1 DEF Grows, ReconcileInv, RemovedProposed
<1>4. Typed'
  BY <1>1 DEF ReconcileInv, Typed, BatchStatus
<1>5. RunsApart'
  <2>1. \A d \in Batches \ {b} : batch'[d] = batch[d]
    BY <1>1 DEF ReconcileInv, Typed
  <2> QED
    BY <1>1, <1>2, <2>1 DEF ReconcileInv, RunsApart, Running
<1> QED
  BY <1>1, <1>3, <1>4, <1>5, WorldKeeps

LEMMA PostKeeps ==
  ASSUME ReconcileInv, NEW t \in Txns, Post(t)
  PROVE  ReconcileInv'
<1>1. /\ status' = [status EXCEPT ![t] = "posted"] /\ links' = [links EXCEPT ![t] = {t}]
      /\ UNCHANGED <<batch, call, proposals, deleted, version>>
  BY DEF Post
<1>2. Grows
  BY <1>1 DEF Grows, ReconcileInv, Typed
<1>3. Typed'
  BY <1>1 DEF ReconcileInv, Typed
<1>4. RunsApart' /\ RemovedProposed'
  BY <1>1 DEF ReconcileInv, RunsApart, Running, RemovedProposed
<1> QED
  BY <1>1, <1>2, <1>3, <1>4, WorldKeeps

LEMMA EditKeeps ==
  ASSUME ReconcileInv, NEW t \in Txns, EditByHand(t)
  PROVE  ReconcileInv'
<1>1. UNCHANGED <<batch, call, proposals, links>>
  BY DEF EditByHand
<1>2. /\ \A u \in Txns : status[u] # "absent" => status'[u] # "absent"
      /\ status' \in [Txns -> {"absent", "posted", "reconciled"}]
  BY DEF EditByHand, ReconcileInv, Typed
<1>3. /\ deleted' \subseteq Txns
      /\ "restore" \notin MayUpset => deleted \subseteq deleted'
      /\ "remove" \notin MayUpset => deleted' \subseteq deleted
  BY DEF EditByHand, Upset, ReconcileInv, Typed
<1>4. version' \in [Txns -> Nat]
  BY DEF EditByHand, ReconcileInv, Typed
<1>5. Grows
  BY <1>1, <1>2, <1>3 DEF Grows
<1>6. Typed'
  BY <1>1, <1>2, <1>3, <1>4 DEF ReconcileInv, Typed
<1>7. RunsApart' /\ RemovedProposed'
  BY <1>1, <1>3 DEF ReconcileInv, RunsApart, Running, RemovedProposed
<1> QED
  BY <1>1, <1>5, <1>6, <1>7, WorldKeeps

LEMMA NextKeeps ==
  ASSUME ReconcileInv, [Next]_vars
  PROVE  ReconcileInv'
<1>1. ASSUME NEW a \in Actors, Progress(a) PROVE ReconcileInv'
  BY <1>1, DetectKeeps, FilterPriorKeeps, InsertKeeps, FinishRunKeeps, AbortKeeps,
     LinksKeep, CheckKeeps, DeleteKeeps, StampKeeps, ReadKeeps, RejectKeeps,
     FinishRequestKeeps DEF Progress
<1>2. ASSUME NEW a \in Actors, Fault(a) PROVE ReconcileInv'
  BY <1>2, ThrowKeeps DEF Fault
<1>3. ASSUME NEW a \in Actors, NEW b \in Batches,
             StartRequest(a, b, "user_applied") \/ StartRequest(a, b, "rejected")
      PROVE  ReconcileInv'
  <2>1. PICK v \in {"user_applied", "rejected"} : StartRequest(a, b, v)
    BY <1>3
  <2> QED
    BY <2>1, StartRequestKeeps
<1>4. CASE UNCHANGED vars
  BY <1>4 DEF vars, ledger, bounds, ReconcileInv, Typed, CallsOK, CallOK, ProposalsOK,
     ProposalOK, MintedOnce, Fresh, FreshCall, RunsApart, Running, RemovedProposed,
     Finding
<1> QED
  BY <1>1, <1>2, <1>3, <1>4, StartRunKeeps, FaultOnReadKeeps, CrashKeeps, ResetKeeps,
     PostKeeps, EditKeeps DEF Next

----------------------------------------------------------------------------
(* The theorems.                                                           *)

\* What the engine relies on between any two statements: see ReconcileInv.
THEOREM ReconcileIsInv == Spec => []ReconcileInv
<1>1. Init => ReconcileInv
  BY InitInv
<1>2. ReconcileInv /\ [Next]_vars => ReconcileInv'
  BY NextKeeps
<1> QED
  BY <1>1, <1>2, PTL DEF Spec

\* The state keeps its types, and the proposal in hand is one that exists.
THEOREM ReconcileTypes == Spec => []TypeOK
<1>1. ReconcileInv => TypeOK
  <2> SUFFICES ASSUME ReconcileInv PROVE TypeOK
    OBVIOUS
  <2>1. ASSUME NEW a \in Actors
        PROVE  /\ call[a].at \in CallStep
               /\ call[a].batch \in Batches \cup {Outside}
               /\ call[a].todo \subseteq DOMAIN proposals
               /\ call[a].cur \in call[a].todo \cup {0}
               /\ call[a].found \subseteq [dup: Txns, canon: Txns, score: 0 .. 100]
               /\ call[a].read \in Nat
               /\ call[a].verdict \in ProposalStatus
    BY CallAt DEF CallRow, CallOK, Candidate
  <2>2. proposals \in Seq([batch: Batches, dup: Txns, canon: Txns, score: 0 .. 100,
                           status: ProposalStatus])
    BY DEF ReconcileInv, Typed, Proposal
  <2> QED
    BY <2>1, <2>2 DEF ReconcileInv, Typed, TypeOK
<1> QED
  BY <1>1, ReconcileIsInv, PTL

\* Two runs never work on one batch at a time: the conditional UPDATE that
\* sets reconciling elects one, and nobody else moves the status.
THEOREM RunsAreApart == Spec => []OneRunPerBatch
<1>1. ReconcileInv => OneRunPerBatch
  BY DEF ReconcileInv, RunsApart, OneRunPerBatch
<1> QED
  BY <1>1, ReconcileIsInv, PTL

\* However often a batch is reconciled, and whichever runs overlap, throw or
\* die, it never gets two proposals for one pair of transactions.
THEOREM PairsAreMintedOnce == Spec => []MintedOnce
<1>1. ReconcileInv => MintedOnce
  BY DEF ReconcileInv
<1> QED
  BY <1>1, ReconcileIsInv, PTL

\* Where the threshold for automatic removal is above the cap of 90 that a
\* score without an identifier has, nothing is removed without one, unless the
\* two rows are twins of one batch.
THEOREM NoRemovalOnLooks ==
  ASSUME Threshold > 90
  PROVE  Spec => []AutoNeedsIdentity
<1>1. ReconcileInv => AutoNeedsIdentity
  <2> SUFFICES ASSUME ReconcileInv, NEW i \in DOMAIN proposals,
                      proposals[i].status = "auto_applied"
               PROVE  \/ /\ BatchOf[proposals[i].dup] = BatchOf[proposals[i].canon]
                         /\ Twin(proposals[i].dup, proposals[i].canon)
                      \/ StrongId(Facts[proposals[i].dup], Facts[proposals[i].canon])
    BY DEF AutoNeedsIdentity
  <2>1. PICK p : p = proposals[i] /\ ProposalOK(p)
    BY DEF ReconcileInv, ProposalsOK
  <2>2. PICK d \in Txns, c \in Txns, n \in 0 .. 100 :
          d = p.dup /\ c = p.canon /\ n = p.score /\ n > 90
    <3>1. p.dup \in Txns /\ p.canon \in Txns /\ p.score \in 0 .. 100
      BY <2>1 DEF ProposalOK, Finding
    <3>2. p.score >= Threshold
      BY <2>1 DEF ProposalOK
    <3>3. PICK n \in 0 .. 100 : n = p.score
      BY <3>1
    <3>4. n > 90
      BY <3>2, <3>3, ReconcileAssumption
    <3> QED
      BY <3>1, <3>3, <3>4
  <2>3. \/ BatchOf[d] = BatchOf[c] /\ Twin(d, c)
        \/ n = Score(Facts[d], Facts[c]) \/ n = Score(Facts[c], Facts[d])
    BY <2>1, <2>2 DEF ProposalOK, Finding
  <2>4. \/ BatchOf[d] = BatchOf[c] /\ Twin(d, c)
        \/ StrongId(Facts[d], Facts[c]) \/ StrongId(Facts[c], Facts[d])
    BY <2>2, <2>3, ScoreRange
  <2>5. StrongId(Facts[c], Facts[d]) => StrongId(Facts[d], Facts[c])
    BY DEF StrongId, Agree
  <2> QED
    BY <2>1, <2>2, <2>4, <2>5
<1> QED
  BY <1>1, ReconcileIsInv, PTL

\* A proposal shown as applied stands for a duplicate that is gone, where
\* users do not bring rows back.
THEOREM AppliedAreGone ==
  ASSUME "restore" \notin MayUpset
  PROVE  Spec => []AppliedIsGone
<1>1. ReconcileInv => AppliedIsGone
  BY DEF ReconcileInv, ProposalsOK, ProposalOK, AppliedIsGone, Applied
<1> QED
  BY <1>1, ReconcileIsInv, PTL

\* A purchase keeps a record, where users do not remove rows themselves and no
\* two rows are of one millisecond: of a set of removed rows the earliest has a
\* proposal, for an earlier row, which is not of the set.
THEOREM PurchasesSurvive ==
  ASSUME "remove" \notin MayUpset,
         \A t, u \in Txns : Clock[t] = Clock[u] => t = u
  PROVE  Spec => []PurchaseSurvives
<1>1. ReconcileInv => PurchaseSurvives
  <2> SUFFICES ASSUME ReconcileInv, NEW S \in (SUBSET deleted) \ {{}}
               PROVE  \E t \in S, i \in DOMAIN proposals :
                        proposals[i].dup = t /\ proposals[i].canon \notin S
    BY DEF PurchaseSurvives
  <2>1. S # {} /\ S \subseteq deleted /\ S \in SUBSET Nat /\ S \subseteq Txns
    BY ReconcileAssumption DEF ReconcileInv, Typed
  <2>2. PICK t \in S : \A u \in S : t <= u
    BY <2>1, LeastOf
  <2>3. PICK i \in DOMAIN proposals : proposals[i].dup = t
    BY <2>1, <2>2 DEF ReconcileInv, RemovedProposed
  <2>4. PICK c \in Txns : c = proposals[i].canon /\ c # t /\ Clock[c] <= Clock[t]
    BY <2>3 DEF ReconcileInv, ProposalsOK, ProposalOK, Finding
  <2>5. c < t
    <3>1. c \in Nat /\ t \in Nat /\ t \in Txns /\ Clock[c] \in Nat /\ Clock[t] \in Nat
      BY <2>1, ReconcileAssumption
    <3>2. t < c => Clock[t] <= Clock[c]
      BY <3>1, ReconcileAssumption
    <3>3. Clock[t] # Clock[c]
      BY <2>4, <3>1
    <3> QED
      BY <2>4, <3>1, <3>2, <3>3
  <2>6. c \notin S
    BY <2>1, <2>2, <2>5
  <2> QED
    BY <2>3, <2>4, <2>6
<1> QED
  BY <1>1, ReconcileIsInv, PTL

----------------------------------------------------------------------------
(***************************************************************************)
(* What a call read of its proposals still holds when it acts on them, or  *)
(* another call has decided them in the meantime ...                       *)
(***************************************************************************)

\* What a call still has to deal with is undecided, or the call is overtaken.
OpenOrOvertaken ==
  \A a \in Actors : \A i \in call[a].todo :
    proposals[i].status = "proposed" \/ <<a, i>> \in overtaken

\* Before the links of a duplicate go, the record that is kept has them.
Copied == \A a \in Actors : call[a].at = "drop" => links[Dup(a)] \subseteq links[Canon(a)]

\* A transaction that is not written yet has no documents.
Bare == \A t \in Txns : status[t] = "absent" => links[t] = {}

Filed == Copied /\ Bare /\ EvidenceSurvives

\* A decision stands through the step, or an overtaken call overrules it.
Stands ==
  \A i \in DOMAIN proposals :
    /\ proposals[i].status # "proposed"
    /\ proposals'[i].status # proposals[i].status
    => \E a \in Actors : /\ <<a, i>> \in overtaken
                         /\ i \in call[a].todo \ call'[a].todo

\* No call takes up another proposal, and none copies links.
Narrows ==
  \A o \in Actors : /\ call'[o].todo \subseteq call[o].todo
                    /\ call'[o].at = "drop" => call'[o] = call[o]

LEMMA NarrowsOne ==
  ASSUME ReconcileInv, NEW a \in Actors, NEW y, call' = [call EXCEPT ![a] = y],
         y.todo \subseteq call[a].todo, y.at # "drop"
  PROVE  Narrows
<1>1. \A o \in Actors : call'[o] = IF o = a THEN y ELSE call[o]
  BY DEF ReconcileInv, Typed
<1> QED
  BY <1>1 DEF Narrows

LEMMA ThrowNarrows ==
  ASSUME ReconcileInv, NEW a \in Actors, call' = [call EXCEPT ![a] = AfterThrow(@)]
  PROVE  Narrows
<1>1. PICK x \in CallRow : x = call[a]
  BY CallAt
<1>2. PICK y : y = AfterThrow(x)
  OBVIOUS
<1>3. CASE x.at \in Removing
  <2>1. PICK rest : rest = x.todo \ {x.cur}
    OBVIOUS
  <2>2. y = [x EXCEPT !.todo = rest, !.cur = 0, !.read = 0, !.at = "next"]
    BY <1>2, <1>3, <2>1 DEF AfterThrow, Next1, Removing
  <2>3. y.todo = rest /\ y.at = "next"
    BY <2>2 DEF CallRow
  <2> QED
    BY <1>1, <1>2, <2>1, <2>3, NarrowsOne
<1>4. CASE x.at \notin Removing /\ x.verdict = "auto_applied" /\ x.at # "abort"
  <2>1. y = [x EXCEPT !.at = "abort"]
    BY <1>2, <1>4 DEF AfterThrow, Removing
  <2>2. y.todo = x.todo /\ y.at = "abort"
    BY <2>1 DEF CallRow
  <2> QED
    BY <1>1, <1>2, <2>2, NarrowsOne
<1>5. CASE x.at \notin Removing /\ ~ (x.verdict = "auto_applied" /\ x.at # "abort")
  <2>1. y = Idle
    BY <1>2, <1>5 DEF AfterThrow, Removing
  <2>2. y.todo = {} /\ y.at = "idle"
    BY <2>1 DEF Idle
  <2> QED
    BY <1>1, <1>2, <2>2, NarrowsOne
<1> QED
  BY <1>3, <1>4, <1>5

\* The run and the removal, but for the steps below.
LEMMA MostNarrow ==
  ASSUME ReconcileInv, NEW a \in Actors
  PROVE  (\/ Detect(a) \/ FilterPrior(a) \/ FinishRun(a) \/ Abort(a) \/ DropLinks(a)
          \/ CheckDelete(a) \/ WriteDelete(a) \/ FinishRequest(a) \/ Fault(a)
          \/ \E b \in Batches : StartRun(a, b)
          \/ \E i \in call[a].todo : ReadDuplicate(a, i) \/ FaultOnRead(a, i))
         => Narrows /\ UNCHANGED <<status, proposals, overtaken>>
<1>1. PICK x \in CallRow : x = call[a]
  BY CallAt
<1>2. (\/ Detect(a) \/ FilterPrior(a) \/ FinishRun(a) \/ Abort(a) \/ DropLinks(a)
       \/ CheckDelete(a) \/ WriteDelete(a) \/ FinishRequest(a) \/ Fault(a)
       \/ \E b \in Batches : StartRun(a, b)
       \/ \E i \in call[a].todo : ReadDuplicate(a, i) \/ FaultOnRead(a, i))
      => UNCHANGED <<status, proposals, overtaken>>
  BY DEF Detect, FilterPrior, FinishRun, Abort, DropLinks, CheckDelete, WriteDelete,
     FinishRequest, Fault, StartRun, ReadDuplicate, FaultOnRead, Upset, ledger, bounds
<1>3. CASE Fault(a)
  <2>1. call' = [call EXCEPT ![a] = AfterThrow(@)]
    BY <1>3 DEF Fault
  <2> QED
    BY <1>2, <2>1, ThrowNarrows
<1>4. CASE CheckDelete(a)
  <2>1. CASE Deletable(Dup(a), call[a].read)
    <3>1. PICK y : y = [x EXCEPT !.at = "delete"]
      OBVIOUS
    <3>2. call' = [call EXCEPT ![a] = y]
      BY <1>1, <1>4, <2>1, <3>1 DEF CheckDelete
    <3>3. y.todo = x.todo /\ y.at # "drop"
      BY <3>1 DEF CallRow
    <3> QED
      BY <1>1, <1>2, <3>2, <3>3, NarrowsOne
  <2>2. CASE ~ Deletable(Dup(a), call[a].read)
    <3>1. call' = [call EXCEPT ![a] = AfterThrow(@)]
      BY <1>4, <2>2 DEF CheckDelete
    <3> QED
      BY <1>2, <3>1, ThrowNarrows
  <2> QED
    BY <2>1, <2>2
<1>5. ASSUME call' = [call EXCEPT ![a] = Idle] PROVE Narrows
  <2>1. PICK y : y = Idle
    OBVIOUS
  <2>2. y.todo = {} /\ y.at # "drop"
    BY <2>1 DEF Idle
  <2> QED
    BY <1>5, <2>1, <2>2, NarrowsOne
<1>6. CASE Detect(a) \/ FilterPrior(a)
  <2>1. PICK found : \E s \in {"near", "filter", "insert"} :
          call' = [call EXCEPT ![a].found = found, ![a].at = s]
    BY <1>6 DEF Detect, FilterPrior
  <2>2. PICK st \in {"near", "filter", "insert"} :
          call' = [call EXCEPT ![a].found = found, ![a].at = st]
    BY <2>1
  <2>3. PICK y : y = [x EXCEPT !.found = found, !.at = st]
    OBVIOUS
  <2>4. call' = [call EXCEPT ![a] = y]
    BY <1>1, <2>2, <2>3 DEF ReconcileInv, Typed
  <2>5. y.todo = x.todo /\ y.at # "drop"
    BY <2>3 DEF CallRow
  <2> QED
    BY <1>1, <1>2, <2>4, <2>5, NarrowsOne
<1>7. ASSUME NEW st \in {"check", "stamp", "view"}, call' = [call EXCEPT ![a].at = st]
      PROVE  Narrows
  <2>1. PICK y : y = [x EXCEPT !.at = st]
    OBVIOUS
  <2>2. call' = [call EXCEPT ![a] = y]
    BY <1>1, <1>7, <2>1 DEF ReconcileInv, Typed
  <2>3. y.todo = x.todo /\ y.at # "drop"
    BY <2>1 DEF CallRow
  <2> QED
    BY <1>1, <2>2, <2>3, NarrowsOne
<1>8. ASSUME NEW b \in Batches, StartRun(a, b) PROVE Narrows
  <2>1. PICK first \in {"exact", "filter"} :
          call' = [call EXCEPT ![a] = [Idle EXCEPT !.at = first, !.batch = b,
                                                   !.verdict = "auto_applied"]]
    BY <1>8 DEF StartRun
  <2>2. PICK y : y = [Idle EXCEPT !.at = first, !.batch = b, !.verdict = "auto_applied"]
    OBVIOUS
  <2>3. y.todo = {} /\ y.at # "drop"
    BY <2>2 DEF Idle
  <2> QED
    BY <2>1, <2>2, <2>3, NarrowsOne
<1>9. ASSUME NEW i \in call[a].todo, ReadDuplicate(a, i) PROVE Narrows
  <2>1. PICK v : v = version[proposals[i].dup]
    OBVIOUS
  <2>2. PICK st \in {"copy", "stamp"} :
          call' = [call EXCEPT ![a].cur = i, ![a].read = v, ![a].at = st]
    BY <1>9, <2>1 DEF ReadDuplicate
  <2>3. PICK y : y = [x EXCEPT !.cur = i, !.read = v, !.at = st]
    OBVIOUS
  <2>4. call' = [call EXCEPT ![a] = y]
    BY <1>1, <2>2, <2>3 DEF ReconcileInv, Typed
  <2>5. y.todo = x.todo /\ y.at # "drop"
    BY <2>3 DEF CallRow
  <2> QED
    BY <1>1, <2>4, <2>5, NarrowsOne
<1>10. ASSUME NEW i \in call[a].todo, FaultOnRead(a, i) PROVE Narrows
  <2>1. PICK rest : rest = x.todo \ {i}
    OBVIOUS
  <2>2. PICK y : y = [x EXCEPT !.todo = rest]
    OBVIOUS
  <2>3. call' = [call EXCEPT ![a] = y]
    BY <1>1, <1>10, <2>1, <2>2 DEF FaultOnRead, ReconcileInv, Typed
  <2>4. y.todo \subseteq x.todo /\ y.at # "drop"
    BY <1>1, <1>10, <2>1, <2>2 DEF CallRow, FaultOnRead
  <2> QED
    BY <1>1, <2>3, <2>4, NarrowsOne
<1>11. CASE FinishRequest(a) \/ Abort(a) \/ FinishRun(a) \/ DropLinks(a) \/ WriteDelete(a)
  <2>1. \/ call' = [call EXCEPT ![a] = Idle]
        \/ \E st \in {"check", "stamp", "view"} : call' = [call EXCEPT ![a].at = st]
    BY <1>11 DEF FinishRequest, Abort, FinishRun, DropLinks, WriteDelete
  <2> QED
    BY <1>2, <1>5, <1>7, <2>1
<1> QED
  BY <1>2, <1>3, <1>4, <1>6, <1>8, <1>9, <1>10, <1>11

LEMMA InsertOpens ==
  ASSUME ReconcileInv, OpenOrOvertaken, NEW a \in Actors, InsertProposals(a)
  PROVE  OpenOrOvertaken' /\ Stands /\ UNCHANGED <<status, links>> /\ call'[a].at = "next"
         /\ \A o \in Actors \ {a} : call'[o] = call[o]
<1>1. PICK x \in CallRow : x = call[a] /\ CallOK(x)
  BY CallAt
<1>2. x.at = "insert" /\ x.batch \in Batches /\ x.found \in SUBSET Candidate
  BY <1>1 DEF InsertProposals, CallOK, OfRun, CallRow
<1>3. PICK old, new, sure : Inserted(a, x, old, new, sure)
  BY <1>1, <1>2, InsertShape
<1>4. /\ \A o \in Actors \ {a} : call'[o] = call[o]
      /\ call'[a].todo = sure /\ call'[a].at = "next"
  <2>1. call' = [call EXCEPT ![a].found = {}, ![a].todo = sure, ![a].at = "next"]
    BY <1>3 DEF Inserted
  <2>2. PICK y : y = [x EXCEPT !.found = {}, !.todo = sure, !.at = "next"]
    OBVIOUS
  <2>3. call' = [call EXCEPT ![a] = y]
    BY <1>1, <2>1, <2>2 DEF ReconcileInv, Typed
  <2>4. y.todo = sure /\ y.at = "next"
    BY <2>2 DEF CallRow
  <2> QED
    BY <2>3, <2>4 DEF ReconcileInv, Typed
<1>5. \A i \in DOMAIN proposals : proposals'[i] = proposals[i]
  BY <1>3 DEF Inserted
<1>6. ASSUME NEW i \in sure PROVE proposals'[i].status = "proposed"
  <2>1. PICK k \in DOMAIN new : i = old + k
    BY <1>3 DEF Inserted
  <2>2. proposals'[i] = new[k]
    BY <1>3, <2>1 DEF Inserted
  <2>3. PICK c \in x.found :
          new[k] = [batch |-> x.batch, dup |-> c.dup, canon |-> c.canon,
                    score |-> c.score, status |-> "proposed"]
    BY <1>3 DEF Inserted
  <2> QED
    BY <2>2, <2>3
<1>7. ASSUME NEW o \in Actors, NEW i \in call'[o].todo
      PROVE  proposals'[i].status = "proposed" \/ <<o, i>> \in overtaken'
  <2>1. CASE o = a
    BY <1>4, <1>6, <1>7, <2>1
  <2>2. CASE o # a
    <3>1. i \in call[o].todo /\ i \in DOMAIN proposals
      BY <1>4, <1>7, <2>2, CallAt DEF CallOK
    <3>2. UNCHANGED overtaken
      BY DEF InsertProposals, bounds
    <3> QED
      BY <1>5, <3>1, <3>2 DEF OpenOrOvertaken
  <2> QED
    BY <2>1, <2>2
<1>8. OpenOrOvertaken' /\ Stands
  BY <1>5, <1>7 DEF OpenOrOvertaken, Stands
<1> QED
  BY <1>3, <1>4, <1>8 DEF Inserted

\* One proposal is decided by a call that has it no more; the calls that still
\* have it are overtaken.
LEMMA DecidesOne ==
  ASSUME ReconcileInv, OpenOrOvertaken, NEW a \in Actors,
         \/ Stamp(a) \/ \E i \in call[a].todo : Reject(a, i)
  PROVE  OpenOrOvertaken' /\ Stands /\ call'[a].at = "next" /\ UNCHANGED <<status, links>>
<1>1. PICK x \in CallRow : x = call[a] /\ CallOK(x)
  BY CallAt
<1>2. PICK i, st, y : /\ i \in x.todo
                      /\ proposals' = [proposals EXCEPT ![i].status = st]
                      /\ call' = [call EXCEPT ![a] = y]
                      /\ y.todo = x.todo \ {i} /\ y.at = "next"
                      /\ overtaken' = overtaken \cup Overtakes(a, i)
  <2>1. CASE Stamp(a)
    <3>1. x.cur \in x.todo
      BY <1>1, <2>1 DEF Stamp, CallOK, Removing
    <3>2. PICK y : y = Next1(x)
      OBVIOUS
    <3>3. y.todo = x.todo \ {x.cur} /\ y.at = "next"
      <4>1. PICK rest : rest = x.todo \ {x.cur}
        OBVIOUS
      <4>2. y = [x EXCEPT !.todo = rest, !.cur = 0, !.read = 0, !.at = "next"]
        BY <3>2, <4>1 DEF Next1
      <4>3. y.todo = rest /\ y.at = "next"
        BY <4>2 DEF CallRow
      <4> QED
        BY <4>1, <4>3
    <3>4. /\ proposals' = [proposals EXCEPT ![x.cur].status = x.verdict]
          /\ call' = [call EXCEPT ![a] = y]
          /\ overtaken' = overtaken \cup Overtakes(a, x.cur)
      BY <1>1, <2>1, <3>2 DEF Stamp
    <3> QED
      BY <3>1, <3>3, <3>4
  <2>2. ASSUME NEW i \in call[a].todo, Reject(a, i)
        PROVE  \E st, y : /\ proposals' = [proposals EXCEPT ![i].status = st]
                          /\ call' = [call EXCEPT ![a] = y]
                          /\ y.todo = x.todo \ {i} /\ y.at = "next"
                          /\ overtaken' = overtaken \cup Overtakes(a, i)
    <3>1. PICK rest : rest = x.todo \ {i}
      OBVIOUS
    <3>2. PICK y : y = [x EXCEPT !.todo = rest]
      OBVIOUS
    <3>3. call' = [call EXCEPT ![a] = y]
      BY <1>1, <2>2, <3>1, <3>2 DEF Reject, ReconcileInv, Typed
    <3>4. y.todo = rest /\ y.at = "next"
      BY <1>1, <2>2, <3>2 DEF Reject, CallRow
    <3>5. /\ proposals' = [proposals EXCEPT ![i].status = "rejected"]
          /\ overtaken' = overtaken \cup Overtakes(a, i)
      BY <2>2 DEF Reject
    <3> QED
      BY <3>1, <3>3, <3>4, <3>5
  <2> QED
    BY <1>1, <2>1, <2>2
<1>3. proposals[i].status = "proposed" \/ <<a, i>> \in overtaken
  BY <1>1, <1>2 DEF OpenOrOvertaken
<1>4. \A j \in DOMAIN proposals : j # i => proposals'[j] = proposals[j]
  BY <1>2
<1>5. \A o \in Actors : call'[o] = IF o = a THEN y ELSE call[o]
  BY <1>2 DEF ReconcileInv, Typed
<1>6. OpenOrOvertaken'
  <2>1. ASSUME NEW o \in Actors, NEW j \in call'[o].todo
        PROVE  proposals'[j].status = "proposed" \/ <<o, j>> \in overtaken'
    <3>1. j \in call[o].todo /\ j \in DOMAIN proposals /\ (o = a => j # i)
      BY <1>1, <1>2, <1>5, <2>1, CallAt DEF CallOK
    <3>2. CASE j = i
      BY <1>2, <3>1, <3>2 DEF Overtakes
    <3>3. CASE j # i
      BY <1>2, <1>4, <3>1, <3>3 DEF OpenOrOvertaken
    <3> QED
      BY <3>2, <3>3
  <2> QED
    BY <2>1 DEF OpenOrOvertaken
<1>7. Stands
  BY <1>1, <1>2, <1>3, <1>4, <1>5 DEF Stands
<1>8. call'[a].at = "next"
  BY <1>2, <1>5
<1> QED
  BY <1>6, <1>7, <1>8 DEF Stamp, Reject, ledger

LEMMA QuietStays ==
  ASSUME ReconcileInv, OpenOrOvertaken, Narrows, UNCHANGED <<proposals, overtaken>>
  PROVE  OpenOrOvertaken' /\ Stands
  BY DEF OpenOrOvertaken, Stands, Narrows

\* The world, the start of a request and the copying of links.
LEMMA OpenKept ==
  ASSUME ReconcileInv, OpenOrOvertaken, [Next]_vars
  PROVE  OpenOrOvertaken' /\ Stands
<1>1. ASSUME UNCHANGED <<call, proposals, overtaken>> PROVE OpenOrOvertaken' /\ Stands
  BY <1>1 DEF OpenOrOvertaken, Stands
<1>2. ASSUME NEW a \in Actors, CopyLinks(a) PROVE OpenOrOvertaken' /\ Stands
  <2>1. call' = [call EXCEPT ![a].at = "drop"] /\ UNCHANGED <<proposals, overtaken>>
    BY <1>2 DEF CopyLinks, bounds
  <2>2. \A o \in Actors : call'[o].todo = call[o].todo
    BY <2>1 DEF ReconcileInv, Typed, CallRow
  <2> QED
    BY <2>1, <2>2 DEF OpenOrOvertaken, Stands
<1>3. ASSUME NEW a \in Actors, NEW b \in Batches, NEW v, StartRequest(a, b, v)
      PROVE  OpenOrOvertaken' /\ Stands
  <2>1. PICK S : /\ \A i \in S : proposals[i].status = "proposed"
                 /\ call' = [call EXCEPT ![a] = [Idle EXCEPT !.at = "next", !.batch = b,
                                                   !.todo = S, !.verdict = v]]
    BY <1>3 DEF StartRequest, Undecided
  <2>2. PICK y : y = [Idle EXCEPT !.at = "next", !.batch = b, !.todo = S, !.verdict = v]
    OBVIOUS
  <2>3. y.todo = S
    BY <2>2 DEF Idle
  <2>4. \A o \in Actors : call'[o] = IF o = a THEN y ELSE call[o]
    BY <2>1, <2>2 DEF ReconcileInv, Typed
  <2>5. UNCHANGED proposals /\ overtaken' = {p \in overtaken : p[1] # a}
    BY <1>3 DEF StartRequest
  <2> QED
    BY <2>1, <2>3, <2>4, <2>5 DEF OpenOrOvertaken, Stands
<1>4. ASSUME NEW a \in Actors, Progress(a) PROVE OpenOrOvertaken' /\ Stands
  BY <1>2, <1>4, MostNarrow, QuietStays, InsertOpens, DecidesOne DEF Progress
<1>5. CASE Crash
  <2>1. UNCHANGED proposals /\ \A a \in Actors : call'[a].todo = {}
    BY <1>5 DEF Crash, Idle
  <2> QED
    BY <2>1 DEF OpenOrOvertaken, Stands
<1>6. ASSUME NEW t \in Txns, Post(t) \/ EditByHand(t) PROVE OpenOrOvertaken' /\ Stands
  BY <1>1, <1>6 DEF Post, EditByHand, Upset, bounds
<1>7. ASSUME NEW b \in Batches, Extract(b) \/ Reset(b) PROVE OpenOrOvertaken' /\ Stands
  BY <1>1, <1>7 DEF Extract, Reset, Upset, bounds
<1>8. CASE UNCHANGED vars
  BY <1>1, <1>8 DEF vars, bounds
<1> QED
  BY <1>3, <1>4, <1>5, <1>6, <1>7, <1>8, MostNarrow, QuietStays DEF Next

----------------------------------------------------------------------------
(***************************************************************************)
(* ... and no document is lost between the copying of links and their end. *)
(***************************************************************************)

LEMMA FiledStays ==
  ASSUME ReconcileInv, Filed, UNCHANGED <<status, links>>,
         \A o \in Actors : call'[o].at = "drop" =>
           call'[o] = call[o] /\ UNCHANGED proposals
  PROVE  Filed'
<1>1. Copied'
  BY DEF Filed, Copied, Dup, Canon
<1> QED
  BY <1>1 DEF Filed, Bare, EvidenceSurvives

LEMMA CopyFiles ==
  ASSUME \A o, u \in Actors : o = u, ReconcileInv, Filed, NEW a \in Actors, CopyLinks(a)
  PROVE  Filed'
<1>1. call[a].at \in Removing
  BY DEF CopyLinks, Removing
<1>2. PICK d \in Txns, c \in Txns : d = Dup(a) /\ c = Canon(a)
  BY <1>1, InHand
<1>3. d # c /\ status[c] # "absent"
  BY <1>1, <1>2, InHand DEF ProposalOK, Finding, Dup, Canon
<1>4. links' = [links EXCEPT ![c] = @ \cup links[d]] /\ UNCHANGED <<status, proposals>>
  BY <1>2 DEF CopyLinks
<1>5. links'[c] = links[c] \cup links[d] /\ \A u \in Txns : u # c => links'[u] = links[u]
  BY <1>4 DEF ReconcileInv, Typed
<1>6. \A o \in Actors : o = a /\ call'[o].cur = call[a].cur
  BY DEF CopyLinks, ReconcileInv, Typed, CallRow
<1>7. Copied'
  <2>1. \A o \in Actors : Dup(o)' = d /\ Canon(o)' = c
    BY <1>2, <1>4, <1>6 DEF Dup, Canon
  <2>2. links'[d] \subseteq links'[c]
    BY <1>3, <1>5
  <2> QED
    BY <2>1, <2>2 DEF Copied
<1>8. Bare'
  BY <1>3, <1>4, <1>5 DEF Filed, Bare
<1>9. EvidenceSurvives'
  BY <1>2, <1>4, <1>5 DEF Filed, EvidenceSurvives
<1> QED
  BY <1>7, <1>8, <1>9 DEF Filed

LEMMA DropFiles ==
  ASSUME \A o, u \in Actors : o = u, ReconcileInv, Filed, NEW a \in Actors, DropLinks(a)
  PROVE  Filed'
<1>1. call[a].at = "drop" /\ call[a].at \in Removing
  BY DEF DropLinks, Removing
<1>2. PICK d \in Txns, c \in Txns : d = Dup(a) /\ c = Canon(a)
  BY <1>1, InHand
<1>3. d # c
  BY <1>1, <1>2, InHand DEF ProposalOK, Finding, Dup, Canon
<1>4. links' = [links EXCEPT ![d] = {}] /\ UNCHANGED status
  BY <1>2 DEF DropLinks
<1>5. links'[d] = {} /\ \A u \in Txns : u # d => links'[u] = links[u]
  BY <1>4 DEF ReconcileInv, Typed
<1>6. links[d] \subseteq links[c]
  BY <1>1, <1>2 DEF Filed, Copied
<1>7. \A o \in Actors : call'[o].at = "check"
  BY DEF DropLinks, ReconcileInv, Typed, CallRow
<1>8. Copied' /\ Bare'
  BY <1>4, <1>5, <1>7 DEF Filed, Copied, Bare
<1>9. ASSUME NEW t \in Txns, status[t] # "absent"
      PROVE  \E u \in Txns : t \in links'[u]
  <2>1. PICK u \in Txns : t \in links[u]
    BY <1>9 DEF Filed, EvidenceSurvives
  <2>2. CASE u = d
    BY <1>3, <1>5, <1>6, <2>1, <2>2
  <2>3. CASE u # d
    BY <1>5, <2>1, <2>3
  <2> QED
    BY <2>2, <2>3
<1> QED
  BY <1>4, <1>8, <1>9 DEF Filed, EvidenceSurvives

\* The row that arrives had no documents, and is not the one in hand.
LEMMA PostFiles ==
  ASSUME ReconcileInv, Filed, NEW t \in Txns, Post(t)
  PROVE  Filed'
<1>1. /\ status[t] = "absent" /\ links[t] = {}
      /\ links' = [links EXCEPT ![t] = {t}]
      /\ status' = [status EXCEPT ![t] = "posted"]
      /\ UNCHANGED <<call, proposals>>
  BY DEF Post, Filed, Bare
<1>2. links'[t] = {t} /\ \A u \in Txns : u # t => links'[u] = links[u]
  BY <1>1 DEF ReconcileInv, Typed
<1>3. \A u \in Txns : u # t => status'[u] = status[u]
  BY <1>1 DEF ReconcileInv, Typed
<1>4. ASSUME NEW a \in Actors, call[a].at = "drop"
      PROVE  links'[Dup(a)] \subseteq links'[Canon(a)]
  <2>1. call[a].at \in Removing
    BY <1>4 DEF Removing
  <2>2. PICK d \in Txns, c \in Txns : d = Dup(a) /\ c = Canon(a)
    BY <2>1, InHand
  <2>3. d # t /\ c # t
    BY <1>1, <2>1, <2>2, InHand DEF ProposalOK, Dup, Canon
  <2>4. links[d] \subseteq links[c]
    BY <1>4, <2>2 DEF Filed, Copied
  <2> QED
    BY <1>2, <2>2, <2>3, <2>4
<1>5. Copied'
  BY <1>1, <1>4 DEF Copied, Dup, Canon
<1>6. Bare'
  BY <1>1, <1>2, <1>3 DEF Filed, Bare, ReconcileInv, Typed
<1>7. ASSUME NEW u \in Txns, status'[u] # "absent"
      PROVE  \E w \in Txns : u \in links'[w]
  <2>1. CASE u = t
    BY <1>2, <2>1
  <2>2. CASE u # t
    <3>1. PICK w \in Txns : u \in links[w]
      BY <1>3, <1>7, <2>2 DEF Filed, EvidenceSurvives
    <3>2. w # t
      BY <1>1, <3>1
    <3> QED
      BY <1>2, <3>1, <3>2
  <2> QED
    BY <2>1, <2>2
<1> QED
  BY <1>5, <1>6, <1>7 DEF Filed, EvidenceSurvives

LEMMA EditFiles ==
  ASSUME ReconcileInv, Filed, NEW t \in Txns, EditByHand(t)
  PROVE  Filed'
<1>1. UNCHANGED <<links, call, proposals>>
  BY DEF EditByHand
<1>2. \A u \in Txns : status'[u] = "absent" <=> status[u] = "absent"
  BY DEF EditByHand, ReconcileInv, Typed
<1>3. Copied'
  BY <1>1 DEF Filed, Copied, Dup, Canon
<1> QED
  BY <1>1, <1>2, <1>3 DEF Filed, Bare, EvidenceSurvives

LEMMA FiledKept ==
  ASSUME \A o, u \in Actors : o = u, ReconcileInv, OpenOrOvertaken, Filed, [Next]_vars
  PROVE  Filed'
<1>1. ASSUME UNCHANGED <<status, links, proposals>>, Narrows PROVE Filed'
  BY <1>1, FiledStays DEF Narrows
<1>2. ASSUME UNCHANGED <<status, links, proposals, call>> PROVE Filed'
  BY <1>2, FiledStays
<1>3. ASSUME NEW a \in Actors,
             \/ Detect(a) \/ FilterPrior(a) \/ FinishRun(a) \/ Abort(a)
             \/ CheckDelete(a) \/ WriteDelete(a) \/ FinishRequest(a) \/ Fault(a)
             \/ \E b \in Batches : StartRun(a, b)
             \/ \E i \in call[a].todo : ReadDuplicate(a, i) \/ FaultOnRead(a, i)
      PROVE  Filed'
  <2>1. Narrows /\ UNCHANGED <<status, proposals, overtaken>>
    BY <1>3, MostNarrow
  <2>2. UNCHANGED links
    BY <1>3 DEF Detect, FilterPrior, FinishRun, Abort, CheckDelete, WriteDelete,
       FinishRequest, Fault, StartRun, ReadDuplicate, FaultOnRead, ledger
  <2> QED
    BY <1>1, <2>1, <2>2
<1>4. ASSUME NEW a \in Actors, InsertProposals(a) PROVE Filed'
  <2>1. UNCHANGED <<status, links>> /\ call'[a].at = "next"
    BY <1>4, InsertOpens
  <2>2. \A o \in Actors : call'[o].at # "drop"
    BY <2>1
  <2> QED
    BY <2>1, <2>2, FiledStays
<1>5. ASSUME NEW a \in Actors, \/ Stamp(a) \/ \E i \in call[a].todo : Reject(a, i)
      PROVE  Filed'
  <2>1. UNCHANGED <<status, links>> /\ call'[a].at = "next"
    BY <1>5, DecidesOne
  <2>2. \A o \in Actors : call'[o].at # "drop"
    BY <2>1
  <2> QED
    BY <2>1, <2>2, FiledStays
<1>6. ASSUME NEW a \in Actors, Progress(a) PROVE Filed'
  BY <1>3, <1>4, <1>5, <1>6, CopyFiles, DropFiles DEF Progress
<1>7. ASSUME NEW a \in Actors, NEW b \in Batches, NEW v, StartRequest(a, b, v)
      PROVE  Filed'
  <2>1. PICK y : call' = [call EXCEPT ![a] = y] /\ y.at = "next"
    <3>1. PICK S : call' = [call EXCEPT ![a] = [Idle EXCEPT !.at = "next", !.batch = b,
                                                  !.todo = S, !.verdict = v]]
      BY <1>7 DEF StartRequest
    <3>2. PICK y : y = [Idle EXCEPT !.at = "next", !.batch = b, !.todo = S,
                                    !.verdict = v]
      OBVIOUS
    <3>3. y.at = "next"
      BY <3>2 DEF Idle
    <3> QED
      BY <3>1, <3>2, <3>3
  <2>2. \A o \in Actors : call'[o].at # "drop"
    BY <2>1 DEF ReconcileInv, Typed
  <2>3. UNCHANGED <<status, links>>
    BY <1>7 DEF StartRequest, ledger
  <2> QED
    BY <2>2, <2>3, FiledStays
<1>8. CASE Crash
  <2>1. UNCHANGED <<status, links>> /\ \A o \in Actors : call'[o].at # "drop"
    BY <1>8 DEF Crash, Idle, ledger
  <2> QED
    BY <2>1, FiledStays
<1>9. ASSUME NEW b \in Batches, Extract(b) \/ Reset(b) PROVE Filed'
  BY <1>2, <1>9 DEF Extract, Reset, ledger
<1>10. CASE UNCHANGED vars
  BY <1>2, <1>10 DEF vars, ledger
<1> QED
  BY <1>3, <1>6, <1>7, <1>8, <1>9, <1>10, PostFiles, EditFiles DEF Next

\* However many calls overlap: what became of a proposal is overruled only by a
\* call that had taken it up while it was undecided and was then overtaken.
THEOREM OnlyOvertakenOverrule == Spec => OverruledByOvertakenOnly
<1>1. Init => OpenOrOvertaken
  BY DEF Init, OpenOrOvertaken, Idle
<1>2. ReconcileInv /\ OpenOrOvertaken /\ [Next]_vars => OpenOrOvertaken' /\ Stands
  BY OpenKept
<1>3. Spec => []OpenOrOvertaken
  BY <1>1, <1>2, ReconcileIsInv, PTL DEF Spec
<1>4. ReconcileInv /\ OpenOrOvertaken /\ [Next]_vars => [Stands]_vars
  BY <1>2
<1>5. Spec => [][Stands]_vars
  BY <1>3, <1>4, ReconcileIsInv, PTL DEF Spec
<1> QED
  BY <1>5 DEF OverruledByOvertakenOnly, Stands

\* Where calls come one at a time, no document is lost: the links of a duplicate
\* go only when the record that is kept has them, and nothing in between takes
\* them from it; a row that arrives had none.
THEOREM EvidenceStays ==
  ASSUME \A o, u \in Actors : o = u
  PROVE  Spec => []EvidenceSurvives
<1>1. Init => OpenOrOvertaken /\ Filed
  <2> SUFFICES ASSUME Init PROVE OpenOrOvertaken /\ Filed
    OBVIOUS
  <2>1. \A a \in Actors : call[a].at = "idle" /\ call[a].todo = {}
    BY DEF Init, Idle
  <2>2. Bare /\ EvidenceSurvives
    BY DEF Init, Bare, EvidenceSurvives
  <2> QED
    BY <2>1, <2>2 DEF OpenOrOvertaken, Filed, Copied
<1>2. ReconcileInv /\ OpenOrOvertaken /\ Filed /\ [Next]_vars => OpenOrOvertaken' /\ Filed'
  BY OpenKept, FiledKept
<1>3. Filed => EvidenceSurvives
  BY DEF Filed
<1> QED
  BY <1>1, <1>2, <1>3, ReconcileIsInv, PTL DEF Spec
==============================================================================
