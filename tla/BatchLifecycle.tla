--------------------------- MODULE BatchLifecycle ---------------------------
(***************************************************************************)
(* What the upload API promises about a batch (schema/enums.ts, the batch  *)
(* state machine of worker.ts), with no queue, no workers and no agents:   *)
(* a batch is opened, gets all of its rows at once, its rows close one by  *)
(* one and stay closed, it is extracted only when every row is closed, and *)
(* that is announced once.  A restart may abandon open batches instead.    *)
(***************************************************************************)
EXTENDS Naturals

CONSTANTS Batches, Rows, BatchOf

RowsOf(b) == {i \in Rows : BatchOf[i] = b}

VARIABLES
  phase,     \* "absent", "open", "extracted" or "failed"
  row,       \* "none", "open" (queued, processing) or "closed"
  notices    \* how many batch.extracted events went out

vars == <<phase, row, notices>>

Init ==
  /\ phase = [b \in Batches |-> "absent"]
  /\ row = [i \in Rows |-> "none"]
  /\ notices = [b \in Batches |-> 0]

\* An upload is accepted.
Open(b) ==
  /\ phase[b] = "absent"
  /\ phase' = [phase EXCEPT ![b] = "open"]
  /\ UNCHANGED <<row, notices>>

\* All of its rows appear together; the duplicates among them, `born`, are
\* closed from the start.
Register(b) ==
  /\ phase[b] = "open"
  /\ \A i \in RowsOf(b) : row[i] = "none"
  /\ \E born \in SUBSET RowsOf(b) :
       row' = [i \in Rows |-> IF i \notin RowsOf(b) THEN row[i]
                              ELSE IF i \in born THEN "closed" ELSE "open"]
  /\ UNCHANGED <<phase, notices>>

\* Some open rows reach a terminal status, which they never leave.
Close(S) ==
  /\ \A i \in S : row[i] = "open"
  /\ row' = [i \in Rows |-> IF i \in S THEN "closed" ELSE row[i]]
  /\ UNCHANGED <<phase, notices>>

Complete(b) ==
  /\ phase[b] = "open"
  /\ \A i \in RowsOf(b) : row[i] = "closed"
  /\ phase' = [phase EXCEPT ![b] = "extracted"]
  /\ UNCHANGED <<row, notices>>

Announce(b) ==
  /\ phase[b] = "extracted"
  /\ notices[b] = 0
  /\ notices' = [notices EXCEPT ![b] = 1]
  /\ UNCHANGED <<phase, row>>

\* A restart gives up batches that were open.
Abandon(B) ==
  /\ \A b \in B : phase[b] = "open"
  /\ phase' = [b \in Batches |-> IF b \in B THEN "failed" ELSE phase[b]]
  /\ UNCHANGED <<row, notices>>

Next ==
  \/ \E b \in Batches : Open(b) \/ Register(b) \/ Complete(b) \/ Announce(b)
  \/ \E S \in SUBSET Rows : Close(S)
  \/ \E B \in SUBSET Batches : Abandon(B)

Spec == Init /\ [][Next]_vars
=============================================================================
