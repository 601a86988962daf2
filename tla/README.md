# A specification of receipt-assistant

receipt-assistant turns uploaded receipts into a double-entry ledger. A file is
uploaded, an agent process (`claude -p`) reads it and writes the ledger over
`psql`, a worker verifies what the agent reported, and a reconciliation engine
removes the duplicates that remain; users edit, delete, link and re-extract
through an HTTP API. This directory models the parts in which several actors
work on the same rows, files or events, checks them with TLC on small instances,
and proves the core of them with TLAPS for every instance.

Paths are relative to the repository; where a line number stands alone, the file
is the one named before it, under `src/`. `PROJECT.json` maps each definition to
the lines it translates and lists the runs, the mutants, the hazards and the
theorems.

Contents: [1 Inventory](#1-inventory) - [2 The modules and the
code](#2-the-modules-and-the-code) - [3 What is
checked](#3-what-is-checked) - [4 Bounds](#4-bounds) - [5
Fairness](#5-fairness) - [6 What is proved](#6-what-is-proved) - [7
Disagreements](#7-disagreements) - [8 What is not
modelled](#8-what-is-not-modelled) - [9 Plan](#9-plan)

## 1 Inventory

One Node process serves HTTP, holds an in-memory queue and starts child
processes; PostgreSQL and a directory of files hold everything that survives.
JavaScript runs to the next `await`, so concurrency is between statements:
requests, workers, agents, scripts and fire-and-forget runs interleave at every
database call. Only `db.transaction` blocks and the agents' `BEGIN ... COMMIT`
commit as one, at READ COMMITTED, so that a later statement of a block sees what
others committed since the one before; files are part of no transaction.

| component | source | state it keeps | operations that change it | hard behaviour | module |
|---|---|---|---|---|---|
| upload and batches | `src/routes/ingest.service.ts` | `batches`, `ingests`, `documents` | `createBatchFromFiles`, `retryIngest`, two dedup probes | select-then-insert, rows inserted only after the whole loop, failure after the batch row | `IngestPipeline` (partly) |
| worker pool | `src/ingest/worker.ts` | FIFO queue, `activeWorkers` in memory | `enqueue`, `maybeSpawnWorker`, `runOne`, `onBatchChild*`, `recoverStaleBatches` | UPDATEs by id alone, several closers of one batch, memory lost at a crash | `IngestPipeline` |
| extraction agent | `src/claude.ts`, `src/ingest/prompt.ts`, `extractor.ts` | an operating-system process and every row it writes | Turn A reads candidates, Turn B writes one transaction or a link, Turn C closes the row | read and write in different statements, SIGTERM without waiting, reports that do not match | `IngestPipeline` (partly) |
| reconciliation engine | `src/reconcile/engine.ts`, `dedup.ts` | `reconcile_proposals`, the batch status | `runReconcile`, `applyProposals`, `rejectProposals`, `softDeleteDuplicate` | no surrounding transaction, overlapping runs, links move in two statements | `Reconcile` |
| ledger | `src/routes/transactions.service.ts`, `drizzle/0001_ledger_invariants.sql` | `transactions`, `postings`, events | create, edit, both deletes, restore, reconcile, postings, near-dup review | version compared in a SELECT, absent from the UPDATE; balance trigger deferred to COMMIT | `Ledger` (partly) |
| accounts | `src/routes/accounts.ts` | `accounts` and their tree | create, re-parent, close, delete | count-then-delete, cycles | `Ledger` |
| reports | `src/routes/reports.ts` | none | summary, trends, net worth, cash flow | four sums that must agree on what counts | `Ledger` (partly) |
| documents | `src/routes/documents.service.ts` | `documents`, `document_links`, files, `.trash/` | upload, link, unlink, soft and hard delete, restore, both cascades | file moved after the row is gone; reads before a cascade | `Documents` (partly) |
| line items | `src/ingest/items-sql.ts` | `transaction_items` | an agent's run, lines by hand | numbers chosen while other lines were live, a block of several statements | `LineItems` |
| product catalogue | `src/routes/products.ts` | `products` with stored figures | create, retire, merge, recount | figures over another set of lines, counted before the row is free | `LineItems` (partly) |
| re-extraction | `documents.service.ts`, `src/ingest/reextract-prompt.ts`, `src/projection/layer3.ts` | metadata flags, text | snapshot, agent's block, outcome | edits made while an agent works for minutes | `LineItems` (partly) |
| exchange rates | `src/fx/*`, `scripts/backfill-fx.ts` | `fx_rates`, base amounts | lookup, fetch with retries, fallback, conversion | a provisional rate frozen, a rounding residual | `Money` |
| points valuation | `src/points/*` | `points_valuations`, base amounts | value, spread the residual | two passes over one transaction | `Money` |
| place cache | `src/routes/places.service.ts`, `src/projection/derive.ts`, two scripts | `places`, `place_snapshots` | upsert, refresh, re-derive, user's name, backfills | four writers, each with a read minutes old | `Places` |
| brand and product pictures | `src/routes/brands.ts`, `products.ts`, `src/ingest/brand-icon-*` | assets, files, preferred pointer | upload, choose, seed, fetch, judge, pick | a pointer without a foreign key, user against agent | `Icons` (partly) |
| idempotency keys | `src/http/idempotency.ts` | `idempotency_keys` | look up, run, reply, store | no lock between them; expired rows stay | `Idempotency` |
| event bus and SSE | `src/events/bus.ts`, `src/routes/ingest.ts` | subscribers in memory | publish, snapshot, subscribe | the snapshot comes before the subscription | `BatchStream` |
| lists and pagination | `src/http/pagination.ts`, eleven list handlers | none | a page at a time | rows written between two pages, cursors that lose digits | `Pages` |
| merchant enrichment; parties and insights; perceptual hash; bootstrap, schema and HTTP plumbing; agent prompt texts | `src/enrichment`, `src/insights`, `src/images`, `src/server.ts`, ... | - | - | - | not modelled, section 8 |

Interactions. An upload pushes to the queue; the pool takes from it and starts
agents; agents write ledger, links, places, brands, items and their own ingest row
behind the program's back; after each job the worker values points and converts
currencies; the last child to finish (or the upload itself, when all its files
are duplicates) completes the batch, publishes `batch.extracted` and starts a
reconciliation, which soft-deletes through the ledger service, while users edit
the same rows. Streams listen to the bus; lists and reports read what the others
write.

What makes each part correct:

- *upload*: no batch is accepted and then forgotten; a file is suppressed as a
  duplicate only when another copy is really being, or was, extracted.
- *worker pool*: no job is lost between database, queue and workers; the pool is
  bounded and work conserving; a row that closed never reopens; a batch is
  complete when it says so, and says so once; everything settles, also after a
  crash.
- *agent*: one purchase does not become money twice; a row that says done has
  something to show for it.
- *reconciliation*: one run per batch; findings proposed once; only certain
  duplicates are removed without a user; a purchase is never removed down to the
  last record; documents are never lost; a user's decision stands.
- *ledger, accounts, reports*: what is posted balances; postings have a
  transaction and an account; the trail tells the state; the reports agree;
  reconciled rows go only on a stale read.
- *documents*: bytes behind a row are not lost; a link has two ends; a cascade
  logs what it removes.
- *items, catalogue, re-extraction*: hand-typed lines survive re-reading; figures
  drift for known reasons only; a user's edit is not read over.
- *money*: a cached rate is final; a leg is worth its amount at its rate.
- *places, pictures*: columns follow the body; a name keeps its source; a row has
  its bytes; a user's choice stands.
- *front end*: a replay is the reply to that request; no event is missed but in
  the snapshot's own queries; pages partition a list.

## 2 The modules and the code

| module | what it is |
|---|---|
| `IngestPipeline` | upload, worker pool, agents and boot recovery, composed, statement by statement |
| `BatchLifecycle` | the abstract specification of it: what the API promises about a batch |
| `IngestPipelineInv` | its inductive invariant `PipelineInv` and the refinement mapping `Lifecycle` |
| `IngestPipelineProofs` | type correctness; what each variable can do in one step; the invariants; the theorems |
| `Reconcile`, `ReconcileProofs` | the engine with both detectors, users' requests and edits by hand; its theorems |
| `Ledger`, `LedgerProofs` | transactions, postings, accounts, triggers, reports; its theorems |
| `Documents`, `DocumentsProofs` | rows, files, links, cascades; its theorems |
| `LineItems`, `LineItemsProofs` | lines, products, re-extraction; its theorems |
| `Money` | rate lookup, conversion, valuation; its theorems are in `LedgerProofs`, with which they share the laws of sums |
| `Places`, `PlacesProofs` | the place cache and its four kinds of writer; its theorems |
| `Icons`, `IconsProofs` | pictures of brands and products; its theorems |
| `Idempotency`, `BatchStream`, `Pages` | keyed requests, SSE streams, keyset lists |
| `Frontend`, `FrontendProofs` | the composition of these three, with the process dying; its theorems |
| `MC*` | the small instances of the runs |

A definition called a *mutant* in its comment is a plausible bug in the
definition after it. No specification uses them: each replaces its original once,
to see that a property notices.

The common form. An operation of the service is cut where the code awaits: one
action per statement where the statements commit by themselves, one action per
database transaction where they do not, and for a request on an existing row one
action that reads, checks and may refuse, and one that writes by id. The record
`call[a]` is what such a request carries from one to the next, that is, what may
be stale. `Abort`, `Rollback`, `Crash` and `AgentDies` stop it in between.

**`IngestPipeline`.** A file is its ingest row and the transaction an agent may
write for it. `Request(b)` is `createBatchFromFiles`: the batch row, then per
file `UploadLookup` / `UploadInsert` (the document), `ProbeLive` and
`ProbeInFlight` (the two duplicate probes), then one `InsertRows`, `Enqueue`,
`CompleteBatch`, `RequestAnnounce`; `RequestThrows` leaves it at any of them, as
does the unique index for the loser of two uploads. `Retry` starts it again for
an errored row. `Worker(i)` is `runOne`: look up, mark processing, start,
spawn, then the agent's exit (`WorkerReap`) or the timer (`WorkerTimeout`,
which does not wait for the process), the guards over what was reported
(`WorkerVerify`, `WorkerForceError`, `WorkerHeal`), the completion of the batch
and `Release` of the slot, which refills the pool. `Agent(i)` is the agent's
database turns; `Misbehaviours` says which of the failures that the guards
exist for an agent shows (leaves its row open, loses its report, skips the
write or the link, names a transaction that does not exist). With `LateAgents`
a killed agent may still commit the statement it was in. `Crash` empties memory;
`RecoverScan`, `RecoverBatches`, `RecoverIngests` are the three statements of
the boot recovery. A document's content is a value (`DocOf`), the purchase it
shows is another (`EventOf`), and two documents are near-duplicates when they
show one purchase. That a model finds the candidate it should is assumed; that
it looks too early is not.

**`Reconcile`.** Each actor is one call of the engine. `StartRun` takes the
conditional lock; `Detect` is the two queries, `FilterPrior` and
`InsertProposals` the proposals; `ReadDuplicate`, `CopyLinks`, `DropLinks`,
`CheckDelete`, `WriteDelete`, `Stamp` are `softDeleteDuplicate` and the UPDATE
that follows it, shared by automatic and requested removal; `FinishRun` and
`Abort` end a run. `StartRequest` is the snapshot that `applyProposals` and
`rejectProposals` act on. A transaction is its place in the (created_at, id)
order; `Clock` is `created_at` as JavaScript reads it, in milliseconds; `Facts`
is what the detectors look at, and `Exact`, `Near` and `Score` compute what the
two queries and the weighting compute from it (in hundredths). `Upset` covers
the world outside: a throwing call, a crash, an operator who flips a batch
back, an edit by hand, and (`relapse`) a second failing call where the first has
brought the run into its catch block. `overtaken` records which call had a
proposal in hand when another decided it. The pipeline and the engine meet at the status
`extracted`: `IngestPipeline` shows it is reached once, with every row closed;
`Reconcile` starts there.

**`Ledger`.** `txn`, `post`, `acct` and `trail` are the four tables.
`ReadFor...` is the part of a request that reads the row, compares `If-Match` and
checks the state; the action named after the service function is its write and
commit, applied to the row as it is *then*. `PostingsCommit` and `StatusCommit`
are the deferred triggers; `Rollback` is a refusal. `CreateTransaction`, `CreateAccount` and
`DismissNearDup` have no earlier row to read and commit at once; `LogReview` is
the audit event that a review writes in a statement of its own. `Summary`,
`Trend`, `NetWorth`, `Cashflow` and `Balance` are the sums the reports compute,
each over the rows its own WHERE clause lets in; `PointsAccounts` are those that
count a loyalty programme, which the net worth leaves out like closed ones
(`LeftOut`) and the others do not. Amounts are base amounts; a month stands for a
date.

**`Documents`.** `disk` and `trash` are sets of contents, since the path of a file
is its hash. `LookUp`, `WriteBytes`, `InsertRow` and `Undelete` are the upload;
`CheckLink` and `InsertLink`, `Unlink`, `ReadDocument` and `SoftDeleteDocument`,
`CountLinks`, `HardDeleteDocument` and `QuarantineFile` the single requests;
`BeginCascade` is what a cascade reads, `CascadeHard` and `CascadeSoft` its
writes with their commit; a soft one leaves a document alone that it read as
deleted (`Cascades`). `LedgerStep` is what `Ledger` does to a transaction as
seen from here.

**`LineItems`.** `BeginReExtract`, the agent's block (or `WriteNothing`) and
`FinishReExtract` are the service's snapshot, the work and the comparison. The block
is one database transaction of many statements, and what it has written so far is
in its call until it commits: `OpenBlock` locks the rows it updates (`Writing`,
`HeadLocked`), retires the earlier runs and takes its run and its offset from the
lines it sees; `InsertLines` waits for the products it upserts (`Holds`) and then
counts the products it touched (`Counted`); `CloseBlock` waits for the products it
updates, writes what it counted and commits; `FailBlock` rolls back. What others
commit in between is in the next statement's view and not in the one before. The
recount is cut likewise (`CountLines`, `RecomputeProductStats`), and so is the merge
(`ReadForMerge`, `FindLines`, `MergeInto`). `ReadItems` and `AddTransactionItems` are
the lines by hand, which take no lock. `UpdateTransaction` writes the metadata it
read, or the client's own if the body has it (`Patches`, `MarksWritten`), with or
without marks.

**`Money`.** A pass (`pass[w]`) reads the legs (`ReadLegs`), resolves each currency
(`LookUpWorth` for points; `LookUpCache`, `FetchAnswers`, `FetchFails`, `KeepRate`
for rates) and writes the legs of its kind (`WriteLegs`), unless the balance
trigger says no (`WriteRefused`). `Rounded`, `Largest`, `Settled` are the
arithmetic: each leg rounded half up, the residual on the largest leg. A rate is
an integer of 1/`Scale` base units. `Publish` and `NewDay` are the source and the
calendar, in which rates come out late and not every day. People write too:
`CreateByHand` enters a transaction or a draft, points with or without a value of
their own, cash at whatever rate comes with it (`Acceptable`, `Priced`); `AddLeg`,
`DropLeg` and `PatchLeg` change its legs, the last one field at a time, under the
trigger (`Commits`); `CorrectAmount` changes an amount, which the trigger does not
look at. `reworked` and `corrected` record which transactions that happened to.

**`Places`.** One row with its raw body, its projected columns and the user's name.
`StartRefresh`, `FetchPlace`, `StoreRaw`, `ReadRow`, `WriteDerived` are a refresh,
of which a re-derive is the tail; `AgentLooks`, `AgentUpserts`, `AgentSnapshots`
are Phase 3 of an ingestion, whose name is Google's, the storefront's or the
receipt's (`OnReceipt`); `LoadCandidates`/`ApplyOcr` and
`LoadPending`/`ApplyUpdate` the two backfill scripts. `ProjectPlace` and `Derived`
are `src/projection/derive.ts`; `Merge` is the COALESCE list of the upsert.

**`Icons`.** An owner (brand or product) has assets named by hash, files, and a
preferred pointer with the user's lock. `PatchPreferred` stores any id, of a kept
picture or not (`Stray`), as no line checks it. `WriteFile`, `InsertAsset`, `Revive`,
`Choose` and the four `Seed...` steps are users and the seed script; `Gate`,
`FetchIcon`, `RecordIcon`, `ListCandidates`, `JudgeCandidates`, `Pick` are the
agent's phases. The UPDATEs with
which an agent judges one set of candidates are taken as one step.

**`Idempotency`, `BatchStream`, `Pages`, `Frontend`.** `LookUpReply`, `RunHandler`,
`Reply`, `StoreReply` are the middleware around one keyed POST, with `ReplyLost`
and `Expire`. `ReadBatch`, `ReadCounts` and `Subscribe` are a stream's snapshot and
subscription; `MarkProcessing` to `PublishExtracted` are the worker's writes and
events in the order it makes them. `Pages` gives each of the eleven keyset lists
of the API as a record: its orders, whether an edit moves a row's key, whether a
cursor keeps the whole key, whether a row that left can come back; `NextPage` is
one request and `InsertRow`, `EditRow`, `HideRow` what happens between two.
`Frontend` composes the three, which share a process: `Crash` takes requests and
streams and leaves what the database holds. The clients of one behaviour post,
follow or list; they share nothing but the crash, so nothing is lost by that.

## 3 What is checked

| run | instance | shows |
|---|---|---|
| `pipeline_serial` | one worker, no crash or fault; agents that leave rows open, lose their report, skip the write or a link; bytes uploaded again by a second request (21 thousand states) | `NoDoubleCount`: with agents that end when told to, serial extraction does keep one purchase from becoming money twice. `DoneIsBacked`: a receipt that reads done has a transaction or is the repeated email. `NearDupIsLinked`: an accepted near-duplicate is linked to what it names |
| `pipeline_faults` | two workers, a crash and one failing call anywhere, agents that invent ids (1.1 million) | `AnnouncedOnce`; `DedupHasWitness`: a suppressed file has a copy that was or is extracted; `PoolSaturated`: files wait only while the pool is full, and the count of slots is right; `NeverReopened`; and that the pipeline implements `BatchLifecycle` (`BatchLifecycleHolds`) |
| `pipeline_settles` | one worker, a crash, late agents, edits of the ledger, no failing call (72 thousand) | `ExtractedIsComplete`; `NoJobLost`: a queued row is held by the queue, a worker or a request; `BatchSettles`, `IngestSettles`: nothing accepted stays open forever |
| `reconcile` | two overlapping calls over two batches that share a purchase, one request, and one of: fault, crash, repeated run, edit by hand (1.4 million) | `MintedOnce`: findings are proposed once; `AutoNeedsIdentity`: only certain duplicates go by themselves; `PurchaseSurvives`: never the last record; `AppliedIsGone`: what reads applied is gone; `OverruledByOvertakenOnly`: a decided proposal is overruled only by a call that had taken it up before the decision |
| `reconcile_alone` | calls that follow one another, one request of up to two proposals, two upsets of every kind, the failing catch block among them (182 thousand) | `EvidenceSurvives`: documents stay filed; `ReconcileSettles`: a batch leaves `reconciling`, unless the process dies or the UPDATE of the catch block fails too |
| `ledger` | one transaction, three postings, three accounts of which one counts points, two requests at a time, three in all (291 thousand) | `PostedBalances`; `ReportsAgree`: summary and trend, net worth and cash flow are sums over one set of rows, up to the accounts that the net worth leaves out; `TrailTellsState`: status and deletion follow from the audit trail; `OnlyStaleDeletes`: a reconciled row is removed only by a request that read it before it was |
| `documents` | one content, three rows, two transactions, two requests at a time, five in all (37 thousand) | `BytesAccounted`: the bytes behind a row are on disk or in the trash; `OnlyStaleCascades`: a cascade removes reconciled money only on a stale read |
| `items` | two transactions, two products, two requests at a time, three in all, the agent's block in three steps (1.4 million) | `RewriteKeepsLines`: lines typed by hand survive every re-reading, and the order too unless one is typed into an open block; `DriftIsExplained`: stored figures of a product differ from its lines in named cases only; `EditLostByPatchOnly`: a user's edit is not read over unless a patch dropped its mark, by being stale or by its own metadata |
| `money` | one transaction, two passes at a time over five days, one edit of any kind, a source that is late or fails twice (769 thousand) | `FrozenRatesAreFinal`: the cache holds no rate that may still change; `WorthItsRate`: what is not a draft adds up to nothing; where no person made or repriced a leg, what the legs of one kind are off those of the other make up, and each is worth its amount at its own rate, up to the residual of rounding |
| `places` | one place, two requests, two agents, the two scripts (945 thousand) | `LayerTwoFollowsRaw`: the columns follow the raw body, except between the two transactions of a refresh, after one that stopped there, or after a re-derive of a body since replaced; `NameHasItsSource`; `OcrNameSurvives`: a name read off the receipt is lost only to a writer that looked before it was there |
| `icons` | one brand, one product, two pictures and an id that names none, two users or scripts, two agents (848 thousand) | `RowsHaveBytes`; `RetiredPointerHasCause`: a preferred picture is retired only by its user's choice, an agent that stopped between two statements or one that has yet to pick, and is none of the owner's only by its user's choice; `ChoiceStands`: no agent picks over a user |
| `frontend` | two requests under one key, one stream over two jobs, lists of three rows, a crash (346 thousand) | `RepliesMatch`: a replay is the reply to that request; `RepeatsHaveCause`: a handler runs twice for a key only with a cause; `EventsReachTheStream`: an event is missed only if it falls into the queries of the snapshot; `PagesPartition`: a row that stays is on exactly one page, apart from ties that a cursor cannot tell |

Deadlock is not checked: everything rests when nobody uploads or calls. Each
property has a mutant that breaks it under the same configuration, so none holds
for lack of behaviour. Type invariants are theorems (section 6).

## 4 Bounds

- *Three files in two requests* (pipeline): two files make a batch that can be half
  done, and a second request gives a competitor for the same bytes, the pool and
  the completion. `DocOf` and `EventOf` choose which coincide.
- *`MaxConcurrency` 1 or 2*: one is the default and the subject of worker.ts 13-18;
  two gives two closers of a batch and the refilling of a slot.
- *`MaxCrashes` and `MaxFaults` at most 1*: one crash at every point. Two crashes
  are more than the recovery bears: it is two statements, and when the process
  dies between them the ingests of a failed batch are never selected again, so
  `IngestSettles` fails with `MaxCrashes = 2` (worker.ts 649).
- *Three transactions, two batches, two actors* (`Reconcile`): a chain of three is
  the smallest in which the kept row of one removal is the duplicate of another;
  `reconcile` has an exact twin, a certain pair across batches and an uncertain
  one. `Threshold` is 95, the default; `Score` is in hundredths.
- *`MaxUpsets`, `MaxRequests`, `MaxNamed`, `MaxPosts`, `MaxOpens`, `MaxWrites`,
  `MaxPasses`, `MaxEdits`*: how often something unforeseen or asked for starts in
  a behaviour. They bound how many, not where: each may fall between any two
  statements of the others. Two requests at a time show every lost update; the
  third is what a later reader makes of it. An upset of `Reconcile` happens once of
  each kind; the catch block has one of its own (`relapse`), since it takes one
  failure to get there.
- *One transaction of three postings* (`Ledger`): a balanced pair and one posting to
  add, move or void; three accounts, so that one can be re-parented under a child,
  one of them counting points.
  Two months separate what a period report includes from what it does not.
- *One content* (`Documents`): contents do not interact; two transactions let a
  cascade stop half-way.
- *`Lines` = {2}* (`LineItems`): the explicit number a user may choose. It can be
  taken by an agent's run or free. A reading has one line, or a second that is a
  paid modifier with a product, or a charge without one; a PATCH carries at most
  one of the two fields, and any marks.
- *One transaction* (`Money`): transactions meet only in the cached rate of a day,
  which two passes over one share as well. Its day is a holiday, for which the rate
  of the day before stands; that one comes out late, so a pass may still be given the
  rate before it. `MaxDay` 5 is when the provisional window of two days has passed.
- *Amounts and rates* (`Money`): `Receipts` holds an award booked in foreign currency
  and in points, 3 against -3 and 1 against -1, of which every leg rounds from a
  half, and a foreign split of 3, -2 and -1 beside a fee in the base currency. At
  `Scale` 6, with rates of 3 and 5 and a worth of 3 or 4, halves go up on both sides
  of zero and leave residuals in either kind. `Entries` is points redeemed against a
  fee, at the value the server knows, and foreign cash at somebody's own rate;
  `AddLeg` draws from the same legs, `PatchLeg` from `HandRates`. A programme has a
  valuation from the start, as the seed gives it one, or none. Two attempts stand
  for three, one day of fallback for ten.
- *`Limit` 1, three rows, two instants* (`Pages`): two pages with a boundary inside a tie.
- The `LIMIT 50` of the near-duplicate query and the sizes of real pages are not
  reached.

The proofs of section 6 need none of these bounds.

## 5 Fairness

Only the pipeline and the engine have liveness properties. Only what the event
loop does on its own is fair there, weakly and per process: `RequestProgress(b)`
(a request that was accepted), `WorkerProgress(i)` (a worker that was started),
`Recover`, and in `Reconcile` `Progress(a)` (a call of the engine). Each waits for
nothing but the database, which answers or throws. An agent is owed nothing: if
it hangs, the timer ends it, and the timer is a step of the worker. Users,
operators, crashes and faults are never obliged to happen, and neither is the
start of a reconciliation. `ReconcileSettles` excuses a run that a crash cut off,
and one whose catch block failed as well (engine.ts 472): nothing resumes them. If
one of the two has happened already, it still asks of a later run that it ends,
unless the other happens to it.

The other modules have no promise of that kind: a request ends or throws, a poll
or a script is run by somebody or is not, and their hazards are about what one
step finds that another has left.

## 6 What is proved

| theorem | module | states |
|---|---|---|
| `TypeInvariant` | `IngestPipelineProofs` | types, with the cap on the pool |
| `PipelineInvariant`, `FullInvariant` | | the two inductive invariants |
| `ExtractedBatchIsComplete` | | an extracted batch has all of its rows, all terminal |
| `BatchAnnouncedOnce` | | `batch.extracted` is emitted at most once per batch |
| `TerminalForever` | | no terminal row is ever reopened |
| `PoolIsSaturated` | | `PoolSaturated` |
| `DuplicatesHaveWitness` | | `DedupHasWitness` |
| `WaitingJobsAreHeld` | | `NoJobLost`, while no call has failed and the process died once at most |
| `OneWorkerNoDoubleCount` | | `NoDoubleCount`, with one worker, agents that end when killed, and nobody else editing the ledger |
| `DoneRowsAreBacked` | | `DoneIsBacked`, with such agents that claim no transaction they did not write, while the process is up and no call has failed |
| `NearDupRowsAreLinked` | | `NearDupIsLinked`, with such agents, likewise |
| `ImplementsLifecycle` | | `Spec => BatchLifecycleHolds` |
| `ReconcileTypes` | `ReconcileProofs` | types |
| `RunsAreApart` | | two runs never work on one batch |
| `PairsAreMintedOnce` | | `MintedOnce` |
| `NoRemovalOnLooks` | | `AutoNeedsIdentity`, for a threshold above 90 |
| `AppliedAreGone` | | `AppliedIsGone`, if users restore nothing |
| `PurchasesSurvive` | | `PurchaseSurvives`, if users remove nothing and no two rows share a millisecond |
| `OnlyOvertakenOverrule` | | `OverruledByOvertakenOnly` |
| `EvidenceStays` | | `EvidenceSurvives`, if calls come one at a time |
| `LedgerTypes`, `DoubleEntry`, `NoOrphans`, `GateHolds` | `LedgerProofs` | types; `PostedBalances`; every posting has its transaction and account; `OnlyStaleDeletes` |
| `TrailIsTrue`, `ReportsAreOne` | | `TrailTellsState`; `ReportsAgree` |
| `MoneyTypes`, `RatesAreFinal`, `WorthHolds` | | types; `FrozenRatesAreFinal`; `WorthItsRate` |
| `BytesKept`, `OneRow`, `LinksEnd`, `EveryRemovalLogged`, `CascadesHold` | `DocumentsProofs` | `BytesAccounted`; one row per content; links have two ends; removals by a cascade are logged; `OnlyStaleCascades` |
| `LineItemsTypes`, `DriftHasCause`, `RewritesKeepLines`, `EditsLostToPatches` | `LineItemsProofs` | types; `DriftIsExplained`; `RewriteKeepsLines`; `EditLostByPatchOnly` |
| `PlacesTypes`, `ColumnsFollowBody`, `NamesHaveSources`, `OcrNamesSurvive` | `PlacesProofs` | types; `LayerTwoFollowsRaw`; `NameHasItsSource`; `OcrNameSurvives` |
| `BytesBeforeRows`, `PointersHaveCause`, `UsersChoiceStands` | `IconsProofs` | `RowsHaveBytes`; `RetiredPointerHasCause`; `ChoiceStands` |
| `ReplaysAreTrue`, `RepeatsExplained`, `StreamsAreTold`, `ListsPartition` | `FrontendProofs` | `RepliesMatch`; `RepeatsHaveCause`; `EventsReachTheStream`; `PagesPartition` |

Each holds for every value of the constants that the named assumption of its
module allows, and where the table says so under conditions. The assumptions are
the types of the constants; that a request offers a file (pipeline); that
transactions (`Reconcile`, `LineItems`), postings and accounts (`Ledger`) are
finitely many, as rows of a table are, since the code sums over them or takes
the greatest number; that NULL and the names of name sources are not
themselves names (`Places`); and of `Money` that each currency of a receipt
balances by itself, as the prompt demands of the agent (ingest/prompt.ts 674),
that the source publishes a positive rate for each currency on each business day,
and that it had begun when the purchases did. None bounds a number of rows,
requests or actors.

The conditions are needed. With a lower threshold soft matches alone reach it; a
restored row stands beside its applied proposal; two rows of one millisecond in
two batches are removed for each other; two overlapping calls lose a document,
and a killed agent that lives on books a purchase twice (section 7).
An upload whose call fails between inserting its rows and queueing them leaves
rows that nobody holds. A second crash between the statements of the boot
recovery leaves ingests that it never selects again.

**Pipeline.** That an extracted batch is complete cannot be seen from the batch.
`markProcessing`, the worker's error stamp and the agent's close are UPDATEs by
id with no condition, so any of them would reopen a row if it came at the wrong
time. They do not because of who can be where:

- `QueueHeld`: what waits in the queue waits once, is with no worker, and still
  reads queued; `WorkerRows`: a worker before its mark finds queued, after it
  processing, and no agent runs earlier. So a mark never meets a terminal row.
- `FilesSplit`, `BatchOpened`, `RowsTogether`: a request decides each file one
  way, and its rows appear together. So a batch cannot be completed between the
  appearance of two of its rows.
- `DownIsQuiet`: nothing runs during recovery, and what the scan selected is still
  open when it is failed. So a restart never fails a batch that was extracted.
- `AnnounceToken`: at most one process stands between the UPDATE that extracted a
  batch and its announcement. So there is one announcement.

`IngestPipelineProofs` has four parts. The first proves types, action by action.
The second says, per variable, which actions may change it and to what, so that
each conjunct is proved against the few effects it depends on. The third proves
each conjunct inductive and derives the theorems; for the refinement it shows
which step of `BatchLifecycle` each action is, or that it is invisible. The
fourth adds `FullInv`, which is about the pool and the guards:

- `PoolCount`: `activeWorkers` is the number of workers that hold a slot, and
  something waits only when that is the cap. Slots are taken and given back in
  the synchronous stretch that also refills, so no step falls in between.
- `DedupWitnessed`: a row born dedup, and a request that has decided so, leave a
  row of the same bytes that was put up for extraction; that row may be one of
  the request itself, whose rows appear together.
- `JobsHeld`: a queued row is in the queue, with a worker before its mark, or
  with the request that has inserted it; after a crash the boot recovery has it.
- `InsertIsFirst`: the agent that is about to insert a purchase read that there
  was none, and with one worker no other agent has moved since.
- `GuardsBite`: between the agent's end and the worker's check a row may claim
  what is not there; a worker that has gone on has checked it.

**Reconcile.** `ReconcileInv` adds to the types what a call holds in its hands
(`CallsOK`) and what a proposal says (`ProposalsOK`). Minting is unique because
`RunsApart` leaves one holder of a batch's lock and only the holder inserts
(`Fresh`: what passed the filter names no pair of the batch's proposals). A
purchase survives because a kept record is always earlier than the one removed
for it (`RemovedProposed`): the least removed record of a set that is closed under
kinship would have an earlier one that is not removed. What a call has still to
deal with is undecided, or was decided by another while the call had it in hand
(`OpenOrOvertaken`), so a stamp or a rejection that meets a decided row was
overtaken. With one call at a time, between the copying and the removal of
links the kept record has those of the duplicate (`Copied`), while a row that
only then arrives had none (`Bare`).

**Ledger.** `LedgerInv` has, beside balance and homes, `Sent`: what a request
carries is as old as the version in it says. Balance survives concurrent requests
not by the versions but because each commit is checked as a whole against the
rows it leaves; the gate is the part that the versions explain. The trail tells the
state because each commit appends the event for what it changed (`Told` says it
of the last event of a kind), a status that stays in spite of a request included.

That the reports agree needs sums over arbitrary sets of postings. The fold that
defines a sum is a recursive function over subsets; its laws (a sum of integers is
one, two summands, one more member, a set split by a key) are proved from that by
induction over finite sets, where the property to be shown is a set of subsets
(`SubsetInduction`), which is how an induction over data can be stated here. The
agreement is then arithmetic: the legs of each transaction that counts sum to
zero, so summing the books by month, by type and by account gives the same.

**Money.** `LedgerProofs` extends `Money` too, for the laws of sums; the two share
no state. `MoneyInv` is inductive. A cached rate is final because only an answer of
the day itself, or one over two days old, is kept, and by then `Calendar` has all
earlier days published (`KeptIsFinal`); what the fallback takes from the cache goes
to a leg and never back. `WorthItsRate` is about figures computed from legs that
were read seconds before. What survives the wait is `Snapshot`: no edit and no other
pass changes the currencies of a transaction or what its legs of each kind are off
in sum, as long as no person makes, removes or reprices a leg (`reworked`), so the
residual that the pass spreads is still the residual when it writes;
and no leg ends up off its worth by more than half a unit for each leg there is
(`Residual`, `SettledFits`: sums of rounded products, by the laws of the sums). Of a
transaction that people priced, only the balance is claimed, and that is the
trigger's: `Commits` looks at the rows as they are when a pass or a person commits,
and drafts pass it. The clause on the books then holds by that guard alone; the
others need the invariant.

**Documents.** `BytesFollowRows` and `Holds` say who is about to move which bytes:
between the deletion of a row and the move of its file another request may own
the same path, and the bytes are then in the trash, not lost.

**Line items.** `LineItemsInv` says of each product that its figures are the sums
over its live lines, or that one of the four causes is on record (`Explained`). What
carries it past the gaps between statements is `Knows`: a call that has counted a
product, or found the lines it will move, still knows them right when it writes,
unless `crossed` has the product. `crossed` is history, kept by `Watch`: the lines of
a product changed while another call was between its count and its write. Blocks of
one transaction wait for each other (`OneBlock`), so none numbers its lines past
those of another that has not committed (`LinesFit`, `CallFits`). The order of a
re-reading follows from the numbers: new lines start past the greatest that
survives, which exists because lines are finitely many, and only a line that was
not there when the offset was taken can stand among them.

**Places.** No lock orders the writers, so `PlacesInv` speaks of what is in flight: a
refresh that has stored its body and not projected it is on the list of those
under way until it ends, and a name that a script or an agent carries has the
same relation to its source as one in the row.

**Icons.** Files and rows only ever come, so a row inserted after its file keeps
it; a retired pointer is traced back to the step of the agent that left it, and one
at no picture to a PATCH, which took the lock that agents and seeds respect.

**Front end.** `KeysInv` holds `Orderly` for every key that is not excused: its
requests came one after the other, each answered from the table or stored.
`StreamInv` is the order of the worker, which writes and then publishes
(`WritesFirst`), against the order of the snapshot (`SnapshotShows`). `PagesInv`
places the rows relative to the cursor.

Out of the provers' reach, and with TLC: liveness (`BatchSettles`, `IngestSettles`,
`ReconcileSettles`) and ENABLED. Induction over data goes only where the property
can be a set, as for the sums; nothing is proved behind a RECURSIVE operator, and
no module with a proof has one.

Every other property of the runs has a theorem.

## 7 Disagreements

Where the code and what the repository says of it part. The properties below state
what is said; none is part of a run. To reproduce one, put it in place of the
properties of the configuration named (without SYMMETRY, if it is an action
property): TLC finds a behaviour of a few steps.

Pipeline and engine:

- *The killed agent* (`NoDoubleCount`, `pipeline_serial` with `LateAgents = TRUE`;
  worker.ts 13-18). On a timeout `runClaude` rejects after SIGTERM without
  waiting for the child. The next agent starts while the old one's statement can
  still commit, and two documents of one purchase both become money.
- *Stuck after a fault* (`IngestSettles`, `pipeline_faults` with `FairSpec`, one
  worker and `MaxCrashes = 0`; worker.ts 91). A database call of `runOne`
  outside its try block that throws leaves the row in flight until the next boot.
- *Concurrent upload* (`BatchSettles`, `pipeline_settles` with
  `DocOf <- SameBytesAgain`; documents.service.ts 170). The loser of two uploads
  of the same new bytes meets the unique index; its batch row stays pending with
  no row to complete it.
- *Evidence lost* (`EvidenceSurvives`, `reconcile`; engine.ts 222-225). Links are
  copied and then deleted in two statements. Run A removes 3 in favour of 2 while
  run B removes 2 in favour of 1: B copies the links of 2, A files document 3
  under 2, B deletes the links of 2, A those of 3. Document 3 is filed nowhere.
- *Rejected, then applied* (`RejectedIsFrozen`, `reconcile`; engine.ts 23-24). An
  apply that read the proposal earlier overwrites the rejection. What does hold of
  overlapping calls is `OverruledByOvertakenOnly`.
- *The refund* (`RefundIsKept`, `reconcile` with `Facts <- Refunded`; dedup.ts
  28-36). The exact detector compares signed totals; the near detector still sums
  the positive legs, which are equal for a purchase and its refund. A refund that
  reprints the order number, filed in another batch, is removed without a user.

Ledger and documents:

- *Reconciled and deleted* (`ReconciledIsKept`, `ledger`; transactions.service.ts
  1353). The gate reads the status in a statement before the deletion.
- *The mark of an edit* (`EditsStayProtected`, `ledger`; 1284-1288). `user_edited`
  lives in `metadata`, which a patch of `metadata` alone replaces, although "the user
  can't accidentally drop their own edit-protection by sending a `metadata: {}`
  patch".
- *Two reports* (reports.ts 106-113). The net worth leaves accounts in points out and
  the cash flow does not, which the code says and `ReportsAgree` adds back: a
  redemption lowers the one and not the other.
- *The tree of accounts* (`ChartShowsAll`, `ledger`; accounts.ts 322). The check for
  cycles excludes the account itself, not its descendants: two re-parentings take
  both accounts out of the tree.
- *History by payload* (`HistoryIsQueryable`, `documents`; schema/audit.ts 35). Not
  every event that outlives its transaction carries the id.
- *A row without its file* (`RowsHaveFiles`, `documents`; documents.service.ts
  534). The same bytes uploaded between the deletion of a row and the move of its
  file get a row whose file then goes to the trash.

Items and re-extraction:

- *Dropped products* (`DroppedAreRecomputed`, `items`; items-sql.ts 253). The
  recount selects the products of the run's own lines, so one that only earlier
  runs named keeps its figures.
- *Edits read over* (`EditsSurviveReExtract`, `items`; projection/layer3.ts). A patch
  that read the metadata before the edit writes the mark away, and so does one that
  brings metadata of its own.
- *No drift* (`DriftIsExplained` without `crossed`, `items`; reextract-prompt.ts
  274-277). The recompute counts before it waits for the product's row: two blocks,
  or a block and a recount or a merge, leave the figures of the earlier count.
- *No change* (`NoChangeIsTrue`, `items`; documents.service.ts 1235). When the
  transaction is gone there is nothing for the snapshots to differ in, although
  the agent wrote.
- *Lines apart* (`LinesApart`, `items`; transactions.service.ts 904). Numbers are
  unique within a run, and a line typed by hand during a re-extraction is
  numbered past the run before, also while the block is open.

Money, places, pictures:

- *The provisional rate* (`HistoryAtFinalRate`, `money`; fx/rates.ts 245,
  schema/fx_rates.ts 17). It is kept out of the cache but written on the posting,
  where nothing asks again.
- *Native by OCR* (`OcrIsNative`, `places`; schema/places.ts). The backfill sets the
  name and leaves the flag.
- *Cached is kept* (`CachedIsKept`, `places`; prompt.ts). The upsert has one
  ON CONFLICT list for both cases.
- *The chosen picture* (`ChosenShowsItsBytes`, `icons`; brands.ts 303-305). An
  upload of bytes an agent had fetched surfaces the agent's row, whose file may
  since have been fetched again under its name. The comment also speaks of an
  ON CONFLICT that the statement does not have.
- *Uploads untouched* (`UploadsUntouched`, `icons`; the re-extraction prompt). Its
  Phase 4c judges a user's upload once the user clears the choice.
- *The stale pointer* (brands.ts 483, by reading). "Re-extract should clear this",
  says the comment of a pointer at a retired picture; at the gate such a brand is
  Case A, already resolved, and the agent moves on (brand-icon-prompt.ts 155).

Front end:

- *Expired keys* (`KeysRecover`, `frontend`; http/idempotency.ts 98). The expired
  row stays, and ON CONFLICT DO NOTHING keeps the next reply out.
- *Listeners* (`ListenersAreReleased`, `frontend`; routes/ingest.ts 162). The
  handler listens for the hang-up last: a client that leaves during the snapshot
  is subscribed after its `close` event and never unsubscribed.
- *Final batches* (`FinalClosesStreams`; 161). Nothing publishes
  `batch.reconciled` or `batch.failed`, so such a batch closes no stream; by
  reading, since it would need a fairness no one owes.
- *Cursors* (`PagesComplete`, `frontend`; http/pagination.ts 4). The cursors of
  batches and ingests keep milliseconds of a key that has microseconds; a batch's
  ingests share one, and all but the first page are left out.

Seen without a property: overlapping uploads of one file can both pass the
in-flight probe; an ingest that ends in error may have committed its
transaction; a late agent can rewrite the row of an extracted batch (from one
terminal status to another); an agent that names an unknown transaction still
ends done; a crash after the UPDATE to `extracted` loses announcement and
reconciliation; a reconciliation that dies leaves its batch `reconciling` for
good.

## 8 What is not modelled

- Bank statements, where one ingest writes many transactions: they would repeat
  the receipt's insert without a new interleaving.
- Merchant enrichment: a poll that copies one external answer into one row at a
  time. Nothing in the models reads the result.
- Parties and insights: single-statement reads, and questions that an agent answers
  read-only.
- Perceptual hashing: a computation over an image. What follows from it is the
  choice of a near-duplicate candidate.
- Bootstrap, schema and HTTP plumbing: wiring, validation, I/O. The order of the
  start is in the boot recovery; the constraints that matter are in the actions
  they refuse.
- Prompt texts: wording. The statements they make an agent run are modelled where
  their rows are; what an agent reads off a document is any choice, and what it
  should find among candidates is assumed to be found.
- In the pipeline, points and currency passes are one step that cannot fail, because
  the `Safely` wrappers swallow everything; their detail is `Money`.
- In `Reconcile`: `payment_link`, `inventory` and `trip_group` are stubs that
  propose nothing; merchant ids are taken together with the payee; edits by hand
  are one step each, their own lost updates being `Ledger`'s.
- In `Ledger`: the disclosure block that the reports add on loyalty points (the
  points accounts themselves are there) and the grouping keys. In
  `LineItems`: a product's pictures and other fields. In `Places`: photographs and
  reviews. In `Icons`: the registry row's name and domain, the rollup. In
  `Money`: pacing of requests, the provenance written beside amounts, and the
  posting of a draft, which the trigger of `Ledger` checks (`StatusCommit`), or the
  removal of its last leg. In
  `BatchStream`: keepalives.
- In `LineItems`, once the merge has moved its lines it holds the products, so its
  later statements are one step with the move; and a hard delete waits for the blocks
  on its transaction.
- `Pages` takes it from the driver in use (drizzle-orm 0.45) that `db.execute` returns
  timestamps as text, so that only the cursors which pass through a `Date` lose
  digits.

## 9 Plan

Done: the modules of section 2 with the theorems of section 6. What is left, in the
order of what it would add:

1. `HistoryAtFinalRate`, `EvidenceSurvives` and `DriftIsExplained` without `crossed`
   under the conditions that would make them hold of overlapping passes, calls and
   blocks, as a specification of a repair.
2. `Ledger` composed with `Documents` and `Reconcile`: what a removal by the engine
   meets when a user restores, re-links or cascades at the same time.
3. Each candidate's judgement as a step of its own in `Icons`.
4. Statements with many transactions per ingest.
