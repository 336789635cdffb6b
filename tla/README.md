# Formal models of mempher

TLA+ models of the concurrent core of mempher, TLC configurations that check
them on small instances, and TLAPS proofs for every value of the constants.
Each module's definitions carry the names of the source where possible;
`PROJECT.json` maps each of them to the lines it stands for.

## The system

mempher is a memory store for language-model agents. Episodes are appended to
a log (L0) and never changed; everything else is a projection of that log,
derived later by workers through a job queue in the same PostgreSQL database.

| Part | State | Operations | What makes it hard |
|---|---|---|---|
| Job queue (`queue.go`, `postgres/queue.go`) | `mempher.jobs` and its three constraints | Enqueue, Lease, Succeed, Fail, Reclaim, Retry, Purge | many workers and clients; leases judged by the callers' clocks; statements that read a snapshot and write after it |
| Worker (`worker.go`) | the batch it leased, its id, its clock | Run, DrainOnce, encode, extract, reportFailure | crashes mid-batch, lost reports, late reports after the lease moved on |
| Episode log (`postgres/episode.go`, `mempher.go`) | `episodes`, `scopes.last_seq` | Append, AppendBatch, Episode, Replay | the append and its jobs commit together; Seq order must be commit order |
| Encodings (`postgres/encoding.go`) | `episode_encodings` | PutEncoding, PendingEncodings | written one by one, so a job can stop half-way |
| Facts, L1 (`fact.go`, `postgres/fact.go`) | `facts` (provenance, validity windows), `fact_extractions` (markers) | ApplyExtraction, Facts, PendingExtractions | a job may run twice at once; only the first answer may stand; a model retracts what it was shown a while ago; windows of one claim must not overlap |
| Erasure (`forget.go`, `postgres/forget.go`) | one transaction over all tables | Forget (episodes, or a scope) | five DELETEs under READ COMMITTED, each with its own snapshot, racing extractions, encodings, backfill and appends; deadlocks |
| Backfill (`ops/backfill.go`) | one cursor per kind; the caller's NextScope and NextSeq | Backfill | paging two kinds over many scopes with one resume point, on a live system |
| Operations (`ops/`) | none of its own | Jobs, Stats, Scopes, Retry, Purge | Retry racing Purge |
| Recall and fusion (`mempher.go`, `recall.go`, `fusion.go`, `postgres/search.go`) | none | Recall | channels read at moments of their own and may fail one by one; two limits and one budget |
| Migrations (`postgres/migrate.go`, `postgres/store.go`) | the ledger of applied migrations, `schema_config`, an advisory lock | Migrate, New | several processes of several builds start at once, crash and fail; what was read before the lock is used under it |
| Extractors (`extract/`) | none | Extract: a model call, and what of its reply is kept | a model that guesses ids and invents claims |
| Embedders (`embed/`) | none | calls of an external model | pure I/O |

The parts interact through the database only. Append inserts jobs in the same
statement as the episodes; workers lease jobs, read episodes, call a model and
write a projection; Forget deletes episodes, projections and jobs; Backfill
compares the log with the projections and enqueues what is missing. The
correctness of the whole rests on: the queue never losing or doubling owed work
and letting only the holder of a lease settle it; job bodies being idempotent,
because leasing is at-least-once; no projection outliving its episode; and
every episode ending up projected.

The full list of hazards, with the line where each bites and the properties
that cover it, is in `PROJECT.json`.

## Modules

| Module | Models |
|---|---|
| `WorkList` | what the queue promises: jobs that are owed, done, dead or purged, the same work never owed twice, owed work never dropped |
| `JobQueue` | the jobs table, the statements of `postgres/queue.go`, the loop of `worker.go`; refines `WorkList` |
| `JobQueueProofs` | inductive invariants of `JobQueue` and their proofs |
| `JobQueueRefinement` | the proof that `JobQueue` implements `WorkList` |
| `Consolidation` | one scope: log, encodings, markers, facts, jobs, two-statement extractions, the erasure statement by statement, backfill |
| `Backfill` | the paged walk of `ops.Backfill` over scopes and kinds, its caller's loop, and the live system around it |
| `Facts` | the fact store of one scope: windows, markers, retractions, and the extractions that read, ask, and write to it |
| `Recall` | the log with its appenders split at clock, lock and commit; Replay's pages; Recall's plan, channels, fusion and budget |
| `Migrate` | processes of different builds migrating one database under an advisory lock, and Stores opened meanwhile |
| `ConsolidationProofs`, `BackfillProofs`, `FactsProofs`, `RecallProofs`, `MigrateProofs` | the inductive invariants of these and the proofs |
| `IntegerSets` | lemmas the proofs share: `Min` and `Max` of sets of integers, numbering a finite set |
| `MCJobQueue`, `MCConsolidation`, `MCBackfill`, `MCFacts`, `MCRecall`, `MCMigrate` | constants of the instances TLC checks |

### JobQueue

`job[j]` is a row of `mempher.jobs`; `held[w]`, `until[w]` and `ran[w]` are what
a worker has in memory: the attempts of the rows it leased, when that batch
expires, and a body that returned and is not reported. One statement is one
action, because PostgreSQL re-evaluates the WHERE clause of a single-row UPDATE
on the current row. Two statements are split where a snapshot and a later write
can disagree:

- `EnqueueBegin` takes the snapshot; `EnqueueInsert` or `EnqueueCollapse` is
  what the unique index decides later. The collapsing case answers with what
  the snapshot held, which can be nothing.
- `PurgeBegin` is the inner SELECT, `PurgeEnd` the DELETE. A selected row that
  changed meanwhile is checked again for its id only. An operator may do
  `MaxOperations` retries and purges; with `OneOperator` no Retry falls within
  a running Purge.

Times are relative to now: `Tick` lowers every stored time by one. Times more
than `Horizon` in the past are not told apart, which keeps the state space
finite and is sound because the code only compares stored times with the
present (and with each other, to order the lease). `Skew[w]` is how far a
worker's clock runs ahead. `runs` and `revived` are ghosts: nothing reads them
but properties. Lease is taken with a non-empty batch only, and Reclaim with
something to release; the empty calls change nothing.

### Consolidation

The queue is here what `WorkList` promises: an owed job with attempts left can
be taken by any worker, also one whose predecessor still runs it (an expired
lease). `Says[e]` is what an extractor reads out of an episode; claims are
abstract identities, and `fact[c]` is the provenance of the claim. The rows of
the jobs table are `MaxJobs`; a new job takes one that was never used, or that of
a finished job nobody runs, which is then pruned (`FreeJobs`).

ApplyExtraction is two steps, `Mark` and `Write`: the markers are inserted
first, are visible to others from the commit only, and until then make another
extraction of the same episodes wait (unique index) and the erasure of those
episodes wait (foreign key). Forget is one step per DELETE, in the order of
`erasureSteps`: each records what its own snapshot shows, locks it, and nothing
is visible until `ForgetCommit`. Writers wait for the rows it has locked; the
foreign keys of markers, encodings and the scope row make the transaction roll
back if something appeared after its table's DELETE. Facts and jobs name their
episodes in an array, which has no foreign key. `Deadlocked` is the one cycle
these locks form, and PostgreSQL aborts either side.

The store may refuse an extraction that contradicts itself or what it holds
(ErrFactConflict): `Refused` fails the attempt of any extraction, since what
decides it are the windows, and `refused` remembers its episodes. A refused
extraction takes its markers back with it. Crashes, failed model calls, refusals
and erasures together are at most `MaxTroubles`. `partial` is a ghost: whether an
erasure named episodes instead of the scope.

Validity windows, retractions and the facts shown to the extractor are in
`Facts`.

### Backfill

`call` is the state of one call (the set of scopes listed, worked off from the
least id on, as the catalogue is ordered; cursors, the kind whose turn it
is, the page read and not yet enqueued) and `req` what the caller passes: after
a spent budget, NextScope and NextSeq. `owed` is a ghost: the work missing when
the walk began that no page has enqueued. Initially any subset of the
projections may be missing. Episodes are appended and erased, jobs are drained
or die and calls fail between any two steps, up to `MaxEvents` times. A failed
call is repeated with the same request.

### Facts

A row is a claim (the triple), its window `[from, to)` of event time with `to` =
`Open` for the zero To of the code, when it was asserted, and the episodes it
stands on. A runner goes through the body of an extract job: `Read` (episodes,
and the facts cut by the ingest and event time of the latest), `Answer` (the
model, `validate`, and the check of a reply against itself), and then the
transaction of ApplyExtraction, one action per statement: `MarkExtraction`,
`ApplyRetractions`, `ApplyAssertions` with the commit. `closes` are the rows it
has updated and locked, `snap` the snapshot its last statement matches rows in.
Runners run any batch any number of times and at once; a body can stop anywhere
(`Fails`). The erasure of an episode runs beside them, statement by statement:
`EraseBegin` is the snapshot of the first DELETE, `EraseFacts` the DELETE once no
extraction is closing one of those rows, `EraseMarks` takes the markers committed
by then, and `EraseEpisode` waits for uncommitted markers of the episode, is
refused by the foreign key if one was committed since, and commits otherwise.
What it deletes is seen by nobody before the commit (`er`), and waited for.

Which facts survive KnownFactLimit is a choice (the ranking by text is not
modelled), and so is what the model says: any member of `Utterances`, and a
retraction of any id at any instant. With `Faithful` it says exactly what the
episodes say (`Says`), omits what it was shown, and closes what contradicts it;
that is the model of the replay run. `applied` is a ghost.

### Recall

The log and its readers. An appender reads the clock (`Stamp`), locks the scope
row and takes its numbers (`Sequence`), and commits or aborts. What an episode
holds is chosen at the commit, as its kind: whether it passes the request's
filters and whether it shares a word with the query. Readers change nothing, so
a behaviour has one client, which pages with Replay or does one Recall.

`BeginRecall` resolves what the channels share; each channel is a step of its
own, in any order, with the log changing in between, and fills its slot or
fails. `SearchSemantic` finds any part of what is there, because encodings come
later than episodes. `Score` is the reciprocal rank fusion with exact fractions:
weights in quarters, and `Scale` a common multiple of all `K + rank`. Ties go to
the larger id in the code and to the larger Seq here: ids are UUIDv7, and the
model takes it that they grow with Seq. `Ranked` lists a set of episodes in the
order of a score, `Spent` adds up the costs of a list. `Answer` is the two loops
over facts and episodes with their limits and common budget.

The model is of one log and one Memory. `Erase` is Forget of an episode; Forget
of the whole scope deletes the scope row too, and an append after it begins a new
log at Seq 1, which a reader that goes on paging with its old cursor would miss
the beginning of. All callers read one clock, that of the Memory they share. With
several Memories every one has a clock of its own, and an episode stamped by a
clock that is ahead is not recalled until the reader's has caught up.

### Migrate

A request is a build (checksums by version) with options; a process goes from
`Inspect` over the lock, the ledger and one transaction per migration to
`Finish`. What it inspected before the lock and read from the ledger under it
stays in `call[p]`, so it can be stale. The lock is the session's: a crash, or
closing the connection when the release fails, frees it. `New` opens a Store in
two reads at any moment. The DDL of a migration is its version in `objects`, the
extensions it creates if missing, the row of `schema_config` that 0001 writes, and
the text search configuration that 0002 renders into `facts.statement_tsv`
(`baked`). `Unset` is the empty string: an option left out, an extension that is
not installed. A failed migration says that extensions are missing only when the
role lacks the privilege to create them, which is a choice here. The check of the
server's version is left out: it is one comparison that refuses the call.

## What TLC checks

| Run | Instance | Shows |
|---|---|---|
| `queue` | 2 workers with own ids and clocks that disagree, 2 jobs of 2 kinds with 1 and 2 attempts, 1 retry or purge, fairness for one worker | constraints, no limbo, exclusive live leases, bounded runs, only the holder settles, refinement of `WorkList`; every owed job settles |
| `enqueue_race` | 2 clients, the same work | *violated*: an Enqueue answered with no row |
| `purge_race` | 1 job, a retry within a purge | *violated*: a purge deletes an owed job |
| `erasure` | 2 workers, 2 episodes, both kinds, backfill, 1 crash, failed call, refusal or erasure of any kind | nothing outlives its source, done means projected, one application per job; with whole-scope erasures, markers claim only what was read and no fact is without its episode |
| `projection_liveness` | 1 worker, 2 episodes, extraction, 1 attempt per job, 1 crash, failed call, refusal or erasure | every episode is extracted, erased or refused; every erasure ends |
| `orphan_fact` | 1 worker, 2 episodes, 1 erasure | *violated*: a fact outlives an erased episode |
| `backfill_walk` | 2 scopes, 2 episodes each, 2 kinds, budget 2, 2 events | no page boundary skips an episode of a scope the walk got to; the loop ends |
| `backfill_resume` | 3 scopes, budget 2 | *violated*: a resumed walk over all scopes ends in the scope it resumed into |
| `facts` | 2 workers, 2 episodes alone and together, 3 bodies, 1 erasure, 4 replies and any retraction | windows of a claim never overlap, no fact without the markers of the episodes left, no marker without its claims, history is only closed, and only by who was shown it |
| `facts_replay` | 2 extractors that answer alike, 2 episodes | *violated*: the one that reads the log later does not supersede |
| `recall` | 2 appenders, 3 episodes, alone or in batches of 2, 1 erasure, 5 requests | no page of Replay skips an episode; what was appended is recalled; failed channels cost their own results only; better episodes first; budget kept |
| `migrate` | 2 processes, 3 calls, 6 builds and options, 1 fault, 1 Store | the ledger tells the schema, a snapshot of it stays current, old and edited builds add nothing, the migrations and recorded options of a success last, a Store fits, every call returns |

### Bounds

Two workers and one job are what it takes for a lease to expire, move on and be
reported late; two jobs fill a batch whose second waits behind the first; two rows
for the same work need one dead and one new job, which is `MaxJobs = 2`. Two
attempts distinguish the last one from the others, and `Lease = 1` with backoffs 1
and 2 and a clock one ahead gives times before, at and after an expiry. One
operation is a retry or a purge; both at once are `purge_race`.
Two episodes are what a batch, a fact with two sources, a partial erasure and the
deadlock need (one episode's fact is deleted while the other's extraction is about
to write it); two workers what a doubled job needs. The liveness run has one
worker, two episodes in one batch or two, and one attempt per job, so that jobs
really die and backfill has to make up for them, for what an erasure dropped of a
batch too; three job rows are enough, because those of finished jobs are used
again. It is about extraction only: with both kinds the graph
is too large for a liveness check. Encoding is simpler (no refusal, and no lock it
would wait for while holding one), and its safety is in `erasure`. That run has one
trouble; `MCConsolidationErasureTwice.cfg` has two, such as a crash before an erasure
or one erasure after another, passes as well (10 million states, four minutes),
and is run by hand. For Backfill, two
scopes with a scope page of one cross a catalogue page, two episodes with a
budget of two spend it within, at the end of and between scopes, and two kinds
give cursors that disagree. In Facts, three bodies are an extraction and two that
race after it; three instants give windows that nest, meet and are cut short; a
known limit and a cap below what there is make both bite. In Recall, two ranked
episodes can swap places between the channels, three overflow a limit of two, and
the clock ticks once between two stamps; the limits and defaults are small
(`Default*`), the constant K is the code's. In Migrate, three calls are one that
gets half-way, one that goes on and one that finds everything done; builds of one
and of two migrations are an old and a new one.

`MaxJobs`, `MaxOperations`, `MaxEpisodes`, `MaxBatch`, `MaxTroubles`, `MaxSeq`,
`MaxEvents`, `Horizon`, `MaxCalls`, `MaxFaults`, `MaxVersion`,
`MaxEpisode`, `MaxRuns`, `MaxErasures`, `MaxAppends`, `MaxNow`, `MaxEvent` and
`MaxWeight` are bounds of the models, not of the code. CHECK_DEADLOCK is off
everywhere but in JobQueue: a run with everything appended, read, migrated,
projected or bounded out legitimately stops, while in JobQueue `Tick` is always
possible.

### Fairness

`JobQueue`: time passes, and a worker in `Reliable` that can lease, run, report
or reclaim does: `Worker.Run` loops until cancelled and absorbs every error.
Nothing is assumed of other workers, clients or operators: they may hang
holding a lease. `Consolidation`: workers step and reclaim, an erasure that began executes
its statements, the deadlock detector fires, and backfill is run now and then,
which is how the code documents it (the safety net behind the queue). The erasure's
fairness is strong: it may have to wait for the key of an episode again and again,
because another extraction takes the lock when one ends, and PostgreSQL queues the
waiters of a lock, so that its turn comes. Crashes, failures, refusals and
erasures are bounded, so fairness never depends on one. `Backfill`: the caller keeps
calling. `Migrate`: a live process goes on with its call: it is straight-line
code, and its only wait, the poll for the lock, ends at a deadline. `Facts` and
`Recall` have safety properties only.

## Disagreements between code and documentation

Five are runs that TLC reports violated; `PROJECT.json` quotes the lines.

1. `backfill_resume`: a backfill of all scopes cannot be resumed across scopes:
   NextScope is passed back as Scope, which narrows the request to it.
2. `orphan_fact`: an extraction that commits between two DELETEs of an erasure
   leaves a fact about the erased episode.
3. `facts_replay`: an extraction run later is not shown the facts it wrote
   itself, because they are younger than the episodes it reads. So it never
   supersedes. The same cut hides a fact from a live extraction whose episode
   arrived before the fact of an earlier one was written.
4. `enqueue_race`: of two concurrent Enqueues of the same work one can fail with
   no rows instead of getting the existing job.
5. `purge_race`: Purge can delete a job that a concurrent Retry made pending.

Four more have a configuration of their own, to be run by hand; each ends in a
violation:

6. `MCConsolidationLostClaim.cfg`: a claim deleted with one of its sources is
   not derived again from the other, whose marker says it has been read.
7. `MCJobQueueSharedId.cfg`: workers of one process share their default id, and
   Succeed and Fail check only that.
8. `MCMigrateTextConfig.cfg`: migration 0002 builds `facts.statement_tsv` with the
   text search configuration of its caller, before `checkSchemaConfig` refuses that
   caller for it. A process that asks for the recorded one then succeeds, and
   searches its facts in the wrong language.
9. `MCMigrateExtensionSchema.cfg`: a call that names the schema of the extensions
   succeeds although another process installed them elsewhere, between its
   inspection and its lock.

Met while translating, and modelled as the code is:

- A retraction at the very beginning of its fact passes `parse.go`, which drops
  only earlier ones, and is refused by the store; the whole extraction fails,
  although `extract.go` says that what a FactStore would refuse is dropped. The
  same goes for one claim over two overlapping windows in one reply.
- The insert of `applyAssertionsSQL` skips every assertion of a claim of which
  some window was updated, so that a second window of that claim in the same
  extraction is lost without an error. `ReadClaimsStand` is therefore about
  claims, not windows.
- An extraction regrouped by backfill asserts again what its read episodes
  say; when the claim was closed since, the windows overlap, the store refuses it
  and the job dies. `EveryEpisodeProjected` therefore excepts refused episodes.
- The default lexical weight is a quarter of the semantic one, where the comment
  on `Config.Fusion` says equal weights.
- An episode stamped before a cut can commit after a Recall at that cut, so
  the same Recall can later find more.

## What TLAPS proves

Every invariant and every action property that a passing run checks is a
theorem, for all values of the constants that satisfy `ConstantsOK` of its
module: any number of workers, clients, processes and appenders, any budgets,
limits, batches, replies and requests. Three theorems about the queue assume more,
which is named with them. What stays with TLC is
at the end of this section. Each proof has the same shape: an inductive invariant that TLC checked
first, a lemma per action (or per conjunct where that is shorter), and theorems
that follow from it.

### JobQueue

- `TypeCorrect`: besides types it says that ids from `next` on were never
  inserted, and a row has work exactly while it exists; both are needed for
  everything below.
- `ConstraintsAlwaysHold` and `NeverInLimbo`: the inductive invariant is
  `TypeOK`, `OutstandingOnce` (no two outstanding rows for one work) and
  `RowOK` (per row: lease columns exactly while running, attempts within the
  maximum, pending with an attempt left, dead with none). `ConstraintsHold` alone
  is not inductive: that Lease never exceeds `max_attempts` needs that pending
  rows are unspent.
- `RunsAreBounded`: the invariant `RunsCounted` balances, per row, the bodies
  that ran and the attempts still waiting in some worker's batch against the
  attempts on the row and `MaxAttempts` for each life an operator gave it. No
  assumption on ids, clocks or retries is needed.
- `HolderReports`: assuming distinct worker ids (`DistinctIds`), Succeed and
  Fail only settle the reported attempt. The invariant `HeldIsCurrent` says
  that wherever the queue would accept a worker's report, the attempt on the row
  is the one the worker holds.
- `LeaseOwns`: assuming distinct ids and `OneOperator`, `LiveLeaseHolds`, with
  clocks that disagree as they like. The invariant `LeasesAgree` ties the worker's
  idea of the expiry to the row's, and `PurgingFinished` says that what a purge
  selected stays finished until it is deleted.
- `QueueImplementsWorkList` (`JobQueueRefinement`): assuming `OneOperator`,
  `Spec` implements `WorkList`, with `status` = owed for pending and running rows
  and the state otherwise. One lemma per kind of abstract step (complete, abandon,
  add, revive, prune), one for the steps that stutter.

`DistinctIds` and `OneOperator` are what `MCJobQueueSharedId.cfg` and `purge_race`
show to be necessary: neither is enforced by the code.

### Consolidation

- `ErasureIsComplete`, `DoneIsProjected` and `ExtractionAppliedOnce` follow from
  one invariant. `Fresh`: nothing names an episode or a job that is yet to come.
  `Engaged`, `Progress` and `SameBatch`: a runner works on what its job names, and
  two runners of one job on the same. `Marking`: uncommitted markers are of
  episodes that exist and have none, and never two runners' at once, which is the
  unique index. `OnceApplied`: once an extraction of a job was applied, all its
  episodes are marked, so every later one is declined. `Erasing`: what an erasure
  has deleted so far is its to delete and, at the commit, leaves no marker or
  encoding of a deleted episode, which is the foreign keys.
- `FactsStand` and `MarkersAreTrue` are about behaviours up to the first erasure
  that names episodes (`~partial`), and say so in the property; `orphan_fact` and
  `MCConsolidationLostClaim.cfg` show why. The invariant adds `Intact`: an
  extraction about to commit has lost none of its episodes.

### Backfill

- `EnteredAreCovered`: the invariant says where work that is still missing can
  be: not before the resume point (`Resuming`), not in a scope the catalogue page
  has passed (`Passing`), not behind the cursor of its own kind (`Reading`).
  `Turns` is why a round without progress means that every kind is exhausted or
  out of budget, which decides whether the walk may leave a scope. No fairness is
  used, and `Target`, budget, batch and page size are arbitrary.

### Facts

- `TypeCorrect` holds more than types: of one extractor's rows for a claim no two
  windows overlap.
- `FactsHaveMarkers`, `MarkersHaveFacts`, `HistoryIsKept` and
  `OnlyKnownFactsClose`: the invariant says of every body what it may rely on
  between its steps (`BodyOK`: what validate let through, that its episodes have
  markers, what it was shown, and that the rows it is closing stay as it found
  them), that no two transactions close one row (`ClosesApart`), that every
  episode of a row was read by an extraction that asserted it (`Supported`), and of
  an erasure under way that the rows it deletes name its episode, that nobody is
  closing them, and that its markers are markers of its episode (`Erasing`).
  `FactsHaveMarkers` leaves out erased episodes, which `orphan_fact` shows a fact
  can still name.
  The model's replies are arbitrary finite sets, its retractions any ids.

### Recall

- `ReplayIsComplete`: the holder of the scope row has the last numbers taken, and
  while nobody holds it the committed numbers are exactly `1 .. lastSeq`
  (`TypeOK`, `Appending`); so a number behind the cursor was on a page.
- `AppendedIsFound`, `FailuresStayTheirOwn`, `BudgetsAreKept` and
  `BestComesFirst`: the invariant carries what each channel found (`Asked`,
  `Filled`, `Searched`) to the answer (`Ended`). The lemmas under them say what
  the operators compute: a ranking of every finite set exists and is in order,
  the running sum of costs is monotone and depends on its prefix only, the loop
  with a limit and a budget takes the longest prefix that fits, and a score is
  larger when no channel ranks the episode lower and one ranks it higher. They
  stand on `Scale` being divisible by every `K + rank`, which is `ConstantsOK`.

### Migrate

- `SnapshotIsCurrent`: whoever is between lock and release holds the lock, and
  what it read is the ledger (`UnderLock`). That makes the versions applied
  contiguous and equal to the objects there (`Contiguous`), which is
  `LedgerIsTrue`. `SuccessLasts` (the migrations, their checksums, and the recorded
  width and text search configuration; not what 0002 rendered, nor where the
  extensions are) and `StoresFit` need that what a finished call
  found there never changes (`Won`, `Opened`), and `HistoryIsOwned` that a call
  that applies embeds the ledger.

### Only model-checked

- Liveness: `EverySettles`, `EveryEpisodeProjected`, `ForgetEnds`, `WalkEnds` and
  `CallsReturn`. The prover has no rules for fairness.
- The nine properties under "Disagreements": they do not hold, and TLC's
  counterexamples are the result.

## Not modelled

- Operations that only read: listings, counts, inspection. No step of the system
  depends on them.
- Prompts, JSON and HTTP of extractors and embedders. A call returns or fails;
  what a model may say is a choice in Facts.
- The ranking of text and vectors: which facts or episodes a limit keeps is a
  choice, or given with the request.
- Encodings of several models side by side.
- Argument checks that only refuse a call, beyond those in Recall, Facts and
  Migrate; the checks New makes of a Config.
- Evaluation, test support and examples.

- The server's version check in Migrate, Forget of a whole scope and clocks of
  several Memories in Recall, encoding under liveness: see the modules and bounds
  above.

What is left to prove is that Consolidation's view of the queue (an owed job that
any worker may take) is what `WorkList` allows, and that the erasure of Facts is
that of Consolidation, seen by the facts and markers of one episode.
