# A verification of Tessera: run lifecycle, ledgers, locks, clients and benchmark

`servicenow-preflight` is two programs. `src/` of the repository root is the
*preflight* linter for ServiceNow workspaces. `tessera/` is the larger one: it
projects test specs onto a ServiceNow *runner instance* as ATF records, has the
instance execute them, reads the results, and takes every record down again. It
deletes records on an instance other people work on, it may be killed at any
point, and it never sees the instance but through HTTP requests that may time
out. What makes it correct is what it writes down before it acts, and what it
insists on reading before it deletes. That is what the modules here are about.

Paths below are relative to `src/tessera/packages/` unless they begin with
`src/` (the linter) or `scripts/` (Tessera's build scripts).

## 1. Inventory

| component | state | operations | talks to |
|---|---|---|---|
| Run state machine (`ledger/src/stateMachine.ts`) | nine run states, the write-once `runningAt` stamp, three entry states | the legal edges; `neverReachedRunning` | used by ledger, pipeline, cleanup |
| Run pipeline (`core/src/runPipeline.ts`, `cli/src/liveRun.ts`) | per process: stage, last state it drove, abort flag, `projectionAttempted`, `enteredRunning`, `reportersClosed` | one `runPipeline` call: scan, open, stages, projection, trigger loop, abandon, collect, teardown, settle | ledger, ATF store, ATF runner |
| Intent ledger (`ledger/src/ledger.ts`, `records.ts`) | `run.json` and `ledger.jsonl` of a run | `openRun`, `transition`, `intend`, `confirm`, `compensate`, `recover`, `entries`, `scan`, `touch` | durability |
| Ledger durability (`ledger/src/durability.ts`) | bytes of a log, what of them an fsync has covered | append, repair of the tail, tolerant read, atomic replace | file system |
| ATF store (`teststore-atf/src/store.ts`) | none of its own: the instance's rows | `project`, `teardown` with ownership check and DEV-17 gate | instance |
| Projection lock (`teststore-atf/src/lock.ts`) | a lock file | exclusive create, release; never stolen | ATF store |
| ATF runner (`runner-atf/src`) | an execution it polls | trigger, poll, read results | instance |
| Cleanup (`cli/src/commands/runState.ts`) | none | `tess cleanup --mode apply`: recorded and unrecorded sweep; plan mode; `--legacy`; `confirm`; `status` | ledger, ATF store |
| File lock, infra ledger, run events (`ledger/src/fileLock.ts`, `infra.ts`, `runEvents.ts`) | a lock file, a host-wide log, a per-run event log | `withFileLock`, `intend`..`compensate` of infra writes, event append | several processes |
| REST client (`sn-client/src/core/http.ts`, `http-util.ts`, `auth.ts`, `write-journal.ts`) | cached OAuth token and the request that fetches one, slots per host, write journal | request with retries, 401 re-authentication | instance |
| Collaboration lock (`store/src/collaborationLock.ts`) | lock, claim and staging files | acquire, evict, release, reclaim | several authors |
| Build lock (`scripts/build-lock.mjs`) | a lock file, an inherited token | acquire, inherit, break, release | build processes |
| Target guard (`guard/src/targetGuard.ts`) | the classes it has issued, the overrides it has journalled | `classify`, `assertWrite`, `assertRunnerWritable` | probe, ledger |
| Verdict reducer, gate evaluator (`core/src/aggregateVerdict.ts`) | none | outcomes to GO, NO_GO, INCONCLUSIVE | pipeline |
| Provisioner and doctor (`provisioner/src`, `doctor/src`) | none of their own: rows of the instance | `diagnose`, `plan`, `apply` | instance |
| Benchmark (`benchmark/src/harness.ts`, `substrate.ts`, `journal.ts`, `cli/src/benchmarkRun.ts`) | the captured sources, lease rows on the instance, a restore journal per run | drive mutants and detonators, reset, final restore; `--restore` | instance, file system |
| Resolvers, impact, specs, generator, config, parity, reporter, MCP surface, benchmark scoring, fake instance | caches and reports | analysis, text, dispatch | - |
| State sync (`src/src/state`, `src/src/http/client.ts`) | the committed manifest of an instance | `sync`: page, merge, write | instance |
| Preflight linter (the rest of `src/src`) | configuration, reports | checks | instance |

`PROJECT.json` lists the same components with their status.

**What is hard here.** (1) *Deleting on evidence.* An execution that is queued
shows no result row, so the absence of live rows proves nothing; teardown needs
to know how many executions to look for, and it learns that from a ledger that
may be a crash behind, or, for a sweep from another machine, not at all.
(2) *Crash points.* Between the intent, the request, and the confirmation a
process may die; everything on the instance must still be reachable from the
ledger. (3) *Several actors on one record.* A retry of a run id, two cleanups,
a cleanup next to a live owner: each moves the same nine-state record, with
refused and failed edges. (4) *Failure paths.* A fault, an abort and a deadline
leave the pipeline from any await, and all of them end in the same collect and
teardown code. (5) *Requests with unknown outcome.* A POST that timed out may
have been applied, or be applied later. (6) *Torn logs.* The ledger is a file;
appends and fsyncs fail half-way.
(7) *Locks without a server.* Lock files are created, judged and unlinked in
separate calls, by processes that die in between. (8) *Answers that say less
than they seem to.* Pages are cut, rows hidden by ACLs, a token revoked while
five requests carry it, a write answered by a timeout, a probe contradicted by
the next one: a verdict, a classification or a manifest is drawn from these.

**What makes each modelled component correct.** State machine: a record without
`runningAt` really never triggered. Pipeline: nothing is sent before it is
journalled; reporters flush before anything is deleted; an opened run ends.
Store: nothing is deleted under a live execution nor in a namespace that holds
somebody else's row; suites outlive their tests. Lock: one projection at a time
until its last trigger has settled. Ledger: compensated means gone, `done` means
nothing is left. Cleanup: it converges where there is evidence. Ledger files:
the log stays readable, one entry per idempotency key, what was told is kept.
Locks: one holder, and a dead one blocks nobody. REST client: a write is applied
once, a burst of 401s costs one token, no call waits for ever. Runner and
verdict: a pass rests on a row of this execution, a GO on a pass of every
demanded spec. Guard: nothing is written to a host that looked like production
without an override on record. Provisioner: what it reports happened. State
sync: a test keeps its logical id. Benchmark: a broken source on the instance
always has its correct text in a journal, and one run at a time drives the scope.

## 2. Modules

| module | models | state and steps |
|---|---|---|
| `RunStates` | `stateMachine.ts`, the decision of `ledger.transition`, the shape of `run.json` | operators only |
| `AtfStore` | the instance's rows and executions, `project` and `teardown`, the projection lock | `rows`, `foreign`, `late`, `exec`, `lock`, `made`, `sweep`, `faults`; one step per POST, per read of the discovery and per DELETE |
| `RunLifecycle` | `runPipeline`, `AtfRunner.run` as the pipeline sees it, `cleanup --mode apply`, ledger calls | adds `rec` (`run.json`), `entry` (folded log), `own` (the locals of a pipeline and its program counter), `cl` (those of a cleanup), `crashes`; one step per await |
| `RunContract` | nothing: what a run promises | `phase`, `residue`, `live` |
| `RunProperties` | nothing: the properties of the composition, the refinement mapping | - |
| `RunClaims` | nothing: the inductive invariants of the lifecycle | - |
| `RunLifecycleProofs`, `RunTeardownProofs`, `RunSettlementProofs`, `LedgerProofs`, `CollaborationLockProofs`, `FileLocksProofs`, `BenchmarkProofs`, `ClientsProofs` | nothing: proofs, and the inductive invariants of the last three; each of the first three extends the one before it, `BenchmarkProofs` extends `FileLocks` | - |
| `LogFile` | a log's lines, `parseLogRecords`, `foldRunLog`, `committedLength` | operators only |
| `IntentLedger` | `intend`, `confirm`, `compensate`, `appendRecord`, `repairLogTail`, `appendLineDurable` | `lines`, `tail`, `synced`, `repaired` (`repairedLogs`), `call` (the call `withLock` lets through), `told`, `mishaps`, `env` |
| `LedgerBook` | nothing: what the ledger promises its callers | `entry`, `told` |
| `LedgerProperties` | nothing: properties of the log, the refinement mapping | - |
| `LedgerClaims` | nothing: the inductive invariants of the ledger | - |
| `CollaborationLock` | `collaborationLock.ts` | `lock`, `claims`, `aged`, `alive`, `held`, `me`; one step per file-system call: create, judge, claim, re-read, unlink, unclaim, sweep |
| `BuildLock` | `build-lock.mjs` | `file`, `running`, `recycled`, `token`, `judged`; acquire, break, inherit, wait, release, `Kill`, `Recycle` (a pid given away again) |
| `HostLog` | `fileLock.ts`, `infra.ts`, `runEvents.ts` | `lock`, `log`, `torn`, `proc`; create, fill, judge, break, repair, read, append, release, `Die` |
| `RestClient` | `snRequest`, the token cache of `auth.ts`, `withSlot` | `call`, `cached`, `inFlight`, `flight`, `active`, `waiters`, `applied`, `journalled`, `warned`; a step runs from one await to the next |
| `AtfResults` | `results.ts`: the paged reads, the tree of suite results, the rows it believes | operators over a "world" of rows |
| `AtfRunner` | `run()`, `triggerSuite`, `pollUntilTerminal` | `exec`, `pc`, `group`, `polls`, `halted`, `outcome`, `aborted`, `late` |
| `TargetGuard` | `targetGuard.ts`, what `heuristics.ts` decides | `cls` (issued), `probing`, `journalled`, `ledger`, `writes`, the history `said` |
| `Verdict` | `aggregateVerdict.ts` | `outcomes` as they come in, `verdict` |
| `Provisioner` | `provisioner.ts`, the recipe, `doctor.ts` as it is asked | `row`, `finding`, `plan`, `applied`, the histories `sent` and `seen` |
| `StateSync` | `sync.ts`, `mergeManifest`, the paging of `client.ts`, `commandSync` | `test` (the instance), `pulled`, `total`, `linked`, `manifest` |
| `Benchmark` | the harness's turns, the substrate with its runner lease, the restore journal, `--restore` | `live` (the sources on the instance), `rows` (of the lease table), `file` (journals), `proc`, `job` (a verified restore), `op`; one step per request and per file written, `Kill`, `KillRestore` |
| `FileLocks` | nothing: `BuildLock`, `HostLog` and `Benchmark` side by side, which share no state, with the assumptions on their constants | `which` of them a behaviour is about |
| `Clients` | nothing: the same for `RestClient`, `AtfRunner`, the results one execution leaves, `TargetGuard`, `Provisioner`, `Verdict` and `StateSync` | `which`; `world` and `read` for the results |
| `MCRunLifecycle`, `MCIntentLedger`, `MCCollaborationLock`, `MCFileLocks`, `MCClients` | nothing: the instances for TLC | - |

`RunLifecycle` extends `AtfStore` and `RunStates`: owners and cleaners are the
actors of the store, the store's sweep steps interleave with theirs, and
instance steps (a trigger arrives or is lost, a result row appears, a suite
ends, a late POST lands) with all of them. `AtfStore`'s instance side is marked
external in the map: it is modelled from what the store and the runner read.

How the program maps onto it:

* Every `await` of `runPipeline` and of `cleanupCommand` is a boundary between
  two steps, and a crash (`Crash`, `CleanCrash`) or an abort (`Abort`) may fall
  on each. `own[o].pc` names the await the owner stands at, `own[o].view` is the
  pipeline's idea of the state it last drove the run to (the outer `catch`
  decides by it), `todo` the entries still to compensate.
* A ledger call is one atomic step of `RunLifecycle` that may succeed, be
  refused by the table, or fail; a failing flip may or may not have landed
  (`Journal`), a failing transition has not. `IntentLedger` shows what an entry
  call consists of. `scan` and `openRun` are two steps, as in the code.
* A run journals one write per spec and one per trigger, always in this order,
  so an entry's `seq` is the rank of its write (`Seq`).
* A POST may succeed, fail with nothing applied, fail with the row applied
  (`LoseRow`), or, with `LateLanding`, be applied after its client gave up.
* The teardown discovery is the code's sequence of reads (tests, suites,
  ownership, links, gate, steps, inputs); what it will delete (`Doomed`) is what
  those reads saw, not what is there when the DELETE is sent.
* `ProvablyTerminal` is the DEV-17 gate: with the count of recorded triggers, as
  many ended executions as were recorded; without it, `UnrecordedTriggerBound`
  (the number of runner groups); or the record's proof that nothing was ever
  triggered.
* `IntentLedger`: `synced` is how many lines are on the disk for good; a power
  loss keeps any number of lines between `synced` and all of them, and may leave
  a torn or zero-filled tail. `Garbage` is a terminated line that does not parse.

* The clients and the locks are modules of their own. `RunLifecycle` sees of the
  runner that a trigger is sent, ends or is given up on, and of the REST client
  that a POST may land without an answer; `AtfRunner` and `RestClient` are where
  these come from. `AtfRunner` extends `AtfResults`: the results of an execution
  that has ended do not change, so all reads of a group are one step. A table of
  results is a set of rows, each with its place in the order of the query (`at`); a
  page is the first so many of the rows that match, less those that are hidden. An
  instance, a proxy or an ACL may ignore the condition on a reference, in one table
  or in both (`leaky`).
* `RestClient` identifies a token with the request that fetched it; `dead` are
  the tokens the instance no longer takes. An answer "lost" is a timeout or a
  gateway error: the write behind it may have been applied, and so may one that
  is answered with another error ("refused"). After a 2xx the entry in the write
  journal and the reading of the body are steps of their own: the append may fail
  (`warned`), before or after its line, and the body may be lost, which ends the call
  with the outcome "unread". Both are free to happen to every call. That a 429 or a
  401 leaves nothing applied is assumed of the instance, as the code does.
* `Provisioner` considers the findings in any order (the code follows the
  catalogue), so that more plans arise than the code makes. An edited plan comes
  with its old hash or a new one: a hash is no secret. It may also name another
  row of the recipe's table, which `apply` has no means to notice.
* `StateSync` has one process that syncs. `serialize` sorts the committed tests; the
  model takes any order by name that a sort may leave. Coverage hints, which break ties
  between committed tests of one name, are left out: the first one is taken.

* `Benchmark` has one repetition and one text per catalog that is broken: code
  compares a live text with the whole catalog, so mutants are not told apart. The
  first target stands for the catalog's mutants, a baseline for its baselines and
  their detonators. A request fails before or after it took effect, or is answered
  and had none (`Mispatched`), which only a verified restore notices. The smoke
  test, the two precondition checks and the lookup of orphaned lease rows are one
  step each. An abort, a fault of the pipeline and an inconclusive result all end
  the turns as the last turn does (`EndTurns`).

The map names the lines of every definition. Definitions headed "Faulty variant"
are not part of any specification: each is a plausible mistake, and the
properties are required to notice it when it takes the place of the definition
after it.

## 3. What is checked

Bounds that every lifecycle run shares: one spec (five rows, so every kind of
row and every order of creation and deletion occurs), and at most one failed
request or ledger call and one crash. Two failures are not needed to reach a
failure path from any await and to leave it half-way by a crash. Two runner
groups where the number of triggers matters (an owner may die between the
first and the second), one where it does not. Cleaners and owners appear in
pairs where they race. `Retry` gives two owners one run id, `TwoRuns` two.

| run | instance | what it shows |
|---|---|---|
| `life_single` | 1 owner, 2 cleaners, 2 groups, a foreign suite, faults and a crash | the safety properties of a run, and `FulfilsContract` |
| `life_retry` | 2 owners of one run id, 1 cleaner, a crash | `TriggeredOnce`, `NeverDeleteUnderLiveRun` |
| `life_two` | 2 runs on one scope and runner whose scans overlap | `LockCoversProjection` |
| `life_remote` | 1 owner, a local and a remote cleaner, POSTs that land late, 2 groups | the unrecorded bound suffices for the gate, rows that land late have their entry |
| `life_live` | 1 owner, 1 cleaner, a failing request, a crash, no failing ledger | `RunEnds`, `CleanupConverges` under fairness |
| `ledger_log` | 2 keys, 3 mishaps | the log's invariants, and `KeepsBook` |
| `collab_lock` | authors on 2 hosts and a process that only reclaims, 2 deaths, claims of 3 generations | one evictor, live locks stay, dead ones go |
| `file_locks` | 4 build wrappers, one of them nested; 3 processes on a host log, 1 death; 2 benchmark runs and a restore, 2 lost requests, 2 kills | each lock holds but in the window its code leaves open; the benchmark always leaves a way back |
| `clients` | 3 calls on 1 slot with 4 token requests; 2 suites; 3 result rows in trees of depth 3, and 5 rows that fill every page; 3 hosts; 2 preconditions; 3 outcomes; 3 tests over 2 syncs | the properties of the clients below |
| `manifest_ids` | 3 tests of one scope, 2 changes, 2 syncs | a counterexample, see below |

The properties:

* `NeverDeleteUnderLiveRun`: no row of a run goes away while an execution of it
  is on its way, queued or running, whoever deletes.
* `NeverTriggeredIsProof`: no `runningAt` means no execution, in any state.
* `WriteAhead`: everything on the instance or in flight has its entry.
* `CompensatedMeansGone`, `DoneIsSettled`: what the ledger calls settled is.
* `SuiteOutlivesTests`, `FlushBeforeDelete`, `NoDeleteInSharedNamespace`.
* `LockCoversProjection`, `TriggeredOnce`: runs that share an instance, and
  owners that share a run, are kept apart.
* `FulfilsContract`: `RunLifecycle` implements `RunContract` under the mapping
  that reads `phase` off the record, `residue` off the rows and `live` off the
  executions: a run grows only while driven, shrinks only afterwards and only
  while nothing executes, and what is called reclaimed stays empty.
* `RunEnds`, `CleanupConverges`: an opened run reaches a terminal state if nobody
  crashes and the ledger works, also when the table refuses an edge; a retried cleanup
  gets a run to `done` where evidence exists. A ledger call that fails may leave the
  record open: with `LedgerFaults = TRUE` TLC finds `RunEnds` violated as soon as the
  read of `assertFreshRun` fails.
* `LogReadable`, `KeysOpenOnce`, `DurableIsKept`: no crash makes the log
  unreadable, retries do not open a key twice or leave a gap in the numbers, a
  repair never takes what was durable.
* `KeepsBook`: entries move one way, and never fall behind what a caller was
  told. The mishaps come in environments (`AllKinds`): failing appends; failing
  fsyncs, failing saves and kills; failing saves and power loss. A failed fsync
  followed by a power loss is described below, appends that fail half-way
  followed by another call are the run `ledger_splice`. Three mishaps allow a
  crash during the recovery from a crash.

* `OneEvictor`, `LiveLockKept`, `DeadLockReclaimed`: of the evictors of one lock
  content one gets to the unlink; the lock of a live author within the age window
  goes by his own release only; a dead author's lock goes in the end, although
  evictors die with their claims.
* `OneHold`, `InheritsLiveHold`: two builds never both hold the build lock, and a
  nested build inherits only a hold in force at that moment. The script leaves one
  window open, between the second read of a break and its unlink; `misfired`
  records that it was hit, and the properties hold up to then.
* `SoundUntilMishap`: with the host logs' file lock it is the same: numbers, keys
  and states stay sound through deaths and torn tails until a break hits the lock
  of a live process (`mishaps`), which happens if two waiters break one stale lock
  or a holder stalls before it has filled its file.
* `WayBack`: whatever is killed or lost, an artifact with a broken text is named with
  its correct text in a journal on the disk. It rests on the order of capture,
  journal and PATCH, on the exclusive creation of the file, on the read behind each
  PATCH of a restore, on the pruned journal naming all that is left, and on a
  capture that refuses what is broken although the scan for journals was early.
* `OneRunner`: two runs with ids of their own never both hold the runner. The lease
  table cannot compare and swap. Where every read shows all rows inserted before it, as
  in the model, the second read is enough, also when inserts are lost or done
  unanswered, rows are deleted by run id and restores delete rows of the runs they
  restore; `substrate.ts` 874-878 claims less (see the disagreements below).
* `TokensSound`: no more token requests than revocations, expiries and changes of
  credentials call for; a 401 reaches a caller only after two different tokens
  were turned down; tokens of old credentials leave the cache.
* `WriteAppliedOnce`: no retry or re-authentication applies a write twice, and a write
  that failed with a rate limit or a refused sign-in was not applied. A call that
  returned was applied, and the write journal names it or the log warns that it could
  not be appended. A call that failed is named there just if its answer was a success
  whose body was lost: the entry is written before the body is read (`http.ts` 616-628),
  so a journalled, applied write may end as a failed call.
* `CallsEnd`, `RunReturns`: nobody waits for ever for a slot or somebody else's
  token; `run()` returns though executions may never end.
* `EverySpecAccounted`: one execution at a time; every spec of a call that resolves
  has an outcome, and those given up on are told apart from those that were read.
* `PassProven`: a pass rests on a row of this execution and is contradicted by no
  last row the session can read. Hidden rows may leave an older row as the last
  one. Two exceptions are part of the property: an instance that filters its count as
  it filters rows hides a suite altogether, which `results.ts` 851-874 concedes; and
  where the conditions on the results table are ignored and the suite is nested, a
  newer row of one suite result can stand in the way of the one that is sought (see
  the disagreements below).
* `WritesCleared`: whatever was ever answered about a runner, in whatever order
  classifications and writes come, decides whether a write needed an override.
* `ToldAsWritten`: what `apply` reports of its writes is what was sent, and success
  means that each precondition held at some time after the last write.
* `VerdictEarned`: a GO is stated outcome by outcome over everything reported,
  without the reducer's notions of raw outcome, flakiness and blocking.
* `ManifestFollows`: ids survive renames, suites list the ids of this file, and a
  snapshot with no test and no suite replaces coverage only with `--allow-empty`, and
  never where the count shows hidden rows. Of a sync that sees only a part of the tests
  it says nothing, as `sync.ts` does not.

*Bounds of `clients`.* One slot and three calls give two that wait, so that a
hand-over and a newcomer compete; four token requests are the first, one per
upset, and one more. One poll bound of two, two suites: the halt may fall before,
in and after each. Three rows give two rows of one suite result and one of
another. Three syncs or changes add nothing the property can tell apart from two
and one: it relates two commits. Five result rows of one test are more than any page
takes with one row per test and two suite results, so that the row that matters can be
past the last page. One test (`Hideable`) may be hidden from the session. The run
explores the parts side by side; a part can be run alone by the constant `Parts`. `manifest_ids` does that, with two changes
in one scope.

*Bounds of the benchmark in `file_locks`.* Two runs with one catalog of two scripts, of
which the second is smoke-tested; two rounds of a restore. Two lost requests make a
restore fail for good on one artifact, or a reset and a restore once each; two kills hit
a run and then its restore, or both runs. Each run has its own id and the two share
a catalog: a broken text of another catalog is not recognised by a capture, and the
code relies on the scan for journals alone there.

*Symmetry.* Cleaners (`life_single`) and the owners of one run id (`life_retry`)
differ in their names only, keys (`ledger_log`) too; no run with a liveness
property uses symmetry. *Deadlock* checking is off in every run: all processes
may have finished.

*Fairness* (`FairSpec`) is weak fairness of each live process's own steps, of
its sweep steps, and of each execution on the instance: an event loop runs a
continuation that is ready, every request is bounded by a timeout, and the
instance works its queue off. Nobody is bound to crash, abort, fail, or lose a
request, and cleaners retry because an operator does. `CollaborationLock` assumes
it of each live process, which retries its acquisition or reclaim, and of time
that passes for claims; `RestClient` of the
client's continuations, of the instance's answer to every request and to every
token request (a timeout is an answer), as one condition, since each behaviour
has finitely many steps to take; `AtfRunner` of the steps of `run()` but not of
the instance, whose executions may stay live for ever.

### Disagreements between the code and what it says

Three runs end in a counterexample (`expect: violation`); `PROJECT.json` quotes
the sentence of the code each one contradicts:

* `life_stale` / `StaleRunIsAbandoned`. Cleanup refuses a run whose record is
  open and tells the operator that the startup scan will mark it abandoned. No
  scan writes: a run whose owner died stays open, is refused by cleanup, and
  blocks every later run on its scope and runner.
* `ledger_splice` / `NeverSpliced`. The tail is repaired once per process. An
  append that fails half-way in a process that goes on is not repaired before
  the next one, which is spliced onto it; every reader then refuses the run.
* `manifest_ids` / `IdsDistinct`. Sync refuses two tests with one fresh id, "before
  they corrupt the merge". The merge itself hands ids out by `sys_id` and by name: a
  test that took the old name of a renamed one gets the id the renamed one
  keeps. The manifest then holds two tests under one id, and drift sees one.

The models show more, without a run of its own:

* Two owners of one run id that both pass `assertFreshRun`: one fails early, finds
  nothing unsettled and settles the record `done` while the other goes on to
  project (`DoneIsSettled` under the constants of `life_retry`).
* A POST applied after teardown's discovery survives, though every entry is
  settled (`CompensatedMeansGone` with `LateLanding = TRUE`, which `life_single` has
  not; `life_remote` has it, and checks that such a row has its entry and that
  nothing is deleted under a live run).
* The lease of the benchmark runner "carries a residual, accepted TOCTOU race"; the read
  after the insert "narrows it (not closes it)" (`substrate.ts` 874-878). In the model it
  does close it: of two runs that both inserted, the one whose second read comes later
  sees the row of the other and backs off, so both may fail but not both hold
  (`OneRunner`, proved for any number of runs). What is left of the race lies in what
  the model and the theorem assume: run ids differ (two runs with one id are
  described below), a read shows every row inserted before it, and no ACL hides rows
  from the query.
* The comment on `snRequest` says that "non-idempotent methods are retried only on
  connection errors, never on a received response" (`http.ts` 352-353). The code does
  the opposite: a write is sent again after a 429 and after the first 401, both
  received responses, and never after a connection error (`http.ts` 487-495, 526-565;
  the comments at 608-614 and at `http-util.ts` 110-114 say so). `WriteAppliedOnce`
  holds because of that; retried on connection errors, as its mutant does, it fails.
* After a failed fsync, or a kill between the append and its fsync, a retried
  `intend` answers from the line that no fsync covers: a power loss then takes what
  the caller was told. With `{"power", "sync"}` or `{"power", "kill"}` as an
  environment TLC finds `KeepsBook` violated; that is why `ledger_log` has neither.
* `store.ts` 719 releases the projection lock after a failed projection because
  "core will not call teardown"; core sets `projectionAttempted` before the first
  intent (`runPipeline.ts` 1440) and does, so that teardown runs without the lock.
* A remote sweep that reads the tests before a live owner projects them and the
  suites after can delete a suite under its tests (`SuiteOutlivesTests` is
  therefore not among the properties of `life_remote`).
* Two benchmark runs with one `--run-id` (`RunId` constant in `Benchmark`, no kill):
  the second scans for journals before the first has written one; the first cannot
  restore its mutant, keeps the journal and releases the lease; the second gets the
  lease, its first capture refuses the live mutant, and its final restore, with
  nothing captured and so nothing unrestored, calls `journal.clear()`, which unlinks
  the file whoever created it (`substrate.ts` 1039, `journal.ts` 277). The mutant is
  live and its correct source is lost (`WayBack`), although `journal.ts` 267 has "an
  existing journal ... is never overwritten, so its correct sources survive".
* The same without the common id: the next holder does inherit a dirty scope, which
  `harness.ts` 448 excludes, if the final restore failed and the holder's scan for
  journals came before the first capture. Its own capture then refuses.
* An author whose clock is ahead of the others by more than five minutes
  (`BrokenClocks` in `CollaborationLock`): its lock is stale to them as soon as it is
  there, so the sweep after its create, which `collaborationLock.ts` 494 calls safe
  because nothing "can yet have judged stale" the new lock, removes the claim of a
  live evictor; a second one wins it again, and the slower of the two unlinks the
  lock a third author has created meanwhile (`OneEvictor`, then `LiveLockKept`).
* `results.ts` 636-638 says of rows of other suite results, returned by "a transport,
  proxy or ACL-rewritten query that returns more than was asked for", that "a
  discarded row leaves the spec `missing` ..., never pass". It may be a pass: a root
  and one child, a test with five rows of which the last is the root's failure, and
  conditions on the results table ignored. The page and the page of the test are full
  of other rows; the read with `limit: 1` (`results.ts` 783) that is to fetch the newest
  row of the root returns another suite's row, which `keepNewest` discards; the root has
  no row then, the child's passes, and "pass" is reported. With the second exception
  of `PassProven` dropped, TLC finds this among the worlds of `clients`.
* `InheritsLiveHold` without the start time of a parent (`StartKnown` = `{b2, b4}`): the
  holder dies, its pid is given to a stranger, and the nested build takes the
  stranger for it. `ParentsKnown` in section 4 excludes that and nothing else.
* Two benchmark runs that are given one run id both hold the runner (`OneRunner`, 16
  states): each takes the other's lease row for its own. The id is what the operator
  gives as `--run-id` (`benchmarkRun.ts` 461); nothing compares it with those of other runs.
* Two runs from two roots whose catalogs break an artifact differently: the second
  does not recognise the first one's text as broken and records it as the correct one
  (`WayBack`).
* A page of tests that came short because rows of it are hidden is taken for the
  last one (`client.ts` 1836): visible tests of later pages are missing from the
  manifest, though `sync.ts` 190 has a scope "pulled in full".

## 4. What is proved

For every value of the constants and any bounds. What is assumed of constants is
named where they are declared, and evaluated by TLC in every run:

* `AtfStore`, `RunLifecycle`: at least one spec, owners and cleaners are different
  actors, `RunOf` is a function to runs, the switches are Boolean.
* `FileLocks`: the constants are of their types, "nobody" and "free" are not somebody.
* `Clients`: writers are calls and one token request is allowed (`RestAssumption`); no
  test is in two suites, on which `planGroups` throws (`AtfAssumption`,
  `atfRunner.ts` 126-183); tables are finite, and a row has one of the four statuses
  of `mapResultStatus` (`ResultsAssumption`); there are finitely many tests
  (`SyncAssumption`); a coverage consists of natural numbers (`GateAssumption`).

A theorem that needs more than that has a named hypothesis in its statement, and the
text below says what becomes of the property without it.

* `TypeCorrect` (`RunLifecycleProofs`, as the next two): `Spec => []TypeOK`. One lemma per kind of
  step; the other proofs use it for the domains of every function.
* `NeverTriggeredHolds`: `Spec => []NeverTriggeredIsProof`.
  Not inductive alone: that an owner may trigger only in the loop, with the stamp
  on disk, is a fact about program counters. `StampInv` adds `StampedInLoop`. The
  lemmas `OwnerKeepsStamp`, `CleanerKeepsStamp` show that nobody takes the stamp
  back, `LoopIsStamped` that the loop is entered through a landed transition to
  `running`, `OwnerTriggers` that only an owner that stands in the loop creates
  an execution.
* `WriteAheadHolds`: `Spec => []WriteAhead`. `JournalInv`
  adds that the intend loop has journalled the specs it has passed, that the
  store is reached only past the last of them, and that the trigger about to be
  sent is journalled; it is inductive relative to `StampInv`. `EntriesKept`
  (nobody takes an entry out of the ledger) carries it through the steps of
  everybody else.

The next four (`RunTeardownProofs`) hold for any number of owners of a run id, of
runs and of cleaners, with and without a record, and with POSTs that land late:

* `TriggeredOnceHolds`: `Spec => []TriggeredOnce`. Several owners of one run id may
  pass `assertFreshRun`; what keeps them apart is the ledger. `OnceInv` says that
  who triggers has entered `running` itself (`LoopIsEntered`), and that one owner
  gets past the confirmation of the first spec (`OneConfirms`), because a create
  is confirmed once and never intended again.
* `NeverDeleteHolds`: `Spec => NeverDeleteUnderLiveRun`, the DEV-17 gate. The gate
  compares executions that have ended with a count read earlier, so the invariant
  relates what a sweep holds to what there is. `LoopInv`: while an owner triggers,
  the record stays `running`, and groups not yet reached have no execution.
  `CountInv`: a count is read when the driving is over (`Over`) and is then the
  number of recorded triggers for good; a cleaner without a record holds the bound
  instead. `GateInv`: who got past the gate has found nothing, or a run all of
  whose groups have ended (`Quiet`), and `Quiet` is stable. By `WriteAhead` and
  `OnceInv` the results of a run come from one owner (`ResultsOfOne`), so as many of
  them as recorded triggers are all of them (`GateIsProof`).
* `SharedNamespaceHolds`: `Spec => NoDeleteInSharedNamespace`, since a sweep past
  its discovery has seen no foreign row and the foreign rows of a run do not
  change (`NamespaceIsOurs`).
* `LockCoversHolds`: `Spec => []LockCoversProjection`, and with it the mutual
  exclusion of the projection lock. `SweepIsOwned` is what the invariant needs
  besides: a teardown runs while its owner waits for it, so the release at its end
  is the owner's.

The last five (`RunSettlementProofs`) are about runs that keep apart, and say so.
`OneOwnerEach` is that a run id is started once; `RunsApart` adds that every cleaner
has the ledger of the run it sweeps and that no POST lands after its client gave
up. These are conditions on constants that `life_single` satisfies, with its
faults, crashes, aborts and two racing cleaners. They cannot be dropped: with
any single one dropped TLC finds `SuiteOutlivesTests`, `CompensatedMeansGone`,
`DoneIsSettled` and `FulfilsContract` violated, and `FlushBeforeDelete` violated
when a run id is started twice (the end of section 3 tells how).

* `FlushBeforeDeleteHolds`: `OneOwnerEach => (Spec => []FlushBeforeDelete)`.
  `RecordInv` ties the record to where its owner stands, and cleaners with a
  record to owners that have left; `ClosedFirst` follows the reporters.
* `SuiteOutlivesHolds`, `CompensatedHolds`, `DoneHolds`:
  `RunsApart => (Spec => [] ...)`. `ApartInv` adds to `RecordInv` that cleaners
  know the record and wait for their own sweeps. `RowsInv` says which rows there
  are: they come from a projection on record, tests hang off the suite, links and
  steps off tests, inputs off steps, and a sweep has found every row of the kinds
  it has looked for, so that its deletions end with nothing left. `SettledInv`
  then says that from a successful sweep on nothing of the run is left, that who
  drives the record to `done` has read back that nothing is due, and that nobody
  creates again once something is compensated.
* `FulfilsHolds`: `RunsApart => (Spec => FulfilsContract)`, the refinement.
  `OneChange` shows that a step changes the records, the rows or the executions
  but never two of them; `RecordKeepsContract`, `RowsKeepContract` and
  `ExecKeepsContract` show that each such change is a step of `RunContract` under
  the mapping or leaves its variables alone, given the invariants before and after
  it.

The ledger, the locks and the clients:

* `DurableHolds` (`LedgerProofs`, as the next four): `Spec => DurableIsKept` for any
  keys, environments and number of mishaps, the failing appends of `ledger_splice`
  included. The invariant `LogShape` only says that the synced lines are a
  prefix of the lines; `CommittedKeepsRecords` is the fact about
  `committedLength` the code's comment claims: it cuts no record. Nothing is
  assumed of the calls, so the theorem does not depend on how entries are
  numbered.
* `LedgerTypeCorrect`, `KeysOpenOnceHolds`: `Spec => []LedgerTypeOK` and
  `Spec => []KeysOpenOnce`, with the failing appends too. That a number given out is
  a number, and the next one, needs that the log has a highest one, so types and
  numbering are proved together. `SoundInv` says that every beginning of the log is
  numbered from 1 in the order of its openings (`Numbered`; of beginnings, because a
  power loss leaves one) and opens no key twice, and that the line the call in
  progress is about to append still fits the records there are (`Fits`): it was
  chosen before the repair, and the repair must not change what it was chosen by.
  That a bounded set of numbers has a greatest one (`Greatest`) is proved from the
  well-foundedness of inclusion among finite sets.
* `LogReadableHolds`: `Spec => []LogReadable`, the exception being the appends that
  fail half-way in a process that goes on (`ledger_splice` shows what they do). By
  `OneTail` what does not parse is one piece at the end, and is gone before a
  process appends; by `Fits` the appended line replays.
* `KeepsBookHolds`: `PowerAlone => (Spec => KeepsBook)`, the log file implements
  `LedgerBook`. `CutKeepsPromise` relates what callers were told, the log cut at any
  point a power loss may leave, and the log now: for every write the three are in
  the order in which an entry advances, and the last two are equal unless a call
  waits for its fsync. `PowerAlone` is needed, as the end of section 3 tells: it
  excludes the machines that lose power after a kill or a failed fsync, and nothing
  else.

* `OneEvictorHolds`, `LiveLockKeptHolds` (`CollaborationLockProofs`):
  `Punctual => (Spec => []OneEvictor)` and `Punctual => (Spec => LiveLockKept)`, for
  any authors, hosts, generations, attempts and deaths. `EvictionInv` ties every
  claim to its evictor. An evictor past the re-read of the content that is there has
  its claim, and the claims of the generations it stepped over are those of dead
  processes (`Claimed`); two evictors of one content would then meet in one claim
  (`OneUnlinks`). A claim stays because contents are fresh (`Fresh`): who removes a
  claim names a content that is gone for good, and who sweeps holds a lock that
  nobody has judged stale (`Sweeps`). `Entitled` gives `LiveLockKept`: an evictor has
  judged the content stale, for good, or is releasing its own. `Punctual` excludes
  holders that stall for longer than a claim may live, which `collaborationLock.ts`
  403 names as its residual, and authors whose clock is more than five minutes
  ahead; with either, TLC finds `OneEvictor` violated (the end of section 3).
* `OneHoldHolds` (`FileLocksProofs`, as the next two): `Spec => []OneHold`, for any
  builds, nested in any way, kills and recycled pids. `BuildInv` says of every build
  that what it has judged is a lock whose holder is gone, for good, since a token names
  a hold that was taken (`token[token[w]] = token[w]`), and that until a break hits
  its window whoever holds is the one in the file.
* `InheritsLiveHoldHolds`: `ParentsKnown => (Spec => InheritsLiveHold)` from the same
  invariant. `ParentsKnown`: a build that starts others has recorded when it was
  started itself. Without it a stranger with the pid of a dead holder passes for it.
* `SoundUntilMishapHolds`: `Spec => []SoundUntilMishap`, for any processes, calls, keys
  and deaths. In `HostInv` a process inside has its name in the lock file (`Careful`),
  and what it is about to append follows the log as it is now, which it has read
  under the lock; that an appended line keeps the numbers and states of all
  lines is proved of the operators (`EventsAppend`, `InfraAppend`).
* `OneRunnerHolds` (`BenchmarkProofs`, as the next one): `DistinctIds => (Spec =>
  []OneRunner)`, of a table whose reads show what was inserted before them (see the
  disagreements of section 3). Mutual exclusion by two reads: who holds, or is about to
  look again, has its row in the table (`HoldersHaveRows`), so of two holders the second to look
  saw the row of the first. Rows of others are deleted by restores only, and they
  have the journal of a run that is gone (`RestoresOfGone`).
* `WayBackHolds`: `DistinctIds /\ OneMutant => (Spec => []WayBack)`, for any artifacts,
  runs, restores, kills and lost requests. `JournalInv`: every text captured,
  recorded or put back is a correct one (`TextsGood`), what an active run has
  captured is in its journal (`Recorded`), and for every broken artifact there is a
  journal such that whoever could still clear it has the artifact among what it has
  yet to put back (`Guarded`). The last is the property itself made stable: a journal
  that names the artifact is not enough if somebody holds a list without it.
* `TokensSoundHolds`, `WriteAppliedOnceHolds` (`ClientsProofs`, as all that follow):
  `Spec => []TokensSound`, `Spec => []WriteAppliedOnce`, for any calls, limit on
  concurrent requests, retries and upsets. `RestInv`: the cache and the one flight
  that counts are never both in use (`CacheOK`); the token requests are one more than
  the upsets, and no more than these when nothing usable is there (`Thrifty`); a call
  waits for a token nobody has turned down for it (`CallOK`), a write that
  may be sent again was not applied, and one whose body is awaited has been applied
  and is in the journal or was warned about (`WriteOK`). `Onward` is the condition under which a
  call's invariant survives the steps of all others.
* `EverySpecAccountedHolds`: `Spec => []EverySpecAccounted`, for any suites and any
  tables they leave. `Accounted` splits the suites at the one `run()` stands at:
  results before it, none behind it, and behind it "waiting-timeout" at the end.
* `PassProvenHolds`: `Spec => []PassProven`, for any finite tables, limits on pages and
  depth, rows hidden, counts wrong and conditions ignored. The state says only which
  tables there are; the work is in `results.ts`. `FirstIsUpward`: with a row, a page
  holds the readable rows before it; `WholeIsAll`: a page not known to be partial is
  all there is, unless the count is filtered. `TreeIsRead`: a tree read without a fault
  is the least set closed under "child of", where the recursion over levels is
  unfolded by hand, since induction over an operator is out of reach.
  `LastRowIsRead` goes through the three reads for the last row of a suite result;
  `PassIsWorst` is the join.
* `WritesClearedHolds`: `Spec => []WritesCleared`, for any
  hosts, configuration and number of concurrent callers. `GuardInv` adds to the
  types that a key is probed once, with no answer before the probe or after the
  class (`Pinned`), that a class says of its host what configuration and probe
  said (`Judged`), and that a write went through on a class that stands
  (`Cleared`). Without `Pinned` a downgrade could arrive after a write.
* `VerdictEarnedHolds`: `Spec => []VerdictEarned`. The state is
  small; the work is in what the reducer's folds mean: `RawIsUnanimous` (a raw
  outcome that is neither missing nor flaky is what every outcome says),
  `FailIsUnanimous` and `PassIsUnanimous` for a spec, `GoIsEarned` and
  `NoGoIsEarned` for the run, `FloorIsKept` for the coverage.
* `ToldAsWrittenHolds`: `Spec => []ToldAsWritten`, for any
  catalogue, edit of the plan and drift. `Progressed` says that what is on the
  wire is the beginning of a plan that was trusted, as long as `applied` says or,
  after a failure, one longer; `Witnessed` that a precondition the second
  diagnosis found ready has held since the last write.
* `ManifestFollowsHolds`: `Spec => ManifestFollows`, for any tests, names, slugs, page
  size, syncs and changes. `SyncInv` holds the types and that the suite links tests
  that were pulled. What the property says of a merge follows from `MergeCommits` (what
  is committed is a permutation of what was merged), `FinalIdIsId` and
  `ReadOnceIsUnique` (a test pulled once has one place, so its id is its own).

Only model-checked: the liveness properties (`RunEnds`, `CleanupConverges`,
`DeadLockReclaimed`, `CallsEnd`, `RunReturns`), which are out of the prover's reach.
Every safety property of the passing runs is proved. The type invariants other than
`TypeOK` and `LedgerTypeOK` are conjuncts of the inductive invariants above and are not
listed as theorems.

## 5. What is not modelled

* Within the modelled parts: `sys_id`s and the checks that compare them; the
  audit log and `touch`; runs with no spec; several scopes or runners; the channel
  check and paging of the store's reads; a second
  ledger process on one run (the code assumes one, `ledger.ts` 417-424); the
  directory fsync and the synchronous twins of the durability functions.
* Within the clients: result rows created in one second, whose order the code leaves
  open (rows of a table have different places here); backoff times and `Retry-After`, TLS and the decoding of
  bodies; the parsing of host names (a host is what it is declared as); the digest
  and the signature of a token; the roll-up of readiness; last runs, versions and
  coverage hints of the manifest, and two syncs at once; in the build lock, the
  fallback for file systems without hard links.
* Within the benchmark: several repetitions, the pinned generation, the platform
  stamp, author-pinned hashes, rows that an ACL hides from the lease query, journals
  of another host or that cannot be read, `--ignore-live-pid`, and requests that
  land after their client gave up. The tests it projects are the store's.
* The composition of the clients with the lifecycle: `RunLifecycle` keeps the
  outcomes that `RestClient` and `AtfRunner` can have, as choices of their steps;
  that these are all of them is argued here, not checked.
* The other components of section 1, listed with the reason in `PROJECT.json`:
  pure I/O and formatting, test doubles, or not reached yet (section 6).

## 6. Plan

Done: the run state machine, the store, the lifecycle and their contract; the
ledger file and its promise; the three kinds of lock; the REST client, the runner
and its results, the guard, the verdict, the provisioner and the state sync; the
benchmark's substrate and journal; the theorems of section 4.

Proofs: what is left is to weaken hypotheses. `RunsApart` asks of all runs together what
each conclusion needs of the run it is about; `OneMutant` could give way to broken
texts that are told apart if `Guarded` named the catalog that recognises them.

Models: `tess confirm` and `cleanup --legacy`; two ledger processes on one run;
`AtfRunner` as an implementation of the runner in `RunLifecycle`; and, of the parts not
modelled yet, the resolvers' caches and the outcome gate of the benchmark.
