# GodBrain in TLA+

GodBrain keeps what it learns in a canonical MongoDB store ("Alexandria"), projects it for
retrieval, checks again and again that it is still true, looks for new sources, and lets a
local model use tools and edit files under supervision; a paper trading node runs beside it.
This directory holds TLA+ specifications of those parts, the TLC
configurations that check them and proofs for the TLA+ proof system (TLAPS).  Every
definition is translated from the source; the docs of the repository are used only to say
what the code is supposed to do.

`PROJECT.json` maps each definition to the lines it models and lists the runs, the known
hazards, the disagreements between code and docs, and the theorems.

To check: `tlc -config MCIngestion.cfg MCIngestion` (the other runs alike: section 4) and
`tlapm M.tla` for `IngestionProofs`, `ProjectionProofs`, `EvidenceProofs`, `JarvisJobProofs`,
`TaskChainProofs`, `PaperProofs`, `ResearchProofs` and `SkillsProofs`.

## 1. The system

Paths are relative to `src/`; `store/` stands for `godbrain_core/cpp_memory_store/src/` and
`kernel/` for `godbrain_core/cpp_kernel/`.

| component | state | operations | modelled in |
|---|---|---|---|
| ingestion, `store/store.cpp` | `ingestion_runs`, `source_observations`, `sources`, `chunks`, `knowledge_nodes`, `run_node_links` | `store_ingest`, `transition_run`, `fail_created_run` | `Ingestion`, abstractly `Ledger` |
| projection, `store/projector.cpp` | `rag_metadata` (active, building, retired generations), `rag_documents`, `rag_provenance` | `project_committed_run`, `rebuild_rag_projection`, `cleanup_retired_generations`, `abort_rebuild` | `Projection` |
| judgments, `store/store.cpp` | `knowledge_nodes.status`, `node_judgments` | `store_set_status`, `store_stale_pins`, `sync_projected_node_status` | `Projection` |
| evidence, `store/evidence.cpp` | `evidence_checks`, `evidence_check_runs`, `evidence_maintenance` | `next`, `complete`, `evidence_search_pipeline`, `evidence_current`; the worker in `kernel/evidence_maintenance.h` and `maintain_evidence` | `Evidence` |
| offline edit job, `kernel/jarvis_job.cpp` | one file, `jarvis-job.json` | `run`, `resume`, `cancel` | `JarvisJob` |
| skills, `store/store.cpp` | `skills`, `skill_verification_runs` | `store_record_skill_run`, `store_promote_skill`, `store_query_skills` | `Skills` |
| search, `store/rag_engine.cpp`, `store/rag_snapshot.cpp` | none of its own | `handle_search`, the health reads around it | `Search`, over `Projection` |
| chat flights and the task ledger, `kernel/main.cpp` | the GPU slot, `last-chain.json` | `run_colibri_serve`, `save_chain`, `handle_cancel_chain`, continue | `TaskChain` |
| research, `kernel/research_curation.h`, `kernel/truth_assertion.h`, `kernel/memory.cpp` | `research-frontier.json`, documents in the store | `tick`, `discover`, `publish_selection`, `publish_assertion` | `Research` |
| paper trading, `godbrain_core/polymarket_paper/` | `snapshot.json` and its copy in memory | `initialize`, `scan_once`, `simulate`, `settle_due`, the calls of the repository | `Paper` |
| shelf, `store/shelf.cpp` | `discussion_messages`, `research_notes` | one insert, read back | section 8 |
| local edits, `kernel/local_edit.cpp`, `kernel/surgery.cpp` | the work tree, receipts | plan, apply, check, roll back | section 8 |
| skill lab, `godbrain_core/skill_lab/` | exercises and their receipts | schedule, run in a browser | section 8 |
| protocol, transport, desk tools, host scripts, ingestors, routers, Polygon tools, user interfaces, the Go store, vendored code | | parsing, formatting, I/O; earlier or separate programs | not modelled; section 8 |

**How they interact.** Every store command is a process of its own: the kernel, the
librarian, the healing script and the command line each start `memory-store` once per
command, so commands of all kinds interleave between their round trips to MongoDB.  There are
no transactions; what holds the store together is conditional updates (`findAndModify`,
compare-and-set on a status or a lease), unique indexes, and writes by `$setOnInsert` which a
retry repeats safely.  `store_ingest` commits a run and then projects it; `rag-rebuild`
projects all committed runs into a new generation and switches to it; a judgment changes a
node and then its projected document; evidence is asked for by the kernel, which does the
work and reports; searches join documents with the evidence of their nodes; a skill may be
promoted, and is listed, only while its node, its evidence and its runs allow it.  The kernel
is one process with a thread for each request: one flight of the chat at a time holds the GPU,
runs tools and writes the task ledger, and other threads may cancel it.  The research loop asks
for one tick after another, and publishes what it decides by `store_ingest` and a judgment.
Paper trading is a process of its own, with a file of its own.

**What is hard here.**  Two commands in an order nobody tested; a command that dies between
two round trips; a lease that ends while its holder is still at work; a value read at the
start of a command and used at its end (the clock of `next`, the metadata of a cleanup, the
status in a projection); a report that is sent twice; a failure while handling a failure; a
file that is behind the memory whose write failed.
`PROJECT.json` lists these at their lines, with the properties that stand against each.

**What makes each component correct.**

- Ingestion: at most one run per identity is open or committed; a committed run is whole,
  final and unchanged; a retry names a failed run of its own identity.
- Projection: what was acknowledged can be retrieved for ever; rebuilds exclude each other; a
  cleanup takes nothing that is live; what an ingestion left unprojected is repaired.
- Judgments: racing judges follow the rules of the status, and the judgments on file account
  for every change but one of a judge that failed.
- Search: an answer shows the whole committed corpus, though every count and query behind it was
  made at another time.
- Evidence: leases are exclusive and results recorded once, in order; a node shown as current
  has its proof; a check that fails for good is escalated; every verified node is checked.
- Edit job: the patch is written once, can be undone, receipts say what is on disk, and a
  closed job stays closed.
- Chat flights: a cancelled task stays cancelled and runs at most one more tool; the ledger names
  a task before its tools run and does not overstate its history; the slot is given back.
- Research: a decision on file is published, a conflict before what it concerns; failures are
  retried after their delay, whatever died; every page is tried.
- Paper trading: no cycle twice; exposure and loss under their ceilings; what a cycle cost is
  accounted for; an interrupted cycle stops trading for good; positions settle.
- Skills: what a lookup lists is backed by the store, and a skill on file was proven by runs of
  its own origin.

## 2. Modules and plan

```
Ledger      <--implements--  Ingestion   <--  MCIngestion, IngestionProofs
Projection  <--  Search  <--  MCSearch, ProjectionProofs
Projection  <--  MCProjection        (a commit of Ingestion is its action Ingest)
Evidence    <--  MCEvidence, EvidenceProofs      (Judge and Commit stand for the parts above)
Skills      <--  MCSkills, SkillsProofs          (Judge and ChangeEvidence likewise)
JarvisJob   <--  MCJarvisJob, JarvisJobProofs
TaskChain   <--  MCTaskChain, TaskChainProofs
Research    <--  MCResearch, ResearchProofs
Paper       <--  MCPaper, PaperProofs
```

`Search` composes with `Projection`: it extends the module and adds the searches, whose steps
leave the variables of `Projection` alone.  The other components meet in the store; each of
their modules has the others' writes as actions of the world.

Done: the models and runs above, and a theorem for every safety and action property that a
passing run checks (section 7).  What is left:

1. An abstract corpus (a set of acknowledged runs that only grows) which `Projection`
   implements, in the way `Ingestion` implements `Ledger`; `AckedVisible` and `LiveRowsKept`
   are its safety part.
2. The turns that the kernel retains and its session cache; the journal of local edits; the
   schedule of the skill lab; the shelf.

## 3. What the modules say

### Ledger

For each identity (source hash and extractor) one set of nodes is published in one step and
never changed.  This is what everything that reads canonical data relies on.

### Ingestion

A process in `store_ingest` is a record `call[w]`: `pc` is the next round trip, `now` the
clock it read once at the start, the rest what it read.

| action | code |
|---|---|
| `Begin`, `ExpireLeases`, `FindRetryOf` | the clock; the `update_many` that fails runs silent for five minutes (of any extractor of the source); the newest failed run |
| `InsertRun`, `FindCommittedRun`, `ConcurrentIngestion` | the upsert under the partial unique index on `active`, and the `find` after a duplicate key |
| `Observe`, `StageSource`, `StageChunk`, `StampRun`, `UpsertNode`, `LinkNode` | staging, all `$setOnInsert`, the stamp fenced by status and lease |
| `ChunkConflict`, `LeaseLost`, `StagingError` | the error paths that end in `fail_created_run` |
| `Validate`, `Commit` | `transition_run`, compare-and-set on status and lease |
| `Abandon` | the process dies, or an error on a path that leaves its run as it is |

`payload` is kept with a run though no field of the collection holds it: it is what the creator
set out to ingest, and lets `CommittedWhole` say that nothing is missing or comes from a
competing attempt.  `Cut` gives the chunks of a layout, none for an extraction that brings none,
which goes from `StageSource` to the stamp.  `ReadFaults` switches on a detail of `upsert_node`:
a node whose read-back finds nothing gets no link, without an error.  A run that commits this way
is not whole.  `CommittedWhole` is therefore stated and checked without read faults; everything
else about ingestion is proved for both values of the switch.  The contents of chunks, node
versions and evidence spans are data: a layout stands for "cut this way".

### Projection

`proc[p]` is an ingester or a rebuild between two round trips, `judge[j]` a judge.

| action | code |
|---|---|
| `Ingest`, `Load`, `LoadMetadata` | the commit (or the no-op path), `load_committed_run`, the generations to write |
| `WriteDocument`, `WriteProvenance`, `NextGeneration`, `Acknowledge`, `RunRebuilt`, `VerificationFailed` | `project_loaded_into` and `verify_projection`; the receipt |
| `StartCleanup` ... `Cleaned` | `cleanup_retired_generations`, from metadata read once |
| `ReadPrevious`, `Acquire`, `AlreadyInProgress`, `ListCommitted`, `NextRun` | the lease `building_generation`; the loop over committed runs |
| `CountNodes` ... `TryAgain`, `GiveUp`, `Complete` | `corpus_counts`, four queries; three attempts (`Attempts`) |
| `Activate`, `ChangedDuringRebuild`, `Abort` | the switch and `abort_rebuild` |
| `SetStatus`, `StalePin`, `ReadStatus`, `ChangeStatus`, `RecordJudgment`, `ReadGenerations`, `SyncDocuments` | a judgment, its compare-and-set, its record, the sync of documents |
| `Fault`, `JudgeFault` | a round trip fails, or the process dies or loses an answer (`Crashes`) |
| `Age` | thirty seconds since a generation was retired |

Generation ids are uuids; the model has a few and uses one again only when nothing in the
store or in any process mentions it (`Fresh`), which no process can tell from a new one.
A `findAndModify` whose answer is lost after it took effect leaves the lease without its
builder: the states that a death after `Acquire` leads to, reached where `Crashes` is allowed.
When none is left a rebuild returns (`OutOfIds`), a bound of the model.  Embeddings are written
and counted beside the documents and are left out.

### Search

A search reads the health (`ReadHealth`, then the counts `CorpusNodes`, `CorpusLinks`,
`ProjectedNodes` and, in `Ready`, the rows), searches and cites (`Find`, `Cite`), reads the
health again and answers (`Accept`), tries again (`Retry`) or refuses.  `CountAgain` is the
second count of a reading whose numbers disagree.  The times of the newest rows are compared as
well in the code, and ranking and filters leave hits out: the model answers more often, with
more.  `SearchSpec` uses no generation id again that a search remembers, as ids are uuids.

### Evidence

A worker is the client of `memory-store evidence`: it calls `next`, compares the source with
the world, and calls `complete`.  `StartNext` sweeps the checks whose last worker was lost and
reads a batch of verified nodes; `FindRun`, `Bind` and `Reconcile` enroll or rebind the check
of each; `Scanned` moves the cursor; `Claim`, `NoneReproducible`, `ClaimAny`, `NothingDue`
grant the lease; `Describe` stores the profile.  `Report` or `AlreadyRecorded`, `Log`,
`Rearm`, `Record` or `LostLease` are `complete`.  A worker keeps its token after a report, so
that reports come twice, late and with another outcome; `Fail` ends a command anywhere.
`Judge`, `Commit` and `Tick` are the world.  The constants keep the order of the real ones
(lease shorter than the back-off of the last attempt, host windows shorter than those of
documents) in units of the model's clock.

### JarvisJob

A text is a number that counts the patches in it, or no file, or an unrelated text; the patch of
`t` is `t + 1`.  `request`, which never changes, says which texts contain `old_text` and where
the calls stop.  `job` is the running call, lost in a `Crash`; `saved` is `jarvis-job.json`.
`write_all` and `save_state` replace a file at once or fail, the read-back after a write may fail
alone.  The verifier is a script and may leave the file in any state; a patch that passed it and
cannot be read afterwards is restored.  One call runs at a time and the owner edits the file
between calls, which is an assumption about its callers: the job is an offline library without a
lock of its own, called so far by its tests only (`kernel/jarvis_job.h`).

### TaskChain

`flight` is the run of `run_colibri_serve` that holds the slot, `doc` is `last-chain.json`,
`waiting` a question whose handler comes to the slot next.  `Begin` takes the slot or `Busy`
refuses; `Ask` and `Continue` come before it.  A flight goes from `Round` (the model answers)
over `Check` (is the task cancelled?), `Before` (the save before a hop) to `Call` and `Exec` for
each native call, or `Batch` for a hop of the other form, then `HopDone` and `After`, and ends in
`Final` or `Error`.  A failed call and a result that does not fit into the context (`retained`)
both count against `hops_ok`.  In the tool mode "legacy" what the tools read may stand in for an
answer that is empty, also after the last round.  `CancelChain` changes the ledger only.  `Throw`
ends the flight by an exception, `Crash` ends the kernel.  What was executed, what failed and
what was cancelled are auxiliary variables.

### Research

A tick works on `mem`, a copy of `research-frontier.json` (`disk`).  `Reserve` writes the
frontier before the tick does anything outside, with the failure already counted: a tick that
dies leaves that behind.  `BeginSearch`, `Listed`, `Admit`, `Skip`, `EndSearch` and
`SearchFails` are `discover`, which takes its hits one by one; `Select`, `Nothing`,
`Unchanged`, `Decide` the check of the page that has been due the longest; `IngestRelation`,
`IngestObservation` and `JudgeVerified` the publication in three calls of the store.  `Fail`
is an error that the tick handles, `Abandon` its death or a write of the frontier that fails.
Pages change by `Edit`.  What the model decides is free.

### Paper

`mem` is the snapshot of the repository, `disk` the file.  What the engine is committed to
call is in `todo`: `Write` makes the next call in memory and in the file, `Throw` is an
exception at it, with either outcome in the file, after which the run loop goes on with the
memory it has; `Crash` loses the memory; `FailedStart` and `Die` end the process.  The phases
are `initialize` (`Start`), the head of a scan (`Scan`, `Opened`), the settlements (`Settle`),
the gate (`Gate`), an opportunity (`TakeOpportunity`, `Begin`), its fills (`FirstLegRejected`,
`FirstLegShort`, `SecondLegShort`, `BothLegs`) and its end.  The evaluation of the books and
the fee formula lead to fills that are chosen freely, within the checks that the code makes;
the split of costs (`ProrateUp`) is the code's.

### Skills

A promotion reads the node (`Promote`), its evidence (`PromoteEvidence`) and its runs (`FindRun`,
`CountFixtures`, both twice), and then writes (`Upsert`); a lookup reads the same again (`Lookup`
to `Answer`).  `seen` collects what held at some time since a lookup began: that is what "backed"
means for an answer put together from several reads.  Runs are kept in the order of `created_at`,
which is not the order in which they arrive.

## 4. Runs

All bounds are in the `.cfg` files; each run ends within five minutes on two cores.

| run | question | bounds |
|---|---|---|
| `ingestion_race` | Does ingestion keep the ledger, whole runs and one live run under races, crashes and expired leases? | two processes, one source with two extractors and two layouts, one node, one chunk, two run ids, a clock that can pass the lease once |
| `projection_race` (`MCProjectionRace`) | Do acknowledged runs stay retrievable, and do rebuilds exclude each other? | two rebuilds of two attempts each, one ingester, one run, three generation ids, one fault or crash |
| `search_and_judges` (`MCSearch`) | Are answers whole beside the writers?  Do racing judges keep the rules and the record? | three casts: a search beside two ingestions with two faults; a search beside rebuilds after an ingestion that may have stopped half-way, one fault; two judges (three judgments) beside an ingestion, one fault |
| `projection_repair` | Is a run that was left unprojected repaired? | one rebuild started for ever, with three attempts, one fault without a crash, four ids |
| `evidence_leases` (`MCEvidence`) | Are leases exclusive, results ordered, proofs real, exhausted checks escalated? | two workers, one node, a host and a document source, two leases, one change of the world, one failure |
| `evidence_discovery` (`MCEvidenceNodes`) | Does the cursor reach every verified node? | one worker, two nodes in batches of one, two changes, one failure |
| `offline_job` (`MCJarvisJob`) | Are receipts true, closed jobs final, patches written once and undoable? | a patch that removes its old text in calls of any kind, and one that leaves it in place, proposed in a call of its own; two edits by the owner, three crashes or failures |
| `task_chain` | Does a cancel hold, is the ledger honest, is the slot given back? | two questions, two flights, two rounds of up to two calls, two evidence rows, one fault |
| `research` | Is what the frontier says true of the store, and are tries spaced and not forgotten? | three pages, a queue of two, two texts, delays of one, one fault, one change of a page |
| `paper_trading` | Are cycles single, caps kept, costs conserved, interruptions latched, pairs settled? | two opportunities, two days, two shares in a pair, two bad writes or crashes, one change of the kill file |
| `skills` | What may a reader take for promoted while judgments and runs go on? | two origins of one name, two promotions, two fixtures, up to three runs, one change of a node |
| `projection_status` | where the code does not do what a doc says: section 6 | as small as shows it |

*Why these bounds are enough to be of use.*  The hazards are races of two: two calls on one
identity, a rebuild against an ingester and another rebuild, a late worker against its successor,
a search against whoever writes.  Two processes and one object to fight over give every
interleaving of their round trips.  In `ingestion_race` two run ids let a run expire and its
identity be ingested again while the first process goes on; two extractors make each call expire
the other's runs (the filter of `ExpireLeases` has no extractor), two layouts make the attempts
disagree.  Three generation ids let a rebuild switch and a second one build while the retired
generation is still there to be dropped.  `search_and_judges` puts the writers beside a search in
casts, because all of them at once are too many states; a cast fixes who acts, which runs there
are and how much may fail, and nothing else.  In `paper_trading` a pair needs two shares for a
fill to be partial, the caps admit one pair and refuse the second, and a second day lifts a loss
of the first.  In `task_chain` two flights are a task and its resumption, or a question and a
late save of another; in `research` a queue shorter than the pages forces evictions.  A page that
fails is not due again before the clock moves, so that the bounded clock lets it crowd out
nobody: `EveryPageTried` is about evictions, errors and deaths, and not about a page that fails
for ever beside others.  Both layouts of `ingestion_race` have the chunk they disagree about;
that an extraction may bring none is covered by the theorem `CommitsAreWhole` (a third layout
without chunks makes three million states and violates nothing).  Liveness runs have few faults,
after which whatever comes is again under the scheduler's control.  That each run can tell a
wrong program from the right one is shown by the mutants in `PROJECT.json`: for every property a
plausible bug (marked *Mutant* in the modules) which violates it under the same bounds.  And what
the bounds might hide in the safety and action properties the theorems of section 7 exclude: they
hold for all values of the constants.  Processes, ids, nodes, extractors, layouts, judges and
promoters are interchangeable where a run uses them as symmetry; the liveness runs use none.

Deadlock is checked except in the runs of `JarvisJob`, `TaskChain` and `Skills`: a closed job,
a task without further questions and promotions that are all made end the behaviour, once the
bounds are spent.

## 5. Fairness

Five properties are liveness properties.

- `Projection!FairSpec` (`RebuildRepairs`): rebuilds are started again and again, and retired
  generations age.  `Heal-GodBrain.ps1` (268-293, `Invoke-AllowlistedRagRebuild`) starts
  `rag-rebuild` whenever the projection is not ready, at most every thirty minutes; a rebuild
  that runs ends.  Nothing is assumed of ingesters: they may stop for ever.
- `Evidence!FairSpec` (`EveryNodeEnrolled`): `next` is asked for again and again
  (`Heal-GodBrain.ps1` 682-691, then `maintain_evidence` in `kernel/memory.cpp`), a command that
  does not fail ends, and a worker does not hold one job for ever: the kernel sends one report
  for each, so `GiveUp`, enabled between any two reports, gets strong fairness.
- `Paper!FairSpec` (`PairsSettle`): what the engine is committed to it does, a node that is down
  is started again, and a settlement delay passes (weak fairness of `Engine`, strong of
  `Ripen`).  Strong fairness of `Scan` says that the node is not stopped again and again before
  it scans: the loop of `main.cpp` scans on every turn until a signal stops it.
- `TaskChain!FairSpec` (`SlotFreed`): the handler's thread goes on until it replies (weak
  fairness of `Step`).  Nothing is assumed of questions, cancels or what the model answers.
- `Research!FairSpec` (`EveryPageTried`): a tick goes on, and ticks with the model are asked for
  again and again (`Heal-GodBrain.ps1` 694-699 posts `/api/research` in every pass, with the
  model unless the owner is away; that he comes back is assumed); strong fairness, since a tick
  can only begin when none runs.

## 6. Where code and docs differ

`projection_status` (`StatusSynced`) is a run that TLC ends with a counterexample.  The C++
store's README says that `set_status` syncs the projected status.  A projection writes the
status that it read some round trips before; a judgment and its sync in between are
overwritten, and the search shows the old status until the node is projected or judged again.
The run has one judge.  With two of them and no ingestion TLC refutes `StatusSynced` too, and
no run checks that: two judgments change a node in one order and sync its document in the other
(`store.cpp` 1231), or `stale_pins`, which writes to the document of a node that it read as
stale, syncs it after a judgment that took the node back (1309).

Others were met while modelling.  Each is a formula of its module that TLC refutes on a small
instance, and no run checks it.

- `Projection.RebuildRepairs` with `Crashes = TRUE`: "operators can repair the complete corpus
  with rag-rebuild".  The rebuild's lease has no expiry: after one that died, every later rebuild
  answers "already in progress".  For the same reason `projection_repair` allows one failure
  only, and none that takes effect: `abort_rebuild` does not check the update that gives the
  lease back, and a second failure there has the effect of a crash.
- `Evidence.CurrentProofKept`: "equivalent runs with the same usable source do not discard
  current proof".  A discovery pass that read the node while it was not verified rebinds the
  check after another worker proved it.
- `JarvisJob.CancelledRestored`: the job's tests say that cancel restores the file.  A call that
  stopped between the write of the patch and of the state leaves a job that says "proposed"
  over a patched file; cancel then closes it and the patch stays.
- `Paper.KillFileObeyed`: the node's README (162) says that a kill file latches at runtime.  A
  scan that finds one while the daily loss of an earlier day is latched lifts that latch after
  it looked at the file (`core.cpp` 633-647), and trades once more.
- `Paper.MergedIsBooked`: README 58-60.  A position is marked merged in one write and its profit
  booked in the next (`core.cpp` 979-981); what stops in between is never booked.
- `TaskChain.OnlyCancelledAreTold`: after a cancel the owner is told to ask the question
  again (`main.cpp` 6207).  A flight that does looks for a cancelled ledger with its question,
  not with its task (4485, 2379-2385): until its first save it finds the one that was cancelled
  before, and is answered "chain cancelled" although nobody cancelled it.

Two remarks.  A rebuild may switch to a generation that misses a run which is already in the
old one, if it was committed after the counts (`projector.cpp:1295`); such a run has not been
acknowledged (`AckedVisible`), and a search refuses to answer meanwhile (`AnswerWhole`).  And
a lease granted from the clock that `next` read before a slow discovery is over when it is
granted (`evidence.cpp:362`), so that a check may be leased a seventh time before it is
escalated.

## 7. What is proved

The theorems hold for every value of the constants that meets the assumptions: any number of
processes, sources, nodes, runs and generations, any caps, delays and bounds.  Every safety and
every action property that a passing run checks is stated by one of them.  The argument is the
same everywhere: an inductive invariant, which TLC checked, in a form that it can
evaluate, on a small instance, one lemma for each kind of step, and PTL for the last line.

### Ingestion

| theorem | statement |
|---|---|
| `TypeCorrect` | `Spec => []TypeOK` |
| `Inductive` | `Spec => []IInv` |
| `OneLiveRunHolds` | `Spec => []OneLiveRun` |
| `RetriesHold` | `Spec => []RetriesFollowFailures` |
| `RunsAdvance` | `Spec => RunsOnlyAdvance` |
| `Implementation` | `Spec => ImplementsLedger` |
| `CommitsAreWhole` | `~ReadFaults => (Spec => []CommittedWhole)` |

*Assumptions.*  Those of `Ingestion`: payloads are sets of nodes with a layout, a layout has a
set of chunks, possibly none, `None` is neither a run id nor a layout, lease and bound are
natural numbers, `ReadFaults` is a Boolean.  No set is assumed finite.

*The argument.*  `OneLiveRun` is not inductive: the database knows only the index on `active`,
so the proof needs that a run is active exactly while it is open or committed
(`ActiveMeansLive`) and that no two active runs share an identity (`UniqueActive`).  Two
processes that write to one run would break the first, so creators are tied to their runs: a
creator's run is where it left it or was failed by an expiry (`Owned`), and no two creators
share one (`OwnersDiffer`).  `RetryRead` carries the failed run that a call read to the insert
which names it; it stays failed because `failed` is final.  Their conjunction with the type
invariant is `IInv`; `InvStep` has one lemma for each kind of step (an expiry, an insert, a
failure, a stamp, a validation, a commit, a return, a step of the call alone).  `RunSteps`
says which steps move a run, and gives `RunsOnlyAdvance`.

The refinement maps an identity to the set of link sets of its committed runs.  Every step but
`Commit` leaves that alone (`PublishedKept`; links are written only by a creator, whose run is
not committed), and `Commit` publishes for an identity that had nothing (`CommitPublishes`, by
`UniqueActive`).

`CommittedWhole` needs to know what a creator has staged so far (`Staged`), that a run id not
yet used has no links, and that a call chooses its links late (`LinksLater`); with `IInv` this is
`WInv`.  The store only grows, a chunk once written stays what it is, and `StageChunk` goes on
only when it is the caller's own: hence what `Commit` finds is what its creator cut.

### Projection and search

| theorem | statement |
|---|---|
| `TypeCorrect`, `LeaseHeld`, `ReceiptKept` | `Spec => []TypeOK`, `[]BuilderHoldsLease`, `[]AckedVisible` |
| `LiveKept`, `RulesKept` | `Spec => LiveRowsKept`, `StatusFollowsRules` |
| `JudgmentsExplained` | `Spec => []JudgmentsExplainStatus` |
| `AnswersWhole` | `SearchSpec => []AnswerWhole` |

*Assumptions.*  Runs and generations are numbers and finitely many, as are nodes and judges
(the code counts them); `None` is none of them; no process is an ingester and a rebuild.

*The argument.*  `IInv` ties each rebuild to the lease (`RebuilderOK`: `meta.building` is its
generation from `Acquire` to the switch or the abort; `Alone`: no two hold it), says that no
cleanup goes for a generation that is written (`SweepOK`), and that whatever was acknowledged
is in the active generation and in every one that is being built, or still on the list of its
builder (`Retrievable`, `Covered`).  That an acknowledgement keeps this needs a fact about the
ingester on its way: it has written, or has still to write, every generation that is active or
that will be, unless a rebuild covers its run (`Reaches`).

`JudgmentsExplainStatus` counts: judgments into a status less those out of it.  What is
preserved is the `Balance` with the judges that stand between their change and its record,
and each failure moves it by one at most (`Balanced`); a step of one judge changes the number
of those by one (`OneElement`).

`AnswersWhole` says why equal numbers suffice.  The committed corpus only grows (`Effects`), rows
in the active generation belong to committed runs (`Owned`) and no build that is under way is the
active generation (`Apart`).  So a count of canonical data is a lower bound later on, and if
the counts before and after a search agree, nothing was committed in between (`Finds`) and
the generation held all of it (`First`, `Counting`).

### Evidence

`TypeCorrect`, `LeasesExclude` (`LeaseExclusive`), `ResultsOrdered` (`RecordedInOrder`),
`SearchesProven` (`SearchableIsProven`) and `Escalated` (`ExhaustedEscalated`).  `IInv` has a
part for each worker and one for each check.  `HoldOK`: while its lease runs and its result is
not recorded, the check carries it with the source that the worker was told; `ReportOK`: what a
report says is about that source and on file once logged; `CheckOK`: the results of a check are
in the order of their leases and older than the lease that it carries, a fresh check has its
proof on file, an exhausted free one is escalated.  The step lemmas rest on `Gentle`, what any
step leaves of a check that another worker may hold.  Assumed: at least one attempt, a lease of
at least one unit, profiles for sources.

### Edit job

`TypeCorrect`, `ClosedForGood` (`ClosedIsFinal`), `TrueReceipts` (`ReceiptsAreTrue`) from `Inv`:
each place of a call has its status, and at the end of a call the status says what the file is
(`PlacesSound`); the call works on the text that the saved state has (`OfSavedJob`).
`Recoverable` (`PatchRecoverable`) and `WrittenOnce` (`PatchedOnce`) need `Writes` as well: until
"applied" is on disk only the patch itself changes the file.  `WrittenOnce` assumes of the
requests that they stop at "proposed" in a call of their own or that the patch takes its old text
away; the run's requests do, and without it a crash before the first save leaves a patched file
that can be patched again.

### Chat flights

`TypeCorrect`, `LateCallBound` (`OneLateCall`), `NamedBeforeTools` (`LedgerBeforeTools`),
`HonestHistory` (`HistoryHonest`), `CancelKept` (`CancelSticks`).  The invariant: a task id is
given once (`Minted`), the ledger of the flight's own task is open (`SameTask`) and names it from
the save before a hop to its end (`Named`); whoever acts for a cancelled task finds it cancelled
in the ledger (`CancelledSeen`), so the call that was late is over and no place before another
one is reached (`LateOnce`); a flight that calls its history complete knows all its calls
and their failures (`RowsKnown`).

### Research

`TypeCorrect`, `DecisionsPublished` (`CheckedIsPublished`), `ConflictsShown`
(`ConflictNotHidden`), `TriesWait` (`AttemptsSpaced`).  `Sound` is what the frontier says, on
disk and in the copy of a tick: it remembers every try with its failures and the time of the next
(`Searching`, `Recounts`), and every decision it records is published (`Backed`).  `Located`: the
tick checks the page of the row it took, and what is open is published before the observation.

### Paper trading

| theorem | statement |
|---|---|
| `TypeCorrect`, `CycleOnce`, `InterruptionLatched` | `Spec => []TypeOK`, `[]SimulatedOnce`, `[]InterruptedIsLatched` |
| `LatchKept` | `Spec => LatchSticks` |
| `ExposureStaysCapped`, `CostKept`, `LossBounded` | `Spec => []ExposureCapped`, `[]CostConserved`, `[]LossAtRisk` |

*Assumptions.*  Finitely many opportunities, positive costs and caps, a positive number of shares.

*The argument.*  `Inv` is about calls and latches: what a phase may still call (`Typed`), that
the file never has a lasting latch that the memory lacks (`Latched`), that what was begun is
claimed in both (`Claimed`, `Claiming`), and that an interrupted cycle is latched or will be
before the node goes on (`Halted`).

`Money` is about sums.  `Books` holds of the file and of the memory: exposure within the cap, the
result of the day less what is at risk above the floor, and the positions of a completed cycle
carry what was spent on it.  None of that is inductive without what is still to be called: in a
cycle the saves and losses in `todo` are within the means of the memory (`CycleOK`), in a
settlement the merge and its profit (`SettledOK`), and the gate has seen the day's loss before
any of it (`FillsOK`).  A failed write leaves the file where it was or one call ahead, and both
keep `Books`.

`Total` sums a sequence by a recursive function.  The library's induction theorems take an
operator, so its lemmas (what it is of an append, of a changed place, of two halves) come from
`SetInduction`: a set of numbers that has 0 and is closed under successor is all of `Nat`, by
the well-foundedness of `<`.

### Skills

`TypeCorrect`, `LookupBacked` (`ListedIsBacked`) and `PromotionProven` (`PromotedWasProven`).
`Seen` says of a lookup that what it has checked was seen to hold since it began.  `PInv` says
of a promotion that its run is proven from the moment it was found and its suite from the
moment it was counted: runs are only added, wherever in the order (`Inserted`), so the number of
fixtures that have passed does not fall.

### What stays with TLC

The five liveness properties (`RebuildRepairs`, `EveryNodeEnrolled`, `PairsSettle`,
`SlotFreed`, `EveryPageTried`): the proof system has no rules for ENABLED, on which fairness
rests.  `CommittedWhole` is false with `ReadFaults`, as said above.  `StatusSynced` is false
(section 6).

## 8. What is not modelled, and why

- `status` of evidence, `rag-status`, searches of the canonical store: they read and change
  nothing.
- Local edits and surgery (`kernel/local_edit.cpp`, `kernel/surgery.cpp`): one mutex held through
  plan, apply, check and rollback, in one process and without a journal.  What can go wrong comes
  from outside it: a rollback overwrites what the owner changed meanwhile, a crash leaves the
  edit without a receipt.
- The shelf: immutable posts keyed by their content, one insert and a read-back.
- Skill lab, Polygon tools and contracts, the Go store, desk tools, host scripts, ingestors,
  routers, interfaces: separate programs around the store, an earlier implementation of it, or
  thin drivers of the host.
- The protocol, JSON, HTTP and embedding layers: parsing and pure I/O.  The rules of a status
  change are in `Projection` (`Allowed`).
- Phone desk and telemetry: cached views.
- `LLM/`, `archive/`, `json.hpp`, `httplib.h`: vendored or retired.

In the modelled components:

- ingestion and projection: the nodes of a run are loaded in one step (`Load`); node versions
  that an ingestion retires, evidence spans, embeddings;
- search: ranking, times, the evidence filter; lexical and semantic search are one query, and
  so are the queries for the citations of the single hits;
- edit job: path and argument checks, the process that runs the verifier;
- chat: prompts, streaming, the tools themselves, the retained turns and the session cache, the
  ledger's "before" save of a resumed attempt over the one before it;
- research: fetching a page, reading its references and asking the model are one step (`Decide`;
  what fails among them is `Fail`); the mapping of requests, the processes that run
  `memory-store`;
- paper: the books, the public API, the audit lines (assumed written whole), and the `status`
  command, which runs `initialize` and may write the snapshot while `run` works;
- skills: relevance, the forms of an id, the limit of fifty runs.
