# Formal models of the ITS middle-platform knowledge agent

This directory holds TLA+ specifications of the parts of `src/knowledge` that
keep durable state and change it from several places at once, and of the way one
question is routed, researched and answered; the TLC configurations that check
them; and TLAPS proofs of the most important properties. It is written for
somebody who has the repository at hand: every definition names the code it
stands for (`PROJECT.json`, "map"), and the comment above it says what the code
does there.

Contents: [the system](#1-the-system) - [the models](#2-the-models) -
[runs](#3-runs-and-bounds) - [fairness](#4-fairness) - [proofs](#5-proofs) -
[what the models show about the code](#6-what-the-models-show-about-the-code) -
[what is not modelled](#7-what-is-not-modelled) - [plan](#8-plan).

Run a model with `tlc -config X.cfg MCX.tla`, a proof with `tlapm XProofs.tla`.

## 1. The system

The service answers questions over a corpus that it builds itself: Git
repositories and uploaded documents are indexed into a vector store and a
catalog database, queries read both through cached pipelines, an agent runtime
answers in conversations, and around it stand memory, quality evaluation, a bug
diagnosis graph, a chat bot and the administration API. One Python process per
pod runs the HTTP server and the background workers as asyncio tasks; database
and vector calls run in threads (`asyncio.to_thread`). Two pods overlap during a
rollout. SQLite or PostgreSQL keeps the tables, Chroma or PostgreSQL the vectors.

| Component | State it keeps | Operations | Talks to |
|---|---|---|---|
| Sync queue (`catalog/repository.py`, `source_sync/worker.py`) | rows of `sync_jobs`: state, attempt, worker_id, claimed_at, available_at | enqueue, claim, complete, fail, requeue, withdraw, manual retry, take back stale leases | called by the API, drained by one worker per process |
| Branch following (`api/app.py` webhook and sync handlers, `scan_once`, `gitlab.py`) | `config.last_synced_commit`, jobs by kind and commit | webhook, scheduled scan, manual sync, snapshot | GitLab, the queue, Git indexing |
| Git indexing (`indexing/coordinator.py`) | `source_versions`, `source_files`, `chunk_catalog`, vectors, the source's config | diff, version row, backup, embed, persist, promote, remove stale, record, roll back | catalog, vector store, pipeline cache |
| Document indexing (same file, `processors.py`) | the same tables and an upload directory | index a version, delete a source's content | as above |
| Document life cycle (`api/app.py`, `processors.py`) | `enabled`, `config_json`, upload directories | upload, delete, retry | queue, catalog, file system |
| Pipeline cache (`agent_runtime/pipeline_registry.py`) | pipelines by scope, a generation, build locks, a readiness flag | get, warm, refresh, invalidate | query threads; the index worker |
| Evaluation (`quality/repository.py`, `evaluation.py`, `worker.py`) | cases, runs, results | queue, cancel, retry failed, edit and delete cases, claim, judge, complete, recover | API, agent runtime |
| Memory (`memory/`) | candidates, memories, promotions, extraction jobs, repair queue, memory index | propose, approve, reject, auto-confirm, promote, forget, expire, merge owners, repair | agent runtime, API |
| Quality capture (`quality/service.py`, `repository.py`) | turns, citations, feedback, review samples | start, complete, recover, feed back | background tasks of the agent runtime; the extraction queue |
| Agent runtime (`agent_runtime/service.py`, `api/app.py`) | sessions, scopes, pending runs, conversation locks; per run a context and a stream | run, stream, wait for approval, decide, delete | tools, history, memory, quality |
| Routing and answers (`agent_runtime/`, `retrieval/`) | per run: reservations, citations, the mode, buffered text; per process: provider circuits | guard, route, search, rank, cite, filter, synthesise | vector stores, rerankers, Swagger sources, the metric platform |
| Bug diagnosis graph (`bug_graph/`) | threads and checkpoints; evidence in memory | start, interrupt, resume, cancel, expire | agent runtime, log platform |
| Feishu bot (`feishu/`) | events with attempts | claim, answer, complete, recover | Feishu, agent runtime |
| Identity (`auth/`) | users, devices, login flows, sessions, tokens, owners, merge jobs | sign in, mint, revoke, log out, merge, decline | conversations, memory |
| Swagger sources (`swagger/`, `api/app.py`) | the source's row, its secrets, the last good copy of its document | register, inspect, open a citation, delete | the service that publishes the document |
| Parsers, migrations, web front end, scripts | none; schema; browser state | | |

Where it is hard:

* **No lock spans an operation.** Almost every operation is several transactions
  with an `await` between them; two requests, or a request and a worker,
  interleave at each. Rows are written back whole after having been read earlier
  (`config_json`), or updated without a look at their present status.
* **Two stores, no common transaction.** Vectors and rows are written call by
  call. A failure is undone call by call, the undoing can fail, and the process
  may die anywhere. Recovery happens at the start of a process only, and only
  for rows that look stale by then.
* **At-least-once everything.** Webhooks are lost, repeated and reordered, jobs
  are retried, leases are taken over while their first holder still runs.
* **Caches over moving data.** A pipeline is built from the vector store while
  the store changes.
* **Shutdown.** Cancellation can strike between a commit and the handler that
  would undo it.

What makes each component correct is the list of properties in section 2;
`PROJECT.json` lists the hazards line by line ("hazards") with the properties
that would notice.

## 2. The models

All models share some conventions. One action is one database transaction, one
vector call or one stretch of code between two awaits, whole: what a handler
does in one such stretch is one action. Payloads are model values. Time is a set
of things that are *due*, *stale* or *fresh*, with an action for the clock
passing the limit. Variables called history record what happened for a property
to speak of and no guard reads them. Operators marked *Mutant* in the modules
are deliberate mistakes, each the mirror of the definition that follows it; they
are not part of any specification and document which mistake a property notices.

### SyncJobs - the durable queue and its worker

| Model | Code |
|---|---|
| `state`, `request`, `attempt`, `holder` | columns of `sync_jobs` |
| `due` | queued rows with `available_at <= now`, in the claim's ORDER BY |
| `lapsed` | running rows with `claimed_at` older than `stale_after_seconds` |
| `pc`, `serving`, `ticket` | the local variables of `SourceSyncWorker.run_once` |
| `Enqueue`, `DeleteQueued`, `AdminRetry` | `enqueue_job`, `delete_queued_job`, the retry handler |
| `Claim`, `StopInClaim` | `claim_next_job`, and a cancellation that arrives after its commit |
| `ProcessOk`, `ProcessError`, `StopInProcess` | `await processor.process(job)` and its three outcomes |
| `Complete`, `Retry`, `Fail`, `RequeueCancelled` | the verdicts, each a compare-and-set on (state, worker_id, attempt) |
| `Conflict`, `VerdictLost` | the lease is gone; the database refuses |
| `Start`, `Crash`, `Lapse`, `BecomeDue` | `requeue_stale_jobs` then the loop; death; the clock |

Any number of workers may be alive: the code relies on the compare-and-set, not
on there being one process. `SettledOrStranded`: every queued job is settled
unless a crash, a lost verdict or a stop strands it.

### JobLease - what the queue promises

The abstract specification behind the queue: a job is leased for a term, a
worker may remember a lease that is long over, only the owner of the current
term decides, each term is decided once, an error is tried again only while a
budget lasts, a lease is taken back only after it expired. It has no rows, no
clock, no ORDER BY and no life of a process. `ImplementsLease` is
`Lease!Spec`, with `INSTANCE JobLease WITH term <- attempt, lease <- Leases,
budget <- RetriesLeft, expired <- lapsed`: every step of SyncJobs is a step of
JobLease or a stutter. The older and more special statements `QueueMatchesRows`,
`TicketsDistinct`, `OnlyHolderDecides`, `FinishedStaysFinished` and
`RetryBudget` are still proved (section 5).

### SourceIndex - one Git source on its way into the index

One run of `index_git_snapshot`, one action per store call, in the order of the
code: `Begin` (the snapshot and the reads), `StartVersion`, `CreateVersion`,
`Backup`, `Embed`, `PersistFile`, `PersistChunk`, `Promote`,
`DeleteStaleVectors`, `DeleteStaleRows`, `RecordSynced`, `Finish`; the rollback
(`_rollback_index`) as `UndoVectors` ... `UndoSource`; `Raise` (inside the try),
`RaiseOutside`, `RaiseInUndo` and `Crash`, each possibly after a part of the
effect of the call (`TornVectors`: Chroma's upsert deletes a batch, then adds
it). Deleting a version row cascades to its files and chunks
(`DeleteVersion`), as the foreign keys do. `MoveHead` moves the branch, forward or back.

Abstraction: a file is one chunk. Chunk ids are derived from path and symbol and
not from the commit, so a path stands for the id, its vector and its row.

The properties relate the two stores to the commit the source claims to be at:
`IndexMatchesTree`, `UntouchedStaySearchable` and `CatalogIsWhole` (the current
version of a source has succeeded, and no chunk row is without its file row).
The first two say what they say once
*interrupted commits have been redone*: `dirty` and `lost` (history) record the
commits whose run was cut off and the files whose rows were deleted with a
version and not written again; the property excuses exactly those states, so a
crash must be healed by the next successful run of the same commit.
`SourceIndexTree` holds the inductive invariant of the first two (`TreeInv`,
see section 5); `MCSourceIndex` and `SourceIndexProofs` both extend it.

### BranchSync - following the branch

`Push`, `DeliverHook` (also twice), `LoseHook`, `ScanBranch`/`ScanEnqueue` (the
answer of GitLab and the enqueue are two steps), `ManualSync`, `AdminRetry`;
the worker as `Claim`, `Snapshot`, `Index`, `Complete`, `Raise`, `Crash`,
`Restart`. It composes what the two modules above promise: a job's lease is one
step here, an indexing run one step. Commits are numbered in the order of
pushes; `rewound` records that the branch was reset. `SyncedMovesForward`,
`SucceededIsIndexed` and `EventuallySynced`: the scan repairs every lost
webhook, except in the three cases `ScanIsStuck` names.

### SourceLifecycle - uploads and deletion of a document source

Requests (`admin_upload_document_version`, `admin_delete_source`) and the worker
(`DocumentSourceJobProcessor`, `DeleteSourceJobProcessor`,
`index_document_version`) all read `config`, wait, and write it back whole.
Every await of either is a step; a request can fail at each of them and runs the
except and finally blocks of the code. `PurgedStaysEmpty` (after a deletion has
removed the content nothing is indexed again); `FilesAreKept` (the searchable
version has its files, an accepted upload keeps its own until it is indexed, a
finished deletion leaves none); `DeletionCompletes`.

`FilesAreKept` is stated for one administrator who waits for each answer
(`SerialSpec` of `SerialLifecycle`, with the invariant that explains it,
`FilesInv`); two uploads at once may share a directory. `SerialSpec` restricts
nothing else: any call may raise, also while an upload takes back what it did
(`UndoFails`), the worker may claim a job as soon as it is queued, before the
upload is answered or in the middle of its undoing, and the process may die at
every step. Two things go wrong in the code then, and history variables name the
versions they happen to, so that the property says everything else. `torn`: an
upload that failed after its job had been claimed (`taken`) removes the directory
of a version that is, or will be, searchable. `left`: an undoing that breaks off
before it has put the configuration back, or a death of the process between the
configuration and the job, leaves the version pending; an older job that is
retried then finds that version instead of its own (`Misleads`).

### PipelineRegistry - the cache of BM25 pipelines

Threads inside `get` (`Get`, `FindCached`, `Miss`, `TakeBuildLock`, `FindBuilt`,
`StartBuild`, `Build`, `Install`, `TryAgain`), the warm-up among them, against
`refresh` (`TakeSnapshot`, `Rebuild`, `Publish`, `RebuildFails`) and `invalidate`.
Both locks are there: the registry's `_lock`, which every critical section of a
thread (`Acquire`, `Section`) and of the worker (`IndexerAcquires`) needs, and a
build lock per scope, which a thread takes outside of it and holds across
sections. `data` counts the states of the vector store, odd in the middle of a
change; a pipeline is represented by the state it was built from. The worker's
`refresh` and `invalidate` run on one event loop, so they do not overlap each
other. A change whose calls raise before the cache is told (`ChangeRaises`: the
catalog after the vectors of `delete_source_content`, `coordinator.py:297`; a call
of the rollback before `:394`; the already-indexed return, `:119`) leaves the old
pipelines; `untold` remembers it until the next `invalidate`.
`RemovedNotServed`; `ServesCurrentIndex`, unless the last change was such a one;
`QueriesReturn` (a round of the loop in `get` ends, and the thread comes out
unless the cache was invalidated in that round); `CacheMovesForward` is proved.

### EvalRuns - regression evaluation

Administrators queue, cancel and retry runs and change cases; workers claim,
`Select`, `Look`, `ReportProgress`, `Judge`, `CompleteRun`, `MarkCancelled`. No
statement of the worker checks that the run is still its own: `OneWorkerEach` holds only
because a worker writes to its run more often than `stale_seconds`, which is the
one timing assumption of the model (`Lapse` is possible for an unattended run
only). `EndedIsFinal`, `CompletedIsJudged`, `RunsEnd`.

### MemoryRecords - what the service remembers

Candidates and memories share an id, so one item stands for both rows.

| Model | Code |
|---|---|
| `cand`, `mem`, `promo` | `memory_candidates.status`, `memories.status`, `memory_domain_promotions.state` |
| `kind` | the memory type: one that is confirmed after a day, or one that only a decision confirms |
| `indexed`, `repairs` | the memory collection of the vector store, `memory_index_repairs` |
| `pc`, `item`, `saw` | the local variables of a request or of the maintenance |
| `ApproveRead`, `ApproveCommit`, `ApproveRefused`, `IndexUpsert`, `IndexFails`, `QueueRepair` | `approve_candidate`: the check, the transaction (or its refusal by the primary key), the index, the repair |
| `RejectRead`, `RejectCommit`, `ForgetRead`, `ForgetCommit`, `Unindex` | the reject and forget handlers |
| `PromoteCandidate` ... `RejectPromoted`, `Review` | a promotion to a domain and its two decisions |
| `ListDue`, `ConfirmNext`, `ListRepairs`, `RepairRead`, `Fix`, `Unfix`, `RepairDone`, `RepairFails` | one round of `_run_maintenance` |
| `Expire`, `Merge` | `expire_memories`, `merge_user_owner` |
| `PromotionIndexFails` | the index raises in `approve_domain_promotion` (`service.py:277`) |
| `Stop` | an exception, a client that goes away, the end of the process, between any two steps |

A subject is abstracted to the kind: two items of one owner and kind are about
the same subject and supersede each other. Which memories of a device state the
same fact as one of the person is a choice of `Merge`. `OneFactPerSlot`;
`RecordsFollowDecisions` (what an approval confirmed is indexed, about to be or has a
repair, and what was rejected is not remembered, as long as nobody else decides
about it). It leaves out approvals that were stopped between their commit and their
index (`broken`), promotions whose index raised (`raised`, `PromotionIndexFails`:
nothing is caught and no repair is queued, which `MemoryRepairs.cfg` shows), and what
becomes of a forgotten memory in the index, which nobody repairs either.
`DecisionsAreFinal` (what was forgotten stays so, and a promotion is decided once).

### Conversations - the requests of one conversation

`Conversations` composes four small modules, each of which says what one call
does to its own tables, and adds the order of the calls:

| Module | Stands for |
|---|---|
| `ConversationRecords` | owner, knowledge scope, messages, waiting runs and summary of the conversation: five tables of four repositories |
| `QualityTurns` | `quality_turns`, the background tasks that start and complete a turn, the extraction job a completed turn leaves |
| `BugDiagnosis` | the graph of each run node by node, from its state in memory, with the checkpoint it leaves on the thread, the expiry, and the evidence in the process's memory |
| `FeishuEvents` | `feishu_events`: claim, two attempts, completion, failure, the clean-up at a start |

A request is a question answered as JSON, as a stream or to Feishu, a decision
on a run that waits for an approval, or a deletion of the conversation. It
arrives at a pod and goes through the steps of its handler: binding the owner,
binding the scope (for a stream in a task of its own), waiting for the lock of
the conversation, reading the scope, the run (a diagnosis, a waiting approval or
an answer), the summary, the completion of the turn. `AgentService` serialises a
conversation with an asyncio lock, so only within a pod. A stream may be closed
by its client at each step. While it waits (`Disconnect`) its run is cancelled;
while it sends (`Abandon`) the generator is closed, which gives up the lock and
stops nothing: the runner goes on storing messages (`LooseRun`) and the
diagnosis goes on through its nodes until it ends. The bridge may raise at the
claim of the conversation, in the answer, at the completion of the event and at
its failure. A pod may stop between any two steps and start again; the memory
worker extracts beside them.

* `DeletionIsComplete`: a deletion nobody overlapped, be it a request or a run
  without a client, leaves no record, no owner and no diagnosis;
  `HistoryIsOwned`: messages without an owner are those of runs that were
  admitted, or went on, while a deletion was under way.
* `AnswersInScope`: a question is answered in the scope that was asked for,
  except for a stream with a deletion between the binding and the run.
* `ApprovedOnce`: the calls of a waiting run are made by one decision per pod.
* `TurnsSettle`: no turn stays running, but where its verdict had nobody to write it.
* `AnsweredOnce`: an event is answered by one delivery, but after a start of a
  pod or where an answer, or the completion of its event, failed; it stays in
  progress only where the pod stopped or the bridge raised outside of its handler
  (a claim that is refused or raises, or `fail` itself).
* `EvidenceOfOwnRun`: a diagnosis reports what its own run gathered, with graphs
  of two pods or of a run without a client writing over each other's checkpoints
  too, and only a cancelled run leaves evidence in memory.
* `RequestsRunInTurn`, violated with `ConversationSerial.cfg`: the repository's
  README says that requests of a conversation run one after the other.

The exceptions are stated in the properties by name (`unsettled`, `overlapping`,
`unqueued`: history variables); they are the observations of section 6. A
deletion is `unqueued` when no extraction is open and none is about to be queued
by a verdict still to be written. `ConversationsInv` holds the inductive
invariant of all seven (section 5); `MCConversations` and `ConversationsProofs`
both extend it.

### Identity - who a request acts as, and the merge

One browser with a cookie jar, whose responses may pass each other; devices,
login flows, sessions, personal tokens, owners of conversations, merge jobs, and
the memory tables a merge writes. Requests: a question (by cookie or by token),
login, callback, merge, decline, mint, revoke, log-out. A merge is the eight
calls of `auth/merge.py` and `auth/api.py` (`Source`, `Begin`, `Start`,
`ReadMemories`, `MergeMemories`, `Transfer`, `Disable`, `Complete`, then the
audit and the cookies), each of which can fail, with a stop of the process
between any two. On SQLite the memories are read and written in one transaction;
on PostgreSQL other requests come between (`database`).

`HandedOver` (after a merge nothing is left with the device, and all it had went
to one account), `FactsSurvive` (no fact is lost or doubled by a merge),
`WithinReach` (what a browser asked stays reachable through its cookie).
`IdentityInv` holds the inductive invariant of the three (section 5);
`MCIdentity` and `IdentityProofs` both extend it.

### Answers - one question and its answer

| Module | Stands for |
|---|---|
| `Routing` | the request guard, the rules, the model's reading of a message, the choice of the manager |
| `Retrieval` | the budget and the reservations of searches, the routes of a search with their circuit, exact lookups, Swagger inspection, the consent for metrics |
| `Ranking` | fusion of the routes, the reranker and its fallbacks, the boost of exact matches, the selection of public citations |
| `Filter` | a sequence without some of its elements, as a recursive function that can be reasoned about |
| `PublicAnswer` | the filter of whole answers and of streamed deltas |
| `Answers` | the run: agents, specialists, tools, hand-offs, buffered text, evidence gate, synthesis, safeguard, the event loop of the stream and the history |

A text is a sequence of pieces: prose, a line break, the halves of a marker, of a
marker with ornaments, or of an internal identity. The test that keeps back what
may become a remembered line (`public_answer.py:47`) takes off one heading or one
whole bold sign, the pattern of such lines (`:24`) allows a heading and a bold
sign: of an ornamented marker whose first delta ends inside the bold sign, or after
both signs and the start of the marker, the first half (`o1`) is streamed. Each piece carries its author and a number, so that
order, loss and repetition can be spoken of. The agents run in a task of their
own; the request reads its events up to `MaxLag` behind. The run's world (what
the routes find, whether a reranker or a model fails) is chosen with the
question.

The metric expert's tools are the guarded queries (`QueryMetric`) and the
discovery tools of the platform (`Discover`), each call of which leaves a
citation, a failed one as well (`metric_mcp.py:97`).

`NothingInternal` (the recorded answer has no remembered line and no identity, the
stream no identity and no remembered line but such an ornamented one),
`NothingUnsupported`, `ToldOnce` (the stream); `EvidenceMatches` (what is cited was
handed to an agent, or is a log, a discovery call or an operation of an inspection
that was cut off), `WithinBudget` (the evidence); `AnswerRepresents` (what is
recorded). The last has two parts: `SynthesisIsAnswer` - half a synthesis is never
followed by something that counts as the answer, and what was streamed of a whole
one is how the recorded answer begins, for questions of several domains and ends
of lines excepted - and `CitationsRepresent` - the citations shown with it have one
of every type that was found.

### SwaggerSources - registration, inspection, deletion

A source's row, its secrets and the cached copy of its document, written without
a lock by a registration, a deletion and the inspections of any number of runs
(`ReadCache`; `RefreshDocument` with the ETag and `NotModified`; `RefreshFails`,
the fallback to the copy; `Put`). Documents are numbered in the order of their
publication. `AnswersAreCurrent`,
`DeletionIsClean`, `CredentialsComplete`.

## 3. Runs and bounds

| Run | Instance | What it shows |
|---|---|---|
| `sync_jobs` (`SyncJobs.cfg`) | 2 jobs, 2 workers, requests with and without a commit, 1 retry, 3 attempts; 238 000 states | the queue implements the leases of JobLease, whatever is stopped, taken over or lost; every queued job is settled or stranded |
| `source_index` (`SourceIndex.cfg`) | 3 commits, 2 files; c1 to c2 adds a file, c2 to c3 changes one and deletes one; failure, torn write and crash at every step; 1.77 M states | stores and checkpoint agree after every healed failure, as long as the branch is not reset |
| `source_index_reset` (`SourceIndexReset.cfg`) | the same tree, any push, no crash | violation: a failing job on a branch that was reset loses live chunks |
| `pipeline` (`PipelineRegistry.cfg`) | a query, the warm-up, 2 scopes, 2 changes of the store (4 half-changes), each of which may raise; 210 000 states | removals are never undone by an older build, and every round of a query's loop ends, whoever holds the two kinds of lock |
| `branch_sync` (`BranchSync.cfg`) | 2 commits, 1 retry, 2 failures or crashes; 701 000 states | the index goes forward and the scan repairs lost webhooks, but for three named cases |
| `lifecycle` (`SourceLifecycle.cfg`) | one administrator's request at a time beside the worker, 2 versions, 2 jobs; a failure, a claim or a crash at every step; 59 000 states | files of accepted and of searchable versions are kept, but for the named ones; deletions purge for good and complete |
| `eval_runs` (`EvalRuns.cfg`) | 2 workers, 2 cases, 2 runs; 477 000 states | runs are exclusive, end once, are complete when they say so, and end unless they are stranded |
| `memory_records` (`MemoryRecords.cfg`) | one request and the maintenance, 2 candidates, 3 owners; 790 000 states | slots, index repairs, and decisions that stay decided |
| `conversations` (`Conversations.cfg`) | 9 combinations of three requests, two pods, one start; 1.25 M states | deletions, approvals, scopes, turns, events and diagnoses across overlapping requests, runs without a client, errors and stops |
| `identity` (`Identity.cfg`) | 9 combinations of up to seven requests, two in flight, 2 devices, 2 users, one stop, both databases; 656 000 states | a merge hands everything over once and loses nothing |
| `answers` (`Answers.cfg`) | one question of each of 19 kinds, 2 domains, a request up to 2 events behind; 1.16 M states | what is streamed, cited and recorded is public, supported and told once, and the answer stands for what was streamed and found |
| `swagger_sources` (`SwaggerSources.cfg`) | a source behind a password after one behind a token, 2 runs, 2 documents, symmetric in the runs; 671 000 states | inspections show current documents, deletions purge, sources have their credentials |

Four more configurations are kept beside the runs, each ending in the violation
of one property that section 6 speaks of: `MemoryRepairs.cfg`
(`FailuresAreRepaired`, with MCMemoryRecords), `MemoryDecisions.cfg`
(`RejectionsStand`, with MCMemoryRecords), `ConversationSerial.cfg`
(`RequestsRunInTurn`, with MCConversations) and `AnswersHistory.cfg`
(`HistoryWasShown`, with MCAnswers). The
types (`TypeOK`) are an invariant of no configuration; they are proved for the
modules of section 5 that need them.

Why these bounds are enough to be of interest:

* Two workers and two jobs give every takeover: the old holder, the new one, and
  a second job that the old holder goes on to. One retry separates "retries
  left" from "none left"; the third attempt leaves room for a manual retry and a
  stop of a job that has failed. `AttemptBound` limits disturbances only, never
  claims or verdicts, so nothing is cut off in the middle of a step.
* Three commits are the least for a job whose base is neither the head nor the
  current version; two files are the least for one that a commit leaves alone.
* Four half-changes allow a build that begins before, during and after a refresh
  or an invalidation, and one of them after the other. That a query returns does
  not rest on this bound: the property asks it of every round in which no
  invalidation happens.
* Two commits in `branch_sync` are pushed, reset and pushed again, so there are
  more deliveries than commits. `TroubleBound` counts failures and crashes:
  with one retry, two of them use up the retries of a job.
* Two versions and two jobs allow an upload after the first one, with a job that
  has failed and is retried before, between or after, and a deletion of either;
  `DirectoriesAreKept` and `DeletionIsFinal` (section 5) are proved for any
  number, and TLC checked their invariant with a third job (538 000 states).
* Two candidates allow a supersession, a promotion (its source and its target)
  and a merge with a conflict. The two actors of `memory_records` are a request
  and the maintenance; two requests at once are in `MemoryDecisions.cfg`, and the
  proofs of section 5 hold for any number.
* Three requests are the least for a question, an overlapping deletion and a
  later question, and for a waiting run with two decisions. The combinations of
  `conversations` are those in which the requests share state.
* In `identity` two requests in flight are enough for responses that pass each
  other and for two merges at once; the others come before or after. Each
  combination asks for one difficulty and names the troubles it may meet, so
  that they do not multiply.
* In `answers` each question exercises one mechanism (the guard, the filter with
  every piece at every boundary, specialists, synthesis, evidence, metrics,
  diagnosis) with the others at their simplest; a lag of two events separates
  the context from the event by a whole tool call.
* Two documents and two runs suffice for an older copy over a newer one.

Restrictions of the next-state relation are in the MC modules with their reasons
(`BoundedNext`: pushes and hooks that commute with the step under way happen before
or after it) and in SerialLifecycle (`SerialNext`: one administrator at a time). Deadlock is checked in
`sync_jobs`, `source_index`, `branch_sync` and `answers` (where a run that has
ended stutters); in the others everything may have ended and the bounds are used
up. Only `SwaggerSources.cfg` uses symmetry, and states no liveness.

## 4. Fairness

| Assumption | Where | Why the code justifies it |
|---|---|---|
| a loop that runs takes its next step (WF) | every model with a liveness property | each loop awaits calls with a timeout (git, embeddings, HTTP) or database calls |
| a claim that is possible again and again happens (SF) | SyncJobs, BranchSync, SourceLifecycle | the claim is ordered by due time, so a job cannot be passed over for ever |
| the clock moves: `BecomeDue` (WF) | SyncJobs | `available_at` is a fixed time |
| a process that is down is restarted (WF on `Start`, `Restart`, `StartWorker`) | SyncJobs, BranchSync, SourceLifecycle, EvalRuns | the deployment's supervisor; nothing is assumed of *when*, so leases may be fresh or stale |
| the scan happens though jobs and crashes interrupt it (SF) | BranchSync | `scan_once` is called by the loop every interval |
| the steps of a delete job get through in the end (SF) | SourceLifecycle | an outage of the store ends; retries of the job that are used up are excused by the property |
| a thread or the worker that waits for a lock that is free again and again gets it (SF); nothing is assumed of how often the cache is invalidated, so `get` may go round its loop (`pipeline_registry.py:86`) for ever | PipelineRegistry | `threading.Lock` gives no order, but starvation for ever needs an adversary |
| at some time the process is no longer stopped | EvalRuns | without it a deployment that restarts for ever judges nothing |

The models of section 2 after MemoryRecords state safety only and need no
fairness. Nothing is assumed of webhooks, users, administrators, GitLab or exceptions: they
happen or not.

## 5. Proofs

The TLAPS proofs hold for every value of the constants; the only assumptions are
the ones each module names: finite sets of jobs and cases, bounds that are
numbers, a Null that is none of the values; for Conversations that requests come
from an identity and name a scope; for Identity that devices and users are
different owners and that a question names a conversation; for Answers that what
routes, rerankers, lookups and Swagger sources find are lists and budgets are
numbers (`QuestionsAssumption`, `TopKAssumption`); and for SourceIndex that "is an
ancestor of", as `git merge-base --is-ancestor` answers, is reflexive and
transitive. A request without an identity exists only in a deployment without
user accounts, in which conversations have no owners at all
(`_resolve_user_identity`). A proof module is named after the module it is about;
`FreshnessProofs` is about BranchSync, PipelineRegistry and SwaggerSources, and
`AnswersProofs` is also about EvalRuns.

| Module | Theorem | Says |
|---|---|---|
| SyncJobsProofs | `LeaseRefined` | `ImplementsLease`: SyncJobs implements JobLease |
| | `QueueCorrect`, `TicketsCorrect`, `RetriesBounded` | types, `QueueMatchesRows`, `TicketsDistinct`, `RetryBudget` are invariants |
| | `HolderDecides`, `FinishedIsFinal` | the two action properties |
| SourceIndexProofs | `CatalogStaysWhole`, `TypesCorrect`, `CurrentMovesRightly` | `CatalogIsWhole`, the types, `CurrentMoves` |
| | `IndexIsTheTree`, `UntouchedAreSearchable` | `IndexMatchesTree`, `UntouchedStaySearchable` |
| FreshnessProofs | `RemovedStaysOut`, `CacheForward`, `CacheIsCurrent` | `RemovedNotServed`, `CacheMovesForward`, `ServesCurrentIndex` |
| | `SucceededStaysIndexed`, `IndexMovesForward` | `SucceededIsIndexed`, `SyncedMovesForward` |
| | `AnswersStayCurrent`, `DeletionStaysClean`, `CredentialsStayComplete`, `SwaggerTypesCorrect` | the three safety properties of SwaggerSources and its types |
| SourceLifecycleProofs | `DeletionIsFinal`, `TypesCorrect` | `PurgedStaysEmpty` and the types |
| | `DirectoriesAreKept` | `FilesAreKept`, for one administrator at a time (`SerialSpec`) |
| AnswersProofs | `BudgetIsKept`, `EvidenceIsMatched` | `WithinBudget`, `EvidenceMatches` |
| | `NothingUnsupportedIsShown`, `NothingInternalIsShown`, `EverythingIsToldOnce` | `NothingUnsupported`, `NothingInternal`, `ToldOnce` |
| | `RunsAreExclusive`, `CompletedRunsAreJudged`, `EndedRunsAreFinal` | the three safety properties of EvalRuns |
| MemoryRecordsProofs | `SlotsCorrect`, `DecidedOnce`, `RecordsFollow` | `OneFactPerSlot` with the types, `DecisionsAreFinal`, `RecordsFollowDecisions` |
| ConversationsProofs | `InvariantHolds`, `TypesCorrect` | `IInv` of ConversationsInv and the types |
| | `DeletionsAreComplete`, `HistoriesAreOwned` | `DeletionIsComplete`, `HistoryIsOwned` |
| | `AnswersStayInScope`, `CallsAreMadeOnce` | `AnswersInScope`, `ApprovedOnce` |
| | `TurnsAreSettled`, `EventsAreAnsweredOnce`, `EvidenceIsOfOwnRun` | `TurnsSettle`, `AnsweredOnce`, `EvidenceOfOwnRun` |
| IdentityProofs | `InvariantHolds`, `TypesCorrect` | `IInv` of IdentityInv and the types |
| | `MergesHandOver`, `NoFactIsLost`, `ConversationsAreWithinReach` | `HandedOver`, `FactsSurvive`, `WithinReach` |

Each proof goes through an inductive invariant (`IInv` of the module). What had
to be added to the property is the interesting part:

* *SyncJobs*: `TicketsReached` - a worker's attempt number is at most the row's,
  so a new claim, which counts one further, cannot give out a number somebody
  has - and `RetriesCloseAttempts` - each automatic retry has used up an attempt,
  which bounds retries by the comparison with the table of delays although
  stops and manual retries move `attempt` too. The refinement rests on the same
  invariant: `HolderOwns` turns "the compare-and-set succeeds" into "owns the
  current term and nobody else remembers it", and each action has a lemma that
  says what it does to `Leases`.
* *SourceIndex*: `CurrentOfRun` - which version can be current at each place of
  a run, so that a rollback restores the one it found - and `FilesOfRun` - a
  candidate's chunk rows are written after all of its file rows. The two
  properties about the tree rest on `TreeInv` of SourceIndexTree, which speaks of
  one file at a time and holds while at most one commit is unfinished
  (`OneUnfinished`): what a job found of the file (`FoundOK`), and, for every
  place in the job, how far it has come with the vector (`VectorsOK`), the row
  (`OwnerOK`) and what a rollback would put back (`BackupsOK`). What a cut-off
  job leaves is described by what its commit touched: where it touched nothing
  the file is as the last synchronised commit has it (`Settled`), where it did the
  next run of that commit writes the vector again (`Exposed`), because only rows
  of succeeded versions enter its baseline. A run that was promoted and did not record
  its commit is `Ahead`. That ancestry is transitive is needed where a job
  ends: a file it did not touch keeps its standing when the interrupted commit is
  counted from the job's commit instead of from the one before (`Unaffected`). TLC
  checked `TreeInv` on the run and, from all type-correct states with
  one file and up to three commits, as an inductive invariant.
* *PipelineRegistry*: `BuildsAreOfNow` - nothing built is newer than the store,
  a refresh publishes what it built of the present state, and a build whose
  generation is still the present one is not older than the last removal. With
  `SwitchedOff` - a change that did not raise is over when the cache was
  invalidated after it - the cache between changes can only hold the present state.
* *BranchSync*: `KnownCommits` - while the branch only moves forward, what hooks,
  jobs and the worker name is not newer than the head, and the snapshot a job
  indexes is not older than its commit or than what is indexed.
* *SourceLifecycle*: a version and a job in the hands of a request or the
  worker exist (`InHand`), a deletion under way keeps the source disabled, and
  once the content is purged no indexing run is in a step that could write. For
  `FilesAreKept`, `FilesInv` of SerialLifecycle: between its check and its answer
  an upload's own job is the only one that is open (`OneOpen`, `OwnJob`), so that
  it is alone with the config but for the worker on that job; the directory it
  may take away again is of a version that is not indexed, or its job has been
  claimed and the version is torn (`UploadIsNew`); a rollback goes back to a
  version that has files or is torn (`RollbackHasFiles`); and a job whose upload
  was accepted, failed and waiting for its retry included, finds its version
  pending and on disk or has indexed it, or else a version that was left
  (`AwaitedIsFound`), also with the config an upload is going to write back.
  That needs the worker to work on what the config says, whichever job it has
  (`WorkerAgrees`): it reads the pending version, not its job's. Proving it showed
  what it needs of the queue: rows numbered in the order of enqueueing
  (`InOrder`), or "newest" says nothing.
* *EvalRuns* (`EvalInv`): a run in a worker's hands is running and fresh (`InHand`), and a
  case it need not judge any more has its verdict (`JudgedSoFar`).
* *MemoryRecords*: nothing undecided has a memory (`UndecidedUnknown`), so a new
  candidate and a merge that moves candidates fill no slot, and whoever is in
  the middle of something has an item in hand (`InHand`). For `DecidedOnce`,
  `PromotionsFollow`: a promotion is requested once, by whoever made its
  candidate, so that no second request finds it decided. For `RecordsFollow`,
  `IndexInHand`: whoever removes from the index has a forgotten memory in hand,
  and a repair about to be closed was made or is not needed any more; and
  `DecisionsApart`: what an uncontested decision has read still holds when it
  commits.
* *Conversations*: everything rests on two facts about places: what kind of
  request can be where (`OnCourse`), and who has the lock of a pod (`LockIsHeld`:
  also a deletion, a report to the client and a decision's second look, but not
  the release of the owner). For deletions, `QuietDeletions` says step by step
  what one that is alone has emptied, `DeletionsOverlap` that it has seen every
  request that is under way, and `UnownedOverlap` that without an owner whoever may
  still store messages was seen by one (`Admitted`: from the binding to the run,
  and after it while a run goes on without a client).
  `PreparedScopes`: a stream's scope stands from its binding on, unless there was
  a deletion. `Resuming` is what makes approvals unique: whoever is about to
  resume is, under the lock of his pod, the first but for those who broke off,
  because a decision that went through has marked the row (`Deciders`). Turns:
  a running one has a verdict under way or a request that owes it one
  (`RunningTurns`), a start that has not landed is of a stream whose end is still
  to come (`Starts`). Events: answered and pending deliveries together are at
  most the attempts (`AttemptsCount`), so a claim, which needs an attempt, is
  the only way to a further answer; `OneDelivery` is what the status adds as long
  as no pod starts. Diagnoses: `Citations` and `EvidenceHeld` say for each node,
  of a checkpoint and of a graph in memory, whose evidence is cited and held. TLC checked every part on the run
  first. One proof failed for a good reason: a deletion was called unqueued when
  no job was open, but a stream's verdict written after the deletion queues an
  extraction that brings the summary back; `Unqueued` now speaks of it, and the
  run has a combination in which it happens.
* *Identity*: everything starts from what kind of request can be where
  (`OnCourse`), from who it acts as (`Identified`: only `Resolve` gives an
  identity, a device without a session or a user with the session the request was
  sent with) and from the rows it goes by (`Credentials`: a clean-up only marks
  rows, so the identities exist). For `HandedOver`, `OnlyLate`: once a merge has
  moved the memories, whatever acts or is recorded in the name of the device
  belongs to a question that is already counted as late, because nothing new is
  taught but by such a question (`Taught`). With the order of the three calls
  (`HandedInOrder`) that leaves nothing of the device behind when it is switched
  off. That one account gets all of it rests on `OneMover` - two accounts' merges
  of one device at once are noted (`broken`) - on `OneReceiver` - whoever was given
  something is half-way through a merge, or everything was handed over - and, for
  PostgreSQL, on `NothingRead`: the merge of a second account that comes later has
  read no memory to move. `FactsSurvive` is inductive with `Extraction`: what a
  question teaches is saved once, and a candidate stays one until the approval
  that read it. `WithinReach` speaks of one request at a time (`OneByOne`); it
  needs that the session of the cookie may merge no device but the cookie's
  (`SessionOfDevice`), so that the merge which takes the cookie away is the one
  that has moved the conversations (`InHand`), and that a device in the cookie is
  in use until then (`CookieInUse`, `MergedAreOff`). TLC checked every part on the
  run first, and its counterexamples gave several of them their form. The proof
  has one lemma for each part, cut along the actions; for parts that few actions
  touch a lemma states what keeps the part (`InHandKept`, `ReceiverKept`, ...),
  and the other actions are shown to do that.
* *SwaggerSources*: the copy of an enabled source is the newest document anybody
  was shown, unless an older one crossed it (`CopyIsNewest`); an inspection in
  progress holds a copy no older than what others had been shown when it read it,
  and a document no older than the service's when it began (`InHand`); the secrets
  stored and those to come are all there are (`SecretsToCome`); and only a source
  that is switched off has a deletion job (`OffBeforeJob`).

* *Answers*: the invariants build on each other. `BookKept` is `WithinBudget` itself
  with the book's being finite. `EvidenceKept` rests on `FlightKept`, which says of
  each search at each of its places what it has: nothing before its routes have
  answered and when it is cut off, something afterwards if a route found something.
  `VoicesKept` says who may have written each text - the shown, the kept, the
  waiting, the message, the synthesis; it needs `EvidenceKept`, because text that was
  backed when it was written must still be when it is read, and citations are never
  taken back (`CitesGrow`). `StreamKept` (`ShownKept` and `OrderKept`) joins what
  was shown to what the stream keeps back: if the shown text ends in what may be the
  first half of something internal, the text kept back begins with another first
  half (`Joins`), so that no second half is ever shown after it. `OnceKept` is about
  the `Story`: what was shown, what the stream keeps back and, unless it was already
  streamed, what the request keeps is told in order and the waiting events are
  `Ahead` of it (`StoryKept`); after a specialist was asked, the message in progress
  goes on where the `Tale` ends, what was shown and what is kept back (`MessageKept`);
  what is kept is not followed by what is shown without evidence
  (`ConsultedKept`). Every step of the stream's filter leaves a `Thin` text: pieces
  left out, renamed or replaced by the code's own words, none repeated and none
  moved. TLC checked `OnceKept` on the run first.

Answers' texts are made by recursion over sequences, and induction over data is
outside of what the provers do by themselves: the library's theorems take an operator.
The proofs go by the least number instead (`LeastNumber`, from
`NatLessThanWellFounded` and `WFMin`), which gives induction over a set of numbers
(`Induction`) and the existence of recursively defined functions (`Recursion`). What
is computed piece by piece is therefore written as a recursive function (`Without`
of Filter, `Written`, `FeedAll`) and not with SelectSeq, SortSeq or a fold.

Only model-checked: the liveness properties, which are outside of what the provers
do, and `AnswerRepresents`. Its two parts compare two sanitizations of one text that
are made separately, and need what sorting by CHOOSE, SelectSeq and the folds of
the ranking compute.

## 6. What the models show about the code

Disagreements with something the repository says, each with a configuration that
ends in the counterexample (the first is a run, the others but the second are
the additional configurations of section 3):

* **A failing job on a reset branch loses live chunks**
  (`indexing/coordinator.py:323`, run `source_index_reset`). `_start_version`
  deletes an older *succeeded* version of the same commit before the try block,
  and its file and chunk rows cascade. The rollback that a later failure
  triggers cannot restore them. `tests/test_indexing_coordinator.py:449` states
  that a failure restores live chunks owned by older versions.
* **An upload that fails late leaves a searchable version without files**
  (`api/app.py:2895`). If the audit event cannot be written after the worker
  claimed the job, the handler removes the directory and the worker indexes the
  version. `tests/test_source_management_api.py:475` states the undoing, with no
  worker running. `FilesAreKept` names these versions (`torn`): without them the
  run `lifecycle` ends in the counterexample.
* **A failing index is not repaired after a promotion** (`memory/service.py:277`,
  `MemoryRepairs.cfg`). `approve_domain_promotion` commits the memory and calls
  the index without catching anything; `forget` (`:326`) deletes from it in the
  same way, so a forgotten memory may stay there. The design of 2026-07-24
  (line 260) says that an index failure queues a repair.
* **A closed stream's run goes on beside the next request**
  (`agent_runtime/service.py:391`, `ConversationSerial.cfg`). `stream_chat` stops
  its diagnosis task and its runner on `CancelledError` only; a client that leaves
  while an event is sent closes the generator, which gives up the lock and leaves
  both running. Lines 239-240 of the repository's README say that requests of a
  conversation are executed serially by a lock.
* **A rejection can be recorded over an approval**
  (`memory/repository.py:494`, `MemoryDecisions.cfg`). The design of 2026-07-24
  (line 259) promises status-guarded updates; the two statements are not guarded.
* **The history shows what was never shown** (`history/service.py:238`,
  `AnswersHistory.cfg`). Drafts that were withheld from the stream, and the
  fast model's answer a synthesis replaced, are in the session's messages and so
  in the history. README.md:317 of the repository says that it returns messages
  visible to the user and the assistant only.

Observations made while modelling, which no run singles out:

* `run_once` claims before it enters its try block, so a stop that lands right
  after the commit of the claim strands the row (`StopInClaim`; `stop()` is
  expected to requeue, `tests/test_source_sync_worker.py:133`).
* Stale leases are examined when a process starts and never again. A process
  that restarts within `stale_after_seconds` leaves its own job running until the
  next start (`SettledOrStranded`, `EventuallySynced` and `RunsEnd` name these
  rows as stranded).
* A job for a commit is inserted once whatever became of the first
  (`catalog/repository.py:829`): after the retries are used up, neither the scan
  nor a repeated webhook queues the commit again, and a branch reset to a commit
  synchronised before is not followed until something else is pushed.
* `enabled` is set to false when a deletion is accepted, but no query reads it:
  until the delete job has run the source is searched (README.md:246 announces
  the opposite order).
* A deletion or a rollback that raises after it has changed the vector store never
  reaches `invalidate` (`coordinator.py:296`, `:394`): the pipelines of the older
  store stay cached until the next change, with stale-while-refresh off as well.
  Chunks are looked up by id when they are found, so what was removed is missing
  from the answers rather than shown.
* The readiness flag of the pipeline cache stays `available` after an
  invalidation emptied it.
* A promotion whose approval stopped at the index stays pending, its candidate can no longer be approved, and
  rejecting it then marks it rejected while the domain memory stays confirmed.
* An approval under way across `merge_user_owner` leaves a memory with the
  device as its owner.
* Uploads: two at once share the pending version and may share a directory
  (`api/app.py:2822`, `:2895`); a process that dies after the configuration names
  the pending version leaves it pending (`:2865`), and so does an undo that fails
  at the configuration, with the directory removed: an older job that is retried
  finds that version instead of its own, or nothing (`left`).
* Conversations: a question admitted during a deletion writes into a
  conversation nobody owns (`HistoryIsOwned`); a stream whose scope was bound
  before a deletion runs in another scope (`AnswersInScope`); two pods can both
  resume an approved run; a stream closed while it sends leaves its turn running
  until the next start (`TurnsSettle`), and what its run still stores, messages or
  a diagnosis's checkpoint, outlives a deletion made meanwhile, since nothing tells
  the deletion of it (`overlapping`, `quiet`); an event stays in progress when its
  sender may not use the conversation, has no ID, or the claim or `fail` raises,
  because these stand outside of the try block (`feishu/bridge.py:100-104`,
  `:205`); if the completion of an event raises after the answer was sent, the
  event is failed and a redelivery answers it again (`:180`); an extraction job that was
  open at a deletion, or is queued by the verdict of a stream that had ended
  before it, writes a summary of the deleted conversation.
* The memory worker claims outside of its try block (`memory/worker.py:69`): one
  refused transaction ends the task. Its verdicts are not compared with a lease
  (`memory/repository.py:300`).
* Identity: a question that already acts as the device while the merge moves the
  memories leaves its memory with a device nobody can use any more; two accounts'
  merges at once divide a device; on PostgreSQL an approval between the rows a
  merge reads and the rows it writes loses or doubles a fact.
* Answers, stream: a remembered line is streamed when a delta ends within the
  bold sign of its marker (`*`, then `*历史会话摘要`) or after a heading, a bold sign
  and the start of the marker (`# **历`, then `史会话摘要`), because the test of
  prefixes knows fewer ornaments than the pattern (`public_answer.py:24`, `:47`);
  the recorded answer is cut there. A marker in the middle of a line at the start of a delta
  blocks the rest of the stream though the recorded answer is not cut; citation
  identities of another form than the internal tokens are streamed when they are
  split across deltas; a draft streamed before a second specialist was asked is
  followed by the synthesis, and if that fails before its first delta the run
  ends in an error; a domain manager's or cross-domain answer may stream nothing
  until the end; the safeguard changes the recorded answer only. Stream and answer
  are sanitized separately: a synthesis that goes on in the line, or with the
  identity, a streamed draft has begun may be shown while the recorded answer lacks
  those pieces or is the notice of a leak, which is why `SynthesisIsAnswer` compares
  the two only where no draft is streamed.
* Answers, evidence: a call of the metric platform's discovery tools that failed
  is cited and opens the evidence gate (`metric_mcp.py:97-111`); the clarification
  mode stays once set, also by a token that is not the consent asked for, and lets
  unsupported text pass; the consent for metrics is not tied to the application that was
  asked about; a Swagger inspection that was cut off leaves citations that open
  the evidence gate; a domain is marked collected before its evidence; with the
  reranker down, a hit of one route never passes the gate for citations; a
  success of a call begun before the circuit opened closes it.
* Swagger: a slow inspection puts an older copy over a newer one (`crossed`); an
  inspection or a registration under way writes the copy or the secrets back
  after the purge (`swagger/inspector.py:139`, `catalog/repository.py:1206`); a
  registration given up half-way leaves an enabled source without credentials
  (`api/app.py:2690`); a source without a copy that does not answer makes the
  tool leave out the sources after it.

## 7. What is not modelled

* On PostgreSQL `BEGIN IMMEDIATE` becomes an ordinary read-committed transaction
  (`persistence/sqlite_compat.py`), so a check inside a transaction, such as the
  one for duplicates in `enqueue_job`, is not exclusive there. The models take
  the SQLite transactions as atomic.
* What a parser yields, what an embedding or a language model answers, the
  scores, the wire formats, token formats and hashes, logging: inputs or left out.
* Document indexing vector by vector (the rollback that fails before the version
  is marked failed, `indexing/coordinator.py:245`, among it): it is one step of
  SourceLifecycle. The Git snapshot's locks and worktrees; the shadow store.
* Of quality: feedback, review samples, annotations and dashboards, which are
  guarded updates of single rows. Of memory: entities, incidents, the search, and
  candidates extracted for a whole domain.
* Conversations: failing database writes of the quality capture; what the graph
  library does when a thread changes between `diagnose`'s look at it and the first
  checkpoint (one step here), and the parts of a state that PostgreSQL keeps when
  a thread is deleted under a running graph (the model writes the whole state
  again); the manager's tool route into the diagnosis (which Answers has as one
  tool).
* Identity: the memory worker saves what it extracted and closes its job in one
  step (`FinishJob`), two transactions in the code; more than one browser; approvals of the candidates a merge copies,
  and two approvals of one candidate at once; the owner in the metadata of the
  memory index (`memory/index.py:28`), which a merge does not update; profiles,
  titles, last-use times.
* Answers: approvals and cancellation (in Conversations); identities longer than
  the tail the filter keeps; the failures of the supplement search; prompts and
  marker lists. A keyword route that fails finds nothing.
  Hits of the same score are ordered by when they were found, not by their chunk
  ids.
* Swagger: deletions that overlap each other, the ranking of operations,
  timeouts other than an inspection that fails; a citation of an operation that
  the newer document no longer has, which does not open.
* Projects, domains and domain rules; parsers; schema set-up and migrations.
* `memory-cleanup`, `run_cases` and the storage commands, which an operator runs
  from the command line.
* The web front end and the scripts.

## 8. Plan

The order followed was: the durable queue, on which everything that is indexed
depends; the two stores; the life of a document source; the branch; the cache;
evaluation; memory records; then the requests of a conversation, identity, the
answer to one question, and Swagger sources. What would come next:

1. *DocumentIndex*: `index_document_version` vector by vector, with the rollback
   whose failure leaves a current succeeded version and nothing indexed.
2. The extraction queue of memory as a second candidate for JobLease: its
   verdicts are not compared with a lease, so it implements less.
3. Proofs: that SourceIndex implements the one-step indexing BranchSync takes
   it for; `AnswerRepresents`, its citations first.
4. The resumption of an interrupted copy between databases, and the chat store
   of the web front end.
