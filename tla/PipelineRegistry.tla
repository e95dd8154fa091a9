-------------------------- MODULE PipelineRegistry --------------------------
(***************************************************************************)
(* The cache of BM25 pipelines (RetrievalPipelineRegistry,                 *)
(* knowledge/agent_runtime/pipeline_registry.py): query threads build a    *)
(* missing pipeline from the vector store, once per key, while the index   *)
(* worker changes the store underneath and then either refreshes the cache *)
(* (a new version was indexed) or invalidates it (content was removed or   *)
(* rolled back).                                                           *)
(*                                                                         *)
(* `data` counts the states of the vector store: odd while the worker is   *)
(* in the middle of a change.  A pipeline is represented by the state it   *)
(* was built from.  The worker is the only caller of refresh and           *)
(* invalidate, and both run on its event loop thread, one at a time; a     *)
(* change that raises before it gets there tells the cache nothing.        *)
(*                                                                         *)
(* The registry's _lock is taken for every look at the dictionaries, inside *)
(* of a build lock too; a critical section is one step, from the thread    *)
(* that has the lock, and releases it.                                     *)
(***************************************************************************)
EXTENDS Integers

CONSTANTS
    Threads,            \* threads that call get(), the warm-up among them
    Warmer,             \* the thread of the warm-up task
    Keys,               \* (app_id, domain) scopes
    WarmKey,            \* the key of the warm-up
    Indexer,            \* the thread of the index worker
    Null,
    DataBound           \* bound: states of the vector store

ASSUME WarmAssumption == Warmer \in Threads /\ WarmKey \in Keys
ASSUME NullAssumption == Null \notin Threads \cup Keys \cup Nat \cup {Indexer} /\ Indexer \notin Threads
ASSUME DataBoundAssumption == DataBound \in Nat

VARIABLES
    data,       \* state of the vector store
    worker,     \* what the index worker is doing
    pipelines,  \* _pipelines: what each cached pipeline was built from
    generation, \* _invalidation_generation
    warm,       \* _warm_state
    snapshots,  \* refresh(): the pipelines it found
    fresh,      \* refresh(): the replacements built so far
    lock,       \* _lock: who holds it
    place,      \* where each thread is inside get()
    key,        \* the key it asked for
    builder,    \* _build_locks: who holds the lock of a key
    seen,       \* the generation a thread read before it built
    built,      \* the pipeline it built
    staleWhileRefresh, \* settings.bm25_stale_while_refresh_enabled, never changed
    floor,      \* history: the state of the store at the last invalidation
    untold      \* history: a change raised before it told the cache, and none has since

store == <<data, worker>>
refreshing == <<snapshots, fresh>>
calls == <<place, key, builder, seen, built>>
kept == <<staleWhileRefresh, floor, untold>>
cacheVars == <<data, worker, pipelines, generation, warm, snapshots, fresh, lock,
              place, key, builder, seen, built, staleWhileRefresh, floor, untold>>

Cached == [Keys -> Nat \cup {Null}]
Empty == [k \in Keys |-> Null]
Refreshing == {"refresh", "rebuild", "failed"}
Places == {"idle", "look", "wait", "recheck", "build", "install", "done"}

CacheTypeOK ==
    /\ data \in Nat
    /\ worker \in {"idle", "updating", "removing", "invalidate"} \cup Refreshing
    /\ pipelines \in Cached
    /\ generation \in Nat
    /\ warm \in {"warming", "available", "unavailable"}
    /\ snapshots \in Cached
    /\ fresh \in Cached
    /\ lock \in Threads \cup {Indexer, Null}
    /\ place \in [Threads -> Places]
    /\ key \in [Threads -> Keys]
    /\ builder \in [Keys -> Threads \cup {Null}]
    /\ seen \in [Threads -> Nat]
    /\ built \in [Threads -> Nat]
    /\ staleWhileRefresh \in BOOLEAN
    /\ floor \in Nat
    /\ untold \in BOOLEAN

CacheInit ==
    /\ data = 0
    /\ worker = "idle"
    /\ pipelines = Empty
    /\ generation = 0
    /\ warm = "warming"
    /\ snapshots = Empty
    /\ fresh = Empty
    /\ lock = Null
    /\ place = [t \in Threads |-> IF t = Warmer THEN "look" ELSE "idle"]
    /\ key = [t \in Threads |-> WarmKey]
    /\ builder = [k \in Keys |-> Null]
    /\ seen = [t \in Threads |-> 0]
    /\ built = [t \in Threads |-> 0]
    /\ staleWhileRefresh \in BOOLEAN
    /\ floor = 0
    /\ untold = FALSE

-----------------------------------------------------------------------------
(* get(), in a query thread or in the warm-up *)

Get(t, k) ==
    /\ place[t] = "idle"
    /\ place' = [place EXCEPT ![t] = "look"]
    /\ key' = [key EXCEPT ![t] = k]
    /\ UNCHANGED <<store, pipelines, generation, warm, refreshing, lock, builder, seen, built, kept>>

\* A thread enters the next of the three critical sections of get().
Acquire(t) ==
    /\ place[t] \in {"look", "recheck", "install"}
    /\ lock = Null
    /\ lock' = t
    /\ UNCHANGED <<store, pipelines, generation, warm, refreshing, calls, kept>>

\* It is in the section that begins at a place; the section ends with its step.
Section(t, at) == place[t] = at /\ lock = t /\ lock' = Null

\* The thread leaves get(): with a pipeline, or because the builder raised.
Return(t, outcome) ==
    /\ place' = [place EXCEPT ![t] = IF t = Warmer THEN "done" ELSE "idle"]
    /\ warm' = IF t = Warmer THEN outcome ELSE warm
    /\ seen' = [seen EXCEPT ![t] = 0]
    /\ built' = [built EXCEPT ![t] = 0]

Release(t) == builder' = [builder EXCEPT ![key[t]] = Null]

\* A pipeline that is cached is returned at once ...
FindCached(t) ==
    /\ Section(t, "look")
    /\ pipelines[key[t]] # Null
    /\ Return(t, "available")
    /\ UNCHANGED <<store, pipelines, generation, refreshing, key, builder, kept>>

\* Mutant: the thread waits for the build lock inside of the section.
MissLocked(t) ==
    /\ place[t] = "look" /\ lock = t
    /\ pipelines[key[t]] = Null
    /\ place' = [place EXCEPT ![t] = "wait"]
    /\ UNCHANGED <<store, pipelines, generation, warm, refreshing, lock, key, builder, seen, built, kept>>

\* ... and when there is none the thread waits for the build lock of the key.
Miss(t) ==
    /\ Section(t, "look")
    /\ pipelines[key[t]] = Null
    /\ place' = [place EXCEPT ![t] = "wait"]
    /\ UNCHANGED <<store, pipelines, generation, warm, refreshing, key, builder, seen, built, kept>>

TakeBuildLock(t) ==
    /\ place[t] = "wait"
    /\ builder[key[t]] = Null
    /\ builder' = [builder EXCEPT ![key[t]] = t]
    /\ place' = [place EXCEPT ![t] = "recheck"]
    /\ UNCHANGED <<store, pipelines, generation, warm, refreshing, lock, key, seen, built, kept>>

\* With the build lock another thread's pipeline turns up, before ...
FindBuilt(t) ==
    /\ \E at \in {"recheck", "install"} : Section(t, at)
    /\ pipelines[key[t]] # Null
    /\ Return(t, "available")
    /\ Release(t)
    /\ UNCHANGED <<store, pipelines, generation, refreshing, key, kept>>

\* ... or after the thread has noted the generation and built one.
StartBuild(t) ==
    /\ Section(t, "recheck")
    /\ pipelines[key[t]] = Null
    /\ seen' = [seen EXCEPT ![t] = generation]
    /\ place' = [place EXCEPT ![t] = "build"]
    /\ UNCHANGED <<store, pipelines, generation, warm, refreshing, key, builder, built, kept>>

\* The builder reads the records of the vector store as they are now.
Build(t) ==
    /\ place[t] = "build"
    /\ built' = [built EXCEPT ![t] = data]
    /\ place' = [place EXCEPT ![t] = "install"]
    /\ UNCHANGED <<store, pipelines, generation, warm, refreshing, lock, key, builder, seen, kept>>

BuildFails(t) ==
    /\ place[t] = "build"
    /\ Return(t, "unavailable")
    /\ Release(t)
    /\ UNCHANGED <<store, pipelines, generation, refreshing, lock, key, kept>>

\* Mutant: the built pipeline is cached whatever happened meanwhile.
InstallAnyway(t) ==
    /\ Section(t, "install")
    /\ pipelines[key[t]] = Null
    /\ pipelines' = [pipelines EXCEPT ![key[t]] = built[t]]
    /\ Return(t, "available")
    /\ Release(t)
    /\ UNCHANGED <<store, generation, refreshing, key, kept>>

\* Nobody invalidated since the generation was read: cache and return.
Install(t) ==
    /\ Section(t, "install")
    /\ pipelines[key[t]] = Null
    /\ seen[t] = generation
    /\ pipelines' = [pipelines EXCEPT ![key[t]] = built[t]]
    /\ Return(t, "available")
    /\ Release(t)
    /\ UNCHANGED <<store, generation, refreshing, key, kept>>

\* Somebody did: the loop starts again, without the build lock.
TryAgain(t) ==
    /\ Section(t, "install")
    /\ pipelines[key[t]] = Null
    /\ seen[t] # generation
    /\ place' = [place EXCEPT ![t] = "look"]
    /\ Release(t)
    /\ UNCHANGED <<store, pipelines, generation, warm, refreshing, key, seen, built, kept>>

-----------------------------------------------------------------------------
(* The index worker: a change of the store, then refresh() or invalidate() *)

StartChange(kind) ==
    /\ worker = "idle"
    /\ data + 1 < DataBound
    /\ data' = data + 1
    /\ worker' = kind
    /\ UNCHANGED <<pipelines, generation, warm, refreshing, lock, calls, kept>>

\* Mutant: the setting is not read.
EndChangeRefreshes ==
    /\ worker \in {"updating", "removing"}
    /\ data' = data + 1
    /\ worker' = IF worker = "updating" THEN "refresh" ELSE "invalidate"
    /\ UNCHANGED <<pipelines, generation, warm, refreshing, lock, calls, kept>>

\* An indexed version ends in refresh(), which is invalidate() when switched
\* off; a deletion or a rollback ends in invalidate().
EndChange ==
    /\ worker \in {"updating", "removing"}
    /\ data' = data + 1
    /\ worker' = IF worker = "updating" /\ staleWhileRefresh THEN "refresh" ELSE "invalidate"
    /\ UNCHANGED <<pipelines, generation, warm, refreshing, lock, calls, kept>>

\* Something raises after the store was changed and before the cache is told:
\* the catalog after the vectors of a deletion, a call of the rollback, the
\* clean-up of a version that was indexed already.
ChangeRaises ==
    /\ worker \in {"updating", "removing"}
    /\ data' = data + 1
    /\ worker' = "idle"
    /\ untold' = TRUE
    /\ UNCHANGED <<pipelines, generation, warm, refreshing, lock, calls, staleWhileRefresh, floor>>

AllRebuilt == worker = "rebuild" /\ \A k \in Keys : snapshots[k] # Null => fresh[k] # Null

\* The worker enters the critical section of invalidate(), or one of refresh().
IndexerAcquires ==
    /\ worker \in {"invalidate", "refresh", "failed"} \/ AllRebuilt
    /\ lock = Null
    /\ lock' = Indexer
    /\ UNCHANGED <<store, pipelines, generation, warm, refreshing, calls, kept>>

Indexing(at) == worker = at /\ lock = Indexer /\ lock' = Null

Invalidate ==
    /\ Indexing("invalidate")
    /\ generation' = generation + 1
    /\ pipelines' = Empty
    /\ floor' = data
    /\ untold' = FALSE
    /\ worker' = "idle"
    /\ UNCHANGED <<data, warm, refreshing, calls, staleWhileRefresh>>

\* refresh() looks up what is cached; with nothing cached there is nothing to do.
RefreshNothing ==
    /\ Indexing("refresh")
    /\ pipelines = Empty
    /\ worker' = "idle"
    /\ UNCHANGED <<data, pipelines, generation, warm, refreshing, calls, kept>>

TakeSnapshot ==
    /\ Indexing("refresh")
    /\ pipelines # Empty
    /\ snapshots' = pipelines
    /\ fresh' = Empty
    /\ worker' = "rebuild"
    /\ UNCHANGED <<data, pipelines, generation, warm, calls, kept>>

Rebuild(k) ==
    /\ worker = "rebuild"
    /\ snapshots[k] # Null
    /\ fresh[k] = Null
    /\ fresh' = [fresh EXCEPT ![k] = data]
    /\ UNCHANGED <<store, pipelines, generation, warm, snapshots, lock, calls, kept>>

\* One replacement cannot be built: all old pipelines stay.
RebuildFails ==
    /\ worker = "rebuild" /\ ~AllRebuilt
    /\ worker' = "failed"
    /\ snapshots' = Empty
    /\ fresh' = Empty
    /\ UNCHANGED <<data, pipelines, generation, warm, lock, calls, kept>>

NoteFailure ==
    /\ Indexing("failed")
    /\ warm' = "unavailable"
    /\ worker' = "idle"
    /\ UNCHANGED <<data, pipelines, generation, refreshing, calls, kept>>

\* All are built: in one section, each replaces the pipeline it was made for.
Publish ==
    /\ Indexing("rebuild")
    /\ AllRebuilt
    /\ pipelines' = [k \in Keys |->
            IF snapshots[k] # Null /\ pipelines[k] = snapshots[k] THEN fresh[k] ELSE pipelines[k]]
    /\ warm' = "available"
    /\ worker' = "idle"
    /\ snapshots' = Empty
    /\ fresh' = Empty
    /\ UNCHANGED <<data, generation, calls, kept>>

-----------------------------------------------------------------------------
\* A thread that has the lock ends its section.
InSection(t) == FindCached(t) \/ Miss(t) \/ FindBuilt(t) \/ StartBuild(t) \/ Install(t) \/ TryAgain(t)

Query(t) == Acquire(t) \/ InSection(t) \/ TakeBuildLock(t) \/ Build(t) \/ BuildFails(t)

IndexerInSection == Invalidate \/ RefreshNothing \/ TakeSnapshot \/ NoteFailure \/ Publish

Refresh == IndexerAcquires \/ IndexerInSection \/ (\E k \in Keys : Rebuild(k)) \/ RebuildFails

CacheNext ==
    \/ \E t \in Threads : (\E k \in Keys : Get(t, k)) \/ Query(t)
    \/ \E kind \in {"updating", "removing"} : StartChange(kind)
    \/ EndChange \/ ChangeRaises \/ Refresh

CacheSpec == CacheInit /\ [][CacheNext]_cacheVars

\* Threads run, and a build ends (it is a bounded scan of the store).  A lock
\* is handed to a waiting thread again and again, so strongly fair.
CacheFairSpec ==
    /\ CacheSpec
    /\ WF_cacheVars(IndexerInSection)
    /\ \A t \in Threads :
        /\ SF_cacheVars(Acquire(t) \/ TakeBuildLock(t))
        /\ WF_cacheVars(InSection(t) \/ Build(t) \/ BuildFails(t))

-----------------------------------------------------------------------------
(* Safety *)

\* Once content was removed and the cache invalidated, no pipeline built
\* before the removal is served again, not even one whose build was under way
\* (design of 2026-07-30, section 2: a removal must stop the old content at once).
RemovedNotServed == \A k \in Keys : pipelines[k] # Null => pipelines[k] >= floor

\* What makes it inductive.
BuildsAreOfNow ==
    /\ floor <= data
    /\ \A k \in Keys :
        /\ pipelines[k] # Null => pipelines[k] <= data
        /\ fresh[k] # Null => fresh[k] = data /\ worker = "rebuild"
    /\ \A t \in Threads :
        /\ seen[t] <= generation
        /\ built[t] <= data
        /\ (place[t] = "install" /\ seen[t] = generation) => built[t] >= floor

CacheIInv == CacheTypeOK /\ RemovedNotServed /\ BuildsAreOfNow

\* A refresh never makes queries wait: a cached pipeline disappears only by an
\* invalidation, and is only ever replaced by one of the same or a later state
\* of the store (same section: queries read the old object until it is replaced).
CacheMovesForward ==
    [][\A k \in Keys : pipelines[k] # Null =>
        IF pipelines'[k] = Null THEN worker = "invalidate" ELSE pipelines'[k] >= pipelines[k]]_cacheVars

\* With stale-while-refresh switched off, what is cached between changes was built
\* from the present content of the store, whatever builds were under way while it
\* changed, and also after a change that raised, once a later one has told the cache.
\* (Switched on, a failed refresh keeps old pipelines on purpose, and so does a
\* get() whose build overlaps a synchronisation that found nothing to refresh.)
ServesCurrentIndex ==
    (worker = "idle" /\ ~staleWhileRefresh /\ ~untold) => \A k \in Keys : pipelines[k] \in {Null, data}

\* What makes it inductive: then nothing refreshes, and a change that did not raise
\* is over when the cache was invalidated after it.
SwitchedOff ==
    ~staleWhileRefresh => worker \notin Refreshing /\ (worker = "idle" /\ ~untold => floor = data)

-----------------------------------------------------------------------------
(* Liveness *)

\* A query comes out of get() unless the cache is invalidated while it is in there:
\* each round of the retry loop ends, whatever the other threads and the worker do
\* with the locks.  (The loop has no bound of its own: it is left when no invalidation
\* falls into a round.)
QueriesReturn ==
    \A t \in Threads, g \in 0..(DataBound \div 2) :
        place[t] = "look" /\ generation = g ~> place[t] \in {"idle", "done"} \/ generation # g
=============================================================================
