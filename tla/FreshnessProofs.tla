---------------------------- MODULE FreshnessProofs ----------------------------
(***************************************************************************)
(* What an answer is drawn from is as new as what was pushed, along each   *)
(* way it takes: the index follows the branch (BranchSync), the cache      *)
(* follows the index (PipelineRegistry), and the copy of a Swagger         *)
(* document follows the service that publishes it (SwaggerSources).  The   *)
(* safety theorems of the three.                                           *)
(***************************************************************************)
EXTENDS BranchSync, PipelineRegistry, SwaggerSources, TLAPS

-----------------------------------------------------------------------------
(* The index follows the branch *)

(* Every job is a pair whose second part is the commit it names, or 0. *)
LEMMA JobShape ==
  /\ \A j \in Jobs : j[2] \in 0..CommitBound /\ (j \in Named => j[2] \in Commits)
  /\ \A j \in Jobs : j \in Named \/ j[2] = 0
  /\ Named \subseteq Jobs /\ Manual \in Jobs
  /\ \A c \in Commits : <<"webhook", c>> \in Named /\ <<"scheduled", c>> \in Named
  BY CommitBoundAssumption DEF Jobs, Named, Manual, Commits

(* A source that has no job, hook or synchronisation yet satisfies IInv. *)
LEMMA InitIInv == Init => IInv
<1> SUFFICES ASSUME Init PROVE IInv
  OBVIOUS
<1>1. TypeOK
  <2>1. head \in Commits /\ synced \in 0..CommitBound /\ target \in 0..CommitBound
    BY CommitBoundAssumption DEF Init
  <2>2. state \in [Jobs -> {"none", "succeeded", "failed"} \cup Open] /\ attempt \in [Jobs -> Nat]
    BY DEF Init
  <2>3. job \in Jobs
    BY JobShape DEF Init
  <2>4. /\ hooks \subseteq Commits
        /\ pc \in {"down", "idle", "scan", "snapshot", "index", "verdict"}
        /\ trouble \in Nat
        /\ rewound \in BOOLEAN
    BY DEF Init
  <2> QED
    BY <2>1, <2>2, <2>3, <2>4 DEF TypeOK
<1>2. \A j \in Jobs : state[j] = "none"
  BY DEF Init
<1>3. SucceededIsIndexed /\ WorkInHand
  BY <1>2 DEF Init, SucceededIsIndexed, WorkInHand
<1>4. KnownCommits
  BY <1>2, JobShape, CommitBoundAssumption DEF Init, KnownCommits, Commits
<1> QED
  BY <1>1, <1>3, <1>4 DEF IInv

(* Pushes and what they announce: jobs are only queued, for pushed commits. *)
LEMMA AnnounceIInv ==
  ASSUME IInv, (\E c \in Commits : Push(c)) \/ Announce
  PROVE  IInv'
<1> USE CommitBoundAssumption, JobShape DEF IInv, TypeOK, SucceededIsIndexed, KnownCommits, WorkInHand, work, queue
<1>1. ASSUME NEW c \in Commits, Push(c) PROVE IInv'
  <2>1. TypeOK'
    BY <1>1 DEF Push
  <2>a. ~rewound' => ~rewound /\ ~(c < head)
    BY <1>1, Zenon DEF Push
  <2>b. head \in Int /\ c \in Int /\ c # head /\ head' = c
    BY <1>1 DEF Push, Commits
  <2>2. ~rewound' => ~rewound /\ head \in Int /\ head' \in Int /\ head' > head
    BY <2>a, <2>b
  <2>3. (SucceededIsIndexed /\ WorkInHand)'
    BY <1>1, <2>2 DEF Push
  <2>4. KnownCommits'
    BY <1>1, <2>2 DEF Push, Commits
  <2> QED
    BY <2>1, <2>3, <2>4
<1>2. ASSUME NEW c \in Commits, LoseHook(c) PROVE IInv'
  BY <1>2 DEF LoseHook
<1>3. ASSUME NEW c \in Commits, NEW again \in BOOLEAN, DeliverHook(c, again) PROVE IInv'
  <2>1. <<"webhook", c>> \in Named /\ <<"webhook", c>> \in Jobs
    OBVIOUS
  <2>2. (TypeOK /\ SucceededIsIndexed /\ WorkInHand)'
    BY <1>3, <2>1 DEF DeliverHook, Enqueue, Open
  <2>3. ~rewound' => ~rewound /\ c <= head
    BY <1>3 DEF DeliverHook
  <2>4. KnownCommits'
    BY <1>3, <2>1, <2>3 DEF DeliverHook, Enqueue
  <2> QED
    BY <2>2, <2>4
<1>4. ASSUME ManualSync PROVE IInv'
  BY <1>4 DEF ManualSync, Manual, Named, Jobs, Open
<1>5. ASSUME NEW j \in Jobs, AdminRetry(j) PROVE IInv'
  BY <1>5 DEF AdminRetry, Open
<1> QED
  BY <1>1, <1>2, <1>3, <1>4, <1>5 DEF Announce

(* The steps of the worker. *)
LEMMA WorkIInv ==
  ASSUME IInv, Work
  PROVE  IInv'
<1> USE CommitBoundAssumption, JobShape DEF IInv, TypeOK, SucceededIsIndexed, KnownCommits, WorkInHand, work, queue
<1>1. ASSUME ScanBranch PROVE IInv'
  BY <1>1 DEF ScanBranch, Commits
<1>2. ASSUME ScanEnqueue PROVE IInv'
  <2>a. target \in Commits
    BY <1>2 DEF ScanEnqueue, Commits
  <2>1. target \in Commits /\ <<"scheduled", target>> \in Named
    BY <2>a
  <2>2. (TypeOK /\ SucceededIsIndexed /\ WorkInHand)'
    BY <1>2, <2>1 DEF ScanEnqueue, Enqueue, Open
  <2>3. KnownCommits'
    BY <1>2, <2>1 DEF ScanEnqueue, Enqueue
  <2> QED
    BY <2>2, <2>3
<1>3. ASSUME NEW j \in Jobs, Claim(j) PROVE IInv'
  BY <1>3 DEF Claim, Open
<1>4. ASSUME Snapshot PROVE IInv'
  BY <1>4 DEF Snapshot, Commits
<1>5. ASSUME Index PROVE IInv'
  <2>1. TypeOK' /\ WorkInHand'
    BY <1>5 DEF Index
  <2>2. ~rewound => synced \in Int /\ target \in Int /\ synced' = target /\ target >= synced
    BY <1>5 DEF Index
  <2>3. SucceededIsIndexed'
    BY <1>5, <2>2 DEF Index
  <2>4. KnownCommits'
    BY <1>5, <2>2 DEF Index
  <2> QED
    BY <2>1, <2>3, <2>4
<1>6. ASSUME Complete PROVE IInv'
  <2>1. TypeOK'
    BY <1>6 DEF Complete, Done
  <2>2. \A j \in Jobs : state'[j] = IF j = job THEN "succeeded" ELSE state[j]
    BY <1>6 DEF Complete, Done
  <2>3. /\ UNCHANGED <<head, synced, hooks, job, rewound>>
        /\ pc = "verdict" /\ pc' = "idle" /\ target' = 0
    BY <1>6 DEF Complete, Done
  <2>4. SucceededIsIndexed'
    BY <2>2, <2>3
  <2>5. \A j \in Jobs : state'[j] # "none" => state[j] # "none"
    BY <2>2, <2>3
  <2>6. (KnownCommits /\ WorkInHand)'
    BY <2>3, <2>5, <2>1 DEF Commits
  <2> QED
    BY <2>1, <2>4, <2>6
<1> QED
  BY <1>1, <1>2, <1>3, <1>4, <1>5, <1>6 DEF Work

(* Exceptions, crashes and restarts: no job becomes a success. *)
LEMMA TroubleIInv ==
  ASSUME IInv, Raise \/ Crash \/ (\E stale \in BOOLEAN : Restart(stale))
  PROVE  IInv'
<1> USE CommitBoundAssumption, TroubleBoundAssumption, JobShape DEF IInv, TypeOK, work, queue
<1>1. ASSUME Raise PROVE IInv'
  <2>1. TypeOK'
    BY <1>1 DEF Raise, Done, Open
  <2>2. \A j \in Jobs : state'[j] = "succeeded" => state[j] = "succeeded"
    BY <1>1 DEF Raise, Done
  <2>3. \A j \in Jobs : state'[j] # "none" => state[j] # "none"
    BY <1>1 DEF Raise, Done, WorkInHand
  <2>4. SucceededIsIndexed'
    BY <1>1, <2>2 DEF Raise, Done, SucceededIsIndexed
  <2>5. KnownCommits' /\ WorkInHand'
    BY <1>1, <2>3 DEF Raise, Done, KnownCommits, WorkInHand, Commits
  <2> QED
    BY <2>1, <2>4, <2>5
<1>2. ASSUME Crash PROVE IInv'
  <2>1. TypeOK'
    BY <1>2 DEF Crash
  <2>2. (SucceededIsIndexed /\ KnownCommits /\ WorkInHand)'
    BY <1>2 DEF Crash, SucceededIsIndexed, KnownCommits, WorkInHand, Commits
  <2> QED
    BY <2>1, <2>2
<1>3. ASSUME NEW stale \in BOOLEAN, Restart(stale) PROVE IInv'
  <2>1. TypeOK'
    BY <1>3 DEF Restart, Open
  <2>2. \A j \in Jobs : state'[j] = "succeeded" => state[j] = "succeeded"
    BY <1>3 DEF Restart
  <2>3. \A j \in Jobs : state'[j] # "none" => state[j] # "none"
    BY <1>3 DEF Restart
  <2>4. (SucceededIsIndexed /\ KnownCommits /\ WorkInHand)'
    BY <1>3, <2>2, <2>3 DEF Restart, SucceededIsIndexed, KnownCommits, WorkInHand
  <2> QED
    BY <2>1, <2>4
<1> QED
  BY <1>1, <1>2, <1>3

LEMMA NextIInv == IInv /\ [Next]_vars => IInv'
<1> SUFFICES ASSUME IInv, [Next]_vars PROVE IInv'
  OBVIOUS
<1>1. CASE UNCHANGED vars
  BY <1>1 DEF vars, work, queue, IInv, TypeOK, SucceededIsIndexed, KnownCommits, WorkInHand
<1> QED
  BY <1>1, AnnounceIInv, WorkIInv, TroubleIInv DEF Next

LEMMA AlwaysIInv == Spec => []IInv
<1> QED
  BY InitIInv, NextIInv, PTL DEF Spec

(* While the branch only moves forward, a succeeded job's commit, or a later *)
(* one, stays searchable. *)
THEOREM SucceededStaysIndexed == Spec => []SucceededIsIndexed
<1>1. IInv => SucceededIsIndexed
  BY DEF IInv
<1> QED
  BY <1>1, AlwaysIInv, PTL

(* While the branch only moves forward, so does the index. *)
THEOREM IndexMovesForward == Spec => SyncedMovesForward
<1>1. IInv /\ [Next]_vars => [~rewound' => synced' >= synced]_vars
  <2> SUFFICES ASSUME IInv, Next, ~rewound' PROVE synced' >= synced
    BY DEF vars
  <2>1. synced \in Int
    BY CommitBoundAssumption DEF IInv, TypeOK
  <2>2. CASE Index
    BY <2>2 DEF Index, IInv, KnownCommits
  <2>3. CASE synced' = synced
    BY <2>1, <2>3
  <2> QED
    BY <2>2, <2>3
    DEF Next, Announce, Work, Push, LoseHook, DeliverHook, ManualSync, AdminRetry, ScanBranch,
        ScanEnqueue, Claim, Snapshot, Complete, Done, Raise, Crash, Restart
<1> QED
  BY <1>1, AlwaysIInv, PTL DEF Spec, SyncedMovesForward

-----------------------------------------------------------------------------
(* The cache follows the index *)

USE DEF Cached, Empty, Refreshing, Places

\* The empty cache satisfies the invariant.
LEMMA CacheInitIInv == CacheInit => CacheIInv
<1> SUFFICES ASSUME CacheInit PROVE CacheIInv
  OBVIOUS
<1>1. CacheTypeOK
  BY WarmAssumption DEF CacheInit, CacheTypeOK
<1>2. Null \notin Nat
  BY NullAssumption
<1>3. RemovedNotServed /\ BuildsAreOfNow
  BY <1>2 DEF CacheInit, RemovedNotServed, BuildsAreOfNow
<1> QED
  BY <1>1, <1>3 DEF CacheIInv

\* Types, action by action.
LEMMA CacheTypesStep == CacheTypeOK /\ [CacheNext]_cacheVars => CacheTypeOK'
<1> SUFFICES ASSUME CacheTypeOK, [CacheNext]_cacheVars PROVE CacheTypeOK'
  OBVIOUS
<1> USE DEF CacheTypeOK, store, refreshing, calls, kept
<1>1. CASE UNCHANGED cacheVars
  BY <1>1 DEF cacheVars
<1>2. ASSUME NEW t \in Threads, NEW k \in Keys, Get(t, k) PROVE CacheTypeOK'
  BY <1>2 DEF Get
<1>3. ASSUME NEW t \in Threads, Acquire(t) PROVE CacheTypeOK'
  BY <1>3 DEF Acquire
<1>4. ASSUME NEW t \in Threads, FindCached(t) PROVE CacheTypeOK'
  BY <1>4 DEF FindCached, Section, Return
<1>5. ASSUME NEW t \in Threads, Miss(t) PROVE CacheTypeOK'
  BY <1>5 DEF Miss, Section
<1>6. ASSUME NEW t \in Threads, TakeBuildLock(t) PROVE CacheTypeOK'
  BY <1>6 DEF TakeBuildLock
<1>7. ASSUME NEW t \in Threads, FindBuilt(t) PROVE CacheTypeOK'
  BY <1>7 DEF FindBuilt, Section, Return, Release
<1>8. ASSUME NEW t \in Threads, StartBuild(t) PROVE CacheTypeOK'
  BY <1>8 DEF StartBuild, Section
<1>9. ASSUME NEW t \in Threads, Build(t) PROVE CacheTypeOK'
  BY <1>9 DEF Build
<1>10. ASSUME NEW t \in Threads, BuildFails(t) PROVE CacheTypeOK'
  BY <1>10 DEF BuildFails, Return, Release
<1>11. ASSUME NEW t \in Threads, Install(t) PROVE CacheTypeOK'
  BY <1>11 DEF Install, Section, Return, Release
<1>12. ASSUME NEW t \in Threads, TryAgain(t) PROVE CacheTypeOK'
  BY <1>12 DEF TryAgain, Section, Release
<1>13. ASSUME NEW kind \in {"updating", "removing"}, StartChange(kind) PROVE CacheTypeOK'
  BY <1>13 DEF StartChange
<1>14. CASE EndChange
  BY <1>14 DEF EndChange
<1>15. CASE ChangeRaises
  BY <1>15 DEF ChangeRaises
<1>16. CASE IndexerAcquires
  BY <1>16 DEF IndexerAcquires
<1>17. CASE Invalidate
  <2>1. pipelines' \in Cached
    BY <1>17 DEF Invalidate
  <2>2. generation' \in Nat /\ floor' \in Nat /\ lock' \in Threads \cup {Indexer, Null}
    BY <1>17 DEF Invalidate, Indexing
  <2>3. UNCHANGED <<data, warm, snapshots, fresh, place, key, builder, seen, built, staleWhileRefresh>>
        /\ worker' = "idle" /\ untold' = FALSE
    BY <1>17 DEF Invalidate
  <2> QED
    BY <2>1, <2>2, <2>3
<1>18. CASE RefreshNothing
  BY <1>18 DEF RefreshNothing, Indexing
<1>19. CASE TakeSnapshot
  BY <1>19 DEF TakeSnapshot, Indexing
<1>20. ASSUME NEW k \in Keys, Rebuild(k) PROVE CacheTypeOK'
  BY <1>20 DEF Rebuild
<1>21. CASE RebuildFails
  BY <1>21 DEF RebuildFails
<1>22. CASE NoteFailure
  BY <1>22 DEF NoteFailure, Indexing
<1>23. CASE Publish
  BY <1>23 DEF Publish, AllRebuilt, Indexing
<1> QED
  BY <1>1, <1>2, <1>3, <1>4, <1>5, <1>6, <1>7, <1>8, <1>9, <1>10, <1>11, <1>12, <1>13, <1>14,
     <1>15, <1>16, <1>17, <1>18, <1>19, <1>20, <1>21, <1>22, <1>23 DEF CacheNext, Query, InSection, Refresh, IndexerInSection

\* Ages of pipelines and builds, action by action.
LEMMA CacheAgesStep == CacheIInv /\ [CacheNext]_cacheVars => RemovedNotServed' /\ BuildsAreOfNow'
<1> SUFFICES ASSUME CacheIInv, [CacheNext]_cacheVars PROVE RemovedNotServed' /\ BuildsAreOfNow'
  OBVIOUS
<1> USE DEF RemovedNotServed, BuildsAreOfNow, store, refreshing, calls, kept
<1>t. /\ data \in Nat /\ generation \in Nat /\ floor \in Nat
      /\ pipelines \in Cached /\ snapshots \in Cached /\ fresh \in Cached
      /\ seen \in [Threads -> Nat] /\ built \in [Threads -> Nat]
      /\ key \in [Threads -> Keys]
      /\ place \in [Threads -> Places]
  BY DEF CacheIInv, CacheTypeOK
<1>a. RemovedNotServed /\ BuildsAreOfNow
  BY DEF CacheIInv
<1>n. Null \notin Nat
  BY NullAssumption
<1>1. CASE UNCHANGED cacheVars
  BY <1>1, <1>a DEF cacheVars
<1>2. ASSUME NEW t \in Threads, NEW k \in Keys, Get(t, k) PROVE RemovedNotServed' /\ BuildsAreOfNow'
  BY <1>2, <1>a, <1>t DEF Get
<1>3. ASSUME NEW t \in Threads, Acquire(t) PROVE RemovedNotServed' /\ BuildsAreOfNow'
  BY <1>3, <1>a, <1>t DEF Acquire
<1>4. ASSUME NEW t \in Threads, FindCached(t) PROVE RemovedNotServed' /\ BuildsAreOfNow'
  BY <1>4, <1>a, <1>t DEF FindCached, Section, Return
<1>5. ASSUME NEW t \in Threads, Miss(t) PROVE RemovedNotServed' /\ BuildsAreOfNow'
  BY <1>5, <1>a, <1>t DEF Miss, Section
<1>6. ASSUME NEW t \in Threads, TakeBuildLock(t) PROVE RemovedNotServed' /\ BuildsAreOfNow'
  BY <1>6, <1>a, <1>t DEF TakeBuildLock
<1>7. ASSUME NEW t \in Threads, FindBuilt(t) PROVE RemovedNotServed' /\ BuildsAreOfNow'
  BY <1>7, <1>a, <1>t DEF FindBuilt, Section, Return, Release
<1>8. ASSUME NEW t \in Threads, StartBuild(t) PROVE RemovedNotServed' /\ BuildsAreOfNow'
  BY <1>8, <1>a, <1>t DEF StartBuild, Section
<1>9. ASSUME NEW t \in Threads, Build(t) PROVE RemovedNotServed' /\ BuildsAreOfNow'
  BY <1>9, <1>a, <1>t DEF Build
<1>10. ASSUME NEW t \in Threads, BuildFails(t) PROVE RemovedNotServed' /\ BuildsAreOfNow'
  BY <1>10, <1>a, <1>t DEF BuildFails, Return, Release
<1>11. ASSUME NEW t \in Threads, Install(t) PROVE RemovedNotServed' /\ BuildsAreOfNow'
  BY <1>11, <1>a, <1>t DEF Install, Section, Return, Release
<1>12. ASSUME NEW t \in Threads, TryAgain(t) PROVE RemovedNotServed' /\ BuildsAreOfNow'
  BY <1>12, <1>a, <1>t DEF TryAgain, Section, Release
<1>13. ASSUME NEW kind \in {"updating", "removing"}, StartChange(kind) PROVE RemovedNotServed' /\ BuildsAreOfNow'
  BY <1>13, <1>a, <1>t DEF StartChange
<1>14. CASE EndChange
  BY <1>14, <1>a, <1>t DEF EndChange
<1>15. CASE ChangeRaises
  BY <1>15, <1>a, <1>t DEF ChangeRaises
<1>16. CASE IndexerAcquires
  BY <1>16, <1>a, <1>t DEF IndexerAcquires
<1>17. CASE Invalidate
  BY <1>17, <1>a, <1>t DEF Invalidate, Indexing
<1>18. CASE RefreshNothing
  BY <1>18, <1>a, <1>t DEF RefreshNothing, Indexing
<1>19. CASE TakeSnapshot
  BY <1>19, <1>a, <1>t DEF TakeSnapshot, Indexing
<1>20. ASSUME NEW k \in Keys, Rebuild(k) PROVE RemovedNotServed' /\ BuildsAreOfNow'
  BY <1>20, <1>a, <1>t DEF Rebuild
<1>21. CASE RebuildFails
  BY <1>21, <1>a, <1>t DEF RebuildFails
<1>22. CASE NoteFailure
  BY <1>22, <1>a, <1>t DEF NoteFailure, Indexing
<1>23. CASE Publish
  BY <1>23, <1>a, <1>t, <1>n DEF Publish, AllRebuilt, Indexing
<1> QED
  BY <1>1, <1>2, <1>3, <1>4, <1>5, <1>6, <1>7, <1>8, <1>9, <1>10, <1>11, <1>12, <1>13, <1>14,
     <1>15, <1>16, <1>17, <1>18, <1>19, <1>20, <1>21, <1>22, <1>23 DEF CacheNext, Query, InSection, Refresh, IndexerInSection

\* The inductive invariant holds throughout.
LEMMA CacheIInvHolds == CacheSpec => []CacheIInv
<1>1. CacheIInv /\ [CacheNext]_cacheVars => CacheIInv'
  BY CacheTypesStep, CacheAgesStep DEF CacheIInv
<1> QED BY CacheInitIInv, <1>1, PTL DEF CacheSpec

\* After an invalidation nothing built before it is cached again, for any
\* number of query threads and scopes: the generation check of get() closes the
\* race with builds in progress.
THEOREM RemovedStaysOut == CacheSpec => []RemovedNotServed
BY CacheIInvHolds, PTL DEF CacheIInv

\* A refresh keeps every cached pipeline until its replacement is ready, and
\* the cache never goes back to an older state of the store.
THEOREM CacheForward == CacheSpec => CacheMovesForward
<1> DEFINE P == \A k \in Keys : pipelines[k] # Null =>
        IF pipelines'[k] = Null THEN worker = "invalidate" ELSE pipelines'[k] >= pipelines[k]
<1>1. CacheIInv /\ [CacheNext]_cacheVars => P
  <2> SUFFICES ASSUME CacheIInv, [CacheNext]_cacheVars, NEW k \in Keys, pipelines[k] # Null
               PROVE  IF pipelines'[k] = Null THEN worker = "invalidate"
                                              ELSE pipelines'[k] >= pipelines[k]
    OBVIOUS
  <2>t. pipelines \in Cached /\ fresh \in Cached /\ data \in Nat /\ key \in [Threads -> Keys]
    BY DEF CacheIInv, CacheTypeOK
  <2>r. pipelines[k] \in Nat
    BY <2>t
  <2>1. CASE pipelines' = pipelines
    BY <2>1, <2>r, NullAssumption
  <2>2. CASE Invalidate
    BY <2>2, <2>t DEF Invalidate, Indexing
  <2>3. ASSUME NEW t \in Threads, Install(t)
        PROVE  pipelines'[k] = pipelines[k]
    BY <2>3, <2>t DEF Install
  <2>4. CASE Publish
    <3>1. fresh[k] # Null => fresh[k] >= pipelines[k]
      BY DEF CacheIInv, BuildsAreOfNow
    <3>2. pipelines'[k] = IF snapshots[k] # Null /\ pipelines[k] = snapshots[k]
                          THEN fresh[k] ELSE pipelines[k]
      BY <2>4 DEF Publish
    <3>3. snapshots[k] # Null => fresh[k] # Null
      BY <2>4 DEF Publish, AllRebuilt
    <3> QED
      BY <3>1, <3>2, <3>3, <2>r, NullAssumption
  <2> QED
    BY <2>1, <2>2, <2>3, <2>4, <2>r, NullAssumption
       DEF CacheNext, Query, InSection, Refresh, IndexerInSection, cacheVars, Get, Acquire, FindCached, Miss, TakeBuildLock,
           FindBuilt, StartBuild, Build, BuildFails, TryAgain, StartChange, EndChange, ChangeRaises, IndexerAcquires,
           RefreshNothing, TakeSnapshot, Rebuild, RebuildFails, NoteFailure
<1> QED BY CacheIInvHolds, <1>1, PTL DEF CacheSpec, CacheMovesForward

\* Switched off, every change of the store that does not raise ends in an invalidation.
LEMMA CacheOffStep == SwitchedOff /\ [CacheNext]_cacheVars => SwitchedOff'
<1> SUFFICES ASSUME SwitchedOff, [CacheNext]_cacheVars PROVE SwitchedOff'
  OBVIOUS
<1> USE DEF SwitchedOff, Refreshing
<1>1. staleWhileRefresh' = staleWhileRefresh
  BY DEF CacheNext, Query, InSection, Refresh, IndexerInSection, cacheVars, Get, Acquire, FindCached, Miss, TakeBuildLock,
         FindBuilt, StartBuild, Build, BuildFails, Install, TryAgain, StartChange, EndChange, ChangeRaises, IndexerAcquires,
         Invalidate, RefreshNothing, TakeSnapshot, Rebuild, RebuildFails, NoteFailure, Publish, kept
<1>2. CASE UNCHANGED <<worker, data, floor, untold>>
  BY <1>1, <1>2
<1>3. CASE \E kind \in {"updating", "removing"} : StartChange(kind)
  BY <1>1, <1>3 DEF StartChange
<1>4. CASE EndChange
  BY <1>1, <1>4 DEF EndChange
<1>5. CASE ChangeRaises
  BY <1>1, <1>5 DEF ChangeRaises
<1>6. CASE Refresh
  BY <1>1, <1>6 DEF Refresh, IndexerInSection, IndexerAcquires, Indexing, Invalidate, RefreshNothing, TakeSnapshot, Rebuild,
                    RebuildFails, NoteFailure, Publish, AllRebuilt, store, kept
<1> QED
  BY <1>2, <1>3, <1>4, <1>5, <1>6 DEF CacheNext, Query, InSection, cacheVars, Get, Acquire, FindCached, Miss, TakeBuildLock,
     FindBuilt, StartBuild, Build, BuildFails, Install, TryAgain, store, kept

\* With stale-while-refresh switched off, what is cached between changes was
\* built from the present content of the store, whatever builds were under way
\* while it changed.
THEOREM CacheIsCurrent == CacheSpec => []ServesCurrentIndex
<1>1. CacheInit => SwitchedOff
  BY DEF CacheInit, SwitchedOff, Refreshing
<1>2. CacheIInv /\ SwitchedOff => ServesCurrentIndex
  <2> SUFFICES ASSUME CacheIInv, SwitchedOff, worker = "idle", ~staleWhileRefresh, ~untold,
                      NEW k \in Keys, pipelines[k] # Null
               PROVE  pipelines[k] = data
    BY DEF ServesCurrentIndex
  <2>1. pipelines[k] \in Nat /\ data \in Nat
    BY DEF CacheIInv, CacheTypeOK, Cached
  <2>2. pipelines[k] >= data /\ pipelines[k] <= data
    BY DEF CacheIInv, RemovedNotServed, BuildsAreOfNow, SwitchedOff
  <2> QED
    BY <2>1, <2>2
<1> QED
  BY CacheIInvHolds, CacheOffStep, <1>1, <1>2, PTL DEF CacheSpec

-----------------------------------------------------------------------------
(* The copy follows the service *)

LEMMA NeedsType == ASSUME NEW s \in Ids PROVE Needs(s) \in Seq(Kinds)
<1>1. Auth[s] \in {"none", "bearer", "basic"}
  BY AuthAssumption DEF Ids
<1>2. <<>> \in Seq(Kinds) /\ <<"bearer_token">> \in Seq(Kinds) /\ <<"username", "password">> \in Seq(Kinds)
  BY DEF Kinds
<1>3. CASE Auth[s] = "none"
  BY <1>2, <1>3 DEF Needs
<1>4. CASE Auth[s] = "bearer"
  BY <1>2, <1>4 DEF Needs
<1>5. CASE Auth[s] = "basic"
  BY <1>2, <1>5 DEF Needs
<1> QED
  BY <1>1, <1>3, <1>4, <1>5

\* What is in a list is its head or in its tail.
LEMMA HeadAndTail ==
  ASSUME NEW S, NEW q \in Seq(S), q # <<>>
  PROVE  /\ Head(q) \in S /\ Tail(q) \in Seq(S)
         /\ Range(q) = {Head(q)} \cup Range(Tail(q))
         /\ Len(q) = 1 => Range(Tail(q)) = {}
         /\ Len(q) # 1 => Tail(q) # <<>>
<1>1. Len(q) \in Nat \ {0} /\ DOMAIN q = 1..Len(q) /\ Head(q) = q[1] /\ Head(q) \in S /\ Tail(q) \in Seq(S)
  OBVIOUS
<1>2. /\ Len(Tail(q)) = Len(q) - 1 /\ DOMAIN Tail(q) = 1..(Len(q) - 1)
      /\ \A i \in 1..(Len(q) - 1) : Tail(q)[i] = q[i + 1]
  BY <1>1
<1>3. Range(q) \subseteq {Head(q)} \cup Range(Tail(q))
  <2> SUFFICES ASSUME NEW i \in 1..Len(q), i # 1 PROVE q[i] \in Range(Tail(q))
    BY <1>1 DEF Range
  <2>1. i - 1 \in 1..(Len(q) - 1) /\ Tail(q)[i - 1] = q[i]
    BY <1>1, <1>2
  <2> QED
    BY <1>2, <2>1 DEF Range
<1>4. Range(Tail(q)) \subseteq Range(q)
  BY <1>1, <1>2 DEF Range
<1>5. Head(q) \in Range(q)
  BY <1>1 DEF Range
<1>6. Len(q) = 1 => Range(Tail(q)) = {}
  BY <1>1, <1>2 DEF Range
<1>7. Len(q) # 1 => Tail(q) # <<>>
  <2>1. SUFFICES ASSUME Tail(q) = <<>> PROVE Len(q) = 1
    OBVIOUS
  <2>2. Len(<<>>) = 0
    OBVIOUS
  <2>3. Len(q) - 1 = 0
    BY <1>2, <2>1, <2>2
  <2> QED
    BY <1>1, <2>3
<1>8. Range(q) = {Head(q)} \cup Range(Tail(q))
  BY <1>3, <1>4, <1>5
<1> QED
  BY <1>1, <1>6, <1>7, <1>8

LEMMA SwaggerInitIInv == SwaggerInit => SwaggerIInv
<1> SUFFICES ASSUME SwaggerInit PROVE SwaggerIInv
  OBVIOUS
<1>1. SwaggerTypeOK
  <2>1. \A s \in Ids : Range(Needs(s)) \subseteq Kinds
    BY NeedsType DEF Range
  <2>2. NotMaking \in [at : {"none", "secrets", "drop"}, left : Seq(Kinds)]
    BY DEF NotMaking
  <2>3. 1 \in Docs
    BY MaxDocsAssumption DEF Docs
  <2>4. NewRun.at = "idle" /\ NewRun.answers \in [Ids -> Answer]
    BY DEF NewRun, NoAnswer, Answer, Documents
  <2> QED
    BY <2>1, <2>2, <2>3, <2>4 DEF SwaggerInit, SwaggerTypeOK, Documents
<1>2. PurgedIsClean /\ OffBeforeJob /\ SecretsToCome /\ CredentialsComplete
  BY DEF SwaggerInit, PurgedIsClean, OffBeforeJob, SecretsToCome, CredentialsComplete, NotMaking, Enabled
<1>3. CopyIsNewest /\ InHand /\ AnswersAreCurrent
  BY DEF SwaggerInit, CopyIsNewest, InHand, AnswersAreCurrent, NewRun, NoAnswer, Detail, Enabled
<1> QED
  BY <1>1, <1>2, <1>3 DEF SwaggerIInv

\* What a step that leaves the documents and the inspections alone must see to: that nobody is switched on whose copy
\* is missing, and that what it takes away is not of an enabled source.
LEMMA DocumentsKept ==
  ASSUME SwaggerIInv, UNCHANGED <<served, run, best, crossed>>,
         \A s \in Ids : cache'[s] = cache[s] \/ (cache'[s] = 0 /\ ~Enabled(s)'),
         \A s \in Ids : Enabled(s)' => Enabled(s) \/ life[s] = "absent"
  PROVE  CopyIsNewest' /\ InHand' /\ AnswersAreCurrent'
<1>1. CopyIsNewest'
  BY DEF SwaggerIInv, SwaggerTypeOK, CopyIsNewest, OffBeforeJob, Documents, Docs
<1>2. InHand'
  BY DEF SwaggerIInv, InHand, Cur
<1>3. AnswersAreCurrent'
  BY <1>1 DEF SwaggerIInv, SwaggerTypeOK, AnswersAreCurrent, CopyIsNewest, Detail, Answer, Documents, Docs
<1> QED
  BY <1>1, <1>2, <1>3

\* The two steps of a registration that store a secret or do not: a row of a secret more, or one less to come.
LEMMA RegistrationIInv ==
  ASSUME SwaggerIInv, NEW s \in Ids, Register(s) \/ StoreSecret(s) \/ SecretFails(s) \/ Drop(s) \/ GiveUp(s)
  PROVE  SwaggerIInv'
<1>1. ASSUME Register(s) PROVE SwaggerIInv'
  <2>1. Needs(s) \in Seq(Kinds) /\ (Needs(s) = <<>> => Range(Needs(s)) = {})
    BY NeedsType DEF Range
  <2>2. SwaggerTypeOK'
    BY <1>1, <2>1 DEF SwaggerIInv, SwaggerTypeOK, Register, NotMaking, ghosts
  <2>3. PurgedIsClean' /\ OffBeforeJob' /\ SecretsToCome' /\ CredentialsComplete'
    <3>1. PurgedIsClean' /\ OffBeforeJob'
      BY <1>1 DEF SwaggerIInv, SwaggerTypeOK, PurgedIsClean, OffBeforeJob, Register, NotMaking, Enabled, ghosts
    <3>2. secrets[s] = {} /\ UNCHANGED <<secrets, orphaned>>
      BY <1>1 DEF SwaggerIInv, OffBeforeJob, Register, ghosts
    <3>3. /\ \A t \in Ids \ {s} : making'[t] = making[t] /\ (Enabled(t)' <=> Enabled(t))
          /\ IF Needs(s) = <<>> THEN making'[s].at = "none"
             ELSE making'[s].at = "secrets" /\ making'[s].left = Needs(s)
      BY <1>1 DEF SwaggerIInv, SwaggerTypeOK, Register, NotMaking, Enabled
    <3> QED
      BY <2>1, <3>1, <3>2, <3>3 DEF SwaggerIInv, SecretsToCome, CredentialsComplete
  <2>4. CopyIsNewest' /\ InHand' /\ AnswersAreCurrent'
    BY <1>1, DocumentsKept DEF SwaggerIInv, SwaggerTypeOK, Register, Enabled, ghosts
  <2> QED
    BY <2>2, <2>3, <2>4 DEF SwaggerIInv
<1>2. ASSUME StoreSecret(s) PROVE SwaggerIInv'
  <2> DEFINE left == making[s].left
  <2>1. left \in Seq(Kinds) /\ left # <<>>
    BY <1>2 DEF SwaggerIInv, SwaggerTypeOK, SecretsToCome, StoreSecret
  <2>2. /\ Head(left) \in Kinds /\ Tail(left) \in Seq(Kinds)
        /\ Range(left) = {Head(left)} \cup Range(Tail(left))
        /\ Len(left) = 1 => Range(Tail(left)) = {}
        /\ Len(left) # 1 => Tail(left) # <<>>
    BY <2>1, HeadAndTail, Zenon
  <2>3. making' = [making EXCEPT ![s] = IF Len(left) = 1 THEN NotMaking ELSE [at |-> "secrets", left |-> Tail(left)]]
    BY <1>2 DEF StoreSecret
  <2>4. SwaggerTypeOK'
    <3>1. making' \in [Ids -> [at : {"none", "secrets", "drop"}, left : Seq(Kinds)]]
      BY <2>2, <2>3 DEF SwaggerIInv, SwaggerTypeOK, NotMaking
    <3>2. secrets' \in [Ids -> SUBSET Kinds]
      BY <1>2, <2>2 DEF SwaggerIInv, SwaggerTypeOK, StoreSecret
    <3> QED
      BY <1>2, <3>1, <3>2 DEF SwaggerIInv, SwaggerTypeOK, StoreSecret
  <2>5. PurgedIsClean' /\ OffBeforeJob'
    BY <1>2, <2>3 DEF SwaggerIInv, SwaggerTypeOK, PurgedIsClean, OffBeforeJob, StoreSecret, HasRow, Enabled, NotMaking
  <2>6. SecretsToCome' /\ CredentialsComplete'
    <3>1. /\ \A t \in Ids \ {s} : secrets'[t] = secrets[t] /\ making'[t] = making[t]
          /\ secrets'[s] = secrets[s] \cup {Head(left)}
          /\ UNCHANGED <<life, orphaned>>
      BY <1>2, <2>3 DEF SwaggerIInv, SwaggerTypeOK, StoreSecret
    <3>2. IF Len(left) = 1 THEN making'[s].at = "none"
          ELSE making'[s].at = "secrets" /\ making'[s].left = Tail(left)
      BY <2>3 DEF SwaggerIInv, SwaggerTypeOK, NotMaking
    <3>3. s \notin orphaned /\ Enabled(s) => secrets[s] \cup Range(left) = Range(Needs(s))
      BY <1>2 DEF SwaggerIInv, SecretsToCome, StoreSecret
    <3> QED
      BY <2>2, <3>1, <3>2, <3>3 DEF SwaggerIInv, SecretsToCome, CredentialsComplete, Enabled
  <2>7. CopyIsNewest' /\ InHand' /\ AnswersAreCurrent'
    BY <1>2, DocumentsKept DEF StoreSecret, Enabled
  <2> QED
    BY <2>4, <2>5, <2>6, <2>7 DEF SwaggerIInv
<1>3. ASSUME SecretFails(s) PROVE SwaggerIInv'
  <2>1. SwaggerTypeOK'
    BY <1>3 DEF SwaggerIInv, SwaggerTypeOK, SecretFails, rows, ghosts
  <2>2. PurgedIsClean' /\ OffBeforeJob' /\ SecretsToCome' /\ CredentialsComplete'
    BY <1>3 DEF SwaggerIInv, SwaggerTypeOK, PurgedIsClean, OffBeforeJob, SecretsToCome, CredentialsComplete,
                SecretFails, Enabled,
                rows, ghosts
  <2>3. CopyIsNewest' /\ InHand' /\ AnswersAreCurrent'
    BY <1>3, DocumentsKept DEF SecretFails, Enabled, rows, ghosts
  <2> QED
    BY <2>1, <2>2, <2>3 DEF SwaggerIInv
<1>4. ASSUME Drop(s) PROVE SwaggerIInv'
  <2>1. SwaggerTypeOK'
    BY <1>4 DEF SwaggerIInv, SwaggerTypeOK, Drop, NotMaking, Documents, ghosts
  <2>2. PurgedIsClean' /\ OffBeforeJob' /\ SecretsToCome' /\ CredentialsComplete'
    BY <1>4 DEF SwaggerIInv, SwaggerTypeOK, PurgedIsClean, OffBeforeJob, SecretsToCome, CredentialsComplete, Drop,
                Enabled, NotMaking,
                ghosts
  <2>3. CopyIsNewest' /\ InHand' /\ AnswersAreCurrent'
    BY <1>4, DocumentsKept DEF SwaggerIInv, SwaggerTypeOK, Drop, Enabled, ghosts
  <2> QED
    BY <2>1, <2>2, <2>3 DEF SwaggerIInv
<1>5. ASSUME GiveUp(s) PROVE SwaggerIInv'
  <2>1. SwaggerTypeOK'
    BY <1>5 DEF SwaggerIInv, SwaggerTypeOK, GiveUp, NotMaking, rows
  <2>2. PurgedIsClean' /\ OffBeforeJob' /\ SecretsToCome' /\ CredentialsComplete'
    BY <1>5 DEF SwaggerIInv, SwaggerTypeOK, PurgedIsClean, OffBeforeJob, SecretsToCome, CredentialsComplete, GiveUp,
                Enabled, NotMaking,
                rows
  <2>3. CopyIsNewest' /\ InHand' /\ AnswersAreCurrent'
    BY <1>5, DocumentsKept DEF GiveUp, Enabled, rows
  <2> QED
    BY <2>1, <2>2, <2>3 DEF SwaggerIInv
<1> QED
  BY <1>1, <1>2, <1>3, <1>4, <1>5

\* The steps of a deletion.
LEMMA DeletionIInv ==
  ASSUME SwaggerIInv, NEW s \in Ids,
         \/ AskDeletion(s) \/ EnqueueDeletion(s) \/ ClaimDeletion(s) \/ DeleteSecrets(s) \/ Purge(s)
         \/ RecordDeleted(s)
         \/ DeletionFails(s)
  PROVE  SwaggerIInv'
<1> USE DEF JobAt, rows, ghosts
<1>1. SwaggerTypeOK'
  <2>1. life' = life \/ \E to \in {"deleting", "deleted"} : life' = [life EXCEPT ![s] = to]
    BY DEF AskDeletion, EnqueueDeletion, ClaimDeletion, DeleteSecrets, Purge, RecordDeleted, DeletionFails
  <2>2. \E to \in {"none", "marked", "queued", "unsecret", "purge", "record", "failed"} :
         deletion' = [deletion EXCEPT ![s] = to]
    BY DEF AskDeletion, EnqueueDeletion, ClaimDeletion, DeleteSecrets, Purge, RecordDeleted, DeletionFails
  <2>3. secrets' \in [Ids -> SUBSET Kinds] /\ cache' \in [Ids -> Documents]
    BY DEF SwaggerIInv, SwaggerTypeOK, Documents, AskDeletion, EnqueueDeletion, ClaimDeletion, DeleteSecrets, Purge,
           RecordDeleted, DeletionFails
  <2>4. UNCHANGED <<served, making, run, best, crossed, orphaned>>
    BY DEF AskDeletion, EnqueueDeletion, ClaimDeletion, DeleteSecrets, Purge, RecordDeleted, DeletionFails
  <2>5. life' \in [Ids -> {"absent", "active", "deleting", "deleted", "dropped"}]
    BY <2>1 DEF SwaggerIInv, SwaggerTypeOK
  <2>6. deletion' \in [Ids -> {"none", "marked", "queued", "unsecret", "purge", "record", "failed"}]
    BY <2>2 DEF SwaggerIInv, SwaggerTypeOK
  <2> QED
    BY <2>3, <2>4, <2>5, <2>6 DEF SwaggerIInv, SwaggerTypeOK
<1>2. PurgedIsClean'
  BY DEF SwaggerIInv, SwaggerTypeOK, PurgedIsClean, AskDeletion, EnqueueDeletion, ClaimDeletion, DeleteSecrets,
         Purge, RecordDeleted, DeletionFails
<1>3. \A t \in Ids : Enabled(t)' => Enabled(t)
  BY DEF SwaggerIInv, SwaggerTypeOK, Enabled, AskDeletion, EnqueueDeletion, ClaimDeletion, DeleteSecrets, Purge,
         RecordDeleted, DeletionFails
<1>4. OffBeforeJob'
  BY <1>3 DEF SwaggerIInv, SwaggerTypeOK, OffBeforeJob, Enabled, AskDeletion, EnqueueDeletion, ClaimDeletion,
              DeleteSecrets, Purge, RecordDeleted,
              DeletionFails
<1>5. \A t \in Ids : Enabled(t)' => secrets'[t] = secrets[t] /\ cache'[t] = cache[t]
  BY DEF SwaggerIInv, SwaggerTypeOK, OffBeforeJob, Enabled, AskDeletion, EnqueueDeletion, ClaimDeletion,
         DeleteSecrets, Purge, RecordDeleted,
         DeletionFails
<1>6. making' = making /\ orphaned' = orphaned
  BY DEF AskDeletion, EnqueueDeletion, ClaimDeletion, DeleteSecrets, Purge, RecordDeleted, DeletionFails
<1>7. SecretsToCome' /\ CredentialsComplete'
  BY <1>3, <1>5, <1>6 DEF SwaggerIInv, SecretsToCome, CredentialsComplete
<1>8. /\ UNCHANGED <<served, run, best, crossed>>
      /\ \A t \in Ids : cache'[t] = cache[t] \/ cache'[t] = 0
  BY DEF SwaggerIInv, SwaggerTypeOK, AskDeletion, EnqueueDeletion, ClaimDeletion, DeleteSecrets, Purge,
         RecordDeleted, DeletionFails
<1>9. CopyIsNewest' /\ InHand' /\ AnswersAreCurrent'
  <2>1. \A t \in Ids : cache'[t] = cache[t] \/ (cache'[t] = 0 /\ ~Enabled(t)')
    BY <1>5, <1>8
  <2> QED
    BY <1>3, <1>8, <2>1, DocumentsKept
<1> QED
  BY <1>1, <1>2, <1>4, <1>7, <1>9 DEF SwaggerIInv

\* A newer document is published.
LEMMA PublishIInv == ASSUME SwaggerIInv, NEW s \in Ids, PublishDocument(s) PROVE SwaggerIInv'
<1>1. /\ served' \in [Ids -> Docs] /\ \A t \in Ids : served[t] <= served'[t]
      /\ UNCHANGED <<rows, making, deletion, run, ghosts>>
  BY MaxDocsAssumption DEF SwaggerIInv, SwaggerTypeOK, PublishDocument, Docs
<1>2. SwaggerTypeOK' /\ PurgedIsClean' /\ OffBeforeJob' /\ SecretsToCome' /\ CredentialsComplete' /\ CopyIsNewest'
  BY <1>1 DEF SwaggerIInv, SwaggerTypeOK, PurgedIsClean, OffBeforeJob, SecretsToCome, CredentialsComplete,
              CopyIsNewest, Enabled,
              rows, ghosts
<1>3. InHand'
  <2>1. \A r \in Runs, t \in Ids : run[r].at \in {"fetch", "put"} /\ Cur(r) = t => run[r].since <= served'[t]
    <3> SUFFICES ASSUME NEW r \in Runs, NEW t \in Ids, run[r].at \in {"fetch", "put"}, Cur(r) = t
                 PROVE  run[r].since <= served'[t]
      OBVIOUS
    <3>1. run[r].since \in Int /\ run[r].since <= served[t]
      BY MaxDocsAssumption DEF SwaggerIInv, InHand, Documents, Docs
    <3>2. served[t] \in Int /\ served'[t] \in Int
      BY <1>1, MaxDocsAssumption DEF SwaggerIInv, SwaggerTypeOK, Docs
    <3> QED
      BY <1>1, <3>1, <3>2
  <2> QED
    BY <1>1, <2>1 DEF SwaggerIInv, InHand, Cur, ghosts
<1>4. AnswersAreCurrent'
  BY <1>1 DEF SwaggerIInv, AnswersAreCurrent, Detail, Enabled, rows, ghosts
<1> QED
  BY <1>2, <1>3, <1>4 DEF SwaggerIInv

\* The document r shows of the source it is at, and the run after it: what AnswersAreCurrent and CopyIsNewest ask of an
\* answer, which must be known to hold of this one.
LEMMA ShownIInv ==
  ASSUME SwaggerIInv, NEW r \in Runs, NEW doc, NEW stale \in BOOLEAN, run[r].at \in {"fetch", "put"},
         Become(r, Shown(r, doc, stale)), UNCHANGED <<life, secrets, served, making, deletion, orphaned>>,
         cache' \in [Ids -> Documents], best' \in [Ids -> Documents],
         crossed \subseteq crossed',
         PurgedIsClean',
         \A s \in Ids :
            /\ cache'[s] <= best'[s] /\ best[s] <= best'[s]
            /\ s \notin crossed' => cache'[s] = best'[s] \/ (cache'[s] = 0 /\ ~Enabled(s))
            /\ cache[s] = 0 /\ life[s] = "absent" => cache'[s] = 0 /\ best'[s] = best[s],
         Cur(r) \in Ids =>
            /\ doc \in Documents /\ doc <= best'[Cur(r)]
            /\ doc # 0 => doc >= run[r].floor \/ Cur(r) \in crossed'
            /\ ~stale => doc >= run[r].since
  PROVE  SwaggerIInv'
<1>1. /\ DOMAIN run' = Runs /\ \A q \in Runs \ {r} : run'[q] = run[q]
      /\ DOMAIN run'[r] = DOMAIN NewRun /\ run'[r].at \in {"cache", "done"}
      /\ run'[r].answers = [run[r].answers EXCEPT ![Cur(r)] =
                              [doc |-> doc, stale |-> stale, since |-> run[r].since, floor |-> run[r].floor]]
  BY DEF SwaggerIInv, SwaggerTypeOK, Become, Shown, NewRun
<1>2. \A s \in Ids : Cur(r) = s => run[r].since \in Documents /\ run[r].floor \in Documents
  BY DEF SwaggerIInv, InHand
<1>3. run'[r].answers \in [Ids -> Answer]
  <2>1. run[r].answers \in [Ids -> Answer]
    BY DEF SwaggerIInv, SwaggerTypeOK
  <2>2. Cur(r) \in Ids => [doc |-> doc, stale |-> stale, since |-> run[r].since, floor |-> run[r].floor] \in Answer
    BY <1>2 DEF Answer
  <2> QED
    BY <1>1, <2>1, <2>2
<1>4. SwaggerTypeOK'
  <2>1. \A q \in Runs :
           /\ DOMAIN run'[q] = DOMAIN NewRun
           /\ run'[q].at \in {"idle", "secrets", "cache", "fetch", "put", "done", "failed"}
           /\ run'[q].answers \in [Ids -> Answer]
    <3> TAKE q \in Runs
    <3>1. CASE q = r
      BY <1>1, <1>3, <3>1
    <3>2. CASE q # r
      BY <1>1, <3>2 DEF SwaggerIInv, SwaggerTypeOK
    <3> QED
      BY <3>1, <3>2
  <2> QED
    BY <1>1, <2>1 DEF SwaggerIInv, SwaggerTypeOK
<1>5. OffBeforeJob' /\ SecretsToCome' /\ CredentialsComplete'
  BY DEF SwaggerIInv, OffBeforeJob, SecretsToCome, CredentialsComplete, Enabled
<1>6. /\ \A q \in Runs \ {r}, s \in Ids : run'[q].answers[s] = run[q].answers[s]
      /\ \A s \in Ids : s # Cur(r) => run'[r].answers[s] = run[r].answers[s]
      /\ Cur(r) \in Ids => /\ run'[r].answers[Cur(r)].doc = doc
                           /\ run'[r].answers[Cur(r)].stale = stale
                           /\ run'[r].answers[Cur(r)].since = run[r].since
                           /\ run'[r].answers[Cur(r)].floor = run[r].floor
  BY <1>1 DEF SwaggerIInv, SwaggerTypeOK
<1>7. \A s \in Ids, q \in Runs : run'[q].answers[s].doc <= best'[s]
  <2> SUFFICES ASSUME NEW s \in Ids, NEW q \in Runs PROVE run'[q].answers[s].doc <= best'[s]
    OBVIOUS
  <2>1. CASE q = r /\ s = Cur(r)
    BY <1>6, <2>1
  <2>2. CASE q # r \/ s # Cur(r)
    <3>1. run'[q].answers[s] = run[q].answers[s]
      BY <1>6, <2>2
    <3>2. run[q].answers[s].doc \in Int /\ best[s] \in Int /\ best'[s] \in Int
      BY MaxDocsAssumption DEF SwaggerIInv, SwaggerTypeOK, Answer, Documents, Docs
    <3>3. run[q].answers[s].doc <= best[s]
      BY DEF SwaggerIInv, CopyIsNewest
    <3> QED
      BY <3>1, <3>2, <3>3
  <2> QED
    BY <2>1, <2>2
<1>8. CopyIsNewest'
  BY <1>7 DEF CopyIsNewest, Enabled
<1>9. InHand'
  <2> SUFFICES ASSUME NEW q \in Runs, NEW s \in Ids, run'[q].at \in {"fetch", "put"}, Cur(q)' = s
               PROVE  /\ {run[q].base, run[q].since, run[q].floor} \subseteq Documents /\ run'[q] = run[q]
                      /\ run[q].since <= served[s] /\ run[q].floor <= best'[s] /\ run[q].base <= best'[s]
                      /\ run[q].base = 0 \/ run[q].base >= run[q].floor \/ s \in crossed
                      /\ run[q].at = "put" => run[q].got \in Docs /\ run[q].got >= run[q].since
    BY DEF InHand
  <2>1. q # r /\ run'[q] = run[q] /\ Cur(q) = s
    BY <1>1 DEF Cur
  <2>2. /\ {run[q].base, run[q].since, run[q].floor} \subseteq Documents
        /\ run[q].since <= served[s] /\ run[q].floor <= best[s] /\ run[q].base <= best[s]
        /\ run[q].base = 0 \/ run[q].base >= run[q].floor \/ s \in crossed
        /\ run[q].at = "put" => run[q].got \in Docs /\ run[q].got >= run[q].since
    BY <2>1 DEF SwaggerIInv, InHand
  <2>3. best[s] \in Int /\ best'[s] \in Int /\ run[q].floor \in Int /\ run[q].base \in Int
    BY <2>2, MaxDocsAssumption DEF SwaggerIInv, SwaggerTypeOK, Documents, Docs
  <2> QED
    BY <2>1, <2>2, <2>3
<1>10. AnswersAreCurrent'
  <2> SUFFICES ASSUME NEW q \in Runs, NEW s \in Ids
               PROVE  LET a == run'[q].answers[s] IN
                      /\ ~a.stale => a.doc >= a.since
                      /\ a.doc # 0 => a.doc >= a.floor \/ s \in crossed'
                      /\ Enabled(s)' /\ s \notin crossed' => cache'[s] >= a.doc
    BY DEF AnswersAreCurrent, Detail, Enabled
  <2>1. Enabled(s)' /\ s \notin crossed' => cache'[s] >= run'[q].answers[s].doc
    <3>1. cache'[s] \in Int /\ run'[q].answers[s].doc \in Int
      BY <1>4, MaxDocsAssumption DEF SwaggerTypeOK, Answer, Documents, Docs
    <3> QED
      BY <1>7, <3>1 DEF Enabled
  <2>2. CASE q = r /\ s = Cur(r)
    BY <1>6, <2>1, <2>2
  <2>3. CASE q # r \/ s # Cur(r)
    <3>1. run'[q].answers[s] = run[q].answers[s]
      BY <1>6, <2>3
    <3> QED
      BY <2>1, <3>1 DEF SwaggerIInv, AnswersAreCurrent
  <2> QED
    BY <2>2, <2>3
<1> QED
  BY <1>4, <1>5, <1>8, <1>9, <1>10 DEF SwaggerIInv

\* A step of an inspection that only the run itself sees.
LEMMA RunIInv ==
  ASSUME SwaggerIInv, NEW r \in Runs, NEW new, Become(r, new), UNCHANGED <<rows, served, making, deletion, ghosts>>,
         DOMAIN new = DOMAIN NewRun, new.at \in {"idle", "secrets", "cache", "fetch", "put", "done", "failed"},
         new.answers = run[r].answers,
         new.at \in {"fetch", "put"} => \A s \in Ids : Head(new.todo) = s =>
            /\ {new.base, new.since, new.floor} \subseteq Documents
            /\ new.since <= served[s] /\ new.floor <= best[s] /\ new.base <= best[s]
            /\ new.base = 0 \/ new.base >= new.floor \/ s \in crossed
            /\ new.at = "put" => new.got \in Docs /\ new.got >= new.since
  PROVE  SwaggerIInv'
<1>1. DOMAIN run' = Runs /\ run'[r] = new /\ \A q \in Runs \ {r} : run'[q] = run[q]
  BY DEF SwaggerIInv, SwaggerTypeOK, Become
<1>2. \A q \in Runs : run'[q].answers = run[q].answers
  BY <1>1
<1>3. SwaggerTypeOK'
  <2>1. \A q \in Runs :
           /\ DOMAIN run'[q] = DOMAIN NewRun
           /\ run'[q].at \in {"idle", "secrets", "cache", "fetch", "put", "done", "failed"}
           /\ run'[q].answers \in [Ids -> Answer]
    <3> TAKE q \in Runs
    <3>1. CASE q = r
      BY <1>1, <1>2, <3>1 DEF SwaggerIInv, SwaggerTypeOK
    <3>2. CASE q # r
      BY <1>1, <3>2 DEF SwaggerIInv, SwaggerTypeOK
    <3> QED
      BY <3>1, <3>2
  <2> QED
    BY <1>1, <2>1 DEF SwaggerIInv, SwaggerTypeOK, rows, ghosts
<1>4. PurgedIsClean' /\ OffBeforeJob' /\ SecretsToCome' /\ CredentialsComplete'
  BY DEF SwaggerIInv, PurgedIsClean, OffBeforeJob, SecretsToCome, CredentialsComplete, Enabled, rows, ghosts
<1>5. CopyIsNewest'
  BY <1>2 DEF SwaggerIInv, CopyIsNewest, Enabled, rows, ghosts
<1>6. InHand'
  <2> SUFFICES ASSUME NEW q \in Runs, NEW s \in Ids, run'[q].at \in {"fetch", "put"}, Cur(q)' = s
               PROVE  /\ {run'[q].base, run'[q].since, run'[q].floor} \subseteq Documents
                      /\ run'[q].since <= served[s] /\ run'[q].floor <= best[s] /\ run'[q].base <= best[s]
                      /\ run'[q].base = 0 \/ run'[q].base >= run'[q].floor \/ s \in crossed
                      /\ run'[q].at = "put" => run'[q].got \in Docs /\ run'[q].got >= run'[q].since
    BY DEF InHand, ghosts
  <2>1. CASE q = r
    BY <1>1, <2>1 DEF Cur
  <2>2. CASE q # r
    BY <1>1, <2>2 DEF SwaggerIInv, InHand, Cur
  <2> QED
    BY <2>1, <2>2
<1>7. AnswersAreCurrent'
  BY <1>2 DEF SwaggerIInv, AnswersAreCurrent, Detail, Enabled, rows, ghosts
<1> QED
  BY <1>3, <1>4, <1>5, <1>6, <1>7 DEF SwaggerIInv

\* A copy that is shown again was shown before: nothing is noted.
LEMMA CopyShown ==
  ASSUME SwaggerIInv, NEW r \in Runs, NEW stale \in BOOLEAN, run[r].at = "fetch",
         Cur(r) \in Ids => run[r].base # 0 /\ (~stale => run[r].base >= run[r].since),
         Become(r, Shown(r, run[r].base, stale)), Note(Cur(r), run[r].base),
         UNCHANGED <<rows, served, making, deletion, crossed, late, orphaned>>
  PROVE  SwaggerIInv'
<1>1. Cur(r) \in Ids =>
        /\ run[r].base \in Documents /\ run[r].base <= best[Cur(r)]
        /\ run[r].base >= run[r].floor \/ Cur(r) \in crossed
  BY DEF SwaggerIInv, InHand
<1>2. best \in [Ids -> Documents] /\ \A s \in Ids : best[s] \in Int
  BY MaxDocsAssumption DEF SwaggerIInv, SwaggerTypeOK, Documents, Docs
<1>3. best' = best
  <2>1. ASSUME NEW s \in Ids, s = Cur(r) PROVE (IF run[r].base > best[s] THEN run[r].base ELSE best[s]) = best[s]
    <3>1. run[r].base \in Int /\ run[r].base <= best[s]
      BY <1>1, <2>1, MaxDocsAssumption DEF Documents, Docs
    <3> QED
      BY <1>2, <3>1
  <2>2. \A s \in Ids : best'[s] = best[s]
    BY <1>2, <2>1 DEF Note
  <2> QED
    BY <1>2, <2>2 DEF Note
<1>4. \A s \in Ids :
        /\ cache[s] <= best[s] /\ best[s] <= best[s]
        /\ s \notin crossed => cache[s] = best[s] \/ (cache[s] = 0 /\ ~Enabled(s))
  BY <1>2 DEF SwaggerIInv, CopyIsNewest
<1>5. PurgedIsClean'
  BY DEF SwaggerIInv, PurgedIsClean, rows
<1>6. UNCHANGED <<life, secrets, cache>>
  BY DEF rows
<1> QED
  BY <1>1, <1>2, <1>3, <1>4, <1>5, <1>6, ShownIInv DEF SwaggerIInv, SwaggerTypeOK

\* The copy is replaced, and the document shown: what is older than best is recorded as crossed.
LEMMA PutIInv == ASSUME SwaggerIInv, NEW r \in Runs, Put(r) PROVE SwaggerIInv'
<1> DEFINE c == Cur(r)
           doc == run[r].got
<1>1. /\ run[r].at = "put" /\ Become(r, Shown(r, doc, FALSE)) /\ Note(c, doc)
      /\ UNCHANGED <<life, secrets, served, making, deletion, orphaned>>
      /\ cache' = [cache EXCEPT ![c] = doc]
      /\ crossed' = IF doc < best[c] THEN crossed \cup {c} ELSE crossed
      /\ late' = IF deletion[c] = "record" \/ life[c] = "deleted" THEN late \cup {c} ELSE late
      /\ HasRow(c)
  BY DEF Put
<1>2. c \in Ids => doc \in Docs /\ doc >= run[r].since /\ run[r].floor \in Documents /\ run[r].floor <= best[c]
  BY <1>1 DEF SwaggerIInv, InHand
<1>3. \A s \in Ids \ {c} : cache'[s] = cache[s] /\ best'[s] = best[s] /\ (s \in crossed' <=> s \in crossed)
  BY <1>1 DEF SwaggerIInv, SwaggerTypeOK, Note
<1>4. c \in Ids =>
        /\ cache'[c] = doc /\ best'[c] = (IF doc > best[c] THEN doc ELSE best[c])
        /\ doc < best[c] => c \in crossed'
  BY <1>1 DEF SwaggerIInv, SwaggerTypeOK, Note
<1>5. best \in [Ids -> Documents] /\ \A s \in Ids : best[s] \in Int
  BY MaxDocsAssumption DEF SwaggerIInv, SwaggerTypeOK, Documents, Docs
<1>6. c \in Ids => doc \in Int /\ run[r].floor \in Int
  BY <1>2, MaxDocsAssumption DEF Documents, Docs
<1>7. cache' \in [Ids -> Documents] /\ best' \in [Ids -> Documents]
  <2>1. cache' \in [Ids -> Documents]
    BY <1>1, <1>2 DEF SwaggerIInv, SwaggerTypeOK, Documents
  <2>2. c \in Ids => (IF doc > best[c] THEN doc ELSE best[c]) \in Documents
    BY <1>2, <1>5 DEF Documents
  <2> QED
    BY <1>1, <1>5, <2>1, <2>2 DEF Note
<1>8. crossed \subseteq crossed'
  BY <1>1
<1>9. PurgedIsClean'
  BY <1>1 DEF SwaggerIInv, SwaggerTypeOK, PurgedIsClean
<1>10. ASSUME NEW s \in Ids
       PROVE  /\ cache'[s] <= best'[s] /\ best[s] <= best'[s]
              /\ s \notin crossed' => cache'[s] = best'[s] \/ (cache'[s] = 0 /\ ~Enabled(s))
              /\ cache[s] = 0 /\ life[s] = "absent" => cache'[s] = 0 /\ best'[s] = best[s]
  <2>1. CASE s = c
    BY <1>1, <1>4, <1>5, <1>6, <2>1 DEF HasRow
  <2>2. CASE s # c
    BY <1>3, <1>5, <2>2 DEF SwaggerIInv, CopyIsNewest
  <2> QED
    BY <2>1, <2>2
<1>11. c \in Ids =>
         /\ doc \in Documents /\ doc <= best'[c]
         /\ doc # 0 => doc >= run[r].floor \/ c \in crossed'
         /\ doc >= run[r].since
  BY <1>2, <1>4, <1>5, <1>6 DEF Documents
<1> QED
  BY <1>1, <1>7, <1>8, <1>9, <1>10, <1>11, ShownIInv

\* The steps of an inspection.
LEMMA InspectIInv == ASSUME SwaggerIInv, NEW r \in Runs, Inspect(r) PROVE SwaggerIInv'
<1>0. /\ DOMAIN run[r] = DOMAIN NewRun
      /\ DOMAIN NewRun = {"at", "todo", "unread", "held", "base", "got", "since", "floor", "answers"}
  BY DEF SwaggerIInv, SwaggerTypeOK, NewRun
<1>1. ASSUME Ask(r) PROVE SwaggerIInv'
  <2> DEFINE list == SelectSeq(Sources, Enabled)
             new == [run[r] EXCEPT !.todo = list, !.unread = SecretsOf(list),
                                   !.at = IF SecretsOf(list) = <<>> THEN "cache" ELSE "secrets"]
  <2>1. Become(r, new) /\ UNCHANGED <<rows, served, making, deletion, ghosts>>
    BY <1>1 DEF Ask
  <2>2. DOMAIN new = DOMAIN NewRun /\ new.at \in {"cache", "secrets"} /\ new.answers = run[r].answers
    BY <1>0
  <2> QED
    BY <2>1, <2>2, RunIInv
<1>2. ASSUME ReadSecret(r) PROVE SwaggerIInv'
  <2> DEFINE s == Head(run[r].unread)[1]
             kind == Head(run[r].unread)[2]
             new == [run[r] EXCEPT !.unread = Tail(@), !.held = IF kind \in secrets[s] THEN @ \cup {<<s, kind>>} ELSE @,
                                   !.at = IF Len(run[r].unread) = 1 THEN "cache" ELSE @]
  <2>1. run[r].at = "secrets" /\ Become(r, new) /\ UNCHANGED <<rows, served, making, deletion, ghosts>>
    BY <1>2 DEF ReadSecret
  <2>2. DOMAIN new = DOMAIN NewRun /\ new.at \in {"cache", "secrets"} /\ new.answers = run[r].answers
    BY <1>0, <2>1
  <2> QED
    BY <2>1, <2>2, RunIInv
<1>3. ASSUME ReadCache(r) PROVE SwaggerIInv'
  <2> DEFINE new == [run[r] EXCEPT !.at = "fetch", !.base = cache[Cur(r)], !.since = served[Cur(r)],
                                   !.floor = best[Cur(r)]]
  <2>0. Become(r, new) /\ UNCHANGED <<rows, served, making, deletion, ghosts>>
    BY <1>3 DEF ReadCache
  <2>1. /\ DOMAIN new = DOMAIN NewRun /\ new.at = "fetch" /\ new.answers = run[r].answers /\ new.todo = run[r].todo
        /\ new.base = cache[Cur(r)] /\ new.since = served[Cur(r)] /\ new.floor = best[Cur(r)]
    BY <1>0
  <2>2. ASSUME NEW s \in Ids, Head(new.todo) = s
        PROVE  /\ {new.base, new.since, new.floor} \subseteq Documents
               /\ new.since <= served[s] /\ new.floor <= best[s] /\ new.base <= best[s]
               /\ new.base = 0 \/ new.base >= new.floor \/ s \in crossed
    <3>1. new.base = cache[s] /\ new.since = served[s] /\ new.floor = best[s]
      BY <2>1, <2>2 DEF Cur
    <3>2. cache[s] \in Documents /\ served[s] \in Docs /\ best[s] \in Documents
      BY DEF SwaggerIInv, SwaggerTypeOK
    <3>3. cache[s] \in Int /\ served[s] \in Int /\ best[s] \in Int
      BY <3>2, MaxDocsAssumption DEF Documents, Docs
    <3>4. cache[s] <= best[s] /\ (s \notin crossed => cache[s] = best[s] \/ cache[s] = 0)
      BY DEF SwaggerIInv, CopyIsNewest
    <3> QED
      BY <3>1, <3>2, <3>3, <3>4 DEF Documents
  <2> HIDE DEF new
  <2> QED
    BY <2>0, <2>1, <2>2, RunIInv
<1>4. ASSUME RefreshDocument(r) PROVE SwaggerIInv'
  <2>1. CASE NotModified(r)
    <3>1. /\ run[r].at = "fetch" /\ Become(r, Shown(r, run[r].base, FALSE)) /\ Note(Cur(r), run[r].base)
          /\ UNCHANGED <<rows, served, making, deletion, crossed, late, orphaned>>
      BY <1>4, <2>1 DEF RefreshDocument
    <3>2. ASSUME Cur(r) \in Ids PROVE run[r].base # 0 /\ run[r].base >= run[r].since
      <4>1. run[r].base = served[Cur(r)] /\ served[Cur(r)] \in Docs
        BY <2>1, <3>2 DEF NotModified, SwaggerIInv, SwaggerTypeOK
      <4> QED
        BY <3>1, <3>2, <4>1, MaxDocsAssumption DEF SwaggerIInv, InHand, Docs, Documents
    <3> QED
      BY <3>1, <3>2, CopyShown
  <2>2. CASE ~NotModified(r)
    <3> DEFINE new == [run[r] EXCEPT !.at = "put", !.got = served[Cur(r)]]
    <3>0. Become(r, new) /\ UNCHANGED <<rows, served, making, deletion, ghosts>>
      BY <1>4, <2>2 DEF RefreshDocument, ghosts
    <3>1. /\ DOMAIN new = DOMAIN NewRun /\ new.at = "put" /\ new.answers = run[r].answers /\ new.todo = run[r].todo
          /\ new.got = served[Cur(r)]
          /\ new.base = run[r].base /\ new.since = run[r].since /\ new.floor = run[r].floor
      BY <1>0
    <3> HIDE DEF new
    <3>2. ASSUME NEW s \in Ids, Head(new.todo) = s
          PROVE  /\ {new.base, new.since, new.floor} \subseteq Documents
                 /\ new.since <= served[s] /\ new.floor <= best[s] /\ new.base <= best[s]
                 /\ new.base = 0 \/ new.base >= new.floor \/ s \in crossed
                 /\ new.got \in Docs /\ new.got >= new.since
      <4>1. Cur(r) = s /\ run[r].at = "fetch" /\ served[s] \in Docs
        BY <1>4, <3>1, <3>2 DEF Cur, RefreshDocument, SwaggerIInv, SwaggerTypeOK
      <4>2. served[s] \in Int /\ \A d \in Documents : d \in Int
        BY <4>1, MaxDocsAssumption DEF Docs, Documents
      <4> QED
        BY <3>1, <4>1, <4>2 DEF SwaggerIInv, InHand
    <3> QED
      BY <3>0, <3>1, <3>2, RunIInv
  <2> QED
    BY <2>1, <2>2
<1>5. ASSUME RefreshFails(r) PROVE SwaggerIInv'
  <2>1. CASE run[r].base # 0
    BY <1>5, <2>1, CopyShown DEF RefreshFails
  <2>2. CASE run[r].base = 0
    <3>1. PICK new : /\ Become(r, new) /\ DOMAIN new = DOMAIN NewRun /\ new.at = "failed"
                     /\ new.answers = run[r].answers
      BY <1>0, <1>5, <2>2 DEF RefreshFails
    <3> QED
      BY <1>5, <2>2, <3>1, RunIInv DEF RefreshFails, ghosts
  <2> QED
    BY <2>1, <2>2
<1>6. ASSUME Put(r) PROVE SwaggerIInv'
  BY <1>6, PutIInv
<1>7. ASSUME InspectionFails(r) PROVE SwaggerIInv'
  <2>1. PICK new : /\ Become(r, new) /\ DOMAIN new = DOMAIN NewRun /\ new.at = "failed"
                   /\ new.answers = run[r].answers
    BY <1>0, <1>7 DEF InspectionFails
  <2> QED
    BY <1>7, <2>1, RunIInv DEF InspectionFails
<1> QED
  BY <1>1, <1>2, <1>3, <1>4, <1>5, <1>6, <1>7 DEF Inspect

LEMMA SwaggerNextIInv == SwaggerIInv /\ [SwaggerNext]_swaggerVars => SwaggerIInv'
<1> SUFFICES ASSUME SwaggerIInv, [SwaggerNext]_swaggerVars PROVE SwaggerIInv'
  OBVIOUS
<1>1. ASSUME NEW s \in Ids \ Steady, Administer(s) PROVE SwaggerIInv'
  BY <1>1, RegistrationIInv, DeletionIInv DEF Administer
<1>2. ASSUME NEW s \in Ids \ Steady, PublishDocument(s) PROVE SwaggerIInv'
  BY <1>2, PublishIInv
<1>3. ASSUME NEW r \in Runs, Inspect(r) PROVE SwaggerIInv'
  BY <1>3, InspectIInv
<1>4. CASE UNCHANGED swaggerVars
  <2>1. UNCHANGED <<life, secrets, cache, served, making, deletion, run, best, crossed, late, orphaned>>
    BY <1>4 DEF swaggerVars, rows, ghosts
  <2>2. SwaggerTypeOK' /\ PurgedIsClean' /\ OffBeforeJob' /\ SecretsToCome' /\ CredentialsComplete'
    BY <2>1 DEF SwaggerIInv, SwaggerTypeOK, PurgedIsClean, OffBeforeJob, SecretsToCome, CredentialsComplete, Enabled
  <2>3. CopyIsNewest' /\ InHand' /\ AnswersAreCurrent'
    BY <2>1 DEF SwaggerIInv, CopyIsNewest, InHand, Cur, AnswersAreCurrent, Detail, Enabled
  <2> QED
    BY <2>2, <2>3 DEF SwaggerIInv
<1> QED
  BY <1>1, <1>2, <1>3, <1>4 DEF SwaggerNext

LEMMA SwaggerIInvHolds == SwaggerSpec => []SwaggerIInv
BY SwaggerInitIInv, SwaggerNextIInv, PTL DEF SwaggerSpec

\* Rows, jobs and answers keep their types (catalog/repository.py, swagger/inspector.py).
THEOREM SwaggerTypesCorrect == SwaggerSpec => []SwaggerTypeOK
<1>1. SwaggerIInv => SwaggerTypeOK
  BY DEF SwaggerIInv
<1> QED
  BY <1>1, SwaggerIInvHolds, PTL

\* However many inspections run, and whatever the services publish: what is not marked as stale is current, nobody is
\* shown an older document than the run before, and citations open on what they cite (swagger/inspector.py, inspect
\* and _refresh; catalog/repository.py, put_swagger_cache).
THEOREM AnswersStayCurrent == SwaggerSpec => []AnswersAreCurrent
<1>1. SwaggerIInv => AnswersAreCurrent
  BY DEF SwaggerIInv
<1> QED
  BY <1>1, SwaggerIInvHolds, PTL

\* A deletion, however often it fails and is asked for again, leaves neither secrets nor a copy, but for the writes
\* that come after its purge (source_sync/processors.py, DeleteSourceJobProcessor).
THEOREM DeletionStaysClean == SwaggerSpec => []DeletionIsClean
<1>1. SwaggerIInv => DeletionIsClean
  BY DEF SwaggerIInv, PurgedIsClean, DeletionIsClean
<1> QED
  BY <1>1, SwaggerIInvHolds, PTL

\* A source that is in use has all of its credentials, unless its registration was given up (api/app.py, the creation
\* of a Swagger source and its _set_encrypted_secret calls).
THEOREM CredentialsStayComplete == SwaggerSpec => []CredentialsComplete
<1>1. SwaggerIInv => CredentialsComplete
  BY DEF SwaggerIInv
<1> QED
  BY <1>1, SwaggerIInvHolds, PTL
=============================================================================
