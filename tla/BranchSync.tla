------------------------------ MODULE BranchSync ------------------------------
(***************************************************************************)
(* How a Git source follows its branch.  Pushes are announced by GitLab    *)
(* webhooks (lost, repeated, out of order), and every ten minutes the      *)
(* worker asks for the head of the branch (SourceSyncWorker.scan_once).    *)
(* Both enqueue a job that names a commit, at most once per kind and       *)
(* commit; an administrator may enqueue one that names none.  The worker,  *)
(* one process, claims the jobs one by one and indexes the head of the     *)
(* branch, whatever commit the job names.                                  *)
(*                                                                         *)
(* A job is one atomic transaction at a time: its lease is the subject of  *)
(* SyncJobs, the inside of an indexing run that of SourceIndex.  Commits   *)
(* are numbered in the order in which they were first pushed.              *)
(***************************************************************************)
EXTENDS Integers

CONSTANTS
    CommitBound,    \* bound: commits 1..CommitBound are ever pushed
    RetryDelays,    \* len(_RETRY_DELAYS_SECONDS)
    TroubleBound    \* bound: exceptions and crashes

ASSUME CommitBoundAssumption == CommitBound \in Nat \ {0}
ASSUME RetryDelaysAssumption == RetryDelays \in Nat
ASSUME TroubleBoundAssumption == TroubleBound \in Nat

VARIABLES
    head,       \* the branch in GitLab
    synced,     \* config.last_synced_commit of the source, 0 if none
    hooks,      \* commits with a webhook delivery under way
    state,      \* the latest row of sync_jobs with this kind and commit
    attempt,    \* its attempt
    pc,         \* where the worker is
    job,        \* the job it has claimed
    target,     \* scan: the head GitLab named; job: the commit of the snapshot
    trouble,    \* counts exceptions and crashes, for the bound
    rewound     \* history: the branch was reset to an earlier commit

work == <<pc, job, target>>
queue == <<state, attempt>>
vars == <<head, synced, hooks, state, attempt, pc, job, target, trouble, rewound>>

Commits == 1..CommitBound

\* The jobs of one source; only those that name a commit are deduplicated.
Manual == <<"manual", 0>>
Named == {"webhook", "scheduled"} \X Commits
Jobs == Named \cup {Manual}

Open == {"queued", "running"}

TypeOK ==
    /\ head \in Commits
    /\ synced \in 0..CommitBound
    /\ hooks \subseteq Commits
    /\ state \in [Jobs -> {"none", "succeeded", "failed"} \cup Open]
    /\ attempt \in [Jobs -> Nat]
    /\ pc \in {"down", "idle", "scan", "snapshot", "index", "verdict"}
    /\ job \in Jobs
    /\ target \in 0..CommitBound
    /\ trouble \in Nat
    /\ rewound \in BOOLEAN

Init ==
    /\ head \in Commits
    /\ synced = 0
    /\ hooks = {}
    /\ state = [j \in Jobs |-> "none"]
    /\ attempt = [j \in Jobs |-> 0]
    /\ pc = "idle"
    /\ job = Manual
    /\ target = 0
    /\ trouble = 0
    /\ rewound = FALSE

-----------------------------------------------------------------------------
(* What enqueues jobs *)

\* A developer pushes: a new commit, or the branch is reset to an older one.
Push(c) ==
    /\ c # head
    /\ head' = c
    /\ hooks' = hooks \cup {c}
    /\ rewound' = (rewound \/ c < head)
    /\ UNCHANGED <<synced, queue, work, trouble>>

\* enqueue_job with a target_commit: a row of this kind and commit, in
\* whatever state, is returned as it is.
Enqueue(j) == state' = [state EXCEPT ![j] = IF @ = "none" THEN "queued" ELSE @]

\* gitlab_webhook; GitLab repeats a delivery whose answer it did not see.
DeliverHook(c, again) ==
    /\ c \in hooks
    /\ Enqueue(<<"webhook", c>>)
    /\ hooks' = IF again THEN hooks ELSE hooks \ {c}
    /\ UNCHANGED <<head, synced, attempt, work, trouble, rewound>>

LoseHook(c) ==
    /\ c \in hooks
    /\ hooks' = hooks \ {c}
    /\ UNCHANGED <<head, synced, queue, work, trouble, rewound>>

\* scan_once: GitLab's answer differs from last_synced_commit ...
ScanBranch ==
    /\ pc = "idle"
    /\ head # synced
    /\ target' = head
    /\ pc' = "scan"
    /\ UNCHANGED <<head, synced, hooks, queue, job, trouble, rewound>>

\* Mutant: a job of another kind for the commit will do.
ScanEnqueueAnyKind ==
    /\ pc = "scan"
    /\ IF state[<<"webhook", target>>] = "none"
       THEN Enqueue(<<"scheduled", target>>) ELSE UNCHANGED state
    /\ pc' = "idle"
    /\ target' = 0
    /\ UNCHANGED <<head, synced, hooks, attempt, job, trouble, rewound>>

\* ... so a job for that commit is enqueued.
ScanEnqueue ==
    /\ pc = "scan"
    /\ Enqueue(<<"scheduled", target>>)
    /\ pc' = "idle"
    /\ target' = 0
    /\ UNCHANGED <<head, synced, hooks, attempt, job, trouble, rewound>>

\* admin_sync_source: a new row, unless one is queued or running.
ManualSync ==
    /\ state[Manual] \notin Open
    /\ state' = [state EXCEPT ![Manual] = "queued"]
    /\ attempt' = [attempt EXCEPT ![Manual] = 0]
    /\ UNCHANGED <<head, synced, hooks, work, trouble, rewound>>

AdminRetry(j) ==
    /\ state[j] = "failed"
    /\ state' = [state EXCEPT ![j] = "queued"]
    /\ UNCHANGED <<head, synced, hooks, attempt, work, trouble, rewound>>

-----------------------------------------------------------------------------
(* The worker *)

\* A queued job that is due; delayed retries make any order possible.
Claim(j) ==
    /\ pc = "idle"
    /\ state[j] = "queued"
    /\ state' = [state EXCEPT ![j] = "running"]
    /\ attempt' = [attempt EXCEPT ![j] = @ + 1]
    /\ job' = j
    /\ pc' = "snapshot"
    /\ UNCHANGED <<head, synced, hooks, target, trouble, rewound>>

\* prepare_snapshot: fetch the branch and check out its head.
Snapshot ==
    /\ pc = "snapshot"
    /\ target' = head
    /\ pc' = "index"
    /\ UNCHANGED <<head, synced, hooks, queue, job, trouble, rewound>>

\* Mutant: only the first synchronisation is recorded.
IndexFirstOnly ==
    /\ pc = "index"
    /\ synced' = IF synced = 0 THEN target ELSE synced
    /\ pc' = "verdict"
    /\ UNCHANGED <<head, hooks, queue, job, target, trouble, rewound>>

\* index_git_snapshot brings the index to the snapshot.
Index ==
    /\ pc = "index"
    /\ synced' = target
    /\ pc' = "verdict"
    /\ UNCHANGED <<head, hooks, queue, job, target, trouble, rewound>>

Done(verdict) ==
    /\ state' = [state EXCEPT ![job] = verdict]
    /\ pc' = "idle"
    /\ target' = 0
    /\ UNCHANGED <<head, synced, hooks, attempt, job, rewound>>

Complete ==
    /\ pc = "verdict"
    /\ Done("succeeded")
    /\ UNCHANGED trouble

\* Mutant: the rollback forgets last_synced_commit.
RaiseForgets ==
    /\ pc \in {"snapshot", "index"}
    /\ trouble < TroubleBound
    /\ trouble' = trouble + 1
    /\ synced' = 0
    /\ state' = [state EXCEPT ![job] = IF attempt[job] <= RetryDelays THEN "queued" ELSE "failed"]
    /\ pc' = "idle"
    /\ target' = 0
    /\ UNCHANGED <<head, hooks, attempt, job, rewound>>

\* The processor raises (GitLab, the embedding service or a store is out; the
\* index is rolled back) and the job is retried while the delays last.
Raise ==
    /\ pc \in {"snapshot", "index"}
    /\ trouble < TroubleBound
    /\ trouble' = trouble + 1
    /\ Done(IF attempt[job] <= RetryDelays THEN "queued" ELSE "failed")

\* The process dies; a claimed job stays running.
Crash ==
    /\ pc # "down"
    /\ trouble < TroubleBound
    /\ trouble' = trouble + 1
    /\ pc' = "down"
    /\ target' = 0
    /\ UNCHANGED <<head, synced, hooks, queue, job, rewound>>

\* start() requeues the running jobs that look stale: all, or none if the
\* process is back within stale_after_seconds.
Restart(stale) ==
    /\ pc = "down"
    /\ state' = [j \in Jobs |-> IF stale /\ state[j] = "running" THEN "queued" ELSE state[j]]
    /\ pc' = "idle"
    /\ UNCHANGED <<head, synced, hooks, attempt, job, target, trouble, rewound>>

-----------------------------------------------------------------------------
Announce ==
    \/ \E c \in Commits : LoseHook(c) \/ (\E again \in BOOLEAN : DeliverHook(c, again))
    \/ ManualSync
    \/ \E j \in Jobs : AdminRetry(j)

Work ==
    \/ ScanBranch \/ ScanEnqueue
    \/ (\E j \in Jobs : Claim(j)) \/ Snapshot \/ Index \/ Complete

Next ==
    \/ \E c \in Commits : Push(c)
    \/ Announce \/ Work
    \/ Raise \/ Crash \/ (\E stale \in BOOLEAN : Restart(stale))

Spec == Init /\ [][Next]_vars

\* The loop looks at the clock before every claim, so a scan that is due is not
\* starved by the queue, and a queue that is never empty is not starved by
\* scans; git and indexing calls end; and Kubernetes restarts a dead process.
WorkerFairness ==
    /\ SF_vars(ScanBranch) /\ WF_vars(ScanEnqueue)
    /\ SF_vars(\E j \in Jobs : Claim(j))
    /\ WF_vars(Snapshot \/ Index \/ Complete)
    /\ WF_vars(\E stale \in BOOLEAN : Restart(stale))

-----------------------------------------------------------------------------
(* Safety *)

\* Webhooks may arrive late and in any order and retries come later still, but
\* the index never goes back to an older commit of a branch that only moves
\* forward: every job indexes the head it finds.
SyncedMovesForward == [][~rewound' => synced' >= synced]_vars

\* A job that succeeded has made its commit, or a later one, searchable, and no
\* later crash, failure or job undoes it.
SucceededIsIndexed ==
    ~rewound => \A j \in Jobs : state[j] = "succeeded" => synced >= j[2]

\* What makes them inductive: jobs and hooks name commits that were pushed, and
\* the snapshot a job indexes is as new as the commit the job names.
KnownCommits ==
    ~rewound =>
        /\ synced <= head
        /\ target <= head
        /\ \A c \in hooks : c <= head
        /\ \A j \in Named : state[j] # "none" => j[2] <= head
        /\ pc = "index" => target >= synced /\ target >= job[2]
        /\ pc = "verdict" => synced = target /\ target >= job[2]

WorkInHand ==
    /\ pc = "scan" => target # 0
    /\ pc \in {"snapshot", "index", "verdict"} => state[job] # "none"

IInv == TypeOK /\ SucceededIsIndexed /\ KnownCommits /\ WorkInHand

-----------------------------------------------------------------------------
(* Liveness *)

\* A running job that nobody works on: its lease is never looked at again.
Stranded(j) ==
    /\ state[j] = "running"
    /\ ~(pc \in {"snapshot", "index", "verdict"} /\ job = j)

\* What stops the scan at commit c for good: enqueue_job returns the row of the
\* scheduled job of c, which is out of retries, stranded by a crash, or has
\* succeeded in an earlier life of c.
ScanIsStuck(c) ==
    LET j == <<"scheduled", c>>
    IN  state[j] = "failed" \/ Stranded(j) \/ (rewound /\ state[j] = "succeeded")

\* The scan is the backstop (README): once the branch rests, the index catches
\* up with it and stays there, though every webhook is lost, jobs fail and
\* workers crash, unless the scheduled job of its head is used up.
EventuallySynced ==
    \A c \in Commits : <>[](head = c) => <>[](synced = c \/ ScanIsStuck(c))
=============================================================================
