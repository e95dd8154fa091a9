------------------------------ MODULE SyncJobs ------------------------------
(***************************************************************************)
(* The durable queue of source synchronisation jobs (table sync_jobs,      *)
(* knowledge/catalog/repository.py) and the worker that drains it          *)
(* (SourceSyncWorker, knowledge/source_sync/worker.py).                    *)
(*                                                                         *)
(* A job is leased: a claim writes the worker and a new attempt number     *)
(* into the row, and every later verdict of the worker is a compare-and-   *)
(* set on (state, worker_id, attempt).  Between the claim and the verdict  *)
(* the worker runs the processor, and anything may happen: the process     *)
(* dies, is stopped, the database refuses the verdict, or another process  *)
(* starts and takes the lease over because it looks stale.                 *)
(*                                                                         *)
(* Time is abstract.  `due` holds the queued jobs whose available_at has   *)
(* passed, in the order in which it passed: that is the ORDER BY of the    *)
(* claim.  `lapsed` holds the running jobs claimed longer ago than         *)
(* stale_after_seconds.                                                    *)
(***************************************************************************)
EXTENDS Integers, Sequences, FiniteSets, SequencesExt

CONSTANTS
    Jobs,           \* job ids (uuid4: an id is used once)
    Requests,       \* what enqueue_job is called with: source, kind, commit
    WithCommit,     \* the requests whose target_commit is not NULL
    Workers,        \* worker processes
    Null,           \* no job, no worker, no request
    RetryDelays,    \* len(_RETRY_DELAYS_SECONDS): how many automatic retries
    AttemptBound    \* bound: no disturbance hits a job past this attempt

ASSUME JobsAssumption == IsFiniteSet(Jobs)
ASSUME RetryDelaysAssumption == RetryDelays \in Nat
ASSUME AttemptBoundAssumption == AttemptBound \in Nat
ASSUME WithCommitAssumption == WithCommit \subseteq Requests
ASSUME NullAssumption == Null \notin Jobs \cup Workers \cup Requests

VARIABLES
    state,      \* the row: "unused" before its INSERT, "deleted" after its DELETE
    request,    \* the row: source, kind and target_commit of the job
    attempt,    \* the row: attempt
    holder,     \* the row: worker_id
    due,        \* queued jobs with available_at <= now, oldest first
    lapsed,     \* running jobs with claimed_at <= now - stale_after
    pc,         \* where each worker is inside run_once
    serving,    \* the job a worker claimed and has in memory
    ticket,     \* the attempt number the worker has in memory
    retries     \* history: automatic retries of a job since it was enqueued

rows == <<state, request, attempt, holder, due, lapsed>>
memory == <<pc, serving, ticket>>
vars == <<state, request, attempt, holder, due, lapsed, pc, serving, ticket, retries>>

JobStates == {"unused", "queued", "running", "succeeded", "failed", "deleted"}
WorkerStates == {"down", "idle", "processing", "done", "error", "cancelled"}

TypeOK ==
    /\ state \in [Jobs -> JobStates]
    /\ request \in [Jobs -> Requests \cup {Null}]
    /\ attempt \in [Jobs -> Nat]
    /\ holder \in [Jobs -> Workers \cup {Null}]
    /\ due \in Seq(Jobs)
    /\ lapsed \subseteq Jobs
    /\ pc \in [Workers -> WorkerStates]
    /\ serving \in [Workers -> Jobs \cup {Null}]
    /\ ticket \in [Workers -> Nat]
    /\ retries \in [Jobs -> Nat]

Init ==
    /\ state = [j \in Jobs |-> "unused"]
    /\ request = [j \in Jobs |-> Null]
    /\ attempt = [j \in Jobs |-> 0]
    /\ holder = [j \in Jobs |-> Null]
    /\ due = <<>>
    /\ lapsed = {}
    /\ pc = [w \in Workers |-> "down"]
    /\ serving = [w \in Workers |-> Null]
    /\ ticket = [w \in Workers |-> 0]
    /\ retries = [j \in Jobs |-> 0]

-----------------------------------------------------------------------------
(* Rows of sync_jobs *)

Unleased == {"unused", "queued", "deleted"}

Rows == {j \in Jobs : state[j] \notin {"unused", "deleted"}}

\* Mutant: the verdict forgets to compare the lease.
LeaseHoldsByState(w) ==
    /\ serving[w] # Null
    /\ state[serving[w]] = "running"

\* The WHERE clause of complete_job, fail_job and the worker's requeue_job.
LeaseHolds(w) ==
    /\ serving[w] # Null
    /\ state[serving[w]] = "running"
    /\ holder[serving[w]] = w
    /\ attempt[serving[w]] = ticket[w]

\* The SET clause of requeue_job: back to 'queued' with the lease erased.
ToQueue(js) ==
    /\ state' = [j \in Jobs |-> IF j \in js THEN "queued" ELSE state[j]]
    /\ holder' = [j \in Jobs |-> IF j \in js THEN Null ELSE holder[j]]
    /\ lapsed' = lapsed \ js
    /\ UNCHANGED <<request, attempt>>

\* enqueue_job: a request that names a commit is inserted once, whatever
\* became of the earlier job (a call that finds one returns it unchanged).
Enqueue(j, r) ==
    /\ state[j] = "unused"
    /\ r \in WithCommit => \A k \in Rows : request[k] # r
    /\ state' = [state EXCEPT ![j] = "queued"]
    /\ request' = [request EXCEPT ![j] = r]
    /\ due' = Append(due, j)
    /\ UNCHANGED <<attempt, holder, lapsed, memory, retries>>

\* delete_queued_job: the upload handler withdraws a job no worker leased yet.
DeleteQueued(j) ==
    /\ state[j] = "queued"
    /\ state' = [state EXCEPT ![j] = "deleted"]
    /\ \/ \E i \in DOMAIN due : due[i] = j /\ due' = RemoveAt(due, i)
       \/ j \notin Range(due) /\ UNCHANGED due
    /\ UNCHANGED <<request, attempt, holder, lapsed, memory, retries>>

\* POST /admin/jobs/{id}/retry: requeue_job without a lease, only from 'failed';
\* the attempt counter stays.
AdminRetry(j) ==
    /\ state[j] = "failed"
    /\ attempt[j] < AttemptBound
    /\ ToQueue({j})
    /\ due' = Append(due, j)
    /\ UNCHANGED <<memory, retries>>

\* Mutant: the query leaves out the jobs that were leased before.
BecomeDueOnce(j) ==
    /\ state[j] = "queued"
    /\ j \notin Range(due)
    /\ attempt[j] = 0
    /\ due' = Append(due, j)
    /\ UNCHANGED <<state, request, attempt, holder, lapsed, memory, retries>>

\* The clock passes available_at of a retried job.
BecomeDue(j) ==
    /\ state[j] = "queued"
    /\ j \notin Range(due)
    /\ due' = Append(due, j)
    /\ UNCHANGED <<state, request, attempt, holder, lapsed, memory, retries>>

\* The clock passes claimed_at + stale_after_seconds.
Lapse(j) ==
    /\ state[j] = "running"
    /\ j \notin lapsed
    /\ attempt[j] < AttemptBound
    /\ lapsed' = lapsed \cup {j}
    /\ UNCHANGED <<state, request, attempt, holder, due, memory, retries>>

-----------------------------------------------------------------------------
(* The worker process *)

Forget(w, to) ==
    /\ pc' = [pc EXCEPT ![w] = to]
    /\ serving' = [serving EXCEPT ![w] = Null]
    /\ ticket' = [ticket EXCEPT ![w] = 0]

\* start(): requeue_stale_jobs, whoever holds the leases, then the loop.
Start(w) ==
    /\ pc[w] = "down"
    /\ ToQueue(lapsed)
    /\ \E back \in SetToSeqs(lapsed) : due' = due \o back
    /\ Forget(w, "idle")
    /\ UNCHANGED retries

\* claim_next_job: the row that has been due longest.
ClaimRow(w) ==
    /\ pc[w] = "idle"
    /\ due # <<>>
    /\ state' = [state EXCEPT ![Head(due)] = "running"]
    /\ attempt' = [attempt EXCEPT ![Head(due)] = @ + 1]
    /\ holder' = [holder EXCEPT ![Head(due)] = w]
    /\ due' = Tail(due)
    /\ UNCHANGED <<request, lapsed, retries>>

Claim(w) ==
    /\ ClaimRow(w)
    /\ pc' = [pc EXCEPT ![w] = "processing"]
    /\ serving' = [serving EXCEPT ![w] = Head(due)]
    /\ ticket' = [ticket EXCEPT ![w] = attempt[Head(due)] + 1]

\* stop() cancels the worker inside claim_next_job after its commit: the row
\* is leased and the handler that would requeue it was never entered.
StopInClaim(w) ==
    /\ ClaimRow(w)
    /\ attempt[Head(due)] < AttemptBound
    /\ Forget(w, "down")

\* processor.process(job) returns, raises, or is cancelled by stop().
Processed(w, outcome) ==
    /\ pc[w] = "processing"
    /\ pc' = [pc EXCEPT ![w] = outcome]
    /\ UNCHANGED <<rows, serving, ticket, retries>>

ProcessOk(w) == Processed(w, "done")
ProcessError(w) == Processed(w, "error")
StopInProcess(w) ==
    /\ Processed(w, "cancelled")
    /\ attempt[serving[w]] < AttemptBound

\* complete_job after a processor that returned.
Complete(w) ==
    /\ pc[w] = "done"
    /\ LeaseHolds(w)
    /\ state' = [state EXCEPT ![serving[w]] = "succeeded"]
    /\ lapsed' = lapsed \ {serving[w]}
    /\ Forget(w, "idle")
    /\ UNCHANGED <<request, attempt, holder, due, retries>>

\* The except branch of run_once: requeue with a delay while retries remain ...
Retry(w) ==
    /\ pc[w] = "error"
    /\ ticket[w] <= RetryDelays
    /\ LeaseHolds(w)
    /\ ToQueue({serving[w]})
    /\ retries' = [retries EXCEPT ![serving[w]] = @ + 1]
    /\ Forget(w, "idle")
    /\ UNCHANGED due

\* ... and fail_job when they are used up.
Fail(w) ==
    /\ pc[w] = "error"
    /\ ticket[w] > RetryDelays
    /\ LeaseHolds(w)
    /\ state' = [state EXCEPT ![serving[w]] = "failed"]
    /\ lapsed' = lapsed \ {serving[w]}
    /\ Forget(w, "idle")
    /\ UNCHANGED <<request, attempt, holder, due, retries>>

\* The except CancelledError branch: requeue at once, then the loop ends.
RequeueCancelled(w) ==
    /\ pc[w] = "cancelled"
    /\ LeaseHolds(w)
    /\ ToQueue({serving[w]})
    /\ due' = Append(due, serving[w])
    /\ Forget(w, "down")
    /\ UNCHANGED retries

\* The verdict raises CatalogConflictError because the lease is gone: _run_loop
\* logs it and goes on (or, after stop(), leaves the loop).
Conflict(w) ==
    /\ pc[w] \in {"done", "error", "cancelled"}
    /\ ~LeaseHolds(w)
    /\ Forget(w, IF pc[w] = "cancelled" THEN "down" ELSE "idle")
    /\ UNCHANGED <<rows, retries>>

\* The database rejects the verdict: same handler, and the row keeps a lease
\* that nobody serves.
VerdictLost(w) ==
    /\ pc[w] \in {"done", "error", "cancelled"}
    /\ attempt[serving[w]] < AttemptBound
    /\ Forget(w, IF pc[w] = "cancelled" THEN "down" ELSE "idle")
    /\ UNCHANGED <<rows, retries>>

\* The process dies, or stop() cancels a verdict that did not commit.
Crash(w) ==
    /\ pc[w] # "down"
    /\ serving[w] # Null => attempt[serving[w]] < AttemptBound
    /\ Forget(w, "down")
    /\ UNCHANGED <<rows, retries>>

-----------------------------------------------------------------------------
Verdict(w) ==
    \/ Complete(w) \/ Retry(w) \/ Fail(w) \/ RequeueCancelled(w) \/ Conflict(w)

Step(w) ==
    \/ Claim(w) \/ ProcessOk(w) \/ ProcessError(w) \/ Verdict(w)

Disturb(w) ==
    \/ StopInClaim(w) \/ StopInProcess(w) \/ VerdictLost(w) \/ Crash(w)

Next ==
    \/ \E j \in Jobs, r \in Requests : Enqueue(j, r)
    \/ \E j \in Jobs : DeleteQueued(j) \/ AdminRetry(j) \/ BecomeDue(j) \/ Lapse(j)
    \/ \E w \in Workers : Start(w) \/ Step(w) \/ Disturb(w)

Spec == Init /\ [][Next]_vars

\* A loop that runs keeps running, a processor call ends (every git command and
\* embedding call has a timeout), the clock moves, and a dead process is
\* restarted by its supervisor and not killed before its first claim for ever.
Fairness ==
    /\ \A w \in Workers :
        /\ SF_vars(Claim(w))
        /\ WF_vars(ProcessOk(w) \/ ProcessError(w))
        /\ WF_vars(Verdict(w))
        /\ WF_vars(Start(w))
    /\ \A j \in Jobs : WF_vars(BecomeDue(j))

FairSpec == Spec /\ Fairness

-----------------------------------------------------------------------------
(* Safety *)

\* The queue handed to claim_next_job and the rows agree: a job is due at most
\* once, only while queued, and a lease is recorded exactly on claimed rows.
QueueMatchesRows ==
    /\ IsInjective(due)
    /\ \A j \in Range(due) : state[j] = "queued"
    /\ \A j \in Jobs : state[j] \in Unleased => holder[j] = Null
    /\ \A j \in lapsed : state[j] = "running"

\* No two workers ever hold the same attempt of a job: what a worker has in
\* memory is either the row's current lease or an attempt number that the
\* queue has closed.  This is what makes the compare-and-set of a verdict
\* (repository.py _finish_job, requeue_job) decide between an old and a new
\* worker after a stale lease was taken over.
TicketsDistinct ==
    \A v, w \in Workers :
        (v # w /\ serving[v] = serving[w] /\ serving[v] # Null) => ticket[v] # ticket[w]

\* A job is retried automatically at most len(_RETRY_DELAYS_SECONDS) times
\* (README: a failed task is retried at most 3 times), whatever stops, crashes,
\* takeovers and manual retries happen in between.
RetryBudget == \A j \in Jobs : retries[j] <= RetryDelays

\* What makes TicketsDistinct and RetryBudget inductive: a ticket is an attempt
\* number the row has reached, and each automatic retry has closed an attempt.
TicketsReached ==
    \A w \in Workers :
        /\ serving[w] # Null <=> pc[w] \in {"processing", "done", "error", "cancelled"}
        /\ serving[w] # Null => ticket[w] \in 1..attempt[serving[w]]

RetriesCloseAttempts ==
    \A j \in Jobs :
        /\ retries[j] <= attempt[j]
        /\ state[j] = "running" => retries[j] < attempt[j]

IInv ==
    /\ TypeOK
    /\ QueueMatchesRows
    /\ TicketsReached
    /\ TicketsDistinct
    /\ RetriesCloseAttempts
    /\ RetryBudget

\* A verdict changes a running row only when it comes from the worker that the
\* row names and for the row's attempt; only a starting process, on a lapsed
\* lease, may take a running job away from its holder.
OnlyHolderDecides ==
    [][\A j \in Jobs :
        (state[j] = "running" /\ state'[j] # "running") =>
            \/ \E w \in Workers :
                serving[w] = j /\ ticket[w] = attempt[j] /\ holder[j] = w /\ serving'[w] = Null
            \/ j \in lapsed /\ \E w \in Workers : pc[w] = "down" /\ pc'[w] = "idle"]_vars

\* A finished job stays finished: no late requeue of a superseded worker brings
\* a succeeded job back, and a failed one returns only by a manual retry, so
\* never while a worker step is taken.
FinishedStaysFinished ==
    [][\A j \in Jobs :
        /\ state[j] = "succeeded" => state'[j] = "succeeded"
        /\ (state[j] = "failed" /\ state'[j] # "failed") => UNCHANGED memory]_vars

-----------------------------------------------------------------------------
(* Refinement *)

\* What the queue of JobLease sees of this state: the row's attempt is the
\* term, a worker's lease is the job and the attempt number it has in memory.
Leases ==
    [w \in Workers |-> IF serving[w] = Null THEN <<>> ELSE <<serving[w], ticket[w]>>]

RetriesLeft == [j \in Jobs |-> RetryDelays - retries[j]]

Lease == INSTANCE JobLease WITH
    Budget <- RetryDelays,
    phase <- state,
    term <- attempt,
    budget <- RetriesLeft,
    expired <- lapsed,
    lease <- Leases

\* The rows, the claim, the compare-and-set of the verdicts and the takeover at
\* a start implement the leases of JobLease: a running row changes state only
\* by the one worker that holds its current attempt or by a start that takes
\* back lapsed leases, an attempt is decided at most once, at most
\* len(_RETRY_DELAYS_SECONDS) errors are retried, a succeeded job is final and
\* a failed one comes back only by a manual retry (catalog/repository.py
\* claim_next_job, _finish_job, requeue_job; source_sync/worker.py run_once).
ImplementsLease == Lease!Spec

-----------------------------------------------------------------------------
(* Liveness *)

\* A running job that no worker has in memory any more: only a later start()
\* brings it back, and only if its lease has lapsed by then.
Stranded(j) ==
    state[j] = "running" /\ \A w \in Workers : ~(serving[w] = j /\ LeaseHolds(w))

\* Every enqueued job is settled, unless a crash or a lost verdict strands it:
\* retries, takeovers and conflicts between workers never lose a job.
SettledOrStranded ==
    \A j \in Jobs :
        state[j] = "queued" ~> (state[j] \in {"succeeded", "failed", "deleted"} \/ Stranded(j))

=============================================================================
