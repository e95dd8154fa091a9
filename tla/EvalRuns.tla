------------------------------- MODULE EvalRuns -------------------------------
(***************************************************************************)
(* Regression evaluation runs: administrators queue a run over a set of    *)
(* cases, cancel it, retry its failed cases, and change or delete the      *)
(* cases meanwhile; a worker claims the oldest queued run and judges its   *)
(* cases one by one (QualityEvalWorker, QualityEvaluationService and the   *)
(* eval_* methods of QualityRepository).                                   *)
(*                                                                         *)
(* A run has no lease but updated_at: a worker that starts takes back the  *)
(* running runs nobody has written to for stale_seconds.  Every statement  *)
(* about a run is a transaction of its own and none of the worker's checks *)
(* that the run is still its own.                                          *)
(***************************************************************************)
EXTENDS Integers, FiniteSets

CONSTANTS
    Workers,        \* processes that run a QualityEvalWorker
    Cases,          \* evaluation cases
    RunBound        \* bound: runs ever queued

ASSUME CasesAssumption == IsFiniteSet(Cases)
ASSUME RunBoundAssumption == RunBound \in Nat

VARIABLES
    case,       \* eval_cases: "enabled", "disabled" or "deleted"
    ids,        \* eval_runs.case_ids_json
    status,     \* eval_runs.status
    asked,      \* runs with cancel_requested
    fresh,      \* running runs written to within stale_seconds
    summary,    \* eval_runs.passed_cases, failed_cases
    results,    \* eval_results: "none", "passed" or "failed"
    pc,         \* where each worker is
    run,        \* the run it has claimed
    todo,       \* its cases that are still to be judged
    current     \* the case it judges

runs == <<ids, status, asked, fresh, summary>>
worker == <<pc, run, todo, current>>
evalVars == <<case, runs, results, worker>>

Runs == 1..RunBound
Completed == {"completed", "completed_with_failures"}
Ended == Completed \cup {"cancelled"}
Statuses == {"unused", "queued", "running"} \cup Ended
Enabled == {c \in Cases : case[c] = "enabled"}
WithResult(r, s) == {c \in Cases : results[r][c] = s}

EvalTypeOK ==
    /\ case \in [Cases -> {"enabled", "disabled", "deleted"}]
    /\ ids \in [Runs -> SUBSET Cases]
    /\ status \in [Runs -> Statuses]
    /\ asked \subseteq Runs
    /\ fresh \subseteq Runs
    /\ summary \in [Runs -> [passed : Nat, failed : Nat]]
    /\ results \in [Runs -> [Cases -> {"none", "passed", "failed"}]]
    /\ pc \in [Workers -> {"down", "idle", "select", "look", "progress", "judge", "complete", "cancel"}]
    /\ run \in [Workers -> Runs \cup {0}]
    /\ todo \in [Workers -> SUBSET Cases]
    /\ current \in [Workers -> SUBSET Cases]

EvalInit ==
    /\ case = [c \in Cases |-> "enabled"]
    /\ ids = [r \in Runs |-> {}]
    /\ status = [r \in Runs |-> "unused"]
    /\ asked = {}
    /\ fresh = {}
    /\ summary = [r \in Runs |-> [passed |-> 0, failed |-> 0]]
    /\ results = [r \in Runs |-> [c \in Cases |-> "none"]]
    /\ pc = [w \in Workers |-> "down"]
    /\ run = [w \in Workers |-> 0]
    /\ todo = [w \in Workers |-> {}]
    /\ current = [w \in Workers |-> {}]

-----------------------------------------------------------------------------
(* Administrators and the schedule *)

\* queue_cases: only enabled cases, and at least one.
Queue(r, S) ==
    /\ status[r] = "unused"
    /\ \A k \in Runs : k < r => status[k] # "unused"
    /\ S # {} /\ S \subseteq Enabled
    /\ ids' = [ids EXCEPT ![r] = S]
    /\ status' = [status EXCEPT ![r] = "queued"]
    /\ UNCHANGED <<case, asked, fresh, summary, results, worker>>

\* retry_failed: a new run over the cases that failed so far.
RetryFailed(r, old) == status[old] # "unused" /\ Queue(r, WithResult(old, "failed"))

\* Mutant: a run is cancelled on the spot, whoever works on it.
RequestCancelAtOnce(r) ==
    /\ status[r] \in {"queued", "running"}
    /\ status' = [status EXCEPT ![r] = "cancelled"]
    /\ UNCHANGED <<case, ids, asked, fresh, summary, results, worker>>

RequestCancel(r) ==
    /\ status[r] \in {"queued", "running"}
    /\ asked' = asked \cup {r}
    /\ fresh' = IF status[r] = "running" THEN fresh \cup {r} ELSE fresh
    /\ UNCHANGED <<case, ids, status, summary, results, worker>>

\* update_eval_case
UpdateCase(c, s) ==
    /\ case[c] # "deleted"
    /\ s \in {"enabled", "disabled"} /\ s # case[c]
    /\ case' = [case EXCEPT ![c] = s]
    /\ UNCHANGED <<runs, results, worker>>

\* delete_eval_case: the results of the case go with it.
DeleteCase(c) ==
    /\ case[c] # "deleted"
    /\ case' = [case EXCEPT ![c] = "deleted"]
    /\ results' = [r \in Runs |-> [results[r] EXCEPT ![c] = "none"]]
    /\ UNCHANGED <<runs, worker>>

-----------------------------------------------------------------------------
(* The worker *)

Goto(w, from, to) ==
    /\ pc[w] = from
    /\ pc' = [pc EXCEPT ![w] = to]

\* The run is left as it is in the database.
Leave(w, to) ==
    /\ pc' = [pc EXCEPT ![w] = to]
    /\ run' = [run EXCEPT ![w] = 0]
    /\ todo' = [todo EXCEPT ![w] = {}]
    /\ current' = [current EXCEPT ![w] = {}]

\* Mutant: recover_eval_runs does not look at updated_at.
StartWorkerRequeueAll(w) ==
    /\ Goto(w, "down", "idle")
    /\ status' = [r \in Runs |-> IF status[r] = "running" THEN "queued" ELSE status[r]]
    /\ fresh' = {}
    /\ UNCHANGED <<case, ids, asked, summary, results, run, todo, current>>

\* start: recover_eval_runs
StartWorker(w) ==
    /\ Goto(w, "down", "idle")
    /\ status' = [r \in Runs |-> IF status[r] = "running" /\ r \notin fresh THEN "queued" ELSE status[r]]
    /\ UNCHANGED <<case, ids, asked, fresh, summary, results, run, todo, current>>

\* Mutant: a run whose cancellation was requested is not claimed.
ClaimUnasked(w, r) ==
    /\ Goto(w, "idle", "select")
    /\ status[r] = "queued" /\ r \notin asked
    /\ \A k \in Runs : k < r => status[k] # "queued" \/ k \in asked
    /\ status' = [status EXCEPT ![r] = "running"]
    /\ fresh' = fresh \cup {r}
    /\ run' = [run EXCEPT ![w] = r]
    /\ UNCHANGED <<case, ids, asked, summary, results, todo, current>>

\* claim_next_eval_run: the oldest queued run.
Claim(w, r) ==
    /\ Goto(w, "idle", "select")
    /\ status[r] = "queued"
    /\ \A k \in Runs : k < r => status[k] # "queued"
    /\ status' = [status EXCEPT ![r] = "running"]
    /\ fresh' = fresh \cup {r}
    /\ run' = [run EXCEPT ![w] = r]
    /\ UNCHANGED <<case, ids, asked, summary, results, todo, current>>

\* run_existing: all of its cases must still be there and enabled.
Select(w) ==
    /\ pc[w] = "select"
    /\ IF ids[run[w]] \subseteq Enabled
       THEN /\ Goto(w, "select", "look")
            /\ todo' = [todo EXCEPT ![w] = ids[run[w]]]
            /\ UNCHANGED <<run, current>>
       ELSE Leave(w, "idle")
    /\ UNCHANGED <<case, runs, results>>

\* Before each case: has a cancellation been requested?
Look(w) ==
    /\ pc[w] = "look"
    /\ pc' = [pc EXCEPT ![w] = IF run[w] \in asked THEN "cancel" ELSE "progress"]
    /\ UNCHANGED <<case, runs, results, run, todo, current>>

\* update_eval_progress
ReportProgress(w, c) ==
    /\ Goto(w, "progress", "judge")
    /\ c \in todo[w]
    /\ current' = [current EXCEPT ![w] = {c}]
    /\ fresh' = IF status[run[w]] = "running" THEN fresh \cup {run[w]} ELSE fresh
    /\ UNCHANGED <<case, ids, status, asked, summary, results, run, todo>>

\* Mutant: the first failure ends the run.
JudgeUntilFailure(w, c, result) ==
    /\ pc[w] = "judge" /\ c \in current[w]
    /\ results' = [results EXCEPT ![run[w]][c] = result]
    /\ todo' = [todo EXCEPT ![w] = @ \ {c}]
    /\ current' = [current EXCEPT ![w] = {}]
    /\ pc' = [pc EXCEPT ![w] = IF todo[w] = {c} \/ result = "failed" THEN "complete" ELSE "look"]
    /\ UNCHANGED <<case, runs, run>>

\* _run_case: an answer, a timeout or an exception becomes a result, which
\* replaces an earlier one; there is no row for a case that was deleted, and
\* the exception leaves the run.
Judge(w, c, result) ==
    /\ pc[w] = "judge" /\ c \in current[w]
    /\ IF case[c] = "deleted"
       THEN Leave(w, "idle") /\ UNCHANGED results
       ELSE /\ results' = [results EXCEPT ![run[w]][c] = result]
            /\ todo' = [todo EXCEPT ![w] = @ \ {c}]
            /\ current' = [current EXCEPT ![w] = {}]
            /\ pc' = [pc EXCEPT ![w] = IF todo[w] = {c} THEN "complete" ELSE "look"]
            /\ UNCHANGED run
    /\ UNCHANGED <<case, runs>>

\* complete_eval_run counts the results there are.
CompleteRun(w) ==
    LET passed == Cardinality(WithResult(run[w], "passed"))
        failed == Cardinality(WithResult(run[w], "failed"))
    IN  /\ pc[w] = "complete"
        /\ summary' = [summary EXCEPT ![run[w]] = [passed |-> passed, failed |-> failed]]
        /\ status' = [status EXCEPT ![run[w]] = IF failed = 0 THEN "completed" ELSE "completed_with_failures"]
        /\ fresh' = fresh \ {run[w]}
        /\ Leave(w, "idle")
        /\ UNCHANGED <<case, ids, asked, results>>

\* mark_eval_run_cancelled
MarkCancelled(w) ==
    /\ pc[w] = "cancel"
    /\ status' = [status EXCEPT ![run[w]] = "cancelled"]
    /\ fresh' = fresh \ {run[w]}
    /\ Leave(w, "idle")
    /\ UNCHANGED <<case, ids, asked, summary, results>>

\* A call to the database raises: the iteration is given up and logged.
GiveUp(w) ==
    /\ pc[w] \notin {"down", "idle"}
    /\ Leave(w, "idle")
    /\ UNCHANGED <<case, runs, results>>

\* close() cancels the task, or the process dies.
Stop(w) ==
    /\ pc[w] # "down"
    /\ Leave(w, "down")
    /\ UNCHANGED <<case, runs, results>>

\* stale_seconds pass with nothing written to the run.
Lapse(r) ==
    /\ r \in fresh
    /\ fresh' = fresh \ {r}
    /\ UNCHANGED <<case, ids, status, asked, summary, results, worker>>

-----------------------------------------------------------------------------
Administer ==
    \/ \E r \in Runs, S \in SUBSET Cases : Queue(r, S)
    \/ \E r, old \in Runs : RetryFailed(r, old)
    \/ \E r \in Runs : RequestCancel(r)
    \/ \E c \in Cases : DeleteCase(c) \/ \E s \in {"enabled", "disabled"} : UpdateCase(c, s)

Work(w) ==
    \/ \E r \in Runs : Claim(w, r)
    \/ Select(w) \/ Look(w) \/ CompleteRun(w) \/ MarkCancelled(w)
    \/ \E c \in Cases : ReportProgress(w, c) \/ \E result \in {"passed", "failed"} : Judge(w, c, result)

\* A worker writes to its run more often than every stale_seconds: a case takes
\* no longer than its time limits (120 and 30 of 300 seconds by default).
Unattended(r) == \A w \in Workers : run[w] # r

EvalNext ==
    \/ Administer
    \/ \E w \in Workers : StartWorker(w) \/ Work(w) \/ GiveUp(w) \/ Stop(w)
    \/ \E r \in Runs : Unattended(r) /\ Lapse(r)

EvalSpec == EvalInit /\ [][EvalNext]_evalVars

-----------------------------------------------------------------------------
(* Safety *)

\* A run has one worker: only with nobody at it is it taken back.
OneWorkerEach ==
    \A w, v \in Workers : run[w] = run[v] /\ run[w] # 0 => w = v

\* A run that has ended stays as it ended: its status, its counts, and its
\* results but for those of deleted cases.
EndedIsFinal ==
    [][\A r \in Runs : status[r] \in Ended =>
        /\ status'[r] = status[r]
        /\ summary'[r] = summary[r]
        /\ \A c \in Cases : case'[c] # "deleted" => results'[r][c] = results[r][c]]_evalVars

\* A run is only completed with a verdict on each of its cases, through all
\* restarts and retakings, unless a case was deleted under it.
CompletedIsJudged ==
    \A r \in Runs : status[r] \in Completed /\ (\A c \in ids[r] : case[c] # "deleted") =>
        summary[r].passed + summary[r].failed = Cardinality(ids[r])

\* What keeps them: a worker's run is running and fresh, it judges cases of the
\* run, and a case it need not judge any more has its verdict.
InHand ==
    \A w \in Workers :
        /\ pc[w] \in {"down", "idle"} <=> run[w] = 0
        /\ run[w] # 0 => status[run[w]] = "running" /\ run[w] \in fresh
        /\ IF run[w] = 0 THEN todo[w] = {} ELSE todo[w] \subseteq ids[run[w]]
        /\ current[w] \subseteq todo[w]
        /\ pc[w] = "complete" => todo[w] = {}
JudgedSoFar ==
    \A w \in Workers : pc[w] \in {"look", "progress", "judge", "complete", "cancel"} =>
        \A c \in ids[run[w]] \ todo[w] : case[c] # "deleted" => results[run[w]][c] # "none"
ResultsOfCases ==
    \A r \in Runs :
        /\ status[r] = "unused" => ids[r] = {}
        /\ \A c \in Cases \ ids[r] : results[r][c] = "none"
EvalInv == EvalTypeOK /\ OneWorkerEach /\ InHand /\ JudgedSoFar /\ ResultsOfCases /\ CompletedIsJudged

-----------------------------------------------------------------------------
(* Liveness *)

\* A worker that is down is started, works, and at some time is no longer
\* stopped and started again.
WorkFairness ==
    \A w \in Workers : WF_evalVars(StartWorker(w)) /\ WF_evalVars(Work(w)) /\ <>[][~Stop(w)]_evalVars

\* A running run that no worker has in hand: it waits for the next start.
Stranded(r) == status[r] = "running" /\ Unattended(r)

\* A run that is queued ends, cancelled or not, unless it is stranded by a stop,
\* an exception, or a case that was disabled or deleted under it.
RunsEnd == \A r \in Runs : status[r] = "queued" ~> (status[r] \in Ended \/ Stranded(r))
=============================================================================
