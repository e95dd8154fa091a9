----------------------------- MODULE QualityTurns -----------------------------
(***************************************************************************)
(* The quality dataset's row of a run (QualityRepository.start_turn,       *)
(* complete_turn, recover_stale_running), the background tasks that write  *)
(* it for a streamed answer, and the extraction job a completed turn       *)
(* leaves to the memory worker.  A step here says what one call does to    *)
(* these tables; Conversations says who makes it and when.                 *)
(***************************************************************************)
EXTENDS FiniteSets

CONSTANT Runs

VARIABLES
    turn,       \* quality_turns.status of each run, "none" without a row
    cited,      \* runs whose turn cites a log trace (quality_citations)
    starting,   \* "quality-turn-start" tasks that have not inserted their row
    completing, \* verdict of each "quality-turn-completion" task that has not run, or "none"
    job         \* memory_extraction_jobs.status of each run's job

Verdicts == {"completed", "approval_required", "error", "timeout", "cancelled"}
Terminal == Verdicts \cup {"interrupted"}
JobStatuses == {"none", "enqueuing", "queued", "running", "succeeded", "failed"}
OpenJobs == {r \in Runs : job[r] \in {"enqueuing", "queued", "running"}}

TurnTypeOK ==
    /\ turn \in [Runs -> {"none", "running"} \cup Terminal]
    /\ cited \subseteq Runs
    /\ starting \subseteq Runs
    /\ completing \in [Runs -> {"none"} \cup Verdicts]
    /\ job \in [Runs -> JobStatuses]

TurnInit ==
    /\ turn = [r \in Runs |-> "none"]
    /\ cited = {}
    /\ starting = {}
    /\ completing = [r \in Runs |-> "none"]
    /\ job = [r \in Runs |-> "none"]

\* start_turn: INSERT OR IGNORE by run_id.
StartTurn(r) == turn' = [turn EXCEPT ![r] = IF @ = "none" THEN "running" ELSE @]

\* complete_turn: whatever the status of the row is, but only if there is one.  A completed turn of a known user is
\* offered to the memory worker by a task of its own.
CompleteTurn(r, s, trace, remembered) ==
    IF turn[r] = "none" THEN UNCHANGED <<turn, cited, job>>
    ELSE /\ turn' = [turn EXCEPT ![r] = s]
         /\ cited' = IF trace THEN cited \cup {r} ELSE cited \ {r}
         /\ job' = IF s = "completed" /\ remembered THEN [job EXCEPT ![r] = "enqueuing"] ELSE job

\* recover_stale_running: S are the rows nobody wrote to within the timeout.
RecoverStaleRunning(S) ==
    turn' = [r \in Runs |-> IF r \in S /\ turn[r] = "running" THEN "interrupted" ELSE turn[r]]
=============================================================================
