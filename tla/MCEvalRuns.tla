------------------------------ MODULE MCEvalRuns ------------------------------
(* EvalRuns on a small instance. *)
EXTENDS EvalRuns

CONSTANTS w1, w2, c1, c2

\* Bounds: a run is queued when the runs before it have been claimed, over all
\* enabled cases or the failed ones; one of the cases is left alone, and the
\* other changes while a run waits for a worker, another one being worked on or
\* not; one of the workers fails and stops, the other takes over.
BoundedNext ==
    \/ /\ \A r \in Runs : status[r] # "queued"
       /\ \E r, old \in Runs : RetryFailed(r, old) \/ Queue(r, Enabled)
    \/ \E r \in Runs : RequestCancel(r)
    \/ /\ \E r \in Runs : status[r] = "queued"
       /\ DeleteCase(c2) \/ \E s \in {"enabled", "disabled"} : UpdateCase(c2, s)
    \/ \E w \in Workers : StartWorker(w) \/ Work(w)
    \/ GiveUp(w1) \/ Stop(w1)
    \/ \E r \in Runs : Unattended(r) /\ Lapse(r)

BoundedSpec == EvalInit /\ [][BoundedNext]_evalVars /\ WorkFairness
=============================================================================
