---------------------------- MODULE MCBranchSync ----------------------------
(* BranchSync on small instances. *)
EXTENDS BranchSync

\* Bounds: a push is announced (or not) before the next push (the jobs of two
\* pushes are claimed in any order all the same), hooks arrive while the worker
\* is between two jobs (they only add rows, so during a job is as good as after
\* it), and administrators act when the queue is empty.
BoundedNext ==
    \/ hooks = {} /\ \E c \in Commits : Push(c)
    \/ pc = "idle" /\ \E c \in Commits :
            LoseHook(c) \/ (\E again \in BOOLEAN : DeliverHook(c, again))
    \/ Work
    \/ (\A j \in Jobs : state[j] # "queued") /\ (ManualSync \/ \E j \in Jobs : AdminRetry(j))
    \/ Raise \/ Crash \/ (\E stale \in BOOLEAN : Restart(stale))

BoundedSpec == Init /\ [][BoundedNext]_vars /\ WorkerFairness
=============================================================================
