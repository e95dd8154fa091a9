--------------------------- MODULE MCSourceIndex ---------------------------
(* SourceIndex on a branch of three commits and two files. *)
EXTENDS SourceIndexTree, TLC

CONSTANTS c1, c2, c3, p, q, x, y

\* c1 -> c2 adds q; c2 -> c3 changes p and deletes q.
SmallTree ==
    c1 :> (p :> x @@ q :> Null) @@
    c2 :> (p :> x @@ q :> x) @@
    c3 :> (p :> y @@ q :> Null)

Linear == {<<c1, c1>>, <<c2, c2>>, <<c3, c3>>, <<c1, c2>>, <<c2, c3>>, <<c1, c3>>}

\* Bounds: no job starts after a rollback that did not reach its end, and
\* pushes come between jobs (only Begin reads head, so one that comes during a
\* job changes nothing before that).
BoundedNext ==
    \/ \E c \in Commits : pc = "idle" /\ MoveHead(c)
    \/ (pc = "idle" => ~aborted) /\ Advance
    \/ Rollback
    \/ Raise \/ RaiseOutside \/ RaiseInUndo \/ Crash

BoundedSpec == Init /\ [][BoundedNext]_vars

\* Any push, but the process lives and the rollback itself meets no outage.
ReliableNext ==
    \/ \E c \in Commits : MoveHead(c)
    \/ Advance \/ Rollback \/ Raise

ReliableSpec == Init /\ [][ReliableNext]_vars

\* "git failure restores live chunks owned by older succeeded versions"
\* (tests/test_indexing_coordinator.py): after a job that failed and was rolled
\* back, the chunks of the last synchronised commit are in the vector store.
FailureRestoresLiveChunks ==
    pc = "idle" => \A f \in Paths : vectors[f] = Synced(f)
=============================================================================
