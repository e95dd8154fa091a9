------------------------------ MODULE JobLease ------------------------------
(***************************************************************************)
(* What the queue of synchronisation jobs promises, without the table, the *)
(* clock, the order of the claims or the life of a worker process.         *)
(*                                                                         *)
(* A job is leased for a term.  A worker remembers at most one lease, and  *)
(* may remember one that is long over: nothing tells it.  Only the worker  *)
(* whose lease is the job's current term decides about the job, each term  *)
(* is decided at most once, and a job is tried again after an error only   *)
(* while its budget lasts.  A lease is taken back only after it expired.   *)
(***************************************************************************)
EXTENDS Integers

CONSTANTS
    Jobs,
    Workers,
    Budget      \* how often a job may be tried again after an error

VARIABLES
    phase,      \* "unused", "queued", "running", "succeeded", "failed", "deleted"
    term,       \* how often the job was leased
    budget,     \* how often it may still be tried again
    expired,    \* leases that a starting process takes back
    lease       \* what each worker remembers: NoLease or <<job, term>>

vars == <<phase, term, budget, expired, lease>>

NoLease == <<>>

Init ==
    /\ phase = [j \in Jobs |-> "unused"]
    /\ term = [j \in Jobs |-> 0]
    /\ budget = [j \in Jobs |-> Budget]
    /\ expired = {}
    /\ lease = [w \in Workers |-> NoLease]

Moves(j, from, to) ==
    /\ phase[j] = from
    /\ phase' = [phase EXCEPT ![j] = to]

\* A job waits to be leased, or is withdrawn while it waits; one that failed
\* may be brought back from outside, with the budget it has left.
Submit(j) == Moves(j, "unused", "queued") /\ UNCHANGED <<term, budget, expired, lease>>
Withdraw(j) == Moves(j, "queued", "deleted") /\ UNCHANGED <<term, budget, expired, lease>>
Reopen(j) == Moves(j, "failed", "queued") /\ UNCHANGED <<term, budget, expired, lease>>

\* A new term begins.  The worker may be gone before it knows.
Grant(j, w) ==
    /\ lease[w] = NoLease
    /\ Moves(j, "queued", "running")
    /\ term' = [term EXCEPT ![j] = @ + 1]
    /\ \/ lease' = [lease EXCEPT ![w] = <<j, term[j] + 1>>]
       \/ UNCHANGED lease
    /\ UNCHANGED <<budget, expired>>

\* A term lasts too long, and whatever has expired is queued again; the
\* workers that still remember those leases are not told.
Expire(j) ==
    /\ phase[j] = "running"
    /\ expired' = expired \cup {j}
    /\ UNCHANGED <<phase, term, budget, lease>>

Revoke ==
    /\ phase' = [j \in Jobs |-> IF j \in expired THEN "queued" ELSE phase[j]]
    /\ expired' = {}
    /\ UNCHANGED <<term, budget, lease>>

\* Worker w has the current lease of j, and nobody else remembers it.
Owns(w, j) ==
    /\ lease[w] = <<j, term[j]>>
    /\ phase[j] = "running"
    /\ \A v \in Workers \ {w} : lease[v] # lease[w]

Release(w) == lease' = [lease EXCEPT ![w] = NoLease]

Decide(w, j, verdict) ==
    /\ Owns(w, j)
    /\ phase' = [phase EXCEPT ![j] = verdict]
    /\ expired' = expired \ {j}
    /\ Release(w)
    /\ UNCHANGED term

\* The owner finishes the job, gives it back, or uses one more try.
Finish(w, j) == Decide(w, j, "succeeded") /\ UNCHANGED budget
GiveUp(w, j) == Decide(w, j, "failed") /\ UNCHANGED budget
GiveBack(w, j) == Decide(w, j, "queued") /\ UNCHANGED budget
TryAgain(w, j) ==
    /\ Decide(w, j, "queued")
    /\ budget[j] > 0
    /\ budget' = [budget EXCEPT ![j] = @ - 1]

\* A worker forgets a lease, current or over, without deciding anything.
Abandon(w) == Release(w) /\ UNCHANGED <<phase, term, budget, expired>>

Next ==
    \/ \E j \in Jobs : Submit(j) \/ Withdraw(j) \/ Reopen(j) \/ Expire(j)
    \/ \E w \in Workers, j \in Jobs :
        Grant(j, w) \/ Finish(w, j) \/ GiveUp(w, j) \/ GiveBack(w, j) \/ TryAgain(w, j)
    \/ \E w \in Workers : Abandon(w)
    \/ Revoke

Spec == Init /\ [][Next]_vars
=============================================================================
