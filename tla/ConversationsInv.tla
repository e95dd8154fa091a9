---------------------------- MODULE ConversationsInv ----------------------------
(***************************************************************************)
(* Why the safety properties of Conversations hold: the parts of an        *)
(* inductive invariant, each named for what it says of the code.           *)
(***************************************************************************)
EXTENDS Conversations

\* Whose place each is: the routes, the bridge and the service go through their own.
OnCourse ==
    \A r \in Runs :
        /\ Request(ask[r])
        /\ pc[r] # "new" => at[r] \in Pods /\ Kind(r) # "none"
        /\ pc[r] \in {"scope", "open", "report", "closing"} => Kind(r) = "stream"
        /\ pc[r] \in {"event", "reply", "settle", "fail"} => Kind(r) = "feishu"
        /\ pc[r] \in Loose => Kind(r) = "stream"
        /\ pc[r] \in {"record", "verdict"} => Kind(r) \in {"chat", "feishu"}
        /\ pc[r] \in InRun \ {"answer"} => Kind(r) \in Questions
        /\ pc[r] \in {"look", "reread", "resume", "mark"} => Kind(r) = "decide"
        /\ pc[r] = "answer" => Kind(r) \in Questions \cup {"decide"}
        /\ pc[r] \in Deleting => Kind(r) = "delete"
        /\ pc[r] = "claim" => Kind(r) \in {"chat", "stream", "feishu", "delete"}

\* Who holds the conversation's lock of its pod, and nobody else does.
UnderTheLock == (InRun \cup Deleting \cup {"report", "reread", "resume", "mark"}) \ {"release"}
LockIsHeld ==
    /\ \A r \in Runs : pc[r] \in UnderTheLock => lock[at[r]] = r
    /\ \A p \in Pods : lock[p] # Nobody => at[lock[p]] = p /\ pc[lock[p]] \in UnderTheLock \cup {"closing"}

-----------------------------------------------------------------------------
(* Deletions *)

\* A deletion that is alone finds what it has emptied empty.
Past(d, places) == pc[d] \in places \cup {"release", "done"}
UnqueuedDeletions == \A d \in unqueued : pc[d] \in Deleting \cup Ended
QuietDeletions ==
    \A d \in quiet :
        /\ Kind(d) = "delete" /\ pc[d] \in Deleting \cup Ended
        /\ \A s \in Runs \ {d} : ~Active(s)
        /\ Past(d, {"unpend", "undiagnose", "unscope", "forget"}) => history = {}
        /\ Past(d, {"undiagnose", "unscope", "forget"}) => \A r \in Runs : pending[r] = "none"
        /\ Past(d, {"unscope", "forget"}) => thread = NoThread
        /\ Past(d, {"forget"}) => scope = Nobody
        /\ d \in unqueued => Unqueued /\ (Past(d, {}) => summary = {})
        /\ pc[d] = "done" => owner = Nobody

\* Runs that wait, and requests that may still store messages.
Waiting == {t \in Runs : pending[t] = "pending"}
Admitted(r) ==
    \/ pc[r] \in {"record", "open", "enter", "run", "answer", "resume", "loose"}
    \/ pc[r] = "lock" /\ Kind(r) \in Questions
\* What a deletion has overlapped with it has seen, and what it left is of runs it has overlapped.
DeletionsOverlap ==
    \A d \in Runs : pc[d] \in Deleting =>
        /\ \A s \in Runs \ {d} : Active(s) => RunOf(s) \in overlapping
        /\ pc[d] # "clear" => history \subseteq overlapping
        /\ pc[d] \notin {"clear", "unpend"} => Waiting \subseteq overlapping
UnownedOverlap ==
    owner = Nobody =>
        /\ history \cup Waiting \subseteq overlapping
        /\ \A r \in Runs : Admitted(r) => RunOf(r) \in overlapping

-----------------------------------------------------------------------------
(* Scopes and approvals *)

Deleted == \E d \in Runs : Kind(d) = "delete" /\ pc[d] # "new"
\* The scope a stream was prepared with lasts until a deletion.
PreparedScopes ==
    \A r \in Runs : Kind(r) = "stream" /\ ask[r].provided /\ pc[r] \in {"claim", "open", "lock", "enter"} =>
        scope = ask[r].scope \/ Deleted

\* Who has run the calls of a waiting run, and that it waits no longer when he is done.
Deciders ==
    \A t \in Runs : \A d \in resumed[t] :
        /\ Kind(d) = "decide" /\ ask[d].target = t
        /\ pc[d] \in {"answer", "mark", "done", "failed", "lost"}
        /\ pc[d] = "done" => pending[t] # "pending"
\* Whoever is about to is the first in his pod, but for those who broke off.
Resuming ==
    \A e \in Runs : pc[e] = "resume" =>
        \A d \in resumed[ask[e].target] : at[d] = at[e] => pc[d] \in {"failed", "lost"}

-----------------------------------------------------------------------------
(* Turns *)

\* A row is of a question that was admitted.
Rows ==
    \A r \in Runs : turn[r] # "none" => Kind(r) \in Questions /\ pc[r] \notin {"new", "event", "scope", "claim", "open", "record"}
\* What is reported, or written as a verdict, is an outcome.
Outcomes ==
    \A r \in Runs :
        /\ pc[r] \in {"report", "verdict"} => out[r] # "none"
        /\ pc[r] = "reply" => out[r] \in {"completed", "approval_required"}

\* A start that has not landed is of a stream without a row, whose end or verdict is still to come.
Starts ==
    \A r \in starting :
        /\ turn[r] = "none" /\ Kind(r) = "stream"
        /\ pc[r] \in {"lock", "report", "closing"} \cup InRun
        /\ pc[r] = "closing" => completing[r] # "none" \/ r \in unsettled
\* A verdict is still to come where a turn is running.
Verdictless(r) == pc[r] \in {"lock", "report", "reply", "verdict"} \cup InRun
RunningTurns ==
    \A r \in Runs :
        turn[r] = "running" => r \in unsettled \/ completing[r] # "none" \/ Verdictless(r)

-----------------------------------------------------------------------------
(* Feishu events *)

\* Deliveries that have an event in process, and those that count as its attempts.
Processing(e) == {r \in Runs : Kind(r) = "feishu" /\ ask[r].event = e /\ Active(r) /\ pc[r] # "event"}
Deliveries(e) == answered[e] \cup Processing(e)
AttemptsCount ==
    \A e \in Events :
        /\ event[e].status = "none" => event[e].attempt = 0
        /\ Cardinality(Deliveries(e)) <= event[e].attempt

\* An answer that was sent stands, or broke off, or its event could not be completed.
Sent ==
    \A e \in Events : \A r \in answered[e] :
        /\ Kind(r) = "feishu" /\ ask[r].event = e
        /\ IF out[r] = "error" THEN pc[r] \in {"verdict", "fail", "failed", "dropped", "lost"} ELSE pc[r] \in {"settle", "done", "lost"}
\* As long as no pod has started, an event is processed by one delivery at a time, and not again once it was answered.
OneDelivery ==
    starts = 0 => \A e \in Events :
        /\ \A r, s \in Processing(e) : r = s
        /\ \A r, s \in answered[e] : r # s => out[r] = "error" \/ out[s] = "error"
        /\ \A r \in answered[e], s \in Processing(e) : r # s => out[r] = "error"
        /\ Processing(e) # {} => event[e].status = "processing"
        /\ \A r \in answered[e] : out[r] # "error" => event[e].status \in {"processing", "completed"}
\* An event in process is somebody's.
Processed ==
    \A e \in Events : event[e].status = "processing" =>
        \E r \in Runs : \/ r \in Processing(e)
                        \/ Kind(r) = "feishu" /\ ask[r].event = e /\ pc[r] \in {"dropped", "lost"}

-----------------------------------------------------------------------------
(* Diagnoses *)

\* What a diagnosis has cited at each node, in its checkpoint and in memory.
OfItsRun(d) ==
    /\ d.cites \subseteq {d.run}
    /\ d.node \in {"none", "understand", "query", "interrupt"} => d.cites = {}
    /\ d.node \in {"search", "enrich", "inspect", "generate"} => d.cites = {d.run}
    /\ d.status \in {"completed", "no_logs"} => d.cites = {d.run}
    /\ d.status = "clarification_required" => d.node = "interrupt"
Citations ==
    /\ OfItsRun(thread)
    /\ \A r \in Runs : OfItsRun(graph[r]) /\ (graph[r] # NoThread => graph[r].run = r)
\* Whose evidence is in memory.
EvidenceHeld ==
    \A r \in evidence :
        \/ pc[r] \in {"diagnosing", "looseDiagnosis"}
        \/ pc[r] = "cancelled" /\ out[r] = "cancelled"
        \/ Kind(r) = "feishu" /\ pc[r] \in {"verdict", "fail", "failed", "dropped", "lost"} /\ out[r] = "timeout"

-----------------------------------------------------------------------------
Histories ==
    /\ quiet \cup overlapping \cup unqueued \cup unsettled \subseteq Runs
    /\ resumed \in [Runs -> SUBSET Runs] /\ answered \in [Events -> SUBSET Runs]
    /\ used = [r \in Runs |-> used[r]]

IInv ==
    /\ TypeOK /\ Histories /\ OnCourse /\ LockIsHeld
    /\ UnqueuedDeletions /\ QuietDeletions /\ DeletionsOverlap /\ UnownedOverlap
    /\ PreparedScopes /\ AnswersInScope
    /\ Deciders /\ Resuming /\ ApprovedOnce
    /\ Rows /\ Outcomes /\ Starts /\ RunningTurns
    /\ AttemptsCount /\ Sent /\ OneDelivery /\ Processed
    /\ Citations /\ EvidenceHeld
=================================================================================
