----------------------------- MODULE Conversations -----------------------------
(***************************************************************************)
(* One conversation and the requests made of it: questions (a JSON answer, *)
(* a stream, a Feishu message), decisions on a run that waits for an       *)
(* approval, and its deletion (AgentService, the agent routes of api/app,  *)
(* FeishuEventBridge, MemoryWorker).  Composes the conversation's records, *)
(* the quality dataset, the bug diagnosis and the Feishu events, whose     *)
(* steps it takes in the order of the code.                                *)
(*                                                                         *)
(* A request belongs to the pod it arrived at.  AgentService serialises a  *)
(* conversation with an asyncio.Lock, so only within a pod; owner, turn    *)
(* and event are written outside of it.  A pod may stop between any two    *)
(* steps, and start while another still works.                             *)
(***************************************************************************)
EXTENDS Integers, FiniteSets

CONSTANTS
    Runs,       \* requests; the run of a question has the name of its request
    Pods,
    Events,     \* Feishu events
    Fields,     \* what a bug diagnosis needs to know
    Nobody,
    Default,    \* the default knowledge scope
    Mixes,      \* which requests may be made together: see Request
    MaxAttempts,\* attempts of a Feishu event
    MaxStarts   \* bound: starts of a pod

ASSUME RunsAssumption == IsFiniteSet(Runs)
ASSUME NobodyAssumption == Nobody \notin Runs \cup Pods /\ "none" \notin Runs
ASSUME BoundsAssumption == MaxAttempts \in Nat \ {0} /\ MaxStarts \in Nat

VARIABLES
    owner, scope, history, pending, summary,    \* ConversationRecords
    turn, cited, starting, completing, job,     \* QualityTurns
    thread, graph, expired, evidence,           \* BugDiagnosis
    event,                                      \* FeishuEvents
    ask,        \* the requests: who asks what
    extracts,   \* memory extraction is configured
    pods,       \* the pods of the deployment
    pc,         \* where each request is
    at,         \* its pod
    out,        \* the outcome of its run
    used,       \* the scope its run was given
    up,         \* pods that run
    lock,       \* the conversation's lock in each pod
    work,       \* the job each pod's memory worker has, and what is left of it
    starts,     \* starts of pods so far
    resumed,    \* decisions that have run the calls a run is now waiting for
    answered,   \* deliveries of an event that have sent an answer
    quiet,      \* deletions that no other request has overlapped or followed
    overlapping,\* runs under way at some time during a deletion
    unqueued,   \* deletions that found no extraction job open and no verdict to come
    unsettled   \* runs whose verdict had no row to go to, or nobody to write it

INSTANCE ConversationRecords
INSTANCE QualityTurns
INSTANCE BugDiagnosis
INSTANCE FeishuEvents

recordVars == <<owner, scope, history, pending, summary>>
turnVars == <<turn, cited, starting, completing, job>>
diagnosisVars == <<thread, graph, expired, evidence>>
podVars == <<up, lock, work, starts>>
ghosts == <<resumed, answered, quiet, overlapping, unqueued, unsettled>>
fixed == <<ask, extracts, pods>>
vars == <<recordVars, turnVars, diagnosisVars, event, fixed, pc, at, out, used, podVars, ghosts>>

Kinds == {"chat", "stream", "feishu", "decide", "delete", "none"}
Questions == {"chat", "stream", "feishu"}
Ended == {"done", "failed", "refused", "dropped", "cancelled", "lost"}
Deleting == {"clear", "unpend", "undiagnose", "unscope", "forget", "release"}
Diagnosing == {"diagnose", "diagnosing"}
InRun == {"enter", "run", "answer"} \cup Diagnosing
\* Runs whose stream has been closed and that nobody has stopped.
Loose == {"loose", "looseDiagnosis"}
Places == {"new", "event", "scope", "claim", "record", "open", "look", "lock", "reread", "resume", "mark", "report",
           "reply", "settle", "verdict", "fail", "closing"}
          \cup Deleting \cup InRun \cup Loose \cup Ended

Active(r) == pc[r] \notin {"new"} \cup Ended
Kind(r) == ask[r].kind
\* The run a request works on.
RunOf(r) == IF Kind(r) = "decide" THEN ask[r].target ELSE r
Idle == [job |-> "none", phase |-> "none"]

\* Requests come from an identity (the routes resolve one before they claim the conversation) and name a scope, the
\* request's own or the configured one.
Request(a) ==
    /\ a.kind \in Kinds /\ a.target \in Runs /\ a.event \in Events
    /\ a.kind # "none" => a.by # Nobody /\ a.scope # Nobody
ASSUME MixesAssumption ==
    \A m \in Mixes : m.pods # {} /\ m.pods \subseteq Pods /\ \A r \in Runs : Request(m.ask[r])

RequestTypeOK ==
    /\ \A r \in Runs : Kind(r) \in Kinds
    /\ pc \in [Runs -> Places]
    /\ at \in [Runs -> Pods \cup {Nobody}]
    /\ out \in [Runs -> Verdicts \cup {"none"}]
PodTypeOK ==
    /\ pods \subseteq Pods /\ up \subseteq Pods
    /\ lock \in [Pods -> Runs \cup {Nobody}]
    /\ work \in [Pods -> [job : Runs \cup {"none"}, phase : {"none", "extract", "complete"}]]
    /\ starts \in 0..MaxStarts
TypeOK == RecordTypeOK /\ TurnTypeOK /\ DiagnosisTypeOK /\ EventTypeOK /\ RequestTypeOK /\ PodTypeOK

Init ==
    /\ RecordInit /\ TurnInit /\ DiagnosisInit /\ EventInit
    /\ \E m \in Mixes : ask = m.ask /\ extracts = m.extracts /\ pods = m.pods
    /\ pc = [r \in Runs |-> "new"]
    /\ at = [r \in Runs |-> Nobody]
    /\ out = [r \in Runs |-> "none"]
    /\ used = [r \in Runs |-> Nobody]
    /\ up = {CHOOSE p \in pods : TRUE}
    /\ lock = [p \in Pods |-> Nobody]
    /\ work = [p \in Pods |-> Idle]
    /\ starts = 0
    /\ resumed = [r \in Runs |-> {}]
    /\ answered = [e \in Events |-> {}]
    /\ quiet = {} /\ overlapping = {} /\ unqueued = {} /\ unsettled = {}

Go(r, from, to) == pc[r] = from /\ pc' = [pc EXCEPT ![r] = to]
Free(r) == at[r] # Nobody /\ lock[at[r]] = Nobody
Unlocked(r) == IF lock[at[r]] = r THEN [lock EXCEPT ![at[r]] = Nobody] ELSE lock
Unlock(r) == lock' = Unlocked(r)
EndAs(r, v) == out' = [out EXCEPT ![r] = v]

-----------------------------------------------------------------------------
(* Before the lock *)

First(r) == CASE Kind(r) = "stream" -> "scope"
              [] Kind(r) \in {"chat", "delete"} -> "claim"
              [] Kind(r) = "feishu" -> "event"
              [] Kind(r) = "decide" -> "look"

Arrive(r, p) ==
    /\ p \in up /\ Kind(r) # "none"
    /\ Go(r, "new", First(r))
    /\ Kind(r) = "decide" => pc[ask[r].target] # "new"
    /\ at' = [at EXCEPT ![r] = p]
    /\ quiet' = {}
    /\ overlapping' = IF \E d \in Runs : pc[d] \in Deleting THEN overlapping \cup {RunOf(r)} ELSE overlapping
    /\ UNCHANGED <<recordVars, turnVars, diagnosisVars, event, fixed, out, used, podVars, resumed, answered, unqueued, unsettled>>

\* handle_event: claim, which may raise.
ReceiveEvent(r) ==
    /\ \/ Go(r, "event", "claim") /\ Claimable(ask[r].event) /\ ClaimEvent(ask[r].event)
       \/ Go(r, "event", "refused") /\ UNCHANGED event
    /\ UNCHANGED <<recordVars, turnVars, diagnosisVars, fixed, at, out, used, podVars, ghosts>>

\* Mutant: the scope is looked at and not bound.
PrepareScopeUnbound(r) ==
    /\ Free(r)
    /\ Go(r, "scope", IF Resolvable(ask[r].scope, ask[r].provided) THEN "claim" ELSE "refused")
    /\ UNCHANGED <<recordVars, turnVars, diagnosisVars, event, fixed, at, out, used, podVars, ghosts>>

\* prepare_conversation_scope, under the lock, before it is known whose conversation this is.
PrepareScope(r) ==
    /\ Free(r)
    /\ IF Resolvable(ask[r].scope, ask[r].provided)
       THEN Go(r, "scope", "claim") /\ ResolveScope(ask[r].scope, ask[r].provided)
       ELSE Go(r, "scope", "refused") /\ UNCHANGED scope
    /\ UNCHANGED <<owner, history, pending, summary, turnVars, diagnosisVars, event, fixed, at, out, used, podVars, ghosts>>

AfterClaim(r) == CASE Kind(r) = "stream" -> "open" [] Kind(r) = "delete" -> "lock" [] OTHER -> "record"
\* ownership.claim, which refuses or raises.  In the bridge it stands before the try block, as the conversation's and the
\* sender's IDs do: what is raised there leaves the event in process.
Claim(r) ==
    /\ \/ Go(r, "claim", AfterClaim(r)) /\ MayOwn(ask[r].by) /\ BindOwner(ask[r].by)
       \/ Go(r, "claim", IF Kind(r) = "feishu" THEN "dropped" ELSE "refused") /\ UNCHANGED owner
    /\ UNCHANGED <<scope, history, pending, summary, turnVars, diagnosisVars, event, fixed, at, out, used, podVars, ghosts>>

\* chat and handle_event start the turn themselves.
Record(r) ==
    /\ Go(r, "record", "lock")
    /\ StartTurn(r)
    /\ UNCHANGED <<recordVars, cited, starting, completing, job, diagnosisVars, event, fixed, at, out, used, podVars, ghosts>>

\* chat_stream leaves it to a task that runs beside the answer.
Open(r) ==
    /\ Go(r, "open", "lock")
    /\ starting' = starting \cup {r}
    /\ UNCHANGED <<recordVars, turn, cited, completing, job, diagnosisVars, event, fixed, at, out, used, podVars, ghosts>>

LandStart(r) ==
    /\ r \in starting
    /\ starting' = starting \ {r}
    /\ StartTurn(r)
    /\ UNCHANGED <<recordVars, cited, completing, job, diagnosisVars, event, fixed, pc, at, out, used, podVars, ghosts>>

\* get_pending: before the lock to find the conversation, and again under it.
Look(r) ==
    /\ Go(r, "look", IF IsPending(ask[r].target) THEN "lock" ELSE "refused")
    /\ UNCHANGED <<recordVars, turnVars, diagnosisVars, event, fixed, at, out, used, podVars, ghosts>>

Resting == \A p \in Pods : work[p] = Idle
\* No extraction is queued or under way, nor about to be.
Unqueued == OpenJobs = {} /\ Resting /\ \A r \in Runs : completing[r] = "none"
OthersIdle(r) == \A s \in Runs \ {r} : ~Active(s)
UnderLock(r) == CASE Kind(r) = "decide" -> "reread" [] Kind(r) = "delete" -> "clear" [] OTHER -> "enter"
Acquire(r) ==
    /\ Free(r)
    /\ Go(r, "lock", UnderLock(r))
    /\ lock' = [lock EXCEPT ![at[r]] = r]
    /\ quiet' = IF Kind(r) = "delete" /\ OthersIdle(r) THEN quiet \cup {r} ELSE quiet
    /\ overlapping' = IF Kind(r) = "delete" THEN overlapping \cup {RunOf(s) : s \in {x \in Runs \ {r} : Active(x)}} ELSE overlapping
    /\ unqueued' = IF Kind(r) = "delete" /\ Unqueued THEN unqueued \cup {r} ELSE unqueued
    /\ UNCHANGED <<recordVars, turnVars, diagnosisVars, event, fixed, at, out, used, up, work, starts, resumed, answered, unsettled>>

-----------------------------------------------------------------------------
(* A question, under the lock *)

\* The stream's scope is the one prepared before, the others bring theirs.
Wanted(r) == IF Kind(r) = "stream" THEN Default ELSE ask[r].scope
Provided(r) == Kind(r) # "stream" /\ ask[r].provided

\* _should_run_bug_graph_direct
Direct(r) ==
    \/ ask[r].text = "report"
    \/ ask[r].text \in {"supplement", "follow", "cancel"} /\ Pending
    \/ ask[r].text = "follow" /\ ShouldResume(cited # {})

\* What an exception of the run does: an agent's is an event of the stream (Report), one before it is the generator's
\* own, whose handler stops the start of the turn before it records the verdict.
Enter(r) ==
    /\ pc[r] = "enter"
    /\ IF Resolvable(Wanted(r), Provided(r))
       THEN /\ Go(r, "enter", IF Direct(r) THEN "diagnose" ELSE "run")
            /\ ResolveScope(Wanted(r), Provided(r))
            /\ used' = [used EXCEPT ![r] = scope']
            /\ UNCHANGED <<out, starting, completing, lock>>
       ELSE /\ EndAs(r, "error") /\ Unlock(r)
            /\ IF Kind(r) = "stream"
               THEN /\ Go(r, "enter", "closing")
                    /\ starting' = starting \ {r}
                    /\ completing' = [completing EXCEPT ![r] = "error"]
               ELSE Go(r, "enter", "verdict") /\ UNCHANGED <<starting, completing>>
            /\ UNCHANGED <<scope, used>>
    /\ UNCHANGED <<owner, history, pending, summary, turn, cited, job, diagnosisVars, event, fixed, at, up, work, starts, ghosts>>

\* Runner.run stores the messages of the run in the session.
Run(r) ==
    /\ Go(r, "run", "answer")
    /\ AddItems(r)
    /\ UNCHANGED <<owner, scope, pending, summary, turnVars, diagnosisVars, event, fixed, at, out, used, podVars, ghosts>>

\* Where a request goes on with its run's outcome.  A stream keeps the lock until its last event is sent.
NextPlace(r, v) ==
    CASE Kind(r) = "stream" -> "report"
      [] Kind(r) = "feishu" /\ v \in {"completed", "approval_required"} -> "reply"
      [] Kind(r) \in {"chat", "feishu"} -> "verdict"
      [] Kind(r) = "decide" /\ v = "completed" -> "mark"
      [] Kind(r) = "decide" /\ v = "approval_required" -> "done"
      [] OTHER -> "failed"
Keeps(r, v) == Kind(r) = "stream" \/ (Kind(r) = "decide" /\ v = "completed")
Finish(r, from, v) ==
    /\ Go(r, from, NextPlace(r, v))
    /\ EndAs(r, v)
    /\ IF Keeps(r, v) THEN UNCHANGED lock ELSE Unlock(r)

\* _response_from_result: an answer, or calls that wait for an approval.
Answer(r) ==
    /\ Finish(r, "answer", "completed")
    /\ UNCHANGED <<recordVars, turnVars, diagnosisVars, event, fixed, at, used, up, work, starts, ghosts>>

StopForApproval(r) ==
    /\ Finish(r, "answer", "approval_required")
    /\ SavePending(RunOf(r))
    /\ resumed' = [resumed EXCEPT ![RunOf(r)] = {}]
    /\ UNCHANGED <<owner, scope, history, summary, turnVars, diagnosisVars, event, fixed, at, used, up, work, starts,
                   answered, quiet, overlapping, unqueued, unsettled>>

\* An exception of the run, before or after its messages are stored.
Break(r) ==
    /\ \E from \in {"run", "answer"} : Finish(r, from, "error")
    /\ UNCHANGED <<recordVars, turnVars, diagnosisVars, event, fixed, at, used, up, work, starts, ghosts>>

-----------------------------------------------------------------------------
(* A bug diagnosis instead of the run *)

Diagnose(r) ==
    /\ pc[r] = "diagnose"
    /\ IF ask[r].text = "cancel"
       THEN Cancel /\ Finish(r, "diagnose", "completed")
       ELSE /\ Begin(r, Inherited(ask[r].text = "follow", cited # {}))
            /\ Go(r, "diagnose", "diagnosing") /\ UNCHANGED <<out, lock>>
    /\ UNCHANGED <<recordVars, turnVars, event, fixed, at, used, up, work, starts, ghosts>>

\* A node of the graph.
Node(r) ==
    /\ pc[r] \in {"diagnosing", "looseDiagnosis"}
    /\ \/ \E found \in SUBSET Fields : Understand(r, found)
       \/ \E result \in {"logs", "no_logs", "unavailable"} : QueryLogs(r, result)
       \/ SearchCode(r) \/ EnrichCode(r) \/ InspectContracts(r) \/ Generate(r)
    /\ UNCHANGED <<recordVars, turnVars, event, fixed, pc, at, out, used, podVars, ghosts>>

\* What a run comes to that nobody waits for is lost.
EndLoose(r, from) == Go(r, from, "cancelled") /\ UNCHANGED <<out, lock>>

\* The graph has stopped: at its end, or to ask for the missing fields.
Conclude(r) ==
    /\ graph[r].node \in {"interrupt", "end"}
    /\ Finish(r, "diagnosing", "completed") \/ EndLoose(r, "looseDiagnosis")
    /\ Drop(r)
    /\ UNCHANGED <<recordVars, turnVars, event, fixed, at, used, up, work, starts, ghosts>>

\* code_retriever.search and enrich are not guarded.
BreakDiagnosis(r) ==
    /\ At(r, "search") \/ At(r, "enrich")
    /\ Finish(r, "diagnosing", "error") \/ EndLoose(r, "looseDiagnosis")
    /\ Drop(r)
    /\ UNCHANGED <<recordVars, turnVars, event, fixed, at, used, up, work, starts, ghosts>>

ExpireThread ==
    /\ Expire
    /\ UNCHANGED <<recordVars, turnVars, event, fixed, pc, at, out, used, podVars, ghosts>>

\* The response of a diagnosis cites the log trace.
Diagnosed(r) == out[r] = "completed" /\ r \in graph[r].cites
Remembered(r) == extracts /\ ask[r].by # Nobody

-----------------------------------------------------------------------------
(* The verdict on a question *)

\* Mutant: an exception leaves without a verdict.
VerdictUnlessFailed(r) ==
    /\ Go(r, "verdict", IF Kind(r) = "feishu" THEN "fail" ELSE IF out[r] = "error" THEN "failed" ELSE "done")
    /\ IF out[r] = "error" THEN UNCHANGED <<turn, cited, job>> ELSE CompleteTurn(r, out[r], Diagnosed(r), Remembered(r))
    /\ UNCHANGED <<recordVars, starting, completing, diagnosisVars, event, fixed, at, out, used, podVars, ghosts>>

\* chat and handle_event's error path write it at once.
Verdict(r) ==
    /\ Go(r, "verdict", IF Kind(r) = "feishu" THEN "fail" ELSE IF out[r] = "error" THEN "failed" ELSE "done")
    /\ CompleteTurn(r, out[r], Diagnosed(r), Remembered(r))
    /\ UNCHANGED <<recordVars, starting, completing, diagnosisVars, event, fixed, at, out, used, podVars, ghosts>>

\* chat_stream awaits the turn's start before it reports an answer, not before it reports an error; the verdict is
\* left to a task.
Report(r) ==
    /\ Go(r, "report", "closing")
    /\ out[r] # "error" => r \notin starting
    /\ completing' = [completing EXCEPT ![r] = out[r]]
    /\ UNCHANGED <<recordVars, turn, cited, starting, job, diagnosisVars, event, fixed, at, out, used, podVars, ghosts>>

\* The stream ends: its finally stops a start that is still under way.
Close(r) ==
    /\ Go(r, "closing", IF out[r] = "error" THEN "failed" ELSE "done")
    /\ starting' = starting \ {r}
    /\ Unlock(r)
    /\ UNCHANGED <<recordVars, turn, cited, completing, job, diagnosisVars, event, fixed, at, out, used, up, work, starts, ghosts>>

LandCompletion(r) ==
    /\ completing[r] # "none"
    /\ CompleteTurn(r, completing[r], Diagnosed(r), Remembered(r))
    /\ completing' = [completing EXCEPT ![r] = "none"]
    /\ unsettled' = IF turn[r] = "none" THEN unsettled \cup {r} ELSE unsettled
    /\ UNCHANGED <<recordVars, starting, diagnosisVars, event, fixed, pc, at, out, used, podVars, resumed, answered, quiet, overlapping, unqueued>>

\* The client goes away while the stream waits for an event: CancelledError.
Disconnect(r) ==
    /\ Kind(r) = "stream" /\ pc[r] \in {"lock", "report"} \cup InRun
    /\ Go(r, pc[r], "cancelled")
    /\ starting' = starting \ {r}
    /\ completing' = [completing EXCEPT ![r] = "cancelled"]
    /\ EndAs(r, "cancelled") /\ Unlock(r)
    /\ UNCHANGED <<recordVars, turn, cited, job, diagnosisVars, event, fixed, at, used, up, work, starts, ghosts>>

\* It goes away while the stream is sending one: the generator is closed, which leaves the lock and runs its finally,
\* and stops neither the diagnosis task nor the runner's.  Until run.started is sent there is neither.
LeftAt(r) ==
    CASE pc[r] \in {"run", "answer"} -> "loose"
      [] pc[r] = "diagnosing" -> "looseDiagnosis"
      [] pc[r] \in {"open", "diagnose"} -> "cancelled"
Abandon(r) ==
    /\ Kind(r) = "stream" /\ pc[r] \in {"open", "run", "answer"} \cup Diagnosing
    /\ Go(r, pc[r], LeftAt(r))
    /\ starting' = starting \ {r}
    /\ EndAs(r, "cancelled") /\ Unlock(r)
    /\ unsettled' = unsettled \cup {r}
    /\ UNCHANGED <<recordVars, turn, cited, completing, job, diagnosisVars, event, fixed, at, used, up, work, starts,
                   resumed, answered, quiet, overlapping, unqueued>>

\* The runner goes on to store the messages of the run, of each turn its own, and ends.
LooseRun(r) ==
    /\ pc[r] = "loose" /\ AddItems(r)
    /\ UNCHANGED <<owner, scope, pending, summary, turnVars, diagnosisVars, event, fixed, pc, at, out, used, podVars, ghosts>>
LooseEnds(r) ==
    /\ EndLoose(r, "loose")
    /\ UNCHANGED <<recordVars, turnVars, diagnosisVars, event, fixed, at, used, up, work, starts, ghosts>>

-----------------------------------------------------------------------------
(* A Feishu message's answer *)

\* agent_timeout_seconds: the run is cancelled wherever it is, waiting for the lock too.
Timeout(r) ==
    /\ Kind(r) = "feishu" /\ pc[r] \in {"lock"} \cup InRun
    /\ Go(r, pc[r], "verdict")
    /\ EndAs(r, "timeout") /\ Unlock(r)
    /\ UNCHANGED <<recordVars, turnVars, diagnosisVars, event, fixed, at, used, up, work, starts, ghosts>>

\* The answer is sent in chunks: it may fail before the first or after it.
Reply(r) ==
    /\ pc[r] = "reply"
    /\ \/ /\ Go(r, "reply", "settle")
          /\ answered' = [answered EXCEPT ![ask[r].event] = @ \cup {r}]
          /\ CompleteTurn(r, out[r], Diagnosed(r), Remembered(r))
          /\ UNCHANGED out
       \/ /\ Go(r, "reply", "verdict") /\ EndAs(r, "error")
          /\ answered' \in {answered, [answered EXCEPT ![ask[r].event] = @ \cup {r}]}
          /\ UNCHANGED <<turn, cited, job>>
    /\ UNCHANGED <<recordVars, starting, completing, diagnosisVars, event, fixed, at, used, podVars, resumed, quiet, overlapping, unqueued, unsettled>>

\* Once the answer is sent the event is completed; if that raises, the handler takes the answer for a failed one.
SettleEvent(r) ==
    /\ \/ Go(r, "settle", "done") /\ SetStatus(ask[r].event, "completed") /\ UNCHANGED out
       \/ Go(r, "settle", "verdict") /\ EndAs(r, "error") /\ UNCHANGED event
    /\ UNCHANGED <<recordVars, turnVars, diagnosisVars, fixed, at, used, podVars, ghosts>>

\* fail, the handler's last: if it raises, the event stays in process.
FailEvent(r) ==
    /\ \/ Go(r, "fail", "failed") /\ SetStatus(ask[r].event, "failed")
       \/ Go(r, "fail", "dropped") /\ UNCHANGED event
    /\ UNCHANGED <<recordVars, turnVars, diagnosisVars, fixed, at, out, used, podVars, ghosts>>

-----------------------------------------------------------------------------
(* A decision *)

\* Mutant: what was read before the lock is taken to be true still.
RereadNothing(r) ==
    /\ Go(r, "reread", "resume") /\ UNCHANGED lock
    /\ UNCHANGED <<recordVars, turnVars, diagnosisVars, event, fixed, at, out, used, up, work, starts, ghosts>>

Reread(r) ==
    /\ IF IsPending(ask[r].target) THEN Go(r, "reread", "resume") /\ UNCHANGED lock
       ELSE Go(r, "reread", "refused") /\ Unlock(r)
    /\ UNCHANGED <<recordVars, turnVars, diagnosisVars, event, fixed, at, out, used, up, work, starts, ghosts>>

\* Runner.run goes on with the saved state: the approved calls are made.
Resume(r) ==
    /\ Go(r, "resume", "answer")
    /\ AddItems(ask[r].target)
    /\ resumed' = [resumed EXCEPT ![ask[r].target] = @ \cup {r}]
    /\ UNCHANGED <<owner, scope, pending, summary, turnVars, diagnosisVars, event, fixed, at, out, used, podVars,
                   answered, quiet, overlapping, unqueued, unsettled>>

Mark(r) ==
    /\ IF IsPending(ask[r].target) THEN Go(r, "mark", "done") /\ MarkCompleted(ask[r].target)
       ELSE Go(r, "mark", "failed") /\ UNCHANGED pending
    /\ Unlock(r)
    /\ UNCHANGED <<owner, scope, history, summary, turnVars, diagnosisVars, event, fixed, at, out, used, up, work, starts, ghosts>>

-----------------------------------------------------------------------------
(* Deletion: five tables under the lock, the owner after it *)

ClearMessages(r) ==
    /\ Go(r, "clear", "unpend") /\ ClearSession
    /\ UNCHANGED <<owner, scope, pending, summary, turnVars, diagnosisVars, event, fixed, at, out, used, podVars, ghosts>>
DropPending(r) ==
    /\ Go(r, "unpend", "undiagnose") /\ DeletePending
    /\ UNCHANGED <<owner, scope, history, summary, turnVars, diagnosisVars, event, fixed, at, out, used, podVars, ghosts>>
CancelDiagnosis(r) ==
    /\ Go(r, "undiagnose", "unscope") /\ Cancel
    /\ UNCHANGED <<recordVars, turnVars, event, fixed, at, out, used, podVars, ghosts>>
DropScope(r) ==
    /\ Go(r, "unscope", "forget") /\ DeleteScope
    /\ UNCHANGED <<owner, history, pending, summary, turnVars, diagnosisVars, event, fixed, at, out, used, podVars, ghosts>>
Forget(r) ==
    /\ Go(r, "forget", "release") /\ DeleteSummary /\ Unlock(r)
    /\ UNCHANGED <<owner, scope, history, pending, turnVars, diagnosisVars, event, fixed, at, out, used, up, work, starts, ghosts>>
Release(r) ==
    /\ IF MayOwn(ask[r].by) THEN Go(r, "release", "done") /\ ReleaseOwner(ask[r].by)
       ELSE Go(r, "release", "refused") /\ UNCHANGED owner
    /\ UNCHANGED <<scope, history, pending, summary, turnVars, diagnosisVars, event, fixed, at, out, used, podVars, ghosts>>
Delete(r) ==
    ClearMessages(r) \/ DropPending(r) \/ CancelDiagnosis(r) \/ DropScope(r) \/ Forget(r) \/ Release(r)

-----------------------------------------------------------------------------
(* The memory worker *)

JobStep(p, r, s, busy) ==
    /\ job' = [job EXCEPT ![r] = s]
    /\ work' = [work EXCEPT ![p] = busy]
    /\ UNCHANGED <<owner, scope, history, pending, turn, cited, starting, completing, diagnosisVars, event, fixed,
                   pc, at, out, used, up, lock, starts, ghosts>>

Enqueue(r) == job[r] = "enqueuing" /\ JobStep(at[r], r, "queued", work[at[r]]) /\ UNCHANGED summary
ClaimJob(p, r) ==
    /\ p \in up /\ work[p] = Idle /\ job[r] = "queued"
    /\ JobStep(p, r, "running", [job |-> r, phase |-> "extract"]) /\ UNCHANGED summary
\* extract_candidates and update_from_turn
Extract(p, r) ==
    /\ work[p] = [job |-> r, phase |-> "extract"]
    /\ JobStep(p, r, job[r], [job |-> r, phase |-> "complete"]) /\ UpdateSummary(r)
\* complete_extraction_job and fail_extraction_job: whoever has the job by now.
EndJob(p, r) ==
    /\ work[p].job = r
    /\ \/ work[p].phase = "complete" /\ JobStep(p, r, "succeeded", Idle)
       \/ \E s \in {"queued", "failed"} : JobStep(p, r, s, Idle)
    /\ UNCHANGED summary
Worker == \E p \in Pods, r \in Runs : ClaimJob(p, r) \/ Extract(p, r) \/ EndJob(p, r)

-----------------------------------------------------------------------------
(* Pods *)

OnPod(p) == {r \in Runs : at[r] = p}
Crash(p) ==
    /\ p \in up
    /\ up' = up \ {p}
    /\ pc' = [r \in Runs |-> IF r \in OnPod(p) /\ Active(r) THEN "lost" ELSE pc[r]]
    /\ lock' = [lock EXCEPT ![p] = Nobody]
    /\ work' = [work EXCEPT ![p] = Idle]
    /\ starting' = starting \ OnPod(p)
    /\ completing' = [r \in Runs |-> IF r \in OnPod(p) THEN "none" ELSE completing[r]]
    /\ job' = [r \in Runs |-> IF r \in OnPod(p) /\ job[r] = "enqueuing" THEN "none" ELSE job[r]]
    /\ evidence' = evidence \ OnPod(p)
    /\ graph' = [r \in Runs |-> IF r \in OnPod(p) THEN NoThread ELSE graph[r]]
    /\ unsettled' = unsettled \cup {r \in OnPod(p) : Active(r) \/ completing[r] # "none"}
    /\ UNCHANGED <<recordVars, turn, cited, thread, expired, event, fixed, at, out, used, starts, resumed, answered, quiet, overlapping, unqueued>>

\* The lifespan's recovery: Feishu events, turns and jobs that nobody has written to for long enough.
Start(p, old) ==
    /\ p \in pods \ up /\ starts < MaxStarts
    /\ up' = up \cup {p}
    /\ starts' = starts + 1
    /\ FailAll
    /\ RecoverStaleRunning(old)
    /\ job' = [r \in Runs |-> IF r \in old /\ job[r] = "running" THEN "queued" ELSE job[r]]
    /\ UNCHANGED <<recordVars, cited, starting, completing, diagnosisVars, fixed, pc, at, out, used, lock, work, ghosts>>

-----------------------------------------------------------------------------
Question(r) ==
    \/ ReceiveEvent(r) \/ PrepareScope(r) \/ Claim(r) \/ Record(r) \/ Open(r) \/ LandStart(r) \/ Acquire(r) \/ Enter(r)
    \/ Run(r) \/ Answer(r) \/ StopForApproval(r) \/ Break(r)
    \/ Diagnose(r) \/ Node(r) \/ Conclude(r) \/ BreakDiagnosis(r)
    \/ Verdict(r) \/ Report(r) \/ Close(r) \/ LandCompletion(r) \/ Disconnect(r)
    \/ Abandon(r) \/ LooseRun(r) \/ LooseEnds(r)
    \/ Timeout(r) \/ Reply(r) \/ SettleEvent(r) \/ FailEvent(r) \/ Enqueue(r)
Decide(r) == Look(r) \/ Reread(r) \/ Resume(r) \/ Mark(r)

Next ==
    \/ \E r \in Runs : Question(r) \/ Decide(r) \/ Delete(r)
    \/ \E r \in Runs, p \in Pods : Arrive(r, p)
    \/ Worker \/ ExpireThread
    \/ \E p \in Pods : Crash(p) \/ \E old \in {{}, Runs} : Start(p, old)

Spec == Init /\ [][Next]_vars

-----------------------------------------------------------------------------
(* Properties *)

\* A deletion that no other request overlapped or followed, nor a run that went on after its client had left, leaves
\* none of the conversation's five records and no owner; a summary only where an extraction job was still open or a
\* verdict that queues one still to be written, which the deletion does not look for.
DeletionIsComplete ==
    \A d \in quiet : pc[d] = "done" =>
        /\ history = {} /\ scope = Nobody /\ thread = NoThread /\ owner = Nobody
        /\ \A r \in Runs : pending[r] = "none"
        /\ d \in unqueued => summary = {}

\* Messages have an owner who can list and delete them.  Without one they are those of runs that were admitted, or went
\* on without a client, while a deletion was under way: they stored them after it had emptied the session.
HistoryIsOwned == owner = Nobody => history \subseteq overlapping

\* A question is answered in the knowledge scope its sender asked for; a streamed one only as long as no deletion came
\* between the binding of its scope and its run.
AnswersInScope ==
    \A r \in Runs : used[r] # Nobody /\ ask[r].provided /\ used[r] # ask[r].scope =>
        Kind(r) = "stream" /\ \E d \in Runs : Kind(d) = "delete" /\ pc[d] # "new"

\* The calls of a run that waits are made by one decision, unless the first failed or was lost before it could mark
\* the run, or two pods decided at a time.
ApprovedOnce ==
    \A t \in Runs : \A d, e \in resumed[t] :
        d # e => {pc[d], pc[e]} \cap {"failed", "lost"} # {} \/ at[d] # at[e]

\* When nothing is under way, a turn is still running only where its verdict had nobody to write it: the pod stopped,
\* the stream was closed while it was sending, or the verdict came before the row.
TurnsSettle ==
    (\A r \in Runs : ~Active(r) /\ completing[r] = "none") /\ starting = {} =>
        \A r \in Runs : turn[r] = "running" => r \in unsettled

\* An event is answered by one delivery, unless a pod started meanwhile or an answer broke off or could not be noted as
\* given, and never by more than its attempts; and when nobody works on it any more it is completed or failed, unless
\* its pod stopped or the bridge raised where no handler is: at the claim of the conversation, or at fail itself.
AnsweredOnce ==
    \A e \in Events :
        /\ Cardinality(answered[e]) <= event[e].attempt
        /\ Cardinality(answered[e]) > 1 => starts > 0 \/ \E r \in answered[e] : out[r] = "error"
        /\ event[e].status = "processing" =>
             \E r \in Runs : Kind(r) = "feishu" /\ ask[r].event = e /\ (Active(r) \/ pc[r] \in {"dropped", "lost"})

\* What a diagnosis reports was gathered by the run that reports it, across interruptions, crashes, expiry and graphs
\* that write over each other's checkpoints; and only a run that was cancelled leaves its evidence in memory, one whose
\* client has merely left gathers it and drops it at its end.
EvidenceOfOwnRun ==
    /\ thread.status \in {"completed", "no_logs"} => thread.cites = {thread.run}
    /\ \A r \in Runs : graph[r].cites \subseteq {r}
    /\ \A r \in evidence : pc[r] \in {"diagnosing", "looseDiagnosis"} \/ out[r] \in {"cancelled", "timeout"}
=============================================================================
