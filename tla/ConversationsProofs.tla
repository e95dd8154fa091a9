-------------------------- MODULE ConversationsProofs --------------------------
(***************************************************************************)
(* Proofs about Conversations, for any requests, pods, events and bounds:  *)
(* the parts of ConversationsInv are an inductive invariant (one lemma     *)
(* each, cut along the actions), and the seven safety properties follow    *)
(* from it.  Where a part only changes in a few actions, a lemma states    *)
(* what keeps it and the others are shown to do that.                      *)
(***************************************************************************)
EXTENDS ConversationsInv, FiniteSetTheorems, TLAPS

\* The types of single variables, which the lemmas below name one by one.
LEMMA Types ==
  ASSUME IInv
  PROVE  /\ answered \in [Events -> SUBSET Runs]
         /\ at \in [Runs -> Pods \cup {Nobody}]
         /\ completing \in [Runs -> {"none"} \cup Verdicts]
         /\ event \in [Events -> [status : EventStatuses, attempt : 0..MaxAttempts]]
         /\ evidence \subseteq Runs
         /\ job \in [Runs -> JobStatuses]
         /\ lock \in [Pods -> Runs \cup {Nobody}]
         /\ out \in [Runs -> Verdicts \cup {"none"}]
         /\ pc \in [Runs -> Places]
         /\ pending \in [Runs -> {"none", "pending", "completed"}]
         /\ quiet \subseteq Runs
         /\ resumed \in [Runs -> SUBSET Runs]
         /\ starting \subseteq Runs
         /\ starts \in 0..MaxStarts
         /\ thread \in Threads /\ graph \in [Runs -> Threads]
         /\ turn \in [Runs -> {"none", "running"} \cup Terminal]
         /\ unqueued \subseteq Runs
         /\ up \subseteq Pods /\ pods \subseteq Pods
         /\ work \in [Pods -> [job : Runs \cup {"none"}, phase : {"none", "extract", "complete"}]]
         /\ used = [s \in Runs |-> used[s]]
BY BoundsAssumption
   DEF IInv, TypeOK, RecordTypeOK, TurnTypeOK, DiagnosisTypeOK, EventTypeOK, RequestTypeOK, PodTypeOK,
         Histories

-----------------------------------------------------------------------------
(* What the code does with a request, in the words of the invariant *)

\* Where a request may begin.
LEMMA ArrivesAt ==
  ASSUME OnCourse, NEW r \in Runs, NEW p \in Pods, Arrive(r, p)
  PROVE  First(r) \in {"scope", "claim", "event", "look"}
BY DEF OnCourse, Arrive, First, Kinds, Kind, Request

\* Where it goes on from its run: with a question, the verdict is still to come.
LEMMA GoesOnTo ==
  \A r \in Runs : \A v :
    /\ NextPlace(r, v) \in {"report", "reply", "verdict", "mark", "done", "failed"}
    /\ Kind(r) \in Questions => NextPlace(r, v) \in {"report", "reply", "verdict"}
BY DEF NextPlace, Questions

-----------------------------------------------------------------------------
(* Types *)

\* A decision stores the messages of the run it is about, which is a run.
LEMMA ResumeTypes ==
  ASSUME RecordTypeOK, OnCourse, NEW r \in Runs, Resume(r)
  PROVE  RecordTypeOK'
BY DEF Resume, OnCourse, Request, Kind, Go, AddItems, RecordTypeOK

\* The records hold runs only.
LEMMA RecordTypeOKStep ==
  ASSUME RecordTypeOK, OnCourse, pc \in [Runs -> Places],
         work \in [Pods -> [job : Runs \cup {"none"}, phase : {"none", "extract", "complete"}]], Next
  PROVE  RecordTypeOK'
<1>1. ASSUME NEW r \in Runs, Resume(r) PROVE RecordTypeOK'
  BY <1>1, ResumeTypes
<1> USE DEF RecordTypeOK, OnCourse, InRun, Deleting, Diagnosing, Loose, Ended, Active, Kind, RunOf, recordVars,
         turnVars, diagnosisVars, fixed, podVars, ghosts
<1>2. ASSUME NEW r \in Runs,
             \/ ReceiveEvent(r) \/ PrepareScope(r) \/ Claim(r) \/ Record(r) \/ Open(r)
             \/ LandStart(r) \/ Acquire(r) \/ Enter(r) \/ Run(r) \/ Answer(r)
             \/ StopForApproval(r) \/ Break(r) \/ Diagnose(r) \/ Node(r)
      PROVE  RecordTypeOK'
  BY <1>2 DEF ReceiveEvent, Go, PrepareScope, Claim, AfterClaim, MayOwn, Record, Open, LandStart, Acquire,
         UnderLock, Enter, Run, AddItems, Answer, Finish, NextPlace, Keeps, StopForApproval, SavePending,
         Break, Diagnose, Node
<1>3. ASSUME NEW r \in Runs,
             \/ Conclude(r) \/ BreakDiagnosis(r) \/ Verdict(r) \/ Report(r) \/ Close(r)
             \/ LandCompletion(r) \/ Disconnect(r) \/ Abandon(r) \/ LooseRun(r) \/ LooseEnds(r) \/ Timeout(r) \/ Reply(r)
             \/ SettleEvent(r) \/ FailEvent(r) \/ Enqueue(r) \/ Look(r) \/ Reread(r)
      PROVE  RecordTypeOK'
  BY <1>3 DEF Conclude, EndLoose, Go, Finish, NextPlace, Keeps, BreakDiagnosis, Verdict, Report, Close,
         LandCompletion, Disconnect, Abandon, LeftAt, LooseRun, LooseEnds, AddItems, Timeout, Reply,
         SettleEvent, FailEvent, Enqueue, JobStep, Look, Reread, IsPending
<1>4. ASSUME NEW r \in Runs, Mark(r) PROVE RecordTypeOK'
  BY <1>4 DEF Mark, Go, IsPending, MarkCompleted
<1>5. ASSUME NEW r \in Runs, ClearMessages(r) \/ DropPending(r) PROVE RecordTypeOK'
  BY <1>5 DEF ClearMessages, Go, ClearSession, DropPending, DeletePending
<1>6. ASSUME NEW r \in Runs, CancelDiagnosis(r) \/ DropScope(r) \/ Forget(r) \/ Release(r) PROVE RecordTypeOK'
  BY <1>6 DEF CancelDiagnosis, Go, DropScope, Forget, DeleteSummary, Release, MayOwn
<1>7. ASSUME NEW r \in Runs, NEW p \in Pods, Arrive(r, p) \/ ClaimJob(p, r) \/ Extract(p, r) \/ EndJob(p, r)
      PROVE  RecordTypeOK'
  BY <1>7 DEF Arrive, Go, First, ClaimJob, JobStep, Extract, UpdateSummary, EndJob
<1>8. ASSUME NEW p \in Pods, Crash(p) \/ (\E old \in {{}, Runs} : Start(p, old)) PROVE RecordTypeOK'
  BY <1>8 DEF Crash, OnPod, Start
<1>9. ASSUME ExpireThread PROVE RecordTypeOK'
  BY <1>9 DEF ExpireThread
<1> QED
  BY <1>1, <1>2, <1>3, <1>4, <1>5, <1>6, <1>7, <1>8, <1>9
     DEF Next, Question, Decide, Delete, Worker

\* Turns and jobs have a status the code knows.
LEMMA TurnTypeOKStep ==
  ASSUME TurnTypeOK, OnCourse, pc \in [Runs -> Places], out \in [Runs -> Verdicts \cup {"none"}], Next
  PROVE  TurnTypeOK'
<1> USE DEF TurnTypeOK, OnCourse, InRun, Deleting, Diagnosing, Loose, Ended, Verdicts, Terminal, JobStatuses,
         Active, Kind, RunOf, recordVars, turnVars, diagnosisVars, fixed, podVars, ghosts
<1>1. ASSUME NEW r \in Runs,
             \/ ReceiveEvent(r) \/ PrepareScope(r) \/ Claim(r) \/ Record(r) \/ Open(r)
             \/ LandStart(r) \/ Acquire(r) \/ Enter(r) \/ Run(r) \/ Answer(r)
             \/ StopForApproval(r) \/ Break(r) \/ Diagnose(r) \/ Node(r)
      PROVE  TurnTypeOK'
  BY <1>1 DEF ReceiveEvent, Go, PrepareScope, Claim, AfterClaim, MayOwn, Record, StartTurn, Open, LandStart,
         Acquire, UnderLock, Enter, Run, Answer, Finish, NextPlace, Keeps, StopForApproval, Break, Diagnose,
         Node
<1>2. ASSUME NEW r \in Runs,
             \/ Conclude(r) \/ BreakDiagnosis(r) \/ Verdict(r) \/ Report(r) \/ Close(r)
             \/ LandCompletion(r) \/ Disconnect(r) \/ Abandon(r) \/ LooseRun(r) \/ LooseEnds(r) \/ Timeout(r) \/ Reply(r)
             \/ SettleEvent(r) \/ FailEvent(r) \/ Enqueue(r) \/ Look(r) \/ Reread(r)
      PROVE  TurnTypeOK'
  BY <1>2 DEF Conclude, EndLoose, Go, Finish, NextPlace, Keeps, BreakDiagnosis, Verdict, CompleteTurn, Report,
         Close, LandCompletion, Disconnect, Abandon, LeftAt, LooseRun, LooseEnds, Timeout, Reply, SettleEvent,
         FailEvent, Enqueue, JobStep, Look, Reread, IsPending
<1>3. ASSUME NEW r \in Runs,
             \/ Resume(r) \/ Mark(r) \/ ClearMessages(r) \/ DropPending(r) \/ CancelDiagnosis(r)
             \/ DropScope(r) \/ Forget(r) \/ Release(r)
      PROVE  TurnTypeOK'
  BY <1>3 DEF Resume, Go, Mark, IsPending, ClearMessages, DropPending, CancelDiagnosis, DropScope, Forget,
         Release, MayOwn
<1>4. ASSUME NEW r \in Runs, NEW p \in Pods, Arrive(r, p) \/ ClaimJob(p, r) \/ Extract(p, r) \/ EndJob(p, r)
      PROVE  TurnTypeOK'
  BY <1>4 DEF Arrive, Go, First, ClaimJob, JobStep, Extract, EndJob
<1>5. ASSUME NEW p \in Pods, Crash(p) \/ (\E old \in {{}, Runs} : Start(p, old)) PROVE TurnTypeOK'
  BY <1>5 DEF Crash, OnPod, Start, RecoverStaleRunning
<1>6. ASSUME ExpireThread PROVE TurnTypeOK'
  BY <1>6 DEF ExpireThread
<1> QED
  BY <1>1, <1>2, <1>3, <1>4, <1>5, <1>6
     DEF Next, Question, Decide, Delete, Worker

\* A graph that writes what is of its run leaves it in its checkpoint and in memory.
LEMMA WriteCites ==
  ASSUME Citations, DiagnosisTypeOK, NEW r \in Runs, NEW d \in Threads, OfItsRun(d), d.run = r, Write(r, d),
         evidence' \subseteq Runs
  PROVE  Citations' /\ DiagnosisTypeOK'
<1>1. graph' = [graph EXCEPT ![r] = d] /\ thread' = d /\ expired' \in BOOLEAN
  BY DEF Write, DiagnosisTypeOK
<1>2. \A s \in Runs : graph'[s] = IF s = r THEN d ELSE graph[s]
  BY <1>1 DEF DiagnosisTypeOK
<1>3. Citations'
  BY <1>1, <1>2 DEF Citations, OfItsRun
<1>4. graph' \in [Runs -> Threads]
  BY <1>1 DEF DiagnosisTypeOK
<1> QED BY <1>1, <1>3, <1>4 DEF DiagnosisTypeOK

\* A diagnosis begins without citations, resumed or not: a thread that waits for its user has none.
LEMMA DiagnoseCites ==
  ASSUME Citations, DiagnosisTypeOK, NEW r \in Runs, Diagnose(r)
  PROVE  Citations' /\ DiagnosisTypeOK'
<1>1. CASE Cancel
  <2>1. thread' = NoThread /\ UNCHANGED <<graph, evidence>> /\ expired' = FALSE
    BY <1>1 DEF Cancel
  <2> QED BY <2>1 DEF NoThread, Citations, OfItsRun, DiagnosisTypeOK, Threads, Nodes
<1>2. ASSUME NEW k \in SUBSET Fields, Begin(r, k) PROVE Citations' /\ DiagnosisTypeOK'
  <2>1. evidence' \subseteq Runs
    BY <1>2 DEF Begin, DiagnosisTypeOK
  <2>2. CASE Pending
    <3> DEFINE d == [thread EXCEPT !.status = "running", !.node = "understand", !.run = r, !.known = @ \cup k]
    <3>1. Live = thread /\ thread.status = "clarification_required"
      BY <2>2 DEF Pending, Live, NoThread
    <3>2. Write(r, d)
      BY <1>2, <2>2, <3>1 DEF Begin, Resumed
    <3>3. thread.cites = {} /\ thread \in Threads
      BY <3>1 DEF Citations, OfItsRun, DiagnosisTypeOK
    <3>4. d \in Threads /\ OfItsRun(d) /\ d.run = r
      BY <3>3 DEF Threads, Nodes, OfItsRun
    <3> QED BY <2>1, <3>2, <3>4, WriteCites
  <2>3. CASE ~Pending
    <3> DEFINE d == [status |-> "running", node |-> "understand", known |-> k, run |-> r, cites |-> {}]
    <3>1. Write(r, d)
      BY <1>2, <2>3 DEF Begin
    <3>2. d \in Threads /\ OfItsRun(d) /\ d.run = r
      BY DEF Threads, Nodes, OfItsRun
    <3> QED BY <2>1, <3>1, <3>2, WriteCites
  <2> QED BY <2>2, <2>3
<1>3. Inherited(ask[r].text = "follow", cited # {}) \in SUBSET Fields
  BY DEF Inherited
<1> QED BY <1>1, <1>2, <1>3 DEF Diagnose

\* Each node leaves the checkpoint with the citations that belong to the next.
LEMMA NodeCites ==
  ASSUME Citations, DiagnosisTypeOK, NEW r \in Runs, Node(r)
  PROVE  Citations' /\ DiagnosisTypeOK'
<1> DEFINE g == graph[r]
<1>1. g \in Threads /\ OfItsRun(g)
  BY DEF Citations, DiagnosisTypeOK
<1>2. ASSUME g.status = "running" PROVE g.run = r
  BY <1>2 DEF Citations, NoThread
<1> USE DEF At, Threads, Nodes, OfItsRun
<1>3. ASSUME NEW found \in SUBSET Fields, Understand(r, found) PROVE Citations' /\ DiagnosisTypeOK'
  <2> DEFINE known == g.known \cup found
  <2>1. /\ g.node = "understand" /\ g.status = "running" /\ known \in SUBSET Fields
        /\ evidence' \subseteq Runs
    BY <1>1, <1>3 DEF Understand, DiagnosisTypeOK
  <2>2. CASE Complete(known)
    <3> DEFINE d == [g EXCEPT !.known = known, !.node = "query"]
    <3>1. Write(r, d)
      BY <1>3, <2>2 DEF Understand
    <3>2. d \in Threads /\ OfItsRun(d) /\ d.run = r
      BY <1>1, <1>2, <2>1
    <3> QED BY <2>1, <3>1, <3>2, WriteCites
  <2>3. CASE ~Complete(known)
    <3> DEFINE d == [g EXCEPT !.known = known, !.node = "interrupt", !.status = "clarification_required"]
    <3>1. Write(r, d)
      BY <1>3, <2>3 DEF Understand
    <3>2. d \in Threads /\ OfItsRun(d) /\ d.run = r
      BY <1>1, <1>2, <2>1
    <3> QED BY <2>1, <3>1, <3>2, WriteCites
  <2> QED BY <2>2, <2>3
<1>4. ASSUME NEW result \in {"logs", "no_logs", "unavailable"}, QueryLogs(r, result)
      PROVE  Citations' /\ DiagnosisTypeOK'
  <2>1. g.node = "query" /\ g.status = "running" /\ g.run = r /\ g.cites = {}
    BY <1>1, <1>2, <1>4 DEF QueryLogs
  <2>2. evidence' \subseteq Runs
    BY <1>4 DEF QueryLogs, DiagnosisTypeOK
  <2>3. CASE result = "logs"
    <3> DEFINE d == [g EXCEPT !.node = "search", !.cites = Cites(r)]
    <3>1. Write(r, d)
      BY <1>4, <2>3 DEF QueryLogs
    <3>2. d \in Threads /\ OfItsRun(d) /\ d.run = r
      BY <1>1, <2>1 DEF Cites
    <3> QED BY <2>2, <3>1, <3>2, WriteCites
  <2>4. CASE result = "no_logs"
    <3> DEFINE d == [g EXCEPT !.node = "end", !.status = "no_logs", !.cites = Cites(r)]
    <3>1. Write(r, d)
      BY <1>4, <2>4 DEF QueryLogs
    <3>2. d \in Threads /\ OfItsRun(d) /\ d.run = r
      BY <1>1, <2>1 DEF Cites
    <3> QED BY <2>2, <3>1, <3>2, WriteCites
  <2>5. CASE result = "unavailable"
    <3> DEFINE d == [g EXCEPT !.node = "end", !.status = "unavailable"]
    <3>1. Write(r, d)
      BY <1>4, <2>5 DEF QueryLogs
    <3>2. d \in Threads /\ OfItsRun(d) /\ d.run = r
      BY <1>1, <2>1
    <3> QED BY <2>2, <3>1, <3>2, WriteCites
  <2> QED BY <2>3, <2>4, <2>5
<1>5. CASE SearchCode(r)
  <2> DEFINE d == [g EXCEPT !.node = "enrich", !.cites = Cites(r)]
  <2>1. g.node = "search" /\ g.status = "running" /\ Write(r, d) /\ evidence' \subseteq Runs
    BY <1>5 DEF SearchCode, DiagnosisTypeOK
  <2>2. d \in Threads /\ OfItsRun(d) /\ d.run = r
    BY <1>1, <1>2, <2>1 DEF Cites
  <2> QED BY <2>1, <2>2, WriteCites
<1>6. ASSUME NEW n \in {"inspect", "generate"}, Move(r, n), g.status = "running", g.node \in {"enrich", "inspect"},
             evidence' = evidence
      PROVE  Citations' /\ DiagnosisTypeOK'
  <2> DEFINE d == [g EXCEPT !.node = n]
  <2>1. d \in Threads /\ OfItsRun(d) /\ d.run = r
    BY <1>1, <1>2, <1>6
  <2> QED BY <1>6, <2>1, WriteCites DEF Move, DiagnosisTypeOK
<1>7. CASE EnrichCode(r) \/ InspectContracts(r)
  BY <1>6, <1>7 DEF EnrichCode, InspectContracts
<1>8. CASE Generate(r)
  <2> DEFINE d == [g EXCEPT !.node = "end", !.status = "completed"]
  <2>1. g.node = "generate" /\ g.status = "running" /\ Write(r, d) /\ evidence' \subseteq Runs
    BY <1>8 DEF Generate, DiagnosisTypeOK
  <2>2. d \in Threads /\ OfItsRun(d) /\ d.run = r
    BY <1>1, <1>2, <2>1
  <2> QED BY <2>1, <2>2, WriteCites
<1> QED BY <1>3, <1>4, <1>5, <1>7, <1>8 DEF Node

\* Nobody else writes the checkpoint.
LEMMA DiagnosisTypeOKStep ==
  ASSUME DiagnosisTypeOK, Citations, Next
  PROVE  DiagnosisTypeOK'
<1>1. ASSUME NEW r \in Runs, Diagnose(r) \/ Node(r) PROVE DiagnosisTypeOK'
  BY <1>1, DiagnoseCites, NodeCites
<1>2. ASSUME \/ ExpireThread \/ \E p \in Pods : Crash(p)
             \/ \E r \in Runs : Conclude(r) \/ BreakDiagnosis(r) \/ CancelDiagnosis(r)
      PROVE  DiagnosisTypeOK'
  <2>1. /\ thread' \in {thread, NoThread} /\ expired' \in BOOLEAN /\ evidence' \subseteq evidence
        /\ \/ graph' = graph
           \/ \E p \in Pods : graph' = [s \in Runs |-> IF s \in OnPod(p) THEN NoThread ELSE graph[s]]
    BY <1>2 DEF Conclude, EndLoose, BreakDiagnosis, CancelDiagnosis, ExpireThread, Crash, Drop, Cancel, Expire,
         DiagnosisTypeOK
  <2> QED
    BY <2>1 DEF DiagnosisTypeOK, NoThread, Threads, Nodes
<1>3. ASSUME UNCHANGED diagnosisVars PROVE DiagnosisTypeOK'
  BY <1>3 DEF diagnosisVars, DiagnosisTypeOK
<1>4. ASSUME Next
      PROVE  \/ UNCHANGED diagnosisVars
             \/ \E r \in Runs : \/ Diagnose(r) \/ Node(r) \/ Conclude(r) \/ BreakDiagnosis(r)
                                \/ CancelDiagnosis(r)
             \/ ExpireThread \/ \E p \in Pods : Crash(p)
  <2>1. ASSUME NEW r \in Runs, Question(r)
        PROVE  UNCHANGED diagnosisVars \/ Diagnose(r) \/ Node(r) \/ Conclude(r) \/ BreakDiagnosis(r)
    BY <2>1 DEF Question, ReceiveEvent, PrepareScope, Claim, Record, Open, LandStart, Acquire, Enter, Run,
         Answer, StopForApproval, Break, Verdict, Report, Close, LandCompletion, Disconnect, Abandon, LeftAt,
         LooseRun, LooseEnds, EndLoose, Timeout, Reply, SettleEvent, FailEvent, Enqueue, JobStep
  <2>2. ASSUME NEW r \in Runs, Decide(r) PROVE UNCHANGED diagnosisVars
    BY <2>2 DEF Decide, Look, Reread, Resume, Mark
  <2>3. ASSUME NEW r \in Runs, Delete(r) PROVE UNCHANGED diagnosisVars \/ CancelDiagnosis(r)
    BY <2>3 DEF Delete, ClearMessages, DropPending, DropScope, Forget, Release
  <2>4. ASSUME Worker \/ \E r \in Runs, p \in Pods : Arrive(r, p) PROVE UNCHANGED diagnosisVars
    BY <2>4 DEF Worker, ClaimJob, Extract, EndJob, JobStep, Arrive
  <2>5. ASSUME NEW p \in Pods, \E old \in {{}, Runs} : Start(p, old) PROVE UNCHANGED diagnosisVars
    BY <2>5 DEF Start
  <2> QED
    BY <1>4, <2>1, <2>2, <2>3, <2>4, <2>5 DEF Next
<1> QED
  BY <1>1, <1>2, <1>3, <1>4

\* A claim that finds no row counts the first attempt, and MaxAttempts allows one.
LEMMA ReceiveTypes ==
  ASSUME EventTypeOK, AttemptsCount, OnCourse, NEW r \in Runs, ReceiveEvent(r)
  PROVE  EventTypeOK'
<1> DEFINE e == ask[r].event
<1>1. e \in Events
  BY DEF OnCourse, Request
<1>2. CASE event' = event
  BY <1>2 DEF EventTypeOK
<1>3. CASE ClaimEvent(e) /\ Claimable(e)
  BY <1>1, <1>3, BoundsAssumption DEF EventTypeOK, AttemptsCount, ClaimEvent, Claimable, EventStatuses
<1> QED BY <1>2, <1>3 DEF ReceiveEvent

\* Attempts are counted up to MaxAttempts.
LEMMA EventTypeOKStep ==
  ASSUME EventTypeOK, OnCourse, AttemptsCount, pc \in [Runs -> Places],
         event \in [Events -> [status : EventStatuses, attempt : 0..MaxAttempts]], Next
  PROVE  EventTypeOK'
<1>1. ASSUME NEW r \in Runs, ReceiveEvent(r) PROVE EventTypeOK'
  BY <1>1, ReceiveTypes
<1> USE DEF EventTypeOK, OnCourse, InRun, Deleting, Diagnosing, Loose, Ended, EventStatuses, Claimable, Active,
         Kind, RunOf, recordVars, turnVars, diagnosisVars, fixed, podVars, ghosts
<1>2. ASSUME NEW r \in Runs, PrepareScope(r) \/ Claim(r) PROVE EventTypeOK'
  BY <1>2 DEF PrepareScope, Go, Claim, AfterClaim, MayOwn
<1>3. ASSUME NEW r \in Runs, Record(r) \/ Open(r) \/ LandStart(r) \/ Acquire(r) PROVE EventTypeOK'
  BY <1>3 DEF Record, Go, Open, LandStart, Acquire, UnderLock
<1>4. ASSUME NEW r \in Runs,
             \/ Enter(r) \/ Run(r) \/ Answer(r) \/ StopForApproval(r) \/ Break(r) \/ Diagnose(r)
             \/ Node(r)
      PROVE  EventTypeOK'
  BY <1>4 DEF Enter, Go, Run, Answer, Finish, NextPlace, Keeps, StopForApproval, Break, Diagnose, Node
<1>5. ASSUME NEW r \in Runs,
             \/ Conclude(r) \/ BreakDiagnosis(r) \/ Verdict(r) \/ Report(r) \/ Close(r)
             \/ LandCompletion(r) \/ Disconnect(r) \/ Abandon(r) \/ LooseRun(r) \/ LooseEnds(r) \/ Timeout(r) \/ Reply(r)
             \/ SettleEvent(r) \/ FailEvent(r) \/ Enqueue(r) \/ Look(r) \/ Reread(r)
      PROVE  EventTypeOK'
  BY <1>5 DEF Conclude, EndLoose, Go, Finish, NextPlace, Keeps, BreakDiagnosis, Verdict, Report, Close,
         LandCompletion, Disconnect, Abandon, LeftAt, LooseRun, LooseEnds, Timeout, Reply, SettleEvent,
         FailEvent, SetStatus, Enqueue, JobStep, Look, Reread, IsPending
<1>6. ASSUME NEW r \in Runs,
             \/ Resume(r) \/ Mark(r) \/ ClearMessages(r) \/ DropPending(r) \/ CancelDiagnosis(r)
             \/ DropScope(r) \/ Forget(r) \/ Release(r)
      PROVE  EventTypeOK'
  BY <1>6 DEF Resume, Go, Mark, IsPending, ClearMessages, DropPending, CancelDiagnosis, DropScope, Forget,
         Release, MayOwn
<1>7. ASSUME NEW r \in Runs, NEW p \in Pods, Arrive(r, p) \/ ClaimJob(p, r) \/ Extract(p, r) \/ EndJob(p, r)
      PROVE  EventTypeOK'
  BY <1>7 DEF Arrive, Go, First, ClaimJob, JobStep, Extract, EndJob
<1>8. ASSUME NEW p \in Pods, Crash(p) \/ (\E old \in {{}, Runs} : Start(p, old)) PROVE EventTypeOK'
  BY <1>8 DEF Crash, OnPod, Start, FailAll
<1>9. ASSUME ExpireThread PROVE EventTypeOK'
  BY <1>9 DEF ExpireThread
<1> QED
  BY <1>1, <1>2, <1>3, <1>4, <1>5, <1>6, <1>7, <1>8, <1>9
     DEF Next, Question, Decide, Delete, Worker

\* A request is at one of the places of its handler.
LEMMA RequestTypeOKStep ==
  ASSUME RequestTypeOK, OnCourse, up \subseteq Pods /\ pods \subseteq Pods, Next
  PROVE  RequestTypeOK'
<1> USE DEF RequestTypeOK, OnCourse, InRun, Deleting, Diagnosing, Loose, Ended, Kinds, Request, Questions,
         Places, Verdicts, Active, Kind, RunOf, recordVars, turnVars, diagnosisVars, fixed, podVars, ghosts
<1>1. ASSUME NEW r \in Runs,
             \/ ReceiveEvent(r) \/ PrepareScope(r) \/ Claim(r) \/ Record(r) \/ Open(r)
             \/ LandStart(r) \/ Acquire(r) \/ Enter(r) \/ Run(r) \/ Answer(r)
             \/ StopForApproval(r) \/ Break(r) \/ Diagnose(r) \/ Node(r)
      PROVE  RequestTypeOK'
  BY <1>1 DEF ReceiveEvent, Go, PrepareScope, Claim, AfterClaim, MayOwn, Record, Open, LandStart, Acquire,
         UnderLock, Enter, EndAs, Run, Answer, Finish, NextPlace, Keeps, StopForApproval, Break, Diagnose, Node
<1>2. ASSUME NEW r \in Runs,
             \/ Conclude(r) \/ BreakDiagnosis(r) \/ Verdict(r) \/ Report(r) \/ Close(r)
             \/ LandCompletion(r) \/ Disconnect(r) \/ Abandon(r) \/ LooseRun(r) \/ LooseEnds(r) \/ Timeout(r) \/ Reply(r)
             \/ SettleEvent(r) \/ FailEvent(r) \/ Enqueue(r) \/ Look(r) \/ Reread(r)
      PROVE  RequestTypeOK'
  BY <1>2 DEF Conclude, EndLoose, Go, Finish, EndAs, NextPlace, Keeps, BreakDiagnosis, Verdict, Report, Close,
         LandCompletion, Disconnect, Abandon, LeftAt, LooseRun, LooseEnds, Timeout, Reply, SettleEvent,
         FailEvent, Enqueue, JobStep, Look, Reread, IsPending
<1>3. ASSUME NEW r \in Runs,
             \/ Resume(r) \/ Mark(r) \/ ClearMessages(r) \/ DropPending(r) \/ CancelDiagnosis(r)
             \/ DropScope(r) \/ Forget(r) \/ Release(r)
      PROVE  RequestTypeOK'
  BY <1>3 DEF Resume, Go, Mark, IsPending, ClearMessages, DropPending, CancelDiagnosis, DropScope, Forget,
         Release, MayOwn
<1>4. ASSUME NEW r \in Runs, NEW p \in Pods, Arrive(r, p) \/ ClaimJob(p, r) \/ Extract(p, r) \/ EndJob(p, r)
      PROVE  RequestTypeOK'
  BY <1>4 DEF Arrive, Go, First, ClaimJob, JobStep, Extract, EndJob
<1>5. ASSUME NEW p \in Pods, Crash(p) \/ (\E old \in {{}, Runs} : Start(p, old)) PROVE RequestTypeOK'
  BY <1>5 DEF Crash, OnPod, Start
<1>6. ASSUME ExpireThread PROVE RequestTypeOK'
  BY <1>6 DEF ExpireThread
<1> QED
  BY <1>1, <1>2, <1>3, <1>4, <1>5, <1>6
     DEF Next, Question, Decide, Delete, Worker

\* A pod's lock and its worker's job are of requests.
LEMMA PodTypeOKStep ==
  ASSUME PodTypeOK, OnCourse, pc \in [Runs -> Places], up \subseteq Pods /\ pods \subseteq Pods,
         at \in [Runs -> Pods \cup {Nobody}], starts \in 0..MaxStarts, Next
  PROVE  PodTypeOK'
<1> USE DEF PodTypeOK, OnCourse, InRun, Deleting, Diagnosing, Loose, Ended, Idle, Active, Kind, RunOf,
         recordVars, turnVars, diagnosisVars, fixed, podVars, ghosts
<1>1. ASSUME NEW r \in Runs,
             \/ ReceiveEvent(r) \/ PrepareScope(r) \/ Claim(r) \/ Record(r) \/ Open(r)
             \/ LandStart(r) \/ Acquire(r) \/ Enter(r) \/ Run(r) \/ Answer(r)
             \/ StopForApproval(r) \/ Break(r) \/ Diagnose(r) \/ Node(r)
      PROVE  PodTypeOK'
  BY <1>1, NobodyAssumption, BoundsAssumption DEF ReceiveEvent, Go, PrepareScope, Free, Claim, AfterClaim,
         MayOwn, Record, Open, LandStart, Acquire, UnderLock, Enter, Unlock, Unlocked, Run, Answer, Finish,
         NextPlace, Keeps, StopForApproval, Break, Diagnose, Node
<1>2. ASSUME NEW r \in Runs,
             \/ Conclude(r) \/ BreakDiagnosis(r) \/ Verdict(r) \/ Report(r) \/ Close(r)
             \/ LandCompletion(r) \/ Disconnect(r) \/ Abandon(r) \/ LooseRun(r) \/ LooseEnds(r) \/ Timeout(r) \/ Reply(r)
             \/ SettleEvent(r) \/ FailEvent(r) \/ Enqueue(r) \/ Look(r) \/ Reread(r)
      PROVE  PodTypeOK'
  BY <1>2, NobodyAssumption, BoundsAssumption DEF Conclude, EndLoose, Go, Finish, NextPlace, Keeps, Unlock,
         Unlocked, BreakDiagnosis, Verdict, Report, Close, LandCompletion, Disconnect, Abandon, LeftAt,
         LooseRun, LooseEnds, Timeout, Reply, SettleEvent, FailEvent, Enqueue, JobStep, Look, Reread, IsPending
<1>3. ASSUME NEW r \in Runs,
             \/ Resume(r) \/ Mark(r) \/ ClearMessages(r) \/ DropPending(r) \/ CancelDiagnosis(r)
             \/ DropScope(r) \/ Forget(r) \/ Release(r)
      PROVE  PodTypeOK'
  BY <1>3, NobodyAssumption, BoundsAssumption DEF Resume, Go, Mark, Unlock, Unlocked, IsPending, ClearMessages,
         DropPending, CancelDiagnosis, DropScope, Forget, Release, MayOwn
<1>4. ASSUME NEW r \in Runs, NEW p \in Pods, Arrive(r, p) \/ ClaimJob(p, r) PROVE PodTypeOK'
  BY <1>4, NobodyAssumption, BoundsAssumption DEF Arrive, Go, First, ClaimJob, JobStep
<1>5. ASSUME NEW r \in Runs, NEW p \in Pods, Extract(p, r) \/ EndJob(p, r) PROVE PodTypeOK'
  BY <1>5, NobodyAssumption, BoundsAssumption DEF Extract, JobStep, EndJob
<1>6. ASSUME NEW p \in Pods, Crash(p) PROVE PodTypeOK'
  BY <1>6, NobodyAssumption, BoundsAssumption DEF Crash, OnPod
<1>7. ASSUME NEW p \in Pods, \E old \in {{}, Runs} : Start(p, old) PROVE PodTypeOK'
  BY <1>7, NobodyAssumption, BoundsAssumption DEF Start
<1>8. ASSUME ExpireThread PROVE PodTypeOK'
  BY <1>8, NobodyAssumption, BoundsAssumption DEF ExpireThread
<1> QED
  BY <1>1, <1>2, <1>3, <1>4, <1>5, <1>6, <1>7, <1>8
     DEF Next, Question, Decide, Delete, Worker

\* What is remembered for the properties is about requests.
LEMMA HistoriesStep ==
  ASSUME Histories, OnCourse, pc \in [Runs -> Places], at \in [Runs -> Pods \cup {Nobody}], Next
  PROVE  Histories'
<1> USE DEF Histories, OnCourse, InRun, Deleting, Diagnosing, Loose, Ended, Request, Active, Kind, RunOf,
         recordVars, turnVars, diagnosisVars, fixed, podVars, ghosts
<1>1. ASSUME NEW r \in Runs,
             \/ ReceiveEvent(r) \/ PrepareScope(r) \/ Claim(r) \/ Record(r) \/ Open(r)
             \/ LandStart(r) \/ Acquire(r) \/ Enter(r) \/ Run(r) \/ Answer(r)
             \/ StopForApproval(r) \/ Break(r) \/ Diagnose(r) \/ Node(r)
      PROVE  Histories'
  BY <1>1 DEF ReceiveEvent, Go, PrepareScope, Claim, AfterClaim, MayOwn, Record, Open, LandStart, Acquire,
         UnderLock, Enter, Run, Answer, Finish, NextPlace, Keeps, StopForApproval, Break, Diagnose, Node
<1>2. ASSUME NEW r \in Runs,
             \/ Conclude(r) \/ BreakDiagnosis(r) \/ Verdict(r) \/ Report(r) \/ Close(r)
             \/ LandCompletion(r) \/ Disconnect(r) \/ Abandon(r) \/ LooseRun(r) \/ LooseEnds(r) \/ Timeout(r) \/ Reply(r)
             \/ SettleEvent(r) \/ FailEvent(r) \/ Enqueue(r) \/ Look(r) \/ Reread(r)
      PROVE  Histories'
  BY <1>2 DEF Conclude, EndLoose, Go, Finish, NextPlace, Keeps, BreakDiagnosis, Verdict, Report, Close,
         LandCompletion, Disconnect, Abandon, LeftAt, LooseRun, LooseEnds, Timeout, Reply, SettleEvent,
         FailEvent, Enqueue, JobStep, Look, Reread, IsPending
<1>3. ASSUME NEW r \in Runs,
             \/ Resume(r) \/ Mark(r) \/ ClearMessages(r) \/ DropPending(r) \/ CancelDiagnosis(r)
             \/ DropScope(r) \/ Forget(r) \/ Release(r)
      PROVE  Histories'
  BY <1>3 DEF Resume, Go, Mark, IsPending, ClearMessages, DropPending, CancelDiagnosis, DropScope, Forget,
         Release, MayOwn
<1>4. ASSUME NEW r \in Runs, NEW p \in Pods, Arrive(r, p) \/ ClaimJob(p, r) \/ Extract(p, r) \/ EndJob(p, r)
      PROVE  Histories'
  BY <1>4 DEF Arrive, Go, First, ClaimJob, JobStep, Extract, EndJob
<1>5. ASSUME NEW p \in Pods, Crash(p) \/ (\E old \in {{}, Runs} : Start(p, old)) PROVE Histories'
  BY <1>5 DEF Crash, OnPod, Start
<1>6. ASSUME ExpireThread PROVE Histories'
  BY <1>6 DEF ExpireThread
<1> QED
  BY <1>1, <1>2, <1>3, <1>4, <1>5, <1>6
     DEF Next, Question, Decide, Delete, Worker

-----------------------------------------------------------------------------
(* Places and the lock *)

\* Each step leaves its request at a place of its own kind, on a pod.
LEMMA OnCourseStep ==
  ASSUME OnCourse, pc \in [Runs -> Places], up \subseteq Pods /\ pods \subseteq Pods,
         at \in [Runs -> Pods \cup {Nobody}], Next
  PROVE  OnCourse'
<1> USE DEF OnCourse, InRun, Deleting, Diagnosing, Loose, Ended, Questions, Request, Kinds, Active, Kind,
         RunOf, recordVars, turnVars, diagnosisVars, fixed, podVars, ghosts
<1>1. ASSUME NEW r \in Runs,
             \/ ReceiveEvent(r) \/ PrepareScope(r) \/ Claim(r) \/ Record(r) \/ Open(r)
             \/ LandStart(r)
      PROVE  OnCourse'
  BY <1>1 DEF ReceiveEvent, Go, PrepareScope, Claim, AfterClaim, MayOwn, Record, Open, LandStart
<1>2. ASSUME NEW r \in Runs, Acquire(r) \/ Enter(r) \/ Run(r) \/ Answer(r) \/ StopForApproval(r) \/ Break(r)
      PROVE  OnCourse'
  BY <1>2 DEF Acquire, Go, UnderLock, Enter, Run, Answer, Finish, NextPlace, Keeps, StopForApproval, Break
<1>3. ASSUME NEW r \in Runs,
             \/ Diagnose(r) \/ Node(r) \/ Conclude(r) \/ BreakDiagnosis(r) \/ Verdict(r)
             \/ Report(r)
      PROVE  OnCourse'
  BY <1>3 DEF Diagnose, Go, Finish, NextPlace, Keeps, Node, Conclude, EndLoose, BreakDiagnosis, Verdict, Report
<1>4. ASSUME NEW r \in Runs,
             \/ Close(r) \/ LandCompletion(r) \/ Disconnect(r) \/ Abandon(r) \/ LooseRun(r) \/ LooseEnds(r) \/ Timeout(r)
             \/ Reply(r)
      PROVE  OnCourse'
  BY <1>4 DEF Close, Go, LandCompletion, Disconnect, Abandon, LeftAt, LooseRun, LooseEnds, EndLoose, Timeout,
         Reply
<1>5. ASSUME NEW r \in Runs, SettleEvent(r) \/ FailEvent(r) PROVE OnCourse'
  BY <1>5 DEF SettleEvent, FailEvent, Go
<1>6. ASSUME NEW r \in Runs, Enqueue(r) PROVE OnCourse'
  BY <1>6 DEF Enqueue, JobStep
<1>7. ASSUME NEW r \in Runs, Look(r) PROVE OnCourse'
  BY <1>7 DEF Look, Go
<1>8. ASSUME NEW r \in Runs, Reread(r) \/ Resume(r) \/ Mark(r) PROVE OnCourse'
  BY <1>8 DEF Reread, Go, IsPending, Resume, Mark
<1>9. ASSUME NEW r \in Runs,
             \/ ClearMessages(r) \/ DropPending(r) \/ CancelDiagnosis(r) \/ DropScope(r)
             \/ Forget(r) \/ Release(r)
      PROVE  OnCourse'
  BY <1>9 DEF ClearMessages, Go, DropPending, CancelDiagnosis, DropScope, Forget, Release, MayOwn
<1>10. ASSUME NEW r \in Runs, NEW p \in Pods, Arrive(r, p) PROVE OnCourse'
  BY <1>10 DEF Arrive, Go, First
<1>11. ASSUME NEW r \in Runs, NEW p \in Pods, ClaimJob(p, r) PROVE OnCourse'
  BY <1>11 DEF ClaimJob, JobStep
<1>12. ASSUME NEW r \in Runs, NEW p \in Pods, Extract(p, r) PROVE OnCourse'
  BY <1>12 DEF Extract, JobStep
<1>13. ASSUME NEW r \in Runs, NEW p \in Pods, EndJob(p, r) PROVE OnCourse'
  BY <1>13 DEF EndJob, JobStep
<1>14. ASSUME NEW p \in Pods, Crash(p) \/ (\E old \in {{}, Runs} : Start(p, old)) PROVE OnCourse'
  BY <1>14 DEF Crash, OnPod, Start
<1>15. ASSUME ExpireThread PROVE OnCourse'
  BY <1>15 DEF ExpireThread
<1> QED
  BY <1>1, <1>2, <1>3, <1>4, <1>5, <1>6, <1>7, <1>8, <1>9, <1>10, <1>11, <1>12, <1>13, <1>14, <1>15
     DEF Next, Question, Decide, Delete, Worker

\* Nobody arrives with the lock.
LEMMA ArriveLock ==
  ASSUME OnCourse, LockIsHeld, pc \in [Runs -> Places], at \in [Runs -> Pods \cup {Nobody}],
         lock \in [Pods -> Runs \cup {Nobody}], NEW r \in Runs, NEW p \in Pods, Arrive(r, p)
  PROVE  LockIsHeld'
<1>1. /\ pc[r] = "new" /\ lock' = lock /\ pc'[r] \in {"scope", "claim", "event", "look"}
      /\ \A s \in Runs \ {r} : pc'[s] = pc[s] /\ at'[s] = at[s]
  BY ArrivesAt DEF Arrive, Go, podVars
<1>2. "new" \notin UnderTheLock \cup {"closing"} /\ UnderTheLock \cap {"scope", "claim", "event", "look"} = {}
  BY DEF UnderTheLock, InRun, Diagnosing, Loose, Deleting
<1>3. ASSUME NEW s \in Runs, pc'[s] \in UnderTheLock PROVE lock'[at'[s]] = s
  <2>1. s # r
    BY <1>1, <1>2, <1>3
  <2> QED
    BY <1>1, <1>3, <2>1 DEF LockIsHeld
<1>4. ASSUME NEW q \in Pods, lock'[q] # Nobody
      PROVE  at'[lock'[q]] = q /\ pc'[lock'[q]] \in UnderTheLock \cup {"closing"}
  <2>1. lock[q] \in Runs \ {r}
    BY <1>1, <1>2, <1>4 DEF LockIsHeld
  <2> QED
    BY <1>1, <1>4, <2>1 DEF LockIsHeld
<1> QED BY <1>1, <1>2, <1>3, <1>4 DEF LockIsHeld

\* Who works under the lock has it, and it is nobody else's.
LEMMA LockIsHeldStep ==
  ASSUME LockIsHeld, OnCourse, pc \in [Runs -> Places], at \in [Runs -> Pods \cup {Nobody}],
         lock \in [Pods -> Runs \cup {Nobody}], Next
  PROVE  LockIsHeld'
<1>1. ASSUME NEW r \in Runs, NEW p \in Pods, Arrive(r, p) PROVE LockIsHeld'
  BY <1>1, ArriveLock
<1> USE DEF LockIsHeld, OnCourse, InRun, Deleting, Diagnosing, Loose, Ended, UnderTheLock, Questions, Active,
         Kind, RunOf, recordVars, turnVars, diagnosisVars, fixed, podVars, ghosts
<1>2. ASSUME NEW r \in Runs,
             \/ ReceiveEvent(r) \/ PrepareScope(r) \/ Claim(r) \/ Record(r) \/ Open(r)
             \/ LandStart(r) \/ Acquire(r) \/ Enter(r) \/ Run(r) \/ Answer(r)
             \/ StopForApproval(r) \/ Break(r) \/ Diagnose(r) \/ Node(r)
      PROVE  LockIsHeld'
  BY <1>2, NobodyAssumption DEF ReceiveEvent, Go, PrepareScope, Free, Claim, AfterClaim, MayOwn, Record, Open,
         LandStart, Acquire, UnderLock, Enter, Unlock, Unlocked, Run, Answer, Finish, NextPlace, Keeps,
         StopForApproval, Break, Diagnose, Node
<1>3. ASSUME NEW r \in Runs,
             \/ Conclude(r) \/ BreakDiagnosis(r) \/ Verdict(r) \/ Report(r) \/ Close(r)
             \/ LandCompletion(r) \/ Disconnect(r) \/ Abandon(r) \/ LooseRun(r) \/ LooseEnds(r) \/ Timeout(r) \/ Reply(r)
             \/ SettleEvent(r) \/ FailEvent(r) \/ Enqueue(r) \/ Look(r) \/ Reread(r)
      PROVE  LockIsHeld'
  BY <1>3, NobodyAssumption DEF Conclude, EndLoose, Go, Finish, NextPlace, Keeps, Unlock, Unlocked,
         BreakDiagnosis, Verdict, Report, Close, LandCompletion, Disconnect, Abandon, LeftAt, LooseRun,
         LooseEnds, Timeout, Reply, SettleEvent, FailEvent, Enqueue, JobStep, Look, Reread, IsPending
<1>4. ASSUME NEW r \in Runs,
             \/ Resume(r) \/ Mark(r) \/ ClearMessages(r) \/ DropPending(r) \/ CancelDiagnosis(r)
             \/ DropScope(r) \/ Forget(r) \/ Release(r)
      PROVE  LockIsHeld'
  BY <1>4, NobodyAssumption DEF Resume, Go, Mark, Unlock, Unlocked, IsPending, ClearMessages, DropPending,
         CancelDiagnosis, DropScope, Forget, Release, MayOwn
<1>5. ASSUME NEW r \in Runs, NEW p \in Pods, ClaimJob(p, r) PROVE LockIsHeld'
  BY <1>5, NobodyAssumption DEF ClaimJob, JobStep
<1>6. ASSUME NEW r \in Runs, NEW p \in Pods, Extract(p, r) \/ EndJob(p, r) PROVE LockIsHeld'
  BY <1>6, NobodyAssumption DEF Extract, JobStep, EndJob
<1>7. ASSUME NEW p \in Pods, Crash(p) \/ (\E old \in {{}, Runs} : Start(p, old)) PROVE LockIsHeld'
  BY <1>7, NobodyAssumption DEF Crash, OnPod, Start
<1>8. ASSUME ExpireThread PROVE LockIsHeld'
  BY <1>8, NobodyAssumption DEF ExpireThread
<1> QED
  BY <1>1, <1>2, <1>3, <1>4, <1>5, <1>6, <1>7, <1>8
     DEF Next, Question, Decide, Delete, Worker

-----------------------------------------------------------------------------
(* Deletions *)

\* Whether an extraction is open is noted when a deletion gets the lock.
LEMMA UnqueuedDeletionsStep ==
  ASSUME UnqueuedDeletions, OnCourse, pc \in [Runs -> Places], unqueued \subseteq Runs, Next
  PROVE  UnqueuedDeletions'
<1> USE DEF UnqueuedDeletions, OnCourse, InRun, Deleting, Diagnosing, Loose, Ended, Active, Kind, RunOf,
         recordVars, turnVars, diagnosisVars, fixed, podVars, ghosts
<1>1. ASSUME NEW r \in Runs,
             \/ ReceiveEvent(r) \/ PrepareScope(r) \/ Claim(r) \/ Record(r) \/ Open(r)
             \/ LandStart(r) \/ Acquire(r) \/ Enter(r) \/ Run(r) \/ Answer(r)
             \/ StopForApproval(r) \/ Break(r) \/ Diagnose(r) \/ Node(r)
      PROVE  UnqueuedDeletions'
  BY <1>1 DEF ReceiveEvent, Go, PrepareScope, Claim, AfterClaim, MayOwn, Record, Open, LandStart, Acquire,
         UnderLock, Enter, Run, Answer, Finish, NextPlace, Keeps, StopForApproval, Break, Diagnose, Node
<1>2. ASSUME NEW r \in Runs,
             \/ Conclude(r) \/ BreakDiagnosis(r) \/ Verdict(r) \/ Report(r) \/ Close(r)
             \/ LandCompletion(r) \/ Disconnect(r) \/ Abandon(r) \/ LooseRun(r) \/ LooseEnds(r) \/ Timeout(r) \/ Reply(r)
             \/ SettleEvent(r) \/ FailEvent(r) \/ Enqueue(r) \/ Look(r) \/ Reread(r)
      PROVE  UnqueuedDeletions'
  BY <1>2 DEF Conclude, EndLoose, Go, Finish, NextPlace, Keeps, BreakDiagnosis, Verdict, Report, Close,
         LandCompletion, Disconnect, Abandon, LeftAt, LooseRun, LooseEnds, Timeout, Reply, SettleEvent,
         FailEvent, Enqueue, JobStep, Look, Reread, IsPending
<1>3. ASSUME NEW r \in Runs,
             \/ Resume(r) \/ Mark(r) \/ ClearMessages(r) \/ DropPending(r) \/ CancelDiagnosis(r)
             \/ DropScope(r) \/ Forget(r) \/ Release(r)
      PROVE  UnqueuedDeletions'
  BY <1>3 DEF Resume, Go, Mark, IsPending, ClearMessages, DropPending, CancelDiagnosis, DropScope, Forget,
         Release, MayOwn
<1>4. ASSUME NEW r \in Runs, NEW p \in Pods, Arrive(r, p) \/ ClaimJob(p, r) \/ Extract(p, r) \/ EndJob(p, r)
      PROVE  UnqueuedDeletions'
  BY <1>4 DEF Arrive, Go, First, ClaimJob, JobStep, Extract, EndJob
<1>5. ASSUME NEW p \in Pods, Crash(p) \/ (\E old \in {{}, Runs} : Start(p, old)) PROVE UnqueuedDeletions'
  BY <1>5 DEF Crash, OnPod, Start
<1>6. ASSUME ExpireThread PROVE UnqueuedDeletions'
  BY <1>6 DEF ExpireThread
<1> QED
  BY <1>1, <1>2, <1>3, <1>4, <1>5, <1>6
     DEF Next, Question, Decide, Delete, Worker

\* A deletion that begins alone has everything still to do; the one before it, if any, is ended and disturbed.
LEMMA AcquireQuiet ==
  ASSUME QuietDeletions, UnqueuedDeletions, OnCourse, pc \in [Runs -> Places], quiet \subseteq Runs,
         unqueued \subseteq Runs, NEW r \in Runs, Acquire(r)
  PROVE  QuietDeletions'
<1>1. /\ UNCHANGED <<ask, history, pending, thread, scope, summary, owner, job, work, completing>>
      /\ pc[r] = "lock" /\ pc'[r] = UnderLock(r) /\ \A s \in Runs \ {r} : pc'[s] = pc[s]
  BY DEF Acquire, Go, recordVars, turnVars, diagnosisVars, fixed
<1>2. /\ r \notin quiet \cup unqueued /\ Active(r)
      /\ \A d \in quiet : d = r \/ ~Active(r)
  BY <1>1 DEF QuietDeletions, UnqueuedDeletions, Deleting, Ended, Active
<1>3. ASSUME NEW d \in unqueued' PROVE d = r => Unqueued /\ Kind(r) = "delete"
  BY <1>1, <1>2, <1>3 DEF Acquire
<1>4. ASSUME NEW d \in quiet' PROVE d = r /\ Kind(r) = "delete" /\ OthersIdle(r) /\ pc'[r] = "clear"
  BY <1>1, <1>2, <1>4 DEF Acquire, UnderLock
<1>5. OthersIdle(r) => OthersIdle(r)'
  BY <1>1 DEF OthersIdle, Active
<1>6. Unqueued => Unqueued'
  BY <1>1 DEF Unqueued, OpenJobs, Resting
<1>7. Kind(r)' = Kind(r)
  BY <1>1 DEF Kind
<1> QED
  BY <1>3, <1>4, <1>5, <1>6, <1>7 DEF QuietDeletions, OthersIdle, Past, Deleting

\* Nothing comes back while a deletion is alone: the worker has no job, or it was not counted.
LEMMA QuietDeletionsStep ==
  ASSUME QuietDeletions, OnCourse, UnqueuedDeletions, unqueued \subseteq Runs, quiet \subseteq Runs,
         pc \in [Runs -> Places], completing \in [Runs -> {"none"} \cup Verdicts],
         job \in [Runs -> JobStatuses], turn \in [Runs -> {"none", "running"} \cup Terminal],
         work \in [Pods -> [job : Runs \cup {"none"}, phase : {"none", "extract", "complete"}]],
         pending \in [Runs -> {"none", "pending", "completed"}], Next
  PROVE  QuietDeletions'
<1>1. ASSUME NEW r \in Runs, Acquire(r) PROVE QuietDeletions'
  BY <1>1, AcquireQuiet
<1> USE DEF QuietDeletions, OnCourse, InRun, Deleting, Diagnosing, Loose, Ended, Past, Unqueued, OpenJobs,
         Resting, Idle, OthersIdle, Active, Kind, RunOf, recordVars, turnVars, diagnosisVars, fixed, podVars,
         ghosts
<1>2. ASSUME NEW r \in Runs, ReceiveEvent(r) \/ PrepareScope(r) \/ Claim(r) PROVE QuietDeletions'
  BY <1>2, NobodyAssumption DEF ReceiveEvent, Go, PrepareScope, Free, ResolveScope, BindScope, Claim,
         AfterClaim, BindOwner, MayOwn
<1>3. ASSUME NEW r \in Runs, Record(r) \/ Open(r) PROVE QuietDeletions'
  BY <1>3, NobodyAssumption DEF Record, Go, StartTurn, Open
<1>4. ASSUME NEW r \in Runs, LandStart(r) PROVE QuietDeletions'
  BY <1>4, NobodyAssumption DEF LandStart, StartTurn
<1>5. ASSUME NEW r \in Runs, Enter(r) \/ Run(r) \/ Answer(r) PROVE QuietDeletions'
  BY <1>5, NobodyAssumption DEF Enter, Go, Unlock, Unlocked, ResolveScope, BindScope, Run, AddItems, Answer,
         Finish, NextPlace, Keeps
<1>6. ASSUME NEW r \in Runs, StopForApproval(r) \/ Break(r) PROVE QuietDeletions'
  BY <1>6, NobodyAssumption DEF StopForApproval, SavePending, Go, Finish, NextPlace, Keeps, Unlock, Unlocked,
         Break
<1>7. ASSUME NEW r \in Runs, Diagnose(r) \/ Node(r) PROVE QuietDeletions'
  BY <1>7, NobodyAssumption DEF Diagnose, Cancel, Begin, Live, Go, Finish, NextPlace, Keeps, Unlock, Unlocked,
         Node, At, Move, Understand, QueryLogs, SearchCode, EnrichCode, InspectContracts, Generate
<1>8. ASSUME NEW r \in Runs,
             \/ Conclude(r) \/ BreakDiagnosis(r) \/ Verdict(r) \/ Report(r) \/ Close(r)
             \/ LandCompletion(r) \/ Disconnect(r) \/ Abandon(r) \/ LooseRun(r) \/ LooseEnds(r) \/ Timeout(r) \/ Reply(r)
             \/ SettleEvent(r) \/ FailEvent(r) \/ Enqueue(r) \/ Look(r) \/ Reread(r)
      PROVE  QuietDeletions'
  BY <1>8, NobodyAssumption DEF Conclude, EndLoose, Drop, Go, Finish, NextPlace, Keeps, Unlock, Unlocked,
         BreakDiagnosis, At, Verdict, CompleteTurn, Report, Close, LandCompletion, Disconnect, Abandon, LeftAt,
         LooseRun, LooseEnds, Timeout, Reply, SettleEvent, FailEvent, Enqueue, JobStep, Look, Reread, IsPending
<1>9. ASSUME NEW r \in Runs,
             \/ Resume(r) \/ Mark(r) \/ ClearMessages(r) \/ DropPending(r) \/ CancelDiagnosis(r)
             \/ DropScope(r) \/ Forget(r) \/ Release(r)
      PROVE  QuietDeletions'
  BY <1>9, NobodyAssumption DEF Resume, Go, AddItems, Mark, Unlock, Unlocked, IsPending, MarkCompleted,
         ClearMessages, ClearSession, DropPending, DeletePending, CancelDiagnosis, Cancel, DropScope,
         DeleteScope, Forget, DeleteSummary, Release, MayOwn, ReleaseOwner
<1>10. ASSUME NEW r \in Runs, NEW p \in Pods, Arrive(r, p) \/ ClaimJob(p, r) \/ Extract(p, r) \/ EndJob(p, r)
      PROVE  QuietDeletions'
  BY <1>10, NobodyAssumption DEF Arrive, Go, First, ClaimJob, JobStep, Extract, UpdateSummary, EndJob
<1>11. ASSUME NEW p \in Pods, Crash(p) \/ (\E old \in {{}, Runs} : Start(p, old)) PROVE QuietDeletions'
  BY <1>11, NobodyAssumption DEF Crash, OnPod, Start, RecoverStaleRunning
<1>12. ASSUME ExpireThread PROVE QuietDeletions'
  BY <1>12, NobodyAssumption DEF ExpireThread, Expire
<1> QED
  BY <1>1, <1>2, <1>3, <1>4, <1>5, <1>6, <1>7, <1>8, <1>9, <1>10, <1>11, <1>12
     DEF Next, Question, Decide, Delete, Worker

\* A request that arrives during a deletion is counted as overlapping it.
LEMMA ArriveOverlaps ==
  ASSUME DeletionsOverlap, OnCourse, pc \in [Runs -> Places], NEW r \in Runs, NEW p \in Pods, Arrive(r, p)
  PROVE  DeletionsOverlap'
<1>1. /\ UNCHANGED <<ask, history, pending>> /\ pc[r] = "new" /\ overlapping \subseteq overlapping'
      /\ pc'[r] \notin Deleting /\ \A s \in Runs \ {r} : pc'[s] = pc[s]
  BY ArrivesAt DEF Arrive, Go, recordVars, fixed, Deleting
<1> SUFFICES ASSUME NEW d \in Runs, pc[d] \in Deleting, d # r, NEW s \in Runs \ {d}, Active(s)'
             PROVE  RunOf(s) \in overlapping'
  BY <1>1 DEF DeletionsOverlap, Waiting, RunOf, Kind
<1>2. CASE s = r
  BY <1>1, <1>2 DEF Arrive
<1>3. CASE s # r
  <2>1. Active(s)
    BY <1>1, <1>3 DEF Active
  <2> QED
    BY <1>1, <2>1 DEF DeletionsOverlap
<1> QED BY <1>2, <1>3

\* The messages a run stores while a deletion is under way are those of a run it overlaps.
LEMMA RunOverlaps ==
  ASSUME DeletionsOverlap, OnCourse, pc \in [Runs -> Places], NEW r \in Runs, Run(r)
  PROVE  DeletionsOverlap'
<1>1. /\ UNCHANGED <<ask, pending, overlapping>> /\ pc[r] = "run" /\ history' = history \cup {r}
      /\ pc'[r] = "answer" /\ \A s \in Runs \ {r} : pc'[s] = pc[s]
  BY DEF Run, Go, AddItems, fixed, ghosts
<1>2. RunOf(r) = r /\ Active(r)
  BY <1>1 DEF OnCourse, InRun, Diagnosing, Loose, Questions, RunOf, Active, Ended
<1> SUFFICES ASSUME NEW d \in Runs, pc'[d] \in Deleting
             PROVE  /\ \A s \in Runs \ {d} : (Active(s))' => RunOf(s) \in overlapping
                    /\ pc'[d] # "clear" => history' \subseteq overlapping
                    /\ pc'[d] \notin {"clear", "unpend"} => Waiting' \subseteq overlapping
  BY <1>1 DEF DeletionsOverlap, RunOf, Kind
<1>3. d # r /\ pc'[d] = pc[d]
  BY <1>1 DEF Deleting
<1> QED
  BY <1>1, <1>2, <1>3 DEF DeletionsOverlap, Waiting, Active

\* The other steps add nothing to what a deletion has left behind, or only what it has emptied still.
LEMMA DeletionsOverlapStep ==
  ASSUME DeletionsOverlap, OnCourse, pc \in [Runs -> Places],
         pending \in [Runs -> {"none", "pending", "completed"}], Next
  PROVE  DeletionsOverlap'
<1>1. ASSUME NEW r \in Runs, NEW p \in Pods, Arrive(r, p) PROVE DeletionsOverlap'
  BY <1>1, ArriveOverlaps
<1>2. ASSUME NEW r \in Runs, Run(r) PROVE DeletionsOverlap'
  BY <1>2, RunOverlaps
<1> USE DEF DeletionsOverlap, OnCourse, InRun, Deleting, Diagnosing, Loose, Ended, Waiting, Admitted, Active,
         Kind, RunOf, recordVars, turnVars, diagnosisVars, fixed, podVars, ghosts
<1>3. ASSUME NEW r \in Runs,
             \/ ReceiveEvent(r) \/ PrepareScope(r) \/ Claim(r) \/ Record(r) \/ Open(r)
             \/ LandStart(r)
      PROVE  DeletionsOverlap'
  BY <1>3 DEF ReceiveEvent, Go, PrepareScope, Claim, AfterClaim, MayOwn, Record, Open, LandStart
<1>4. ASSUME NEW r \in Runs, Acquire(r) PROVE DeletionsOverlap'
  BY <1>4 DEF Acquire, Go, UnderLock
<1>5. ASSUME NEW r \in Runs, Enter(r) PROVE DeletionsOverlap'
  BY <1>5 DEF Enter, Go
<1>6. ASSUME NEW r \in Runs, Answer(r) \/ StopForApproval(r) \/ Break(r) PROVE DeletionsOverlap'
  BY <1>6 DEF Answer, Go, Finish, NextPlace, Keeps, StopForApproval, SavePending, Break
<1>7. ASSUME NEW r \in Runs,
             \/ Diagnose(r) \/ Node(r) \/ Conclude(r) \/ BreakDiagnosis(r) \/ Verdict(r)
             \/ Report(r)
      PROVE  DeletionsOverlap'
  BY <1>7 DEF Diagnose, Go, Finish, NextPlace, Keeps, Node, Conclude, EndLoose, BreakDiagnosis, Verdict, Report
<1>8. ASSUME NEW r \in Runs,
             \/ Close(r) \/ LandCompletion(r) \/ Disconnect(r) \/ Abandon(r) \/ LooseRun(r) \/ LooseEnds(r) \/ Timeout(r)
             \/ Reply(r)
      PROVE  DeletionsOverlap'
  BY <1>8 DEF Close, Go, LandCompletion, Disconnect, Abandon, LeftAt, LooseRun, LooseEnds, EndLoose, AddItems,
         Timeout, Reply
<1>9. ASSUME NEW r \in Runs, SettleEvent(r) \/ FailEvent(r) \/ Enqueue(r) \/ Look(r) \/ Reread(r) \/ Resume(r) \/ Mark(r)
      PROVE  DeletionsOverlap'
  BY <1>9 DEF SettleEvent, FailEvent, Go, Enqueue, JobStep, Look, Reread, IsPending, Resume, AddItems, Mark,
         MarkCompleted
<1>10. ASSUME NEW r \in Runs,
             \/ ClearMessages(r) \/ DropPending(r) \/ CancelDiagnosis(r) \/ DropScope(r)
             \/ Forget(r) \/ Release(r)
      PROVE  DeletionsOverlap'
  BY <1>10 DEF ClearMessages, Go, ClearSession, DropPending, DeletePending, CancelDiagnosis, DropScope, Forget,
         Release, MayOwn
<1>11. ASSUME NEW r \in Runs, NEW p \in Pods, ClaimJob(p, r) PROVE DeletionsOverlap'
  BY <1>11 DEF ClaimJob, JobStep
<1>12. ASSUME NEW r \in Runs, NEW p \in Pods, Extract(p, r) \/ EndJob(p, r) PROVE DeletionsOverlap'
  BY <1>12 DEF Extract, JobStep, EndJob
<1>13. ASSUME NEW p \in Pods, Crash(p) \/ (\E old \in {{}, Runs} : Start(p, old)) PROVE DeletionsOverlap'
  BY <1>13 DEF Crash, OnPod, Start
<1>14. ASSUME ExpireThread PROVE DeletionsOverlap'
  BY <1>14 DEF ExpireThread
<1> QED
  BY <1>1, <1>2, <1>3, <1>4, <1>5, <1>6, <1>7, <1>8, <1>9, <1>10, <1>11, <1>12, <1>13, <1>14
     DEF Next, Question, Decide, Delete, Worker

\* The five steps at which the conversation loses its owner, gets one, or a request comes nearer to its messages.
LEMMA OwnerSteps ==
  ASSUME UnownedOverlap, DeletionsOverlap, OnCourse, pc \in [Runs -> Places], NEW r \in Runs,
         Acquire(r) \/ Reread(r) \/ Claim(r) \/ Release(r) \/ \E p \in Pods : Arrive(r, p)
  PROVE  UnownedOverlap'
<1>1. /\ UNCHANGED <<ask, history, pending>> /\ overlapping \subseteq overlapping'
      /\ \A s \in Runs \ {r} : pc'[s] = pc[s]
  BY DEF Acquire, Reread, Claim, Release, Arrive, Go, recordVars, fixed, ghosts
<1>2. \A s \in Runs : Kind(s)' = Kind(s) /\ RunOf(s)' = RunOf(s)
  BY <1>1 DEF Kind, RunOf
<1>3. \A s \in Runs \ {r} : Admitted(s)' => Admitted(s)
  BY <1>1, <1>2 DEF Admitted
<1>4. ASSUME owner' = owner,
             ASSUME (Admitted(r))', owner = Nobody PROVE Admitted(r) \/ RunOf(r) \in overlapping'
      PROVE  UnownedOverlap'
  <2> SUFFICES ASSUME owner = Nobody
               PROVE  /\ history \cup Waiting \subseteq overlapping'
                      /\ \A s \in Runs : (Admitted(s))' => RunOf(s) \in overlapping'
    BY <1>1, <1>2, <1>4 DEF UnownedOverlap, Waiting
  <2> QED
    BY <1>1, <1>3, <1>4 DEF UnownedOverlap
<1>5. CASE Acquire(r)
  <2>1. pc[r] = "lock" /\ Kind(r) \in Kinds \ {"none"} /\ pc'[r] = UnderLock(r) /\ owner' = owner
    BY <1>5 DEF Acquire, Go, OnCourse, Request, Kind, recordVars
  <2>2. (Admitted(r))' => Admitted(r)
    BY <2>1, <1>2 DEF UnderLock, Admitted, Kinds, Questions
  <2> QED BY <1>4, <2>1, <2>2
<1>6. CASE Reread(r)
  <2>1. /\ pc[r] = "reread" /\ Kind(r) = "decide" /\ owner' = owner
        /\ pc'[r] = "refused" \/ (pc'[r] = "resume" /\ IsPending(ask[r].target))
    BY <1>6 DEF Reread, Go, OnCourse, recordVars
  <2>2. ASSUME (Admitted(r))', owner = Nobody PROVE RunOf(r) \in overlapping'
    <3>1. IsPending(ask[r].target) /\ RunOf(r) \in Runs
      BY <2>1, <2>2 DEF Admitted, OnCourse, Request, RunOf
    <3> QED
      BY <1>1, <2>1, <2>2, <3>1 DEF IsPending, RunOf, UnownedOverlap, Waiting
  <2> QED BY <1>4, <2>1, <2>2
<1>7. CASE Claim(r)
  <2>1. CASE owner' = ask[r].by /\ pc[r] = "claim"
    BY <2>1 DEF UnownedOverlap, OnCourse, Request, Kind
  <2>2. CASE owner' = owner /\ pc'[r] \in {"dropped", "refused"}
    BY <1>4, <2>2 DEF Admitted
  <2> QED BY <1>7, <2>1, <2>2 DEF Claim, BindOwner, Go
<1>8. CASE Release(r)
  <2>1. pc[r] = "release" /\ pc'[r] \in {"done", "refused"} /\ overlapping' = overlapping
    BY <1>8 DEF Release, Go, ghosts
  <2>2. \A s \in Runs \ {r} : Admitted(s) => Active(s)
    BY DEF Admitted, Active, Ended
  <2>3. \A s \in Runs : (Admitted(s))' => RunOf(s) \in overlapping
    BY <2>1, <2>2, <1>3 DEF DeletionsOverlap, Deleting, Admitted
  <2>4. history \cup Waiting \subseteq overlapping
    BY <2>1 DEF DeletionsOverlap, Deleting
  <2> QED
    BY <1>1, <1>2, <2>1, <2>3, <2>4 DEF UnownedOverlap, Waiting
<1>9. ASSUME NEW p \in Pods, Arrive(r, p) PROVE UnownedOverlap'
  <2>1. pc'[r] \in {"scope", "claim", "event", "look"} /\ owner' = owner
    BY <1>9, ArrivesAt DEF Arrive, Go, recordVars
  <2> QED
    BY <1>4, <2>1 DEF Admitted
<1> QED BY <1>5, <1>6, <1>7, <1>8, <1>9

\* The other steps neither take the owner away nor admit a request.
LEMMA UnownedOverlapStep ==
  ASSUME UnownedOverlap, OnCourse, DeletionsOverlap, pc \in [Runs -> Places],
         pending \in [Runs -> {"none", "pending", "completed"}], Next
  PROVE  UnownedOverlap'
<1>1. ASSUME NEW r \in Runs, Acquire(r) \/ Reread(r) \/ Claim(r) \/ Release(r) \/ \E p \in Pods : Arrive(r, p)
      PROVE  UnownedOverlap'
  BY <1>1, OwnerSteps
<1> USE DEF UnownedOverlap, OnCourse, InRun, Deleting, Diagnosing, Loose, Ended, Waiting, Admitted, Questions,
         Active, Kind, RunOf, recordVars, turnVars, diagnosisVars, fixed, podVars, ghosts
<1>2. ASSUME NEW r \in Runs, ReceiveEvent(r) PROVE UnownedOverlap'
  BY <1>2 DEF ReceiveEvent, Go
<1>3. ASSUME NEW r \in Runs, PrepareScope(r) PROVE UnownedOverlap'
  BY <1>3 DEF PrepareScope, Go
<1>4. ASSUME NEW r \in Runs, Record(r) \/ Open(r) \/ LandStart(r) PROVE UnownedOverlap'
  BY <1>4 DEF Record, Go, Open, LandStart
<1>5. ASSUME NEW r \in Runs, Enter(r) \/ Run(r) PROVE UnownedOverlap'
  BY <1>5 DEF Enter, Go, Run, AddItems
<1>6. ASSUME NEW r \in Runs, Answer(r) \/ StopForApproval(r) \/ Break(r) PROVE UnownedOverlap'
  BY <1>6 DEF Answer, Go, Finish, NextPlace, Keeps, StopForApproval, SavePending, Break
<1>7. ASSUME NEW r \in Runs,
             \/ Diagnose(r) \/ Node(r) \/ Conclude(r) \/ BreakDiagnosis(r) \/ Verdict(r)
             \/ Report(r)
      PROVE  UnownedOverlap'
  BY <1>7 DEF Diagnose, Go, Finish, NextPlace, Keeps, Node, Conclude, EndLoose, BreakDiagnosis, Verdict, Report
<1>8. ASSUME NEW r \in Runs,
             \/ Close(r) \/ LandCompletion(r) \/ Disconnect(r) \/ Abandon(r) \/ LooseRun(r) \/ LooseEnds(r) \/ Timeout(r)
             \/ Reply(r)
      PROVE  UnownedOverlap'
  BY <1>8 DEF Close, Go, LandCompletion, Disconnect, Abandon, LeftAt, LooseRun, LooseEnds, EndLoose, AddItems,
         Timeout, Reply
<1>9. ASSUME NEW r \in Runs, SettleEvent(r) \/ FailEvent(r) \/ Enqueue(r) \/ Look(r) PROVE UnownedOverlap'
  BY <1>9 DEF SettleEvent, FailEvent, Go, Enqueue, JobStep, Look
<1>10. ASSUME NEW r \in Runs, Resume(r) \/ Mark(r) PROVE UnownedOverlap'
  BY <1>10 DEF Resume, Go, AddItems, Mark, IsPending, MarkCompleted
<1>11. ASSUME NEW r \in Runs, ClearMessages(r) \/ DropPending(r) \/ CancelDiagnosis(r) PROVE UnownedOverlap'
  BY <1>11 DEF ClearMessages, Go, ClearSession, DropPending, DeletePending, CancelDiagnosis
<1>12. ASSUME NEW r \in Runs, DropScope(r) PROVE UnownedOverlap'
  BY <1>12 DEF DropScope, Go
<1>13. ASSUME NEW r \in Runs, Forget(r) PROVE UnownedOverlap'
  BY <1>13 DEF Forget, Go
<1>14. ASSUME NEW r \in Runs, NEW p \in Pods, ClaimJob(p, r) PROVE UnownedOverlap'
  BY <1>14 DEF ClaimJob, JobStep
<1>15. ASSUME NEW r \in Runs, NEW p \in Pods, Extract(p, r) \/ EndJob(p, r) PROVE UnownedOverlap'
  BY <1>15 DEF Extract, JobStep, EndJob
<1>16. ASSUME NEW p \in Pods, Crash(p) \/ (\E old \in {{}, Runs} : Start(p, old)) PROVE UnownedOverlap'
  BY <1>16 DEF Crash, OnPod, Start
<1>17. ASSUME ExpireThread PROVE UnownedOverlap'
  BY <1>17 DEF ExpireThread
<1> QED
  BY <1>1, <1>2, <1>3, <1>4, <1>5, <1>6, <1>7, <1>8, <1>9, <1>10, <1>11, <1>12, <1>13, <1>14, <1>15,
     <1>16, <1>17
     DEF Next, Question, Decide, Delete, Worker

-----------------------------------------------------------------------------
(* Scopes and approvals *)

\* Who binds the scope leaves it as it is, where there is one.
LEMMA BindingKeeps ==
  ASSUME OnCourse, PreparedScopes, pc \in [Runs -> Places], NEW r \in Runs, PrepareScope(r) \/ Enter(r)
  PROVE  PreparedScopes'
<1>1. ask' = ask /\ (Deleted => Deleted')
  BY DEF PrepareScope, Enter, fixed, Deleted, Go, Kind
<1>2. \A s \in Runs \ {r} : pc'[s] = pc[s]
  BY DEF PrepareScope, Enter, Go
<1>3. \A s \in Runs : Kind(s) # "none" /\ scope = ask[s].scope => scope' = ask[s].scope
  BY DEF PrepareScope, Enter, ResolveScope, BindScope, MayBind, OnCourse, Request, Kind
<1>4. CASE PrepareScope(r)
  <2>1. Kind(r) = "stream" /\ ask[r].provided /\ pc'[r] = "claim" => scope' = ask[r].scope
    BY <1>4 DEF PrepareScope, ResolveScope, BindScope, MayBind, Go
  <2>2. pc'[r] \in {"claim", "refused"}
    BY <1>4 DEF PrepareScope, Go
  <2> QED
    BY <1>1, <1>2, <1>3, <2>1, <2>2 DEF PreparedScopes, Kind
<1>5. CASE Enter(r)
  <2>1. pc[r] = "enter" /\ pc'[r] \notin {"claim", "open", "lock", "enter"}
    BY <1>5 DEF Enter, Go
  <2> QED
    BY <1>1, <1>2, <1>3, <2>1 DEF PreparedScopes, Kind
<1> QED BY <1>4, <1>5

\* The other steps leave the scope alone or come after a deletion.
LEMMA PreparedScopesStep ==
  ASSUME PreparedScopes, OnCourse, pc \in [Runs -> Places], Next
  PROVE  PreparedScopes'
<1>1. ASSUME NEW r \in Runs, PrepareScope(r) \/ Enter(r) PROVE PreparedScopes'
  BY <1>1, BindingKeeps
<1> USE DEF PreparedScopes, OnCourse, InRun, Deleting, Diagnosing, Loose, Ended, Deleted, Request, Active,
         Kind, RunOf, recordVars, turnVars, diagnosisVars, fixed, podVars, ghosts
<1>2. ASSUME NEW r \in Runs, ReceiveEvent(r) PROVE PreparedScopes'
  BY <1>2 DEF ReceiveEvent, Go
<1>3. ASSUME NEW r \in Runs, Claim(r) PROVE PreparedScopes'
  BY <1>3 DEF Claim, Go, AfterClaim, MayOwn
<1>4. ASSUME NEW r \in Runs, Record(r) \/ Open(r) \/ LandStart(r) PROVE PreparedScopes'
  BY <1>4 DEF Record, Go, Open, LandStart
<1>5. ASSUME NEW r \in Runs, Acquire(r) PROVE PreparedScopes'
  BY <1>5 DEF Acquire, Go, UnderLock
<1>6. ASSUME NEW r \in Runs, Run(r) PROVE PreparedScopes'
  BY <1>6 DEF Run, Go
<1>7. ASSUME NEW r \in Runs, Answer(r) \/ StopForApproval(r) \/ Break(r) PROVE PreparedScopes'
  BY <1>7 DEF Answer, Go, Finish, NextPlace, Keeps, StopForApproval, Break
<1>8. ASSUME NEW r \in Runs,
             \/ Diagnose(r) \/ Node(r) \/ Conclude(r) \/ BreakDiagnosis(r) \/ Verdict(r)
             \/ Report(r)
      PROVE  PreparedScopes'
  BY <1>8 DEF Diagnose, Go, Finish, NextPlace, Keeps, Node, Conclude, EndLoose, BreakDiagnosis, Verdict, Report
<1>9. ASSUME NEW r \in Runs,
             \/ Close(r) \/ LandCompletion(r) \/ Disconnect(r) \/ Abandon(r) \/ LooseRun(r) \/ LooseEnds(r) \/ Timeout(r)
             \/ Reply(r)
      PROVE  PreparedScopes'
  BY <1>9 DEF Close, Go, LandCompletion, Disconnect, Abandon, LeftAt, LooseRun, LooseEnds, EndLoose, Timeout,
         Reply
<1>10. ASSUME NEW r \in Runs, SettleEvent(r) \/ FailEvent(r) PROVE PreparedScopes'
  BY <1>10 DEF SettleEvent, FailEvent, Go
<1>11. ASSUME NEW r \in Runs, Enqueue(r) PROVE PreparedScopes'
  BY <1>11 DEF Enqueue, JobStep
<1>12. ASSUME NEW r \in Runs, Look(r) PROVE PreparedScopes'
  BY <1>12 DEF Look, Go
<1>13. ASSUME NEW r \in Runs, Reread(r) \/ Resume(r) \/ Mark(r) PROVE PreparedScopes'
  BY <1>13 DEF Reread, Go, IsPending, Resume, Mark
<1>14. ASSUME NEW r \in Runs,
             \/ ClearMessages(r) \/ DropPending(r) \/ CancelDiagnosis(r) \/ DropScope(r)
             \/ Forget(r) \/ Release(r)
      PROVE  PreparedScopes'
  BY <1>14 DEF ClearMessages, Go, DropPending, CancelDiagnosis, DropScope, DeleteScope, Forget, Release, MayOwn
<1>15. ASSUME NEW r \in Runs, NEW p \in Pods, Arrive(r, p) PROVE PreparedScopes'
  BY <1>15 DEF Arrive, Go, First
<1>16. ASSUME NEW r \in Runs, NEW p \in Pods, ClaimJob(p, r) PROVE PreparedScopes'
  BY <1>16 DEF ClaimJob, JobStep
<1>17. ASSUME NEW r \in Runs, NEW p \in Pods, Extract(p, r) PROVE PreparedScopes'
  BY <1>17 DEF Extract, JobStep
<1>18. ASSUME NEW r \in Runs, NEW p \in Pods, EndJob(p, r) PROVE PreparedScopes'
  BY <1>18 DEF EndJob, JobStep
<1>19. ASSUME NEW p \in Pods, Crash(p) \/ (\E old \in {{}, Runs} : Start(p, old)) PROVE PreparedScopes'
  BY <1>19 DEF Crash, OnPod, Start
<1>20. ASSUME ExpireThread PROVE PreparedScopes'
  BY <1>20 DEF ExpireThread
<1> QED
  BY <1>1, <1>2, <1>3, <1>4, <1>5, <1>6, <1>7, <1>8, <1>9, <1>10, <1>11, <1>12, <1>13, <1>14, <1>15,
     <1>16, <1>17, <1>18, <1>19, <1>20
     DEF Next, Question, Decide, Delete, Worker

\* As long as no run is given a scope, the scopes given stay right.
LEMMA ScopesKept ==
  ASSUME AnswersInScope, UNCHANGED <<ask, used>>, \A x \in Runs : pc[x] # "new" => pc'[x] # "new"
  PROVE  AnswersInScope'
BY DEF AnswersInScope, Kind

\* The run gets the scope its request brings, a stream's the one bound before.
LEMMA EnterInScope ==
  ASSUME OnCourse, PreparedScopes, AnswersInScope, pc \in [Runs -> Places], used = [s \in Runs |-> used[s]],
         NEW r \in Runs, Enter(r)
  PROVE  AnswersInScope'
<1>1. ask' = ask /\ (Deleted => Deleted')
  BY DEF Enter, fixed, Deleted, Go, Kind
<1>2. CASE used' = used
  BY <1>1, <1>2 DEF AnswersInScope, Deleted, Kind
<1>3. CASE used' = [used EXCEPT ![r] = scope'] /\ ResolveScope(Wanted(r), Provided(r))
  <2>1. Kind(r) # "none" /\ pc[r] = "enter"
    BY DEF Enter, OnCourse
  <2>2. Kind(r) # "stream" /\ ask[r].provided => scope' = ask[r].scope
    BY <1>3 DEF ResolveScope, BindScope, Wanted, Provided
  <2>3. Kind(r) = "stream" /\ ask[r].provided => scope' = ask[r].scope \/ Deleted
    BY <1>3, <2>1 DEF ResolveScope, BindScope, MayBind, Wanted, Provided, PreparedScopes, OnCourse, Request,
         Kind
  <2>4. used'[r] = scope' /\ \A s \in Runs \ {r} : used'[s] = used[s]
    BY <1>3
  <2> QED
    BY <1>1, <2>2, <2>3, <2>4 DEF AnswersInScope, Deleted, Kind
<1> QED BY <1>2, <1>3 DEF Enter

\* Only Enter gives a run its scope.
LEMMA AnswersInScopeStep ==
  ASSUME AnswersInScope, OnCourse, PreparedScopes, used = [s \in Runs |-> used[s]], pc \in [Runs -> Places],
         at \in [Runs -> Pods \cup {Nobody}], Next
  PROVE  AnswersInScope'
<1>1. ASSUME NEW r \in Runs, Enter(r) PROVE AnswersInScope'
  BY <1>1, EnterInScope
<1> USE DEF OnCourse, InRun, Deleting, Diagnosing, Loose, Ended, Request, Kinds, Active, Kind, RunOf,
         recordVars, turnVars, diagnosisVars, fixed, podVars, ghosts
<1>2. ASSUME NEW r \in Runs,
             \/ ReceiveEvent(r) \/ PrepareScope(r) \/ Claim(r) \/ Record(r) \/ Open(r)
             \/ LandStart(r) \/ Acquire(r)
      PROVE  AnswersInScope'
  BY <1>2, ScopesKept DEF ReceiveEvent, Go, PrepareScope, Claim, AfterClaim, MayOwn, Record, Open, LandStart,
         Acquire, UnderLock
<1>3. ASSUME NEW r \in Runs, Run(r) \/ Answer(r) PROVE AnswersInScope'
  BY <1>3, ScopesKept DEF Run, Go, Answer, Finish, NextPlace, Keeps
<1>4. ASSUME NEW r \in Runs, StopForApproval(r) \/ Break(r) \/ Diagnose(r) \/ Node(r) PROVE AnswersInScope'
  BY <1>4, ScopesKept DEF StopForApproval, Go, Finish, NextPlace, Keeps, Break, Diagnose, Node
<1>5. ASSUME NEW r \in Runs,
             \/ Conclude(r) \/ BreakDiagnosis(r) \/ Verdict(r) \/ Report(r) \/ Close(r)
             \/ LandCompletion(r) \/ Disconnect(r) \/ Abandon(r) \/ LooseRun(r) \/ LooseEnds(r) \/ Timeout(r) \/ Reply(r)
             \/ SettleEvent(r) \/ FailEvent(r) \/ Enqueue(r) \/ Look(r) \/ Reread(r)
      PROVE  AnswersInScope'
  BY <1>5, ScopesKept DEF Conclude, EndLoose, Go, Finish, NextPlace, Keeps, BreakDiagnosis, Verdict, Report,
         Close, LandCompletion, Disconnect, Abandon, LeftAt, LooseRun, LooseEnds, Timeout, Reply, SettleEvent,
         FailEvent, Enqueue, JobStep, Look, Reread, IsPending
<1>6. ASSUME NEW r \in Runs,
             \/ Resume(r) \/ Mark(r) \/ ClearMessages(r) \/ DropPending(r) \/ CancelDiagnosis(r)
             \/ DropScope(r) \/ Forget(r) \/ Release(r)
      PROVE  AnswersInScope'
  BY <1>6, ScopesKept DEF Resume, Go, Mark, IsPending, ClearMessages, DropPending, CancelDiagnosis, DropScope,
         Forget, Release, MayOwn
<1>7. ASSUME NEW r \in Runs, NEW p \in Pods, Arrive(r, p) \/ ClaimJob(p, r) \/ Extract(p, r) \/ EndJob(p, r)
      PROVE  AnswersInScope'
  BY <1>7, ScopesKept DEF Arrive, Go, First, ClaimJob, JobStep, Extract, EndJob
<1>8. ASSUME NEW p \in Pods, Crash(p) \/ (\E old \in {{}, Runs} : Start(p, old)) PROVE AnswersInScope'
  BY <1>8, ScopesKept DEF Crash, OnPod, Start
<1>9. ASSUME ExpireThread PROVE AnswersInScope'
  BY <1>9, ScopesKept DEF ExpireThread
<1> QED
  BY <1>1, <1>2, <1>3, <1>4, <1>5, <1>6, <1>7, <1>8, <1>9
     DEF Next, Question, Decide, Delete, Worker

\* Only Resume adds a decision, and Mark or Break ends it.
LEMMA DecidersStep ==
  ASSUME Deciders, OnCourse, pc \in [Runs -> Places], pending \in [Runs -> {"none", "pending", "completed"}],
         resumed \in [Runs -> SUBSET Runs], at \in [Runs -> Pods \cup {Nobody}], Next
  PROVE  Deciders'
<1> USE DEF Deciders, OnCourse, InRun, Deleting, Diagnosing, Loose, Ended, Active, Kind, RunOf, recordVars,
         turnVars, diagnosisVars, fixed, podVars, ghosts
<1>1. ASSUME NEW r \in Runs,
             \/ ReceiveEvent(r) \/ PrepareScope(r) \/ Claim(r) \/ Record(r) \/ Open(r)
             \/ LandStart(r)
      PROVE  Deciders'
  BY <1>1 DEF ReceiveEvent, Go, PrepareScope, Claim, AfterClaim, MayOwn, Record, Open, LandStart
<1>2. ASSUME NEW r \in Runs, Acquire(r) \/ Enter(r) \/ Run(r) \/ Answer(r) \/ StopForApproval(r) \/ Break(r)
      PROVE  Deciders'
  BY <1>2 DEF Acquire, Go, UnderLock, Enter, Run, Answer, Finish, NextPlace, Keeps, StopForApproval,
         SavePending, Break
<1>3. ASSUME NEW r \in Runs,
             \/ Diagnose(r) \/ Node(r) \/ Conclude(r) \/ BreakDiagnosis(r) \/ Verdict(r)
             \/ Report(r)
      PROVE  Deciders'
  BY <1>3 DEF Diagnose, Go, Finish, NextPlace, Keeps, Node, Conclude, EndLoose, BreakDiagnosis, Verdict, Report
<1>4. ASSUME NEW r \in Runs,
             \/ Close(r) \/ LandCompletion(r) \/ Disconnect(r) \/ Abandon(r) \/ LooseRun(r) \/ LooseEnds(r) \/ Timeout(r)
             \/ Reply(r)
      PROVE  Deciders'
  BY <1>4 DEF Close, Go, LandCompletion, Disconnect, Abandon, LeftAt, LooseRun, LooseEnds, EndLoose, Timeout,
         Reply
<1>5. ASSUME NEW r \in Runs, SettleEvent(r) \/ FailEvent(r) PROVE Deciders'
  BY <1>5 DEF SettleEvent, FailEvent, Go
<1>6. ASSUME NEW r \in Runs, Enqueue(r) PROVE Deciders'
  BY <1>6 DEF Enqueue, JobStep
<1>7. ASSUME NEW r \in Runs, Look(r) PROVE Deciders'
  BY <1>7 DEF Look, Go
<1>8. ASSUME NEW r \in Runs, Reread(r) \/ Resume(r) \/ Mark(r) PROVE Deciders'
  BY <1>8 DEF Reread, Go, IsPending, Resume, Mark, MarkCompleted
<1>9. ASSUME NEW r \in Runs,
             \/ ClearMessages(r) \/ DropPending(r) \/ CancelDiagnosis(r) \/ DropScope(r)
             \/ Forget(r) \/ Release(r)
      PROVE  Deciders'
  BY <1>9 DEF ClearMessages, Go, DropPending, DeletePending, CancelDiagnosis, DropScope, Forget, Release,
         MayOwn
<1>10. ASSUME NEW r \in Runs, NEW p \in Pods, Arrive(r, p) PROVE Deciders'
  BY <1>10 DEF Arrive, Go, First
<1>11. ASSUME NEW r \in Runs, NEW p \in Pods, ClaimJob(p, r) PROVE Deciders'
  BY <1>11 DEF ClaimJob, JobStep
<1>12. ASSUME NEW r \in Runs, NEW p \in Pods, Extract(p, r) PROVE Deciders'
  BY <1>12 DEF Extract, JobStep
<1>13. ASSUME NEW r \in Runs, NEW p \in Pods, EndJob(p, r) PROVE Deciders'
  BY <1>13 DEF EndJob, JobStep
<1>14. ASSUME NEW p \in Pods, Crash(p) \/ (\E old \in {{}, Runs} : Start(p, old)) PROVE Deciders'
  BY <1>14 DEF Crash, OnPod, Start
<1>15. ASSUME ExpireThread PROVE Deciders'
  BY <1>15 DEF ExpireThread
<1> QED
  BY <1>1, <1>2, <1>3, <1>4, <1>5, <1>6, <1>7, <1>8, <1>9, <1>10, <1>11, <1>12, <1>13, <1>14, <1>15
     DEF Next, Question, Decide, Delete, Worker

\* What was decided stays in order as long as nobody comes to the point of resuming.
LEMMA ApprovalsKept ==
  ASSUME Resuming, ApprovedOnce, OnCourse, Deciders, pc \in [Runs -> Places], resumed \in [Runs -> SUBSET Runs],
         UNCHANGED <<ask, resumed>>,
         \A x \in Runs : /\ pc'[x] = "resume" => pc[x] = "resume"
                         /\ pc[x] \in {"failed", "lost"} => pc'[x] = pc[x]
                         /\ pc[x] # "new" => at'[x] = at[x]
  PROVE  Resuming' /\ ApprovedOnce'
<1>1. \A t \in Runs : \A d \in resumed[t] : d \in Runs /\ at'[d] = at[d]
  BY DEF Deciders
<1>2. Resuming'
  <2> SUFFICES ASSUME NEW e \in Runs, pc'[e] = "resume", NEW d \in resumed[ask[e].target], at'[d] = at'[e]
               PROVE  pc'[d] \in {"failed", "lost"}
    BY DEF Resuming
  <2>1. ask[e].target \in Runs /\ d \in Runs /\ pc[e] = "resume"
    BY DEF OnCourse, Request
  <2> QED
    BY <1>1, <2>1 DEF Resuming
<1>3. ApprovedOnce'
  BY <1>1 DEF ApprovedOnce
<1> QED BY <1>2, <1>3

\* Under the lock of its pod a decision that reads the row as pending is the first there, or the others broke off.
LEMMA RereadIsFirst ==
  ASSUME Resuming, OnCourse, Deciders, LockIsHeld, pc \in [Runs -> Places], resumed \in [Runs -> SUBSET Runs],
         NEW r \in Runs, Reread(r)
  PROVE  Resuming'
<1>1. UNCHANGED <<ask, resumed, at>> /\ pc[r] = "reread" /\ \A s \in Runs \ {r} : pc'[s] = pc[s]
  BY DEF Reread, Go, fixed, ghosts
<1> SUFFICES ASSUME NEW e \in Runs, pc'[e] = "resume", NEW d \in resumed[ask[e].target], at'[d] = at'[e]
             PROVE  pc'[d] \in {"failed", "lost"}
  BY <1>1 DEF Resuming
<1>2. ask[e].target \in Runs /\ d \in Runs
  BY DEF OnCourse, Request
<1>3. pc[d] \in {"failed", "lost"}
  <2>1. CASE e # r
    BY <1>1, <1>2, <2>1 DEF Resuming
  <2>2. CASE e = r
    <3>1. pending[ask[r].target] = "pending"
      BY <2>2 DEF Reread, IsPending, Go
    <3> QED
      BY <1>1, <1>2, <2>2, <3>1 DEF Deciders, LockIsHeld, UnderTheLock, InRun
  <2> QED BY <2>1, <2>2
<1> QED
  BY <1>1, <1>2, <1>3

\* And so its calls are the only ones.
LEMMA ResumeIsOnce ==
  ASSUME OnCourse, Resuming, ApprovedOnce, Deciders, pc \in [Runs -> Places], resumed \in [Runs -> SUBSET Runs],
         NEW r \in Runs, Resume(r)
  PROVE  ApprovedOnce'
<1> SUFFICES ASSUME NEW t \in Runs, NEW d \in resumed'[t], NEW e \in resumed'[t], d # e
             PROVE  {pc'[d], pc'[e]} \cap {"failed", "lost"} # {} \/ at'[d] # at'[e]
  BY DEF ApprovedOnce
<1>1. /\ ask' = ask /\ at' = at /\ pc[r] = "resume" /\ \A s \in Runs \ {r} : pc'[s] = pc[s]
      /\ resumed' = [resumed EXCEPT ![ask[r].target] = @ \cup {r}]
  BY DEF Resume, fixed, Go
<1>2. r \notin resumed[t]
  BY <1>1 DEF Deciders
<1>3. d \in Runs /\ e \in Runs /\ ask[r].target \in Runs
  BY <1>1 DEF OnCourse, Request
<1>4. CASE d # r /\ e # r
  BY <1>1, <1>3, <1>4 DEF ApprovedOnce
<1>5. CASE d = r
  BY <1>1, <1>2, <1>3, <1>5 DEF Resuming
<1>6. CASE e = r
  BY <1>1, <1>2, <1>3, <1>6 DEF Resuming
<1> QED BY <1>4, <1>5, <1>6

\* Reread and Resume are the only steps that come nearer to running the calls.
LEMMA ApprovalsStep ==
  ASSUME Resuming, ApprovedOnce, OnCourse, Deciders, LockIsHeld, resumed \in [Runs -> SUBSET Runs],
         pc \in [Runs -> Places], at \in [Runs -> Pods \cup {Nobody}], Next
  PROVE  Resuming' /\ ApprovedOnce'
<1>1. ASSUME NEW r \in Runs, Reread(r) PROVE Resuming' /\ ApprovedOnce'
  <2>1. Resuming'
    BY <1>1, RereadIsFirst
  <2>2. /\ UNCHANGED <<resumed, at>> /\ \A s \in Runs : pc[s] \in {"failed", "lost"} => pc'[s] = pc[s]
    BY <1>1 DEF Reread, Go, ghosts
  <2> QED
    BY <2>1, <2>2 DEF ApprovedOnce
<1>2. ASSUME NEW r \in Runs, Resume(r) PROVE Resuming' /\ ApprovedOnce'
  <2>1. ApprovedOnce'
    BY <1>2, ResumeIsOnce
  <2>2. Resuming'
    BY <1>2 DEF Resuming, Deciders, OnCourse, Request, LockIsHeld, UnderTheLock, Resume, Go, fixed
  <2> QED BY <2>1, <2>2
<1>3. ASSUME NEW r \in Runs, StopForApproval(r) PROVE Resuming' /\ ApprovedOnce'
  <2>1. /\ UNCHANGED <<ask, at>> /\ resumed' = [resumed EXCEPT ![RunOf(r)] = {}]
        /\ \A s \in Runs : /\ pc'[s] = "resume" => pc[s] = "resume"
                           /\ pc[s] \in {"failed", "lost"} => pc'[s] = pc[s]
    BY <1>3, GoesOnTo DEF StopForApproval, Finish, Go, fixed
  <2>2. \A t \in Runs : resumed'[t] \subseteq resumed[t]
    BY <2>1
  <2>3. Resuming'
    BY <2>1, <2>2 DEF Resuming, Deciders, OnCourse, Request
  <2> QED
    BY <2>1, <2>2, <2>3 DEF ApprovedOnce, Deciders
<1> USE DEF OnCourse, InRun, Deleting, Diagnosing, Loose, Ended, Request, Kinds, Active, Kind, RunOf,
         recordVars, turnVars, diagnosisVars, fixed, podVars, ghosts
<1>4. ASSUME NEW r \in Runs,
             \/ ReceiveEvent(r) \/ PrepareScope(r) \/ Claim(r) \/ Record(r) \/ Open(r)
             \/ LandStart(r) \/ Acquire(r)
      PROVE  Resuming' /\ ApprovedOnce'
  BY <1>4, ApprovalsKept DEF ReceiveEvent, Go, PrepareScope, Claim, AfterClaim, MayOwn, Record, Open,
         LandStart, Acquire, UnderLock
<1>5. ASSUME NEW r \in Runs, Enter(r) \/ Run(r) \/ Answer(r) PROVE Resuming' /\ ApprovedOnce'
  BY <1>5, ApprovalsKept DEF Enter, Go, Run, Answer, Finish, NextPlace, Keeps
<1>6. ASSUME NEW r \in Runs, Break(r) PROVE Resuming' /\ ApprovedOnce'
  BY <1>6, ApprovalsKept DEF Break, Go, Finish, NextPlace, Keeps
<1>7. ASSUME NEW r \in Runs, Diagnose(r) \/ Node(r) PROVE Resuming' /\ ApprovedOnce'
  BY <1>7, ApprovalsKept DEF Diagnose, Go, Finish, NextPlace, Keeps, Node
<1>8. ASSUME NEW r \in Runs,
             \/ Conclude(r) \/ BreakDiagnosis(r) \/ Verdict(r) \/ Report(r) \/ Close(r)
             \/ LandCompletion(r) \/ Disconnect(r)
      PROVE  Resuming' /\ ApprovedOnce'
  BY <1>8, ApprovalsKept DEF Conclude, EndLoose, Go, Finish, NextPlace, Keeps, BreakDiagnosis, Verdict, Report,
         Close, LandCompletion, Disconnect
<1>9. ASSUME NEW r \in Runs, Abandon(r) \/ LooseRun(r) \/ LooseEnds(r) \/ Timeout(r) \/ Reply(r) PROVE Resuming' /\ ApprovedOnce'
  BY <1>9, ApprovalsKept DEF Abandon, LeftAt, LooseRun, LooseEnds, EndLoose, Go, Timeout, Reply
<1>10. ASSUME NEW r \in Runs, SettleEvent(r) \/ FailEvent(r) \/ Enqueue(r) PROVE Resuming' /\ ApprovedOnce'
  BY <1>10, ApprovalsKept DEF SettleEvent, FailEvent, Go, Enqueue, JobStep
<1>11. ASSUME NEW r \in Runs, Look(r) PROVE Resuming' /\ ApprovedOnce'
  BY <1>11, ApprovalsKept DEF Look, Go
<1>12. ASSUME NEW r \in Runs, Mark(r) PROVE Resuming' /\ ApprovedOnce'
  BY <1>12, ApprovalsKept DEF Mark, Go, IsPending
<1>13. ASSUME NEW r \in Runs, ClearMessages(r) \/ DropPending(r) PROVE Resuming' /\ ApprovedOnce'
  BY <1>13, ApprovalsKept DEF ClearMessages, Go, DropPending
<1>14. ASSUME NEW r \in Runs, CancelDiagnosis(r) \/ DropScope(r) \/ Forget(r) \/ Release(r)
      PROVE  Resuming' /\ ApprovedOnce'
  BY <1>14, ApprovalsKept DEF CancelDiagnosis, Go, DropScope, Forget, Release, MayOwn
<1>15. ASSUME NEW r \in Runs, NEW p \in Pods, Arrive(r, p) \/ ClaimJob(p, r) \/ Extract(p, r) \/ EndJob(p, r)
      PROVE  Resuming' /\ ApprovedOnce'
  BY <1>15, ApprovalsKept DEF Arrive, Go, First, ClaimJob, JobStep, Extract, EndJob
<1>16. ASSUME NEW p \in Pods, Crash(p) \/ (\E old \in {{}, Runs} : Start(p, old))
      PROVE  Resuming' /\ ApprovedOnce'
  BY <1>16, ApprovalsKept DEF Crash, OnPod, Start
<1>17. ASSUME ExpireThread PROVE Resuming' /\ ApprovedOnce'
  BY <1>17, ApprovalsKept DEF ExpireThread
<1> QED
  BY <1>1, <1>2, <1>3, <1>4, <1>5, <1>6, <1>7, <1>8, <1>9, <1>10, <1>11, <1>12, <1>13, <1>14, <1>15,
     <1>16, <1>17
     DEF Next, Question, Decide, Delete, Worker

-----------------------------------------------------------------------------
(* Turns *)

\* A row is inserted by Record and by a start that lands.
LEMMA RowsStep ==
  ASSUME Rows, OnCourse, Starts, pc \in [Runs -> Places], turn \in [Runs -> {"none", "running"} \cup Terminal],
         completing \in [Runs -> {"none"} \cup Verdicts], at \in [Runs -> Pods \cup {Nobody}], Next
  PROVE  Rows'
<1> USE DEF Rows, OnCourse, Starts, InRun, Deleting, Diagnosing, Loose, Ended, Questions, Active, Kind, RunOf,
         recordVars, turnVars, diagnosisVars, fixed, podVars, ghosts
<1>1. ASSUME NEW r \in Runs,
             \/ ReceiveEvent(r) \/ PrepareScope(r) \/ Claim(r) \/ Record(r) \/ Open(r)
             \/ LandStart(r) \/ Acquire(r) \/ Enter(r) \/ Run(r) \/ Answer(r)
             \/ StopForApproval(r) \/ Break(r) \/ Diagnose(r) \/ Node(r)
      PROVE  Rows'
  BY <1>1 DEF ReceiveEvent, Go, PrepareScope, Claim, AfterClaim, MayOwn, Record, StartTurn, Open, LandStart,
         Acquire, UnderLock, Enter, Run, Answer, Finish, NextPlace, Keeps, StopForApproval, Break, Diagnose,
         Node
<1>2. ASSUME NEW r \in Runs,
             \/ Conclude(r) \/ BreakDiagnosis(r) \/ Verdict(r) \/ Report(r) \/ Close(r)
             \/ LandCompletion(r) \/ Disconnect(r) \/ Abandon(r) \/ LooseRun(r) \/ LooseEnds(r) \/ Timeout(r) \/ Reply(r)
             \/ SettleEvent(r) \/ FailEvent(r) \/ Enqueue(r) \/ Look(r) \/ Reread(r)
      PROVE  Rows'
  BY <1>2 DEF Conclude, EndLoose, Go, Finish, NextPlace, Keeps, BreakDiagnosis, Verdict, CompleteTurn, Report,
         Close, LandCompletion, Disconnect, Abandon, LeftAt, LooseRun, LooseEnds, Timeout, Reply, SettleEvent,
         FailEvent, Enqueue, JobStep, Look, Reread, IsPending
<1>3. ASSUME NEW r \in Runs,
             \/ Resume(r) \/ Mark(r) \/ ClearMessages(r) \/ DropPending(r) \/ CancelDiagnosis(r)
             \/ DropScope(r) \/ Forget(r) \/ Release(r)
      PROVE  Rows'
  BY <1>3 DEF Resume, Go, Mark, IsPending, ClearMessages, DropPending, CancelDiagnosis, DropScope, Forget,
         Release, MayOwn
<1>4. ASSUME NEW r \in Runs, NEW p \in Pods, Arrive(r, p) \/ ClaimJob(p, r) \/ Extract(p, r) \/ EndJob(p, r)
      PROVE  Rows'
  BY <1>4 DEF Arrive, Go, First, ClaimJob, JobStep, Extract, EndJob
<1>5. ASSUME NEW p \in Pods, Crash(p) \/ (\E old \in {{}, Runs} : Start(p, old)) PROVE Rows'
  BY <1>5 DEF Crash, OnPod, Start, RecoverStaleRunning
<1>6. ASSUME ExpireThread PROVE Rows'
  BY <1>6 DEF ExpireThread
<1> QED
  BY <1>1, <1>2, <1>3, <1>4, <1>5, <1>6
     DEF Next, Question, Decide, Delete, Worker

\* Nobody arrives at a place that needs an outcome.
LEMMA ArriveOutcomes ==
  ASSUME OnCourse, Outcomes, pc \in [Runs -> Places], NEW r \in Runs, NEW p \in Pods, Arrive(r, p)
  PROVE  Outcomes'
BY ArrivesAt DEF Outcomes, Arrive, Go

\* A place at which an outcome is used comes after it was decided.
LEMMA OutcomesStep ==
  ASSUME Outcomes, OnCourse, pc \in [Runs -> Places], out \in [Runs -> Verdicts \cup {"none"}],
         at \in [Runs -> Pods \cup {Nobody}], Next
  PROVE  Outcomes'
<1>1. ASSUME NEW r \in Runs, NEW p \in Pods, Arrive(r, p) PROVE Outcomes'
  BY <1>1, ArriveOutcomes
<1> USE DEF Outcomes, OnCourse, InRun, Deleting, Diagnosing, Loose, Ended, Questions, Verdicts, Active, Kind,
         RunOf, recordVars, turnVars, diagnosisVars, fixed, podVars, ghosts
<1>2. ASSUME NEW r \in Runs,
             \/ ReceiveEvent(r) \/ PrepareScope(r) \/ Claim(r) \/ Record(r) \/ Open(r)
             \/ LandStart(r) \/ Acquire(r) \/ Enter(r) \/ Run(r) \/ Answer(r)
             \/ StopForApproval(r) \/ Break(r) \/ Diagnose(r) \/ Node(r)
      PROVE  Outcomes'
  BY <1>2 DEF ReceiveEvent, Go, PrepareScope, Claim, AfterClaim, MayOwn, Record, Open, LandStart, Acquire,
         UnderLock, Enter, EndAs, Run, Answer, Finish, NextPlace, Keeps, StopForApproval, Break, Diagnose, Node
<1>3. ASSUME NEW r \in Runs,
             \/ Conclude(r) \/ BreakDiagnosis(r) \/ Verdict(r) \/ Report(r) \/ Close(r)
             \/ LandCompletion(r) \/ Disconnect(r) \/ Abandon(r) \/ LooseRun(r) \/ LooseEnds(r) \/ Timeout(r) \/ Reply(r)
             \/ SettleEvent(r) \/ FailEvent(r) \/ Enqueue(r) \/ Look(r) \/ Reread(r)
      PROVE  Outcomes'
  BY <1>3 DEF Conclude, EndLoose, Go, Finish, EndAs, NextPlace, Keeps, BreakDiagnosis, Verdict, Report, Close,
         LandCompletion, Disconnect, Abandon, LeftAt, LooseRun, LooseEnds, Timeout, Reply, SettleEvent,
         FailEvent, Enqueue, JobStep, Look, Reread, IsPending
<1>4. ASSUME NEW r \in Runs,
             \/ Resume(r) \/ Mark(r) \/ ClearMessages(r) \/ DropPending(r) \/ CancelDiagnosis(r)
             \/ DropScope(r) \/ Forget(r) \/ Release(r)
      PROVE  Outcomes'
  BY <1>4 DEF Resume, Go, Mark, IsPending, ClearMessages, DropPending, CancelDiagnosis, DropScope, Forget,
         Release, MayOwn
<1>5. ASSUME NEW r \in Runs, NEW p \in Pods, ClaimJob(p, r) PROVE Outcomes'
  BY <1>5 DEF ClaimJob, JobStep
<1>6. ASSUME NEW r \in Runs, NEW p \in Pods, Extract(p, r) \/ EndJob(p, r) PROVE Outcomes'
  BY <1>6 DEF Extract, JobStep, EndJob
<1>7. ASSUME NEW p \in Pods, Crash(p) \/ (\E old \in {{}, Runs} : Start(p, old)) PROVE Outcomes'
  BY <1>7 DEF Crash, OnPod, Start
<1>8. ASSUME ExpireThread PROVE Outcomes'
  BY <1>8 DEF ExpireThread
<1> QED
  BY <1>1, <1>2, <1>3, <1>4, <1>5, <1>6, <1>7, <1>8
     DEF Next, Question, Decide, Delete, Worker

\* A stream's end takes its start along or leaves a verdict behind.
LEMMA StartsStep ==
  ASSUME Starts, OnCourse, Rows, pc \in [Runs -> Places], turn \in [Runs -> {"none", "running"} \cup Terminal],
         completing \in [Runs -> {"none"} \cup Verdicts], starting \subseteq Runs,
         at \in [Runs -> Pods \cup {Nobody}], Next
  PROVE  Starts'
<1> USE DEF Starts, OnCourse, Rows, InRun, Deleting, Diagnosing, Loose, Ended, Active, Kind, RunOf, recordVars,
         turnVars, diagnosisVars, fixed, podVars, ghosts
<1>1. ASSUME NEW r \in Runs,
             \/ ReceiveEvent(r) \/ PrepareScope(r) \/ Claim(r) \/ Record(r) \/ Open(r)
             \/ LandStart(r) \/ Acquire(r) \/ Enter(r) \/ Run(r) \/ Answer(r)
             \/ StopForApproval(r) \/ Break(r) \/ Diagnose(r) \/ Node(r)
      PROVE  Starts'
  BY <1>1 DEF ReceiveEvent, Go, PrepareScope, Claim, AfterClaim, MayOwn, Record, StartTurn, Open, LandStart,
         Acquire, UnderLock, Enter, Run, Answer, Finish, NextPlace, Keeps, StopForApproval, Break, Diagnose,
         Node
<1>2. ASSUME NEW r \in Runs,
             \/ Conclude(r) \/ BreakDiagnosis(r) \/ Verdict(r) \/ Report(r) \/ Close(r)
             \/ LandCompletion(r) \/ Disconnect(r) \/ Abandon(r) \/ LooseRun(r) \/ LooseEnds(r) \/ Timeout(r) \/ Reply(r)
             \/ SettleEvent(r) \/ FailEvent(r) \/ Enqueue(r) \/ Look(r) \/ Reread(r)
      PROVE  Starts'
  BY <1>2 DEF Conclude, EndLoose, Go, Finish, NextPlace, Keeps, BreakDiagnosis, Verdict, CompleteTurn, Report,
         Close, LandCompletion, Disconnect, Abandon, LeftAt, LooseRun, LooseEnds, Timeout, Reply, SettleEvent,
         FailEvent, Enqueue, JobStep, Look, Reread, IsPending
<1>3. ASSUME NEW r \in Runs,
             \/ Resume(r) \/ Mark(r) \/ ClearMessages(r) \/ DropPending(r) \/ CancelDiagnosis(r)
             \/ DropScope(r) \/ Forget(r) \/ Release(r)
      PROVE  Starts'
  BY <1>3 DEF Resume, Go, Mark, IsPending, ClearMessages, DropPending, CancelDiagnosis, DropScope, Forget,
         Release, MayOwn
<1>4. ASSUME NEW r \in Runs, NEW p \in Pods, Arrive(r, p) \/ ClaimJob(p, r) \/ Extract(p, r) \/ EndJob(p, r)
      PROVE  Starts'
  BY <1>4 DEF Arrive, Go, First, ClaimJob, JobStep, Extract, EndJob
<1>5. ASSUME NEW p \in Pods, Crash(p) \/ (\E old \in {{}, Runs} : Start(p, old)) PROVE Starts'
  BY <1>5 DEF Crash, OnPod, Start, RecoverStaleRunning
<1>6. ASSUME ExpireThread PROVE Starts'
  BY <1>6 DEF ExpireThread
<1> QED
  BY <1>1, <1>2, <1>3, <1>4, <1>5, <1>6
     DEF Next, Question, Decide, Delete, Worker

\* A question that has its outcome goes on to its verdict.
LEMMA OutcomeTurns ==
  ASSUME Rows, RunningTurns, pc \in [Runs -> Places], NEW r \in Runs, Answer(r) \/ StopForApproval(r) \/ Break(r)
  PROVE  RunningTurns'
<1>1. turn' = turn /\ completing' = completing /\ unsettled' = unsettled
  BY DEF Answer, StopForApproval, Break, turnVars, ghosts
<1>2. \E v : pc' = [pc EXCEPT ![r] = NextPlace(r, v)]
  BY DEF Answer, StopForApproval, Break, Finish, Go
<1> SUFFICES ASSUME NEW s \in Runs, turn[s] = "running", s \notin unsettled, completing[s] = "none"
             PROVE  Verdictless(s)'
  BY <1>1 DEF RunningTurns
<1>3. Verdictless(s) /\ Kind(s) \in Questions
  BY DEF RunningTurns, Rows
<1>4. CASE s = r
  BY <1>2, <1>3, <1>4, GoesOnTo DEF Verdictless
<1>5. CASE s # r
  BY <1>2, <1>3, <1>5 DEF Verdictless
<1> QED BY <1>4, <1>5

\* A question that gets the lock goes on to its run.
LEMMA AcquireTurns ==
  ASSUME Rows, RunningTurns, pc \in [Runs -> Places], NEW r \in Runs, Acquire(r)
  PROVE  RunningTurns'
<1>1. turn' = turn /\ completing' = completing /\ unsettled' = unsettled
  BY DEF Acquire, turnVars
<1>2. pc[r] = "lock" /\ pc' = [pc EXCEPT ![r] = UnderLock(r)] /\ (Kind(r) \in Questions => UnderLock(r) = "enter")
  BY DEF Acquire, Go, UnderLock, Questions
<1> SUFFICES ASSUME NEW s \in Runs, turn[s] = "running", s \notin unsettled, completing[s] = "none"
             PROVE  Verdictless(s)'
  BY <1>1 DEF RunningTurns
<1>3. Verdictless(s) /\ Kind(s) \in Questions
  BY DEF RunningTurns, Rows
<1>4. CASE s = r
  BY <1>2, <1>3, <1>4 DEF Verdictless, InRun
<1>5. CASE s # r
  BY <1>2, <1>3, <1>5 DEF Verdictless
<1> QED BY <1>4, <1>5

\* The other steps keep the verdict to come, write it, or note that nobody will.
LEMMA RunningTurnsStep ==
  ASSUME RunningTurns, OnCourse, Starts, Outcomes, Rows, pc \in [Runs -> Places],
         turn \in [Runs -> {"none", "running"} \cup Terminal], completing \in [Runs -> {"none"} \cup Verdicts],
         out \in [Runs -> Verdicts \cup {"none"}], at \in [Runs -> Pods \cup {Nobody}], Next
  PROVE  RunningTurns'
<1>1. ASSUME NEW r \in Runs, Acquire(r) PROVE RunningTurns'
  BY <1>1, AcquireTurns
<1>2. ASSUME NEW r \in Runs, Answer(r) \/ StopForApproval(r) \/ Break(r) PROVE RunningTurns'
  BY <1>2, OutcomeTurns
<1> USE DEF RunningTurns, OnCourse, Starts, Outcomes, InRun, Deleting, Diagnosing, Loose, Ended, Verdictless,
         Questions, Verdicts, Terminal, Active, Kind, RunOf, recordVars, turnVars, diagnosisVars, fixed,
         podVars, ghosts
<1>3. ASSUME NEW r \in Runs, ReceiveEvent(r) \/ PrepareScope(r) \/ Claim(r) PROVE RunningTurns'
  BY <1>3 DEF ReceiveEvent, Go, PrepareScope, Claim, AfterClaim, MayOwn
<1>4. ASSUME NEW r \in Runs, Record(r) \/ Open(r) PROVE RunningTurns'
  BY <1>4 DEF Record, Go, StartTurn, Open
<1>5. ASSUME NEW r \in Runs, LandStart(r) PROVE RunningTurns'
  BY <1>5 DEF LandStart, StartTurn
<1>6. ASSUME NEW r \in Runs, Enter(r) PROVE RunningTurns'
  BY <1>6 DEF Enter, Go, EndAs
<1>7. ASSUME NEW r \in Runs, Run(r) PROVE RunningTurns'
  BY <1>7 DEF Run, Go
<1>8. ASSUME NEW r \in Runs, Diagnose(r) \/ Node(r) PROVE RunningTurns'
  BY <1>8 DEF Diagnose, Go, Finish, EndAs, NextPlace, Keeps, Node
<1>9. ASSUME NEW r \in Runs,
             \/ Conclude(r) \/ BreakDiagnosis(r) \/ Verdict(r) \/ Report(r) \/ Close(r)
             \/ LandCompletion(r) \/ Disconnect(r) \/ Abandon(r) \/ LooseRun(r) \/ LooseEnds(r) \/ Timeout(r) \/ Reply(r)
             \/ SettleEvent(r) \/ FailEvent(r) \/ Enqueue(r) \/ Look(r) \/ Reread(r)
      PROVE  RunningTurns'
  BY <1>9 DEF Conclude, EndLoose, Go, Finish, EndAs, NextPlace, Keeps, BreakDiagnosis, Verdict, CompleteTurn,
         Report, Close, LandCompletion, Disconnect, Abandon, LeftAt, LooseRun, LooseEnds, Timeout, Reply,
         SettleEvent, FailEvent, Enqueue, JobStep, Look, Reread, IsPending
<1>10. ASSUME NEW r \in Runs,
             \/ Resume(r) \/ Mark(r) \/ ClearMessages(r) \/ DropPending(r) \/ CancelDiagnosis(r)
             \/ DropScope(r) \/ Forget(r) \/ Release(r)
      PROVE  RunningTurns'
  BY <1>10 DEF Resume, Go, Mark, IsPending, ClearMessages, DropPending, CancelDiagnosis, DropScope, Forget,
         Release, MayOwn
<1>11. ASSUME NEW r \in Runs, NEW p \in Pods, Arrive(r, p) \/ ClaimJob(p, r) \/ Extract(p, r) \/ EndJob(p, r)
      PROVE  RunningTurns'
  BY <1>11 DEF Arrive, Go, First, ClaimJob, JobStep, Extract, EndJob
<1>12. ASSUME NEW p \in Pods, Crash(p) \/ (\E old \in {{}, Runs} : Start(p, old)) PROVE RunningTurns'
  BY <1>12 DEF Crash, OnPod, Start, RecoverStaleRunning
<1>13. ASSUME ExpireThread PROVE RunningTurns'
  BY <1>13 DEF ExpireThread
<1> QED
  BY <1>1, <1>2, <1>3, <1>4, <1>5, <1>6, <1>7, <1>8, <1>9, <1>10, <1>11, <1>12, <1>13
     DEF Next, Question, Decide, Delete, Worker

-----------------------------------------------------------------------------
(* Feishu events *)

\* An answer is sent once, at Reply; a failure afterwards is recorded as one.
LEMMA SentStep ==
  ASSUME Sent, OnCourse, Outcomes, pc \in [Runs -> Places], out \in [Runs -> Verdicts \cup {"none"}],
         answered \in [Events -> SUBSET Runs], Next
  PROVE  Sent'
<1> USE DEF Sent, OnCourse, Outcomes, InRun, Deleting, Diagnosing, Loose, Ended, Active, Kind, RunOf,
         recordVars, turnVars, diagnosisVars, fixed, podVars, ghosts
<1>1. ASSUME NEW r \in Runs,
             \/ ReceiveEvent(r) \/ PrepareScope(r) \/ Claim(r) \/ Record(r) \/ Open(r)
             \/ LandStart(r) \/ Acquire(r) \/ Enter(r) \/ Run(r) \/ Answer(r)
             \/ StopForApproval(r) \/ Break(r) \/ Diagnose(r) \/ Node(r)
      PROVE  Sent'
  BY <1>1 DEF ReceiveEvent, Go, PrepareScope, Claim, AfterClaim, MayOwn, Record, Open, LandStart, Acquire,
         UnderLock, Enter, EndAs, Run, Answer, Finish, NextPlace, Keeps, StopForApproval, Break, Diagnose, Node
<1>2. ASSUME NEW r \in Runs,
             \/ Conclude(r) \/ BreakDiagnosis(r) \/ Verdict(r) \/ Report(r) \/ Close(r)
             \/ LandCompletion(r) \/ Disconnect(r) \/ Abandon(r) \/ LooseRun(r) \/ LooseEnds(r) \/ Timeout(r) \/ Reply(r)
             \/ SettleEvent(r) \/ FailEvent(r) \/ Enqueue(r) \/ Look(r) \/ Reread(r)
      PROVE  Sent'
  BY <1>2 DEF Conclude, EndLoose, Go, Finish, EndAs, NextPlace, Keeps, BreakDiagnosis, Verdict, Report, Close,
         LandCompletion, Disconnect, Abandon, LeftAt, LooseRun, LooseEnds, Timeout, Reply, SettleEvent,
         FailEvent, Enqueue, JobStep, Look, Reread, IsPending
<1>3. ASSUME NEW r \in Runs,
             \/ Resume(r) \/ Mark(r) \/ ClearMessages(r) \/ DropPending(r) \/ CancelDiagnosis(r)
             \/ DropScope(r) \/ Forget(r) \/ Release(r)
      PROVE  Sent'
  BY <1>3 DEF Resume, Go, Mark, IsPending, ClearMessages, DropPending, CancelDiagnosis, DropScope, Forget,
         Release, MayOwn
<1>4. ASSUME NEW r \in Runs, NEW p \in Pods, Arrive(r, p) \/ ClaimJob(p, r) \/ Extract(p, r) \/ EndJob(p, r)
      PROVE  Sent'
  BY <1>4 DEF Arrive, Go, First, ClaimJob, JobStep, Extract, EndJob
<1>5. ASSUME NEW p \in Pods, Crash(p) \/ (\E old \in {{}, Runs} : Start(p, old)) PROVE Sent'
  BY <1>5 DEF Crash, OnPod, Start
<1>6. ASSUME ExpireThread PROVE Sent'
  BY <1>6 DEF ExpireThread
<1> QED
  BY <1>1, <1>2, <1>3, <1>4, <1>5, <1>6
     DEF Next, Question, Decide, Delete, Worker

\* Deliveries are requests, so there are finitely many.
LEMMA DeliveriesAreFew ==
  ASSUME Histories, NEW e \in Events
  PROVE  /\ IsFiniteSet(Deliveries(e)) /\ IsFiniteSet(answered[e])
         /\ Cardinality(answered[e]) <= Cardinality(Deliveries(e))
         /\ Cardinality(answered[e]) \in Nat /\ Cardinality(Deliveries(e)) \in Nat
<1>1. answered[e] \subseteq Deliveries(e) /\ Deliveries(e) \subseteq Runs
  BY DEF Histories, Deliveries, Processing
<1> QED
  BY <1>1, RunsAssumption, FS_Subset, FS_CardinalityType

\* A step that adds no delivery and leaves the attempts alone keeps their count right.
LEMMA AttemptsKept ==
  ASSUME AttemptsCount, Histories, EventTypeOK, Histories',
         \A e \in Events : /\ Deliveries(e)' \subseteq Deliveries(e)
                           /\ event'[e].attempt = event[e].attempt
                           /\ event'[e].status = "none" => event[e].status = "none"
  PROVE  AttemptsCount'
<1> SUFFICES ASSUME NEW e \in Events
             PROVE  /\ event'[e].status = "none" => event'[e].attempt = 0
                    /\ Cardinality(Deliveries(e)') <= event'[e].attempt
  BY DEF AttemptsCount
<1>1. Deliveries(e)' \subseteq Deliveries(e) /\ Deliveries(e) \subseteq Runs
  BY DEF Deliveries, Processing, Histories
<1>2. /\ Cardinality(Deliveries(e)') <= Cardinality(Deliveries(e))
      /\ Cardinality(Deliveries(e)') \in Nat /\ Cardinality(Deliveries(e)) \in Nat
  <2>1. IsFiniteSet(Deliveries(e)) /\ IsFiniteSet(Deliveries(e)')
    BY <1>1, RunsAssumption, FS_Subset
  <2> QED
    BY <1>1, <2>1, FS_Subset, FS_CardinalityType
<1>3. event[e].attempt \in Nat
  BY BoundsAssumption DEF EventTypeOK
<1> QED
  BY <1>2, <1>3 DEF AttemptsCount

\* What keeps both parts: no delivery begins, no answer is sent and no event changes.
LEMMA DeliveriesKept ==
  ASSUME AttemptsCount, OneDelivery, Histories, EventTypeOK, Histories',
         UNCHANGED <<starts, answered, event>>,
         \A e \in Events : Processing(e)' \subseteq Processing(e) /\ \A x \in answered[e] : out'[x] = out[x]
  PROVE  AttemptsCount' /\ OneDelivery'
<1>1. \A e \in Events : Deliveries(e)' \subseteq Deliveries(e)
  BY DEF Deliveries
<1>2. AttemptsCount'
  BY <1>1, AttemptsKept
<1>3. OneDelivery'
  BY DEF OneDelivery
<1> QED BY <1>2, <1>3

\* A claim that succeeds makes one delivery of an event that nobody processes, and counts it.
LEMMA ReceiveCounts ==
  ASSUME AttemptsCount, OneDelivery, OnCourse, Histories, EventTypeOK, Histories', pc \in [Runs -> Places],
         NEW r \in Runs, ReceiveEvent(r)
  PROVE  AttemptsCount' /\ OneDelivery'
<1> DEFINE e == ask[r].event
<1>1. /\ UNCHANGED <<ask, starts, answered, out>> /\ pc[r] = "event" /\ Kind(r) = "feishu" /\ e \in Events
      /\ \A s \in Runs \ {r} : pc'[s] = pc[s]
  BY DEF ReceiveEvent, Go, ghosts, podVars, fixed, OnCourse, Request
<1>2. \A f \in Events : Processing(f)' \subseteq Processing(f) \cup {r} /\ (f # e => Processing(f)' \subseteq Processing(f))
  BY <1>1 DEF Processing, Active, Ended, Kind
<1>3. CASE event' = event /\ pc'[r] = "refused"
  <2>1. \A f \in Events : Processing(f)' \subseteq Processing(f)
    BY <1>1, <1>2, <1>3 DEF Processing, Active, Ended
  <2> QED BY <1>1, <1>3, <2>1, DeliveriesKept
<1>4. CASE Claimable(e) /\ ClaimEvent(e)
  <2>1. /\ event'[e].status = "processing" /\ event'[e].attempt = event[e].attempt + 1
        /\ \A f \in Events \ {e} : event'[f] = event[f]
    BY <1>1, <1>4 DEF ClaimEvent, EventTypeOK
  <2>2. OneDelivery'
    <3> SUFFICES ASSUME starts = 0 PROVE OneDelivery'
      BY <1>1 DEF OneDelivery
    <3>1. Processing(e) = {} /\ \A a \in answered[e] : out[a] = "error"
      BY <1>1, <1>4 DEF OneDelivery, Claimable
    <3>2. Processing(e)' \subseteq {r}
      BY <1>1, <1>2, <3>1
    <3> QED
      BY <1>1, <1>2, <2>1, <3>1, <3>2 DEF OneDelivery
  <2>3. AttemptsCount'
    <3> SUFFICES ASSUME NEW f \in Events
                 PROVE  /\ event'[f].status = "none" => event'[f].attempt = 0
                        /\ Cardinality(Deliveries(f)') <= event'[f].attempt
      BY DEF AttemptsCount
    <3>1. event[f].attempt \in Nat /\ Cardinality(Deliveries(f)) <= event[f].attempt
      BY BoundsAssumption DEF EventTypeOK, AttemptsCount
    <3>2. /\ Deliveries(f)' \subseteq Deliveries(f) \cup {r} /\ (f # e => Deliveries(f)' \subseteq Deliveries(f))
          /\ Deliveries(f) \subseteq Runs
      BY <1>1, <1>2 DEF Deliveries, Processing, Histories
    <3>3. IsFiniteSet(Deliveries(f)) /\ IsFiniteSet(Deliveries(f) \cup {r}) /\ IsFiniteSet(Deliveries(f)')
      BY <3>2, RunsAssumption, FS_Subset
    <3>4. /\ Cardinality(Deliveries(f) \cup {r}) \in {Cardinality(Deliveries(f)), Cardinality(Deliveries(f)) + 1}
          /\ Cardinality(Deliveries(f)) \in Nat /\ Cardinality(Deliveries(f)') \in Nat
      BY <3>3, FS_AddElement, FS_CardinalityType
    <3>5. CASE f = e
      <4>1. Cardinality(Deliveries(f)') <= Cardinality(Deliveries(f) \cup {r})
        BY <3>2, <3>3, FS_Subset
      <4> QED BY <2>1, <3>1, <3>4, <3>5, <4>1
    <3>6. CASE f # e
      <4>1. Cardinality(Deliveries(f)') <= Cardinality(Deliveries(f))
        BY <3>2, <3>3, <3>6, FS_Subset
      <4> QED BY <2>1, <3>1, <3>4, <3>6, <4>1 DEF AttemptsCount
    <3> QED BY <3>5, <3>6
  <2> QED BY <2>2, <2>3
<1> QED BY <1>3, <1>4 DEF ReceiveEvent, Go

\* Only the one delivery that has the event settles it, and an answer that stands as completed.
LEMMA SettleIsTheirs ==
  ASSUME OneDelivery, OnCourse, Sent, EventTypeOK, pc \in [Runs -> Places], out \in [Runs -> Verdicts \cup {"none"}],
         NEW r \in Runs, SettleEvent(r) \/ FailEvent(r)
  PROVE  OneDelivery'
<1> DEFINE e == ask[r].event
<1>1. /\ UNCHANGED <<ask, starts, answered>> /\ pc[r] \in {"settle", "fail"} /\ Kind(r) = "feishu"
      /\ e \in Events /\ \A s \in Runs \ {r} : pc'[s] = pc[s]
  BY DEF SettleEvent, FailEvent, Go, ghosts, podVars, fixed, OnCourse, Request
<1>2. r \in Processing(e)
  BY <1>1 DEF Processing, Active, Ended
<1> SUFFICES ASSUME starts = 0 PROVE OneDelivery'
  BY <1>1 DEF OneDelivery
<1>3. CASE pc[r] = "settle" /\ pc'[r] = "verdict"
  <2>1. event' = event /\ out' = [out EXCEPT ![r] = "error"]
    BY <1>3 DEF SettleEvent, FailEvent, Go, EndAs
  <2>2. \A f \in Events : Processing(f)' = Processing(f)
    BY <1>1, <1>3 DEF Processing, Active, Kind, Ended
  <2> QED BY <1>1, <2>1, <2>2 DEF OneDelivery, Sent
<1>4. CASE pc'[r] # "verdict"
  <2>1. pc'[r] \in Ended /\ out' = out
    BY <1>4 DEF SettleEvent, FailEvent, Go, Ended
  <2>2. \A f \in Events : Processing(f)' \subseteq Processing(f) \ {r}
    BY <1>1, <2>1 DEF Processing, Active, Kind
  <2>3. \A f \in Events \ {e} : event'[f] = event[f]
    BY DEF SettleEvent, FailEvent, SetStatus, EventTypeOK
  <2>4. event[e].status = "processing" /\ Processing(e) = {r} /\ Processing(e)' = {}
    BY <1>1, <1>2, <2>2 DEF OneDelivery
  <2>5. \A a \in answered[e] : out[a] # "error" => event'[e].status = "completed"
    <3>1. CASE pc[r] = "settle"
      BY <1>1, <1>4, <2>4, <3>1 DEF SettleEvent, FailEvent, SetStatus, Go, EventTypeOK
    <3>2. CASE pc[r] = "fail"
      BY <1>1, <1>2, <3>2 DEF OneDelivery, Sent
    <3> QED BY <1>1, <3>1, <3>2
  <2> QED
    BY <1>1, <2>1, <2>2, <2>3, <2>4, <2>5 DEF OneDelivery
<1>5. pc'[r] = "verdict" => pc[r] = "settle"
  BY DEF SettleEvent, FailEvent, Go
<1> QED BY <1>3, <1>4, <1>5

\* Only the delivery that has the event sends an answer to it.
LEMMA ReplyIsTheirs ==
  ASSUME OneDelivery, OnCourse, Sent, pc \in [Runs -> Places], out \in [Runs -> Verdicts \cup {"none"}],
         answered \in [Events -> SUBSET Runs], NEW r \in Runs, Reply(r)
  PROVE  OneDelivery'
<1> DEFINE e == ask[r].event
<1>1. /\ UNCHANGED <<ask, starts, event>> /\ pc[r] = "reply" /\ Kind(r) = "feishu" /\ e \in Events
      /\ pc'[r] \in {"settle", "verdict"} /\ \A s \in Runs \ {r} : pc'[s] = pc[s] /\ out'[s] = out[s]
  BY DEF Reply, Go, EndAs, podVars, fixed, OnCourse, Request
<1>2. \A f \in Events : Processing(f)' = Processing(f)
  BY <1>1 DEF Processing, Active, Kind, Ended
<1>3. r \in Processing(e)
  BY <1>1 DEF Processing, Active, Ended
<1>4. \A f \in Events \ {e} : answered'[f] = answered[f] /\ r \notin answered[f]
  BY DEF Reply, Sent
<1>5. answered'[e] \subseteq answered[e] \cup {r}
  BY <1>1 DEF Reply
<1> SUFFICES ASSUME starts = 0 PROVE OneDelivery'
  BY <1>1 DEF OneDelivery
<1>6. event[e].status = "processing" /\ Processing(e) = {r} /\ \A a \in answered[e] \ {r} : out[a] = "error"
  BY <1>1, <1>3 DEF OneDelivery
<1> QED
  BY <1>1, <1>2, <1>4, <1>5, <1>6 DEF OneDelivery

\* A delivery begins at ReceiveEvent and is over at SettleEvent; after a start of a pod nothing is promised.
LEMMA DeliveriesStep ==
  ASSUME AttemptsCount, OneDelivery, OnCourse, Sent, Histories, Histories', EventTypeOK,
         starts \in 0..MaxStarts, pc \in [Runs -> Places], at \in [Runs -> Pods \cup {Nobody}],
         out \in [Runs -> Verdicts \cup {"none"}], answered \in [Events -> SUBSET Runs], Next
  PROVE  AttemptsCount' /\ OneDelivery'
<1>1. ASSUME NEW r \in Runs, ReceiveEvent(r) PROVE AttemptsCount' /\ OneDelivery'
  BY <1>1, ReceiveCounts
<1>2. ASSUME NEW r \in Runs, Reply(r) PROVE AttemptsCount' /\ OneDelivery'
  <2>1. \A e \in Events : Deliveries(e)' \subseteq Deliveries(e) /\ event' = event
    BY <1>2 DEF Reply, Go, EndAs, Deliveries, Processing, Active, Ended, Kind, fixed, OnCourse
  <2>2. AttemptsCount'
    BY <2>1, AttemptsKept
  <2>3. OneDelivery'
    BY <1>2, ReplyIsTheirs
  <2> QED BY <2>2, <2>3
<1>3. ASSUME NEW r \in Runs, SettleEvent(r) \/ FailEvent(r) PROVE AttemptsCount' /\ OneDelivery'
  <2>1. \A e \in Events : /\ Deliveries(e)' \subseteq Deliveries(e) /\ event'[e].attempt = event[e].attempt
                          /\ event'[e].status = "none" => event[e].status = "none"
    BY <1>3 DEF SettleEvent, FailEvent, SetStatus, Go, Deliveries, Processing, Active, Ended, Kind, fixed,
         ghosts, EventTypeOK
  <2>2. AttemptsCount'
    BY <2>1, AttemptsKept
  <2>3. OneDelivery'
    BY <1>3, SettleIsTheirs
  <2> QED BY <2>2, <2>3
<1>4. ASSUME NEW p \in Pods, NEW old \in {{}, Runs}, Start(p, old) PROVE AttemptsCount' /\ OneDelivery'
  <2>1. \A e \in Events : /\ Deliveries(e)' \subseteq Deliveries(e) /\ event'[e].attempt = event[e].attempt
                          /\ event'[e].status = "none" => event[e].status = "none"
    BY <1>4 DEF Start, FailAll, Deliveries, Processing, Active, Kind, fixed, ghosts, EventTypeOK
  <2>2. AttemptsCount'
    BY <2>1, AttemptsKept
  <2>3. OneDelivery'
    BY <1>4, BoundsAssumption DEF Start, OneDelivery
  <2> QED BY <2>2, <2>3
<1> USE DEF OnCourse, Sent, InRun, Deleting, Diagnosing, Loose, Ended, Processing, Request, Kinds, Active,
         Kind, RunOf, recordVars, turnVars, diagnosisVars, fixed, podVars, ghosts
<1>5. ASSUME NEW r \in Runs, PrepareScope(r) \/ Claim(r) PROVE AttemptsCount' /\ OneDelivery'
  BY <1>5, DeliveriesKept DEF PrepareScope, Go, Claim, AfterClaim, MayOwn
<1>6. ASSUME NEW r \in Runs, Record(r) \/ Open(r) \/ LandStart(r) \/ Acquire(r)
      PROVE  AttemptsCount' /\ OneDelivery'
  BY <1>6, DeliveriesKept DEF Record, Go, Open, LandStart, Acquire, UnderLock
<1>7. ASSUME NEW r \in Runs,
             \/ Enter(r) \/ Run(r) \/ Answer(r) \/ StopForApproval(r) \/ Break(r) \/ Diagnose(r)
             \/ Node(r)
      PROVE  AttemptsCount' /\ OneDelivery'
  BY <1>7, DeliveriesKept DEF Enter, Go, EndAs, Run, Answer, Finish, NextPlace, Keeps, StopForApproval, Break,
         Diagnose, Node
<1>8. ASSUME NEW r \in Runs,
             \/ Conclude(r) \/ BreakDiagnosis(r) \/ Verdict(r) \/ Report(r) \/ Close(r)
             \/ LandCompletion(r) \/ Disconnect(r)
      PROVE  AttemptsCount' /\ OneDelivery'
  BY <1>8, DeliveriesKept DEF Conclude, EndLoose, Go, Finish, EndAs, NextPlace, Keeps, BreakDiagnosis, Verdict,
         Report, Close, LandCompletion, Disconnect
<1>9. ASSUME NEW r \in Runs, Abandon(r) \/ LooseRun(r) \/ LooseEnds(r) PROVE AttemptsCount' /\ OneDelivery'
  BY <1>9, DeliveriesKept DEF Abandon, LeftAt, LooseRun, LooseEnds, EndLoose, Go, EndAs
<1>10. ASSUME NEW r \in Runs, Timeout(r) PROVE AttemptsCount' /\ OneDelivery'
  BY <1>10, DeliveriesKept DEF Timeout, Go, EndAs
<1>11. ASSUME NEW r \in Runs, Enqueue(r) PROVE AttemptsCount' /\ OneDelivery'
  BY <1>11, DeliveriesKept DEF Enqueue, JobStep
<1>12. ASSUME NEW r \in Runs, Look(r) \/ Reread(r) PROVE AttemptsCount' /\ OneDelivery'
  BY <1>12, DeliveriesKept DEF Look, Go, Reread, IsPending
<1>13. ASSUME NEW r \in Runs,
             \/ Resume(r) \/ Mark(r) \/ ClearMessages(r) \/ DropPending(r) \/ CancelDiagnosis(r)
             \/ DropScope(r) \/ Forget(r) \/ Release(r)
      PROVE  AttemptsCount' /\ OneDelivery'
  BY <1>13, DeliveriesKept DEF Resume, Go, Mark, IsPending, ClearMessages, DropPending, CancelDiagnosis,
         DropScope, Forget, Release, MayOwn
<1>14. ASSUME NEW r \in Runs, NEW p \in Pods, Arrive(r, p) \/ ClaimJob(p, r) \/ Extract(p, r) \/ EndJob(p, r)
      PROVE  AttemptsCount' /\ OneDelivery'
  BY <1>14, DeliveriesKept DEF Arrive, Go, First, ClaimJob, JobStep, Extract, EndJob
<1>15. ASSUME NEW p \in Pods, Crash(p) PROVE AttemptsCount' /\ OneDelivery'
  BY <1>15, DeliveriesKept DEF Crash, OnPod
<1>16. ASSUME ExpireThread PROVE AttemptsCount' /\ OneDelivery'
  BY <1>16, DeliveriesKept DEF ExpireThread
<1> QED
  BY <1>1, <1>2, <1>3, <1>4, <1>5, <1>6, <1>7, <1>8, <1>9, <1>10, <1>11, <1>12, <1>13, <1>14, <1>15,
     <1>16
     DEF Next, Question, Decide, Delete, Worker

\* A delivery that ends settles its event, or the pod was lost or the sender refused.
LEMMA ProcessedStep ==
  ASSUME Processed, OnCourse, pc \in [Runs -> Places],
         event \in [Events -> [status : EventStatuses, attempt : 0..MaxAttempts]], Next
  PROVE  Processed'
<1> USE DEF Processed, OnCourse, InRun, Deleting, Diagnosing, Loose, Ended, Processing, Claimable, Active,
         Kind, RunOf, recordVars, turnVars, diagnosisVars, fixed, podVars, ghosts
<1>1. ASSUME NEW r \in Runs,
             \/ ReceiveEvent(r) \/ PrepareScope(r) \/ Claim(r) \/ Record(r) \/ Open(r)
             \/ LandStart(r) \/ Acquire(r) \/ Enter(r) \/ Run(r) \/ Answer(r)
             \/ StopForApproval(r) \/ Break(r) \/ Diagnose(r) \/ Node(r)
      PROVE  Processed'
  BY <1>1 DEF ReceiveEvent, Go, ClaimEvent, PrepareScope, Claim, AfterClaim, MayOwn, Record, Open, LandStart,
         Acquire, UnderLock, Enter, Run, Answer, Finish, NextPlace, Keeps, StopForApproval, Break, Diagnose,
         Node
<1>2. ASSUME NEW r \in Runs,
             \/ Conclude(r) \/ BreakDiagnosis(r) \/ Verdict(r) \/ Report(r) \/ Close(r)
             \/ LandCompletion(r) \/ Disconnect(r) \/ Abandon(r) \/ LooseRun(r) \/ LooseEnds(r) \/ Timeout(r) \/ Reply(r)
             \/ SettleEvent(r) \/ FailEvent(r) \/ Enqueue(r) \/ Look(r) \/ Reread(r)
      PROVE  Processed'
  BY <1>2 DEF Conclude, EndLoose, Go, Finish, NextPlace, Keeps, BreakDiagnosis, Verdict, Report, Close,
         LandCompletion, Disconnect, Abandon, LeftAt, LooseRun, LooseEnds, Timeout, Reply, SettleEvent,
         FailEvent, SetStatus, Enqueue, JobStep, Look, Reread, IsPending
<1>3. ASSUME NEW r \in Runs,
             \/ Resume(r) \/ Mark(r) \/ ClearMessages(r) \/ DropPending(r) \/ CancelDiagnosis(r)
             \/ DropScope(r) \/ Forget(r) \/ Release(r)
      PROVE  Processed'
  BY <1>3 DEF Resume, Go, Mark, IsPending, ClearMessages, DropPending, CancelDiagnosis, DropScope, Forget,
         Release, MayOwn
<1>4. ASSUME NEW r \in Runs, NEW p \in Pods, Arrive(r, p) \/ ClaimJob(p, r) \/ Extract(p, r) \/ EndJob(p, r)
      PROVE  Processed'
  BY <1>4 DEF Arrive, Go, First, ClaimJob, JobStep, Extract, EndJob
<1>5. ASSUME NEW p \in Pods, Crash(p) \/ (\E old \in {{}, Runs} : Start(p, old)) PROVE Processed'
  BY <1>5 DEF Crash, OnPod, Start, FailAll
<1>6. ASSUME ExpireThread PROVE Processed'
  BY <1>6 DEF ExpireThread
<1> QED
  BY <1>1, <1>2, <1>3, <1>4, <1>5, <1>6
     DEF Next, Question, Decide, Delete, Worker

-----------------------------------------------------------------------------
(* Diagnoses *)

\* Every other step leaves the checkpoint or takes it away.
LEMMA CitationsStep ==
  ASSUME Citations, DiagnosisTypeOK, pc \in [Runs -> Places], thread \in Threads, Next
  PROVE  Citations'
<1>1. ASSUME NEW r \in Runs, Diagnose(r) \/ Node(r) PROVE Citations'
  BY <1>1, DiagnoseCites, NodeCites
<1>2. ASSUME thread' \in {thread, NoThread}, \A s \in Runs : graph'[s] \in {graph[s], NoThread} PROVE Citations'
  <2>1. OfItsRun(NoThread)
    BY DEF OfItsRun, NoThread
  <2> QED BY <1>2, <2>1 DEF Citations
<1>3. ASSUME NEW r \in Runs,
             \/ ReceiveEvent(r) \/ PrepareScope(r) \/ Claim(r) \/ Record(r) \/ Open(r)
             \/ LandStart(r) \/ Acquire(r) \/ Enter(r) \/ Run(r) \/ Answer(r)
             \/ StopForApproval(r) \/ Break(r)
      PROVE  Citations'
  BY <1>2, <1>3 DEF diagnosisVars, ReceiveEvent, PrepareScope, Claim, Record, Open, LandStart, Acquire, Enter,
         Run, Answer, StopForApproval, Break
<1>4. ASSUME NEW r \in Runs,
             \/ Conclude(r) \/ BreakDiagnosis(r) \/ Verdict(r) \/ Report(r) \/ Close(r)
             \/ LandCompletion(r) \/ Disconnect(r) \/ Abandon(r) \/ LooseRun(r) \/ LooseEnds(r) \/ Timeout(r)
             \/ Reply(r) \/ SettleEvent(r) \/ FailEvent(r) \/ Enqueue(r) \/ Look(r) \/ Reread(r)
      PROVE  Citations'
  BY <1>2, <1>4 DEF diagnosisVars, Conclude, Drop, BreakDiagnosis, Verdict, Report, Close, LandCompletion,
         Disconnect, Abandon, LooseRun, LooseEnds, Timeout, Reply, SettleEvent, FailEvent, Enqueue, JobStep,
         Look, Reread
<1>5. ASSUME NEW r \in Runs,
             \/ Resume(r) \/ Mark(r) \/ ClearMessages(r) \/ DropPending(r) \/ CancelDiagnosis(r)
             \/ DropScope(r) \/ Forget(r) \/ Release(r)
      PROVE  Citations'
  BY <1>2, <1>5 DEF diagnosisVars, Resume, Mark, ClearMessages, DropPending, CancelDiagnosis, Cancel,
         DropScope, Forget, Release
<1>6. ASSUME NEW r \in Runs, NEW p \in Pods, Arrive(r, p) \/ ClaimJob(p, r) \/ Extract(p, r) \/ EndJob(p, r)
      PROVE  Citations'
  BY <1>2, <1>6 DEF diagnosisVars, Arrive, ClaimJob, JobStep, Extract, EndJob
<1>7. ASSUME NEW p \in Pods, Crash(p) \/ (\E old \in {{}, Runs} : Start(p, old)) PROVE Citations'
  BY <1>2, <1>7 DEF diagnosisVars, Crash, Start
<1>8. ASSUME ExpireThread PROVE Citations'
  BY <1>2, <1>8 DEF ExpireThread, Expire
<1> QED
  BY <1>1, <1>3, <1>4, <1>5, <1>6, <1>7, <1>8
     DEF Next, Question, Decide, Delete, Worker

\* A node gathers evidence for the run that is in the diagnosis.
LEMMA EvidenceOfNodes ==
  ASSUME EvidenceHeld, OnCourse, evidence \subseteq Runs, pc \in [Runs -> Places],
         out \in [Runs -> Verdicts \cup {"none"}], NEW r \in Runs, Diagnose(r) \/ Node(r)
  PROVE  EvidenceHeld'
<1>1. CASE Diagnose(r)
  <2>1. ask' = ask /\ evidence' = evidence
    BY <1>1 DEF Diagnose, Cancel, Begin, fixed
  <2>2. pc[r] = "diagnose" /\ \A s \in Runs \ {r} : pc'[s] = pc[s] /\ out'[s] = out[s]
    BY <1>1 DEF Diagnose, Finish, Go, EndAs
  <2>3. r \notin evidence
    BY <2>2 DEF EvidenceHeld
  <2> QED
    BY <2>1, <2>2, <2>3 DEF EvidenceHeld, Kind
<1>2. CASE Node(r)
  <2>1. ask' = ask /\ pc' = pc /\ out' = out /\ evidence' \subseteq evidence \cup {r}
        /\ pc[r] \in {"diagnosing", "looseDiagnosis"}
    BY <1>2 DEF Node, fixed, Understand, QueryLogs, SearchCode, EnrichCode, InspectContracts, Generate
  <2> QED
    BY <2>1 DEF EvidenceHeld, Kind
<1> QED BY <1>1, <1>2

\* Who leaves the diagnosis drops its evidence, unless it is cancelled.
LEMMA EvidenceHeldStep ==
  ASSUME EvidenceHeld, OnCourse, pc \in [Runs -> Places], out \in [Runs -> Verdicts \cup {"none"}],
         evidence \subseteq Runs, at \in [Runs -> Pods \cup {Nobody}], Next
  PROVE  EvidenceHeld'
<1>1. ASSUME NEW r \in Runs, Diagnose(r) \/ Node(r) PROVE EvidenceHeld'
  BY <1>1, EvidenceOfNodes
<1> USE DEF EvidenceHeld, OnCourse, InRun, Deleting, Diagnosing, Loose, Ended, Active, Kind, RunOf, recordVars,
         turnVars, diagnosisVars, fixed, podVars, ghosts
<1>2. ASSUME NEW r \in Runs,
             \/ ReceiveEvent(r) \/ PrepareScope(r) \/ Claim(r) \/ Record(r) \/ Open(r)
             \/ LandStart(r) \/ Acquire(r)
      PROVE  EvidenceHeld'
  BY <1>2 DEF ReceiveEvent, Go, PrepareScope, Claim, AfterClaim, MayOwn, Record, Open, LandStart, Acquire,
         UnderLock
<1>3. ASSUME NEW r \in Runs, Enter(r) \/ Run(r) \/ Answer(r) PROVE EvidenceHeld'
  BY <1>3 DEF Enter, Go, EndAs, Run, Answer, Finish, NextPlace, Keeps
<1>4. ASSUME NEW r \in Runs, StopForApproval(r) \/ Break(r) PROVE EvidenceHeld'
  BY <1>4 DEF StopForApproval, Go, Finish, EndAs, NextPlace, Keeps, Break
<1>5. ASSUME NEW r \in Runs,
             \/ Conclude(r) \/ BreakDiagnosis(r) \/ Verdict(r) \/ Report(r) \/ Close(r)
             \/ LandCompletion(r) \/ Disconnect(r) \/ Abandon(r) \/ LooseRun(r) \/ LooseEnds(r) \/ Timeout(r) \/ Reply(r)
             \/ SettleEvent(r) \/ FailEvent(r) \/ Enqueue(r) \/ Look(r) \/ Reread(r)
      PROVE  EvidenceHeld'
  BY <1>5 DEF Conclude, EndLoose, Drop, Go, Finish, EndAs, NextPlace, Keeps, BreakDiagnosis, At, Verdict,
         Report, Close, LandCompletion, Disconnect, Abandon, LeftAt, LooseRun, LooseEnds, Timeout, Reply,
         SettleEvent, FailEvent, Enqueue, JobStep, Look, Reread, IsPending
<1>6. ASSUME NEW r \in Runs,
             \/ Resume(r) \/ Mark(r) \/ ClearMessages(r) \/ DropPending(r) \/ CancelDiagnosis(r)
             \/ DropScope(r) \/ Forget(r) \/ Release(r)
      PROVE  EvidenceHeld'
  BY <1>6 DEF Resume, Go, Mark, IsPending, ClearMessages, DropPending, CancelDiagnosis, Cancel, DropScope,
         Forget, Release, MayOwn
<1>7. ASSUME NEW r \in Runs, NEW p \in Pods, Arrive(r, p) \/ ClaimJob(p, r) \/ Extract(p, r) \/ EndJob(p, r)
      PROVE  EvidenceHeld'
  BY <1>7 DEF Arrive, Go, First, ClaimJob, JobStep, Extract, EndJob
<1>8. ASSUME NEW p \in Pods, Crash(p) \/ (\E old \in {{}, Runs} : Start(p, old)) PROVE EvidenceHeld'
  BY <1>8 DEF Crash, OnPod, Start
<1>9. ASSUME ExpireThread PROVE EvidenceHeld'
  BY <1>9 DEF ExpireThread, Expire
<1> QED
  BY <1>1, <1>2, <1>3, <1>4, <1>5, <1>6, <1>7, <1>8, <1>9
     DEF Next, Question, Decide, Delete, Worker

-----------------------------------------------------------------------------
(* The invariant *)

\* Before any request nothing is stored and nobody works.
LEMMA InitInv == Init => IInv
<1> SUFFICES ASSUME Init PROVE IInv
  OBVIOUS
<1> USE DEF Init, RecordInit, TurnInit, DiagnosisInit, EventInit
<1>1. PICK m \in Mixes : ask = m.ask /\ extracts = m.extracts /\ pods = m.pods
  OBVIOUS
<1>2. pods # {} /\ pods \subseteq Pods /\ \A r \in Runs : Request(ask[r])
  BY <1>1, MixesAssumption
<1>3. up \subseteq Pods
  <2>1. pods # {}
    BY <1>2
  <2>2. (CHOOSE p \in pods : TRUE) \in pods
    BY <2>1
  <2> QED BY <1>2, <2>2
<1>4. /\ pc = [r \in Runs |-> "new"] /\ \A r \in Runs : ~Active(r)
      /\ resumed = [r \in Runs |-> {}] /\ answered = [e \in Events |-> {}]
  BY DEF Active
<1>5. RecordTypeOK /\ TurnTypeOK
  BY DEF RecordTypeOK, TurnTypeOK, JobStatuses
<1>6. DiagnosisTypeOK
  BY DEF DiagnosisTypeOK, Threads, NoThread, Nodes
<1>7. EventTypeOK
  BY BoundsAssumption DEF EventTypeOK, Unseen, EventStatuses
<1>8. RequestTypeOK
  BY <1>2 DEF RequestTypeOK, Request, Kind, Places
<1>9. PodTypeOK
  BY <1>2, <1>3, BoundsAssumption DEF PodTypeOK, Idle
<1>10. Histories
  BY <1>4 DEF Histories
<1>11. OnCourse /\ LockIsHeld
  BY <1>2, <1>4 DEF OnCourse, LockIsHeld, InRun, Diagnosing, Loose, Deleting, UnderTheLock
<1>12. UnqueuedDeletions /\ QuietDeletions /\ DeletionsOverlap
  BY <1>4 DEF UnqueuedDeletions, QuietDeletions, DeletionsOverlap, Deleting
<1>13. UnownedOverlap
  BY <1>4 DEF UnownedOverlap, Waiting, Admitted
<1>14. PreparedScopes /\ AnswersInScope
  BY <1>4 DEF PreparedScopes, AnswersInScope
<1>15. Deciders /\ Resuming /\ ApprovedOnce
  BY <1>4 DEF Deciders, Resuming, ApprovedOnce
<1>16. Rows /\ Outcomes /\ Starts /\ RunningTurns
  BY <1>4 DEF Rows, Outcomes, Starts, RunningTurns
<1>17. \A e \in Events : Processing(e) = {}
  BY <1>4 DEF Processing
<1>18. AttemptsCount
  <2> SUFFICES ASSUME NEW e \in Events PROVE Cardinality({}) <= 0 /\ event[e].attempt = 0
    BY <1>4, <1>17 DEF AttemptsCount, Deliveries
  <2> QED
    BY FS_EmptySet DEF Unseen
<1>19. Sent /\ OneDelivery /\ Processed
  BY <1>4, <1>17 DEF Sent, OneDelivery, Processed, Unseen
<1>20. Citations /\ EvidenceHeld
  BY DEF Citations, OfItsRun, EvidenceHeld, NoThread
<1> QED
  BY <1>5, <1>6, <1>7, <1>8, <1>9, <1>10, <1>11, <1>12, <1>13, <1>14, <1>15, <1>16, <1>18, <1>19, <1>20
     DEF IInv, TypeOK

\* A step that changes nothing keeps every part.
LEMMA StutterInv ==
  ASSUME IInv, UNCHANGED vars
  PROVE  IInv'
<1> USE DEF vars, recordVars, turnVars, diagnosisVars, fixed, podVars, ghosts
<1>1. TypeOK' /\ Histories'
  BY DEF IInv, TypeOK, RecordTypeOK, TurnTypeOK, DiagnosisTypeOK, EventTypeOK, RequestTypeOK, PodTypeOK,
         Histories, Kind
<1>2. /\ OnCourse' /\ LockIsHeld' /\ UnqueuedDeletions' /\ QuietDeletions'
      /\ DeletionsOverlap' /\ UnownedOverlap'
  BY DEF IInv, OnCourse, LockIsHeld, UnqueuedDeletions, QuietDeletions, DeletionsOverlap, UnownedOverlap, Kind,
         Past, Active, Unqueued, OpenJobs, Resting, Waiting, Admitted, RunOf
<1>3. PreparedScopes' /\ AnswersInScope' /\ Deciders' /\ Resuming' /\ ApprovedOnce'
  BY DEF IInv, PreparedScopes, AnswersInScope, Deciders, Resuming, ApprovedOnce, Deleted, Kind
<1>4. Rows' /\ Outcomes' /\ Starts' /\ RunningTurns'
  BY DEF IInv, Rows, Outcomes, Starts, RunningTurns, Verdictless, Kind
<1>5. AttemptsCount' /\ Sent' /\ OneDelivery' /\ Processed'
  BY DEF IInv, AttemptsCount, Sent, OneDelivery, Processed, Deliveries, Processing, Active, Kind
<1>6. Citations' /\ EvidenceHeld'
  BY DEF IInv, Citations, EvidenceHeld, Kind
<1> QED BY <1>1, <1>2, <1>3, <1>4, <1>5, <1>6 DEF IInv

\* Each step keeps every part: the lemmas above, put together.
LEMMA NextInv ==
  ASSUME IInv, Next
  PROVE  IInv'
<1>1. /\ RecordTypeOK /\ TurnTypeOK /\ DiagnosisTypeOK /\ EventTypeOK /\ RequestTypeOK /\ PodTypeOK /\ Histories
      /\ OnCourse /\ LockIsHeld /\ UnqueuedDeletions /\ QuietDeletions /\ DeletionsOverlap /\ UnownedOverlap
      /\ PreparedScopes /\ AnswersInScope /\ Deciders /\ Resuming /\ ApprovedOnce /\ Rows /\ Outcomes
      /\ Starts /\ RunningTurns /\ AttemptsCount /\ Sent /\ OneDelivery /\ Processed /\ Citations
      /\ EvidenceHeld
  BY DEF IInv, TypeOK
<1>2. /\ answered \in [Events -> SUBSET Runs]
      /\ at \in [Runs -> Pods \cup {Nobody}]
      /\ completing \in [Runs -> {"none"} \cup Verdicts]
      /\ event \in [Events -> [status : EventStatuses, attempt : 0..MaxAttempts]]
      /\ evidence \subseteq Runs
      /\ job \in [Runs -> JobStatuses]
      /\ lock \in [Pods -> Runs \cup {Nobody}]
      /\ out \in [Runs -> Verdicts \cup {"none"}]
      /\ pc \in [Runs -> Places]
      /\ pending \in [Runs -> {"none", "pending", "completed"}]
      /\ quiet \subseteq Runs
      /\ resumed \in [Runs -> SUBSET Runs]
      /\ starting \subseteq Runs
      /\ starts \in 0..MaxStarts
      /\ thread \in Threads
      /\ turn \in [Runs -> {"none", "running"} \cup Terminal]
      /\ unqueued \subseteq Runs
      /\ up \subseteq Pods /\ pods \subseteq Pods
      /\ work \in [Pods -> [job : Runs \cup {"none"}, phase : {"none", "extract", "complete"}]]
      /\ used = [s \in Runs |-> used[s]]
  BY Types
<1>3. RecordTypeOK'
  BY <1>1, <1>2, RecordTypeOKStep
<1>4. TurnTypeOK'
  BY <1>1, <1>2, TurnTypeOKStep
<1>5. DiagnosisTypeOK'
  BY <1>1, <1>2, DiagnosisTypeOKStep
<1>6. EventTypeOK'
  BY <1>1, <1>2, EventTypeOKStep
<1>7. RequestTypeOK'
  BY <1>1, <1>2, RequestTypeOKStep
<1>8. PodTypeOK'
  BY <1>1, <1>2, PodTypeOKStep
<1>9. Histories'
  BY <1>1, <1>2, HistoriesStep
<1>10. OnCourse'
  BY <1>1, <1>2, OnCourseStep
<1>11. LockIsHeld'
  BY <1>1, <1>2, LockIsHeldStep
<1>12. UnqueuedDeletions'
  BY <1>1, <1>2, UnqueuedDeletionsStep
<1>13. QuietDeletions'
  BY <1>1, <1>2, QuietDeletionsStep
<1>14. DeletionsOverlap'
  BY <1>1, <1>2, DeletionsOverlapStep
<1>15. UnownedOverlap'
  BY <1>1, <1>2, UnownedOverlapStep
<1>16. PreparedScopes'
  BY <1>1, <1>2, PreparedScopesStep
<1>17. AnswersInScope'
  BY <1>1, <1>2, AnswersInScopeStep
<1>18. Deciders'
  BY <1>1, <1>2, DecidersStep
<1>19. Resuming' /\ ApprovedOnce'
  BY <1>1, <1>2, ApprovalsStep
<1>20. Rows'
  BY <1>1, <1>2, RowsStep
<1>21. Outcomes'
  BY <1>1, <1>2, OutcomesStep
<1>22. Starts'
  BY <1>1, <1>2, StartsStep
<1>23. RunningTurns'
  BY <1>1, <1>2, RunningTurnsStep
<1>24. Sent'
  BY <1>1, <1>2, SentStep
<1>25. AttemptsCount' /\ OneDelivery'
  BY <1>1, <1>2, <1>9, DeliveriesStep
<1>26. Processed'
  BY <1>1, <1>2, ProcessedStep
<1>27. Citations'
  BY <1>1, <1>2, CitationsStep
<1>28. EvidenceHeld'
  BY <1>1, <1>2, EvidenceHeldStep
<1> QED
  BY <1>3, <1>4, <1>5, <1>6, <1>7, <1>8, <1>9, <1>10, <1>11, <1>12, <1>13, <1>14, <1>15, <1>16, <1>17,
     <1>18, <1>19, <1>20, <1>21, <1>22, <1>23, <1>24, <1>25, <1>26, <1>27, <1>28
     DEF IInv, TypeOK

\* The invariant holds in every reachable state: types, histories and every part above.
THEOREM InvariantHolds == Spec => []IInv
<1>1. Init => IInv
  BY InitInv
<1>2. IInv /\ [Next]_vars => IInv'
  BY NextInv, StutterInv
<1> QED BY <1>1, <1>2, PTL DEF Spec

\* Every variable keeps its type: whatever the order of the requests, no table, task or lock holds a value outside of
\* those the code writes.
THEOREM TypesCorrect == Spec => []TypeOK
<1>1. IInv => TypeOK
  BY DEF IInv
<1> QED BY <1>1, InvariantHolds, PTL

-----------------------------------------------------------------------------
(* The properties *)

\* A deletion that no other request overlapped or followed leaves nothing of the conversation, but a summary where
\* an extraction was open or still to be queued.
THEOREM DeletionsAreComplete == Spec => []DeletionIsComplete
<1>1. IInv => DeletionIsComplete
  BY DEF IInv, QuietDeletions, DeletionIsComplete, Past
<1> QED BY <1>1, InvariantHolds, PTL

\* Messages without an owner are of runs that a deletion overlapped.
THEOREM HistoriesAreOwned == Spec => []HistoryIsOwned
<1>1. IInv => HistoryIsOwned
  BY DEF IInv, UnownedOverlap, HistoryIsOwned
<1> QED BY <1>1, InvariantHolds, PTL

\* A question is answered in the scope it names, a stream's as long as no deletion comes between.
THEOREM AnswersStayInScope == Spec => []AnswersInScope
<1>1. IInv => AnswersInScope
  BY DEF IInv
<1> QED BY <1>1, InvariantHolds, PTL

\* The calls of a waiting run are made by one decision per pod, but for those that failed or were lost.
THEOREM CallsAreMadeOnce == Spec => []ApprovedOnce
<1>1. IInv => ApprovedOnce
  BY DEF IInv
<1> QED BY <1>1, InvariantHolds, PTL

\* When nothing is under way no turn is left running, but those whose verdict had nobody to write it.
THEOREM TurnsAreSettled == Spec => []TurnsSettle
<1>1. IInv => TurnsSettle
  <2> SUFFICES ASSUME IInv, \A r \in Runs : ~Active(r) /\ completing[r] = "none", NEW r \in Runs, turn[r] = "running"
               PROVE  r \in unsettled
    BY DEF TurnsSettle
  <2> QED
    BY DEF IInv, RunningTurns, Verdictless, Active, InRun, Diagnosing, Loose, Ended
<1> QED BY <1>1, InvariantHolds, PTL

\* A Feishu event is answered by one delivery, by no more than its attempts, and is not left in process by a request
\* that has ended, with the exceptions the property names.
THEOREM EventsAreAnsweredOnce == Spec => []AnsweredOnce
<1>1. ASSUME IInv, NEW e \in Events PROVE Cardinality(answered[e]) <= event[e].attempt
  <2>1. Cardinality(Deliveries(e)) <= event[e].attempt /\ event[e].attempt \in Nat
    BY <1>1, BoundsAssumption DEF IInv, AttemptsCount, TypeOK, EventTypeOK
  <2>2. Histories
    BY <1>1 DEF IInv
  <2> QED BY <2>1, <2>2, DeliveriesAreFew
<1>2. ASSUME IInv, NEW e \in Events, Cardinality(answered[e]) > 1, ~(starts > 0)
      PROVE  \E r \in answered[e] : out[r] = "error"
  <2>1. starts = 0
    BY <1>2, BoundsAssumption DEF IInv, TypeOK, PodTypeOK
  <2>2. \A r, s \in answered[e] : r # s => out[r] = "error" \/ out[s] = "error"
    BY <1>2, <2>1 DEF IInv, OneDelivery
  <2>3. answered[e] # {}
    BY <1>2, FS_EmptySet
  <2>4. PICK r \in answered[e] : TRUE
    BY <2>3
  <2>5. answered[e] # {r}
    <3>1. Cardinality({r}) = 1
      BY FS_Singleton
    <3> QED BY <1>2, <3>1
  <2> QED BY <2>2, <2>4, <2>5
<1>3. ASSUME IInv, NEW e \in Events, event[e].status = "processing"
      PROVE  \E r \in Runs : Kind(r) = "feishu" /\ ask[r].event = e /\ (Active(r) \/ pc[r] \in {"dropped", "lost"})
  BY <1>3 DEF IInv, Processed, Processing
<1>4. IInv => AnsweredOnce
  BY <1>1, <1>2, <1>3 DEF AnsweredOnce
<1> QED BY <1>4, InvariantHolds, PTL

\* A diagnosis reports the evidence of its own run, and only a cancelled run leaves any in memory.
THEOREM EvidenceIsOfOwnRun == Spec => []EvidenceOfOwnRun
<1>1. ASSUME IInv, NEW r \in Runs PROVE graph[r].cites \subseteq {r}
  <2>1. CASE graph[r] = NoThread
    BY <2>1 DEF NoThread
  <2>2. CASE graph[r] # NoThread
    BY <1>1, <2>2 DEF IInv, Citations, OfItsRun
  <2> QED BY <2>1, <2>2
<1>2. IInv => EvidenceOfOwnRun
  BY <1>1 DEF IInv, Citations, OfItsRun, EvidenceHeld, EvidenceOfOwnRun
<1> QED BY <1>2, InvariantHolds, PTL
=============================================================================
