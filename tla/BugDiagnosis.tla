----------------------------- MODULE BugDiagnosis -----------------------------
(***************************************************************************)
(* The bug diagnosis graph of one conversation (BugDiagnosisGraphService): *)
(* a LangGraph thread, which keeps a checkpoint after every node, and the  *)
(* evidence of the runs under way, which the process keeps in memory.  A   *)
(* message starts a diagnosis, supplies what an interrupted one asked for, *)
(* or calls it off.  Each run's graph goes on from its own state in memory *)
(* and writes it over whatever the thread holds by then, so two graphs on  *)
(* one thread, and one that runs on after a cancellation, are possible     *)
(* here; the conversation's lock (Conversations) keeps them apart in part. *)
(***************************************************************************)
CONSTANTS
    Runs,
    Fields      \* what a diagnosis cannot do without: environment and trace ID

VARIABLES
    thread,     \* the latest checkpoint: status, next node, known fields, run, runs whose evidence it cites
    graph,      \* the state each run's graph holds in memory, of the same form
    expired,    \* the checkpoint's expires_at has passed
    evidence    \* runs with an entry in _evidence

NoThread == [status |-> "none", node |-> "none", known |-> {}, run |-> "none", cites |-> {}]
Nodes == {"understand", "interrupt", "query", "search", "enrich", "inspect", "generate", "end"}
DiagnosisInit == thread = NoThread /\ graph = [r \in Runs |-> NoThread] /\ expired = FALSE /\ evidence = {}
Threads ==
    [status : {"none", "running", "clarification_required", "no_logs", "unavailable", "completed"},
     node : Nodes \cup {"none"}, known : SUBSET Fields, run : Runs \cup {"none"}, cites : SUBSET Runs]
DiagnosisTypeOK ==
    /\ thread \in Threads /\ graph \in [Runs -> Threads] /\ expired \in BOOLEAN
    /\ evidence \subseteq Runs

Expired == thread # NoThread /\ expired
\* The checkpoint as diagnose and has_pending read it: an expired one is deleted.
Live == IF Expired THEN NoThread ELSE thread
Pending == Live.status = "clarification_required"
Complete(known) == known = Fields

\* should_resume: a follow-up question is about the thread's diagnosis, or about one the quality dataset knows of.
ShouldResume(recorded) == Complete(Live.known) \/ recorded

\* _resolve_reusable_context: both fields or nothing.
Inherited(follows, recorded) ==
    IF follows /\ (Complete(Live.known) \/ recorded) THEN Fields ELSE {}

\* cancel
Cancel == thread' = NoThread /\ expired' = FALSE /\ UNCHANGED <<graph, evidence>>

\* A step of a run's graph, with the checkpoint it leaves.  One written over another's has an expires_at of its own.
Write(r, state) ==
    /\ graph' = [graph EXCEPT ![r] = state]
    /\ thread' = state
    /\ expired' = (expired /\ thread.run = r /\ state.status # "clarification_required")

Resumed(r, inherited) == [Live EXCEPT !.status = "running", !.node = "understand", !.run = r, !.known = @ \cup inherited]
\* Mutant: a new diagnosis keeps what the thread holds.
BeginOnTop(r, inherited) == Write(r, Resumed(r, inherited)) /\ UNCHANGED evidence
\* diagnose: a pending diagnosis is resumed with the message, anything else starts from _initial_state.
Begin(r, inherited) ==
    /\ Write(r, IF Pending THEN Resumed(r, inherited)
                ELSE [status |-> "running", node |-> "understand", known |-> inherited, run |-> r, cites |-> {}])
    /\ UNCHANGED evidence

At(r, node) == graph[r].status = "running" /\ graph[r].node = node
Cites(r) == graph[r].cites \cup {r}
Move(r, node) == Write(r, [graph[r] EXCEPT !.node = node])

\* _understand_input, _validate_required_fields and _interrupt_for_clarification: `found` are the fields the message
\* names.  Asking for the others renews expires_at.
Understand(r, found) ==
    /\ At(r, "understand")
    /\ LET known == graph[r].known \cup found IN
         IF Complete(known) THEN Write(r, [graph[r] EXCEPT !.known = known, !.node = "query"])
         ELSE Write(r, [graph[r] EXCEPT !.known = known, !.node = "interrupt", !.status = "clarification_required"])
    /\ UNCHANGED evidence

\* _select_procedure and _query_trace_logs
QueryLogs(r, result) ==
    /\ At(r, "query")
    /\ CASE result = "logs" -> Write(r, [graph[r] EXCEPT !.node = "search", !.cites = Cites(r)])
         [] result = "no_logs" -> Write(r, [graph[r] EXCEPT !.node = "end", !.status = "no_logs", !.cites = Cites(r)])
         [] result = "unavailable" -> Write(r, [graph[r] EXCEPT !.node = "end", !.status = "unavailable"])
    /\ evidence' = IF result = "unavailable" THEN evidence ELSE evidence \cup {r}

\* _extract_log_signals and _search_branch_code read the logs their own run has gathered.
SearchCode(r) ==
    /\ At(r, "search") /\ r \in evidence
    /\ Write(r, [graph[r] EXCEPT !.node = "enrich", !.cites = Cites(r)])
    /\ UNCHANGED evidence

EnrichCode(r) == At(r, "enrich") /\ Move(r, "inspect") /\ UNCHANGED evidence

\* _inspect_contract_and_docs and _grade_evidence
InspectContracts(r) == At(r, "inspect") /\ Move(r, "generate") /\ UNCHANGED evidence

\* _generate_diagnosis and _finalize; diagnose then drops the evidence.
Generate(r) ==
    /\ At(r, "generate")
    /\ Write(r, [graph[r] EXCEPT !.node = "end", !.status = "completed"])
    /\ UNCHANGED evidence

\* An exception leaves the last checkpoint and drops the evidence; a cancellation drops nothing.
Drop(r) == evidence' = evidence \ {r} /\ UNCHANGED <<thread, graph, expired>>
Expire == thread # NoThread /\ ~expired /\ expired' = TRUE /\ UNCHANGED <<thread, graph, evidence>>
=============================================================================
