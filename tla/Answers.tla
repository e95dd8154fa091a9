------------------------------- MODULE Answers -------------------------------
(***************************************************************************)
(* One question and its answer (AgentService.stream_chat and               *)
(* _response_from_result): who answers it, what the agents write and       *)
(* collect, what of it the client is shown while they do, the response     *)
(* the run ends with, and what the conversation's history shows of it.     *)
(*                                                                         *)
(* The agents run in a task of their own and the stream of their events is *)
(* read by the request: while a slow client holds the request up, the      *)
(* run's context (citations, tool runs, mode) is ahead of the events.      *)
(* Composes Routing, Retrieval with its Ranking, and PublicAnswer.         *)
(***************************************************************************)
EXTENDS Integers, Sequences, FiniteSets, SequencesExt

CONSTANTS
    Domains, Metric, General,
    Bug,                    \* the tool of the bug diagnosis graph
    Questions,              \* what may be asked, and how the service is configured: see Init
    Queries, TopK, Facts, RrfK, MinFusion,     \* see Retrieval
    CitationLimit,          \* agent_public_citation_limit
    Figures,                \* what a metric query shows
    Discoveries,            \* what a call of a discovery tool of the metric platform is cited as
    Logs,                   \* what a bug diagnosis cites: the log of a trace, with or without entries
    MaxLag                  \* bound: events the request may be behind

VARIABLES
    book, collected, cites, tool, flights, circuit, consent, mode, searched, handed, cut,    \* Retrieval
    ask,        \* the question
    route,      \* routing_domains, routing_intent, task_type, and the manager that was selected
    agent,      \* what the agents do
    text,       \* the message the agent is writing
    session,    \* its earlier messages, as the conversation's session keeps them
    used,       \* specialist tools among the context's tool runs
    override,   \* response_override: the bug diagnosis has the last word
    events,     \* events the request has not read
    request,    \* the request's local variables
    pro,        \* the synthesis of a reasoning model
    shown,      \* the text the client was streamed
    response    \* the response of the run

R == INSTANCE Retrieval WITH world <- ask.world, Worlds <- {q.world : q \in Questions}
INSTANCE Routing
INSTANCE PublicAnswer
INSTANCE Ranking

retrievalVars == <<book, collected, cites, tool, flights, circuit, consent, mode, searched, handed, cut>>
agentVars == <<agent, text, session, used, override>>
requestVars == <<events, request, pro, shown, response>>
vars == <<retrievalVars, ask, route, agentVars, requestVars>>

\* What routes, reranker, lookups and Swagger sources may find are lists.
Chunks == DOMAIN Facts
ASSUME QuestionsAssumption ==
    \A q \in Questions :
        /\ q.world.budget \in Nat
        /\ \A s \in {"code", "product_document", "knowledge"} : q.world.find[s] \subseteq Seq(Chunks) \X Seq(Chunks)
        /\ q.world.rerank \subseteq Seq([index : Nat, rerank : {"strong", "weak"}])
        /\ q.world.types \subseteq Seq(Chunks)
        /\ q.world.inspect \in [Domains -> Seq(SUBSET Seq(Chunks))]
ASSUME TopKAssumption == TopK \in Nat \ {0}

None == <<>>
Specialists == Domains \cup {Bug}
Written ==
    LET upto[n \in 0..Len(session)] == IF n = 0 THEN Len(text) ELSE upto[n - 1] + Len(session[n])
    IN  upto[Len(session)]
Piece(w, by) == [w |-> w, by |-> by, n |-> Written + 1]

Init ==
    /\ ask \in Questions
    /\ R!Init
    /\ route = Selected(ask.message, ask.chosen)
    /\ agent = "new"
    /\ text = <<>> /\ session = <<>>
    /\ used = {} /\ override = FALSE
    /\ events = <<>>
    /\ request = [active |-> FALSE, reasons |-> FALSE, delegated |-> FALSE, streamed |-> FALSE, kept |-> <<>>,
                  stream |-> Fresh]
    /\ pro = [status |-> "none", text |-> <<>>]
    /\ shown = <<>>
    /\ response = [status |-> "none", answer |-> <<>>, cites |-> <<>>]

-----------------------------------------------------------------------------
(* The run's context *)

Evident == Evidence(cites)
BugUsed == Bug \in used
\* _specialist_invoked
Delegated == route.intent \in Domains \cup {"bug"} \/ used # {}
\* _specialists_used
SpecialistsUsed == IF used # {} THEN used ELSE {route.intent} \cap (Domains \cup {"bug"})
\* _is_reasoning_candidate
Reasons ==
    /\ ask.pro
    /\ mode = "answer" /\ ~override /\ ~BugUsed
    /\ Cardinality(route.domains) > 1 \/ Cardinality(SpecialistsUsed) > 1

-----------------------------------------------------------------------------
(* The agents *)

Room == Len(events) < MaxLag
Emits(e) == events' = Append(events, e)
Delta(p) == [kind |-> "delta", piece |-> p]
Event(kind) == [kind |-> kind, piece |-> None]

\* Whose words these are: nobody has been consulted, evidence backs them, or not.
Standing ==
    IF agent = "tool" THEN "aside" ELSE IF ~Delegated THEN "free" ELSE IF Evident THEN "backed" ELSE "bare"

\* The guard answers before any agent does.
Guard ==
    /\ agent = "new" /\ Guarded(ask.message) # "none"
    /\ agent' = "ended"
    /\ shown' = Fixed(Guarded(ask.message))
    /\ response' = [status |-> "completed", answer |-> Fixed(Guarded(ask.message)), cites |-> <<>>]
    /\ UNCHANGED <<retrievalVars, ask, route, text, session, used, override, events, request, pro>>

Start ==
    /\ agent = "new" /\ Guarded(ask.message) = "none"
    /\ agent' = IF route.intent = "bug" /\ Bug \in ask.specialists THEN "diagnoses" ELSE "speaks"
    /\ request' = [request EXCEPT !.reasons = Reasons]
    /\ UNCHANGED <<retrievalVars, ask, route, text, session, used, override, events, pro, shown, response>>

\* A model repeats what it was given: identities of its evidence, and remembered lines if the question came with any
\* (_memory_augmented_message leaves the question as it is when the memory service fails).
Words == ask.words \cup (IF ask.memory = "recalled" THEN {"m1", "m2", "o1", "o2"} ELSE {})

\* Text may follow a call in the same response of the model.
Write ==
    /\ agent \in {"speaks", "tool"} /\ R!Idle /\ Room
    /\ Written < ask.length
    /\ \E w \in Words :
          LET p == Piece(w, Standing) IN
          /\ text' = Append(text, p)
          /\ Emits(Delta(p))
    /\ UNCHANGED <<retrievalVars, ask, route, agent, session, used, override, request, pro, shown, response>>

\* The general manager calls a specialist, within the domain of the conversation.
Delegate(s) ==
    /\ agent = "speaks" /\ route.manager = General /\ Room
    /\ s \in ask.specialists
    /\ agent' = "tool"
    /\ used' = used \cup {s}
    /\ Emits(Event("called"))
    /\ UNCHANGED <<retrievalVars, ask, route, text, session, override, request, pro, shown, response>>

\* A domain's manager has the specialist's tools itself: with them its message ends.
Collecting == agent = "tool" \/ (agent = "speaks" /\ route.manager # General)
Collectors == IF route.manager # General THEN {route.manager} ELSE Domains \cap used
Message == IF agent = "speaks" /\ text # <<>> THEN session' = Append(session, text) /\ text' = <<>>
           ELSE UNCHANGED <<session, text>>

Retrieve ==
    /\ Collecting
    /\ \E d \in Collectors, q \in Queries :
          \/ ask.composite /\ R!Collect(d, q, route.task, ask.message.lookup)
          \/ ~ask.composite /\ \/ \E source \in {"code", "product_document"} : R!SearchScoped(d, source, q)
                               \/ d = Metric /\ R!SearchScoped(d, "knowledge", q)
                               \/ R!InspectDomain(d, q)
    /\ Message
    /\ UNCHANGED <<ask, route, agent, used, override, requestVars>>

Progress == R!Progress /\ UNCHANGED <<ask, route, agentVars, requestVars>>

\* A tool that is told to reuse what the run has, or that there is nothing left of its budget.
Reuse ==
    /\ Collecting /\ R!Idle /\ text # <<>> /\ book.calls > 0
    /\ Message
    /\ UNCHANGED <<retrievalVars, ask, route, agent, used, override, requestVars>>

\* With the metric platform's server connected; a call that raises leaves nothing.
AskMetric ==
    /\ Collecting /\ Metric \in Collectors /\ ask.metrics # {}
    /\ \/ \E app \in ask.metrics : R!Prepare(app, ask.confirmed)
       \/ R!QueryMetric(Figures)
       \/ \E tools \in Discoveries, found \in BOOLEAN : R!Discover(tools, found)
       \/ R!Idle /\ UNCHANGED retrievalVars
    /\ Message
    /\ UNCHANGED <<ask, route, agent, used, override, requestVars>>

\* run_bug_graph: its answer or its question has the last word, and the log it read is cited.
Diagnosed ==
    /\ override' = TRUE
    /\ mode' \in {"answer", "clarification"}
    /\ \E logs \in {<<>>} \cup {<<R!Operation(l)>> : l \in Logs} : cites' = R!Added(logs)
    /\ UNCHANGED <<book, collected, tool, flights, circuit, consent, searched, handed, cut>>
Diagnose ==
    /\ agent = "tool" /\ BugUsed /\ ~override
    /\ Diagnosed
    /\ UNCHANGED <<ask, route, agent, text, session, used, requestVars>>

\* A tool's result, or its failure, is the next thing the manager reads.
Return ==
    /\ agent = "tool" /\ R!Idle /\ Room
    /\ agent' = "speaks"
    /\ session' = IF text = <<>> THEN session ELSE Append(session, text)
    /\ text' = <<>>
    /\ Emits(Event("output"))
    /\ UNCHANGED <<retrievalVars, ask, route, used, override, request, pro, shown, response>>

Finish(kind) ==
    /\ agent = "speaks" /\ R!Idle /\ Room
    /\ agent' = "ended"
    /\ Emits(Event(kind))
    /\ UNCHANGED <<retrievalVars, ask, route, text, session, used, override, request, pro, shown, response>>

-----------------------------------------------------------------------------
(* The request *)

\* PublicAnswerStream.feed, and the text.delta of what it lets go.
Shows(p, local) ==
    LET fed == Feed(local.stream, <<p>>) IN
    /\ shown' = shown \o fed.out
    /\ request' = [local EXCEPT !.stream = fed.s]
Keeps(p) == [request EXCEPT !.kept = Append(@, p)]

\* Mutant: what is written after a specialist was asked is streamed whether there is evidence or not.
BackedAlways == ~override /\ ~BugUsed
Backed == Evident /\ ~override /\ ~BugUsed

ReadDelta(p) ==
    IF request.active THEN UNCHANGED <<request, shown>>
    ELSE IF request.reasons \/ Reasons THEN request' = [Keeps(p) EXCEPT !.reasons = TRUE] /\ UNCHANGED shown
    ELSE IF ~(request.delegated \/ Delegated) THEN Shows(p, request)
    ELSE IF Backed THEN Shows(p, [Keeps(p) EXCEPT !.streamed = TRUE])
    ELSE request' = Keeps(p) /\ UNCHANGED shown

\* One specialist is called at a time: its output ends the call.
Read ==
    /\ response.status = "none" /\ events # <<>> /\ Head(events).kind \in {"delta", "called", "output"}
    /\ events' = Tail(events)
    /\ LET e == Head(events) IN
       CASE e.kind = "delta" -> ReadDelta(e.piece)
         [] e.kind = "called" -> request' = [request EXCEPT !.active = TRUE, !.delegated = TRUE] /\ UNCHANGED shown
         [] e.kind = "output" -> request' = [request EXCEPT !.active = FALSE] /\ UNCHANGED shown
    /\ UNCHANGED <<retrievalVars, ask, route, agentVars, pro, response>>

\* The agents have ended and their events are read.
AllRead == response.status = "none" /\ events # <<>> /\ Head(events).kind = "end"

\* _response_from_result.  given is the synthesized answer, if there is one.
\* EvidencePolicy.safeguard
Denies(answer) == \E i \in DOMAIN answer : answer[i].w = "neg"
Safeguarded(answer) == IF Denies(answer) /\ ~Confirmed(cites) THEN Fixed("guard") \o answer ELSE answer
Answer(given) ==
    Sanitize(IF override THEN Fixed("diagnosis")
             ELSE IF Delegated /\ mode # "clarification" /\ ~Evident THEN Unavailable
             ELSE IF Delegated /\ ~BugUsed /\ mode # "clarification" THEN Safeguarded(given)
             ELSE given)

\* Mutant: what was kept is streamed at the end, whether it was streamed before or not.
RestAgain(given) ==
    IF ~request.delegated THEN <<>> ELSE [i \in DOMAIN request.kept |-> <<request.kept[i]>>]
\* What is streamed at the end: an answer that is not the agent's in one piece, or the text that was kept in the
\* pieces it came in.
Rest(given) ==
    IF ~request.delegated \/ request.streamed THEN <<>>
    ELSE IF override \/ Answer(given) # text THEN <<Answer(given)>>
    ELSE [i \in DOMAIN request.kept |-> <<request.kept[i]>>]
FedOn(fed, delta) == [s |-> Feed(fed.s, delta).s, out |-> fed.out \o Feed(fed.s, delta).out]
FeedAll(deltas) ==
    LET fed[n \in 0..Len(deltas)] ==
            IF n = 0 THEN [s |-> request.stream, out |-> <<>>] ELSE FedOn(fed[n - 1], deltas[n])
    IN  fed[Len(deltas)]

Conclude(given) ==
    LET fed == FeedAll(Rest(given))
        end == Flush(fed.s) IN
    /\ shown' = shown \o fed.out \o end.out
    /\ request' = [request EXCEPT !.stream = end.s]
    /\ response' = [status |-> "completed", answer |-> Answer(given),
                    cites |-> PublicCitations(cites, CitationLimit)]

Respond ==
    /\ AllRead /\ ~(Reasons /\ Evident)
    /\ Conclude(text)
    /\ events' = Tail(events)
    /\ UNCHANGED <<retrievalVars, ask, route, agentVars, pro>>

Synthesize ==
    /\ AllRead /\ Reasons /\ Evident
    /\ pro' = [pro EXCEPT !.status = "writes"]
    /\ events' = Tail(events)
    /\ UNCHANGED <<retrievalVars, ask, route, agentVars, request, shown, response>>

ProWrite ==
    /\ pro.status = "writes" /\ Len(pro.text) < ask.proLength
    /\ \E w \in Words :
          LET p == [w |-> w, by |-> "pro", n |-> Len(pro.text) + 1] IN
          /\ pro' = [pro EXCEPT !.text = Append(@, p)]
          /\ Shows(p, [request EXCEPT !.streamed = TRUE])
    /\ UNCHANGED <<retrievalVars, ask, route, agentVars, events, response>>

Fail ==
    /\ response' = [response EXCEPT !.status = "error"]
    /\ UNCHANGED <<request, shown>>

\* Mutant: a synthesis that broke off is followed by the draft.
AfterProDraft(ok) == Conclude(IF ok THEN pro.text ELSE text)
\* A synthesis that timed out or failed leaves the draft, unless some of either is shown already.
AfterPro(ok) ==
    IF ~ok /\ request.streamed THEN Fail
    ELSE Conclude(IF ok THEN pro.text ELSE text)

ProEnd ==
    /\ pro.status = "writes"
    /\ \E ok \in {pro.text # <<>>, FALSE} :
          /\ pro' = [pro EXCEPT !.status = IF ok THEN "completed" ELSE "failed"]
          /\ AfterPro(ok)
    /\ UNCHANGED <<retrievalVars, ask, route, agentVars, events>>

\* The model or its tool calls failed, or there were too many turns: run.error.
Break ==
    /\ response.status = "none" /\ events # <<>> /\ Head(events).kind = "raised"
    /\ events' = Tail(events)
    /\ Fail
    /\ UNCHANGED <<retrievalVars, ask, route, agentVars, pro>>

-----------------------------------------------------------------------------
(* A question the router takes for a bug goes straight to the diagnosis *)

DiagnosisWrite ==
    /\ agent = "diagnoses" /\ Len(text) < ask.length
    /\ \E w \in Words :
          LET p == [w |-> w, by |-> "graph", n |-> Len(text) + 1] IN
          /\ text' = Append(text, p)
          /\ Shows(p, [request EXCEPT !.streamed = TRUE])
    /\ UNCHANGED <<retrievalVars, ask, route, agent, session, used, override, events, pro, response>>

\* The graph may answer with other words than its model's, which have been streamed.
DiagnosisEnd ==
    /\ agent = "diagnoses"
    /\ agent' = "ended"
    /\ \/ /\ Diagnosed
          /\ \E answer \in {Sanitize(text), Fixed("diagnosis")} \ {<<>>} :
                LET end == Flush(request.stream) IN
                /\ shown' = shown \o (IF request.streamed THEN end.out ELSE answer)
                /\ response' = [status |-> "completed", answer |-> answer,
                                cites |-> PublicCitations(cites', CitationLimit)]
                /\ UNCHANGED request
       \/ Fail /\ UNCHANGED <<retrievalVars, override>>
    /\ UNCHANGED <<ask, route, text, session, used, events, pro>>

Done == response.status # "none" /\ UNCHANGED vars

Next ==
    \/ Guard \/ Start \/ Write \/ Retrieve \/ Progress \/ Reuse \/ AskMetric \/ Diagnose \/ Return
    \/ \E s \in Specialists : Delegate(s)
    \/ \E kind \in {"end", "raised"} : Finish(kind)
    \/ Read \/ Respond \/ Synthesize \/ ProWrite \/ ProEnd \/ Break
    \/ DiagnosisWrite \/ DiagnosisEnd
    \/ Done

Spec == Init /\ [][Next]_vars

-----------------------------------------------------------------------------
(* Properties *)

TypeOK ==
    /\ agent \in {"new", "speaks", "tool", "diagnoses", "ended"}
    /\ used \subseteq Specialists
    /\ mode \in {"answer", "clarification"} /\ override \in BOOLEAN
    /\ book.calls \in Nat /\ collected \subseteq Domains
    /\ tool.kind \in {"none", "collect", "scoped", "swagger"} /\ circuit \subseteq R!Providers
    /\ Len(events) <= MaxLag
    /\ response.status \in {"none", "completed", "error"}

\* The answer that is recorded has no line of the remembered context and no internal identity in it.  Nor has what a
\* client is streamed, in whatever pieces a model writes it and whatever ends the run (PublicAnswerStream keeps back what
\* may become one), but for the remembered lines it does not see coming: those whose first delta ends within a bold sign,
\* or after a heading, a bold sign and the start of the marker.
NothingInternal ==
    /\ MemoryLines(response.answer) = {}
    /\ \A i \in MemoryLines(shown) : Is(shown, i, "o1")
    /\ \A t \in {shown, response.answer} : Identities(t) = {}

\* What an agent writes after a specialist was asked, or as one, is not streamed as long as the run has no evidence,
\* also when the request reads it late or replays it at the end, except in a run that asks the user back; and what an
\* agent writes while a specialist works is never streamed.
NothingUnsupported ==
    \A i \in DOMAIN shown :
        /\ shown[i].by # "aside"
        /\ shown[i].by = "bare" => Evident \/ mode = "clarification"

Agents == {"free", "bare", "backed", "aside"}
\* The client is told everything at most once and in the order it was written, by the agents as by the synthesis and the
\* diagnosis, although text is kept, held back as the start of something internal, and streamed again at the end.
ToldOnce ==
    \A by \in {Agents, {"pro"}, {"graph"}} :
        \A i, j \in DOMAIN shown : i < j /\ {shown[i].by, shown[j].by} \subseteq by => shown[i].n < shown[j].n

\* The citations of a run are what its agents were handed, but for logs, for discovery tools of the metric platform whose
\* call ended in an error, and for the operations of Swagger sources whose inspection was cut off after they were cited;
\* and a search of which a route found something, and that was not cut
\* off, has left a citation: the failure of the other route or of the reranker costs nothing.
EvidenceMatches ==
    /\ R!Idle => /\ handed \cup cut \subseteq Range(cites)
                 /\ Range(cites) \ (handed \cup cut) \subseteq {R!Operation(l) : l \in Logs \cup Discoveries}
    /\ \A f \in flights : f.at = "done" => Range(f.got) \subseteq Range(cites) /\ (f.saw # {} => f.got # <<>>)

\* However its agents ask, and in whatever order the searches of a call go on, a run makes at most as many searches as its budget allows
\* and none twice, each on a reservation.
WithinBudget ==
    /\ searched \subseteq book.sigs
    /\ Cardinality(book.sigs) = book.calls
    /\ book.calls <= ask.world.budget

Voice(t, by) == SelectSeq(t, LAMBDA p : p.by \in by)
\* Half a synthesis is never followed by something else that counts as the answer; and what the client saw of a
\* synthesis is what the recorded answer begins with, but for ends of lines, when no draft was streamed before it: a
\* question of several domains is kept for the synthesis from the start, in another the synthesis goes on in the
\* line the draft has begun.  A remembered line that was streamed (NothingInternal) is cut from the answer.
SynthesisIsAnswer ==
    Voice(shown, {"pro"}) # <<>> =>
        /\ pro.status = "completed"
        /\ Cardinality(route.domains) > 1 /\ MemoryLines(shown) = {} =>
              IsPrefix(Stripped(Voice(shown, {"pro"})), Voice(response.answer, {"pro"}))

\* The citations shown with an answer are different from each other, no more than the limit, and have one of every
\* type that has any to show, as far as the limit allows.
CitationsRepresent ==
    LET c == response.cites
        types == {Type(h) : h \in {g \in Range(cites) : Eligible(g)}} IN
    /\ Len(c) <= CitationLimit
    /\ \A i, j \in DOMAIN c : i # j => ~Same(c[i], c[j])
    /\ Cardinality(types) <= CitationLimit => types = {Type(h) : h \in Range(c)}

\* What is recorded of a completed run stands for the run: its text for the synthesis the client was streamed, however
\* that ended (SynthesisIsAnswer), its citations for everything the agents found (CitationsRepresent).
AnswerRepresents == response.status = "completed" => SynthesisIsAnswer /\ CitationsRepresent

\* What the history shows of the run (ConversationHistoryService): the messages its agents wrote, sanitized.
History == [i \in 1..(Len(session) + 1) |-> Sanitize(IF i <= Len(session) THEN session[i] ELSE text)]
Pieces(t) == {p \in Range(t) : p.by # "code"}
\* Stated by README.md:317, that the history only returns messages visible to user and assistant: of a completed run it
\* shows nothing the client was not shown.
HistoryWasShown ==
    response.status = "completed" =>
        \A i \in DOMAIN History : Pieces(History[i]) \subseteq Pieces(shown) \cup Pieces(response.answer)
=============================================================================
