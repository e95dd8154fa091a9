------------------------------ MODULE Retrieval ------------------------------
(***************************************************************************)
(* The evidence one run collects (AgentRunContext's reservations and       *)
(* citations, collect_domain_evidence and the tools it supersedes,         *)
(* MultiRouteRetrievalService.search, and the metric gateway).  A run's    *)
(* agents call one tool at a time; the searches of one call overlap, and   *)
(* each may be cut off at any time: it times out or fails.                 *)
(*                                                                         *)
(* What a step decides is up to the code; what a search finds is up to the *)
(* environment, within the world of the run.                               *)
(***************************************************************************)
EXTENDS Integers, Sequences, FiniteSets, SequencesExt

CONSTANTS
    Domains, Metric,
    Queries,        \* what an agent may ask for
    TopK,
    Facts, RrfK, MinFusion,     \* see Ranking
    Worlds          \* what searches may find and providers may do:
                    \* find, of each kind of source: what its two routes may find, as <<keyword, vector>>;
                    \* rerank: what the reranker may return; types: what an exact lookup of types may find;
                    \* inspect, of each domain: the Swagger sources, each with the operations it may show;
                    \* budget: agent_retrieval_max_calls; trouble: "rejected" and "failed" requests, searches that are "cut" off

VARIABLES
    world,
    book,       \* the reservations: sigs, the searches reserved, and calls, how many
    collected,  \* evidence_collection_domains
    cites,      \* the run's citations
    tool,       \* the tool call under way
    flights,    \* its searches
    circuit,    \* providers whose circuit is open
    consent,    \* the metric application the user has confirmed, as the gateway sees it
    mode,       \* response_mode
    searched,   \* reservations a search was made on
    handed,     \* citations an agent was handed
    cut         \* citations of Swagger sources whose inspection was cut off

INSTANCE Ranking

bookVars == <<book, collected>>
ghosts == <<searched, handed, cut>>
vars == <<world, book, collected, cites, tool, flights, circuit, consent, mode, ghosts>>

Providers == {"vector", "rerank"}
NoTool == [kind |-> "none", d |-> "none", q |-> "none", task |-> "none", fell |-> FALSE]
Nobody == "nobody"
Idle == tool.kind = "none"
Sources == {"code", "product_document", "swagger", "knowledge"}

Init ==
    /\ world \in Worlds
    /\ book = [sigs |-> {}, calls |-> 0]
    /\ collected = {}
    /\ cites = <<>>
    /\ tool = NoTool
    /\ flights = {}
    /\ circuit = {}
    /\ consent = Nobody
    /\ mode = "answer"
    /\ searched = {} /\ handed = {} /\ cut = {}

-----------------------------------------------------------------------------
(* Reservations *)

Sig(d, source, q) == <<d, source, q>>
\* Mutant: what the budget does not allow is searched all the same.
ReserveAlways(b, sigs) ==
    LET fresh == Without(sigs, b.sigs) IN
    [allowed |-> fresh, book |-> [sigs |-> b.sigs \cup Range(fresh), calls |-> b.calls + Len(fresh)]]
\* reserve_retrieval for one search after the other: none twice, and no more than max_calls in the run.
Reserve(b, sigs) ==
    LET fresh == Without(sigs, b.sigs)
        allowed == Firsts(fresh, IF b.calls < world.budget THEN world.budget - b.calls ELSE 0) IN
    [allowed |-> allowed, book |-> [sigs |-> b.sigs \cup Range(allowed), calls |-> b.calls + Len(allowed)]]
Allows(b, sig) == Reserve(b, <<sig>>).allowed # <<>>

\* A search of a flight: at is how far it is, saw what its routes have brought, got what is made of it, left the
\* Swagger sources it has not inspected.
Flight(sig) ==
    [sig |-> sig, source |-> sig[2], at |-> IF sig[2] = "swagger" THEN "inspect" ELSE "route",
     saw |-> {}, got |-> <<>>, left |-> IF sig[2] = "swagger" THEN world.inspect[sig[1]] ELSE <<>>]
Board(sigs) ==
    /\ flights' = flights \cup {Flight(sigs[i]) : i \in DOMAIN sigs}
    /\ searched' = searched \cup Range(sigs)
Replace(f, g) == flights' = (flights \ {f}) \cup {g}
Added(hits) == cites \o Without(hits, Range(cites))

-----------------------------------------------------------------------------
(* The tools *)

\* The sources each kind of task asks.
Plan(task, interfaces) ==
    CASE task = "api_contract" -> <<"code", "swagger">>
      [] task = "code_lookup" -> <<"code">>
      [] task = "metric_query" -> <<"product_document">>
      [] task = "requirement_analysis" /\ interfaces -> <<"product_document", "code", "swagger">>
      [] OTHER -> <<"product_document", "code">>

\* collect_domain_evidence, called once per domain: the second call is told to use what the first has found.
Collect(d, q, task, interfaces) ==
    LET plan == Plan(task, interfaces)
        r == Reserve(book, [i \in DOMAIN plan |-> Sig(d, plan[i], q)]) IN
    /\ Idle
    /\ d \notin collected
    /\ collected' = collected \cup {d}
    /\ book' = r.book
    /\ tool' = [kind |-> "collect", d |-> d, q |-> q, task |-> task, fell |-> FALSE]
    /\ Board(r.allowed)
    /\ UNCHANGED <<cites, circuit, consent, mode, handed, cut>>

\* search_domain_code, search_domain_documents and the legacy search of the metric platform.
SearchScoped(d, source, q) ==
    /\ Idle
    /\ Allows(book, Sig(d, source, q))
    /\ book' = Reserve(book, <<Sig(d, source, q)>>).book
    /\ tool' = [kind |-> "scoped", d |-> d, q |-> q, task |-> "none", fell |-> FALSE]
    /\ Board(<<Sig(d, source, q)>>)
    /\ UNCHANGED <<collected, cites, circuit, consent, mode, handed, cut>>

\* inspect_domain_swagger reserves nothing.
InspectDomain(d, q) ==
    /\ Idle
    /\ tool' = [kind |-> "swagger", d |-> d, q |-> q, task |-> "none", fell |-> FALSE]
    /\ flights' = {Flight(Sig(d, "swagger", q))}
    /\ UNCHANGED <<bookVars, cites, circuit, consent, mode, ghosts>>

-----------------------------------------------------------------------------
(* MultiRouteRetrievalService.search and what search_modality makes of it *)

\* The vector route asks its circuit first.
AskVector(f) ==
    /\ f \in flights /\ f.at = "route"
    /\ Replace(f, [f EXCEPT !.at = IF "vector" \in circuit THEN "keyword" ELSE "both"])
    /\ UNCHANGED <<bookVars, cites, tool, circuit, consent, mode, ghosts>>

\* record_success, record_failure: whatever has happened to the circuit since allow.
Recorded(c, provider, verdict) ==
    CASE verdict = "ok" -> c \ {provider}
      [] verdict = "rejected" -> c \cup {provider}
      [] OTHER -> c

\* Mutant: no keyword results without the vectors'.
ResultsBoth(kw, vec, verdict, returned) == IF verdict = "ok" THEN Rank(kw, vec, returned, TopK) ELSE <<>>
\* The results of the two routes; one that fails leaves the other's.
Results(kw, vec, verdict, returned) == Rank(kw, IF verdict = "ok" THEN vec ELSE <<>>, returned, TopK)

\* Contract types the chunks refer to are looked up by their names, within the budget.
Refers(hits) == \E h \in Range(hits) : Facts[h.id].refers
Found(f, kw, vec, vectors, returned, reranker) ==
    LET asked == "rerank" \notin circuit /\ Merged(kw, IF vectors = "ok" THEN vec ELSE <<>>) # <<>>
        hits == Boosted(Results(kw, vec, vectors, IF asked /\ reranker = "ok" THEN returned ELSE <<>>))
        types == Sig(f.sig[1], f.source, "types")
        g == [f EXCEPT !.saw = Range(kw) \cup (IF vectors = "ok" THEN Range(vec) ELSE {}), !.got = hits]
        looksUp == f.source = "code" /\ tool.task = "api_contract" /\ Refers(hits) IN
    /\ circuit' = Recorded(Recorded(circuit, "vector", vectors), "rerank", IF asked THEN reranker ELSE "none")
    /\ IF looksUp
       THEN /\ Replace(f, [g EXCEPT !.at = IF Allows(book, types) THEN "types" ELSE "fields"])
            /\ book' = Reserve(book, <<types>>).book
            /\ searched' = IF Allows(book, types) THEN searched \cup {types} ELSE searched
            /\ UNCHANGED cites
       ELSE /\ Replace(f, [g EXCEPT !.at = "done"])
            /\ cites' = Added(hits)
            /\ UNCHANGED <<book, searched>>
    /\ UNCHANGED <<collected, tool, consent, mode, handed, cut>>

Verdicts == {"ok"} \cup (world.trouble \cap {"rejected", "failed"})
Find(f) ==
    /\ f \in flights /\ f.at \in {"keyword", "both"}
    /\ \E found \in world.find[f.source], vectors \in Verdicts,
          returned \in world.rerank, reranker \in Verdicts :
          Found(f, found[1], found[2], IF f.at = "keyword" THEN "failed" ELSE vectors, returned, reranker)

Extra(c) == [Hit(c, "none", 0, 0) EXCEPT !.exact = TRUE, !.extra = TRUE]
Complete(f, hits) ==
    /\ Replace(f, [f EXCEPT !.at = "done", !.got = hits])
    /\ cites' = Added(hits)
LookUp(f) ==
    /\ f \in flights /\ f.at = "types"
    /\ \E found \in world.types :
          IF found = <<>> THEN Replace(f, [f EXCEPT !.at = "fields"]) /\ UNCHANGED cites
          ELSE Complete(f, [i \in DOMAIN found |-> Extra(found[i])]
                           \o Without(f.got, {h \in Range(f.got) : h.id \in Range(found)}))
    /\ UNCHANGED <<bookVars, tool, circuit, consent, mode, ghosts>>

\* If that finds nothing, or is not allowed, a second search for the fields is tried.
Supplement(f) ==
    LET fields == Sig(f.sig[1], f.source, "fields") IN
    /\ f \in flights /\ f.at = "fields"
    /\ book' = Reserve(book, <<fields>>).book
    /\ IF Allows(book, fields)
       THEN /\ searched' = searched \cup {fields}
            /\ \E found \in world.find[f.source] :
                  LET more == Rank(found[1], found[2], <<>>, TopK) IN
                  Complete(f, f.got \o Without(more, {h \in Range(more) : \E g \in Range(f.got) : g.id = h.id}))
       ELSE Complete(f, f.got) /\ UNCHANGED searched
    /\ UNCHANGED <<collected, tool, circuit, consent, mode, handed, cut>>

\* inspect_swagger: the operations of a source are cited as soon as it has answered.
Operation(o) == Hit(o, "none", 0, 0)
Inspect(f) ==
    /\ f \in flights /\ f.at = "inspect"
    /\ IF f.left = <<>> THEN Complete(f, f.got)
       ELSE \E shown \in Head(f.left) :
              LET hits == [i \in DOMAIN shown |-> Operation(shown[i])] IN
              /\ Replace(f, [f EXCEPT !.left = Tail(@), !.got = @ \o hits])
              /\ cites' = Added(hits)
    /\ UNCHANGED <<bookVars, tool, circuit, consent, mode, ghosts>>

\* wait_for cancels the search, or it raises: nothing of it is handed on.
CutOff(f) ==
    /\ "cut" \in world.trouble
    /\ f \in flights /\ f.at \notin {"done", "cut"}
    /\ Replace(f, [f EXCEPT !.at = "cut", !.got = <<>>])
    /\ cut' = IF f.source = "swagger" THEN cut \cup Range(f.got) ELSE cut
    /\ UNCHANGED <<bookVars, cites, tool, circuit, consent, mode, searched, handed>>

Landed == \A f \in flights : f.at \in {"done", "cut"}
Brought == UNION {Range(f.got) : f \in flights}
FallsBack == tool.kind = "collect" /\ tool.task = "api_contract" /\ Brought = {} /\ ~tool.fell
\* An interface question nothing was found on is looked up in the documents.
FallBack ==
    LET r == Reserve(book, <<Sig(tool.d, "product_document", tool.q)>>) IN
    /\ ~Idle /\ Landed /\ FallsBack
    /\ tool' = [tool EXCEPT !.fell = TRUE]
    /\ book' = r.book
    /\ Board(r.allowed)
    /\ UNCHANGED <<collected, cites, circuit, consent, mode, handed, cut>>

Deliver ==
    /\ ~Idle /\ Landed /\ ~FallsBack
    /\ handed' = handed \cup Brought
    /\ tool' = NoTool
    /\ flights' = {}
    /\ UNCHANGED <<bookVars, cites, circuit, consent, mode, searched, cut>>

\* The cooldown of a circuit is over.
Cool(p) ==
    /\ p \in circuit
    /\ circuit' = circuit \ {p}
    /\ UNCHANGED <<bookVars, cites, tool, flights, consent, mode, ghosts>>

-----------------------------------------------------------------------------
(* The metric gateway *)

\* prepare: the user's message has to name the application and to confirm it; if not, the run is a clarification.
Prepare(app, confirmed) ==
    /\ Idle
    /\ IF app \in confirmed THEN consent' = app /\ UNCHANGED mode
       ELSE mode' = "clarification" /\ UNCHANGED consent
    /\ UNCHANGED <<bookVars, cites, tool, flights, circuit, ghosts>>

\* query_data, query_sql: with the token of whatever application was confirmed, which the agent may also get wrong.
QueryMetric(figures) ==
    /\ Idle
    /\ \/ mode' = "clarification" /\ UNCHANGED <<cites, handed>>
       \/ /\ consent # Nobody
          /\ cites' = Added(<<Operation(figures)>>)
          /\ handed' = handed \cup {Operation(figures)}
          /\ UNCHANGED mode
    /\ UNCHANGED <<bookVars, tool, flights, circuit, consent, searched, cut>>

\* A discovery tool of the metric platform's server: _extract_mcp_audit cites every call that comes back, with a result
\* or with an error.
Discover(tools, found) ==
    /\ Idle
    /\ cites' = Added(<<Operation(tools)>>)
    /\ handed' = IF found THEN handed \cup {Operation(tools)} ELSE handed
    /\ UNCHANGED <<bookVars, tool, flights, circuit, consent, mode, searched, cut>>

Progress ==
    \/ \E f \in flights : AskVector(f) \/ Find(f) \/ LookUp(f) \/ Supplement(f) \/ Inspect(f) \/ CutOff(f)
    \/ FallBack \/ Deliver
    \/ \E p \in Providers : Cool(p)
=============================================================================
