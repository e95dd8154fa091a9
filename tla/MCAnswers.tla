------------------------------ MODULE MCAnswers ------------------------------
(***************************************************************************)
(* Two domains, one of them the metric platform.  Each mix asks about one  *)
(* part: what the words of a model do to the stream, who speaks when, what *)
(* evidence is collected, the metric gateway, the bug diagnosis, the guard.*)
(***************************************************************************)
EXTENDS Answers

CONSTANTS dev, met, mgr, bugTool, q1, app1, app2, c1, c2, c3, p1, p2, w1, w2, k1, dto, fig, disc, log0, log1

MCDomains == {dev, met}

Fact(type, key) == [type |-> type, key |-> key, title |-> key, symbol |-> FALSE, exact |-> FALSE, refers |-> FALSE]
MCFacts ==
    (c1 :> [Fact("code", "a") EXCEPT !.refers = TRUE, !.exact = TRUE]) @@
    (c2 :> [Fact("code", "b") EXCEPT !.symbol = TRUE]) @@
    (c3 :> [Fact("code", "c") EXCEPT !.title = "b"]) @@
    (p1 :> Fact("product_document", "d")) @@ (p2 :> Fact("product_document", "e")) @@
    (w1 :> Fact("swagger_api", "f")) @@ (w2 :> Fact("swagger_api", "g")) @@
    (k1 :> Fact("product_document", "d")) @@
    (dto :> [Fact("code", "h") EXCEPT !.symbol = TRUE]) @@
    (fig :> Fact("mcp_tool", "i")) @@ (disc :> Fact("mcp_tool", "l")) @@
    (log0 :> Fact("log_trace", "j")) @@ (log1 :> [Fact("log_trace", "k") EXCEPT !.symbol = TRUE])

Nothing == << <<>>, <<>> >>
\* Evidence in every kind of source, and providers that fail.
Rich == [find |-> [s \in {"code", "product_document", "knowledge"} |->
             CASE s = "code" -> {<< <<c1, c2>>, <<c3>> >>, Nothing}
               [] s = "product_document" -> {<< <<p1>>, <<p2, p1>> >>}
               [] OTHER -> {<< <<k1>>, <<>> >>}],
         rerank |-> {<<>>, <<[index |-> 2, rerank |-> "strong"], [index |-> 1, rerank |-> "weak"]>>},
         types |-> {<<>>, <<dto>>},
         inspect |-> [d \in MCDomains |-> <<{<<w1>>}, {<<>>, <<w2>>}>>],
         budget |-> 4, trouble |-> {"rejected", "failed", "cut"}]
\* One search finds something or nothing.
Poor == [find |-> [s \in {"code", "product_document", "knowledge"} |->
             IF s = "code" THEN {<< <<c2>>, <<>> >>, Nothing} ELSE {Nothing}],
         rerank |-> {<<>>}, types |-> {<<>>}, inspect |-> [d \in MCDomains |-> <<>>], budget |-> 1, trouble |-> {}]
\* What is there is found, unless it is cut off.
Sure == [Rich EXCEPT !.find["code"] = {<< <<c1>>, <<c3>> >>}, !.rerank = {<<>>}, !.budget = 3,
                      !.trouble = {"rejected", "cut"}]

-----------------------------------------------------------------------------
Plain == [greets |-> FALSE, sensitive |-> FALSE, writes |-> FALSE, orders |-> FALSE, explains |-> FALSE, terms |-> {},
          error |-> "none", diagnosis |-> FALSE, lookup |-> FALSE, vague |-> FALSE, data |-> FALSE, task |-> "unknown",
          read |-> [domains |-> {}, task |-> "unknown", vague |-> FALSE]]
About(terms, task) == [Plain EXCEPT !.terms = terms, !.task = task]

Question(m) == [message |-> m, chosen |-> "none", world |-> Poor, pro |-> FALSE, proLength |-> 0, words |-> {"a"},
                length |-> 0, memory |-> "none", specialists |-> {}, composite |-> TRUE, metrics |-> {},
                confirmed |-> {}]
Writing(m, words, n) == [Question(m) EXCEPT !.words = words, !.length = n]
Reasoning(q, n) == [q EXCEPT !.pro = TRUE, !.proLength = n]

MCQuestions ==
    \* the guard
    {Question([Plain EXCEPT !.greets = TRUE]),
     Question([Plain EXCEPT !.sensitive = TRUE]),
     Question([Plain EXCEPT !.writes = TRUE, !.orders = TRUE])} \cup
    \* what a model writes, delta by delta, with remembered lines and without
    {[Writing(Plain, {"a", "nl", "i1", "i2"}, 5) EXCEPT !.memory = mem] : mem \in {"none", "recalled"}} \cup
    \* several specialists and a synthesis
    {[Writing(About({dev, met}, "code_lookup"), {"a"}, 3) EXCEPT !.specialists = {dev, met}],
     Reasoning([Writing(About({dev, met}, "code_lookup"), {"a", "i1", "i2"}, 2) EXCEPT !.specialists = {dev}], 3),
     Reasoning([Writing(About({dev, met}, "code_lookup"), {"a", "nl"}, 1) EXCEPT
         !.specialists = {dev}, !.memory = "recalled"], 4)} \cup
    \* the general manager, on its own and with specialists it asks
    {Reasoning([Writing([Plain EXCEPT !.read = [domains |-> {dev}, task |-> "code_lookup", vague |-> TRUE]],
                        {"a", "neg"}, 3) EXCEPT !.specialists = {dev, met}], 1)} \cup
    \* a domain's manager and its evidence
    {[Writing(About({dev}, t), {"a"}, 1) EXCEPT !.world = Rich, !.chosen = dev] :
        t \in {"api_contract", "code_lookup"}} \cup
    {[Writing([About({dev}, "requirement_analysis") EXCEPT !.lookup = l], {"a", "neg"}, 1) EXCEPT !.world = Rich] :
        l \in BOOLEAN} \cup
    {[Writing(About({dev}, "api_contract"), {"a"}, 1) EXCEPT !.world = Sure],
     [Writing(About({dev}, "how_to"), {"a"}, 1) EXCEPT !.world = Sure, !.composite = FALSE]} \cup
    \* figures
    {[Writing([About({met}, "how_to") EXCEPT !.data = TRUE], {"a"}, 2) EXCEPT
        !.metrics = {app1, app2}, !.confirmed = {app1}, !.composite = c] : c \in BOOLEAN} \cup
    \* an error: straight to the diagnosis, or by a tool of the general manager
    {[Writing([Plain EXCEPT !.error = "strong"], {"a", "i1", "i2", "nl"}, 3) EXCEPT
        !.specialists = {bugTool}, !.memory = "recalled"],
     Reasoning([Writing(About({dev, met}, "code_lookup"), {"a"}, 3) EXCEPT !.specialists = {dev, bugTool}], 1)}
=============================================================================
