------------------------------- MODULE Routing -------------------------------
(***************************************************************************)
(* Who answers a question: RequestGuard, DomainIntentRouter, its hybrid    *)
(* with a model, and AgentService._select_manager.                         *)
(*                                                                         *)
(* A message is what the rules see of it: greets, sensitive, writes (it    *)
(* names a write and its target), orders (it asks to have it done),        *)
(* explains (it asks how), terms (the domains it has terms of), error      *)
(* ("strong" for a trace id or a status, "weak" for a mere 'error'),       *)
(* diagnosis, lookup (of an interface's existence), vague, data (it asks   *)
(* for figures) and task.  read is what the model reads in it if asked: no *)
(* domains if it fails.                                                    *)
(***************************************************************************)
EXTENDS FiniteSets

CONSTANTS Domains, Metric, General

Unknown(task) == [domains |-> {}, intent |-> "unknown", sure |-> FALSE, vague |-> FALSE, task |-> task]

\* RequestGuard.evaluate: "none" if the message is to be answered.
Guarded(m) ==
    CASE m.greets -> "greeting"
      [] ~m.greets /\ m.sensitive -> "refusal"
      [] ~m.greets /\ ~m.sensitive /\ m.writes /\ m.orders /\ ~m.explains -> "refusal"
      [] OTHER -> "none"

IsLookup(m) == m.terms # {} /\ m.lookup /\ ~m.diagnosis
IsBug(m) == ~IsLookup(m) /\ (m.error = "strong" \/ (m.error = "weak" /\ (m.terms = {} \/ m.diagnosis)))
RuleTask(m) ==
    IF IsLookup(m) THEN "api_contract"
    ELSE IF m.terms = {Metric} /\ m.data /\ m.task \in {"how_to", "unknown"} THEN "metric_query"
    ELSE m.task
Intent(domains) == IF Cardinality(domains) = 1 THEN CHOOSE d \in domains : TRUE ELSE "cross-domain"

\* DomainIntentRouter.route
ByRules(m) ==
    IF IsBug(m) THEN [domains |-> {"bug"}, intent |-> "bug", sure |-> TRUE, vague |-> FALSE, task |-> "bug"]
    ELSE IF m.terms = {} THEN Unknown(RuleTask(m))
    ELSE [domains |-> m.terms, intent |-> Intent(m.terms), sure |-> TRUE,
          vague |-> Cardinality(m.terms) = 1 /\ m.vague /\ ~IsLookup(m), task |-> RuleTask(m)]

\* HybridDomainIntentRouter.route: a model is asked where the rules know nothing, if there is one.
ByModel(m) ==
    IF m.read.domains = {} THEN ByRules(m)
    ELSE [domains |-> m.read.domains, intent |-> Intent(m.read.domains), sure |-> TRUE, vague |-> m.read.vague,
          task |-> IF m.read.task # "unknown" THEN m.read.task ELSE ByRules(m).task]
Route(m) == IF ByRules(m).domains = {} THEN ByModel(m) ELSE ByRules(m)

\* AgentService._select_manager: the domain the client chose, or the one the router is sure of; the general manager
\* otherwise.  Both confidences a router gives to a domain pass the threshold.
Selected(m, chosen) ==
    IF chosen \in Domains
    THEN [domains |-> {chosen}, intent |-> chosen, task |-> ByRules(m).task, manager |-> chosen]
    ELSE LET d == Route(m) IN
         [domains |-> d.domains, intent |-> d.intent, task |-> d.task,
          manager |-> IF Cardinality(d.domains) = 1 /\ d.domains \subseteq Domains /\ d.sure /\ ~d.vague
                      THEN d.intent ELSE General]
=============================================================================
