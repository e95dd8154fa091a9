------------------------------- MODULE Ranking -------------------------------
(***************************************************************************)
(* From the chunks two routes find to the citations an answer shows:       *)
(* HybridRerankService, the boost of exact matches, and                    *)
(* AgentRunContext.public_citations.                                       *)
(***************************************************************************)
EXTENDS Integers, Sequences, FiniteSets, SequencesExt, Filter

CONSTANTS
    Facts,      \* of each chunk and operation: type, key, title, symbol, exact (it has an identifier the query names)
    RrfK,
    MinFusion   \* the least fused score of a citation that is shown without a reranker's

Indices(s) == [i \in DOMAIN s |-> i]
Firsts(s, k) == SubSeq(s, 1, IF Len(s) < k THEN Len(s) ELSE k)
Picked(s, P(_)) == LET left == SelectSeq(Indices(s), P) IN [k \in DOMAIN left |-> s[left[k]]]
\* Sorted by Above, what is equal in the order it came: k - 1 elements come before the k-th.
Ordered(s, Above(_, _)) ==
    LET before(i) == {j \in DOMAIN s : Above(s[j], s[i]) \/ (~Above(s[i], s[j]) /\ j < i)} IN
    [k \in DOMAIN s |-> s[CHOOSE i \in DOMAIN s : Cardinality(before(i)) = k - 1]]

-----------------------------------------------------------------------------
(* HybridRerankService *)

Position(s, c) == CHOOSE i \in DOMAIN s : s[i] = c
\* 1 / (rrf_k + rank), scaled so that integers tell the ranks apart.
Contribution(s, c) == IF c \in Range(s) THEN 1000000 \div (RrfK + Position(s, c)) ELSE 0
Fusion(kw, vec, c) == Contribution(kw, c) + Contribution(vec, c)
\* merge: every chunk once, in the order of its fused score.
Merged(kw, vec) ==
    LET found == kw \o Without(vec, Range(kw)) IN
    Ordered(found, LAMBDA c, e : Fusion(kw, vec, c) > Fusion(kw, vec, e))

\* _final_result.  rerank is what the reranker thinks of it: "strong" if it passes the gate, "none" if it was not asked.
Hit(c, rerank, fusion, rank) ==
    [id |-> c, rerank |-> rerank, fusion |-> fusion, rank |-> rank, exact |-> Facts[c].exact, extra |-> FALSE]
\* rank: what the reranker returned, as far as it names candidates, or the merged order if that is nothing.
RankedBy(kw, vec, returned, topK) ==
    LET all == Merged(kw, vec)
        valid == Without(Firsts(returned, topK), {r \in Range(returned) : r.index \notin DOMAIN all}) IN
    [k \in DOMAIN valid |->
        Hit(all[valid[k].index], valid[k].rerank, Fusion(kw, vec, all[valid[k].index]), k)]
Fused(kw, vec, topK) ==
    LET all == Firsts(Merged(kw, vec), topK) IN
    [k \in DOMAIN all |-> Hit(all[k], "none", Fusion(kw, vec, all[k]), k)]
\* Mutant: a reranker that returns nothing leaves nothing.
RankReturned(kw, vec, returned, topK) == RankedBy(kw, vec, returned, topK)
Rank(kw, vec, returned, topK) ==
    IF RankedBy(kw, vec, returned, topK) # <<>> THEN RankedBy(kw, vec, returned, topK) ELSE Fused(kw, vec, topK)

\* _boost_exact_matches
Boosted(hits) ==
    LET sorted == Ordered(hits, LAMBDA h, g : h.exact /\ ~g.exact) IN
    [k \in DOMAIN sorted |-> [sorted[k] EXCEPT !.rank = k]]

-----------------------------------------------------------------------------
(* AgentRunContext.public_citations *)

Type(h) == Facts[h.id].type
Textual(h) == Type(h) \in {"code", "product_document"}
Exact(h) == h.exact \/ ~Textual(h)
Eligible(h) == Exact(h) \/ h.rerank = "strong" \/ (h.rerank = "none" /\ h.fusion >= MinFusion)
Score(h) == CASE h.rerank = "strong" -> 2 [] h.rerank = "weak" -> 1 [] OTHER -> 0
Key(h) == <<IF Exact(h) THEN 1 ELSE 0, Score(h), h.fusion, 0 - h.rank>>
Stronger(h, g) ==
    \E i \in 1..4 : Key(h)[i] > Key(g)[i] /\ \A j \in 1..(i - 1) : Key(h)[j] = Key(g)[j]
\* The exact lookups of referenced types come after the two strongest others.
WithExtras(s) ==
    LET extra == SelectSeq(s, LAMBDA h : h.extra)
        other == SelectSeq(s, LAMBDA h : ~h.extra) IN
    Firsts(other, 2) \o extra \o SubSeq(other, 3, Len(other))
Same(h, g) ==
    \/ Facts[h.id].key = Facts[g.id].key
    \/ Textual(h) /\ Type(h) = Type(g) /\ Facts[h.id].title = Facts[g.id].title
Distinct(s) == FoldLeft(LAMBDA kept, h : IF \E g \in Range(kept) : Same(h, g) THEN kept ELSE Append(kept, h), <<>>, s)
\* Mutant: simply the first ones.
LimitedFirst(s, limit) == Firsts(s, limit)
\* With more than there is room for, the first of every type comes before the second of any.
Limited(s, limit) ==
    LET first == SelectSeq(Indices(s), LAMBDA i : \A j \in 1..(i - 1) : Type(s[j]) # Type(s[i]))
        again == SelectSeq(Indices(s), LAMBDA i : i \notin Range(first))
        chosen == Range(Firsts(first \o again, limit)) IN
    Picked(s, LAMBDA i : i \in chosen)
PublicCitations(cites, limit) == Limited(Distinct(WithExtras(Ordered(SelectSeq(cites, Eligible), Stronger))), limit)

\* EvidencePolicy.classify
Confirmed(cites) == \E h \in Range(cites) : ~(Type(h) = "code") \/ Facts[h.id].symbol
\* AgentService._has_evidence: a log query that found nothing is a citation, but no evidence.
Evidence(cites) == \E h \in Range(cites) : Type(h) # "log_trace" \/ Facts[h.id].symbol
=============================================================================
