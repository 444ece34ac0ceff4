------------------------------- MODULE Retrieval -------------------------------
(***************************************************************************)
(* What a query computes from what it found: fusion of the two legs        *)
(* (core/retrieval/rrf_fusion.py), selection (reranker.py), the confidence *)
(* it reports (orchestrator.py), the passages of the prompt                *)
(* (prompt_builder.py), the check of figures (grounding.py), the check of  *)
(* markers (citations.py) and the price of a selection of sources          *)
(* (app/context/estimator.py).                                             *)
(*                                                                         *)
(* A chunk is a record [id, src, path, p]: path is "" for a chunk without  *)
(* a file, and p is what the cross-encoder makes of it, calibrated, in     *)
(* per cent.  Confidence is in hundredths of a per cent.                   *)
(***************************************************************************)
EXTENDS Naturals, Sequences, FiniteSets, SequencesExt, Subsequence

CONSTANTS RrfK,           \* RRFFusion._k
          MaxPerSource,   \* _MAX_CHUNKS_PER_SOURCE
          MaxChunks,      \* MAX_CHUNKS of the prompt
          Depths          \* CONTEXT_DEPTHS: depth -> limits, with a "focused"

ASSUME RetrievalAssumption ==
    /\ RrfK \in Nat \ {0} /\ MaxPerSource \in Nat \ {0} /\ MaxChunks \in Nat \ {0}
    /\ "focused" \in DOMAIN Depths
    /\ \A d \in DOMAIN Depths : /\ Depths[d].topK \in Nat \ {0} /\ Depths[d].cap \in Nat \ {0}
                                /\ Depths[d].maxSources \in Nat

Larger(a, b) == IF a > b THEN a ELSE b
Least(a, b) == IF a < b THEN a ELSE b

\* The elements of a set in a strict order, a set of pairs, as a sequence.
Ordered(S, before) ==
    [k \in 1..Cardinality(S) |->
       CHOOSE i \in S : Cardinality({j \in S : <<j, i>> \in before}) = k - 1]

\* What s has at some of its positions, in its order.
PickedFrom(s, places) ==
    LET order == Ordered(places, {r \in places \X places : r[1] < r[2]})
    IN  [k \in DOMAIN order |-> s[order[k]]]

\* Chunks by relevance, as Python sorts: stable.
BestFirst(chunks) ==
    LET ahead(i, j) == \/ chunks[i].p > chunks[j].p
                       \/ chunks[i].p = chunks[j].p /\ i < j
        places == DOMAIN chunks
        order == Ordered(places, {r \in places \X places : ahead(r[1], r[2])})
    IN  [k \in DOMAIN order |-> chunks[order[k]]]

SourcesOf(chunks) == {chunks[i].src : i \in DOMAIN chunks}

-----------------------------------------------------------------------------
(* Fusion *)

RankIn(list, id) == LET at == {i \in DOMAIN list : list[i].id = id}
                    IN  IF at = {} THEN 0 ELSE CHOOSE i \in at : TRUE

\* 1 / (k + rank), scaled to an integer; 0 for a chunk the leg did not return.
Share(list, id) == IF RankIn(list, id) = 0 THEN 0
                   ELSE 1000000 \div (RrfK + RankIn(list, id))

\* Seeded fault: the legs are joined without looking at the ids.
JoinTwice(bm25, dense) == bm25 \o dense

\* RRFFusion.fuse: one chunk per id, as it was met first, the best sum first and,
\* among equal sums, in the order they were met.
Fuse(bm25, dense) ==
    LET ids == {bm25[i].id : i \in DOMAIN bm25} \cup {dense[i].id : i \in DOMAIN dense}
        sum(id) == Share(bm25, id) + Share(dense, id)
        met(id) == IF RankIn(bm25, id) # 0 THEN RankIn(bm25, id)
                   ELSE Len(bm25) + RankIn(dense, id)
        ahead(x, y) == sum(x) > sum(y) \/ (sum(x) = sum(y) /\ met(x) < met(y))
        order == Ordered(ids, {r \in ids \X ids : ahead(r[1], r[2])})
        chunk(id) == IF RankIn(bm25, id) # 0 THEN bm25[RankIn(bm25, id)]
                     ELSE dense[RankIn(dense, id)]
    IN  [k \in DOMAIN order |-> chunk(order[k])]

Take(s, n) == SubSeq(s, 1, Least(n, Len(s)))

-----------------------------------------------------------------------------
(* Selection *)

\* _coverage_group: the file when it is known, else the source.
Group(c) == IF c.path # "" THEN <<"file", c.path>> ELSE <<"source", c.src>>

\* Seeded fault: the selection is by relevance alone.
ByRelevance(scored, topK, cap) == Take(scored, topK)

\* _diversify, over chunks sorted best first.
Diversify(scored, topK, cap) ==
    LET within(i) == Cardinality({j \in 1..i : Group(scored[j]) = Group(scored[i])})
        first(i) == CHOOSE j \in 1..i : Group(scored[j]) = Group(scored[i]) /\ within(j) = 1
        seeds == {i \in DOMAIN scored : within(i) = 1}
        ahead(i, j) == \/ scored[i].p > scored[j].p
                       \/ scored[i].p = scored[j].p /\ first(i) < first(j)
                       \/ scored[i].p = scored[j].p /\ first(i) = first(j) /\ i < j
        order == {r \in (DOMAIN scored) \X (DOMAIN scored) : ahead(r[1], r[2])}
        spare == {i \in DOMAIN scored \ seeds : within(i) <= cap}
        chosen == Ordered(seeds, order) \o Ordered(spare, order)
    IN  IF Cardinality(seeds) <= 1 THEN Take(scored, Least(topK, cap))
        ELSE IF Len(scored) <= topK THEN scored
        ELSE BestFirst([k \in 1..Least(topK, Len(chosen)) |-> scored[chosen[k]]])

\* The candidates with what the cross-encoder makes of each, best first.
Scored(candidates, score) ==
    BestFirst([i \in DOMAIN candidates |-> [candidates[i] EXCEPT !.p = score[i]]])

\* Seeded fault: the scores of the selection are added up.
RerankAddsUp(scored, topK, cap) ==
    LET kept == Diversify(scored, topK, cap)
        total[k \in 0..Len(kept)] == IF k = 0 THEN 0 ELSE total[k - 1] + 100 * kept[k].p
    IN  [chunks |-> kept, base |-> total[Len(kept)]]

\* Reranker.rerank: the selection, and the best score in it as confidence, with
\* a floor.
Rerank(scored, topK, cap) ==
    LET kept == Diversify(scored, topK, cap)
    IN  [chunks |-> kept,
         base |-> IF kept = <<>> THEN 0
                  ELSE Larger(100 * Max({kept[i].p : i \in DOMAIN kept}), 1500)]

\* retrieve_context, when the reranker raised: the fused order, all at one half.
Unranked(candidates, topK) ==
    [chunks |-> [i \in DOMAIN Take(candidates, topK) |-> [candidates[i] EXCEPT !.p = 50]],
     base |-> 5000]

-----------------------------------------------------------------------------
(* The question: how many words it has, and of which kinds *)

Kinds == {"greeting", "vague", "corpus", "layout", "pronoun", "topic"}

IsVague(q) == q.words <= 3 \/ "vague" \in q.kinds
IsChitchat(q) == q.words <= 3 /\ q.kinds = {"greeting"}
IsOverview(q) == q.words <= 8 /\ "corpus" \in q.kinds
IsStructure(q) == q.words <= 14 /\ "layout" \in q.kinds
IsUnderspecified(q) == q.words <= 6 /\ "pronoun" \in q.kinds

\* _resolve_hyde: the request's flag, then the setting, then the question.
ResolveHyde(flag, setting, q) ==
    IF flag # "auto" THEN flag = "on" ELSE setting \/ IsVague(q)

-----------------------------------------------------------------------------
(* Confidence *)

FocusTiers == <<<<90, 8500>>, <<70, 6500>>, <<55, 4500>>>>
Gate(q) == IF IsOverview(q) THEN 12 ELSE 20

\* The share of the chunks, in per cent, that the most frequent source has.
Focus(chunks) ==
    (100 * Max({Cardinality({i \in DOMAIN chunks : chunks[i].src = s}) : s \in SourcesOf(chunks)}))
        \div Len(chunks)

\* Seeded fault: one source is enough, however irrelevant.
FocusIsEnough(q, chunks, base) ==
    IF chunks = <<>> THEN base
    ELSE Max({base} \cup {FocusTiers[t][2] : t \in {u \in DOMAIN FocusTiers :
                                                 Focus(chunks) >= FocusTiers[u][1]}})

\* _apply_confidence: chunks from one source raise the confidence to a tier,
\* once the best of them is relevant enough.
ApplyConfidence(q, chunks, base) ==
    IF chunks = <<>> \/ IsChitchat(q) THEN base
    ELSE IF Max({chunks[i].p : i \in DOMAIN chunks}) < Gate(q) THEN base
    ELSE Max({base} \cup {FocusTiers[t][2] : t \in {u \in DOMAIN FocusTiers :
                                                  Focus(chunks) >= FocusTiers[u][1]}})

Coverage(confidence) == IF confidence > 8000 THEN "Excellent"
                        ELSE IF confidence > 6000 THEN "Strong"
                        ELSE IF confidence > 4000 THEN "Moderate"
                        ELSE IF confidence > 2500 THEN "Low"
                        ELSE "Weak"

\* check_grounding: an answer is a record [long, figures], its figures those of
\* the chunk texts or invented; figures of a short answer are not checked.
Checked(answer) == IF answer.long THEN answer.figures ELSE {}
Invented(answer, chunks) == Checked(answer) \ {chunks[i].id : i \in DOMAIN chunks}

\* Seeded fault: the penalty is a half.
HalfPenalty(confidence, answer, chunks) ==
    LET bad == Cardinality(Invented(answer, chunks))
        all == Cardinality(Checked(answer))
    IN  IF chunks = <<>> \/ bad = 0 THEN confidence
        ELSE Larger(confidence - (confidence * 50 * bad) \div (100 * all), 1500)

\* _grounded_confidence: down by three quarters of the share of figures that no
\* chunk has, but not below the floor.
Grounded(confidence, answer, chunks) ==
    LET bad == Cardinality(Invented(answer, chunks))
        all == Cardinality(Checked(answer))
    IN  IF chunks = <<>> \/ bad = 0 THEN confidence
        ELSE Larger(confidence - (confidence * 75 * bad) \div (100 * all), 1500)

\* _low_confidence_reason.
Reason(q, chunks, confidence, invented) ==
    IF confidence > 4000 THEN "none"
    ELSE IF invented > 0 THEN "not in your sources"
    ELSE IF chunks = <<>> THEN "no passages"
    ELSE IF IsUnderspecified(q) THEN "no topic"
    ELSE "no close match"

\* The metrics of a finished answer, as both query paths put them together.
Metrics(q, chunks, display, answer) ==
    LET invented == IF chunks = <<>> THEN 0 ELSE Cardinality(Invented(answer, chunks))
        final == Grounded(display, answer, chunks)
    IN  [confidence |-> final, coverage |-> Coverage(final),
         sources |-> Cardinality(SourcesOf(chunks) \ {""}),
         reason |-> Reason(q, chunks, final, invented)]

-----------------------------------------------------------------------------
(* The prompt, and the markers that refer to it *)

\* PromptBuilder.build: the passages, numbered by position.
Passages(chunks) ==
    LET new == {i \in DOMAIN chunks : \A j \in 1..(i - 1) : chunks[j].id # chunks[i].id}
    IN  Take(PickedFrom([i \in DOMAIN chunks |-> <<i, chunks[i]>>], new), MaxChunks)

\* parse_citations.  An answer is a sequence of pieces: a word, a space or a
\* bracket of numbers.  A bracket right behind a word or another bracket is taken
\* for a subscript; of any other the numbers beyond the sources go, and with the
\* last one the spaces before it.
IsBracket(piece) == piece.kind = "bracket"

GluedTo(answer, i) == i > 1 /\ answer[i - 1].kind # "space"

\* Seeded fault: the upper end of the range is not looked at.
PositiveOnly(piece, count) == SelectSeq(piece.numbers, LAMBDA n : n > 0)

InRange(piece, count) == KeptOf(piece.numbers, 1..count)

ParseCitations(answer, count) ==
    LET marker(i) == IsBracket(answer[i]) /\ ~GluedTo(answer, i)
        dropped(i) == marker(i) /\ InRange(answer[i], count) = <<>>
        swallowed(i) == /\ answer[i].kind = "space"
                        /\ \E j \in (i + 1)..Len(answer) :
                             /\ dropped(j)
                             /\ \A k \in i..(j - 1) : answer[k].kind = "space"
        rewritten(i) == IF ~marker(i) THEN <<answer[i]>>
                        ELSE [n \in DOMAIN InRange(answer[i], count) |->
                                [kind |-> "bracket", numbers |-> <<InRange(answer[i], count)[n]>>]]
    IN  IF count = 0 THEN answer
        ELSE FlattenSeq([i \in DOMAIN answer |->
                           IF dropped(i) \/ swallowed(i) THEN <<>> ELSE rewritten(i)])

-----------------------------------------------------------------------------
(* The price of a selection *)

\* resolve_context_depth: an unknown depth is the narrowest.
Limits(depth) == Depths[IF depth \in DOMAIN Depths THEN depth ELSE "focused"]

\* _limits_for: an explicit top_k replaces the depth, its ceiling included.
LimitsFor(request) ==
    IF request.topK # 0
    THEN [topK |-> request.topK, cap |-> MaxPerSource]
    ELSE [topK |-> Limits(request.depth).topK, cap |-> Limits(request.depth).cap]

\* The sum of what a function takes on.
Total(f) == FoldSet(LAMBDA x, sum : f[x] + sum, 0, DOMAIN f)

\* Seeded fault: the ceiling of each source is left out.
EstimateUncapped(wanted, held, depth) ==
    LET known == KeptOf(wanted, DOMAIN held)
        total(s) == Total([i \in DOMAIN s |-> held[s[i]]])
    IN  [total |-> total(known), dropped |-> {}, prompt |-> total(known),
         missing |-> {wanted[i] : i \in DOMAIN wanted} \ DOMAIN held]

\* estimate_context, in chunks of the full 512 tokens: held is source -> how
\* many chunks it has; the sources come in the order of the request.
Estimate(wanted, held, depth) ==
    LET known == KeptOf(wanted, DOMAIN held)
        kept == Take(known, Limits(depth).maxSources)
        total(s) == Total([i \in DOMAIN s |-> held[s[i]]])
        capped == Total([i \in DOMAIN kept |-> Least(held[kept[i]], Limits(depth).cap)])
    IN  [total |-> total(known),
         prompt |-> Least(Least(total(kept), Limits(depth).topK), capped),
         dropped |-> {known[i] : i \in (Len(kept) + 1)..Len(known)},
         missing |-> {wanted[i] : i \in DOMAIN wanted} \ DOMAIN held]
=============================================================================
