----------------------------- MODULE RetrievalLaws -----------------------------
(***************************************************************************)
(* What the algorithms of Retrieval promise, over bounded inputs: a        *)
(* behaviour draws a sample, and the properties compare what an algorithm  *)
(* makes of it with what its docstring says.                               *)
(***************************************************************************)
EXTENDS Retrieval

CONSTANTS MaxCandidates,  \* bound: chunks to select from
          MaxPieces       \* bound: pieces of an answer

VARIABLE sample

NoSample == [of |-> "none"]

\* Chunks of two files of a repository and of a page, best first.
Places == {[src |-> "repo", path |-> "f"], [src |-> "repo", path |-> "g"],
           [src |-> "page", path |-> ""]}
RankedBy(n, place, score) ==
    [i \in 1..n |-> [id |-> i, src |-> place[i].src, path |-> place[i].path, p |-> score[i]]]
Falling(n) == {s \in [1..n -> {20, 50, 90}] : \A i \in 2..n : s[i - 1] >= s[i]}

Ranking == {l \in UNION {[1..n -> 1..4] : n \in 0..3} : \A i, j \in DOMAIN l : l[i] = l[j] => i = j}
Pieces == {[kind |-> "word"], [kind |-> "space"]}
          \cup {[kind |-> "bracket", numbers |-> n] : n \in {<<1>>, <<9>>, <<9, 2>>}}

Draw ==
    /\ sample = NoSample
    /\ \/ \E n \in 1..MaxCandidates, k \in 1..4, cap \in 1..2 :
            \E place \in [1..n -> Places], score \in Falling(n) :
              sample' = [of |-> "selection", topK |-> k, cap |-> cap,
                         scored |-> RankedBy(n, place, score)]
       \/ \E b, d \in Ranking : sample' = [of |-> "fusion", bm25 |-> b, dense |-> d]
       \/ \E n \in 1..MaxPieces, count \in 0..2 : \E answer \in [1..n -> Pieces] :
            sample' = [of |-> "markers", answer |-> answer, count |-> count]
       \/ \E held \in [{"a", "b", "c"} -> 1..4], depth \in DOMAIN Depths \cup {"deep"} :
            \E n \in 1..3 : \E wanted \in [1..n -> {"a", "b", "c", "gone"}] :
              sample' = [of |-> "estimate", held |-> held, depth |-> depth, wanted |-> wanted]

Drop == sample # NoSample /\ sample' = NoSample

SampleInit == sample = NoSample
SampleNext == Draw \/ Drop

-----------------------------------------------------------------------------
(* Properties *)

CountOf(chunks, g) == Cardinality({i \in DOMAIN chunks : Group(chunks[i]) = g})

\* _diversify: best first; no chunk twice; when there is room for it every source
\* (or file of a repository) has its best chunk in, so "nothing is silently
\* dropped"; when there is not, the sources kept are the best ones; and no source
\* takes more than its ceiling, unless everything fits.
SelectionIsFair ==
    sample.of = "selection" =>
        LET scored == sample.scored  topK == sample.topK  cap == sample.cap
            kept == Diversify(scored, topK, cap)
            ids == {kept[i].id : i \in DOMAIN kept}
            groups == {Group(scored[i]) : i \in DOMAIN scored}
            best(g) == CHOOSE i \in DOMAIN scored :
                         Group(scored[i]) = g /\ \A j \in 1..(i - 1) : Group(scored[j]) # g
        IN  /\ \A i, j \in DOMAIN kept : i < j => kept[i].p >= kept[j].p /\ kept[i].id # kept[j].id
            /\ ids \subseteq DOMAIN scored /\ Len(kept) <= topK
            /\ Cardinality(groups) <= topK => {best(g) : g \in groups} \subseteq ids
            /\ \A g, h \in groups : best(g) \in ids /\ best(h) \notin ids =>
                 scored[best(g)].p >= scored[best(h)].p
            /\ Cardinality(groups) = 1 \/ Len(scored) > topK =>
                 \A g \in groups : CountOf(kept, g) <= cap
            /\ Len(kept) < topK => \A i \in DOMAIN scored :
                 i \notin ids => CountOf(kept, Group(scored[i])) >= cap

\* RRFFusion.fuse: every chunk of either leg comes out once, and one that both
\* legs prefer to another comes out before it.
FusionKeepsOrder ==
    sample.of = "fusion" =>
        LET chunk(list) == [i \in DOMAIN list |-> [id |-> list[i]]]
            fused == Fuse(chunk(sample.bm25), chunk(sample.dense))
            at(id) == CHOOSE i \in DOMAIN fused : fused[i].id = id
            ids == {sample.bm25[i] : i \in DOMAIN sample.bm25}
                   \cup {sample.dense[i] : i \in DOMAIN sample.dense}
            before(list, x, y) == /\ RankIn(chunk(list), x) # 0
                                  /\ \/ RankIn(chunk(list), y) = 0
                                     \/ RankIn(chunk(list), x) < RankIn(chunk(list), y)
        IN  /\ Len(fused) = Cardinality(ids)
            /\ \A id \in ids : \E i \in DOMAIN fused : fused[i].id = id
            /\ \A x, y \in ids : before(sample.bm25, x, y) /\ before(sample.dense, x, y) =>
                 at(x) < at(y)

\* parse_citations: no word is lost, and a number that refers to no source is
\* gone, unless its bracket stands right behind a word or another bracket, as a
\* subscript does.
MarkersPointRight ==
    sample.of = "markers" /\ sample.count > 0 =>
        LET answer == sample.answer
            parsed == ParseCitations(answer, sample.count)
            words(pieces) == Cardinality({i \in DOMAIN pieces : pieces[i].kind = "word"})
        IN  /\ words(parsed) = words(answer)
            /\ \A i \in DOMAIN parsed : IsBracket(parsed[i]) =>
                 \/ \A n \in DOMAIN parsed[i].numbers : parsed[i].numbers[n] \in 1..sample.count
                 \/ \E j \in DOMAIN answer : answer[j] = parsed[i] /\ GluedTo(answer, j)

\* estimate_context: a selection of documents that is within the sources of its
\* depth never puts more in the prompt than was estimated, unless everything fits.
EstimateHolds ==
    sample.of = "estimate" =>
        LET limits == Limits(sample.depth)
            wanted == sample.wanted
            priced == Estimate(wanted, sample.held, sample.depth)
            places == {x \in (ToSet(wanted) \cap DOMAIN sample.held) \X (1..4) :
                         x[2] <= sample.held[x[1]]}
            first(s) == CHOOSE n \in DOMAIN wanted :
                          wanted[n] = s /\ \A m \in 1..(n - 1) : wanted[m] # s
            at(x) == 4 * first(x[1]) + x[2]
            mine == Ordered(places, {r \in places \X places : at(r[1]) < at(r[2])})
            scored == [i \in DOMAIN mine |-> [id |-> i, src |-> mine[i][1], path |-> "", p |-> 50]]
        IN  /\ priced.dropped = {} /\ (Len(scored) > limits.topK \/ Cardinality(SourcesOf(scored)) = 1)
                 => Len(Diversify(scored, limits.topK, limits.cap)) <= priced.prompt
            /\ priced.prompt <= Least(priced.total, limits.topK)
            /\ priced.missing = ToSet(wanted) \ DOMAIN sample.held
=============================================================================
