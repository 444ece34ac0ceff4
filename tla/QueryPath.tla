------------------------------- MODULE QueryPath -------------------------------
(***************************************************************************)
(* One question from the request to its last event: routes/query.py,       *)
(* services/query_service.py, Orchestrator.retrieve_context and answer,    *)
(* retrieval/hybrid_retriever.py and hyde.py.  One action per await, so    *)
(* that the stores change between any two of them: an ingest adds a source *)
(* to FAISS and then to BM25, a deletion removes it in the same order and  *)
(* may leave the BM25 half behind (see KnowledgeBase).                     *)
(*                                                                         *)
(* What the legs rank first, what the cross-encoder thinks and what the    *)
(* model writes is anything; what is computed from it is in Retrieval.     *)
(***************************************************************************)
EXTENDS Retrieval

CONSTANTS Texts,      \* the chunks there may be, as records [id, src, path, p]
          Requests,   \* what may be asked: question, selection of sources ({} for
                      \* none), no_sources, streamed or not, HyDE flag, limits
          Scores,     \* what the cross-encoder may make of a chunk
          TopK,       \* candidates per leg
          MaxTokens,  \* bound on the tokens of a stream
          Answers     \* answers to check: [long, figures]

VARIABLES dense, lexical,  \* the sources FAISS and BM25 hold
          pc,              \* where the request stands
          req,             \* its arguments
          exclude,         \* exclude_source_ids: <<>> for None, or <<set>>
          legs,            \* the result of each leg, once it is in
          kept,            \* what retrieve_context returned: [chunks, base]
          sent,            \* the kinds of events sent, in order
          result,          \* the metrics of a finished answer, or <<>>
          \* history
          listed,          \* what FAISS listed when the exclusions were read
          unscoped,        \* that list could not be read
          ranked           \* the reranker answered

vars == <<dense, lexical, pc, req, exclude, legs, kept, sent, result,
          listed, unscoped, ranked>>
stores == <<dense, lexical>>
ghosts == <<listed, unscoped, ranked>>

SourceIds == {t.src : t \in Texts}
Chunks == [id : {t.id : t \in Texts}, src : SourceIds, path : {t.path : t \in Texts}, p : 0..100]

\* A chunk id is of one chunk, and relevance is a share of one.
ASSUME QueryAssumption ==
    /\ Texts \subseteq Chunks /\ IsFiniteSet(Texts)
    /\ \A t, u \in Texts : t.id = u.id => t = u
    /\ Scores \subseteq 0..100 /\ TopK \in Nat
    /\ \A r \in Requests : r.limits.topK \in Nat /\ r.limits.cap \in Nat
    /\ \A a \in Answers : IsFiniteSet(a.figures)

Waiting == [l \in {"bm25", "dense"} |-> [in |-> FALSE, found |-> <<>>]]
Nothing == [chunks |-> <<>>, base |-> 0]
NoRequest == [q |-> [words |-> 1, kinds |-> {"topic"}], scope |-> {}, none |-> FALSE,
              stream |-> FALSE, hyde |-> "auto", limits |-> [topK |-> 1, cap |-> 1]]

Init == /\ dense \in SUBSET SourceIds /\ lexical = dense
        /\ pc = "idle" /\ req = NoRequest /\ exclude = <<>> /\ legs = Waiting
        /\ kept = Nothing /\ sent = <<>> /\ result = <<>>
        /\ listed = {} /\ unscoped = FALSE /\ ranked = FALSE

\* What a request sends as it goes; only a stream sends anything before the end.
Send(events) == sent' = IF req.stream THEN sent \o events ELSE sent

\* A request passes its schema.  Listing the paths for a question about the
\* layout is its first await; with no sources, or for a greeting, nothing is
\* looked up.
Ask(r) ==
    /\ pc = "idle" /\ req' = r
    /\ pc' = IF ~r.none /\ r.scope # {} /\ IsStructure(r.q) THEN "manifest" ELSE "retrieve"
    /\ UNCHANGED <<stores, exclude, legs, kept, sent, result, ghosts>>

\* The request is over, and the next one finds nothing of it.
Close ==
    /\ pc \in {"done", "failed"} /\ pc' = "idle" /\ req' = NoRequest
    /\ exclude' = <<>> /\ legs' = Waiting /\ kept' = Nothing
    /\ sent' = <<>> /\ result' = <<>>
    /\ listed' = {} /\ unscoped' = FALSE /\ ranked' = FALSE
    /\ UNCHANGED stores

\* An error ends the request: a stream says so, after what it has sent.
Fail == /\ pc' = "failed" /\ Send(<<"error">>)

ListPaths ==
    /\ pc = "manifest"
    /\ \/ pc' = "retrieve" /\ UNCHANGED sent
       \/ Fail
    /\ UNCHANGED <<stores, req, exclude, legs, kept, result, ghosts>>

\* retrieve_context up to its first await; a HyDE failure is an expansion that
\* changes nothing.
Retrieve(setting) ==
    /\ pc = "retrieve"
    /\ pc' = IF req.none \/ IsChitchat(req.q) THEN "generate"
             ELSE IF ResolveHyde(req.hyde, setting, req.q) THEN "hyde" ELSE "embed"
    /\ Send(<<"retrieving">> \o IF pc' = "generate" THEN <<"generating">> ELSE <<>>)
    /\ UNCHANGED <<stores, req, exclude, legs, kept, result, ghosts>>

Expand == /\ pc = "hyde" /\ pc' = "embed"
          /\ UNCHANGED <<stores, req, exclude, legs, kept, sent, result, ghosts>>

Embed == /\ pc = "embed"
         /\ \/ pc' = "scope" /\ UNCHANGED sent
            \/ Fail
         /\ UNCHANGED <<stores, req, exclude, legs, kept, result, ghosts>>

\* Seeded fault: the exclusions are read from what both stores hold.
ReadScopeOfBoth ==
    /\ pc = "scope" /\ pc' = "legs"
    /\ \/ /\ req.scope = {} /\ UNCHANGED <<exclude, listed, unscoped>>
       \/ /\ req.scope # {}
          /\ exclude' = <<(dense \cap lexical) \ req.scope>> /\ listed' = dense
          /\ UNCHANGED unscoped
    /\ UNCHANGED <<stores, req, legs, kept, sent, result, ranked>>

\* _source_exclude_set: what FAISS lists now, without the selection; nothing
\* when there is no selection or the list cannot be read.
ReadScope ==
    /\ pc = "scope" /\ pc' = "legs"
    /\ \/ /\ req.scope = {}
          /\ UNCHANGED <<exclude, listed, unscoped>>
       \/ /\ req.scope # {}
          /\ exclude' = <<dense \ req.scope>> /\ listed' = dense
          /\ UNCHANGED unscoped
       \/ /\ req.scope # {} /\ unscoped' = TRUE
          /\ UNCHANGED <<exclude, listed>>
    /\ UNCHANGED <<stores, req, legs, kept, sent, result, ranked>>

\* One leg answers, in any order of relevance, or fails and counts as empty.
Found(held) ==
    LET mine == {t \in Texts : t.src \in held \ (IF exclude = <<>> THEN {} ELSE exclude[1])}
    IN  {Take(s, TopK) : s \in SetToSeqs(mine)} \cup {<<>>}

Leg(name, held) ==
    /\ pc = "legs" /\ ~legs[name].in
    /\ \E f \in Found(held) : legs' = [legs EXCEPT ![name] = [in |-> TRUE, found |-> f]]
    /\ UNCHANGED <<stores, pc, req, exclude, kept, sent, result, ghosts>>

DenseLeg == Leg("dense", dense)
LexicalLeg == Leg("bm25", lexical)

\* Seeded fault: legs that found nothing are waited for.
SomethingFound == \A l \in DOMAIN legs : legs[l].found # <<>>
BothIn == \A l \in DOMAIN legs : legs[l].in

\* HybridRetriever.retrieve once both legs are in, and the reranker, which may
\* fail; the sources are announced before the answer is begun.
Select ==
    /\ pc = "legs" /\ BothIn
    /\ \E fused \in {Take(Fuse(legs.bm25.found, legs.dense.found), TopK)} :
          \/ /\ ranked' = TRUE
             /\ \E score \in [DOMAIN fused -> Scores] : \E scored \in {Scored(fused, score)} :
                   kept' = Rerank(scored, req.limits.topK, req.limits.cap)
          \/ /\ ranked' = FALSE /\ fused # <<>>
             /\ kept' = Unranked(fused, req.limits.topK)
    /\ pc' = "generate"
    /\ Send((IF kept'.chunks = <<>> THEN <<>> ELSE <<"sources">>) \o <<"generating">>)
    /\ exclude' = <<>> /\ legs' = Waiting
    /\ UNCHANGED <<stores, req, result, listed, unscoped>>

Token == /\ pc = "generate" /\ req.stream
         /\ Cardinality({i \in DOMAIN sent : sent[i] = "token"}) < MaxTokens
         /\ Send(<<"token">>)
         /\ UNCHANGED <<stores, pc, req, exclude, legs, kept, result, ghosts>>

\* The answer is complete: its figures are checked and the metrics reported.
Finish(answer) ==
    /\ pc = "generate" /\ pc' = "done"
    /\ result' = <<[metrics |-> Metrics(req.q, kept.chunks,
                                 ApplyConfidence(req.q, kept.chunks, kept.base), answer),
                    answer |-> answer]>>
    /\ Send(<<"sources", "latency", "confidence", "done">>)
    /\ UNCHANGED <<stores, req, exclude, legs, kept, ghosts>>

\* Seeded fault: a failed generation is not told to the client.
FailsSilently ==
    /\ pc = "generate" /\ pc' = "failed" /\ UNCHANGED sent
    /\ UNCHANGED <<stores, req, exclude, legs, kept, result, ghosts>>

GenerateFails ==
    /\ pc = "generate" /\ Fail
    /\ UNCHANGED <<stores, req, exclude, legs, kept, result, ghosts>>

\* The stores change under the request.
Ingested(s) == \/ s \notin dense /\ dense' = dense \cup {s} /\ UNCHANGED lexical
               \/ s \in dense \ lexical /\ lexical' = lexical \cup {s} /\ UNCHANGED dense
Deleted(s) == \/ s \in dense /\ dense' = dense \ {s} /\ UNCHANGED lexical
              \/ s \in lexical \ dense /\ lexical' = lexical \ {s} /\ UNCHANGED dense

Elsewhere == /\ pc \in {"scope", "legs"}
             /\ \E s \in SourceIds : Ingested(s) \/ Deleted(s)
             /\ UNCHANGED <<pc, req, exclude, legs, kept, sent, result, ghosts>>

Step == \/ ListPaths \/ (\E setting \in BOOLEAN : Retrieve(setting)) \/ Expand \/ Embed
        \/ ReadScope \/ DenseLeg \/ LexicalLeg \/ Select
        \/ (\E a \in Answers : Finish(a)) \/ GenerateFails

Next == \/ \E r \in Requests : Ask(r)
        \/ Step \/ Token \/ Close \/ Elsewhere

\* Every await ends: the stores, the models and the threads answer or raise.
Fairness == WF_vars(Step)

Spec == Init /\ [][Next]_vars /\ Fairness

-----------------------------------------------------------------------------
(* Properties *)

\* All of it, in hundredths of a per cent.
Whole == 10000

TypeOK ==
    /\ dense \subseteq SourceIds /\ lexical \subseteq SourceIds
    /\ pc \in {"idle", "manifest", "retrieve", "hyde", "embed", "scope", "legs",
               "generate", "done", "failed"}
    /\ SourcesOf(kept.chunks) \subseteq SourceIds /\ kept.base \in 0..Whole
    /\ listed \subseteq SourceIds /\ unscoped \in BOOLEAN /\ ranked \in BOOLEAN

\* A question asked of selected sources is answered from those: anything else in
\* the answer is of a source that FAISS did not list when the scope was read
\* (ingested since, or left in BM25 only), or the list could not be read.
ScopeKept ==
    req.scope # {} /\ ~unscoped =>
        SourcesOf(kept.chunks) \subseteq req.scope \cup (SourceIds \ listed)

\* Number n in a marker that survives the check is the n-th source the reader is
\* shown and the n-th passage the model was given (_format_context).
CitationsPointRight ==
    LET passages == Passages(kept.chunks)
    IN  \A n \in 1..Least(Len(kept.chunks), MaxChunks) :
            n \in DOMAIN passages /\ passages[n][2] = kept.chunks[n]

\* Concentration in one source "must never manufacture confidence on its own":
\* an answer whose best chunk is below the gate is reported at what that chunk is
\* worth, or the floor.  Not so when the reranker failed.
NoMadeUpConfidence ==
    result # <<>> /\ ranked /\ kept.chunks # <<>> =>
        LET best == Max({kept.chunks[i].p : i \in DOMAIN kept.chunks})
        IN  best < Gate(req.q) => result[1].metrics.confidence <= Larger(100 * best, 1500)

\* An answer all of whose figures are in no chunk is reported as weak, whatever
\* the retrieval was worth, and with that reason.
InventedIsWeak ==
    result # <<>> =>
        LET a == result[1].answer  m == result[1].metrics
        IN  /\ Checked(a) # {} /\ kept.chunks # <<>>
            /\ Invented(a, kept.chunks) = Checked(a)
            => m.coverage = "Weak" /\ m.reason = "not in your sources"

\* An answer is worth what its sources are.
ConfidenceIsEarned == NoMadeUpConfidence /\ InventedIsWeak

\* The events of a stream: tokens follow the sources they were written from,
\* and nothing follows the terminator, which a stream that ended has.
At(i, kind) == i \in DOMAIN sent /\ sent[i] = kind
StreamShape ==
    /\ \A i \in DOMAIN sent : At(i, "token") =>
          \E j \in 1..(i - 1) : At(j, "generating")
                                /\ (kept.chunks # <<>> => At(j - 1, "sources"))
    /\ \A i \in DOMAIN sent : sent[i] \in {"done", "error"} => i = Len(sent)
    /\ req.stream /\ pc \in {"done", "failed"} => Last(sent) \in {"done", "error"}

\* Every question is answered or refused.
Ended == pc \in {"idle", "done", "failed"}
QuestionsEnd == []<>Ended

=============================================================================
