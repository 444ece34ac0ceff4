------------------------------ MODULE MCQueryPath ------------------------------
(* TLC instances of QueryPath (two sources of one chunk each, and questions that *)
(* differ in kind), of FallbackLLM (two calls over a chain of two providers) and *)
(* of RetrievalLaws, side by side.                                               *)
EXTENDS QueryPath, RetrievalLaws, TLC

CONSTANTS Calls, N, MaxRetries, CooldownDefault, CooldownMax, MaxTime,
          ChainTokens   \* bound: tokens of a stream of the chain

VARIABLES side, now, until, callpc, chain, attempt, tokens,
          asked, shortened, unheard, sole, cold, tried

MCTexts == {[id |-> 1, src |-> "repo", path |-> "f", p |-> 0],
            [id |-> 2, src |-> "page", path |-> "", p |-> 0]}
MCQuestions == {[words |-> 2, kinds |-> {"greeting"}],
                [words |-> 5, kinds |-> {"topic"}],
                [words |-> 5, kinds |-> {"layout", "corpus", "pronoun"}]}
MCDepths == [focused |-> [topK |-> 2, cap |-> 1, maxSources |-> 1],
             broad |-> [topK |-> 3, cap |-> 2, maxSources |-> 2]]
MCRequests == [q: MCQuestions, scope: {{}, {"repo"}}, none: BOOLEAN, stream: BOOLEAN,
               hyde: {"auto"},
               limits: {LimitsFor([topK |-> k, depth |-> "focused"]) : k \in {0, 1}}]
MCAnswers == {[long |-> TRUE, figures |-> {}], [long |-> TRUE, figures |-> {1, 9}],
              [long |-> TRUE, figures |-> {9}], [long |-> FALSE, figures |-> {9}]}
MCHints == {<<>>, <<4>>}

Chain == INSTANCE FallbackLLM
           WITH pc <- callpc, MaxTokens <- ChainTokens, Hints <- MCHints
ASSUME ChainAssumption == Chain!ChainAssumption
calling == <<now, until, callpc, chain, attempt, tokens, asked, shortened, unheard,
             sole, cold, tried>>

NoChain == /\ now = 0 /\ until = <<>> /\ callpc = <<>> /\ chain = <<>> /\ attempt = <<>>
           /\ tokens = <<>> /\ asked = <<>> /\ shortened = {} /\ unheard = {}
           /\ sole = <<>> /\ cold = <<>> /\ tried = <<>>
NoStores == dense = {} /\ Init

AllInit == /\ SampleInit
           /\ \/ side = "question" /\ Init /\ NoChain
              \/ side = "chain" /\ Chain!Init /\ NoStores
              \/ side = "laws" /\ NoChain /\ NoStores
AllNext == /\ UNCHANGED side
           /\ \/ side = "question" /\ Next /\ UNCHANGED <<calling, sample>>
              \/ side = "chain" /\ Chain!Next /\ UNCHANGED <<vars, sample>>
              \/ side = "laws" /\ SampleNext /\ UNCHANGED <<vars, calling>>
AllSpec == AllInit /\ [][AllNext]_<<side, vars, calling, sample>>

(* TypeOK of QueryPath and of FallbackLLM.                                        *)
Types == TypeOK /\ (side = "chain" => Chain!TypeOK)

(* A number in an answer means one passage: the one the model was shown under it  *)
(* is the one listed under it, and a marker that means none is taken out          *)
(* (CitationsPointRight of QueryPath, MarkersPointRight of RetrievalLaws).        *)
NumbersPointRight == CitationsPointRight /\ MarkersPointRight

(* What the chain does with its providers: it leaves alone those that asked for   *)
(* it, and fails only after the others (LimitedSkipped and FailedTriedAll of      *)
(* FallbackLLM).                                                                  *)
ChainIsRun == side = "chain" => Chain!LimitedSkipped /\ Chain!FailedTriedAll

(* How chunks are merged, chosen and counted: FusionKeepsOrder, SelectionIsFair   *)
(* and EstimateHolds of RetrievalLaws.                                            *)
RankingIsFair == FusionKeepsOrder /\ SelectionIsFair /\ EstimateHolds

Symmetry == Permutations(Calls)
=============================================================================
