----------------------------- MODULE MCProgress -----------------------------
(* What must eventually happen, side by side: in Bm25Index, FallbackLLM (which *)
(* implements Generation), QueryPath and Studio.                               *)
EXTENDS Bm25Index, TLC

CONSTANTS s1, s2, c1

OneSource == c1 :> s1
Anything == [p \in Procs |-> Kinds]

VARIABLES side,
          now, until, cpc, chain, attempt, tokens, asked, shortened, unheard, sole, cold, tried,
          dense, lexical, qpc, req, exclude, legs, kept, sent, result, listed, unscoped, ranked,
          sources, shelf, papers, jobs, rivals, changes, requests, sfaults, scrashes

call == <<now, until, cpc, chain, attempt, tokens, asked, shortened, unheard, sole, cold, tried>>
question == <<dense, lexical, qpc, req, exclude, legs, kept, sent, result, listed, unscoped,
              ranked>>
studio == <<sources, shelf, papers, jobs, rivals, changes, requests, sfaults, scrashes>>

Chain == INSTANCE FallbackLLM
           WITH Calls <- {c1}, N <- 2, MaxRetries <- 2, CooldownDefault <- 1, CooldownMax <- 2,
                Hints <- {<<>>, <<4>>}, MaxTime <- 1, MaxTokens <- 2, pc <- cpc
Query == INSTANCE QueryPath
           WITH RrfK <- 60, MaxPerSource <- 2, MaxChunks <- 2,
                Depths <- [focused |-> [topK |-> 2, cap |-> 1, maxSources |-> 1]],
                Texts <- {[id |-> 1, src |-> "repo", path |-> "f", p |-> 0],
                          [id |-> 2, src |-> "page", path |-> "", p |-> 0]},
                Requests <- [q: {[words |-> 2, kinds |-> {"greeting"}],
                                 [words |-> 5, kinds |-> {"layout"}]},
                             scope: {{}, {"repo"}}, none: {FALSE}, stream: BOOLEAN,
                             hyde: {"auto"}, limits: {[topK |-> 2, cap |-> 1]}],
                Scores <- {90}, TopK <- 2, MaxTokens <- 1,
                Answers <- {[long |-> TRUE, figures |-> {9}]}, pc <- qpc
Work == INSTANCE Studio
          WITH Sources <- {s1}, Projects <- {c1}, Papers <- {"note"}, Drawn <- {"architecture"},
               Scanned <- {"health"}, Jobs <- Procs, Trees <- {s2}, MaxText <- 1,
               MaxRequests <- 2, MaxChanges <- 2, MaxFaults <- 1, MaxCrashes <- 1,
               index <- sources, table <- papers, asked <- requests, faults <- sfaults, crashes <- scrashes

AllInit == /\ side \in {"bm25", "call", "question", "studio"}
           /\ Init /\ (side # "bm25" => rows[c1] = 0)
           /\ Chain!Init
           /\ Query!Init /\ (side # "question" => dense = {})
           /\ Work!Init

AllNext ==
  /\ UNCHANGED side
  /\ \/ side = "bm25" /\ Next /\ UNCHANGED <<call, question, studio>>
     \/ side = "call" /\ Chain!Next /\ UNCHANGED <<vars, question, studio>>
     \/ side = "question" /\ Query!Next /\ UNCHANGED <<vars, call, studio>>
     \/ side = "studio" /\ Work!Next /\ UNCHANGED <<vars, call, question>>

\* The fairness of each.  Where a component is not the one that runs, it is idle,
\* and its fair actions are disabled.
Fair ==
  /\ \A p \in Procs : WF_vars(Running(p)) /\ SF_vars(Locking(p))
  /\ Chain!Fairness /\ Query!Fairness
  /\ \A j \in Procs : WF_studio(Work!Advance(j))

AllSpec == AllInit /\ [][AllNext]_<<side, vars, call, question, studio>> /\ Fair

(* Whoever asks is told: every call of the lexical index ends, every question   *)
(* and every request for a paper or a report.  Where only one of the three runs *)
(* this says CallsEnd of Bm25Index, QuestionsEnd of QueryPath and RequestsEnd   *)
(* of Studio.                                                                   *)
EveryCallEnds == \A p \in Procs : []<>(Ended(p) /\ Query!Ended /\ Work!Ended(p))

(* Implements of FallbackLLM: its specification is that of Generation. *)
Implements == Chain!Implements
=============================================================================
