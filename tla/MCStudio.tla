------------------------------ MODULE MCStudio ------------------------------
(* TLC instances of Studio (two sources, a paper, a drawn and a computed report, *)
(* two requests at a time), of ModelHub (two models, a chain, two requests) and  *)
(* of ScanLaws, side by side.                                                    *)
EXTENDS Studio, ScanLaws

CONSTANTS Models, Chains, Tiers, Dims, Lists, Found, MaxHubRequests, MaxRestarts,
          m1, m2   \* the models of an instance

VARIABLES side, models, chains, serving, running, hubJobs, issued, raced, proof,
          overtaken, drifted, settled, hubAsked, restarts

MCTiers == <<"llm", "embedding">>
MCLists == {<<m1>>, <<m1, m2>>}
Untested(tier) == [tier |-> tier, name |-> 0, url |-> 0, dim |-> 0,
                   status |-> "untested", usable |-> TRUE]
MCFound == {(m1 :> Untested("embedding")) @@ (m2 :> Untested(t)) : t \in {"llm", "embedding"}}

Hub == INSTANCE ModelHub
         WITH MaxRequests <- MaxHubRequests, jobs <- hubJobs, asked <- hubAsked

\* A technology of each kind of match, and a code and a text rule.
Rule(name, kind, managers, exact, patterns, files) ==
    [name |-> name, kind |-> kind, managers |-> managers, exact |-> exact,
     patterns |-> patterns, files |-> files]
MCRules == <<Rule("AWS", "Cloud", {"*"}, {}, {[anchored |-> TRUE, stem |-> <<"aws">>]}, {}),
             Rule("Postgres", "Database", {"npm"}, {<<"pg">>}, {}, {}),
             Rule("Vercel", "Hosting", {}, {}, {}, {<<"vercel.json">>})>>
MCCodeRules == {[id |-> "eval", severity |-> "high", engine |-> TRUE, inTests |-> FALSE],
                [id |-> "key", severity |-> "critical", engine |-> FALSE, inTests |-> TRUE]}

ASSUME HubAssumption == Hub!HubAssumption
hub == <<models, chains, serving, running, hubJobs, issued, raced, proof, overtaken,
         drifted, settled, hubAsked, restarts>>

NoHub == /\ models = <<>> /\ chains = <<>> /\ serving = <<>> /\ running = <<>>
         /\ hubJobs = <<>> /\ issued = {} /\ raced = {} /\ proof = <<>> /\ overtaken = {}
         /\ drifted = {} /\ settled = {} /\ hubAsked = 0 /\ restarts = 0

AllInit == /\ Init /\ SampleInit
           /\ \/ side = "studio" /\ NoHub
              \/ side = "hub" /\ Hub!Init
              \/ side = "laws" /\ NoHub
AllNext == /\ UNCHANGED side
           /\ \/ side = "studio" /\ Next /\ UNCHANGED <<hub, sample>>
              \/ side = "hub" /\ Hub!Next /\ UNCHANGED <<vars, sample>>
              \/ side = "laws" /\ SampleNext /\ UNCHANGED <<vars, hub>>
AllSpec == AllInit /\ [][AllNext]_<<side, vars, hub, sample>>

(* TypeOK of both. *)
Types == (side = "studio" => TypeOK) /\ (side = "hub" => Hub!TypeOK)

(* What was made says what it was made from: PaperOfItsSelection and            *)
(* ReportOfItsTree of Studio.                                                   *)
WorkOfItsInput == PaperOfItsSelection /\ ReportOfItsTree

(* What two requests make of the chains and the selections: DanglesOnlyByRace,  *)
(* TiersNeverMix and OneDimension of ModelHub.                                  *)
ChainsAreSound ==
    side = "hub" => Hub!DanglesOnlyByRace /\ Hub!TiersNeverMix /\ Hub!OneDimension

(* The scan of a repository adds up, from its manifests to its graph:            *)
(* ManifestsReadTrue, GraphIsATree and StackAddsUp of ScanLaws.                  *)
ScanAddsUp == ManifestsReadTrue /\ GraphIsATree /\ StackAddsUp

(* A score or a report says what was measured and what was not: HealthIsHonest   *)
(* and ReportStatesItsLimits of ScanLaws.                                        *)
ReportsAreHonest == HealthIsHonest /\ ReportStatesItsLimits

(* The hub runs what its rows select, and a ready model is one that was tested   *)
(* as it is: RunsTheSelection and ReadyModelWasTested of ModelHub.               *)
HubIsAsItSays == side = "hub" => Hub!RunsTheSelection /\ Hub!ReadyModelWasTested

Symmetry == Permutations(Jobs) \cup Permutations(Sources) \cup Permutations(Trees)
=============================================================================
