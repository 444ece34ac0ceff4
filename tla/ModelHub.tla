------------------------------ MODULE ModelHub ------------------------------
(***************************************************************************)
(* The Model Hub (backend/app/model_hub) and the serving of what it stores *)
(* (apply_serving_configuration in backend/app/dependencies.py).  Models,  *)
(* fallback chains and the selection of each tier are rows of one SQLite   *)
(* file; one transaction is one step.  A request reads in one transaction  *)
(* and writes in a later one, so what it checked may be gone by then; and  *)
(* PUT /serving reads the selection row by row before it swaps the client  *)
(* of the running pipeline.                                                *)
(***************************************************************************)
EXTENDS Naturals, Sequences, SequencesExt, FiniteSets, Subsequence

CONSTANTS Models,    \* model ids, issued once each
          Chains,    \* chain ids, issued once each
          Tiers,     \* the tiers served, in the order they are applied
          Jobs,      \* requests
          Dims,      \* vector sizes a test may detect
          Lists,     \* the member lists clients send
          Found,     \* tables of models an earlier process may have left
          MaxRequests, \* bound: requests
          MaxRestarts, \* bound: process restarts
          None

\* Rows of hub_models.  usable: the client can be built (it has the key, provider
\* and URL it needs).
ModelRows ==
  {row \in [tier: ToSet(Tiers), name: Nat, url: Nat, dim: Dims \cup {0},
            status: {"untested", "ready", "error"}, usable: BOOLEAN] :
     row.tier = "llm" => row.dim = 0}

HubAssumption ==
  /\ Tiers \in Seq({"llm", "embedding"}) /\ 0 \notin Dims
  /\ MaxRequests \in Nat /\ MaxRestarts \in Nat
  /\ None \notin Models \cup Chains /\ Models \cap Chains = {}
  /\ \A l \in Lists : l \in Seq(Models) /\ l # <<>>
  /\ \A table \in Found : DOMAIN table \subseteq Models /\ table \in [DOMAIN table -> ModelRows]

VARIABLES models,   \* rows of hub_models, keyed by id
          chains,   \* rows of hub_chains, keyed by id
          serving,  \* tier -> the mode and target of its hub_serving row
          running,  \* tier -> the rows the running client was built from
          jobs,     \* where each request stands, and what it has read
          issued,   \* ids handed out so far
          raced,    \* history: ids deleted under a request that had checked them
          proof,    \* history: model -> the settings its last good test ran with
          overtaken,\* history: models edited under a test of theirs
          drifted,  \* history: models whose dimension changed after it was checked
          settled,  \* history: tiers applied since the last change of the rows
          asked, restarts

rows == <<models, chains, serving>>
history == <<raced, proof, overtaken, drifted>>
vars == <<rows, running, jobs, issued, history, settled, asked, restarts>>

Disabled == [mode |-> "disabled", target |-> None]
Idle == [pc |-> "idle", tier |-> None, mode |-> "disabled", target |-> None,
         ids |-> <<>>, got |-> <<>>, tiers |-> <<>>, clean |-> TRUE]
Put(f, id, row) == [x \in DOMAIN f \cup {id} |-> IF x = id THEN row ELSE f[x]]
Drop(f, id) == [x \in DOMAIN f \ {id} |-> f[x]]
SettingsOf(row) == [name |-> row.name, url |-> row.url]
Copy(m) == [id |-> m, row |-> models[m]]
IdsOf(read) == {read[i].id : i \in DOMAIN read}

Init ==
  /\ models \in Found /\ chains = <<>> /\ serving = [t \in ToSet(Tiers) |-> Disabled]
  /\ running = [t \in ToSet(Tiers) |-> <<>>] /\ jobs = [j \in Jobs |-> Idle]
  /\ issued = DOMAIN models /\ raced = {} /\ overtaken = {} /\ drifted = {}
  /\ proof = [m \in {m \in DOMAIN models : models[m].status = "ready"} |-> SettingsOf(models[m])]
  /\ settled = ToSet(Tiers) /\ asked = 0 /\ restarts = 0

\* Where the jobs stand after the rows changed: what they read may be outdated.
Touched(js) == /\ jobs' = [j \in Jobs |-> IF js[j].pc \notin {"resolve", "members", "swap"}
                                     THEN js[j] ELSE [js[j] EXCEPT !.clean = FALSE]]
               /\ settled' = {}
\* A step of one request that changes no row.
Only(js) == jobs' = js /\ UNCHANGED <<rows, running, issued, history, settled, asked, restarts>>
Asked == asked < MaxRequests /\ asked' = asked + 1
Begins(j, job) == /\ jobs[j] = Idle /\ Asked /\ jobs' = [jobs EXCEPT ![j] = job]
                  /\ UNCHANGED <<rows, running, history, settled, restarts>>
Takes(j, job) == [jobs EXCEPT ![j] = job]
Quits(j) == Only(Takes(j, Idle))
\* The ids a request has checked and is about to write.
Checked(j) == CASE jobs[j].pc = "check" -> IdsOf(jobs[j].got)
                [] jobs[j].pc = "store" -> {jobs[j].target}
                [] OTHER -> {}
Deleted(id) == IF \E j \in Jobs : id \in Checked(j) THEN raced \cup {id} ELSE raced

-----------------------------------------------------------------------------
\* Requests of one transaction.

NewModel(tier, usable) ==
  [tier |-> tier, name |-> 0, url |-> 0, dim |-> 0, status |-> "untested", usable |-> usable]

CreateModel(m, tier, usable) ==
  /\ m \notin issued /\ issued' = issued \cup {m} /\ Asked
  /\ models' = Put(models, m, NewModel(tier, usable)) /\ Touched(jobs)
  /\ UNCHANGED <<chains, serving, running, history, restarts>>

\* Seeded fault: the verdict of the old model stays.
KeepsStatus(row, what, usable) == [row EXCEPT ![what] = @ + 1, !.usable = usable]
\* Another model_id or provider ("name") resets the status; another base_url or
\* api_key ("url") does not.
Edited(row, what, usable) ==
  [row EXCEPT ![what] = @ + 1, !.usable = usable,
              !.status = IF what = "name" THEN "untested" ELSE @]

UpdateModel(m, what, usable) ==
  /\ m \in DOMAIN models /\ Asked
  /\ models' = [models EXCEPT ![m] = Edited(@, what, usable)]
  /\ overtaken' = IF \E j \in Jobs : jobs[j].pc = "call" /\ jobs[j].target = m
                  THEN overtaken \cup {m} ELSE overtaken
  /\ Touched(jobs)
  /\ UNCHANGED <<chains, serving, running, issued, raced, proof, drifted, restarts>>

Unserve(id) == [t \in DOMAIN serving |-> IF serving[t].target = id THEN Disabled ELSE serving[t]]
\* Seeded fault: the chains keep the deleted model.
KeepMembers(id) == chains
Prune(id) == [c \in DOMAIN chains |->
                [chains[c] EXCEPT !.members = KeptOf(@, ToSet(@) \ {id})]]

DeleteModel(m) ==
  /\ m \in DOMAIN models /\ Asked
  /\ models' = Drop(models, m) /\ chains' = Prune(m) /\ serving' = Unserve(m)
  /\ raced' = Deleted(m) /\ Touched(jobs)
  /\ UNCHANGED <<running, issued, proof, overtaken, drifted, restarts>>

DeleteChain(c) ==
  /\ c \in DOMAIN chains /\ Asked
  /\ chains' = Drop(chains, c) /\ serving' = Unserve(c)
  /\ raced' = Deleted(c) /\ Touched(jobs)
  /\ UNCHANGED <<models, running, issued, proof, overtaken, drifted, restarts>>

\* PATCH /chains/{id} of enabled alone.
Toggle(c) ==
  /\ c \in DOMAIN chains /\ Asked
  /\ chains' = [chains EXCEPT ![c].enabled = ~@] /\ Touched(jobs)
  /\ UNCHANGED <<models, serving, running, issued, history, restarts>>

-----------------------------------------------------------------------------
\* POST /models/{id}/test and /chains/{id}/test: read a row, call, record.

Test(j, ids) ==
  Begins(j, [Idle EXCEPT !.pc = "test", !.ids = ids]) /\ UNCHANGED issued

TestModel(j) == \E m \in DOMAIN models : Test(j, <<m>>)
TestChain(j) == \E c \in DOMAIN chains : Test(j, chains[c].members)

TestReads(j) ==
  /\ jobs[j].pc = "test"
  /\ LET ids == jobs[j].ids IN
     \* A list that is used up answers; a member that is gone answers 404.
     IF ids = <<>> THEN Quits(j)
     ELSE IF Head(ids) \notin DOMAIN models THEN Quits(j)
     ELSE Only(Takes(j, [jobs[j] EXCEPT !.pc = "call", !.target = Head(ids),
                                        !.got = <<Copy(Head(ids))>>, !.ids = Tail(@)]))

\* A test that works of an embedding model detects its dimension.
Verdict(row, status, dim) ==
  [row EXCEPT !.status = status,
              !.dim = IF status = "ready" /\ row.tier = "embedding" THEN dim ELSE @]

\* The verdict goes to the row there is now, and to none when it was deleted.
\* A test stops at the first model that works.
TestRecords(j, status, dim) ==
  /\ jobs[j].pc = "call" /\ (status = "ready" => jobs[j].got[1].row.usable)
  /\ LET m == jobs[j].target tested == jobs[j].got[1].row IN
     IF m \in DOMAIN models
     THEN /\ models' = [models EXCEPT ![m] = Verdict(@, status, dim)]
          /\ proof' = IF status = "ready"
                      THEN Put(proof, m, SettingsOf(tested)) ELSE proof
          /\ drifted' = IF models'[m].dim # models[m].dim
                           /\ \/ \E k \in Jobs : m \in Checked(k)
                              \/ \E c \in DOMAIN chains : m \in ToSet(chains[c].members)
                        THEN drifted \cup {m} ELSE drifted
     ELSE UNCHANGED <<models, proof, drifted>>
  /\ Touched(Takes(j, IF status = "ready" THEN Idle
                      ELSE [Idle EXCEPT !.pc = "test", !.ids = jobs[j].ids]))
  /\ UNCHANGED <<chains, serving, running, issued, raced, overtaken, asked, restarts>>

-----------------------------------------------------------------------------
\* POST and PATCH /chains: one transaction per member checked, then the write.

AskChain(j, c, tier, list) ==
  /\ \/ c \notin issued /\ issued' = issued \cup {c}
     \/ c \in DOMAIN chains /\ tier = chains[c].tier /\ UNCHANGED issued
  /\ Begins(j, [Idle EXCEPT !.pc = "check", !.target = c, !.tier = tier, !.ids = list,
                            !.mode = IF c \in issued THEN "update" ELSE "create"])

\* Seeded fault: a model of the other tier passes.
AnyTier(m, tier) == m \in DOMAIN models
Fits(m, tier) == m \in DOMAIN models /\ models[m].tier = tier
CheckMember(j) ==
  /\ jobs[j].pc = "check" /\ jobs[j].ids # <<>>
  /\ LET m == Head(jobs[j].ids) IN
     IF Fits(m, jobs[j].tier)
     THEN Only(Takes(j, [jobs[j] EXCEPT !.ids = Tail(@), !.got = Append(@, Copy(m))]))
     ELSE Quits(j)

\* The vector sizes known of the members, 0 standing for none detected yet.
Known(read) == {read[i].row.dim : i \in DOMAIN read} \ {0}
Mixed(read) == Cardinality(Known(read)) > 1

SaveChain(j) ==
  /\ jobs[j].pc = "check" /\ jobs[j].ids = <<>> /\ ~Mixed(jobs[j].got)
  /\ LET c == jobs[j].target
         list == [i \in DOMAIN jobs[j].got |-> jobs[j].got[i].id] IN
     chains' = CASE jobs[j].mode = "create" ->
                      Put(chains, c, [tier |-> jobs[j].tier, members |-> list, enabled |-> TRUE])
                 [] c \in DOMAIN chains -> [chains EXCEPT ![c].members = list]
                 [] OTHER -> chains
  /\ Touched(Takes(j, Idle))
  /\ UNCHANGED <<models, serving, running, issued, history, asked, restarts>>

RejectChain(j) ==
  jobs[j].pc = "check" /\ jobs[j].ids = <<>> /\ Mixed(jobs[j].got) /\ Quits(j)

-----------------------------------------------------------------------------
\* PUT /serving: check the target, store the selection, apply both tiers.

Offered(tier, mode, target) ==
  \/ mode = "disabled" /\ target = None
  \/ mode = "single" /\ Fits(target, tier)
  \/ mode = "chain" /\ target \in DOMAIN chains /\ chains[target].tier = tier

PutServing(j, tier, mode, target) ==
  /\ Offered(tier, mode, target) /\ UNCHANGED issued
  /\ Begins(j, [Idle EXCEPT !.pc = "store", !.tier = tier, !.mode = mode, !.target = target])

SetServing(j) ==
  /\ jobs[j].pc = "store"
  /\ serving' = [serving EXCEPT ![jobs[j].tier] =
                   [mode |-> jobs[j].mode, target |-> jobs[j].target]]
  /\ Touched(Takes(j, [Idle EXCEPT !.pc = "select", !.tiers = Tiers]))
  /\ UNCHANGED <<models, chains, running, issued, history, asked, restarts>>

\* apply_serving_configuration reads the selection of the next tier, ...
Select(j) ==
  /\ jobs[j].pc = "select"
  /\ IF jobs[j].tiers = <<>> THEN Quits(j)
     ELSE LET t == Head(jobs[j].tiers) IN
          Only(Takes(j, [Idle EXCEPT !.tier = t, !.tiers = Tail(jobs[j].tiers),
                           !.mode = serving[t].mode, !.target = serving[t].target,
                           !.pc = IF serving[t].mode = "disabled" THEN "swap" ELSE "resolve"]))

\* Seeded fault: a chain that is switched off is served all the same.
ResolveDisabled(j) ==
  /\ jobs[j].pc = "resolve"
  /\ LET x == jobs[j].target IN
     Only(Takes(j, [jobs[j] EXCEPT
       !.ids = IF x \in DOMAIN chains THEN chains[x].members ELSE <<>>,
       !.got = IF x \in DOMAIN models THEN <<Copy(x)>> ELSE <<>>, !.pc = "members"]))

\* ... then the model or the enabled chain it names, ...
Resolve(j) ==
  /\ jobs[j].pc = "resolve"
  /\ LET x == jobs[j].target
         served == x \in DOMAIN chains /\ chains[x].enabled IN
     Only(Takes(j,
       IF jobs[j].mode = "single"
       THEN [jobs[j] EXCEPT !.pc = "swap", !.got = IF x \in DOMAIN models THEN <<Copy(x)>> ELSE <<>>]
       ELSE [jobs[j] EXCEPT !.pc = "members", !.ids = IF served THEN chains[x].members ELSE <<>>]))

\* ... then the chain's members one by one, skipping those that are gone.
ReadMember(j) ==
  /\ jobs[j].pc = "members"
  /\ LET ids == jobs[j].ids IN
     Only(Takes(j, IF ids = <<>> THEN [jobs[j] EXCEPT !.pc = "swap"]
                   ELSE [jobs[j] EXCEPT !.ids = Tail(@),
                           !.got = IF Head(ids) \in DOMAIN models
                                   THEN Append(@, Copy(Head(ids))) ELSE @]))

\* The client of what was read: every model of the LLM tier and the first of the
\* embedding tier.  Without any it is NullLLM or NullEmbedder; when one cannot be
\* built the client that runs stays.
Client(tier, read) == IF tier = "embedding" /\ read # <<>> THEN <<read[1]>> ELSE read
Built(tier, read, now) ==
  LET client == Client(tier, read) IN
  IF \A i \in DOMAIN client : client[i].row.usable THEN client ELSE now
Buildable(tier, read) == \A i \in DOMAIN Client(tier, read) : Client(tier, read)[i].row.usable

Swap(j) ==
  /\ jobs[j].pc = "swap"
  /\ LET t == jobs[j].tier IN
     /\ running' = [running EXCEPT ![t] = Built(t, jobs[j].got, @)]
     /\ settled' = IF jobs[j].clean /\ Buildable(t, jobs[j].got)
                   THEN settled \cup {t} ELSE settled \ {t}
  /\ jobs' = Takes(j, [Idle EXCEPT !.pc = "select", !.tiers = jobs[j].tiers])
  /\ UNCHANGED <<rows, issued, history, asked, restarts>>

-----------------------------------------------------------------------------
\* What the stored selection of a tier stands for, read at once.
Listed(t) ==
  LET e == serving[t] IN
  CASE e.mode = "single" -> <<e.target>>
    [] e.mode = "chain" /\ e.target \in DOMAIN chains ->
         IF chains[e.target].enabled THEN chains[e.target].members ELSE <<>>
    [] OTHER -> <<>>
Copies(ids) == LET left == KeptOf(ids, DOMAIN models) IN [i \in DOMAIN left |-> Copy(left[i])]
Selected(t) == Copies(Listed(t))

\* A new process applies the stored selection before it takes requests.
Restart ==
  /\ restarts < MaxRestarts /\ restarts' = restarts + 1
  /\ jobs' = [j \in Jobs |-> Idle]
  /\ running' = [t \in DOMAIN serving |-> Built(t, Selected(t), <<>>)]
  /\ settled' = {t \in DOMAIN serving : Buildable(t, Selected(t))}
  /\ UNCHANGED <<rows, issued, history, asked>>

\* Clients may stop sending requests; a request that has begun goes on.
Quiet == (\A j \in Jobs : jobs[j] = Idle) /\ UNCHANGED vars

Next ==
  \/ \E m \in Models, u \in BOOLEAN :
       \/ \E t \in ToSet(Tiers) : CreateModel(m, t, u)
       \/ \E what \in {"name", "url"} : UpdateModel(m, what, u)
  \/ \E m \in Models : DeleteModel(m)
  \/ \E c \in Chains : DeleteChain(c) \/ Toggle(c)
  \/ \E j \in Jobs :
       \/ TestModel(j) \/ TestChain(j) \/ TestReads(j)
       \/ \E d \in Dims : TestRecords(j, "ready", d)
       \/ \E d \in Dims : TestRecords(j, "error", d)
       \/ \E c \in Chains, t \in ToSet(Tiers), l \in Lists : AskChain(j, c, t, l)
       \/ CheckMember(j) \/ SaveChain(j) \/ RejectChain(j)
       \/ \E t \in ToSet(Tiers), x \in Models \cup Chains \cup {None} :
            \E mode \in {"disabled", "single", "chain"} : PutServing(j, t, mode, x)
       \/ SetServing(j) \/ Select(j) \/ Resolve(j) \/ ReadMember(j) \/ Swap(j)
  \/ Restart \/ Quiet

Spec == Init /\ [][Next]_vars

-----------------------------------------------------------------------------
TypeOK ==
  /\ DOMAIN models \subseteq Models /\ DOMAIN chains \subseteq Chains
  /\ \A m \in DOMAIN models : models[m] \in ModelRows
  /\ \A c \in DOMAIN chains : ToSet(chains[c].members) \subseteq Models
  /\ \A t \in DOMAIN serving : (serving[t].target = None) = (serving[t].mode = "disabled")
  /\ DOMAIN models \cup DOMAIN chains \subseteq issued
  /\ settled \subseteq DOMAIN serving

\* Deleting a model or a chain leaves no reference to it behind (_delete_model_sync,
\* _delete_chain_sync): a chain member or a serving target without a row was
\* deleted under a request that had checked it and wrote it afterwards.
DanglesOnlyByRace ==
  /\ \A c \in DOMAIN chains : ToSet(chains[c].members) \subseteq DOMAIN models \cup raced
  /\ \A t \in DOMAIN serving :
       serving[t].target \in DOMAIN models \cup DOMAIN chains \cup raced \cup {None}

\* "An LLM model can never be a member of an embedding chain, and vice versa":
\* whatever overlaps, no chain and no running client mixes the tiers.
TiersNeverMix ==
  /\ \A c \in DOMAIN chains : \A m \in ToSet(chains[c].members) \cap DOMAIN models :
       models[m].tier = chains[c].tier
  /\ \A t \in DOMAIN running : \A i \in DOMAIN running[t] : running[t][i].row.tier = t

\* The members of an embedding chain share their vector size, unless a size was
\* detected after it had been checked.
OneDimension ==
  \A c \in DOMAIN chains :
    Cardinality({models[m].dim : m \in ToSet(chains[c].members) \cap DOMAIN models} \ {0}) > 1
    => ToSet(chains[c].members) \cap drifted # {}

\* A tier applied since the last change of the rows runs what its selection
\* stands for, though the selection was read in several transactions and other
\* requests were applying too.
RunsTheSelection ==
  \A t \in settled : running[t] = Client(t, Selected(t))

\* A model marked ready was tested under the model id and provider it has now,
\* unless it was edited under the test.
ReadyModelWasTested ==
  \A m \in DOMAIN models : models[m].status = "ready" /\ m \notin overtaken
                           => m \in DOMAIN proof /\ proof[m].name = models[m].name
=============================================================================
