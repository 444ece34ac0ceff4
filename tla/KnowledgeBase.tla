--------------------------- MODULE KnowledgeBase ----------------------------
(***************************************************************************)
(* Ingesting and deleting sources: the HTTP routes (app/routes/ingest.py), *)
(* IngestService (app/services/ingest_service.py), the Orchestrator's      *)
(* ingest and delete_source (core/orchestrator.py) and the Deduplicator,   *)
(* over both stores and the two side tables that name a source id.         *)
(*                                                                         *)
(* Every await is a step of its own, so requests interleave there.  The    *)
(* stores appear by what one call of theirs does: FaissStore and Bm25Index *)
(* model what happens inside.  A source is one document of one chunk; its  *)
(* chunk id is a function of the source id, so BM25 keeps the first text   *)
(* it is given under it, where FAISS appends.                              *)
(***************************************************************************)
EXTENDS Naturals, Sequences, FiniteSets

CONSTANTS Procs,      \* requests
          Urls,       \* what a user can ingest
          Files,      \* those that are uploads: their id is their content
          OldUrls,    \* those that may be stored under a random id
          Versions,   \* URL -> the contents it can have, positive numbers
          Corpora,    \* the sets of URLs that users may be interested in
          Named,      \* bound: URLs whose source is renamed or put on a card
          MaxFaults,  \* bound: errors of a store or a side table
          MaxCrashes, \* bound: process restarts
          MaxMishaps  \* bound: both together

ASSUME UrlsAssumption ==
  Urls # {} /\ Files \subseteq Urls /\ OldUrls \subseteq Urls \ Files /\ Named \subseteq Urls
ASSUME VersionsAssumption == Versions \in [Urls -> (SUBSET (Nat \ {0})) \ {{}}]
ASSUME CorporaAssumption == Corpora \subseteq SUBSET Urls
ASSUME BoundsAssumption == {MaxFaults, MaxCrashes, MaxMishaps} \subseteq Nat

\* The id computed from the URL, and the uuid4 of before that.
Derived(u) == [url |-> u, how |-> "derived"]
Random(u) == [url |-> u, how |-> "random"]
Ids == {Derived(u) : u \in Urls} \cup {Random(u) : u \in OldUrls}

Texts == UNION {Versions[u] : u \in Urls}
ContentsOf(urls) == {w \in [urls -> Texts] : \A u \in urls : w[u] \in Versions[u]}

VARIABLES world,     \* external: the content behind each URL of a corpus
          dense,     \* source id -> the texts FAISS holds, in order of arrival
          lexical,   \* source id -> the text BM25 holds, 0 for none
          seen,      \* Deduplicator._seen_hashes: <<source id, text>>
          titles,    \* ids with a row in source_overrides
          members,   \* ids on some project's card
          pc, req,   \* where a request stands, and its locals
          disturbed, \* history: requests that met a fault or another request
          broken,    \* history: ids a fault, a crash or an overlap may have harmed
          faults, crashes

stores == <<dense, lexical>>
sides == <<titles, members>>
bounds == <<faults, crashes>>
vars == <<world, stores, seen, sides, pc, req, disturbed, broken, bounds>>

PCs == {"idle", "exists", "legacy", "recheck", "load", "delDense", "delLexical",
        "delReset", "dedup", "embed", "addDense", "addLexical", "unlink", "untitle"}

Nobody == [kind |-> "none", id |-> Derived(CHOOSE u \in Urls : TRUE), replaced |-> FALSE, doc |-> 0]

Active(u) == {q \in Procs : pc[q] # "idle" /\ req[q].id.url = u}
IdsOf(u) == {i \in Ids : i.url = u}
Stored(i) == dense[i] # <<>>

Becomes(p, l, r) == pc' = [pc EXCEPT ![p] = l] /\ req' = [req EXCEPT ![p] = r]
Goto(p, l) == pc' = [pc EXCEPT ![p] = l] /\ UNCHANGED req

Spare == faults + crashes < MaxMishaps

Smooth == UNCHANGED <<disturbed, broken, bounds>>
Fault(p) ==
  /\ Spare /\ faults < MaxFaults /\ faults' = faults + 1 /\ UNCHANGED crashes
  /\ disturbed' = disturbed \cup {p} /\ broken' = broken \cup {req[p].id}

\* The request answers: nothing to report of the stores; or it deleted before
\* it wrote, so that it repaired what an earlier one left, if nothing disturbed
\* it; or it ends in a fault.
Leaves(p) == Becomes(p, "idle", Nobody) /\ disturbed' = disturbed \ {p}
Ends(p) == Leaves(p) /\ UNCHANGED <<broken, bounds>>
Repairs(p) ==
  /\ Leaves(p) /\ UNCHANGED bounds
  /\ broken' = IF p \in disturbed THEN broken ELSE broken \ {req[p].id}
Errs(p) ==
  /\ Leaves(p) /\ Spare
  /\ faults < MaxFaults /\ faults' = faults + 1 /\ UNCHANGED crashes
Breaks(p) == Errs(p) /\ broken' = broken \cup {req[p].id}

Init ==
  /\ \E corpus \in Corpora : world \in ContentsOf(corpus)
  /\ \E old \in ContentsOf(DOMAIN world), kept \in SUBSET {i \in Ids : i.url \in DOMAIN world} :
       /\ \A u \in DOMAIN world : Cardinality(kept \cap IdsOf(u)) <= 1
       /\ dense = [i \in Ids |-> IF i \in kept THEN <<old[i.url]>> ELSE <<>>]
       /\ lexical = [i \in Ids |-> IF i \in kept THEN old[i.url] ELSE 0]
       /\ \A u \in Files \cap DOMAIN world : old[u] = world[u]
  /\ seen = {} /\ titles = {} /\ members = {}
  /\ pc = [p \in Procs |-> "idle"] /\ req = [p \in Procs |-> Nobody]
  /\ disturbed = {} /\ broken = {} /\ faults = 0 /\ crashes = 0

-----------------------------------------------------------------------------
(* The routes are called. *)

Called(p, r, l) ==
  LET others == Active(r.id.url) IN
  /\ pc[p] = "idle" /\ Becomes(p, l, r)
  /\ disturbed' = disturbed \cup others \cup (IF others = {} THEN {} ELSE {p})
  /\ broken' = IF others = {} THEN broken ELSE broken \cup IdsOf(r.id.url)
  /\ UNCHANGED <<world, stores, seen, sides, bounds>>

CallIngest(p) ==
  \E u \in DOMAIN world :
    Called(p, [kind |-> "ingest", id |-> Derived(u), replaced |-> FALSE, doc |-> 0], "exists")

CallDelete(p) ==
  \E i \in {j \in Ids : j.url \in DOMAIN world} :
    Called(p, [kind |-> "delete", id |-> i, replaced |-> FALSE, doc |-> 0], "delDense")

\* A rename, or a project's new member: one statement on the side table, for
\* any id.  A deletion of that source that is under way is disturbed.
Name(i) ==
  /\ i.url \in Named \cap DOMAIN world
  /\ \/ titles' = titles \cup {i} /\ UNCHANGED members
     \/ members' = members \cup {i} /\ UNCHANGED titles
  /\ disturbed' = disturbed \cup Active(i.url)
  /\ UNCHANGED <<world, stores, seen, pc, req, broken, bounds>>

-----------------------------------------------------------------------------
(* IngestService.ingest_source and ingest_file. *)

\* _source_exists answers from FAISS alone, and no when FAISS cannot be read.
Exists(p, yes) ==
  \/ yes = Stored(req[p].id) /\ Smooth
  \/ ~yes /\ Fault(p)

\* Seeded fault: the derived id is used without looking for an old one.
SourceExistsOnly(p) ==
  /\ pc[p] = "exists"
  /\ \E yes \in BOOLEAN : Exists(p, yes) /\ Becomes(p, "load", [req[p] EXCEPT !.replaced = yes])
  /\ UNCHANGED <<world, stores, seen, sides>>

SourceExists(p) ==
  /\ pc[p] = "exists"
  /\ \E yes \in BOOLEAN :
       /\ Exists(p, yes)
       /\ Becomes(p, IF yes \/ req[p].id.url \in Files THEN "load" ELSE "legacy",
                  [req[p] EXCEPT !.replaced = yes])
  /\ UNCHANGED <<world, stores, seen, sides>>

\* legacy_source_id_for: the first listed source of the same type and URL.
AdoptLegacy(p) ==
  LET same == {i \in IdsOf(req[p].id.url) : Stored(i)} IN
  /\ pc[p] = "legacy"
  /\ \/ same = {} /\ Goto(p, "load") /\ Smooth
     \/ /\ req[p].id \in same
        /\ Becomes(p, "load", [req[p] EXCEPT !.replaced = TRUE]) /\ Smooth
     \/ \E i \in same \ {req[p].id} :
          Becomes(p, "recheck", [req[p] EXCEPT !.id = i]) /\ Smooth
     \/ Errs(p) /\ UNCHANGED broken
  /\ UNCHANGED <<world, stores, seen, sides>>

Recheck(p) ==
  /\ pc[p] = "recheck"
  /\ \E yes \in BOOLEAN : Exists(p, yes) /\ Becomes(p, "load", [req[p] EXCEPT !.replaced = yes])
  /\ UNCHANGED <<world, stores, seen, sides>>

\* Seeded fault: the text is loaded and not kept.
LoadDropsText(p) ==
  /\ pc[p] = "load"
  /\ Goto(p, IF req[p].replaced THEN "delDense" ELSE "dedup")
  /\ UNCHANGED <<world, stores, seen, sides>> /\ Smooth

\* The loader is external: it returns what the URL holds now, or raises.
Load(p) ==
  /\ pc[p] = "load"
  /\ Becomes(p, IF req[p].replaced THEN "delDense" ELSE "dedup",
             [req[p] EXCEPT !.doc = world[req[p].id.url]])
  /\ UNCHANGED <<world, stores, seen, sides>> /\ Smooth

LoadFails(p) == pc[p] = "load" /\ Ends(p) /\ UNCHANGED <<world, stores, seen, sides>>

-----------------------------------------------------------------------------
(* Orchestrator.delete_source: an error of a store is recorded and logged, *)
(* and the next phase runs.                                                *)

\* force_reload brings a failed FAISS delete back to what is on disk.
DeleteDense(p) ==
  /\ pc[p] = "delDense"
  /\ \/ dense' = [dense EXCEPT ![req[p].id] = <<>>] /\ Smooth
     \/ UNCHANGED dense /\ Fault(p)
  /\ Goto(p, "delLexical")
  /\ UNCHANGED <<world, lexical, seen, sides>>

\* Seeded fault: BM25 is left as it is.
DeleteLexicalNothing(p) ==
  /\ pc[p] = "delLexical"
  /\ Goto(p, "delReset") /\ Smooth
  /\ UNCHANGED <<world, stores, seen, sides>>

\* A BM25 delete can fail before its commit, or after it, in the VACUUM.
DeleteLexical(p) ==
  /\ pc[p] = "delLexical"
  /\ \/ lexical' = [lexical EXCEPT ![req[p].id] = 0] /\ (Smooth \/ Fault(p))
     \/ UNCHANGED lexical /\ Fault(p)
  /\ Goto(p, "delReset")
  /\ UNCHANGED <<world, dense, seen, sides>>

\* The deduplicator forgets every source, not only this one.
DeleteReset(p) ==
  /\ pc[p] = "delReset"
  /\ seen' = {}
  /\ Goto(p, IF req[p].kind = "delete" THEN "unlink" ELSE "dedup")
  /\ UNCHANGED <<world, stores, sides>> /\ Smooth

\* The route then cleans the side tables, each on a best-effort basis.
Unlink(p) ==
  /\ pc[p] = "unlink"
  /\ \/ members' = members \ {req[p].id} /\ Smooth
     \/ UNCHANGED members /\ Fault(p)
  /\ Goto(p, "untitle")
  /\ UNCHANGED <<world, stores, seen, titles>>

\* Seeded fault: the row of the title is not looked for.
UntitleNothing(p) ==
  /\ pc[p] = "untitle"
  /\ Repairs(p)
  /\ UNCHANGED <<world, stores, seen, sides>>

Untitle(p) ==
  /\ pc[p] = "untitle"
  /\ \/ titles' = titles \ {req[p].id} /\ Repairs(p)
     \/ UNCHANGED titles /\ Breaks(p)
  /\ UNCHANGED <<world, stores, seen, members>>

-----------------------------------------------------------------------------
(* Orchestrator.ingest. *)

\* One document of one request is tested and set under the thread lock.
Fingerprint(p) == <<req[p].id, req[p].doc>>

Dedup(p) ==
  /\ pc[p] = "dedup" /\ Fingerprint(p) \notin seen
  /\ seen' = seen \cup {Fingerprint(p)}
  /\ Goto(p, "embed")
  /\ UNCHANGED <<world, stores, sides>> /\ Smooth

\* "preprocessing produced no documents": the user is told of 0 chunks.
DedupSkips(p) ==
  /\ pc[p] = "dedup" /\ Fingerprint(p) \in seen
  /\ Ends(p)
  /\ UNCHANGED <<world, stores, seen, sides>>

\* The embedder is external: it answers, or raises.
Embed(p) ==
  /\ pc[p] = "embed"
  /\ Goto(p, "addDense")
  /\ UNCHANGED <<world, stores, seen, sides>> /\ Smooth

\* Seeded fault: a failed embedding leaves its fingerprints behind.
EmbedFailsOnly(p) == pc[p] = "embed" /\ Ends(p) /\ UNCHANGED <<world, stores, seen, sides>>

EmbedFails(p) == pc[p] = "embed" /\ Ends(p) /\ seen' = {} /\ UNCHANGED <<world, stores, sides>>

Appended(p) == dense' = [dense EXCEPT ![req[p].id] = Append(@, req[p].doc)]

AddDense(p) ==
  /\ pc[p] = "addDense"
  /\ Appended(p) /\ Goto(p, "addLexical")
  /\ UNCHANGED <<world, lexical, seen, sides>> /\ Smooth

\* A FAISS add that fails while saving has changed the memory copy already.
AddDenseFails(p) ==
  /\ pc[p] = "addDense"
  /\ Appended(p) \/ UNCHANGED dense
  /\ seen' = {} /\ Breaks(p)
  /\ UNCHANGED <<world, lexical, sides>>

\* A chunk id that BM25 has is skipped.  A repair is not complete without the
\* deletion that comes before it.
AddLexical(p) ==
  /\ pc[p] = "addLexical"
  /\ lexical' = [lexical EXCEPT ![req[p].id] = IF @ = 0 THEN req[p].doc ELSE @]
  /\ IF req[p].replaced THEN Repairs(p) ELSE Ends(p)
  /\ UNCHANGED <<world, dense, seen, sides>>

AddLexicalFails(p) ==
  /\ pc[p] = "addLexical"
  /\ seen' = {} /\ Breaks(p)
  /\ UNCHANGED <<world, stores, sides>>

-----------------------------------------------------------------------------
\* External: the page changes.
Publish ==
  /\ \E u \in DOMAIN world \ Files : \E v \in Versions[u] : world' = [world EXCEPT ![u] = v]
  /\ UNCHANGED <<stores, seen, sides, pc, req, disturbed, broken, bounds>>

\* The process restarts: what was committed stays.
Crash ==
  /\ Spare /\ crashes < MaxCrashes /\ crashes' = crashes + 1
  /\ seen' = {}
  /\ pc' = [p \in Procs |-> "idle"] /\ req' = [p \in Procs |-> Nobody]
  /\ disturbed' = {}
  /\ broken' = broken \cup {req[p].id : p \in {q \in Procs : pc[q] # "idle"}}
  /\ UNCHANGED <<world, stores, sides, faults>>

Fails(p) == LoadFails(p) \/ EmbedFails(p) \/ AddDenseFails(p) \/ AddLexicalFails(p)

Step(p) ==
  \/ SourceExists(p) \/ AdoptLegacy(p) \/ Recheck(p) \/ Load(p)
  \/ DeleteDense(p) \/ DeleteLexical(p) \/ DeleteReset(p) \/ Unlink(p) \/ Untitle(p)
  \/ Dedup(p) \/ DedupSkips(p) \/ Embed(p) \/ AddDense(p) \/ AddLexical(p)
  \/ Fails(p)

Next ==
  \/ Crash \/ Publish
  \/ \E i \in Ids : Name(i)
  \/ \E p \in Procs : CallIngest(p) \/ CallDelete(p) \/ Step(p)

Spec == Init /\ [][Next]_vars

-----------------------------------------------------------------------------
(* The variables keep their types. *)
TypeOK ==
  /\ DOMAIN world \in Corpora /\ world \in ContentsOf(DOMAIN world)
  /\ dense \in [Ids -> Seq(Texts)] /\ lexical \in [Ids -> Texts \cup {0}]
  /\ seen \subseteq Ids \X Texts /\ titles \subseteq Ids /\ members \subseteq Ids
  /\ pc \in [Procs -> PCs]
  /\ req \in [Procs -> [kind : {"none", "ingest", "delete"}, id : Ids,
                        replaced : BOOLEAN, doc : Texts \cup {0}]]
  /\ disturbed \subseteq Procs /\ broken \subseteq Ids
  /\ faults \in 0..MaxFaults /\ crashes \in 0..MaxCrashes

(* Both stores hold the same text of a source, once, between its requests: *)
(* failed loads and embeddings and other sources' requests do not matter,  *)
(* and what a fault, a crash or an overlap broke, the next undisturbed     *)
(* deletion, or ingest of a source it finds stored, repairs.               *)
StoresAgree ==
  \A i \in Ids \ broken :
    Active(i.url) = {} =>
      \/ dense[i] = <<>> /\ lexical[i] = 0
      \/ lexical[i] # 0 /\ dense[i] = <<lexical[i]>>

(* A URL is stored under one id, the old one if it has one (the comment of *)
(* _adopt_legacy_source), unless its requests overlapped or failed.        *)
OneIdPerUrl ==
  \A u \in Urls :
    IdsOf(u) \cap broken = {} => Cardinality({i \in IdsOf(u) : Stored(i)}) <= 1

(* A retry is not swallowed: the deduplicator finds nothing new only in a  *)
(* request that met a fault or raced with another one of the same source.  *)
NothingSwallowed == [][\A p \in Procs : DedupSkips(p) => p \in disturbed]_vars

Forgotten(i) ==
  /\ dense[i] = <<>> /\ lexical[i] = 0
  /\ \A mark \in seen : mark[1] # i
  /\ i \notin titles /\ i \notin members

(* After an undisturbed deletion the system behaves as if the source was   *)
(* never ingested.                                                         *)
DeletionForgets ==
  [][\A p \in Procs, i \in Ids :
       pc[p] = "untitle" /\ i = req[p].id /\ p \notin disturbed /\ i \notin broken'
         /\ crashes' = crashes /\ pc'[p] = "idle"
       => Forgotten(i)']_vars
=============================================================================
