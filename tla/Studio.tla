------------------------------- MODULE Studio -------------------------------
(***************************************************************************)
(* What the workspace makes of indexed sources and keeps in SQLite.        *)
(* Papers (app/notes, app/mindmap) are written by the LLM for a selection  *)
(* of sources and stored under that selection.  Reports (app/architecture, *)
(* app/techstack, app/security, app/health) are made of one source for a   *)
(* project and stored under a fingerprint of the source's file paths.      *)
(* Every request reads the index, awaits a model or a scan, and stores the *)
(* outcome, while the sources are re-ingested and deleted under it.        *)
(***************************************************************************)
EXTENDS Naturals, Sequences, SequencesExt, FiniteSets, Subsequence

CONSTANTS Sources, Projects,
          Papers,     \* kinds of paper: "note", "mindmap"
          Drawn,      \* the report drawn by the LLM: {"architecture"}
          Scanned,    \* the reports computed: "techstack", "security", "health"
          Jobs,       \* requests
          Trees,      \* sets of file paths a source may have
          MaxText,    \* bound: versions of a file's text
          MaxChanges, \* bound: ingests and deletions of sources
          MaxRequests, MaxFaults, MaxCrashes, None

ASSUME StudioAssumption ==
  /\ None \notin Trees \cup Sources \cup Papers \cup Drawn \cup Scanned
  /\ Drawn \cap Scanned = {} /\ Papers \cap (Drawn \cup Scanned) = {}
  /\ {MaxText, MaxChanges, MaxRequests, MaxFaults, MaxCrashes} \subseteq Nat

VARIABLES index,   \* source -> the tree and text FAISS holds of it
          shelf,   \* paper -> selection -> what the stored paper was written from
          table,   \* report -> its rows in the order of created_at
          jobs,    \* where each request stands, and what it has read
          rivals,  \* history: selections stored while another request wrote them
          changes, asked, faults, crashes

vars == <<index, shelf, table, jobs, rivals, changes, asked, faults, crashes>>

Reports == Drawn \cup Scanned
Absent == [tree |-> None, text |-> 0]
Contents == {Absent} \cup [tree: Trees, text: 1..MaxText]
Idle == [pc |-> "idle", what |-> None, project |-> None, sel |-> {}, todo |-> {},
         refresh |-> FALSE, read |-> <<>>, cached |-> FALSE, answer |-> <<>>, tries |-> 0]

Init ==
  /\ index = [s \in Sources |-> Absent]
  /\ shelf = [p \in Papers |-> <<>>] /\ table = [r \in Reports |-> <<>>]
  /\ jobs = [j \in Jobs |-> Idle] /\ rivals = {}
  /\ changes = 0 /\ asked = 0 /\ faults = 0 /\ crashes = 0

Put(f, x, v) == [y \in DOMAIN f \cup {x} |-> IF y = x THEN v ELSE f[y]]
Goes(j, job) == jobs' = [jobs EXCEPT ![j] = job]
Begins(j, job) == /\ jobs[j] = Idle /\ asked < MaxRequests /\ asked' = asked + 1
                  /\ Goes(j, job) /\ UNCHANGED <<changes, index, shelf, table, rivals, faults, crashes>>
Steps(j, job) == Goes(j, job) /\ UNCHANGED <<changes, index, shelf, table, rivals, asked, faults, crashes>>
\* An error the request answers with: a failed lookup, model, scan or parse.
Fails(j) == /\ faults < MaxFaults /\ faults' = faults + 1 /\ Goes(j, Idle)
            /\ UNCHANGED <<changes, index, shelf, table, rivals, asked, crashes>>
Answers(j, row, cached) == Steps(j, [jobs[j] EXCEPT !.pc = "answered", !.answer = <<row>>,
                                                    !.cached = cached])

-----------------------------------------------------------------------------
\* The index below: a source is ingested again, or deleted.
Reingest(s, c) ==
  /\ index[s] # c /\ index' = [index EXCEPT ![s] = c]
  /\ changes < MaxChanges /\ changes' = changes + 1
  /\ UNCHANGED <<shelf, table, jobs, rivals, asked, faults, crashes>>

\* A paper or a report is stored and read by its own request only.
Close(j) == jobs[j].pc = "answered" /\ Steps(j, Idle)

Crash ==
  /\ crashes < MaxCrashes /\ crashes' = crashes + 1
  /\ jobs' = [j \in Jobs |-> Idle]
  /\ UNCHANGED <<changes, index, shelf, table, rivals, asked, faults>>

-----------------------------------------------------------------------------
\* POST /note/generate and /mindmap/generate.

AskPaper(j, paper, sel, refresh) ==
  Begins(j, [Idle EXCEPT !.pc = IF refresh THEN "collect" ELSE "find", !.what = paper,
                         !.sel = sel, !.todo = sel, !.refresh = refresh])

\* Seeded fault: the stored paper is not looked for.
FindNothing(j) == jobs[j].pc = "find" /\ Steps(j, [jobs[j] EXCEPT !.pc = "collect"])

\* A stored paper is the answer, whatever the sources have become.
FindPaper(j) ==
  /\ jobs[j].pc = "find"
  /\ LET stored == shelf[jobs[j].what] IN
     IF jobs[j].sel \in DOMAIN stored THEN Answers(j, stored[jobs[j].sel], TRUE)
     ELSE Steps(j, [jobs[j] EXCEPT !.pc = "collect"])

\* Sources are read one by one; a deleted one is skipped.
Collect(j, s) ==
  /\ jobs[j].pc = "collect" /\ s \in jobs[j].todo
  /\ Steps(j, [jobs[j] EXCEPT !.todo = @ \ {s},
                 !.read = IF index[s] = Absent THEN @ ELSE Put(@, s, index[s])])

\* So is one whose lookup raises.
CollectRaises(j, s) ==
  /\ jobs[j].pc = "collect" /\ s \in jobs[j].todo
  /\ faults < MaxFaults /\ faults' = faults + 1
  /\ Goes(j, [jobs[j] EXCEPT !.todo = @ \ {s}])
  /\ UNCHANGED <<changes, index, shelf, table, rivals, asked, crashes>>

\* Seeded fault: a selection of which nothing is indexed gets its paper too.
CollectedNothing(j) ==
  /\ jobs[j].pc = "collect" /\ jobs[j].todo = {}
  /\ Steps(j, [jobs[j] EXCEPT !.pc = "write"])

Collected(j) ==
  /\ jobs[j].pc = "collect" /\ jobs[j].todo = {}
  /\ Steps(j, IF jobs[j].read = <<>> THEN Idle ELSE [jobs[j] EXCEPT !.pc = "write"])

\* The model answers within the ceiling; an empty note or outline is refused.
Write(j) == jobs[j].pc = "write" /\ Steps(j, [jobs[j] EXCEPT !.pc = "save"])
WriteFails(j) == jobs[j].pc = "write" /\ Fails(j)

Rival(j, k) == /\ k # j /\ jobs[k].pc \in {"collect", "write", "save"}
               /\ jobs[k].what = jobs[j].what /\ jobs[k].sel = jobs[j].sel
SavePaper(j) ==
  /\ jobs[j].pc = "save" /\ jobs[j].what \in Papers
  /\ shelf' = [shelf EXCEPT ![jobs[j].what] = Put(@, jobs[j].sel, jobs[j].read)]
  /\ rivals' = IF \E k \in Jobs : Rival(j, k)
               THEN rivals \cup {<<jobs[j].what, jobs[j].sel>>} ELSE rivals
  /\ Goes(j, [jobs[j] EXCEPT !.pc = "answered", !.answer = <<jobs[j].read>>])
  /\ UNCHANGED <<changes, index, table, asked, faults, crashes>>

-----------------------------------------------------------------------------
\* POST /{report}/generate and /scan; /regenerate and /rescan refresh.

AskReport(j, r, x, s, refresh) ==
  Begins(j, [Idle EXCEPT !.pc = "read", !.what = r, !.project = x, !.sel = {s},
                         !.refresh = refresh])

Source(j) == CHOOSE s \in jobs[j].sel : TRUE
ReadIndex(j) ==
  /\ jobs[j].pc = "read"
  /\ LET s == Source(j) IN
     Steps(j, IF index[s] = Absent THEN Idle
              ELSE [jobs[j] EXCEPT !.read = [x \in {s} |-> index[s]],
                                   !.pc = IF jobs[j].refresh THEN "run" ELSE "lookup"])

\* Seeded fault: the fingerprint is left out of the key.
KeyOfSource(row) == <<row.project, row.source>>

\* The key of a row: the project, the source and the fingerprint of its paths.
Key(row) == <<row.project, row.source, row.of.tree>>
Row(j) == [project |-> jobs[j].project, source |-> Source(j), of |-> jobs[j].read[Source(j)]]
OfKey(rows, row) == {old \in ToSet(rows) : Key(old) = Key(row)}
Stored(r, row) == KeptOf(table[r], OfKey(table[r], row))

Lookup(j) ==
  /\ jobs[j].pc = "lookup"
  /\ LET hits == Stored(jobs[j].what, Row(j)) IN
     IF hits = <<>> THEN Steps(j, [jobs[j] EXCEPT !.pc = "run"]) ELSE Answers(j, hits[1], TRUE)

\* A scan is bounded by its timeout.
Scan(j) == /\ jobs[j].pc = "run" /\ jobs[j].what \in Scanned
           /\ Steps(j, [jobs[j] EXCEPT !.pc = "save"])

\* Seeded fault: an unreadable reply is asked for again and again.
AsksForEver(j) == /\ jobs[j].pc = "run" /\ jobs[j].what \in Drawn
                  /\ Steps(j, [jobs[j] EXCEPT !.tries = 1 - @])

\* Seeded fault: the attempts are not limited.
AsksAgain(j) == /\ jobs[j].pc = "run" /\ jobs[j].what \in Drawn
                /\ Steps(j, [jobs[j] EXCEPT !.tries = @ + 1])

\* The model draws the graph.  A reply that cannot be read is asked for once more;
\* paths that are not in the source are stripped; another fault is an error.
Draw(j) == /\ jobs[j].pc = "run" /\ jobs[j].what \in Drawn
           /\ Steps(j, [jobs[j] EXCEPT !.pc = "save"])
Unreadable(j) == /\ jobs[j].pc = "run" /\ jobs[j].what \in Drawn /\ jobs[j].tries = 0
                 /\ Steps(j, [jobs[j] EXCEPT !.tries = 1])
RunFails(j) == jobs[j].pc = "run" /\ Fails(j)

\* The upsert replaces the row of the same key and dates it now.
SaveReport(j) ==
  /\ jobs[j].pc = "save" /\ jobs[j].what \in Reports
  /\ LET r == jobs[j].what IN
     table' = [table EXCEPT ![r] =
                 Append(KeptOf(@, ToSet(@) \ OfKey(@, Row(j))), Row(j))]
  /\ Goes(j, [jobs[j] EXCEPT !.pc = "answered", !.answer = <<Row(j)>>])
  /\ UNCHANGED <<changes, index, shelf, rivals, asked, faults, crashes>>

-----------------------------------------------------------------------------
Quiet == (\A j \in Jobs : jobs[j] = Idle) /\ UNCHANGED vars

Advance(j) ==
  \/ FindPaper(j) \/ \E s \in Sources : Collect(j, s)
  \/ Collected(j) \/ Write(j) \/ SavePaper(j)
  \/ ReadIndex(j) \/ Lookup(j) \/ Scan(j) \/ Draw(j) \/ Unreadable(j) \/ SaveReport(j) \/ Close(j)

Next ==
  \/ \E s \in Sources, c \in Contents : Reingest(s, c)
  \/ \E j \in Jobs :
       \/ Advance(j)
       \/ \E s \in Sources : CollectRaises(j, s)
       \/ WriteFails(j) \/ RunFails(j)
       \/ \E refresh \in BOOLEAN :
            \/ \E p \in Papers, sel \in (SUBSET Sources) \ {{}} : AskPaper(j, p, sel, refresh)
            \/ \E r \in Reports, x \in Projects, s \in Sources : AskReport(j, r, x, s, refresh)
  \/ Crash \/ Quiet

Spec == Init /\ [][Next]_vars /\ \A j \in Jobs : WF_vars(Advance(j))

-----------------------------------------------------------------------------
TypeOK ==
  /\ index \in [Sources -> Contents]
  /\ \A p \in Papers : DOMAIN shelf[p] \subseteq (SUBSET Sources) \ {{}}
  /\ \A r \in Reports : \A i \in DOMAIN table[r] :
       <<table[r][i].project, table[r][i].source, table[r][i].of.tree>> \in Projects \X Sources \X Trees
  /\ \A j \in Jobs : jobs[j].tries \in 0..1 /\ jobs[j].todo \subseteq jobs[j].sel

\* A paper is found under exactly the sources it may speak of: it was written
\* from some of them, and from no source of another selection.
PaperOfItsSelection ==
  \A p \in Papers : \A sel \in DOMAIN shelf[p] :
    /\ DOMAIN shelf[p][sel] # {} /\ DOMAIN shelf[p][sel] \subseteq sel
    /\ \A j \in Jobs : jobs[j].pc = "answered" /\ jobs[j].what = p /\ jobs[j].sel = sel
                       /\ ~jobs[j].cached => jobs[j].answer[1] = jobs[j].read

\* "Idempotent: if a note is already stored for the same selection it is returned
\* unchanged": only a refresh, or a request that was writing the same paper when
\* the first one was stored, replaces a stored paper.
StoredPaperStays ==
  [][\A p \in Papers : \A sel \in DOMAIN shelf[p] :
       shelf'[p][sel] # shelf[p][sel] =>
         \/ <<p, sel>> \in rivals
         \/ \E j \in Jobs : jobs[j].refresh /\ jobs[j].what = p /\ jobs[j].sel = sel]_vars

\* One row per key; and a report answered, from the cache or not, was made of the
\* very file tree the request read, however often the source changed since.
ReportOfItsTree ==
  /\ \A r \in Reports : \A i, k \in DOMAIN table[r] :
       i # k => <<table[r][i].project, table[r][i].source, table[r][i].of.tree>>
                # <<table[r][k].project, table[r][k].source, table[r][k].of.tree>>
  /\ \A j \in Jobs : jobs[j].pc = "answered" /\ jobs[j].what \in Reports =>
       LET row == jobs[j].answer[1] s == Source(j) IN
       /\ row.project = jobs[j].project /\ row.source = s
       /\ row.of.tree = jobs[j].read[s].tree
       /\ ~jobs[j].cached => row.of = jobs[j].read[s]

\* Every request ends: the model and the scans are bounded by a timeout and an
\* unreadable graph is asked for once more only.
Ended(j) == jobs[j] = Idle
RequestsEnd == \A j \in Jobs : []<>Ended(j)
=============================================================================
