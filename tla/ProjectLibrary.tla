--------------------------- MODULE ProjectLibrary ---------------------------
(***************************************************************************)
(* The library of projects (backend/app/projects): which sources are on    *)
(* which project's card, kept in projects.db, against which sources are    *)
(* indexed, which is FAISS's to say.  The two are reconciled whenever the  *)
(* library is listed: sources without any project are adopted by a first   *)
(* one, and rows of sources that are gone are pruned -- each from an       *)
(* inventory read one or more awaits before.                               *)
(***************************************************************************)
EXTENDS FiniteSets, Naturals

CONSTANTS Procs,      \* requests
          Ops,        \* request -> the operations it may call
          Projects,   \* bound: project ids, issued once each
          Sources,    \* source ids
          Repos,      \* those that are GitHub sources
          MaxCrashes, \* bound: process restarts
          None

Kinds == {"create", "attach", "detach", "tool", "drop", "list", "ingest", "delete"}

OpsAssumption == Ops \in [Procs -> SUBSET Kinds]
ReposAssumption == Repos \subseteq Sources
NoneAssumption == None \notin Sources /\ None \notin Projects /\ MaxCrashes \in Nat

VARIABLES live,      \* the sources FAISS lists
          projects,  \* rows of projects
          members,   \* rows of project_sources: <<project, source>>
          tool,      \* project -> its tool_source_id, None when blank
          issued,    \* project ids handed out so far
          pc, req,   \* where a request stands, and its locals
          torn,      \* history: projects dropped while a source was being attached
          crashes

vars == <<live, projects, members, tool, issued, pc, req, torn, crashes>>

PCs == {"idle", "find", "insert", "unlink", "inventory", "list", "adopt", "relist", "prune"}

\* A request's locals: its project and source, the inventory it read, and
\* what its loop has left to do; and, history, the sources ingested since.
Nothing == [kind |-> "none", project |-> None, source |-> None,
            inventory |-> {}, todo |-> {}, arrived |-> {}]

Becomes(p, l, r) == pc' = [pc EXCEPT ![p] = l] /\ req' = [req EXCEPT ![p] = r]
Goto(p, l) == pc' = [pc EXCEPT ![p] = l] /\ UNCHANGED req
Ends(p) == Becomes(p, "idle", Nothing)

May(p, kind) == pc[p] = "idle" /\ kind \in Ops[p]
MembersOf(x) == {s \in Sources : <<x, s>> \in members}

Init ==
  /\ live \in SUBSET Sources
  /\ projects = {} /\ members = {} /\ tool = [x \in Projects |-> None] /\ issued = {}
  /\ pc = [p \in Procs |-> "idle"] /\ req = [p \in Procs |-> Nothing]
  /\ torn = {} /\ crashes = 0

-----------------------------------------------------------------------------
(* One transaction each. *)

Created(x) ==
  /\ x \notin issued
  /\ projects' = projects \cup {x} /\ issued' = issued \cup {x}

\* The bound on ids leaves one for every listing that may still migrate.
SpareId ==
  Cardinality(Projects \ issued)
    > Cardinality({q \in Procs : req[q].kind = "list" /\ req[q].project = None})

Create(p) ==
  /\ May(p, "create") /\ SpareId
  /\ \E x \in Projects : Created(x)
  /\ UNCHANGED <<live, members, tool, pc, req, torn, crashes>>

Detach(p) ==
  /\ May(p, "detach")
  /\ \E row \in members : members' = members \ {row}
  /\ UNCHANGED <<live, projects, tool, issued, pc, req, torn, crashes>>

\* The source is not looked for among the project's, or anywhere.
SetToolSource(p) ==
  /\ May(p, "tool")
  /\ \E x \in projects, s \in Sources \cup {None} : tool' = [tool EXCEPT ![x] = s]
  /\ UNCHANGED <<live, projects, members, issued, pc, req, torn, crashes>>

BeingAttached(x) == \E q \in Procs : pc[q] = "insert" /\ req[q].project = x

Drop(p) ==
  /\ May(p, "drop")
  /\ \E x \in projects :
       /\ projects' = projects \ {x}
       /\ members' = {row \in members : row[1] # x}
       /\ torn' = IF BeingAttached(x) THEN torn \cup {x} ELSE torn
  /\ UNCHANGED <<live, tool, issued, pc, req, crashes>>

-----------------------------------------------------------------------------
(* attach_source: a SELECT, then the INSERT OR IGNORE. *)

CallAttach(p) ==
  /\ May(p, "attach")
  /\ \E x \in Projects, s \in Sources :
       Becomes(p, "find", [Nothing EXCEPT !.kind = "attach", !.project = x, !.source = s])
  /\ UNCHANGED <<live, projects, members, tool, issued, torn, crashes>>

\* A request that adopts sources goes on to its next one, found or not.
Continues(p) ==
  IF req[p].kind = "attach" THEN Ends(p)
  ELSE Becomes(p, "adopt", [req[p] EXCEPT !.source = None])

FindProject(p) ==
  /\ pc[p] = "find"
  /\ IF req[p].project \in projects THEN Goto(p, "insert") ELSE Continues(p)
  /\ UNCHANGED <<live, projects, members, tool, issued, torn, crashes>>

InsertMember(p) ==
  /\ pc[p] = "insert"
  /\ members' = members \cup {<<req[p].project, req[p].source>>}
  /\ Continues(p)
  /\ UNCHANGED <<live, projects, tool, issued, torn, crashes>>

-----------------------------------------------------------------------------
(* Sources come and go (KnowledgeBase); the route that deletes one takes it *)
(* off every card after the stores have dropped it.                         *)

HasInventory(q) == req[q].kind = "list" /\ pc[q] # "inventory"

Ingest(p) ==
  /\ May(p, "ingest")
  /\ \E s \in Sources \ live :
       /\ live' = live \cup {s}
       /\ req' = [q \in Procs |->
            IF HasInventory(q) THEN [req[q] EXCEPT !.arrived = @ \cup {s}] ELSE req[q]]
  /\ UNCHANGED <<projects, members, tool, issued, pc, torn, crashes>>

CallDeleteSource(p) ==
  /\ May(p, "delete")
  /\ \E s \in live :
       /\ live' = live \ {s}
       /\ Becomes(p, "unlink", [Nothing EXCEPT !.kind = "delete", !.source = s])
  /\ UNCHANGED <<projects, members, tool, issued, torn, crashes>>

RemoveEverywhere(p) ==
  /\ pc[p] = "unlink"
  /\ members' = {row \in members : row[2] # req[p].source}
  /\ Ends(p)
  /\ UNCHANGED <<live, projects, tool, issued, torn, crashes>>

-----------------------------------------------------------------------------
(* GET /projects: _inventory, then list_enriched. *)

CallList(p) ==
  /\ May(p, "list") /\ SpareId
  /\ Becomes(p, "inventory", [Nothing EXCEPT !.kind = "list"])
  /\ UNCHANGED <<live, projects, members, tool, issued, torn, crashes>>

\* FAISS answers, or it raises and the inventory is empty.
ReadInventory(p) ==
  /\ pc[p] = "inventory"
  /\ \E inventory \in {live, {}} : Becomes(p, "list", [req[p] EXCEPT !.inventory = inventory])
  /\ UNCHANGED <<live, projects, members, tool, issued, torn, crashes>>

\* Seeded fault: an inventory that could not be read counts as empty.
ListedBlindly(p, inventory) ==
  Becomes(p, "prune", [req[p] EXCEPT !.todo =
    {row \in members : row[1] \in projects /\ row[2] \notin inventory}])

\* With an empty inventory nothing is pruned.
Listed(p, inventory) ==
  Becomes(p, "prune", [req[p] EXCEPT !.todo =
    {row \in members : row[1] \in projects /\ row[2] \notin inventory /\ inventory # {}}])

List(p) ==
  /\ pc[p] = "list"
  /\ IF projects = {} /\ req[p].inventory # {}
       THEN Becomes(p, "adopt", [req[p] EXCEPT !.todo = req[p].inventory])
       ELSE Listed(p, req[p].inventory)
  /\ UNCHANGED <<live, projects, members, tool, issued, torn, crashes>>

\* create_project of "My Workspace".
Migrate(p) ==
  /\ pc[p] = "adopt" /\ req[p].project = None
  /\ \E x \in Projects : Created(x) /\ Becomes(p, "adopt", [req[p] EXCEPT !.project = x])
  /\ UNCHANGED <<live, members, tool, torn, crashes>>

\* for sid in by_id: attach_source.
Adopt(p) ==
  /\ pc[p] = "adopt" /\ req[p].project # None
  /\ IF req[p].todo = {} THEN Goto(p, "relist")
     ELSE \E s \in req[p].todo :
            Becomes(p, "find", [req[p] EXCEPT !.source = s, !.todo = @ \ {s}])
  /\ UNCHANGED <<live, projects, members, tool, issued, torn, crashes>>

Relist(p) ==
  /\ pc[p] = "relist"
  /\ Listed(p, req[p].inventory)
  /\ UNCHANGED <<live, projects, members, tool, issued, torn, crashes>>

\* detach_source of one stale row, or the end.
Prune(p) ==
  /\ pc[p] = "prune"
  /\ IF req[p].todo = {} THEN Ends(p) /\ UNCHANGED members
     ELSE \E row \in req[p].todo :
            /\ members' = members \ {row}
            /\ Becomes(p, "prune", [req[p] EXCEPT !.todo = @ \ {row}])
  /\ UNCHANGED <<live, projects, tool, issued, torn, crashes>>

Crash ==
  /\ crashes < MaxCrashes /\ crashes' = crashes + 1
  /\ pc' = [p \in Procs |-> "idle"] /\ req' = [p \in Procs |-> Nothing]
  /\ UNCHANGED <<live, projects, members, tool, issued, torn>>

Next ==
  \/ Crash
  \/ \E p \in Procs :
       \/ Create(p) \/ Detach(p) \/ SetToolSource(p) \/ Drop(p)
       \/ CallAttach(p) \/ FindProject(p) \/ InsertMember(p)
       \/ Ingest(p) \/ CallDeleteSource(p) \/ RemoveEverywhere(p)
       \/ CallList(p) \/ ReadInventory(p) \/ List(p) \/ Migrate(p) \/ Adopt(p) \/ Relist(p)
       \/ Prune(p)

Spec == Init /\ [][Next]_vars

-----------------------------------------------------------------------------
(* resolve_tool_source: the sources a Studio tool may be pointed at, none  *)
(* for a SourceResolutionError.                                            *)

\* get_enriched: the members the inventory knows, all when there is none.
LiveMembers(x, inventory) ==
  IF inventory = {} THEN MembersOf(x) ELSE MembersOf(x) \cap inventory

\* Seeded fault: the persisted choice is taken as it is.
ResolvePersisted(x, explicit, inventory) ==
  LET mine == LiveMembers(x, inventory)
      repos == mine \cap inventory \cap Repos IN
  CASE explicit # None -> mine \cap {explicit}
    [] explicit = None /\ tool[x] # None -> {tool[x]}
    [] explicit = None /\ tool[x] = None /\ repos # {} -> repos
    [] OTHER -> mine

\* An explicit choice is an error when it is not a member; a persisted one is
\* passed over.  Which of several is first is added_at's to say.
ResolveToolSource(x, explicit, inventory) ==
  LET mine == LiveMembers(x, inventory)
      repos == mine \cap inventory \cap Repos IN
  CASE explicit # None -> mine \cap {explicit}
    [] explicit = None /\ tool[x] \in mine -> {tool[x]}
    [] explicit = None /\ tool[x] \notin mine /\ repos # {} -> repos
    [] OTHER -> mine

-----------------------------------------------------------------------------
Requests == [kind : {"none", "attach", "delete", "list"},
             project : Projects \cup {None}, source : Sources \cup {None},
             inventory : SUBSET Sources, todo : SUBSET (Sources \cup (Projects \X Sources)),
             arrived : SUBSET Sources]

(* The variables keep their types. *)
TypeOK ==
  /\ live \subseteq Sources /\ projects \subseteq Projects /\ issued \subseteq Projects
  /\ members \subseteq Projects \X Sources /\ tool \in [Projects -> Sources \cup {None}]
  /\ pc \in [Procs -> PCs] /\ req \in [Procs -> Requests]
  /\ torn \subseteq Projects /\ crashes \in 0..MaxCrashes

(* A card's rows go with its project, unless a source was being attached.  *)
MembersHaveProject ==
  \A row \in members : row[1] \in projects \cup torn

(* A tool is never pointed at a source outside the project, or at a deleted*)
(* one, however stale the persisted choice is.                             *)
ToolStaysInProject ==
  \A x \in projects, explicit \in Sources \cup {None} :
    /\ ResolveToolSource(x, explicit, live) \subseteq LiveMembers(x, live)
    /\ LiveMembers(x, live) # {} /\ explicit = None => ResolveToolSource(x, explicit, live) # {}

(* A listing takes no live source off a card, whether FAISS could be read  *)
(* or not and whatever other requests attach or delete beside it, but one  *)
(* that was ingested after the listing had read its inventory.             *)
PrunesTheGone ==
  \A p \in Procs, row \in members \ members' :
    Prune(p) => row[2] \notin live \ req[p].arrived
PruneKeepsLive == [][PrunesTheGone]_vars
=============================================================================
