---------------------------- MODULE ChatHistory -----------------------------
(***************************************************************************)
(* Chat sessions and messages (backend/app/chat/service.py and store.py),  *)
(* and the deletion of a project (app/projects/routes.py), which spans two *)
(* SQLite files: projects.db and chat.db.  One transaction is one step;    *)
(* the awaits between the transactions of a request are where requests     *)
(* interleave and where a crash leaves the first done and not the second.  *)
(***************************************************************************)
EXTENDS Naturals, FiniteSets

CONSTANTS Procs,      \* requests
          Projects,   \* project ids, issued once each
          Sessions,   \* session ids, issued once each
          Messages,   \* message ids, which a client may supply
          MaxLog,     \* bound: messages ever written
          MaxFaults,  \* bound: errors SQLite raises while deleting a project
          MaxCrashes, \* bound: process restarts
          None

ASSUME NoneAssumption == None \notin Projects
ASSUME BoundsAssumption == MaxLog \in Nat /\ MaxFaults \in Nat /\ MaxCrashes \in Nat

VARIABLES projects,  \* rows of projects
          sessions,  \* session id -> the project of its row, None without one
          log,       \* rows of chat_messages, by seq
          last,      \* the last seq given out (AUTOINCREMENT: none comes twice)
          issued,    \* project and session ids handed out so far
          pc, req,   \* where a request stands, and its arguments
          raced,     \* history: a session was created while its project went
          faults, crashes

vars == <<projects, sessions, log, last, issued, pc, req, raced, faults, crashes>>

Statuses == {"streaming", "done"}
PCs == {"idle", "check", "insert", "purge", "drop", "find", "append"}
Nothing == [kind |-> "none"]

Goto(p, l) == pc' = [pc EXCEPT ![p] = l] /\ UNCHANGED req
Ends(p) == pc' = [pc EXCEPT ![p] = "idle"] /\ req' = [req EXCEPT ![p] = Nothing]
Fault == faults < MaxFaults /\ faults' = faults + 1

Rows(s) == {n \in DOMAIN log : log[n].session = s}
Without(gone) == [n \in {m \in DOMAIN log : log[m].session \notin gone} |-> log[n]]
SessionsOf(x) == {s \in Sessions : sessions[s] = x}

Init ==
  /\ projects = {} /\ sessions = [s \in Sessions |-> None] /\ log = <<>> /\ last = 0
  /\ issued = {}
  /\ pc = [p \in Procs |-> "idle"] /\ req = [p \in Procs |-> Nothing]
  /\ raced = FALSE /\ faults = 0 /\ crashes = 0

-----------------------------------------------------------------------------
CreateProject ==
  \E x \in Projects \ issued :
    /\ projects' = projects \cup {x} /\ issued' = issued \cup {x}
    /\ UNCHANGED <<sessions, log, last, pc, req, raced, faults, crashes>>

\* A deletion of a project and the creation of a session in it overlap.
Opposed(r) ==
  \E q \in Procs :
    /\ {req[q].kind, r.kind} = {"create", "delete"}
    /\ req[q].project = r.project

Called(p, r, l) ==
  /\ pc[p] = "idle"
  /\ pc' = [pc EXCEPT ![p] = l] /\ req' = [req EXCEPT ![p] = r]
  /\ raced' = (raced \/ Opposed(r))
  /\ UNCHANGED <<projects, sessions, log, last, issued, faults, crashes>>

\* The bounds leave room for every request that is under way.
Pending(kind) == Cardinality({q \in Procs : req[q].kind = kind})

\* Any id can be asked for: a deleted one, or one that never was.
Call(p) ==
  \/ /\ Pending("create") < Cardinality(Sessions \ issued)
     /\ \E x \in Projects : Called(p, [kind |-> "create", project |-> x], "check")
  \/ \E x \in Projects : Called(p, [kind |-> "delete", project |-> x], "purge")
  \/ /\ last + Pending("add") < MaxLog
     /\ \E s \in Sessions, m \in Messages, st \in Statuses :
          Called(p, [kind |-> "add", row |-> [id |-> m, session |-> s, status |-> st]], "find")

-----------------------------------------------------------------------------
(* ChatService.create_session: two databases, two awaits. *)

CheckProject(p) ==
  /\ pc[p] = "check"
  /\ IF req[p].project \in projects THEN Goto(p, "insert") ELSE Ends(p)
  /\ UNCHANGED <<projects, sessions, log, last, issued, raced, faults, crashes>>

InsertSession(p) ==
  /\ pc[p] = "insert"
  /\ \E s \in Sessions \ issued :
       /\ sessions' = [sessions EXCEPT ![s] = req[p].project]
       /\ issued' = issued \cup {s}
  /\ Ends(p)
  /\ UNCHANGED <<projects, log, last, raced, faults, crashes>>

-----------------------------------------------------------------------------
(* The route that deletes a project. *)

\* Seeded fault: the messages go and the sessions stay.
PurgeMessagesOnly(p) ==
  /\ pc[p] = "purge"
  /\ log' = Without(SessionsOf(req[p].project))
  /\ Goto(p, "drop")
  /\ UNCHANGED <<projects, sessions, last, issued, raced, faults, crashes>>

\* delete_for_project, in one transaction.  An error is logged and the
\* deletion goes on.
Purge(p) ==
  /\ pc[p] = "purge"
  /\ \/ /\ sessions' = [s \in Sessions |-> IF sessions[s] = req[p].project THEN None ELSE sessions[s]]
        /\ log' = Without(SessionsOf(req[p].project))
        /\ UNCHANGED faults
     \/ Fault /\ UNCHANGED <<sessions, log>>
  /\ Goto(p, "drop")
  /\ UNCHANGED <<projects, last, issued, raced, crashes>>

DropProject(p) ==
  /\ pc[p] = "drop"
  /\ \/ projects' = projects \ {req[p].project} /\ UNCHANGED faults
     \/ Fault /\ UNCHANGED projects
  /\ Ends(p)
  /\ UNCHANGED <<sessions, log, last, issued, raced, crashes>>

DeleteSession ==
  \E s \in Sessions :
    /\ sessions[s] # None
    /\ sessions' = [sessions EXCEPT ![s] = None]
    /\ log' = Without({s})
    /\ UNCHANGED <<projects, last, issued, pc, req, raced, faults, crashes>>

-----------------------------------------------------------------------------
(* _add_message_sync: a SELECT of its own, then a transaction in which the *)
(* foreign key and the UNIQUE id are enforced.                             *)

FindSession(p) ==
  /\ pc[p] = "find"
  /\ IF sessions[req[p].row.session] # None THEN Goto(p, "append") ELSE Ends(p)
  /\ UNCHANGED <<projects, sessions, log, last, issued, raced, faults, crashes>>

Known(m) == \E n \in DOMAIN log : log[n].id = m

\* The row under the next seq; the transaction writes it or nothing.
Written(row, before) ==
  /\ last' = last + 1
  /\ log' = [n \in before \cup {last'} |-> IF n = last' THEN row ELSE log[n]]

\* Seeded faults: PRAGMA foreign_keys left off; INSERT OR REPLACE.
AppendUnchecked(p) ==
  /\ pc[p] = "append"
  /\ IF ~Known(req[p].row.id)
       THEN Written(req[p].row, DOMAIN log) ELSE UNCHANGED <<log, last>>
  /\ Ends(p)
  /\ UNCHANGED <<projects, sessions, issued, raced, faults, crashes>>

AppendOrReplace(p) ==
  /\ pc[p] = "append"
  /\ IF sessions[req[p].row.session] # None
       THEN Written(req[p].row, {n \in DOMAIN log : log[n].id # req[p].row.id})
       ELSE UNCHANGED <<log, last>>
  /\ Ends(p)
  /\ UNCHANGED <<projects, sessions, issued, raced, faults, crashes>>

AppendMessage(p) ==
  /\ pc[p] = "append"
  /\ IF sessions[req[p].row.session] # None /\ ~Known(req[p].row.id)
       THEN Written(req[p].row, DOMAIN log)
       ELSE UNCHANGED <<log, last>>  \* IntegrityError
  /\ Ends(p)
  /\ UNCHANGED <<projects, sessions, issued, raced, faults, crashes>>

\* Seeded fault: a null status in the patch is written.
UpdateMessageNull ==
  \E n \in DOMAIN log, st \in Statuses \cup {None} :
    /\ log' = [log EXCEPT ![n].status = st]
    /\ UNCHANGED <<projects, sessions, last, issued, pc, req, raced, faults, crashes>>

\* The result of a streamed answer, written over its own row.
UpdateMessage ==
  \E n \in DOMAIN log, st \in Statuses :
    /\ log' = [log EXCEPT ![n].status = st]
    /\ UNCHANGED <<projects, sessions, last, issued, pc, req, raced, faults, crashes>>

Crash ==
  /\ crashes < MaxCrashes /\ crashes' = crashes + 1
  /\ pc' = [p \in Procs |-> "idle"] /\ req' = [p \in Procs |-> Nothing]
  /\ UNCHANGED <<projects, sessions, log, last, issued, raced, faults>>

Next ==
  \/ CreateProject \/ DeleteSession \/ UpdateMessage \/ Crash
  \/ \E p \in Procs :
       \/ Call(p) \/ CheckProject(p) \/ InsertSession(p)
       \/ Purge(p) \/ DropProject(p) \/ FindSession(p) \/ AppendMessage(p)

Spec == Init /\ [][Next]_vars

-----------------------------------------------------------------------------
(* The variables keep their types. *)
Row == [id : Messages, session : Sessions, status : Statuses]

TypeOK ==
  /\ projects \subseteq Projects /\ issued \subseteq Projects \cup Sessions
  /\ sessions \in [Sessions -> Projects \cup {None}]
  /\ last \in Nat /\ DOMAIN log \subseteq 1..last /\ log \in [DOMAIN log -> Row]
  /\ pc \in [Procs -> PCs]
  /\ req \in [Procs -> {Nothing} \cup [kind : {"create", "delete"}, project : Projects]
                         \cup [kind : {"add"}, row : Row]]
  /\ raced \in BOOLEAN /\ faults \in 0..MaxFaults /\ crashes \in 0..MaxCrashes

(* A message has its session, whatever deletes the session between the two *)
(* statements that add the message.                                        *)
MessagesHaveSession == \A n \in DOMAIN log : sessions[log[n].session] # None

(* History is append-only: while a session exists none of its messages goes *)
(* or changes its place, whoever posts an id again, and what is new comes   *)
(* after them.                                                             *)
Appends ==
  \A s \in Sessions : sessions[s] # None /\ sessions'[s] # None =>
    /\ \A n \in Rows(s) : n \in Rows(s)' /\ log'[n].id = log[n].id
    /\ \A n \in Rows(s), new \in Rows(s)' \ Rows(s) : n < new
HistoryAppendOnly == [][Appends]_vars

(* No session outlives its project, unless it was created while the project*)
(* was being deleted, or the purge failed: crashes do not orphan history.  *)
SessionsHaveProject == \A s \in Sessions : sessions[s] # None => sessions[s] \in projects

OrphansOnlyByRace == ~raced /\ faults = 0 => SessionsHaveProject

(* A project that was dropped leaves no sessions: a failed purge "leaves   *)
(* the project (and its history) intact rather than orphaning sessions".   *)
DropOrphansNothing ==
  [][\A p \in Procs, x \in Projects :
       DropProject(p) /\ x = req[p].project /\ x \notin projects' => SessionsOf(x)' = {}]_vars
=============================================================================
