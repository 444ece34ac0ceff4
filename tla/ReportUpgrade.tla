--------------------------- MODULE ReportUpgrade ----------------------------
(***************************************************************************)
(* The upgrade of an older report table (_connect and _migrate_sync of the *)
(* stores in app/architecture, app/techstack, app/security, app/health):   *)
(* its key had no source.  The table is renamed, created anew and filled   *)
(* from the renamed one, the source of the old rows left blank.  sqlite3   *)
(* commits the rename and the new table one by one; the copy and the drop  *)
(* are one transaction.  Requests open a connection each.                  *)
(***************************************************************************)
EXTENDS Naturals, FiniteSets

CONSTANTS Procs,      \* requests
          ReportRows,      \* rows, told apart by project and fingerprint
          Sources,   \* sources of the reports
          Found,     \* the tables an earlier version may have left
          MaxCrashes,\* bound: process restarts
          Blank      \* the source of a row that has none

Row == [id : ReportRows, source : Sources \cup {Blank}]

UpgradeAssumption ==
  /\ Blank \notin Sources /\ MaxCrashes \in Nat
  /\ \A rows \in Found : \A row \in rows : row \in Row /\ row.source = Blank

VARIABLES main,    \* the table: is it there, has its key a source, and its rows
          spare,   \* the renamed table
          pc, req, \* where a request stands, and the row it stores
          kept,    \* history: the rows stored, and those found at the start
          cut,     \* history: a migration was cut off after its rename
          beside,  \* history: two requests migrated at a time
          crashes

vars == <<main, spare, pc, req, kept, cut, beside, crashes>>

PCs == {"idle", "schema", "look", "rename", "create", "copy", "body"}

Table(keyed, rows) == [there |-> TRUE, keyed |-> keyed, rows |-> rows]
Missing == [there |-> FALSE, keyed |-> TRUE, rows |-> {}]
Blanked(rows) == {[row EXCEPT !.source = Blank] : row \in rows}

Init ==
  /\ \E rows \in Found : main = Table(FALSE, rows) /\ kept = rows
  /\ spare = Missing
  /\ pc = [p \in Procs |-> "idle"] /\ req = [p \in Procs |-> Blank]
  /\ cut = FALSE /\ beside = FALSE /\ crashes = 0

Goto(p, l) == pc' = [pc EXCEPT ![p] = l] /\ UNCHANGED req
Fails(p) == /\ pc' = [pc EXCEPT ![p] = "idle"] /\ req' = [req EXCEPT ![p] = Blank]
            /\ UNCHANGED <<main, spare, kept, cut, beside, crashes>>
Migrating == {p \in Procs : pc[p] \in {"rename", "create", "copy"}}

Store(p) ==
  /\ pc[p] = "idle"
  /\ \E row \in ReportRows, s \in Sources : req' = [req EXCEPT ![p] = [id |-> row, source |-> s]]
  /\ pc' = [pc EXCEPT ![p] = "schema"]
  /\ UNCHANGED <<main, spare, kept, cut, beside, crashes>>

\* CREATE TABLE IF NOT EXISTS, of the new form.
Create == main' = IF main.there THEN main ELSE Table(TRUE, {})

Schema(p) ==
  /\ pc[p] = "schema" /\ Create /\ Goto(p, "look")
  /\ UNCHANGED <<spare, kept, cut, beside, crashes>>

\* A table that has the column, or that is gone at the moment, is left alone.
Look(p) ==
  /\ pc[p] = "look"
  /\ Goto(p, IF main.there /\ ~main.keyed THEN "rename" ELSE "body")
  /\ beside' = (beside \/ (pc'[p] = "rename" /\ Migrating # {}))
  /\ UNCHANGED <<main, spare, kept, cut, crashes>>

\* "No such table", or the new name is taken: the request fails.
RenameFails(p) == pc[p] = "rename" /\ (~main.there \/ spare.there) /\ Fails(p)
Rename(p) ==
  /\ pc[p] = "rename" /\ main.there /\ ~spare.there
  /\ spare' = main /\ main' = Missing /\ Goto(p, "create")
  /\ UNCHANGED <<kept, cut, beside, crashes>>

Recreate(p) ==
  /\ pc[p] = "create" /\ Create /\ Goto(p, "copy")
  /\ UNCHANGED <<spare, kept, cut, beside, crashes>>

\* Seeded fault: the renamed table is dropped without a copy.
Discard(rows, old) == rows

\* INSERT OR IGNORE of the old rows under a blank source, and the drop.
Copied(rows, old) == rows \cup Blanked(old)
Copy(p) ==
  /\ pc[p] = "copy" /\ main.there /\ spare.there
  /\ main' = [main EXCEPT !.rows = Copied(@, spare.rows)] /\ spare' = Missing /\ Goto(p, "body")
  /\ UNCHANGED <<kept, cut, beside, crashes>>
CopyFails(p) ==
  /\ pc[p] = "copy" /\ ~(main.there /\ spare.there)
  /\ Fails(p)

\* The upsert; a table that is gone, or not of the new form, raises.
BodyFails(p) ==
  /\ pc[p] = "body"
  /\ ~(main.there /\ main.keyed)
  /\ Fails(p)
Body(p) ==
  /\ pc[p] = "body" /\ main.there /\ main.keyed
  /\ main' = [main EXCEPT !.rows = @ \cup {req[p]}] /\ kept' = kept \cup {req[p]}
  /\ pc' = [pc EXCEPT ![p] = "idle"] /\ req' = [req EXCEPT ![p] = Blank]
  /\ UNCHANGED <<spare, cut, beside, crashes>>

Crash ==
  /\ crashes < MaxCrashes /\ crashes' = crashes + 1
  /\ pc' = [p \in Procs |-> "idle"] /\ req' = [p \in Procs |-> Blank]
  /\ cut' = (cut \/ \E p \in Procs : pc[p] \in {"create", "copy"})
  /\ UNCHANGED <<main, spare, kept, beside>>

Next ==
  \/ \E p \in Procs :
       \/ Store(p) \/ Schema(p) \/ Look(p) \/ RenameFails(p) \/ Rename(p) \/ Recreate(p)
       \/ Copy(p) \/ CopyFails(p) \/ BodyFails(p) \/ Body(p)
  \/ Crash

Spec == Init /\ [][Next]_vars

-----------------------------------------------------------------------------
(* The variables keep their types. *)
TypeOK ==
  /\ {main, spare} \subseteq [there : BOOLEAN, keyed : BOOLEAN, rows : SUBSET Row]
  /\ kept \subseteq Row
  /\ pc \in [Procs -> PCs] /\ req \in [Procs -> Row \cup {Blank}]
  /\ \A p \in Procs : pc[p] # "idle" => req[p] \in Row
  /\ cut \in BOOLEAN /\ beside \in BOOLEAN /\ crashes \in 0..MaxCrashes

\* "Old rows are preserved under a blank source_id": when no request is under way
\* every row found or stored is in the table under its id, unless a restart cut a
\* migration off between its rename and its copy; and it is under its own source
\* unless two requests migrated side by side.
RowsArePreserved ==
  (\A p \in Procs : pc[p] = "idle") /\ ~cut =>
    \A row \in kept :
      /\ main.there
      /\ main.keyed => \E r \in main.rows : r.id = row.id /\ r.source \in {row.source, Blank}
      /\ main.keyed /\ ~beside => row \in main.rows

=============================================================================
