--------------------------- MODULE ChatMigration ----------------------------
(***************************************************************************)
(* The upgrade of an older chat.db (ChatStore._connect and _migrate_sync,  *)
(* backend/app/chat/store.py).  Every operation on the store opens its own *)
(* connection and, on the way, rebuilds a chat_messages table that has no  *)
(* seq column.  sqlite3 opens a transaction at the first INSERT and not    *)
(* before, so the rename and the new table are committed one by one, and   *)
(* only the copy and the drop are one transaction.                         *)
(*                                                                         *)
(* A message is its created_at stamp; the session it is in does not matter *)
(* here (ChatHistory has the sessions).                                    *)
(***************************************************************************)
EXTENDS Naturals, FiniteSets, Sequences, SequencesExt

CONSTANTS Procs,       \* requests
          MaxMessages, \* bound: messages ever written
          MaxFaults,   \* bound: copies SQLite refuses
          MaxCrashes   \* bound: process restarts

UpgradeBounds == MaxMessages \in Nat /\ MaxFaults \in Nat /\ MaxCrashes \in Nat

Stamps == 1..MaxMessages

VARIABLES table,       \* chat_messages: is it there, is seq its key, can its index be
                       \* made, and its rows
          legacy,      \* chat_messages_legacy
          clock,       \* the last created_at
          pc, req,     \* where a request stands; what it does, its created_at
          stored,      \* history: messages whose add returned
          told,        \* history: the messages the last reader was shown
          interrupted, \* history: a migration was cut off after its rename
          overlapped,  \* history: another request ran beside a migration
          faults, crashes

vars == <<table, legacy, clock, pc, req, stored, told, interrupted, overlapped, faults, crashes>>

PCs == {"idle", "schema", "inspect", "rename", "create", "copy", "body"}
Nothing == [kind |-> "none", at |-> 0]
Fresh == [there |-> TRUE, seq |-> TRUE, index |-> TRUE, rows |-> <<>>]
Absent == [Fresh EXCEPT !.there = FALSE]

Goto(p, l) == pc' = [pc EXCEPT ![p] = l] /\ UNCHANGED req
Ends(p) == pc' = [pc EXCEPT ![p] = "idle"] /\ req' = [req EXCEPT ![p] = Nothing]

Migrating(p) == pc[p] \in {"rename", "create", "copy"}
CutOff(p) == pc[p] \in {"create", "copy"}
Others(p) == {q \in Procs \ {p} : pc[q] # "idle"}

\* Stamps differ: the one that so many others precede.
ByCreation(rows) ==
  LET stamps == ToSet(rows)
  IN  [i \in 1..Cardinality(stamps) |->
         CHOOSE at \in stamps : Cardinality({s \in stamps : s < at}) = i - 1]

\* A fresh database, a new one, or an old one, which listed by created_at.  The
\* index on seq can be "made" in an old one if it has one of that name, or a
\* column of that name which is not the key.
Init ==
  /\ \E n \in 0..MaxMessages, ordered \in BOOLEAN, seq \in BOOLEAN, index \in BOOLEAN :
       LET rows == IF ordered THEN [i \in 1..n |-> i] ELSE Reverse([i \in 1..n |-> i]) IN
       /\ \/ table = Absent /\ n = 0
          \/ /\ seq => index
             /\ table = [there |-> TRUE, seq |-> seq, index |-> index, rows |-> rows]
       /\ told = IF seq THEN rows ELSE ByCreation(rows)
       /\ clock = n /\ stored = 1..n
  /\ legacy = Absent
  /\ pc = [p \in Procs |-> "idle"] /\ req = [p \in Procs |-> Nothing]
  /\ interrupted = FALSE /\ overlapped = FALSE /\ faults = 0 /\ crashes = 0

-----------------------------------------------------------------------------
\* created_at is taken before the connection is opened.
Call(p) ==
  /\ pc[p] = "idle"
  /\ \/ /\ clock < MaxMessages /\ clock' = clock + 1
        /\ req' = [req EXCEPT ![p] = [kind |-> "add", at |-> clock + 1]]
     \/ req' = [req EXCEPT ![p] = [kind |-> "read", at |-> 0]] /\ UNCHANGED clock
  /\ pc' = [pc EXCEPT ![p] = "schema"]
  /\ overlapped' = (overlapped \/ \E q \in Others(p) : Migrating(q))
  /\ UNCHANGED <<table, legacy, stored, told, interrupted, faults, crashes>>

\* CREATE TABLE and CREATE INDEX, IF NOT EXISTS.
Created == IF table.there THEN table ELSE Fresh

\* OperationalError, no such column, before the migration would add it.
Schema(p) ==
  /\ pc[p] = "schema"
  /\ table' = Created
  /\ IF table'.index THEN Goto(p, "inspect") ELSE Ends(p)
  /\ UNCHANGED <<legacy, clock, stored, told, interrupted, overlapped, faults, crashes>>

\* PRAGMA table_info: a table that another request has just renamed is absent.
Inspect(p) ==
  /\ pc[p] = "inspect"
  /\ IF table.there /\ ~table.seq
       THEN Goto(p, "rename") /\ overlapped' = (overlapped \/ Others(p) # {})
       ELSE Goto(p, "body") /\ UNCHANGED overlapped
  /\ UNCHANGED <<table, legacy, clock, stored, told, interrupted, faults, crashes>>

-----------------------------------------------------------------------------
(* _migrate_sync. *)

\* Seeded fault: a legacy table in the way is dropped first.
RenameOver(p) ==
  /\ pc[p] = "rename"
  /\ IF ~table.there THEN Ends(p) /\ UNCHANGED <<table, legacy>>
     ELSE legacy' = table /\ table' = Absent /\ Goto(p, "create")
  /\ UNCHANGED <<clock, stored, told, interrupted, overlapped, faults, crashes>>

\* OperationalError when the table is gone or the legacy one is in the way.
Rename(p) ==
  /\ pc[p] = "rename"
  /\ IF ~table.there \/ legacy.there THEN Ends(p) /\ UNCHANGED <<table, legacy>>
     ELSE legacy' = table /\ table' = Absent /\ Goto(p, "create")
  /\ UNCHANGED <<clock, stored, told, interrupted, overlapped, faults, crashes>>

Create(p) ==
  /\ pc[p] = "create"
  /\ table' = Created
  /\ Goto(p, "copy")
  /\ UNCHANGED <<legacy, clock, stored, told, interrupted, overlapped, faults, crashes>>

Copied(p, rows) ==
  /\ pc[p] = "copy"
  /\ IF ~(table.there /\ legacy.there) THEN Ends(p) /\ UNCHANGED <<table, legacy>>
     ELSE table' = [table EXCEPT !.rows = @ \o rows] /\ legacy' = Absent /\ Goto(p, "body")
  /\ UNCHANGED <<clock, stored, told, interrupted, overlapped, faults, crashes>>

\* Seeded fault: the SELECT has no ORDER BY.
CopyUnordered(p) == Copied(p, legacy.rows)

\* INSERT ... SELECT ... ORDER BY created_at, and DROP: one transaction.
Copy(p) == Copied(p, ByCreation(legacy.rows))

\* It is refused -- a full disk, or a message whose session is gone, which the
\* foreign key does not admit -- and rolled back.
CopyFails(p) ==
  /\ pc[p] = "copy" /\ faults < MaxFaults /\ faults' = faults + 1
  /\ interrupted' = TRUE
  /\ Ends(p)
  /\ UNCHANGED <<table, legacy, clock, stored, told, overlapped, crashes>>

-----------------------------------------------------------------------------
Add(p) ==
  /\ pc[p] = "body" /\ req[p].kind = "add" /\ table.there
  /\ table' = [table EXCEPT !.rows = Append(@, req[p].at)]
  /\ stored' = stored \cup {req[p].at}
  /\ Ends(p)
  /\ UNCHANGED <<legacy, clock, told, interrupted, overlapped, faults, crashes>>

Read(p) ==
  /\ pc[p] = "body" /\ req[p].kind = "read" /\ table.there
  /\ told' = table.rows
  /\ Ends(p)
  /\ UNCHANGED <<table, legacy, clock, stored, interrupted, overlapped, faults, crashes>>

\* OperationalError: no such table, which another request has renamed.
NoTable(p) ==
  /\ pc[p] = "body" /\ ~table.there
  /\ Ends(p)
  /\ UNCHANGED <<table, legacy, clock, stored, told, interrupted, overlapped, faults, crashes>>

Crash ==
  /\ crashes < MaxCrashes /\ crashes' = crashes + 1
  /\ pc' = [p \in Procs |-> "idle"] /\ req' = [p \in Procs |-> Nothing]
  /\ interrupted' = (interrupted \/ \E p \in Procs : CutOff(p))
  /\ UNCHANGED <<table, legacy, clock, stored, told, overlapped, faults>>

Next ==
  \/ Crash
  \/ \E p \in Procs :
       \/ Call(p) \/ Schema(p) \/ Inspect(p)
       \/ Rename(p) \/ Create(p) \/ Copy(p) \/ CopyFails(p)
       \/ Add(p) \/ Read(p) \/ NoTable(p)

Spec == Init /\ [][Next]_vars

-----------------------------------------------------------------------------
(* The variables keep their types. *)
TypeOK ==
  /\ {table, legacy} \subseteq
       [there : BOOLEAN, seq : BOOLEAN, index : BOOLEAN, rows : Seq(Stamps)]
  /\ clock \in 0..MaxMessages
  /\ pc \in [Procs -> PCs]
  /\ req \in [Procs -> [kind : {"none", "add", "read"}, at : 0..MaxMessages]]
  /\ stored \subseteq Stamps /\ told \in Seq(Stamps)
  /\ interrupted \in BOOLEAN /\ overlapped \in BOOLEAN
  /\ faults \in 0..MaxFaults /\ crashes \in 0..MaxCrashes

\* A request is past its connection and no migration is half done.
Settled == (\E p \in Procs : pc[p] = "body") /\ \A p \in Procs : ~CutOff(p)

(* Every message is still in the table the store reads: two requests that  *)
(* both set out to migrate, or that write beside a migration, lose none,   *)
(* and neither does a restart before the rename or after the copy.         *)
NothingLost == Settled /\ ~interrupted => ~table.there \/ stored \subseteq ToSet(table.rows)

(* What a reader was shown is what the next one is shown first, in the same*)
(* order, from one version of the program to the next, unless a migration  *)
(* was cut off or another request ran beside it.                           *)
ShownFirst == ~interrupted' /\ ~overlapped' => IsPrefix(told, told')
ReadsGrow == [][ShownFirst]_vars

(* "legacy tables are rebuilt with rows copied", "chat history does not"   *)
(* come and go: a migration that was cut off is taken up again.            *)
HistoryIsKept == Settled => ~table.there \/ stored \subseteq ToSet(table.rows)
=============================================================================
