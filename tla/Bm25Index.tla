----------------------------- MODULE Bm25Index ------------------------------
(***************************************************************************)
(* The lexical half of the knowledge base (backend/core/storage/           *)
(* bm25_index.py): one SQLite FTS5 table behind one connection object that *)
(* every thread of the process shares.  add and search hand their work to  *)
(* a thread without holding _init_lock; delete and force_reload close the  *)
(* connection under it.  Because the connection is shared, so is its open  *)
(* transaction: whoever commits, commits what the others inserted, and     *)
(* whoever rolls back takes their rows away.                               *)
(***************************************************************************)
EXTENDS Naturals, FiniteSets

CONSTANTS Procs,       \* requests that use the index
          Ops,           \* request -> the operations it may call
          Chunk,         \* chunk ids; a batch is one chunk
          SourceOf,      \* chunk id -> its source
          MaxCrashes,    \* bound: process restarts
          MaxFaults,     \* bound: errors SQLite raises
          None

Kinds == {"add", "search", "delete", "reload", "clear"}
Sources == {SourceOf[c] : c \in Chunk}

ASSUME ProcsAssumption == IsFiniteSet(Procs)
ASSUME OpsAssumption == Ops \in [Procs -> SUBSET Kinds]
ASSUME BoundsAssumption == MaxCrashes \in Nat /\ MaxFaults \in Nat
ASSUME NoneAssumption == None \notin Procs /\ None \notin Nat

VARIABLES lock,        \* _init_lock
          initialized, \* _initialized
          conn,        \* _conn: None or the identity of the open connection
          rows,        \* committed rows: chunk id -> how many
          view,        \* the rows the open connection sees
          inTx,        \* it has a transaction open
          pc, op,      \* where each request stands, and what it asked for
          mine,        \* the connection of its "with self._conn" block
          acked,       \* history: chunks of adds that returned, not removed since
          struck,      \* history: open adds whose row a delete has removed
          undone,      \* history: a rollback took another request's row along
          raced,       \* history: chunks two adds found missing before either inserted it
          crashes, faults

connection == <<initialized, conn>>
table == <<rows, view, inTx>>
bounds == <<crashes, faults>>
history == <<acked, struck, undone, raced>>
vars == <<lock, connection, table, pc, op, mine, history, bounds>>

PCs == {"idle", "ensure", "init", "body", "select", "insert", "commit", "delLock",
        "delInit", "delCount", "delRows", "delCommit", "vacuum", "close", "reinit", "reload"}

\* Enough identities to tell an open connection from those still referred to.
Connections == 1..Cardinality(Procs) + 1

NoRows == [c \in Chunk |-> 0]
Of(s, table_) == [c \in Chunk |-> IF SourceOf[c] = s THEN 0 ELSE table_[c]]
Present(s, table_) == \E c \in Chunk : SourceOf[c] = s /\ table_[c] > 0

Goto(p, l) == pc' = [pc EXCEPT ![p] = l]
\* The call returns or raises; AddCommit is where an add returns.
Ends(p) == Goto(p, "idle") /\ mine' = [mine EXCEPT ![p] = None]
Release(p) == lock' = IF lock = p THEN None ELSE lock

Init ==
  /\ lock = None /\ initialized = FALSE /\ conn = None
  /\ \E stored \in SUBSET Chunk : rows = [c \in Chunk |-> IF c \in stored THEN 1 ELSE 0]
  /\ view = rows /\ inTx = FALSE
  /\ pc = [p \in Procs |-> "idle"] /\ op = [p \in Procs |-> [kind |-> "none"]]
  /\ mine = [p \in Procs |-> None]
  /\ acked = {c \in Chunk : rows[c] > 0} /\ struck = {} /\ undone = FALSE
  /\ raced = {}
  /\ crashes = 0 /\ faults = 0

-----------------------------------------------------------------------------
\* main.py clears the index before it serves the first request.
Clearing == \E p \in Procs : op[p].kind = "clear" /\ pc[p] # "idle"

Called(p, request, l) ==
  /\ pc[p] = "idle" /\ request.kind \in Ops[p] /\ ~Clearing
  /\ op' = [op EXCEPT ![p] = request]
  /\ Goto(p, l)
  /\ UNCHANGED <<lock, connection, table, mine, history, bounds>>

Call(p) ==
  \/ \E c \in Chunk : Called(p, [kind |-> "add", chunk |-> c], "ensure")
  \/ \E s \in Sources : Called(p, [kind |-> "delete", source |-> s], "delLock")
  \/ Called(p, [kind |-> "search"], "ensure")
  \/ Called(p, [kind |-> "reload"], "reload")
  \/ /\ \A q \in Procs : op[q].kind = "none"
     /\ Called(p, [kind |-> "clear"], "ensure")

\* _init_sync: a new connection sees what is committed.
Opens ==
  /\ conn' = CHOOSE n \in Connections : \A q \in Procs : mine[q] # n
  /\ view' = rows /\ inTx' = FALSE /\ UNCHANGED rows

EnsureInitialized(p) ==
  /\ pc[p] = "ensure" /\ lock = None
  /\ IF initialized THEN Goto(p, "body") /\ UNCHANGED lock
                    ELSE Goto(p, "init") /\ lock' = p
  /\ UNCHANGED <<connection, table, op, mine, history, bounds>>

\* Seeded fault: the flag is not set, and looked at again.
InitSyncForgetsFlag(p) ==
  /\ pc[p] = "init" /\ Opens
  /\ lock' = None /\ Goto(p, "ensure")
  /\ UNCHANGED <<initialized, op, mine, history, bounds>>

InitSync(p) ==
  /\ pc[p] = "init" /\ Opens
  /\ initialized' = TRUE /\ lock' = None /\ Goto(p, "body")
  /\ UNCHANGED <<op, mine, history, bounds>>

\* Seeded fault: the flag forgotten.
ClosesKeepingFlag ==
  /\ conn' = None
  /\ view' = rows /\ inTx' = FALSE
  /\ UNCHANGED <<initialized, rows>>

\* Closing the connection drops its open transaction.
Closes ==
  /\ conn' = None /\ initialized' = FALSE
  /\ view' = rows /\ inTx' = FALSE
  /\ UNCHANGED rows

-----------------------------------------------------------------------------
(* add: SELECT the ids that exist, INSERT the others, in one "with" block. *)

\* with self._conn: enters on the connection of this moment.
AddBegin(p) ==
  /\ pc[p] = "body" /\ op[p].kind = "add"
  /\ IF conn = None THEN Ends(p)
     ELSE Goto(p, "select") /\ mine' = [mine EXCEPT ![p] = conn]
  /\ UNCHANGED <<lock, connection, table, op, history, bounds>>

\* Another request has read or written in the transaction now open.
SharesTx(p) == \E q \in Procs \ {p} : pc[q] \in {"insert", "commit", "delCommit"}

\* An exception inside the block: roll back the connection it was entered on.
RollsBack(p) ==
  /\ Ends(p)
  /\ IF mine[p] = conn
       THEN /\ view' = rows /\ inTx' = FALSE
            /\ undone' = (undone \/ SharesTx(p))
       ELSE UNCHANGED <<view, inTx, undone>>
  /\ struck' = struck \ {p}
  /\ UNCHANGED <<rows, acked, raced>>

\* Seeded fault: every chunk of the batch is inserted, whatever exists.
AddSelectNothing(p) ==
  /\ pc[p] = "select"
  /\ IF conn = None THEN RollsBack(p)
     ELSE Goto(p, "insert") /\ UNCHANGED <<table, mine, history>>
  /\ UNCHANGED <<lock, connection, op, bounds>>

AddSelect(p) ==
  /\ pc[p] = "select"
  /\ LET c == op[p].chunk IN
     \/ conn = None /\ RollsBack(p)
     \/ /\ conn # None /\ view[c] > 0
        /\ Goto(p, "commit") /\ UNCHANGED <<table, mine, history>>
     \/ /\ conn # None /\ view[c] = 0
        /\ Goto(p, "insert")
        /\ raced' = raced \cup {d \in {c} : \E q \in Procs : pc[q] = "insert" /\ op[q].chunk = d}
        /\ UNCHANGED <<table, mine, acked, struck, undone>>
  /\ UNCHANGED <<lock, connection, op, bounds>>

AddInsert(p) ==
  /\ pc[p] = "insert"
  /\ IF conn = None THEN RollsBack(p)
     ELSE /\ view' = [view EXCEPT ![op[p].chunk] = @ + 1] /\ inTx' = TRUE
          /\ Goto(p, "commit") /\ UNCHANGED <<rows, mine, history>>
  /\ UNCHANGED <<lock, connection, op, bounds>>

\* Seeded fault: the error of a closed connection is swallowed.
AddCommitBlindly(p) ==
  /\ pc[p] = "commit"
  /\ acked' = acked \cup {op[p].chunk}
  /\ IF mine[p] = conn THEN rows' = view /\ inTx' = FALSE /\ UNCHANGED view
                       ELSE UNCHANGED table
  /\ Ends(p)
  /\ struck' = struck \ {p}
  /\ UNCHANGED <<lock, connection, op, undone, raced, bounds>>

\* The end of the block: a connection closed meanwhile cannot commit.  The
\* commit publishes a deletion that is in the shared transaction, too.
AddCommit(p) ==
  /\ pc[p] = "commit"
  /\ IF mine[p] = conn
       THEN /\ rows' = view /\ inTx' = FALSE /\ UNCHANGED view
            /\ acked' = {c \in acked \cup (IF p \in struck THEN {} ELSE {op[p].chunk}) :
                           \A q \in Procs :
                             ~(pc[q] = "delCommit" /\ op[q].source = SourceOf[c])}
            /\ Ends(p)
       ELSE UNCHANGED <<table, acked>> /\ Ends(p)
  /\ struck' = struck \ {p}
  /\ UNCHANGED <<lock, connection, op, undone, raced, bounds>>

\* SQLite raises inside the block (a full disk, a locked database).
AddFault(p) ==
  /\ pc[p] \in {"select", "insert", "commit"} /\ faults < MaxFaults /\ faults' = faults + 1
  /\ RollsBack(p)
  /\ UNCHANGED <<lock, connection, op, crashes>>

\* search, count and list_source_paths read through the shared connection.
Search(p) ==
  /\ pc[p] = "body" /\ op[p].kind = "search"
  /\ Ends(p)
  /\ UNCHANGED <<lock, connection, table, op, history, bounds>>

-----------------------------------------------------------------------------
(* delete_by_source_id: under the lock to the end. *)

DelLock(p) ==
  /\ pc[p] = "delLock" /\ lock = None /\ lock' = p
  /\ Goto(p, IF initialized THEN "delCount" ELSE "delInit")
  /\ UNCHANGED <<connection, table, op, mine, history, bounds>>

DelInit(p) ==
  /\ pc[p] = "delInit" /\ Opens
  /\ initialized' = TRUE /\ Goto(p, "delCount")
  /\ UNCHANGED <<lock, op, mine, history, bounds>>

DelCount(p) ==
  /\ pc[p] = "delCount"
  /\ Goto(p, IF Present(op[p].source, view) THEN "delRows" ELSE "close")
  /\ UNCHANGED <<lock, connection, table, op, mine, history, bounds>>

DelRows(p) ==
  /\ pc[p] = "delRows"
  /\ view' = Of(op[p].source, view) /\ inTx' = TRUE
  /\ struck' = struck \cup {q \in Procs : pc[q] = "commit" /\ SourceOf[op[q].chunk] = op[p].source}
  /\ Goto(p, "delCommit")
  /\ UNCHANGED <<lock, connection, rows, op, mine, acked, undone, raced, bounds>>

\* The commit also commits what an add left open in the shared transaction.
DelCommit(p) ==
  /\ pc[p] = "delCommit"
  /\ rows' = view /\ inTx' = FALSE
  /\ acked' = {c \in acked : SourceOf[c] # op[p].source}
  /\ Goto(p, "vacuum")
  /\ UNCHANGED <<lock, connection, view, op, mine, struck, undone, raced, bounds>>

\* SQLite refuses to VACUUM inside a transaction, whoever opened it.
Vacuum(p) ==
  /\ pc[p] = "vacuum"
  /\ IF inTx THEN Ends(p) /\ Release(p)
             ELSE Goto(p, "close") /\ UNCHANGED <<lock, mine>>
  /\ UNCHANGED <<connection, table, op, history, bounds>>

DelClose(p) ==
  /\ pc[p] = "close" /\ Closes /\ Goto(p, "reinit")
  /\ UNCHANGED <<lock, op, mine, history, bounds>>

\* The new connection, and the count that is only logged.
DelReinit(p) ==
  /\ pc[p] = "reinit" /\ Opens
  /\ initialized' = TRUE /\ Release(p) /\ Ends(p)
  /\ UNCHANGED <<op, history, bounds>>

\* SQLite raises in the delete: the block rolls back and the lock is released.
DelFault(p) ==
  /\ pc[p] \in {"delRows", "delCommit"} /\ faults < MaxFaults /\ faults' = faults + 1
  /\ view' = rows /\ inTx' = FALSE
  /\ undone' = (undone \/ SharesTx(p))
  /\ Ends(p) /\ Release(p)
  /\ UNCHANGED <<connection, rows, op, acked, struck, raced, crashes>>

ForceReload(p) ==
  /\ pc[p] = "reload" /\ lock = None
  /\ Closes /\ Ends(p)
  /\ UNCHANGED <<lock, op, history, bounds>>

\* Drops the table, closes, and unlinks the files, at startup only.
ClearAll(p) ==
  /\ pc[p] = "body" /\ op[p].kind = "clear"
  /\ rows' = NoRows /\ view' = NoRows /\ inTx' = FALSE
  /\ conn' = None /\ initialized' = FALSE
  /\ acked' = {} /\ Ends(p)
  /\ UNCHANGED <<lock, op, struck, undone, raced, bounds>>

-----------------------------------------------------------------------------
Crash ==
  /\ crashes < MaxCrashes /\ crashes' = crashes + 1
  /\ lock' = None /\ Closes
  /\ pc' = [p \in Procs |-> "idle"] /\ op' = [p \in Procs |-> [kind |-> "none"]]
  /\ mine' = [p \in Procs |-> None]
  /\ struck' = {} /\ UNCHANGED <<acked, undone, raced, faults>>

Locking(p) == EnsureInitialized(p) \/ DelLock(p) \/ ForceReload(p)

Running(p) ==
  \/ InitSync(p) \/ AddBegin(p) \/ AddSelect(p) \/ AddInsert(p) \/ AddCommit(p)
  \/ Search(p) \/ DelInit(p) \/ DelCount(p) \/ DelRows(p) \/ DelCommit(p)
  \/ Vacuum(p) \/ DelClose(p) \/ DelReinit(p) \/ ClearAll(p)

Next ==
  \/ Crash
  \/ \E p \in Procs :
       Call(p) \/ Locking(p) \/ Running(p) \/ AddFault(p) \/ DelFault(p)

Spec == Init /\ [][Next]_vars

\* asyncio.Lock wakes its waiters in order; threads and the event loop run.
FairSpec == Spec /\ \A p \in Procs : WF_vars(Running(p)) /\ SF_vars(Locking(p))

-----------------------------------------------------------------------------
(* The variables keep their types. *)
TypeOK ==
  /\ lock \in Procs \cup {None} /\ initialized \in BOOLEAN
  /\ conn \in Connections \cup {None}
  /\ rows \in [Chunk -> Nat] /\ view \in [Chunk -> Nat] /\ inTx \in BOOLEAN
  /\ pc \in [Procs -> PCs]
  /\ op \in [Procs -> [kind : {"add"}, chunk : Chunk] \cup [kind : {"delete"}, source : Sources]
                        \cup [kind : {"none", "search", "reload", "clear"}]]
  /\ mine \in [Procs -> Connections \cup {None}]
  /\ acked \subseteq Chunk /\ struck \subseteq Procs
  /\ undone \in BOOLEAN /\ raced \subseteq Chunk
  /\ crashes \in 0..MaxCrashes /\ faults \in 0..MaxFaults

(* A chunk whose add returned is committed, over reloads and crashes, until *)
(* its source is deleted -- unless a rollback of another request took it    *)
(* along, the one hazard the shared transaction leaves.                     *)
AckedIsDurable == ~undone => \A c \in acked : rows[c] > 0

(* An initialized index has a connection: no later request can be handed    *)
(* None by a connection that was closed without clearing the flag.          *)
InitializedIsOpen == lock = None /\ initialized => conn # None

(* Every call ends: the lock is given back, by the VACUUM that raises too.   *)
Ended(p) == pc[p] = "idle"
CallsEnd == \A p \in Procs : []<>Ended(p)

(* A row is stored once: "inserted %d new chunk(s), skipped %d duplicate(s)"*)
(* is true whatever deletes, reloads and restarts run beside the adds,      *)
(* unless two of them looked for the chunk before either inserted it, or a  *)
(* rollback undid a deletion between an add's look and its insert.          *)
NoDuplicateRows == ~undone => \A c \in Chunk \ raced : rows[c] <= 1
=============================================================================
