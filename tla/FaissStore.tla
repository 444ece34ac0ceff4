----------------------------- MODULE FaissStore -----------------------------
(***************************************************************************)
(* The dense half of the knowledge base (backend/core/storage/             *)
(* faiss_store.py): a FAISS index and a list of chunks, joined by position *)
(* only -- vector i belongs to chunk i -- kept in memory and in two files. *)
(*                                                                         *)
(* A request is a coroutine on one event loop.  Whatever it hands to       *)
(* asyncio.to_thread interleaves with every other request, step by step;   *)
(* the code between two awaits is one step.  The vector of a chunk is      *)
(* written as the chunk it was computed from, so "aligned" is equality of  *)
(* the two sequences.  One element stands for one add's batch.             *)
(***************************************************************************)
EXTENDS Naturals, Sequences, SequencesExt, FiniteSets

CONSTANTS Procs,      \* requests that use the store
          Ops,          \* request -> the operations it may call
          Sources,      \* source ids
          MaxAdds,      \* bound: batches added in a behaviour
          MaxCrashes,   \* bound: process restarts in a behaviour
          MaxFaults,    \* bound: OSErrors while persisting
          None          \* Python's None, an absent file, a free lock

Kinds == {"add", "delete", "reload", "clear", "info", "search"}

Chunk == [source_id : Sources, n : 0..MaxAdds]

ASSUME OpsAssumption == Ops \in [Procs -> SUBSET Kinds]
ASSUME BoundsAssumption == MaxAdds \in Nat /\ MaxCrashes \in Nat /\ MaxFaults \in Nat
ASSUME NoneAssumption ==
  None \notin Procs /\ None \notin Seq(Chunk) /\ None \notin Sources

VARIABLES lock,      \* _load_lock: the request that holds it, or None
          loaded,    \* _loaded
          index,     \* _index: None or the sequence of vectors
          chunks,    \* _chunks
          dIndex,    \* the index file, None when absent
          dMeta,     \* the .json metadata file
          dAlt,      \* the legacy .meta.json file
          pc,        \* where each request stands
          op,        \* what each request asked for
          then,      \* where its load returns to
          tmp,       \* its thread's local: chunks kept, or a temp file
          found,     \* what its search returned: <<vector, chunk>> pairs
          adds, crashes, faults, \* the bounded counters
          tainted,   \* history: something the store does not guard against
          crossed    \* history: searches during which positions were given new chunks

memory == <<loaded, index, chunks>>
disk   == <<dIndex, dMeta, dAlt>>
bounds == <<adds, crashes, faults>>
vars == <<lock, memory, disk, pc, op, then, tmp, found, bounds, tainted, crossed>>

PCs == {"idle", "ensure", "body", "loadIndex", "loadMeta", "delLock", "delCheck",
        "swapChunks", "reload", "forceReload", "reloadInfo", "addChunks", "writeIndex",
        "replaceIndex", "writeMeta", "replaceMeta", "scan", "lookup"}

\* The steps between the first and the last write to the memory pair or the
\* disk pair: an operation of another request here sees half of a change.
Mid == {"loadIndex", "loadMeta", "addChunks", "swapChunks", "writeIndex",
        "replaceIndex", "writeMeta", "replaceMeta"}

\* Where a request holds _load_lock.
Holding(p) ==
  \/ pc[p] \in {"loadIndex", "loadMeta", "delCheck", "swapChunks", "reload"}
  \/ op[p].kind = "delete" /\ pc[p] \in {"writeIndex", "replaceIndex", "writeMeta", "replaceMeta"}

Interferes(p) == \E q \in Procs \ {p} : pc[q] \in Mid

Goto(p, l) == pc' = [pc EXCEPT ![p] = l]
Acquire(p) == lock = None /\ lock' = p
Release(p) == lock' = IF lock = p THEN None ELSE lock

\* The metadata a load reads: .json, else .meta.json, else nothing.
MetaFile == IF dMeta # None THEN dMeta ELSE dAlt

\* What an earlier run may have left in the files: a batch of some sources.
Stored ==
  {<<>>} \cup {<<[source_id |-> s, n |-> 0]>> : s \in Sources}
    \cup {<<[source_id |-> s, n |-> 0], [source_id |-> t, n |-> 0]>> : s, t \in Sources}

Init ==
  /\ lock = None
  /\ loaded = FALSE /\ index = None /\ chunks = <<>>
  /\ \/ dIndex = None /\ dMeta = None /\ dAlt = None
     \/ \E s \in Stored : /\ dIndex = s
                          /\ \/ dMeta = s /\ dAlt = None
                             \/ dMeta = None /\ dAlt = s
  /\ pc = [p \in Procs |-> "idle"]
  /\ op = [p \in Procs |-> [kind |-> "none"]]
  /\ then = [p \in Procs |-> "idle"]
  /\ tmp = [p \in Procs |-> <<>>]
  /\ found = [p \in Procs |-> {}]
  /\ adds = 0 /\ crashes = 0 /\ faults = 0
  /\ tainted = FALSE /\ crossed = {}

-----------------------------------------------------------------------------
(* A request calls one of the store's methods. *)

\* main.py clears the stores before it serves the first request.
Clearing == \E p \in Procs : op[p].kind = "clear" /\ pc[p] # "idle"

Started(p, request, l) ==
  /\ pc[p] = "idle" /\ request.kind \in Ops[p]
  /\ ~Clearing
  /\ op' = [op EXCEPT ![p] = request]
  /\ Goto(p, l)
  /\ then' = [then EXCEPT ![p] = "body"]
  /\ found' = [found EXCEPT ![p] = {}]
  /\ tmp' = [tmp EXCEPT ![p] = <<>>]
  /\ crossed' = crossed \ {p}
  /\ UNCHANGED <<lock, memory, disk, crashes, faults, tainted>>

CallAdd(p) ==
  /\ adds < MaxAdds /\ adds' = adds + 1
  /\ \E s \in Sources :
       Started(p, [kind |-> "add", chunk |-> [source_id |-> s, n |-> adds + 1]], "ensure")

CallDelete(p) ==
  /\ \E s \in Sources : Started(p, [kind |-> "delete", source |-> s], "delLock")
  /\ UNCHANGED adds

\* search, get_source_info, get_source_ids_async and get_chunks_by_source_id,
\* and clear_all, start by making sure the store is loaded; force_reload
\* only takes the lock.
CallOther(p) ==
  /\ \E k \in {"clear", "info", "search", "reload"} :
       /\ k = "clear" => \A q \in Procs : op[q].kind = "none"
       /\ Started(p, [kind |-> k], IF k = "reload" THEN "forceReload" ELSE "ensure")
  /\ UNCHANGED adds

-----------------------------------------------------------------------------
(* _ensure_loaded and _load_sync. *)

\* Seeded fault: the flag is looked at, and the lock is not.
EnsureLoadedUnlocked(p) ==
  /\ pc[p] = "ensure"
  /\ IF loaded /\ index # None
       THEN Goto(p, "body") /\ UNCHANGED lock
       ELSE Goto(p, "loadIndex") /\ lock' = p
  /\ UNCHANGED <<memory, disk, op, then, tmp, found, bounds, tainted, crossed>>

EnsureLoaded(p) ==
  /\ pc[p] = "ensure" /\ lock = None
  /\ IF loaded /\ index # None
       THEN Goto(p, "body") /\ UNCHANGED lock
       ELSE Goto(p, "loadIndex") /\ lock' = p
  /\ UNCHANGED <<memory, disk, op, then, tmp, found, bounds, tainted, crossed>>

\* The load is over: the flag is set, and the lock is released unless this is
\* the load at the start of a delete.
Loaded(p) ==
  /\ loaded' = TRUE
  /\ Goto(p, then[p])
  /\ IF then[p] = "delCheck" THEN UNCHANGED lock ELSE Release(p)

\* Seeded fault: without an index file the load is tried again.
LoadIndexUntilPresent(p) ==
  /\ pc[p] = "loadIndex"
  /\ CASE dIndex # None ->
            index' = dIndex /\ Goto(p, "loadMeta") /\ UNCHANGED <<loaded, lock>>
       [] dIndex = None /\ op[p].kind \in {"add", "search"} -> index' = <<>> /\ Loaded(p)
       [] dIndex = None /\ op[p].kind \notin {"add", "search"} ->
            Goto(p, "ensure") /\ Release(p) /\ UNCHANGED <<loaded, index>>
  /\ UNCHANGED <<chunks, disk, op, then, tmp, found, bounds, tainted, crossed>>

\* add and search pass the dimension of their vectors, so a missing index file
\* gives them an empty index; everyone else leaves the index deferred.
LoadIndex(p) ==
  /\ pc[p] = "loadIndex"
  /\ IF dIndex # None
       THEN index' = dIndex /\ Goto(p, "loadMeta") /\ UNCHANGED <<loaded, lock>>
       ELSE /\ index' = IF op[p].kind \in {"add", "search"} THEN <<>> ELSE index
            /\ Loaded(p)
  /\ UNCHANGED <<chunks, disk, op, then, tmp, found, bounds, tainted, crossed>>

\* The pair in memory is replaced under a search that has only its hits: their
\* positions may mean other chunks.
Crosses == crossed' = crossed \cup {q \in Procs : pc[q] = "lookup"}

\* Without a metadata file the chunks in memory stay as they are.
LoadMeta(p) ==
  /\ pc[p] = "loadMeta"
  /\ chunks' = IF MetaFile # None THEN MetaFile ELSE chunks
  /\ Loaded(p) /\ Crosses
  /\ UNCHANGED <<index, disk, op, then, tmp, found, bounds, tainted>>

-----------------------------------------------------------------------------
(* add: a thread that never takes the lock. *)

AddVectors(p) ==
  /\ pc[p] = "body" /\ op[p].kind = "add"
  /\ IF index = None  \* AttributeError: the store was unloaded meanwhile
       THEN Goto(p, "idle") /\ UNCHANGED <<index, tainted>>
       ELSE /\ index' = Append(index, op[p].chunk)
            /\ Goto(p, "addChunks")
            /\ tainted' = (tainted \/ Interferes(p))
  /\ UNCHANGED <<lock, loaded, chunks, disk, op, then, tmp, found, bounds, crossed>>

AddChunks(p) ==
  /\ pc[p] = "addChunks"
  /\ chunks' = Append(chunks, op[p].chunk)
  /\ Goto(p, "writeIndex")
  /\ UNCHANGED <<lock, loaded, index, disk, op, then, tmp, found, bounds, tainted, crossed>>

-----------------------------------------------------------------------------
(* _persist_sync: each file is written to a temporary one and renamed. *)

\* What follows a save: an add is over; a delete drops and reloads the memory
\* copy.
Saved(p) == Goto(p, IF op[p].kind = "delete" THEN "reload" ELSE "idle")

\* Seeded fault: a save of an empty index is taken for nothing to do.
WriteIndexUnlessEmpty(p) ==
  /\ pc[p] = "writeIndex"
  /\ IF index \in {None, <<>>}
       THEN Saved(p) /\ UNCHANGED tmp
       ELSE Goto(p, "replaceIndex") /\ tmp' = [tmp EXCEPT ![p] = index]
  /\ UNCHANGED <<lock, memory, disk, op, then, found, bounds, tainted, crossed>>

\* AttributeError, and nothing saved, when the store was unloaded meanwhile.
WriteIndex(p) ==
  /\ pc[p] = "writeIndex"
  /\ IF index = None
       THEN Goto(p, "idle") /\ Release(p) /\ UNCHANGED tmp
       ELSE Goto(p, "replaceIndex") /\ tmp' = [tmp EXCEPT ![p] = index] /\ UNCHANGED lock
  /\ UNCHANGED <<memory, disk, op, then, found, bounds, tainted, crossed>>

ReplaceIndex(p) ==
  /\ pc[p] = "replaceIndex"
  /\ dIndex' = tmp[p]
  /\ Goto(p, "writeMeta")
  /\ UNCHANGED <<lock, memory, dMeta, dAlt, op, then, tmp, found, bounds, tainted, crossed>>

WriteMeta(p) ==
  /\ pc[p] = "writeMeta"
  /\ tmp' = [tmp EXCEPT ![p] = chunks]
  /\ Goto(p, "replaceMeta")
  /\ UNCHANGED <<lock, memory, disk, op, then, found, bounds, tainted, crossed>>

\* The rename, then the unlink of the legacy file.
ReplaceMeta(p) ==
  /\ pc[p] = "replaceMeta"
  /\ dMeta' = tmp[p] /\ dAlt' = None
  /\ Saved(p)
  /\ UNCHANGED <<lock, memory, dIndex, op, then, tmp, found, bounds, tainted, crossed>>

\* A file operation of _persist_sync raises; the exception leaves the method,
\* and with it the lock when the method is delete_by_source_id.
PersistError(p) ==
  /\ pc[p] \in {"writeIndex", "replaceIndex", "writeMeta", "replaceMeta"}
  /\ faults < MaxFaults /\ faults' = faults + 1
  /\ tainted' = (tainted \/ pc[p] \in {"writeMeta", "replaceMeta"})
  /\ Goto(p, "idle") /\ Release(p)
  /\ UNCHANGED <<memory, disk, op, then, tmp, found, adds, crashes, crossed>>

-----------------------------------------------------------------------------
(* delete_by_source_id: holds the lock from here to its last load. *)

DelLock(p) ==
  /\ pc[p] = "delLock" /\ Acquire(p)
  /\ Goto(p, IF loaded THEN "delCheck" ELSE "loadIndex")
  /\ then' = [then EXCEPT ![p] = IF loaded THEN then[p] ELSE "delCheck"]
  /\ UNCHANGED <<memory, disk, op, tmp, found, bounds, tainted, crossed>>

\* The increasing enumerations of a set of positions (there is one).
Enumerations(keep) ==
  {e \in UNION {[1..n -> keep] : n \in 0..Len(chunks)} :
     /\ \A i, j \in DOMAIN e : i < j => e[i] < e[j]
     /\ \A k \in keep : \E i \in DOMAIN e : e[i] = k}

\* The thread of a delete finds the chunks to keep and reconstructs their
\* vectors into a fresh index; FAISS raises on a position beyond its last
\* vector.  Nothing of the source: nothing is written.
DelRebuild(p) ==
  /\ pc[p] = "delCheck"
  /\ LET keep == {i \in DOMAIN chunks : chunks[i].source_id # op[p].source} IN
     \/ /\ index = None \/ chunks = <<>>
        /\ Goto(p, "idle") /\ Release(p) /\ UNCHANGED <<index, tmp, tainted>>
     \/ /\ index # None /\ chunks # <<>> /\ keep = DOMAIN chunks
        /\ Goto(p, "reload") /\ UNCHANGED <<lock, index, tmp, tainted>>
     \/ /\ index # None /\ keep # DOMAIN chunks /\ ~(keep \subseteq DOMAIN index)
        /\ Goto(p, "idle") /\ Release(p) /\ UNCHANGED <<index, tmp, tainted>>
     \/ /\ index # None /\ keep # DOMAIN chunks /\ keep \subseteq DOMAIN index
        /\ \E e \in Enumerations(keep) :
             /\ index' = [i \in DOMAIN e |-> index[e[i]]]
             /\ tmp' = [tmp EXCEPT ![p] = [i \in DOMAIN e |-> chunks[e[i]]]]
        /\ tainted' = (tainted \/ Interferes(p))
        /\ Goto(p, "swapChunks") /\ UNCHANGED lock
  /\ UNCHANGED <<loaded, chunks, disk, op, then, found, bounds, crossed>>

\* Seeded fault: the rebuilt index is saved next to the old chunks.
DelSwapNothing(p) ==
  /\ pc[p] = "swapChunks"
  /\ Goto(p, "writeIndex")
  /\ UNCHANGED <<lock, memory, disk, op, then, tmp, found, bounds, tainted, crossed>>

DelSwapChunks(p) ==
  /\ pc[p] = "swapChunks"
  /\ chunks' = tmp[p] /\ Crosses
  /\ Goto(p, "writeIndex")
  /\ UNCHANGED <<lock, loaded, index, disk, op, then, tmp, found, bounds, tainted>>

\* Seeded fault: the list of chunks is dropped to None instead of [].
DropToNone == loaded' = FALSE /\ index' = None /\ chunks' = None

DropMemory == loaded' = FALSE /\ index' = None /\ chunks' = <<>>

DelReload(p) ==
  /\ pc[p] = "reload"
  /\ DropMemory /\ Crosses
  /\ Goto(p, "loadIndex") /\ then' = [then EXCEPT ![p] = "idle"]
  /\ tainted' = (tainted \/ Interferes(p))
  /\ UNCHANGED <<lock, disk, op, tmp, found, bounds>>

ForceReload(p) ==
  /\ pc[p] = "forceReload" /\ lock = None
  /\ DropMemory /\ Crosses
  /\ Goto(p, "idle")
  /\ tainted' = (tainted \/ Interferes(p))
  /\ UNCHANGED <<lock, disk, op, then, tmp, found, bounds>>

\* clear_all, after its load: no lock and no await, so one step.  (CLEAR_ON_START
\* is its only caller: what a crash interrupts, the next start does again.)
ClearAll(p) ==
  /\ pc[p] = "body" /\ op[p].kind = "clear"
  /\ IF chunks = <<>> /\ index \in {None, <<>>}
       THEN UNCHANGED <<index, chunks, disk, tainted>>
       ELSE /\ index' = IF index = None THEN None ELSE <<>>
            /\ chunks' = <<>>
            /\ dIndex' = None /\ dMeta' = None /\ dAlt' = None
            /\ tainted' = (tainted \/ Interferes(p))
  /\ Goto(p, "idle")
  /\ UNCHANGED <<lock, loaded, op, then, tmp, found, bounds, crossed>>

-----------------------------------------------------------------------------
(* get_source_info: vectors without chunks are taken for a failed load of *)
(* the metadata, and loaded again.                                        *)

InfoCheck(p) ==
  /\ pc[p] = "body" /\ op[p].kind = "info"
  /\ IF chunks = <<>> /\ index \notin {None, <<>>}
       THEN Goto(p, "reloadInfo") /\ tainted' = (tainted \/ Interferes(p))
       ELSE Goto(p, "idle") /\ UNCHANGED tainted
  /\ UNCHANGED <<lock, memory, disk, op, then, tmp, found, bounds, crossed>>

InfoReload(p) ==
  /\ pc[p] = "reloadInfo" /\ Acquire(p)
  /\ loaded' = FALSE /\ chunks' = <<>>
  /\ Goto(p, "loadIndex") /\ then' = [then EXCEPT ![p] = "idle"]
  /\ UNCHANGED <<index, disk, op, tmp, found, bounds, tainted, crossed>>

-----------------------------------------------------------------------------
(* search: the emptiness check is on the event loop, the rest in a thread. *)

SearchCheck(p) ==
  /\ pc[p] = "body" /\ op[p].kind = "search"
  /\ Goto(p, IF index \in {None, <<>>} THEN "idle" ELSE "scan")
  /\ UNCHANGED <<lock, memory, disk, op, then, tmp, found, bounds, tainted, crossed>>

\* Every vector is a hit: ranking and top_k choose among these.
SearchScan(p) ==
  /\ pc[p] = "scan"
  /\ IF index = None THEN Goto(p, "idle") /\ UNCHANGED <<tmp, crossed>>
     ELSE /\ Goto(p, "lookup") /\ tmp' = [tmp EXCEPT ![p] = index]
          /\ crossed' = IF \E q \in Procs : pc[q] = "swapChunks"
                          THEN crossed \cup {p} ELSE crossed
  /\ UNCHANGED <<lock, memory, disk, op, then, found, bounds, tainted>>

\* Seeded fault: a hit beyond the last chunk is clamped to the last chunk.
SearchLookupClamped(p) ==
  /\ pc[p] = "lookup"
  /\ found' = [found EXCEPT ![p] =
       {<<tmp[p][i], chunks[IF i <= Len(chunks) THEN i ELSE Len(chunks)]>> :
          i \in {j \in DOMAIN tmp[p] : chunks # <<>>}}]
  /\ Goto(p, "idle")
  /\ UNCHANGED <<lock, memory, disk, op, then, tmp, bounds, tainted, crossed>>

\* Hits beyond the last chunk are skipped; exclude_source_ids filters these
\* pairs by the source of their chunk.
SearchLookup(p) ==
  /\ pc[p] = "lookup"
  /\ found' = [found EXCEPT ![p] =
       {<<tmp[p][i], chunks[i]>> : i \in DOMAIN tmp[p] \cap DOMAIN chunks}]
  /\ Goto(p, "idle")
  /\ UNCHANGED <<lock, memory, disk, op, then, tmp, bounds, tainted, crossed>>

-----------------------------------------------------------------------------
\* The process dies and restarts with what is on disk.
Crash ==
  /\ crashes < MaxCrashes /\ crashes' = crashes + 1
  /\ DropMemory
  /\ lock' = None
  /\ pc' = [p \in Procs |-> "idle"]
  /\ op' = [p \in Procs |-> [kind |-> "none"]]
  /\ then' = [p \in Procs |-> "idle"]
  /\ tmp' = [p \in Procs |-> <<>>]
  /\ found' = [p \in Procs |-> {}]
  /\ tainted' = (tainted \/ \E p \in Procs : pc[p] \in {"writeMeta", "replaceMeta"})
  /\ crossed' = {}
  /\ UNCHANGED <<disk, adds, faults>>

Call(p) == CallAdd(p) \/ CallDelete(p) \/ CallOther(p)

Locking(p) == EnsureLoaded(p) \/ DelLock(p) \/ ForceReload(p) \/ InfoReload(p)

Running(p) ==
  \/ LoadIndex(p) \/ LoadMeta(p)
  \/ AddVectors(p) \/ AddChunks(p)
  \/ WriteIndex(p) \/ ReplaceIndex(p) \/ WriteMeta(p) \/ ReplaceMeta(p)
  \/ DelRebuild(p) \/ DelSwapChunks(p) \/ DelReload(p)
  \/ ClearAll(p) \/ InfoCheck(p)
  \/ SearchCheck(p) \/ SearchScan(p) \/ SearchLookup(p)

Next ==
  \/ Crash
  \/ \E p \in Procs : Call(p) \/ Locking(p) \/ Running(p) \/ PersistError(p)

Spec == Init /\ [][Next]_vars

\* asyncio.Lock wakes its waiters in order, so a request that keeps finding
\* the lock free in turn gets it; threads and the event loop make progress.
FairSpec ==
  Spec /\ \A p \in Procs : WF_vars(Running(p)) /\ SF_vars(Locking(p))

-----------------------------------------------------------------------------
(* The variables keep their types. *)
Requests ==
  [kind : {"add"}, chunk : Chunk] \cup [kind : {"delete"}, source : Sources]
    \cup [kind : {"none", "clear", "info", "search", "reload"}]

File == Seq(Chunk) \cup {None}

TypeOK ==
  /\ lock \in Procs \cup {None}
  /\ loaded \in BOOLEAN /\ index \in File /\ chunks \in Seq(Chunk)
  /\ dIndex \in File /\ dMeta \in File /\ dAlt \in File
  /\ pc \in [Procs -> PCs] /\ op \in [Procs -> Requests]
  /\ then \in [Procs -> {"idle", "body", "delCheck"}]
  /\ tmp \in [Procs -> Seq(Chunk)]
  /\ found \in [Procs -> SUBSET (Chunk \X Chunk)]
  /\ adds \in 0..MaxAdds /\ crashes \in 0..MaxCrashes /\ faults \in 0..MaxFaults
  /\ tainted \in BOOLEAN /\ crossed \subseteq Procs

(* At most one request is inside async with _load_lock: no return, raise,  *)
(* crash or error of a save lets a second one in or leaves the lock behind. *)
Exclusive ==
  /\ \A p, q \in Procs : Holding(p) /\ Holding(q) => p = q
  /\ lock # None => Holding(lock)

(* Vector i belongs to chunk i, in memory and on disk, whenever no request *)
(* is half way through a change -- unless an add, which takes no lock, ran *)
(* into another change, or a crash or an OSError fell between the two      *)
(* renames of _persist_sync.  These are the only three causes: loads,      *)
(* deletes, reloads and searches in any order do not break the pairing.    *)
AtRest == \A p \in Procs : pc[p] \notin Mid

Aligned ==
  ~tainted /\ AtRest =>
    /\ index = None \/ index = chunks
    /\ dIndex = None \/ dIndex = MetaFile

(* A search only returns a chunk with the score of that chunk's own vector *)
(* (the guard idx >= len(_chunks) in _search_sync), however adds interleave *)
(* with it: only a delete, a load or a reload that replaces the pair in    *)
(* memory between its scan and its lookup can make it wrong.               *)
SearchPairs ==
  ~tainted => \A p \in Procs \ crossed : \A hit \in found[p] : hit[1] = hit[2]

(* delete_by_source_id says its lock keeps concurrent searches from        *)
(* reading stale state: a search next to deletes then pairs correctly too. *)
SearchSafeFromDeletes == \A p \in Procs : \A hit \in found[p] : hit[1] = hit[2]

(* Every request ends: the lock is always given back.                      *)
RequestsEnd == \A p \in Procs : pc[p] # "idle" ~> pc[p] = "idle"

(* The store implements DenseIndex when one request at a time changes it:  *)
(* an add or a delete that returned survives any crash, one that a crash   *)
(* cut off has happened whole or not at all, and nothing else is lost.     *)
Requested(p) ==
  CASE op[p].kind = "add" -> [kind |-> "add", chunk |-> op[p].chunk, committed |-> FALSE]
    [] op[p].kind = "clear" -> [kind |-> "clear", committed |-> FALSE]
    [] op[p].kind = "delete" ->
         [kind |-> "delete", source |-> op[p].source,
          committed |-> pc[p] = "reload" \/ then[p] = "idle"]

\* The chunks a restart would find, and the requests that would change them.
Content == IF dIndex = None \/ MetaFile = None THEN {} ELSE ToSet(MetaFile)
Waiting ==
  [p \in Procs |->
     IF pc[p] # "idle" /\ op[p].kind \in {"add", "clear", "delete"} THEN Requested(p) ELSE None]

Dense == INSTANCE DenseIndex WITH content <- Content, request <- Waiting

ASSUME NoRequestAssumption == None \notin Dense!Requests

\* The steps in which a request ends with an exception.
Raises(p) ==
  \/ AddVectors(p) /\ index = None
  \/ WriteIndex(p) /\ index = None
  \/ DelRebuild(p) /\ index # None
       /\ \E i \in DOMAIN chunks : chunks[i].source_id # op[p].source /\ i \notin DOMAIN index
  \/ PersistError(p)

\* One that ends without has taken effect: it had, or it does in that step.
ReturnsInEffect ==
  \A p \in Procs :
    Dense!Raise(p) => Raises(p) \/ Crash \/ Dense!Return(p) \/ Dense!Finish(p)

Refines == Dense!Spec /\ [][ReturnsInEffect]_vars
=============================================================================
