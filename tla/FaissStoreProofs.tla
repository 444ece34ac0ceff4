-------------------------- MODULE FaissStoreProofs --------------------------
(***************************************************************************)
(* Proofs about FaissStore for every set of requests, of operations and of *)
(* sources and every bound: its types, that vectors and chunks stay paired *)
(* unless one of the named causes occurs, and that the store with one      *)
(* request that writes implements DenseIndex.                              *)
(***************************************************************************)
EXTENDS FaissStore, TLAPS

(* Which method a request is in, where its program point tells.            *)
Coherent ==
  \A p \in Procs :
    /\ pc[p] = "ensure" => then[p] = "body"
    /\ pc[p] = "addChunks" => op[p].kind = "add"
    /\ pc[p] \in {"delLock", "delCheck", "swapChunks", "reload"} => op[p].kind = "delete"
    /\ pc[p] \in {"loadIndex", "loadMeta"} /\ then[p] = "delCheck" => op[p].kind = "delete"

(* _load_lock is held exactly between async with and the end of its block. *)
LockHeld == \A p \in Procs : Holding(p) <=> lock = p

Base == TypeOK /\ Coherent /\ LockHeld

(* The pair is in order in memory, and a loaded index is marked loaded.    *)
Full == IF index = None THEN chunks = <<>> ELSE index = chunks /\ loaded

DiskOK == dIndex = None \/ dIndex = MetaFile

(* What memory and disk look like at each step of a change.                *)
Shape(p) ==
  /\ pc[p] = "loadIndex" => index = None /\ chunks = <<>> /\ DiskOK
  /\ pc[p] = "loadMeta" => index = dIndex /\ dIndex # None /\ DiskOK
  /\ pc[p] = "addChunks" => /\ index = Append(chunks, op[p].chunk)
                            /\ loaded /\ DiskOK
  /\ pc[p] = "swapChunks" => index = tmp[p] /\ loaded /\ DiskOK
  /\ pc[p] = "writeIndex" => Full /\ index # None /\ DiskOK
  /\ pc[p] = "replaceIndex" => Full /\ index # None /\ tmp[p] = index /\ DiskOK
  /\ pc[p] = "writeMeta" => Full /\ index # None /\ dIndex = index
  /\ pc[p] = "replaceMeta" => /\ Full /\ index # None
                              /\ dIndex = index /\ tmp[p] = chunks

(* One change at a time, in the shape of its step; none: all in order.     *)
Orderly ==
  /\ \A p, q \in Procs : pc[p] \in Mid /\ pc[q] \in Mid => p = q
  /\ \A p \in Procs : Shape(p) /\ pc[p] # "reloadInfo"
  /\ AtRest => Full /\ DiskOK

IInv == Base /\ (~tainted => Orderly)

-----------------------------------------------------------------------------
(* The initial states satisfy the base invariant. *)
LEMMA BaseInit == Init => Base
<1> SUFFICES ASSUME Init PROVE Base
  OBVIOUS
<1>1. TypeOK
  <2>1. dIndex \in File /\ dMeta \in File /\ dAlt \in File
    <3>1. \A s \in Sources : [source_id |-> s, n |-> 0] \in Chunk
      BY BoundsAssumption DEF Chunk
    <3>2. <<>> \in Seq(Chunk)
      OBVIOUS
    <3>3. \A c \in Chunk : <<c>> \in Seq(Chunk)
      OBVIOUS
    <3>4. \A c, d \in Chunk : <<c, d>> \in Seq(Chunk)
      OBVIOUS
    <3>5. ASSUME NEW x \in Stored PROVE x \in Seq(Chunk)
      <4>1. \/ x = <<>>
            \/ \E s \in Sources : x = <<[source_id |-> s, n |-> 0]>>
            \/ \E s, t \in Sources :
                 x = <<[source_id |-> s, n |-> 0], [source_id |-> t, n |-> 0]>>
        BY <3>5 DEF Stored
      <4> QED
        BY <3>1, <3>2, <3>3, <3>4, <4>1
    <3> QED
      BY <3>5 DEF Init, File
  <2>2. op \in [Procs -> Requests]
    BY DEF Init, Requests
  <2>3. lock \in Procs \cup {None} /\ index \in File
    BY DEF Init, File
  <2>6. loaded \in BOOLEAN /\ tainted \in BOOLEAN
    BY Zenon DEF Init
  <2>7. chunks \in Seq(Chunk)
    BY DEF Init
  <2>4. /\ pc \in [Procs -> PCs] /\ then \in [Procs -> {"idle", "body", "delCheck"}]
        /\ tmp \in [Procs -> Seq(Chunk)] /\ found \in [Procs -> SUBSET (Chunk \X Chunk)]
    BY DEF Init, PCs
  <2>5. adds \in 0..MaxAdds /\ crashes \in 0..MaxCrashes /\ faults \in 0..MaxFaults
    BY BoundsAssumption DEF Init
  <2>8. crossed \subseteq Procs
    BY DEF Init
  <2> QED
    BY <2>1, <2>2, <2>3, <2>4, <2>5, <2>6, <2>7, <2>8 DEF TypeOK
<1>2. Coherent /\ LockHeld
  BY NoneAssumption DEF Init, Coherent, LockHeld, Holding
<1> QED
  BY <1>1, <1>2 DEF Base

-----------------------------------------------------------------------------
(* What force_reload and a delete leave in memory has the right types.     *)
LEMMA DropTypes == DropMemory => loaded' \in BOOLEAN /\ index' \in File /\ chunks' \in Seq(Chunk)
<1> SUFFICES ASSUME DropMemory PROVE loaded' \in BOOLEAN /\ index' \in File /\ chunks' \in Seq(Chunk)
  OBVIOUS
<1>1. loaded' \in BOOLEAN
  BY Zenon DEF DropMemory
<1>2. index' \in File
  BY DEF DropMemory, File
<1>3. chunks' \in Seq(Chunk)
  BY DEF DropMemory
<1> QED
  BY <1>1, <1>2, <1>3

(* Every step keeps the types.                                             *)
LEMMA TypeStep == TypeOK /\ Coherent /\ [Next]_vars => TypeOK'
<1> SUFFICES ASSUME TypeOK, Coherent, [Next]_vars PROVE TypeOK'
  OBVIOUS
<1> USE DEF PCs, Goto, memory, disk, bounds, Crosses
<1>1. ASSUME NEW p \in Procs, NEW r \in Requests, NEW l \in PCs, Started(p, r, l),
             adds' \in 0..MaxAdds
      PROVE  TypeOK'
  BY <1>1 DEF TypeOK, Started
<1>2. ASSUME NEW p \in Procs, Call(p) PROVE TypeOK'
  <2>1. CASE CallAdd(p)
    <3>1. PICK s \in Sources :
            Started(p, [kind |-> "add", chunk |-> [source_id |-> s, n |-> adds + 1]], "ensure")
      BY <2>1 DEF CallAdd
    <3>2. adds' \in 0..MaxAdds /\ adds + 1 \in 0..MaxAdds
      BY <2>1, BoundsAssumption DEF CallAdd, TypeOK
    <3>3. [kind |-> "add", chunk |-> [source_id |-> s, n |-> adds + 1]] \in Requests
      BY <3>2 DEF Requests, Chunk
    <3> QED
      BY <1>1, <3>1, <3>2, <3>3
  <2>2. CASE CallDelete(p)
    <3>1. PICK s \in Sources : Started(p, [kind |-> "delete", source |-> s], "delLock")
      BY <2>2 DEF CallDelete
    <3>2. adds' \in 0..MaxAdds
      BY <2>2 DEF CallDelete, TypeOK
    <3>3. [kind |-> "delete", source |-> s] \in Requests
      BY DEF Requests
    <3> QED
      BY <1>1, <3>1, <3>2, <3>3
  <2>3. CASE CallOther(p)
    <3>1. PICK k \in {"clear", "info", "search", "reload"} :
            Started(p, [kind |-> k], IF k = "reload" THEN "forceReload" ELSE "ensure")
      BY <2>3 DEF CallOther
    <3>2. adds' \in 0..MaxAdds
      BY <2>3 DEF CallOther, TypeOK
    <3>3. [kind |-> k] \in Requests
      BY DEF Requests
    <3>4. (IF k = "reload" THEN "forceReload" ELSE "ensure") \in PCs
      OBVIOUS
    <3> QED
      BY <1>1, <3>1, <3>2, <3>3, <3>4
  <2> QED
    BY <1>2, <2>1, <2>2, <2>3 DEF Call
<1>3. ASSUME NEW p \in Procs, Locking(p) PROVE TypeOK'
  <2>1. CASE EnsureLoaded(p)
    BY <2>1 DEF TypeOK, EnsureLoaded
  <2>2. CASE DelLock(p)
    BY <2>2 DEF TypeOK, DelLock, Acquire
  <2>3. CASE ForceReload(p)
    <3>1. tainted' \in BOOLEAN
      BY <2>3, Zenon DEF ForceReload, TypeOK
    <3> QED
      BY <2>3, <3>1, DropTypes DEF TypeOK, ForceReload
  <2>4. CASE InfoReload(p)
    <3>1. loaded' \in BOOLEAN
      BY <2>4, Zenon DEF InfoReload
    <3>2. chunks' \in Seq(Chunk)
      BY <2>4 DEF InfoReload
    <3> QED
      BY <2>4, <3>1, <3>2 DEF TypeOK, InfoReload, Acquire
  <2> QED
    BY <1>3, <2>1, <2>2, <2>3, <2>4 DEF Locking
<1>4. ASSUME NEW p \in Procs, LoadIndex(p) \/ LoadMeta(p) PROVE TypeOK'
  <2>1. CASE LoadIndex(p)
    <3>1. index' \in File
      <4>1. <<>> \in Seq(Chunk) /\ index \in File /\ dIndex \in File
        BY DEF TypeOK
      <4>2. index' \in {dIndex, <<>>, index}
        BY <2>1 DEF LoadIndex
      <4> QED
        BY <4>1, <4>2 DEF File
    <3>2. loaded' \in BOOLEAN /\ tainted' \in BOOLEAN
      BY <2>1, Zenon DEF LoadIndex, Loaded, TypeOK
    <3> QED
      BY <2>1, <3>1, <3>2 DEF TypeOK, LoadIndex, Loaded, Release
  <2>2. CASE LoadMeta(p)
    BY <2>2 DEF TypeOK, LoadMeta, Loaded, Release, MetaFile, File
  <2> QED
    BY <1>4, <2>1, <2>2
<1>5. ASSUME NEW p \in Procs, AddVectors(p) \/ AddChunks(p) PROVE TypeOK'
  <2>1. op[p].kind = "add" => op[p].chunk \in Chunk
    BY DEF TypeOK, Requests
  <2>2. CASE AddVectors(p)
    <3>1. tainted' \in BOOLEAN
      BY <2>2, Zenon DEF AddVectors, TypeOK
    <3>2. index' \in File
      <4>1. index \in File
        BY DEF TypeOK
      <4>2. index' = index \/ (index # None /\ index' = Append(index, op[p].chunk))
        BY <2>2 DEF AddVectors
      <4> QED
        BY <2>1, <2>2, <4>1, <4>2 DEF AddVectors, File
    <3> QED
      BY <2>2, <3>1, <3>2 DEF TypeOK, AddVectors
  <2>3. CASE AddChunks(p)
    <3>1. chunks' \in Seq(Chunk)
      BY <2>1, <2>3 DEF AddChunks, TypeOK, Coherent
    <3> QED
      BY <2>3, <3>1 DEF TypeOK, AddChunks
  <2> QED
    BY <1>5, <2>2, <2>3
<1>6. ASSUME NEW p \in Procs,
             WriteIndex(p) \/ ReplaceIndex(p) \/ WriteMeta(p) \/ ReplaceMeta(p)
      PROVE  TypeOK'
  <2>1. CASE WriteIndex(p)
    BY <2>1 DEF TypeOK, WriteIndex, Release, File
  <2>2. CASE ReplaceIndex(p)
    BY <2>2 DEF TypeOK, ReplaceIndex, File
  <2>3. CASE WriteMeta(p)
    BY <2>3 DEF TypeOK, WriteMeta
  <2>4. CASE ReplaceMeta(p)
    BY <2>4 DEF TypeOK, ReplaceMeta, Saved, File
  <2> QED
    BY <1>6, <2>1, <2>2, <2>3, <2>4
<1>7. ASSUME NEW p \in Procs, DelRebuild(p) PROVE TypeOK'
  <2>1. tainted' \in BOOLEAN
    BY <1>7, Zenon DEF DelRebuild, TypeOK
  <2> DEFINE keep == {i \in DOMAIN chunks : chunks[i].source_id # op[p].source}
  <2>2. index' \in File /\ tmp' \in [Procs -> Seq(Chunk)]
    <3>1. CASE index' = index /\ tmp' = tmp
      BY <3>1 DEF TypeOK
    <3>2. ASSUME index # None, keep \subseteq DOMAIN index, NEW e \in Enumerations(keep),
                 index' = [i \in DOMAIN e |-> index[e[i]]],
                 tmp' = [tmp EXCEPT ![p] = [i \in DOMAIN e |-> chunks[e[i]]]]
          PROVE  index' \in File /\ tmp' \in [Procs -> Seq(Chunk)]
      <4>1. PICK n \in 0..Len(chunks) : e \in [1..n -> keep]
        BY DEF Enumerations
      <4>2. n \in Nat /\ index \in Seq(Chunk) /\ chunks \in Seq(Chunk)
        BY <3>2 DEF TypeOK, File
      <4>3. \A i \in 1..n : index[e[i]] \in Chunk /\ chunks[e[i]] \in Chunk
        BY <3>2, <4>1, <4>2
      <4>4. [i \in DOMAIN e |-> index[e[i]]] \in Seq(Chunk)
        BY <4>1, <4>2, <4>3
      <4>5. [i \in DOMAIN e |-> chunks[e[i]]] \in Seq(Chunk)
        BY <4>1, <4>2, <4>3
      <4> QED
        BY <3>2, <4>4, <4>5 DEF TypeOK, File
    <3> QED
      BY <1>7, <3>1, <3>2 DEF DelRebuild
  <2>3. pc' \in [Procs -> PCs] /\ lock' \in Procs \cup {None}
    BY <1>7 DEF DelRebuild, Release, TypeOK
  <2> QED
    BY <1>7, <2>1, <2>2, <2>3 DEF TypeOK, DelRebuild
<1>8. ASSUME NEW p \in Procs, DelSwapChunks(p) \/ DelReload(p) PROVE TypeOK'
  <2>1. CASE DelSwapChunks(p)
    BY <2>1 DEF TypeOK, DelSwapChunks
  <2>2. CASE DelReload(p)
    <3>1. tainted' \in BOOLEAN
      BY <2>2, Zenon DEF DelReload, TypeOK
    <3> QED
      BY <2>2, <3>1, DropTypes DEF TypeOK, DelReload
  <2> QED
    BY <1>8, <2>1, <2>2
<1>9. ASSUME NEW p \in Procs, ClearAll(p) PROVE TypeOK'
  <2>1. tainted' \in BOOLEAN
    BY <1>9, Zenon DEF ClearAll, TypeOK
  <2>2. <<>> \in Seq(Chunk)
    OBVIOUS
  <2>3. index' \in File /\ chunks' \in Seq(Chunk)
    BY <1>9, <2>2 DEF ClearAll, TypeOK, File
  <2>4. dIndex' \in File /\ dMeta' \in File /\ dAlt' \in File
    BY <1>9 DEF ClearAll, TypeOK, File
  <2> QED
    BY <1>9, <2>1, <2>3, <2>4 DEF TypeOK, ClearAll
<1>10. ASSUME NEW p \in Procs, InfoCheck(p) PROVE TypeOK'
  <2>1. tainted' \in BOOLEAN
    BY <1>10, Zenon DEF InfoCheck, TypeOK
  <2> QED
    BY <1>10, <2>1 DEF TypeOK, InfoCheck
<1>11. ASSUME NEW p \in Procs, SearchCheck(p) \/ SearchScan(p) \/ SearchLookup(p)
       PROVE  TypeOK'
  <2>1. CASE SearchCheck(p)
    BY <2>1 DEF TypeOK, SearchCheck
  <2>2. CASE SearchScan(p)
    BY <2>2 DEF TypeOK, SearchScan, File
  <2>3. CASE SearchLookup(p)
    BY <2>3 DEF TypeOK, SearchLookup
  <2> QED
    BY <1>11, <2>1, <2>2, <2>3
<1>12. ASSUME NEW p \in Procs, PersistError(p) PROVE TypeOK'
  <2>1. tainted' \in BOOLEAN
    BY <1>12, Zenon DEF PersistError, TypeOK
  <2>2. faults' \in 0..MaxFaults
    BY <1>12, BoundsAssumption DEF PersistError, TypeOK
  <2> QED
    BY <1>12, <2>1, <2>2 DEF TypeOK, PersistError, Release
<1>13. CASE Crash
  <2>1. tainted' \in BOOLEAN
    BY <1>13, Zenon DEF Crash, TypeOK
  <2>2. crashes' \in 0..MaxCrashes
    BY <1>13, BoundsAssumption DEF Crash, TypeOK
  <2>3. op' \in [Procs -> Requests] /\ then' \in [Procs -> {"idle", "body", "delCheck"}]
    BY <1>13 DEF Crash, Requests
  <2>4. /\ pc' \in [Procs -> PCs] /\ tmp' \in [Procs -> Seq(Chunk)]
        /\ found' \in [Procs -> SUBSET (Chunk \X Chunk)] /\ lock' \in Procs \cup {None}
    BY <1>13 DEF Crash
  <2> QED
    BY <1>13, <2>1, <2>2, <2>3, <2>4, DropTypes DEF TypeOK, Crash
<1>14. CASE UNCHANGED vars
  BY <1>14 DEF TypeOK, vars
<1> QED
  BY <1>2, <1>3, <1>4, <1>5, <1>6, <1>7, <1>8, <1>9, <1>10, <1>11, <1>12, <1>13, <1>14
     DEF Next, Running

(* Every step keeps the coherence of program points and methods, and the   *)
(* lock with its holder.                                                   *)
LEMMA LockStep == Base /\ [Next]_vars => Coherent' /\ LockHeld'
<1> SUFFICES ASSUME Base, [Next]_vars PROVE Coherent' /\ LockHeld'
  OBVIOUS
<1> USE NoneAssumption DEF Base, TypeOK, Coherent, LockHeld, Holding, Goto
<1>1. ASSUME NEW p \in Procs, NEW r \in Requests, NEW l \in {"ensure", "delLock", "forceReload"},
             Started(p, r, l), l = "delLock" => r.kind = "delete"
      PROVE  Coherent' /\ LockHeld'
  BY <1>1 DEF Started
<1>a. ASSUME NEW p \in Procs, NEW l \in {"idle", "body"}, Goto(p, l), Release(p), op' = op
      PROVE  LockHeld'
  <2>1. CASE lock = p
    BY <1>a, <2>1 DEF Release
  <2>2. CASE lock # p
    BY <1>a, <2>2 DEF Release
  <2> QED
    BY <2>1, <2>2
<1>b. ASSUME NEW p \in Procs, NEW l \in PCs, Goto(p, l), lock' = lock, op' = op,
             Holding(p) <=> Holding(p)'
      PROVE  LockHeld'
  BY <1>b
<1>2. ASSUME NEW p \in Procs, Call(p) PROVE Coherent' /\ LockHeld'
  <2>1. CASE CallAdd(p)
    <3>1. PICK s \in Sources :
            Started(p, [kind |-> "add", chunk |-> [source_id |-> s, n |-> adds + 1]], "ensure")
      BY <2>1 DEF CallAdd
    <3>2. [kind |-> "add", chunk |-> [source_id |-> s, n |-> adds + 1]] \in Requests
      BY <2>1, BoundsAssumption DEF Requests, Chunk, CallAdd
    <3> QED
      BY <1>1, <3>1, <3>2
  <2>2. CASE CallDelete(p)
    <3>1. PICK s \in Sources : Started(p, [kind |-> "delete", source |-> s], "delLock")
      BY <2>2 DEF CallDelete
    <3>2. [kind |-> "delete", source |-> s] \in Requests
      BY DEF Requests
    <3> QED
      BY <1>1, <3>1, <3>2
  <2>3. CASE CallOther(p)
    <3>1. PICK k \in {"clear", "info", "search", "reload"} :
            Started(p, [kind |-> k], IF k = "reload" THEN "forceReload" ELSE "ensure")
      BY <2>3 DEF CallOther
    <3>2. [kind |-> k] \in Requests
      BY DEF Requests
    <3> QED
      BY <1>1, <3>1, <3>2
  <2> QED
    BY <1>2, <2>1, <2>2, <2>3 DEF Call
<1>3. ASSUME NEW p \in Procs, EnsureLoaded(p) PROVE Coherent' /\ LockHeld'
  BY <1>3 DEF EnsureLoaded
<1>4. ASSUME NEW p \in Procs, DelLock(p) PROVE Coherent' /\ LockHeld'
  BY <1>4 DEF DelLock, Acquire
<1>5. ASSUME NEW p \in Procs, ForceReload(p) PROVE Coherent' /\ LockHeld'
  BY <1>5 DEF ForceReload
<1>6. ASSUME NEW p \in Procs, InfoReload(p) PROVE Coherent' /\ LockHeld'
  BY <1>6 DEF InfoReload, Acquire
<1>7. ASSUME NEW p \in Procs, LoadIndex(p) PROVE Coherent' /\ LockHeld'
  <2>1. Coherent'
    BY <1>7 DEF LoadIndex, Loaded, Release
  <2>2. LockHeld'
    <3>1. CASE dIndex # None
      BY <1>7, <3>1, <1>b DEF LoadIndex, PCs
    <3>2. CASE dIndex = None /\ then[p] = "delCheck"
      BY <1>7, <3>2, <1>b DEF LoadIndex, Loaded, PCs
    <3>3. CASE dIndex = None /\ then[p] # "delCheck"
      <4>1. then[p] \in {"idle", "body"}
        BY <3>3
      <4>2. Goto(p, then[p]) /\ Release(p) /\ op' = op
        BY <1>7, <3>3 DEF LoadIndex, Loaded
      <4> HIDE DEF Goto, LockHeld
      <4> QED
        BY <1>a, <4>1, <4>2
    <3> QED
      BY <3>1, <3>2, <3>3
  <2> QED
    BY <2>1, <2>2
<1>8. ASSUME NEW p \in Procs, LoadMeta(p) PROVE Coherent' /\ LockHeld'
  BY <1>8 DEF LoadMeta, Loaded, Release
<1>9. ASSUME NEW p \in Procs, AddVectors(p) PROVE Coherent' /\ LockHeld'
  BY <1>9 DEF AddVectors
<1>10. ASSUME NEW p \in Procs, AddChunks(p) PROVE Coherent' /\ LockHeld'
  BY <1>10 DEF AddChunks
<1>11. ASSUME NEW p \in Procs, WriteIndex(p) PROVE Coherent' /\ LockHeld'
  <2>1. CASE index = None
    <3>1. pc[p] = "writeIndex" /\ Goto(p, "idle") /\ Release(p) /\ op' = op /\ then' = then
      BY <1>11, <2>1, Zenon DEF WriteIndex
    <3>2. Coherent'
      BY <3>1
    <3> HIDE DEF Goto, LockHeld
    <3> QED
      BY <1>a, <3>1, <3>2
  <2>2. CASE index # None
    BY <1>11, <2>2, <1>b DEF WriteIndex, PCs
  <2> QED
    BY <2>1, <2>2
<1>12. ASSUME NEW p \in Procs, ReplaceIndex(p) PROVE Coherent' /\ LockHeld'
  BY <1>12 DEF ReplaceIndex
<1>13. ASSUME NEW p \in Procs, WriteMeta(p) PROVE Coherent' /\ LockHeld'
  BY <1>13 DEF WriteMeta
<1>14. ASSUME NEW p \in Procs, ReplaceMeta(p) PROVE Coherent' /\ LockHeld'
  BY <1>14 DEF ReplaceMeta, Saved
<1>15. ASSUME NEW p \in Procs, DelRebuild(p) PROVE Coherent' /\ LockHeld'
  <2>1. \/ Goto(p, "idle") /\ Release(p)
        \/ Goto(p, "reload") /\ lock' = lock
        \/ Goto(p, "swapChunks") /\ lock' = lock
    BY <1>15, Zenon DEF DelRebuild
  <2>2. pc[p] = "delCheck" /\ op' = op /\ then' = then
    BY <1>15, Zenon DEF DelRebuild
  <2>3. Coherent'
    BY <2>1, <2>2
  <2>4. LockHeld'
    <3>1. CASE Goto(p, "idle") /\ Release(p)
      <4> HIDE DEF Goto, LockHeld
      <4> QED
        BY <1>a, <2>2, <3>1
    <3>2. CASE lock' = lock /\ (Goto(p, "reload") \/ Goto(p, "swapChunks"))
      BY <2>2, <3>2
    <3> QED
      BY <2>1, <3>1, <3>2
  <2> QED
    BY <2>3, <2>4
<1>16. ASSUME NEW p \in Procs, DelSwapChunks(p) PROVE Coherent' /\ LockHeld'
  BY <1>16 DEF DelSwapChunks
<1>17. ASSUME NEW p \in Procs, DelReload(p) PROVE Coherent' /\ LockHeld'
  BY <1>17 DEF DelReload
<1>18. ASSUME NEW p \in Procs, ClearAll(p) PROVE Coherent' /\ LockHeld'
  BY <1>18 DEF ClearAll
<1>19. ASSUME NEW p \in Procs, InfoCheck(p) PROVE Coherent' /\ LockHeld'
  BY <1>19 DEF InfoCheck
<1>20. ASSUME NEW p \in Procs, SearchCheck(p) PROVE Coherent' /\ LockHeld'
  BY <1>20 DEF SearchCheck
<1>21. ASSUME NEW p \in Procs, SearchScan(p) PROVE Coherent' /\ LockHeld'
  BY <1>21 DEF SearchScan
<1>22. ASSUME NEW p \in Procs, SearchLookup(p) PROVE Coherent' /\ LockHeld'
  BY <1>22 DEF SearchLookup
<1>23. ASSUME NEW p \in Procs, PersistError(p) PROVE Coherent' /\ LockHeld'
  BY <1>23 DEF PersistError, Release
<1>24. CASE Crash
  BY <1>24 DEF Crash
<1>25. CASE UNCHANGED vars
  BY <1>25 DEF vars
<1> QED
  BY <1>2, <1>3, <1>4, <1>5, <1>6, <1>7, <1>8, <1>9, <1>10, <1>11, <1>12, <1>13, <1>14, <1>15, <1>16, <1>17, <1>18, <1>19, <1>20, <1>21, <1>22, <1>23, <1>24, <1>25 DEF Next, Locking, Running

-----------------------------------------------------------------------------
(* The pairing: the three ways a step of request p can go.  It stays       *)
(* outside every change and touches nothing;                               *)
LEMMA Quiet ==
  ASSUME NEW p \in Procs, NEW l \in PCs \ (Mid \cup {"reloadInfo"}), TypeOK, Orderly,
         pc[p] \notin Mid, Goto(p, l), UNCHANGED <<memory, disk>>,
         \A q \in Procs \ {p} : op'[q] = op[q] /\ tmp'[q] = tmp[q]
  PROVE  Orderly'
<1> USE DEF Goto, TypeOK, memory, disk
<1>1. \A q \in Procs \ {p} : pc'[q] = pc[q]
  OBVIOUS
<1>2. pc'[p] = l /\ l \notin Mid /\ l # "reloadInfo"
  OBVIOUS
<1>3. \A q \in Procs : pc'[q] \in Mid => pc[q] = pc'[q] /\ q # p
  BY <1>1, <1>2
<1>4. (Full <=> Full') /\ (DiskOK <=> DiskOK')
  BY DEF Full, DiskOK, MetaFile
<1>5. ASSUME NEW q \in Procs PROVE Shape(q)'
  <2>1. CASE pc'[q] \notin Mid
    BY <2>1 DEF Shape, Mid
  <2>2. CASE pc'[q] \in Mid
    <3>1. pc'[q] = pc[q] /\ op'[q] = op[q] /\ tmp'[q] = tmp[q] /\ Shape(q)
      BY <1>3, <2>2 DEF Orderly
    <3> QED
      BY <1>4, <3>1 DEF Shape
  <2> QED
    BY <2>1, <2>2
<1>6. AtRest' => AtRest
  BY <1>1 DEF AtRest
<1>7. \A q \in Procs : pc'[q] # "reloadInfo"
  BY <1>1, <1>2 DEF Orderly
<1>8. \A q, r \in Procs : pc'[q] \in Mid /\ pc'[r] \in Mid => q = r
  BY <1>3 DEF Orderly
<1> QED
  BY <1>4, <1>5, <1>6, <1>7, <1>8 DEF Orderly

(* or it is, after the step, the only one inside a change;                 *)
LEMMA Inside ==
  ASSUME NEW p \in Procs, NEW l \in Mid, TypeOK, Orderly,
         \A q \in Procs \ {p} : pc[q] \notin Mid, Goto(p, l), Shape(p)'
  PROVE  Orderly'
<1>1. pc'[p] = l /\ \A q \in Procs \ {p} : pc'[q] = pc[q]
  BY DEF Goto, TypeOK
<1>2. \A q \in Procs \ {p} : Shape(q)'
  BY <1>1 DEF Shape, Mid
<1> QED
  BY <1>1, <1>2 DEF Orderly, AtRest, Mid

(* or it leaves the change, with everything in order.                      *)
LEMMA Leaves ==
  ASSUME NEW p \in Procs, NEW l \in PCs \ (Mid \cup {"reloadInfo"}), TypeOK, Orderly,
         \A q \in Procs \ {p} : pc[q] \notin Mid, Goto(p, l), Full', DiskOK'
  PROVE  Orderly'
<1>1. pc'[p] = l /\ \A q \in Procs \ {p} : pc'[q] = pc[q]
  BY DEF Goto, TypeOK
<1>2. \A q \in Procs : Shape(q)'
  BY <1>1 DEF Shape, Mid
<1> QED
  BY <1>1, <1>2 DEF Orderly, AtRest

(* Nothing takes the mark of an unguarded overlap off a behaviour.         *)
LEMMA TaintStays == [Next]_vars /\ tainted => tainted'
<1> SUFFICES ASSUME [Next]_vars PROVE tainted => tainted'
  OBVIOUS
<1>1. ASSUME NEW p \in Procs, Call(p) PROVE tainted' = tainted
  BY <1>1, Zenon DEF Call, CallAdd, CallDelete, CallOther, Started
<1>2. ASSUME NEW p \in Procs, Locking(p), tainted PROVE tainted'
  BY <1>2, Zenon DEF Locking, EnsureLoaded, DelLock, ForceReload, InfoReload
<1>3. ASSUME NEW p \in Procs, Running(p), tainted PROVE tainted'
  BY <1>3, Zenon DEF Running, LoadIndex, LoadMeta, AddVectors, AddChunks, WriteIndex,
     ReplaceIndex, WriteMeta, ReplaceMeta, DelRebuild, DelSwapChunks, DelReload,
     ClearAll, InfoCheck, SearchCheck, SearchScan, SearchLookup
<1>4. ASSUME NEW p \in Procs, PersistError(p), tainted PROVE tainted'
  BY <1>4, Zenon DEF PersistError
<1>5. ASSUME Crash, tainted PROVE tainted'
  BY <1>5, Zenon DEF Crash
<1>6. UNCHANGED vars => tainted' = tainted
  BY DEF vars
<1> QED
  BY <1>1, <1>2, <1>3, <1>4, <1>5, <1>6 DEF Next

(* A step after which nothing is tainted keeps every change in its shape.  *)
LEMMA PairStep == IInv /\ [Next]_vars /\ ~tainted' => Orderly'
<1> SUFFICES ASSUME IInv, [Next]_vars, ~tainted' PROVE Orderly'
  OBVIOUS
<1> USE DEF IInv, Base
\* The requests other than one inside a change are outside.
<1>a. ASSUME NEW p \in Procs, ~tainted, pc[p] \in Mid
      PROVE  \A q \in Procs \ {p} : pc[q] \notin Mid
  BY <1>a DEF Orderly
\* No one inside a change: everything is in order.
<1>b. ASSUME NEW p \in Procs, ~tainted, pc[p] \notin Mid, ~Interferes(p)
      PROVE  Full /\ DiskOK /\ \A q \in Procs \ {p} : pc[q] \notin Mid
  BY <1>b DEF Orderly, AtRest, Interferes
<1>c. tainted => tainted'
  BY TaintStays
<1>d. ~tainted /\ Orderly
  BY <1>c
\* A request inside a change means the store is loaded, or being loaded.
<1>e. ASSUME NEW p \in Procs, lock = None, ~(loaded /\ index # None)
      PROVE  \A q \in Procs : pc[q] \notin Mid
  <2> SUFFICES ASSUME NEW q \in Procs, pc[q] \in Mid PROVE FALSE
    OBVIOUS
  <2>1. pc[q] \notin {"loadIndex", "loadMeta", "swapChunks"}
    BY <1>e, NoneAssumption DEF LockHeld, Holding
  <2>2. Shape(q)
    BY <1>d DEF Orderly
  <2>3. CASE pc[q] = "addChunks"
    <3>1. index = Append(chunks, op[q].chunk) /\ loaded
      BY <2>2, <2>3 DEF Shape
    <3>2. op[q].chunk \in Chunk
      BY <2>3 DEF Coherent, TypeOK, Requests
    <3>3. index \in Seq(Chunk)
      BY <3>1, <3>2 DEF TypeOK
    <3> QED
      BY <1>e, <3>1, <3>3, NoneAssumption
  <2>4. CASE pc[q] \in {"writeIndex", "replaceIndex", "writeMeta", "replaceMeta"}
    BY <1>e, <2>2, <2>4 DEF Shape, Full
  <2> QED
    BY <2>1, <2>3, <2>4 DEF Mid
<1>1. ASSUME NEW p \in Procs, Call(p) PROVE Orderly'
  <2>1. PICK r : \E l \in {"ensure", "delLock", "forceReload"} : Started(p, r, l)
    <3>1. CASE CallAdd(p)
      BY <3>1 DEF CallAdd
    <3>2. CASE CallDelete(p)
      BY <3>2 DEF CallDelete
    <3>3. CASE CallOther(p)
      BY <3>3 DEF CallOther
    <3> QED
      BY <1>1, <3>1, <3>2, <3>3 DEF Call
  <2>2. PICK l \in {"ensure", "delLock", "forceReload"} : Started(p, r, l)
    BY <2>1
  <2>3. /\ pc[p] = "idle" /\ Goto(p, l) /\ UNCHANGED <<memory, disk>>
        /\ op' = [op EXCEPT ![p] = r] /\ tmp' = [tmp EXCEPT ![p] = <<>>]
    BY <2>2 DEF Started
  <2> QED
    BY <1>d, <2>3, Quiet DEF TypeOK, PCs, Mid
<1>2. ASSUME NEW p \in Procs, EnsureLoaded(p) PROVE Orderly'
  <2>1. CASE loaded /\ index # None
    <3>1. /\ pc[p] = "ensure" /\ Goto(p, "body") /\ UNCHANGED <<memory, disk>>
          /\ op' = op /\ tmp' = tmp
      BY <1>2, <2>1 DEF EnsureLoaded
    <3> QED
      BY <1>d, <3>1, Quiet DEF PCs, Mid
  <2>2. CASE ~(loaded /\ index # None)
    <3>1. \A q \in Procs : pc[q] \notin Mid
      BY <1>2, <1>e, <2>2 DEF EnsureLoaded
    <3>2. Full /\ DiskOK
      BY <1>d, <3>1 DEF Orderly, AtRest
    <3>3. pc' = [pc EXCEPT ![p] = "loadIndex"] /\ UNCHANGED <<memory, disk>>
      BY <1>2, <2>2 DEF EnsureLoaded, Goto
    <3>4. Shape(p)'
      BY <2>2, <3>2, <3>3 DEF Shape, Full, DiskOK, MetaFile, memory, disk, TypeOK
    <3> QED
      BY <1>d, <3>1, <3>3, <3>4, Inside DEF Goto, Mid
  <2> QED
    BY <2>1, <2>2
<1>3. ASSUME NEW p \in Procs, DelLock(p) PROVE Orderly'
  <2>1. CASE loaded
    <3>1. /\ pc[p] = "delLock" /\ Goto(p, "delCheck") /\ UNCHANGED <<memory, disk>>
          /\ op' = op /\ tmp' = tmp
      BY <1>3, <2>1 DEF DelLock
    <3> QED
      BY <1>d, <3>1, Quiet DEF PCs, Mid
  <2>2. CASE ~loaded
    <3>1. \A q \in Procs : pc[q] \notin Mid
      BY <1>3, <1>e, <2>2 DEF DelLock, Acquire
    <3>2. Full /\ DiskOK
      BY <1>d, <3>1 DEF Orderly, AtRest
    <3>3. pc' = [pc EXCEPT ![p] = "loadIndex"] /\ UNCHANGED <<memory, disk>>
      BY <1>3, <2>2 DEF DelLock, Goto
    <3>4. Shape(p)'
      BY <2>2, <3>2, <3>3 DEF Shape, Full, DiskOK, MetaFile, memory, disk, TypeOK
    <3> QED
      BY <1>d, <3>1, <3>3, <3>4, Inside DEF Goto, Mid
  <2> QED
    BY <2>1, <2>2
<1>4. ASSUME NEW p \in Procs, ForceReload(p) PROVE Orderly'
  <2>1. pc[p] \notin Mid /\ ~Interferes(p)
    BY <1>4 DEF ForceReload, Mid
  <2>2. DiskOK /\ \A q \in Procs \ {p} : pc[q] \notin Mid
    BY <1>b, <1>d, <2>1
  <2>3. Full' /\ DiskOK' /\ Goto(p, "idle")
    BY <1>4, <2>2 DEF ForceReload, DropMemory, Full, DiskOK, MetaFile, disk
  <2> QED
    BY <1>d, <2>2, <2>3, Leaves DEF PCs, Mid
<1>5. ASSUME NEW p \in Procs, InfoReload(p) PROVE FALSE
  BY <1>5, <1>d DEF InfoReload, Orderly
<1>6. ASSUME NEW p \in Procs, LoadIndex(p) PROVE Orderly'
  <2>1. pc[p] = "loadIndex" /\ \A q \in Procs \ {p} : pc[q] \notin Mid
    BY <1>6, <1>a, <1>d DEF LoadIndex, Mid
  <2>2. index = None /\ chunks = <<>> /\ DiskOK
    BY <1>d, <2>1 DEF Orderly, Shape
  <2>3. CASE dIndex # None
    <3>1. Shape(p)' /\ Goto(p, "loadMeta")
      BY <1>6, <2>2, <2>3 DEF LoadIndex, Shape, Goto, DiskOK, MetaFile, disk, TypeOK
    <3> QED
      BY <1>d, <2>1, <3>1, Inside DEF Mid
  <2>4. CASE dIndex = None
    <3>1. Goto(p, then[p]) /\ loaded' /\ index' \in {<<>>, None} /\ chunks' = <<>> /\ UNCHANGED disk
      BY <1>6, <2>2, <2>4 DEF LoadIndex, Loaded
    <3>2. Full' /\ DiskOK'
      BY <2>2, <3>1 DEF Full, DiskOK, MetaFile, disk
    <3>3. then[p] \in {"idle", "body", "delCheck"}
      BY DEF TypeOK
    <3> QED
      BY <1>d, <2>1, <3>1, <3>2, <3>3, Leaves DEF PCs, Mid
  <2> QED
    BY <2>3, <2>4
<1>7. ASSUME NEW p \in Procs, LoadMeta(p) PROVE Orderly'
  <2>1. pc[p] = "loadMeta" /\ \A q \in Procs \ {p} : pc[q] \notin Mid
    BY <1>7, <1>a, <1>d DEF LoadMeta, Mid
  <2>2. index = dIndex /\ dIndex # None /\ DiskOK
    BY <1>d, <2>1 DEF Orderly, Shape
  <2>3. MetaFile = dIndex
    BY <2>2 DEF DiskOK
  <2>4. Goto(p, then[p]) /\ loaded' /\ chunks' = MetaFile /\ index' = index /\ UNCHANGED disk
    BY <1>7, <2>2, <2>3 DEF LoadMeta, Loaded
  <2>5. Full' /\ DiskOK'
    BY <2>2, <2>3, <2>4 DEF Full, DiskOK, MetaFile, disk
  <2>6. then[p] \in {"idle", "body", "delCheck"}
    BY DEF TypeOK
  <2> QED
    BY <1>d, <2>1, <2>4, <2>5, <2>6, Leaves DEF PCs, Mid
<1>8. ASSUME NEW p \in Procs, AddVectors(p) PROVE Orderly'
  <2>1. CASE index = None
    <3>1. /\ pc[p] = "body" /\ Goto(p, "idle") /\ UNCHANGED <<memory, disk>>
          /\ op' = op /\ tmp' = tmp
      BY <1>8, <2>1 DEF AddVectors, memory
    <3> QED
      BY <1>d, <3>1, Quiet DEF PCs, Mid
  <2>2. CASE index # None
    <3>1. pc[p] \notin Mid /\ ~Interferes(p)
      BY <1>8, <2>2 DEF AddVectors, Mid
    <3>2. Full /\ DiskOK /\ \A q \in Procs \ {p} : pc[q] \notin Mid
      BY <1>b, <1>d, <3>1
    <3>3. Shape(p)' /\ Goto(p, "addChunks")
      BY <1>8, <2>2, <3>2
         DEF AddVectors, Shape, Goto, Full, DiskOK, MetaFile, disk, TypeOK
    <3> QED
      BY <1>d, <3>2, <3>3, Inside DEF Mid
  <2> QED
    BY <2>1, <2>2
<1>9. ASSUME NEW p \in Procs, AddChunks(p) PROVE Orderly'
  <2>1. pc[p] = "addChunks" /\ \A q \in Procs \ {p} : pc[q] \notin Mid
    BY <1>9, <1>a, <1>d DEF AddChunks, Mid
  <2>2. index = Append(chunks, op[p].chunk) /\ loaded /\ DiskOK
    BY <1>d, <2>1 DEF Orderly, Shape
  <2>3. op[p].chunk \in Chunk
    BY <2>1 DEF Coherent, TypeOK, Requests
  <2>4. index # None
    <3>1. chunks \in Seq(Chunk)
      BY DEF TypeOK
    <3>2. Append(chunks, op[p].chunk) \in Seq(Chunk)
      BY <2>3, <3>1
    <3> QED
      BY <2>2, <3>2, NoneAssumption
  <2>5. Shape(p)' /\ Goto(p, "writeIndex")
    BY <1>9, <2>2, <2>4 DEF AddChunks, Shape, Goto, Full, DiskOK, MetaFile, disk, TypeOK
  <2> QED
    BY <1>d, <2>1, <2>5, Inside DEF Mid
<1>10. ASSUME NEW p \in Procs, WriteIndex(p) PROVE Orderly'
  <2>1. pc[p] = "writeIndex" /\ \A q \in Procs \ {p} : pc[q] \notin Mid
    BY <1>10, <1>a, <1>d DEF WriteIndex, Mid
  <2>2. Full /\ index # None /\ DiskOK
    BY <1>d, <2>1 DEF Orderly, Shape
  <2>3. Shape(p)' /\ Goto(p, "replaceIndex")
    BY <1>10, <2>2 DEF WriteIndex, Shape, Goto, Full, DiskOK, MetaFile, disk, memory, TypeOK
  <2> QED
    BY <1>d, <2>1, <2>3, Inside DEF Mid
<1>11. ASSUME NEW p \in Procs, ReplaceIndex(p) PROVE Orderly'
  <2>1. pc[p] = "replaceIndex" /\ \A q \in Procs \ {p} : pc[q] \notin Mid
    BY <1>11, <1>a, <1>d DEF ReplaceIndex, Mid
  <2>2. Full /\ index # None /\ tmp[p] = index
    BY <1>d, <2>1 DEF Orderly, Shape
  <2>3. Shape(p)' /\ Goto(p, "writeMeta")
    BY <1>11, <2>2 DEF ReplaceIndex, Shape, Goto, Full, memory, TypeOK
  <2> QED
    BY <1>d, <2>1, <2>3, Inside DEF Mid
<1>12. ASSUME NEW p \in Procs, WriteMeta(p) PROVE Orderly'
  <2>1. pc[p] = "writeMeta" /\ \A q \in Procs \ {p} : pc[q] \notin Mid
    BY <1>12, <1>a, <1>d DEF WriteMeta, Mid
  <2>2. Full /\ index # None /\ dIndex = index
    BY <1>d, <2>1 DEF Orderly, Shape
  <2>3. Shape(p)' /\ Goto(p, "replaceMeta")
    BY <1>12, <2>2 DEF WriteMeta, Shape, Goto, Full, memory, disk, TypeOK
  <2> QED
    BY <1>d, <2>1, <2>3, Inside DEF Mid
<1>13. ASSUME NEW p \in Procs, ReplaceMeta(p) PROVE Orderly'
  <2>1. pc[p] = "replaceMeta" /\ \A q \in Procs \ {p} : pc[q] \notin Mid
    BY <1>13, <1>a, <1>d DEF ReplaceMeta, Saved, Mid
  <2>2. Full /\ index # None /\ dIndex = index /\ tmp[p] = chunks
    BY <1>d, <2>1 DEF Orderly, Shape
  <2>3. chunks # None
    BY NoneAssumption DEF TypeOK
  <2>4. Full' /\ DiskOK'
    BY <1>13, <2>2, <2>3 DEF ReplaceMeta, Saved, Full, DiskOK, MetaFile, memory
  <2>5. CASE op[p].kind = "delete"
    <3>1. Goto(p, "reload")
      BY <1>13, <2>5 DEF ReplaceMeta, Saved
    <3> QED
      BY <1>d, <2>1, <2>4, <3>1, Leaves DEF PCs, Mid
  <2>6. CASE op[p].kind # "delete"
    <3>1. Goto(p, "idle")
      BY <1>13, <2>6 DEF ReplaceMeta, Saved
    <3> QED
      BY <1>d, <2>1, <2>4, <3>1, Leaves DEF PCs, Mid
  <2> QED
    BY <2>5, <2>6
<1>14. ASSUME NEW p \in Procs, DelRebuild(p) PROVE Orderly'
  <2>1. pc[p] = "delCheck"
    BY <1>14 DEF DelRebuild
  <2>2. CASE index' = index /\ tmp' = tmp /\ (Goto(p, "idle") \/ Goto(p, "reload"))
    BY <1>14, <1>d, <2>1, <2>2, Quiet DEF DelRebuild, PCs, Mid, memory
  <2>3. ASSUME index # None, tainted' = (tainted \/ Interferes(p)), Goto(p, "swapChunks"),
               NEW e, index' = [i \in DOMAIN e |-> index[e[i]]],
               tmp' = [tmp EXCEPT ![p] = [i \in DOMAIN e |-> chunks[e[i]]]]
        PROVE  Orderly'
    <3>1. ~Interferes(p) /\ pc[p] \notin Mid
      BY <2>1, <2>3 DEF Mid
    <3>2. Full /\ DiskOK /\ \A q \in Procs \ {p} : pc[q] \notin Mid
      BY <1>b, <1>d, <3>1
    <3>3. index = chunks /\ loaded
      BY <2>3, <3>2 DEF Full
    <3>4. index' = tmp'[p]
      BY <2>3, <3>3 DEF TypeOK
    <3>5. loaded' = loaded /\ UNCHANGED disk
      BY <1>14 DEF DelRebuild
    <3>6. Shape(p)'
      BY <2>3, <3>2, <3>3, <3>4, <3>5 DEF Shape, Goto, DiskOK, MetaFile, disk, TypeOK
    <3> QED
      BY <1>d, <2>3, <3>2, <3>6, Inside DEF Mid
  <2> QED
    BY <1>14, <2>2, <2>3 DEF DelRebuild
<1>15. ASSUME NEW p \in Procs, DelSwapChunks(p) PROVE Orderly'
  <2>1. pc[p] = "swapChunks" /\ \A q \in Procs \ {p} : pc[q] \notin Mid
    BY <1>15, <1>a, <1>d DEF DelSwapChunks, Mid
  <2>2. index = tmp[p] /\ loaded /\ DiskOK /\ tmp[p] # None
    BY <1>d, <2>1, NoneAssumption DEF Orderly, Shape, TypeOK
  <2>3. Shape(p)' /\ Goto(p, "writeIndex")
    BY <1>15, <2>2 DEF DelSwapChunks, Shape, Goto, Full, DiskOK, MetaFile, disk, TypeOK
  <2> QED
    BY <1>d, <2>1, <2>3, Inside DEF Mid
<1>16. ASSUME NEW p \in Procs, DelReload(p) PROVE Orderly'
  <2>1. pc[p] \notin Mid /\ ~Interferes(p)
    BY <1>16 DEF DelReload, Mid
  <2>2. DiskOK /\ \A q \in Procs \ {p} : pc[q] \notin Mid
    BY <1>b, <1>d, <2>1
  <2>3. Shape(p)' /\ Goto(p, "loadIndex")
    BY <1>16, <2>2 DEF DelReload, DropMemory, Shape, Goto, DiskOK, MetaFile, disk, TypeOK
  <2> QED
    BY <1>d, <2>2, <2>3, Inside DEF Mid
<1>17. ASSUME NEW p \in Procs, ClearAll(p) PROVE Orderly'
  <2>1. pc[p] = "body" /\ Goto(p, "idle") /\ op' = op /\ tmp' = tmp
    BY <1>17 DEF ClearAll
  <2>2. CASE chunks = <<>> /\ index \in {None, <<>>}
    BY <1>17, <1>d, <2>1, <2>2, Quiet DEF ClearAll, PCs, Mid, memory
  <2>3. CASE ~(chunks = <<>> /\ index \in {None, <<>>})
    <3>1. /\ index' = IF index = None THEN None ELSE <<>>
          /\ chunks' = <<>> /\ dIndex' = None /\ loaded' = loaded
          /\ tainted' = (tainted \/ Interferes(p))
      BY <1>17, <2>3 DEF ClearAll
    <3>2. Full /\ \A q \in Procs \ {p} : pc[q] \notin Mid
      BY <1>b, <1>d, <2>1, <3>1 DEF Mid
    <3>3. Full' /\ DiskOK'
      BY <3>1, <3>2 DEF Full, DiskOK
    <3> QED
      BY <1>d, <2>1, <3>2, <3>3, Leaves DEF PCs, Mid
  <2> QED
    BY <2>2, <2>3
<1>18. ASSUME NEW p \in Procs, InfoCheck(p) PROVE Orderly'
  <2>1. pc[p] = "body" /\ op' = op /\ tmp' = tmp /\ UNCHANGED <<memory, disk>>
    BY <1>18 DEF InfoCheck
  <2>2. CASE chunks = <<>> /\ index \notin {None, <<>>}
    <3>1. ~Interferes(p)
      BY <1>18, <2>2 DEF InfoCheck
    <3> QED
      BY <1>b, <1>d, <2>1, <2>2, <3>1 DEF Full, Mid
  <2>3. CASE ~(chunks = <<>> /\ index \notin {None, <<>>})
    BY <1>18, <1>d, <2>1, <2>3, Quiet DEF InfoCheck, PCs, Mid
  <2> QED
    BY <2>2, <2>3
<1>19. ASSUME NEW p \in Procs, SearchCheck(p) \/ SearchScan(p) \/ SearchLookup(p)
       PROVE  Orderly'
  <2>1. PICK l \in {"idle", "scan", "lookup"} : Goto(p, l)
    BY <1>19 DEF SearchCheck, SearchScan, SearchLookup
  <2>2. pc[p] \in {"body", "scan", "lookup"} /\ UNCHANGED <<memory, disk>> /\ op' = op
    BY <1>19 DEF SearchCheck, SearchScan, SearchLookup
  <2>3. \A q \in Procs \ {p} : tmp'[q] = tmp[q]
    BY <1>19 DEF SearchCheck, SearchScan, SearchLookup, TypeOK
  <2> QED
    BY <1>d, <2>1, <2>2, <2>3, Quiet DEF PCs, Mid
<1>20. ASSUME NEW p \in Procs, PersistError(p) PROVE Orderly'
  <2>1. pc[p] \in {"writeIndex", "replaceIndex"}
    BY <1>20 DEF PersistError
  <2>2. Full /\ DiskOK /\ \A q \in Procs \ {p} : pc[q] \notin Mid
    BY <1>a, <1>d, <2>1 DEF Orderly, Shape, Mid
  <2>3. Full' /\ DiskOK' /\ Goto(p, "idle")
    BY <1>20, <2>2 DEF PersistError, Full, DiskOK, MetaFile, memory, disk
  <2> QED
    BY <1>d, <2>2, <2>3, Leaves DEF PCs, Mid
<1>21. CASE Crash
  <2>1. \A p \in Procs : pc[p] \notin {"writeMeta", "replaceMeta"}
    BY <1>21 DEF Crash
  <2>2. DiskOK
    <3>1. CASE \E p \in Procs : pc[p] \in Mid
      BY <1>d, <2>1, <3>1 DEF Orderly, Shape, Mid
    <3>2. CASE \A p \in Procs : pc[p] \notin Mid
      BY <1>d, <3>2 DEF Orderly, AtRest
    <3> QED
      BY <3>1, <3>2
  <2>3. Full' /\ DiskOK'
    BY <1>21, <2>2 DEF Crash, DropMemory, Full, DiskOK, MetaFile, disk
  <2>4. \A p \in Procs : pc'[p] = "idle"
    BY <1>21 DEF Crash
  <2> QED
    BY <2>3, <2>4 DEF Orderly, Shape, Mid
<1>22. CASE UNCHANGED vars
  BY <1>22, <1>d DEF vars, memory, disk, Orderly, Shape, Full, DiskOK, MetaFile, AtRest
<1> QED
  BY <1>1, <1>2, <1>3, <1>4, <1>5, <1>6, <1>7, <1>8, <1>9, <1>10, <1>11, <1>12, <1>13,
     <1>14, <1>15, <1>16, <1>17, <1>18, <1>19, <1>20, <1>21, <1>22
     DEF Next, Locking, Running

-----------------------------------------------------------------------------
(* The inductive invariant holds at the start: nothing is loaded, the files *)
(* of an earlier run match;                                                *)
LEMMA IInvInit == Init => IInv
<1> SUFFICES ASSUME Init PROVE IInv
  OBVIOUS
<1>1. Full /\ AtRest /\ \A p \in Procs : pc[p] = "idle"
  BY DEF Init, Full, AtRest, Mid
<1>2. DiskOK
  BY NoneAssumption DEF Init, DiskOK, MetaFile
<1>3. Orderly
  BY <1>1, <1>2 DEF Orderly, Shape, Mid
<1> QED
  BY <1>3, BaseInit DEF IInv

(* and every step keeps it.                                                *)
LEMMA IInvStep == IInv /\ [Next]_vars => IInv'
  BY TypeStep, LockStep, PairStep DEF IInv, Base

-----------------------------------------------------------------------------
(* Searches.  main.py clears the stores with no other request about.       *)
Alone ==
  \A p \in Procs :
    /\ op[p].kind = "none" => pc[p] = "idle"
    /\ op[p].kind = "clear" /\ pc[p] # "idle" => \A q \in Procs \ {p} : pc[q] = "idle"

Rebuilt == \E q \in Procs : pc[q] = "swapChunks"

(* The hits of a search that nothing crossed are the first of the vectors  *)
(* there are, or, once a delete has rebuilt those, of the chunks that it   *)
(* has yet to replace.                                                     *)
Hits(p) ==
  pc[p] = "lookup" /\ p \notin crossed =>
    IF Rebuilt THEN \A i \in DOMAIN tmp[p] \cap DOMAIN chunks : tmp[p][i] = chunks[i]
    ELSE /\ index # None
         /\ \A i \in DOMAIN tmp[p] : i \in DOMAIN index /\ index[i] = tmp[p][i]

Paired(p) == p \notin crossed => \A hit \in found[p] : hit[1] = hit[2]

Searching ==
  /\ \A p \in Procs : Hits(p) /\ Paired(p)
  /\ \A p \in Procs : pc[p] = "loadMeta" => chunks = <<>>

SInv == IInv /\ Alone /\ (~tainted => Searching)

(* The initial states: nothing runs and nothing was found.                 *)
LEMMA SInvInit == Init => SInv
<1> SUFFICES ASSUME Init PROVE SInv
  OBVIOUS
<1>1. Alone
  BY DEF Init, Alone
<1>2. Searching
  BY DEF Init, Searching, Hits, Paired
<1> QED
  BY <1>1, <1>2, IInvInit DEF SInv

(* Every step keeps a clear alone: no request starts beside it.            *)
LEMMA AloneStep == Base /\ Alone /\ [Next]_vars => Alone'
<1> SUFFICES ASSUME Base, Alone, [Next]_vars PROVE Alone'
  OBVIOUS
<1> USE DEF Base, TypeOK, Alone, Goto
<1>1. ASSUME NEW p \in Procs, NEW r \in Requests, NEW l, Started(p, r, l), r.kind # "none",
             r.kind = "clear" => \A q \in Procs : op[q].kind = "none"
      PROVE  Alone'
  BY <1>1 DEF Started, Clearing
<1>2. ASSUME NEW p \in Procs, NEW l, pc[p] # "idle", Goto(p, l), op' = op
      PROVE  Alone'
  BY <1>2
<1>3. ASSUME NEW p \in Procs, Call(p) PROVE Alone'
  <2>1. CASE CallAdd(p)
    <3>1. PICK s \in Sources :
            Started(p, [kind |-> "add", chunk |-> [source_id |-> s, n |-> adds + 1]], "ensure")
      BY <2>1 DEF CallAdd
    <3>2. [kind |-> "add", chunk |-> [source_id |-> s, n |-> adds + 1]] \in Requests
      BY <2>1, BoundsAssumption DEF Requests, Chunk, CallAdd
    <3> QED
      BY <1>1, <3>1, <3>2
  <2>2. CASE CallDelete(p)
    <3>1. PICK s \in Sources : Started(p, [kind |-> "delete", source |-> s], "delLock")
      BY <2>2 DEF CallDelete
    <3>2. [kind |-> "delete", source |-> s] \in Requests
      BY DEF Requests
    <3> QED
      BY <1>1, <3>1, <3>2
  <2>3. CASE CallOther(p)
    <3>1. PICK k \in {"clear", "info", "search", "reload"} :
            /\ k = "clear" => \A q \in Procs : op[q].kind = "none"
            /\ Started(p, [kind |-> k], IF k = "reload" THEN "forceReload" ELSE "ensure")
      BY <2>3 DEF CallOther
    <3>2. [kind |-> k] \in Requests
      BY DEF Requests
    <3> QED
      BY <1>1, <3>1, <3>2
  <2> QED
    BY <1>3, <2>1, <2>2, <2>3 DEF Call
<1>4. ASSUME NEW p \in Procs, Locking(p) \/ Running(p) \/ PersistError(p) PROVE Alone'
  <2>1. pc[p] # "idle" /\ op' = op /\ \E l : Goto(p, l)
    <3>1. ASSUME Locking(p) PROVE pc[p] # "idle" /\ op' = op /\ \E l : Goto(p, l)
      BY <3>1 DEF Locking, EnsureLoaded, DelLock, ForceReload, InfoReload
    <3>2. ASSUME PersistError(p) PROVE pc[p] # "idle" /\ op' = op /\ \E l : Goto(p, l)
      BY <3>2 DEF PersistError
    <3>3. ASSUME LoadIndex(p) \/ LoadMeta(p) \/ AddVectors(p) \/ AddChunks(p) \/ WriteIndex(p)
                 \/ ReplaceIndex(p) \/ WriteMeta(p) \/ ReplaceMeta(p)
          PROVE  pc[p] # "idle" /\ op' = op /\ \E l : Goto(p, l)
      BY <3>3 DEF LoadIndex, LoadMeta, Loaded, AddVectors, AddChunks, WriteIndex, ReplaceIndex,
           WriteMeta, ReplaceMeta, Saved
    <3>4. ASSUME DelRebuild(p) PROVE pc[p] # "idle" /\ op' = op /\ \E l : Goto(p, l)
      <4>1. pc[p] = "delCheck" /\ op' = op
        BY <3>4, Zenon DEF DelRebuild
      <4>2. Goto(p, "idle") \/ Goto(p, "reload") \/ Goto(p, "swapChunks")
        BY <3>4, Zenon DEF DelRebuild
      <4> QED
        BY <4>1, <4>2
    <3>5. ASSUME DelSwapChunks(p) \/ DelReload(p) \/ ClearAll(p) \/ InfoCheck(p)
                 \/ SearchCheck(p) \/ SearchScan(p) \/ SearchLookup(p)
          PROVE  pc[p] # "idle" /\ op' = op /\ \E l : Goto(p, l)
      BY <3>5 DEF DelSwapChunks, DelReload, ClearAll, InfoCheck, SearchCheck, SearchScan,
           SearchLookup
    <3> QED
      BY <1>4, <3>1, <3>2, <3>3, <3>4, <3>5 DEF Running
  <2> QED
    BY <1>2, <2>1
<1>5. CASE Crash
  BY <1>5 DEF Crash
<1>6. CASE UNCHANGED vars
  BY <1>6 DEF vars
<1> QED
  BY <1>3, <1>4, <1>5, <1>6 DEF Next

(* What a step of one request may do to the searches: it leaves memory and *)
(* the hits of the others as they are,                                     *)
LEMMA Bystander ==
  ASSUME NEW p \in Procs, NEW l \in PCs \ {"lookup", "loadMeta", "swapChunks"},
         TypeOK, Searching, pc[p] # "swapChunks", Goto(p, l), UNCHANGED memory,
         \A q \in Procs \ {p} : tmp'[q] = tmp[q] /\ found'[q] = found[q],
         \/ crossed' = crossed /\ found'[p] = found[p]
         \/ crossed' = crossed \ {p} /\ found'[p] = {}
  PROVE  Searching'
<1> USE DEF TypeOK, Goto, memory
<1>1. pc'[p] = l /\ \A q \in Procs \ {p} : pc'[q] = pc[q]
  OBVIOUS
<1>2. Rebuilt' <=> Rebuilt
  BY <1>1 DEF Rebuilt
<1>3. ASSUME NEW q \in Procs PROVE Hits(q)'
  BY <1>1, <1>2 DEF Searching, Hits
<1>4. ASSUME NEW q \in Procs PROVE Paired(q)'
  <2>1. Paired(q)
    BY DEF Searching
  <2>2. \/ found'[q] = {}
        \/ found'[q] = found[q] /\ (q \in crossed => q \in crossed')
    OBVIOUS
  <2> QED
    BY <2>1, <2>2 DEF Paired
<1>5. \A q \in Procs : pc'[q] = "loadMeta" => chunks' = <<>>
  BY <1>1 DEF Searching
<1> QED
  BY <1>3, <1>4, <1>5 DEF Searching

(* or it replaces the pair and crosses every search that has its hits.     *)
LEMMA Crossing ==
  ASSUME NEW p \in Procs, NEW l \in PCs \ {"lookup", "loadMeta"},
         TypeOK, Searching, Goto(p, l), Crosses, UNCHANGED found,
         \/ \A q \in Procs \ {p} : pc[q] # "loadMeta"
         \/ chunks' = <<>>
  PROVE  Searching'
<1> USE DEF TypeOK, Goto
<1>1. pc'[p] = l /\ \A q \in Procs \ {p} : pc'[q] = pc[q]
  OBVIOUS
<1>2. ASSUME NEW q \in Procs PROVE Hits(q)'
  BY <1>1 DEF Crosses, Hits
<1>3. ASSUME NEW q \in Procs PROVE Paired(q)'
  BY DEF Searching, Paired, Crosses
<1>4. \A q \in Procs : pc'[q] = "loadMeta" => chunks' = <<>>
  BY <1>1
<1> QED
  BY <1>2, <1>3, <1>4 DEF Searching

(* A vector and a chunk at the same position belong together, but while a  *)
(* delete has replaced only the first of the two.                          *)
LEMMA PairAtRest ==
  ASSUME TypeOK, Coherent, Orderly, Searching, index # None, ~Rebuilt
  PROVE  \A i \in DOMAIN index \cap DOMAIN chunks : index[i] = chunks[i]
<1>1. CASE \A q \in Procs : pc[q] \notin Mid
  BY <1>1 DEF Orderly, AtRest, Full
<1>2. ASSUME NEW q \in Procs, pc[q] \in Mid
      PROVE  \A i \in DOMAIN index \cap DOMAIN chunks : index[i] = chunks[i]
  <2>1. Shape(q)
    BY DEF Orderly
  <2>2. CASE pc[q] = "addChunks"
    <3>1. index = Append(chunks, op[q].chunk) /\ chunks \in Seq(Chunk)
      BY <2>1, <2>2 DEF Shape, TypeOK
    <3> QED
      BY <3>1
  <2>3. CASE pc[q] = "loadMeta"
    BY <2>3 DEF Searching
  <2>4. CASE pc[q] = "loadIndex"
    BY <2>1, <2>4 DEF Shape
  <2>5. CASE pc[q] \in {"writeIndex", "replaceIndex", "writeMeta", "replaceMeta"}
    BY <2>1, <2>5 DEF Shape, Full
  <2> QED
    BY <1>2, <2>2, <2>3, <2>4, <2>5 DEF Mid, Rebuilt
<1> QED
  BY <1>1, <1>2

(* A step after which nothing is tainted keeps the hits of every search.   *)
LEMMA SearchStep == SInv /\ [Next]_vars /\ ~tainted /\ ~tainted' => Searching'
<1> SUFFICES ASSUME SInv, [Next]_vars, ~tainted, ~tainted' PROVE Searching'
  OBVIOUS
<1>0. Base /\ TypeOK /\ Coherent /\ Alone /\ Orderly /\ Searching
  BY DEF SInv, IInv, Base
<1> USE <1>0
\* The request inside a change is the only one.
<1>a. ASSUME NEW p \in Procs, pc[p] \in Mid PROVE \A q \in Procs \ {p} : pc[q] \notin Mid
  BY <1>a DEF Orderly
<1>1. ASSUME NEW p \in Procs, Call(p) PROVE Searching'
  <2>1. PICK r : \E l \in {"ensure", "delLock", "forceReload"} : Started(p, r, l)
    <3>1. CASE CallAdd(p)
      BY <3>1 DEF CallAdd
    <3>2. CASE CallDelete(p)
      BY <3>2 DEF CallDelete
    <3>3. CASE CallOther(p)
      BY <3>3 DEF CallOther
    <3> QED
      BY <1>1, <3>1, <3>2, <3>3 DEF Call
  <2>2. PICK l \in {"ensure", "delLock", "forceReload"} : Started(p, r, l)
    BY <2>1
  <2>3. /\ pc[p] = "idle" /\ Goto(p, l) /\ UNCHANGED memory
        /\ found' = [found EXCEPT ![p] = {}] /\ tmp' = [tmp EXCEPT ![p] = <<>>]
        /\ crossed' = crossed \ {p}
    BY <2>2 DEF Started
  <2>4. /\ found'[p] = {}
        /\ \A q \in Procs \ {p} : tmp'[q] = tmp[q] /\ found'[q] = found[q]
    BY <2>3 DEF TypeOK
  <2> QED
    BY <2>3, <2>4, Bystander DEF PCs
<1>2. ASSUME NEW p \in Procs, EnsureLoaded(p) \/ DelLock(p) PROVE Searching'
  <2>1. /\ pc[p] \in {"ensure", "delLock"} /\ UNCHANGED memory
        /\ tmp' = tmp /\ found' = found /\ crossed' = crossed
    BY <1>2 DEF EnsureLoaded, DelLock
  <2>2. PICK l \in {"body", "loadIndex", "delCheck"} : Goto(p, l)
    BY <1>2 DEF EnsureLoaded, DelLock
  <2> QED
    BY <2>1, <2>2, Bystander DEF PCs
<1>3. ASSUME NEW p \in Procs, ForceReload(p) \/ DelReload(p) PROVE Searching'
  <2>1. chunks' = <<>> /\ Crosses /\ found' = found
    BY <1>3 DEF ForceReload, DelReload, DropMemory
  <2>2. PICK l \in {"idle", "loadIndex"} : Goto(p, l)
    BY <1>3 DEF ForceReload, DelReload
  <2> QED
    BY <2>1, <2>2, Crossing DEF PCs
<1>4. ASSUME NEW p \in Procs, InfoReload(p) PROVE Searching'
  BY <1>4 DEF InfoReload, Orderly
<1>5. ASSUME NEW p \in Procs, LoadIndex(p) PROVE Searching'
  <2>1. /\ pc[p] = "loadIndex" /\ chunks' = chunks
        /\ tmp' = tmp /\ found' = found /\ crossed' = crossed
    BY <1>5 DEF LoadIndex
  <2>2. index = None /\ chunks = <<>>
    BY <2>1 DEF Orderly, Shape
  <2>3. ~Rebuilt
    BY <1>a, <2>1 DEF Rebuilt, Mid
  <2>4. PICK l \in {"loadMeta", "idle", "body", "delCheck"} : Goto(p, l)
    BY <1>5 DEF LoadIndex, Loaded, TypeOK
  <2>5. pc'[p] = l /\ \A q \in Procs \ {p} : pc'[q] = pc[q]
    BY <2>4 DEF Goto, TypeOK
  <2>6. ASSUME NEW q \in Procs PROVE Hits(q)'
    BY <2>1, <2>2, <2>3, <2>5 DEF Searching, Hits
  <2>7. ASSUME NEW q \in Procs PROVE Paired(q)'
    BY <2>1 DEF Searching, Paired
  <2> QED
    BY <2>1, <2>2, <2>6, <2>7 DEF Searching
<1>6. ASSUME NEW p \in Procs, LoadMeta(p) PROVE Searching'
  <2>1. pc[p] = "loadMeta" /\ Crosses /\ found' = found
    BY <1>6 DEF LoadMeta
  <2>2. PICK l \in {"idle", "body", "delCheck"} : Goto(p, l)
    BY <1>6 DEF LoadMeta, Loaded, TypeOK
  <2>3. \A q \in Procs \ {p} : pc[q] # "loadMeta"
    BY <1>a, <2>1 DEF Mid
  <2> QED
    BY <2>1, <2>2, <2>3, Crossing DEF PCs
<1>7. ASSUME NEW p \in Procs, AddVectors(p) PROVE Searching'
  <2>1. /\ pc[p] = "body" /\ op[p].kind = "add" /\ chunks' = chunks
        /\ tmp' = tmp /\ found' = found /\ crossed' = crossed
    BY <1>7 DEF AddVectors
  <2>2. CASE index = None
    <3>1. Goto(p, "idle") /\ UNCHANGED memory
      BY <1>7, <2>2 DEF AddVectors, memory
    <3> QED
      BY <2>1, <3>1, Bystander DEF PCs
  <2>3. CASE index # None
    <3>1. /\ index' = Append(index, op[p].chunk) /\ Goto(p, "addChunks")
          /\ ~Interferes(p)
      BY <1>7, <2>3 DEF AddVectors
    <3>2. pc'[p] = "addChunks" /\ \A q \in Procs \ {p} : pc'[q] = pc[q]
      BY <3>1 DEF Goto, TypeOK
    <3>3. ~Rebuilt /\ ~Rebuilt'
      BY <2>1, <3>1, <3>2 DEF Rebuilt, Interferes, Mid
    <3>4. index \in Seq(Chunk) /\ op[p].chunk \in Chunk
      BY <2>1, <2>3 DEF TypeOK, File, Requests
    <3>5. index' # None
      <4>1. index' \in Seq(Chunk)
        BY <3>1, <3>4
      <4> QED
        BY <4>1, NoneAssumption
    <3>6. \A i \in DOMAIN index : i \in DOMAIN index' /\ index'[i] = index[i]
      BY <3>1, <3>4
    <3>7. ASSUME NEW q \in Procs PROVE Hits(q)'
      BY <2>1, <2>3, <3>2, <3>3, <3>5, <3>6 DEF Searching, Hits
    <3>8. ASSUME NEW q \in Procs PROVE Paired(q)'
      BY <2>1 DEF Searching, Paired
    <3>9. \A q \in Procs : pc'[q] = "loadMeta" => chunks' = <<>>
      BY <2>1, <3>2 DEF Searching
    <3> QED
      BY <3>7, <3>8, <3>9 DEF Searching
  <2> QED
    BY <2>2, <2>3
<1>8. ASSUME NEW p \in Procs, AddChunks(p) PROVE Searching'
  <2>1. /\ pc[p] = "addChunks" /\ Goto(p, "writeIndex") /\ index' = index
        /\ tmp' = tmp /\ found' = found /\ crossed' = crossed
    BY <1>8 DEF AddChunks
  <2>2. pc'[p] = "writeIndex" /\ \A q \in Procs \ {p} : pc'[q] = pc[q] /\ pc[q] \notin Mid
    BY <1>a, <2>1 DEF Goto, TypeOK, Mid
  <2>3. ~Rebuilt /\ ~Rebuilt'
    BY <2>1, <2>2 DEF Rebuilt, Mid
  <2>4. ASSUME NEW q \in Procs PROVE Hits(q)'
    BY <2>1, <2>2, <2>3 DEF Searching, Hits
  <2>5. ASSUME NEW q \in Procs PROVE Paired(q)'
    BY <2>1 DEF Searching, Paired
  <2>6. \A q \in Procs : pc'[q] # "loadMeta"
    BY <2>2 DEF Mid
  <2> QED
    BY <2>4, <2>5, <2>6 DEF Searching
<1>9. ASSUME NEW p \in Procs,
             WriteIndex(p) \/ ReplaceIndex(p) \/ WriteMeta(p) \/ ReplaceMeta(p) \/ PersistError(p)
      PROVE  Searching'
  <2>1. /\ pc[p] \in {"writeIndex", "replaceIndex", "writeMeta", "replaceMeta"}
        /\ UNCHANGED memory /\ found' = found /\ crossed' = crossed
    BY <1>9 DEF WriteIndex, ReplaceIndex, WriteMeta, ReplaceMeta, PersistError
  <2>2. \A q \in Procs \ {p} : tmp'[q] = tmp[q]
    BY <1>9 DEF WriteIndex, ReplaceIndex, WriteMeta, ReplaceMeta, PersistError, TypeOK
  <2>3. PICK l \in {"idle", "replaceIndex", "writeMeta", "replaceMeta", "reload"} : Goto(p, l)
    BY <1>9 DEF WriteIndex, ReplaceIndex, WriteMeta, ReplaceMeta, Saved, PersistError
  <2> QED
    BY <2>1, <2>2, <2>3, Bystander DEF PCs
<1>10. ASSUME NEW p \in Procs, DelRebuild(p) PROVE Searching'
  <2>1. pc[p] = "delCheck" /\ chunks' = chunks /\ found' = found /\ crossed' = crossed
    BY <1>10 DEF DelRebuild
  <2>2. CASE index' = index /\ tmp' = tmp /\ (Goto(p, "idle") \/ Goto(p, "reload"))
    BY <1>10, <2>1, <2>2, Bystander DEF DelRebuild, PCs, memory
  <2>3. ASSUME index # None, ~Interferes(p), Goto(p, "swapChunks"),
               NEW s, tmp' = [tmp EXCEPT ![p] = s]
        PROVE  Searching'
    <3>1. \A q \in Procs : pc[q] \notin Mid
      BY <2>1, <2>3 DEF Interferes, Mid
    <3>2. index = chunks /\ ~Rebuilt
      BY <2>3, <3>1 DEF Orderly, AtRest, Full, Rebuilt, Mid
    <3>3. /\ pc'[p] = "swapChunks" /\ Rebuilt'
          /\ \A q \in Procs \ {p} : pc'[q] = pc[q] /\ tmp'[q] = tmp[q]
      BY <2>3 DEF Goto, TypeOK, Rebuilt
    <3>4. ASSUME NEW q \in Procs PROVE Hits(q)'
      BY <2>1, <3>2, <3>3 DEF Searching, Hits
    <3>5. ASSUME NEW q \in Procs PROVE Paired(q)'
      BY <2>1 DEF Searching, Paired
    <3>6. \A q \in Procs : pc'[q] # "loadMeta"
      BY <3>1, <3>3 DEF Mid
    <3> QED
      BY <3>4, <3>5, <3>6 DEF Searching
  <2>4. CASE \E e : /\ index # None /\ tainted' = (tainted \/ Interferes(p))
                    /\ Goto(p, "swapChunks")
                    /\ tmp' = [tmp EXCEPT ![p] = [i \in DOMAIN e |-> chunks[e[i]]]]
    BY <2>3, <2>4
  <2> QED
    BY <1>10, <2>2, <2>4 DEF DelRebuild
<1>11. ASSUME NEW p \in Procs, DelSwapChunks(p) PROVE Searching'
  <2>1. pc[p] = "swapChunks" /\ Goto(p, "writeIndex") /\ Crosses /\ found' = found
    BY <1>11 DEF DelSwapChunks
  <2>2. \A q \in Procs \ {p} : pc[q] # "loadMeta"
    BY <1>a, <2>1 DEF Mid
  <2> QED
    BY <2>1, <2>2, Crossing DEF PCs
<1>12. ASSUME NEW p \in Procs, ClearAll(p) PROVE Searching'
  <2>1. /\ pc[p] = "body" /\ op[p].kind = "clear" /\ Goto(p, "idle")
        /\ found' = found /\ crossed' = crossed
    BY <1>12 DEF ClearAll
  <2>2. \A q \in Procs : pc'[q] = "idle"
    BY <2>1 DEF Alone, Goto, TypeOK
  <2> QED
    BY <2>1, <2>2 DEF Searching, Hits, Paired
<1>13. ASSUME NEW p \in Procs, InfoCheck(p) \/ SearchCheck(p) PROVE Searching'
  <2>1. /\ pc[p] = "body" /\ UNCHANGED memory
        /\ tmp' = tmp /\ found' = found /\ crossed' = crossed
    BY <1>13 DEF InfoCheck, SearchCheck
  <2>2. PICK l \in {"reloadInfo", "idle", "scan"} : Goto(p, l)
    BY <1>13 DEF InfoCheck, SearchCheck
  <2> QED
    BY <2>1, <2>2, Bystander DEF PCs
<1>14. ASSUME NEW p \in Procs, SearchScan(p) PROVE Searching'
  <2>1. pc[p] = "scan" /\ UNCHANGED memory /\ found' = found
    BY <1>14 DEF SearchScan
  <2>2. CASE index = None
    <3>1. Goto(p, "idle") /\ tmp' = tmp /\ crossed' = crossed
      BY <1>14, <2>2 DEF SearchScan
    <3> QED
      BY <2>1, <3>1, Bystander DEF PCs
  <2>3. CASE index # None
    <3>1. /\ Goto(p, "lookup") /\ tmp' = [tmp EXCEPT ![p] = index]
          /\ crossed' = IF Rebuilt THEN crossed \cup {p} ELSE crossed
      BY <1>14, <2>3 DEF SearchScan, Rebuilt
    <3>2. /\ pc'[p] = "lookup" /\ tmp'[p] = index
          /\ \A q \in Procs \ {p} : pc'[q] = pc[q] /\ tmp'[q] = tmp[q]
      BY <3>1 DEF Goto, TypeOK
    <3>3. Rebuilt' <=> Rebuilt
      BY <2>1, <3>2 DEF Rebuilt
    <3>4. ASSUME NEW q \in Procs PROVE Hits(q)'
      BY <2>1, <2>3, <3>1, <3>2, <3>3 DEF Searching, Hits, memory
    <3>5. ASSUME NEW q \in Procs PROVE Paired(q)'
      BY <2>1, <3>1 DEF Searching, Paired
    <3>6. \A q \in Procs : pc'[q] = "loadMeta" => chunks' = <<>>
      BY <2>1, <3>2 DEF Searching, memory
    <3> QED
      BY <3>4, <3>5, <3>6 DEF Searching
  <2> QED
    BY <2>2, <2>3
<1>15. ASSUME NEW p \in Procs, SearchLookup(p) PROVE Searching'
  <2>1. /\ pc[p] = "lookup" /\ Goto(p, "idle") /\ UNCHANGED memory
        /\ tmp' = tmp /\ crossed' = crossed
        /\ found' = [found EXCEPT ![p] =
             {<<tmp[p][i], chunks[i]>> : i \in DOMAIN tmp[p] \cap DOMAIN chunks}]
    BY <1>15 DEF SearchLookup
  <2>2. ASSUME p \notin crossed, NEW i \in DOMAIN tmp[p] \cap DOMAIN chunks
        PROVE  tmp[p][i] = chunks[i]
    <3>1. CASE Rebuilt
      BY <2>1, <2>2, <3>1 DEF Searching, Hits
    <3>2. CASE ~Rebuilt
      BY <2>1, <2>2, <3>2, PairAtRest DEF Searching, Hits
    <3> QED
      BY <3>1, <3>2
  <2>3. /\ pc'[p] = "idle" /\ \A q \in Procs \ {p} : pc'[q] = pc[q] /\ found'[q] = found[q]
        /\ found'[p] = {<<tmp[p][i], chunks[i]>> : i \in DOMAIN tmp[p] \cap DOMAIN chunks}
    BY <2>1 DEF Goto, TypeOK
  <2>4. Rebuilt' <=> Rebuilt
    BY <2>1, <2>3 DEF Rebuilt
  <2>5. ASSUME NEW q \in Procs PROVE Hits(q)'
    BY <2>1, <2>3, <2>4 DEF Searching, Hits, memory
  <2>6. ASSUME NEW q \in Procs PROVE Paired(q)'
    BY <2>1, <2>2, <2>3 DEF Searching, Paired
  <2>7. \A q \in Procs : pc'[q] = "loadMeta" => chunks' = <<>>
    BY <2>1, <2>3 DEF Searching, memory
  <2> QED
    BY <2>5, <2>6, <2>7 DEF Searching
<1>16. CASE Crash
  <2>1. \A q \in Procs : pc'[q] = "idle" /\ found'[q] = {}
    BY <1>16 DEF Crash
  <2> QED
    BY <2>1 DEF Searching, Hits, Paired
<1>17. CASE UNCHANGED vars
  BY <1>17 DEF vars, memory, Searching, Hits, Paired, Rebuilt
<1> QED
  BY <1>1, <1>2, <1>3, <1>4, <1>5, <1>6, <1>7, <1>8, <1>9, <1>10, <1>11, <1>12, <1>13,
     <1>14, <1>15, <1>16, <1>17
     DEF Next, Locking, Running

-----------------------------------------------------------------------------
(* In every behaviour the variables have their types.                      *)
THEOREM TypeCorrect == Spec => []TypeOK
<1>1. IInv => TypeOK
  BY DEF IInv, Base
<1> QED
  BY <1>1, IInvInit, IInvStep, PTL DEF Spec

(* At most one request is inside async with _load_lock.                    *)
THEOREM LockExcludes == Spec => []Exclusive
<1>1. IInv => Exclusive
  <2> SUFFICES ASSUME IInv PROVE Exclusive
    OBVIOUS
  <2>1. lock \in Procs \cup {None} /\ LockHeld
    BY DEF IInv, Base, TypeOK
  <2> QED
    BY <2>1 DEF LockHeld, Exclusive
<1> QED
  BY <1>1, IInvInit, IInvStep, PTL DEF Spec

(* Vectors and chunks stay paired in memory and on disk unless an unlocked *)
(* add overlapped another change or a save was cut off between its renames.*)
THEOREM PairingHolds == Spec => []Aligned
<1>1. IInv => Aligned
  BY DEF IInv, Aligned, Orderly, Full, DiskOK
<1> QED
  BY <1>1, IInvInit, IInvStep, PTL DEF Spec

(* A search returns a chunk with the score of its own vector, unless the   *)
(* pair in memory was replaced between its scan and its lookup, or an add  *)
(* or a cut-off save had already broken the pairing.                       *)
THEOREM SearchesPair == Spec => []SearchPairs
<1>1. SInv => SearchPairs
  BY DEF SInv, Searching, Paired, SearchPairs
<1>2. SInv /\ [Next]_vars => SInv'
  BY TaintStays, IInvStep, AloneStep, SearchStep DEF SInv, IInv
<1> QED
  BY <1>1, <1>2, SInvInit, PTL DEF Spec

-----------------------------------------------------------------------------
(* The store implements DenseIndex.  What the proof needs beyond the types *)
(* and the lock is where a request of each kind can stand, that memory is  *)
(* what a restart would find or nothing -- unless the writer is saving --  *)
(* and what the writer has done of its request.                            *)

(* Where a request of each kind can stand.                                 *)
Saving == {"writeIndex", "replaceIndex", "writeMeta", "replaceMeta"}
Changing == {"addChunks", "swapChunks"} \cup Saving

Points(kind) ==
  CASE kind = "none"   -> {"idle"}
    [] kind = "reload" -> {"idle", "forceReload"}
    [] kind = "add"    -> {"idle", "ensure", "loadIndex", "loadMeta", "body", "addChunks"} \cup Saving
    [] kind = "delete" -> {"idle", "delLock", "loadIndex", "loadMeta", "delCheck", "swapChunks",
                           "reload"} \cup Saving
    [] kind = "clear"  -> {"idle", "ensure", "loadIndex", "loadMeta", "body"}
    [] kind = "info"   -> {"idle", "ensure", "loadIndex", "loadMeta", "body", "reloadInfo"}
    [] kind = "search" -> {"idle", "ensure", "loadIndex", "loadMeta", "body", "scan", "lookup"}

(* Whoever is not the writer only searches, and a clear has the store to   *)
(* itself; a load returns to where its request goes on.                    *)
Callers(w) ==
  \A p \in Procs :
    /\ p = w \/ op[p].kind \in {"none", "search"}
    /\ pc[p] \in Points(op[p].kind)
    /\ p # w /\ op[w].kind = "clear" /\ pc[w] # "idle" => pc[p] = "idle"
    /\ op[p].kind \in {"add", "clear", "search"} /\ pc[p] # "idle" => then[p] = "body"
    /\ op[p].kind = "delete" =>
         /\ then[p] = "idle" => pc[p] \in {"idle", "loadIndex", "loadMeta"}
         /\ pc[p] \in {"loadIndex", "loadMeta"} => then[p] \in {"idle", "delCheck"}

(* What a restart would find, whatever the index file says.                *)
Held == IF MetaFile = None THEN {} ELSE ToSet(MetaFile)

(* Memory is what the disk holds, or empty, unless the writer changes it.  *)
Loads(p) == pc[p] \in {"loadIndex", "loadMeta"}

MemoryStands ==
  /\ dIndex = None => MetaFile = None
  /\ index = None => chunks = <<>>
  /\ index = None /\ loaded => dIndex = None
  /\ ~loaded => index = None \/ \E p \in Procs : Loads(p)
  /\ \A p \in Procs : Loads(p) => chunks = <<>>
  /\ \A p \in Procs : pc[p] = "loadMeta" => index # None

MemoryIsHeld(w) ==
  index # None /\ pc[w] \notin {"writeIndex", "replaceIndex", "writeMeta", "replaceMeta"}
    /\ (\A p \in Procs : ~Loads(p))
      => ToSet(chunks) = Held

(* What will be held when the request that changes it is done.             *)
Target(w) ==
  IF op[w].kind = "add" THEN Held \cup {op[w].chunk}
  ELSE {c \in Held : c.source_id # op[w].source}

(* What the writer has done of its request.                                *)
WriterStands(w) ==
  /\ pc[w] \in Changing \/ (pc[w] = "body" /\ op[w].kind = "add") =>
       loaded /\ index # None /\ \A p \in Procs : ~Loads(p)
  /\ pc[w] \in {"body", "delCheck"} => loaded
  /\ pc[w] = "swapChunks" => ToSet(tmp[w]) = Target(w)
  /\ pc[w] \in Saving => ToSet(chunks) = Target(w)
  /\ pc[w] = "replaceMeta" => tmp[w] = chunks
  /\ pc[w] \in {"writeMeta", "replaceMeta"} => dIndex # None

DInv(w) == Base /\ Callers(w) /\ MemoryStands /\ MemoryIsHeld(w) /\ WriterStands(w)

-----------------------------------------------------------------------------
(* While nothing is being loaded or written, a load would find Held.       *)
LEMMA ContentIsHeld == MemoryStands => Content = Held
BY DEF MemoryStands, Content, Held

(* Nothing is loaded by anyone but the holder of the lock.                 *)
LEMMA OneLoads ==
  ASSUME Base, NEW p \in Procs, NEW q \in Procs, Loads(p), Loads(q)
  PROVE  p = q
BY DEF Base, LockHeld, Holding, Loads

(* A step of one request changes what that request waits for only.         *)
LEMMA OneWaits ==
  ASSUME NEW p \in Procs,
         \A q \in Procs \ {p} : pc'[q] = pc[q] /\ op'[q] = op[q] /\ then'[q] = then[q]
  PROVE  Waiting' = [Waiting EXCEPT ![p] = Waiting'[p]]
<1>1. \A q \in Procs \ {p} : Waiting'[q] = Waiting[q]
  BY DEF Waiting, Requested
<1>2. Waiting = [q \in Procs |-> Waiting[q]] /\ Waiting' = [q \in Procs |-> Waiting'[q]]
  BY DEF Waiting
<1> QED
  BY <1>1, <1>2

LEMMA NoneWaits ==
  ASSUME NEW p \in Procs, Waiting'[p] = Waiting[p],
         \A q \in Procs \ {p} : pc'[q] = pc[q] /\ op'[q] = op[q] /\ then'[q] = then[q]
  PROVE  Waiting' = Waiting
<1>1. Waiting = [q \in Procs |-> Waiting[q]]
  BY DEF Waiting
<1> QED
  BY <1>1, OneWaits

(* A request that was called is one of the abstract store's.               *)
LEMMA WaitingTypes ==
  ASSUME TypeOK, NEW p \in Procs
  PROVE  Waiting[p] = None \/ Waiting[p] \in Dense!Requests
<1>1. CASE pc[p] = "idle" \/ op[p].kind \in {"none", "search", "info", "reload"}
  BY <1>1 DEF Waiting
<1>2. CASE pc[p] # "idle" /\ op[p].kind = "add"
  <2>1. op[p].chunk \in Chunk
    BY <1>2 DEF TypeOK, Requests
  <2>2. Waiting[p] = [kind |-> "add", chunk |-> op[p].chunk, committed |-> FALSE]
    BY <1>2 DEF Waiting, Requested
  <2> QED
    BY <2>1, <2>2 DEF Dense!Requests
<1>3. CASE pc[p] # "idle" /\ op[p].kind = "clear"
  BY <1>3 DEF Waiting, Requested, Dense!Requests
<1>4. CASE pc[p] # "idle" /\ op[p].kind = "delete"
  <2>1. op[p].source \in Sources
    BY <1>4 DEF TypeOK, Requests
  <2> DEFINE done == pc[p] = "reload" \/ then[p] = "idle"
  <2>2. Waiting[p] = [kind |-> "delete", source |-> op[p].source, committed |-> done]
    BY <1>4 DEF Waiting, Requested
  <2>3. done \in BOOLEAN
    OBVIOUS
  <2> HIDE DEF done
  <2> QED
    BY <2>1, <2>2, <2>3 DEF Dense!Requests
<1> QED
  BY <1>1, <1>2, <1>3, <1>4 DEF TypeOK, Requests

-----------------------------------------------------------------------------
(* A step that neither the content nor a request sees is a stutter.        *)
LEMMA Stutters ==
  ASSUME Content' = Content, Waiting' = Waiting
  PROVE  [Dense!Next]_Dense!vars /\ ReturnsInEffect
<1>1. [Dense!Next]_Dense!vars
  BY DEF Dense!vars
<1>2. \A p \in Procs : ~Dense!Raise(p)
  BY DEF Dense!Raise, Waiting
<1> QED
  BY <1>1, <1>2 DEF ReturnsInEffect

(* A step of one request in the abstract store is one of its steps, and    *)
(* the request does not end in silence.                                    *)
LEMMA Acts ==
  ASSUME TypeOK, NEW w \in Procs,
         \/ Dense!Call(w) \/ Dense!Commit(w) \/ Dense!Return(w) \/ Dense!Finish(w)
         \/ Dense!Raise(w) /\ Raises(w)
  PROVE  [Dense!Next]_Dense!vars /\ ReturnsInEffect
<1>1. Dense!Next
  BY DEF Dense!Next
<1>2. PICK x : Waiting' = [Waiting EXCEPT ![w] = x]
  BY DEF Dense!Call, Dense!Commit, Dense!Return, Dense!Finish, Dense!Raise
<1>3. ASSUME NEW p \in Procs, Dense!Raise(p)
      PROVE  Raises(p) \/ Crash \/ Dense!Return(p) \/ Dense!Finish(p)
  <2>1. Waiting[p] # None /\ Waiting'[p] = None
    BY <1>3 DEF Dense!Raise, Waiting
  <2>2. p = w
    BY <1>2, <2>1 DEF Waiting
  <2>3. ~Dense!Call(w)
    BY <2>1, <2>2 DEF Dense!Call
  <2>4. ~Dense!Commit(w)
    <3> SUFFICES ASSUME Dense!Commit(w) PROVE FALSE
      OBVIOUS
    <3>1. Waiting[w] \in Dense!Requests
      BY <2>1, <2>2, WaitingTypes DEF Waiting
    <3>2. Waiting'[w] = [Waiting[w] EXCEPT !.committed = TRUE]
      BY DEF Dense!Commit, Waiting
    <3>3. Waiting'[w] \in Dense!Requests
      BY <3>1, <3>2 DEF Dense!Requests
    <3> QED
      BY <2>1, <2>2, <3>3, NoRequestAssumption
  <2> QED
    BY <2>2, <2>3, <2>4
<1> QED
  BY <1>1, <1>3 DEF ReturnsInEffect

-----------------------------------------------------------------------------
(* With one request that writes and without errors while saving, every     *)
(* other request only searches.                                            *)
WritesAlone(w) == w \in Procs /\ MaxFaults = 0 /\ \A p \in Procs \ {w} : Ops[p] \subseteq {"search"}

(* Before the first request.                                               *)
LEMMA DInvInit ==
  ASSUME NEW w \in Procs, Init
  PROVE  DInv(w)
<1>1. Base
  BY BaseInit
<1>2. Callers(w)
  BY DEF Init, Callers, Points
<1>3. MemoryStands
  BY NoneAssumption DEF Init, MemoryStands, MetaFile, Loads
<1>4. MemoryIsHeld(w) /\ WriterStands(w)
  BY DEF Init, MemoryIsHeld, WriterStands, Changing, Saving
<1> QED
  BY <1>1, <1>2, <1>3, <1>4 DEF DInv

(* What a search can do.                                                   *)
LEMMA SearchesOnly ==
  ASSUME NEW w, WritesAlone(w), DInv(w), NEW p \in Procs, p # w,
         Call(p) \/ Locking(p) \/ Running(p) \/ PersistError(p)
  PROVE  \/ CallOther(p) /\ op'[p].kind = "search" /\ pc'[p] = "ensure" /\ then'[p] = "body"
         \/ op[p].kind = "search" /\ pc[p] # "idle" /\ then[p] = "body"
              /\ (EnsureLoaded(p) \/ LoadIndex(p) \/ LoadMeta(p)
                    \/ SearchCheck(p) \/ SearchScan(p) \/ SearchLookup(p))
<1> USE DEF DInv, Base, TypeOK
<1>1. op[p].kind \in {"none", "search"} /\ pc[p] \in Points(op[p].kind)
  BY DEF Callers
<1>2. Ops[p] \subseteq {"search"} /\ MaxFaults = 0
  BY DEF WritesAlone
<1>3. CASE Call(p)
  <2>1. ~CallAdd(p)
    BY <1>2 DEF CallAdd, Started
  <2>2. ~CallDelete(p)
    BY <1>2 DEF CallDelete, Started
  <2>3. CallOther(p)
    BY <1>3, <2>1, <2>2 DEF Call
  <2>4. PICK k \in {"clear", "info", "search", "reload"} :
          Started(p, [kind |-> k], IF k = "reload" THEN "forceReload" ELSE "ensure")
    BY <2>3 DEF CallOther
  <2>5. k = "search"
    BY <1>2, <2>4 DEF Started
  <2> QED
    BY <2>3, <2>4, <2>5 DEF Started, Goto
<1>4. CASE ~Call(p)
  <2>1. ~PersistError(p)
    BY <1>2 DEF PersistError
  <2>2. pc[p] \in {"idle", "ensure", "loadIndex", "loadMeta", "body", "scan", "lookup"}
    BY <1>1 DEF Points
  <2>3. pc[p] # "idle" => op[p].kind = "search" /\ then[p] = "body"
    BY <1>1 DEF Points, Callers
  <2>4. Locking(p) => EnsureLoaded(p)
    BY <2>2 DEF Locking, DelLock, ForceReload, InfoReload
  <2>5. Running(p) => LoadIndex(p) \/ LoadMeta(p)
                        \/ SearchCheck(p) \/ SearchScan(p) \/ SearchLookup(p)
    <3>1. ~AddVectors(p) /\ ~ClearAll(p) /\ ~InfoCheck(p)
      BY <1>1 DEF AddVectors, ClearAll, InfoCheck
    <3>2. /\ ~AddChunks(p) /\ ~WriteIndex(p) /\ ~ReplaceIndex(p) /\ ~WriteMeta(p) /\ ~ReplaceMeta(p)
          /\ ~DelRebuild(p) /\ ~DelSwapChunks(p) /\ ~DelReload(p)
      BY <2>2 DEF AddChunks, WriteIndex, ReplaceIndex, WriteMeta, ReplaceMeta,
                  DelRebuild, DelSwapChunks, DelReload
    <3> QED
      BY <3>1, <3>2 DEF Running
  <2>6. EnsureLoaded(p) \/ LoadIndex(p) \/ LoadMeta(p) \/ SearchCheck(p) \/ SearchScan(p) \/ SearchLookup(p)
    BY <1>4, <2>1, <2>4, <2>5
  <2>7. pc[p] # "idle"
    BY <2>6 DEF EnsureLoaded, LoadIndex, LoadMeta, SearchCheck, SearchScan, SearchLookup
  <2> QED
    BY <2>3, <2>6, <2>7
<1> QED
  BY <1>3, <1>4

-----------------------------------------------------------------------------
(* What a step must keep, beyond the types and the lock.                   *)
Stands(w) == Callers(w) /\ MemoryStands /\ MemoryIsHeld(w) /\ WriterStands(w)

(* A call starts a request and leaves the store alone; a clear is called   *)
(* when no request ran yet.                                                *)
LEMMA CallStands ==
  ASSUME NEW w, WritesAlone(w), DInv(w), NEW p \in Procs, Call(p),
         p = w \/ op'[p].kind = "search"
  PROVE  Stands(w)'
<1> USE DEF DInv, Base, TypeOK
<1>1. ASSUME NEW r \in Requests, NEW l \in {"ensure", "delLock", "forceReload"},
             Started(p, r, l),
             r.kind = "clear" => \A q \in Procs : op[q].kind = "none",
             \/ r.kind \in {"add", "clear", "info", "search"} /\ l = "ensure"
             \/ r.kind = "delete" /\ l = "delLock"
             \/ r.kind = "reload" /\ l = "forceReload"
      PROVE  Stands(w)'
  <2>2. /\ pc[p] = "idle" /\ pc' = [pc EXCEPT ![p] = l] /\ op' = [op EXCEPT ![p] = r]
        /\ then' = [then EXCEPT ![p] = "body"] /\ UNCHANGED <<lock, memory, disk>>
        /\ tmp' = [tmp EXCEPT ![p] = <<>>] /\ ~Clearing
    BY <1>1 DEF Started, Goto
  <2>3. Callers(w)'
    <3>1. op[w].kind = "clear" => pc[w] = "idle"
      BY <2>2 DEF Clearing, WritesAlone
    <3>2. r.kind = "clear" => \A q \in Procs : pc[q] = "idle"
      BY <1>1 DEF Callers, Points
    <3>3. p = w \/ r.kind = "search"
      BY <2>2
    <3>4. op'[p] = r /\ pc'[p] = l /\ then'[p] = "body"
      BY <2>2
    <3>5. \A q \in Procs \ {p} : op'[q] = op[q] /\ pc'[q] = pc[q] /\ then'[q] = then[q]
      BY <2>2
    <3>6. l \in Points(r.kind) /\ l # "idle" /\ l \notin {"loadIndex", "loadMeta"}
      BY <1>1 DEF Points
    <3>7. \A q \in Procs : /\ q = w \/ op'[q].kind \in {"none", "search"}
                           /\ pc'[q] \in Points(op'[q].kind)
      BY <3>3, <3>4, <3>5, <3>6 DEF Callers
    <3>8. \A q \in Procs : q # w /\ op'[w].kind = "clear" /\ pc'[w] # "idle" => pc'[q] = "idle"
      BY <3>1, <3>2, <3>4, <3>5 DEF WritesAlone
    <3>9. /\ then'[p] = "body" /\ pc'[p] \notin {"loadIndex", "loadMeta"}
          /\ \A q \in Procs \ {p} : op'[q] = op[q] /\ pc'[q] = pc[q] /\ then'[q] = then[q]
      BY <3>4, <3>5, <3>6
    <3>10. \A q \in Procs :
             op'[q].kind \in {"add", "clear", "search"} /\ pc'[q] # "idle" => then'[q] = "body"
      BY <3>9 DEF Callers
    <3>11. \A q \in Procs : op'[q].kind = "delete" =>
             /\ then'[q] = "idle" => pc'[q] \in {"idle", "loadIndex", "loadMeta"}
             /\ pc'[q] \in {"loadIndex", "loadMeta"} => then'[q] \in {"idle", "delCheck"}
      BY <3>9 DEF Callers
    <3> QED
      BY <3>7, <3>8, <3>10, <3>11 DEF Callers
  <2>4. \A q \in Procs : Loads(q)' <=> Loads(q)
    BY <2>2 DEF Loads
  <2>5. MetaFile' = MetaFile /\ Held' = Held
    BY <2>2 DEF disk, MetaFile, Held
  <2>6. MemoryStands'
    BY <2>2, <2>4, <2>5 DEF memory, disk, MemoryStands
  <2>7. MemoryIsHeld(w)'
    BY <2>2, <2>4, <2>5 DEF memory, MemoryIsHeld, WritesAlone
  <2>8. WriterStands(w)'
    BY <2>2, <2>4, <2>5 DEF memory, disk, WriterStands, Target, Changing, Saving, WritesAlone
  <2> QED
    BY <2>3, <2>6, <2>7, <2>8 DEF Stands
<1>2. CASE CallAdd(p)
  <2>1. PICK s \in Sources :
          Started(p, [kind |-> "add", chunk |-> [source_id |-> s, n |-> adds + 1]], "ensure")
    BY <1>2 DEF CallAdd
  <2>2. [kind |-> "add", chunk |-> [source_id |-> s, n |-> adds + 1]] \in Requests
    BY <1>2, BoundsAssumption DEF Requests, Chunk, CallAdd
  <2> QED
    BY <1>1, <2>1, <2>2
<1>3. CASE CallDelete(p)
  <2>1. PICK s \in Sources : Started(p, [kind |-> "delete", source |-> s], "delLock")
    BY <1>3 DEF CallDelete
  <2>2. [kind |-> "delete", source |-> s] \in Requests
    BY DEF Requests
  <2> QED
    BY <1>1, <2>1, <2>2
<1>4. CASE CallOther(p)
  <2>1. PICK k \in {"clear", "info", "search", "reload"} :
          /\ k = "clear" => \A q \in Procs : op[q].kind = "none"
          /\ Started(p, [kind |-> k], IF k = "reload" THEN "forceReload" ELSE "ensure")
    BY <1>4 DEF CallOther
  <2>2. [kind |-> k] \in Requests
    BY DEF Requests
  <2>3. CASE k = "reload"
    BY <1>1, <2>1, <2>2, <2>3
  <2>4. CASE k # "reload"
    BY <1>1, <2>1, <2>2, <2>4
  <2> QED
    BY <2>3, <2>4
<1> QED
  BY <1>2, <1>3, <1>4 DEF Call

(* A request finds the store loaded, or the lock free and memory empty.    *)
LEMMA EnsureStands ==
  ASSUME NEW w, WritesAlone(w), DInv(w), NEW p \in Procs, EnsureLoaded(p)
  PROVE  Stands(w)' /\ Content' = Content /\ Waiting' = Waiting
<1> USE NoneAssumption DEF DInv, Base, TypeOK
<1>1. /\ pc[p] = "ensure" /\ lock = None /\ then[p] = "body"
      /\ UNCHANGED <<memory, disk, op, then, tmp>>
      /\ \/ loaded /\ index # None /\ pc' = [pc EXCEPT ![p] = "body"]
         \/ ~(loaded /\ index # None) /\ pc' = [pc EXCEPT ![p] = "loadIndex"]
  BY DEF EnsureLoaded, Goto, Coherent
<1>2. \A q \in Procs : ~Loads(q)
  BY <1>1 DEF LockHeld, Holding, Loads
<1>3. \A q \in Procs \ {p} : pc'[q] = pc[q] /\ ~Loads(q)'
  BY <1>1, <1>2 DEF Loads
<1>4. MetaFile' = MetaFile /\ Held' = Held
  BY <1>1 DEF disk, MetaFile, Held
<1>5. op[p].kind \in {"add", "clear", "info", "search"}
  BY <1>1 DEF Callers, Points, Saving, Requests
<1>6. Callers(w)'
  <2>1. pc'[p] \in {"body", "loadIndex"} /\ pc'[p] \in Points(op[p].kind) /\ pc[p] # "idle"
    BY <1>1, <1>5 DEF Points
  <2>2. \A q \in Procs : pc'[q] \in Points(op[q].kind)
    BY <1>3, <2>1 DEF Callers
  <2>3. \A q \in Procs : pc'[q] = "idle" <=> pc[q] = "idle"
    BY <1>3, <2>1
  <2>4. \A q \in Procs : q # w /\ op[w].kind = "clear" /\ pc'[w] # "idle" => pc'[q] = "idle"
    BY <2>3 DEF Callers, WritesAlone
  <2>5. \A q \in Procs : op[q].kind = "delete" =>
          /\ then[q] = "idle" => pc'[q] \in {"idle", "loadIndex", "loadMeta"}
          /\ pc'[q] \in {"loadIndex", "loadMeta"} => then[q] \in {"idle", "delCheck"}
    BY <1>3, <1>5 DEF Callers
  <2> QED
    BY <1>1, <2>2, <2>3, <2>4, <2>5 DEF Callers
<1>7. MemoryStands'
  BY <1>1, <1>2, <1>3, <1>4 DEF memory, disk, MemoryStands, Loads
<1>8. MemoryIsHeld(w)'
  BY <1>1, <1>2, <1>3, <1>4 DEF memory, MemoryIsHeld, Loads, WritesAlone
<1>9. WriterStands(w)'
  <2>1. loaded /\ index # None => ~Loads(p)'
    BY <1>1 DEF Loads
  <2>2. p # w => pc'[w] = pc[w]
    BY <1>3 DEF WritesAlone
  <2> QED
    BY <1>1, <1>2, <1>3, <1>4, <2>1, <2>2
       DEF memory, disk, WriterStands, Target, Changing, Saving, WritesAlone
<1>10. Content' = Content
  BY <1>1, <1>4 DEF disk, Content
<1>11. Waiting'[p] = Waiting[p]
  BY <1>1, <1>5 DEF Waiting, Requested
<1>12. Waiting' = Waiting
  BY <1>1, <1>3, <1>11, NoneWaits
<1> QED
  BY <1>6, <1>7, <1>8, <1>9, <1>10, <1>12 DEF Stands

(* A load, when it is over, has left in memory what the disk holds; the    *)
(* reload at the end of a delete is where that request returns.            *)
LEMMA LoadStands ==
  ASSUME NEW w, WritesAlone(w), DInv(w), NEW p \in Procs, LoadIndex(p) \/ LoadMeta(p)
  PROVE  Stands(w)' /\ Content' = Content /\ (Waiting' = Waiting \/ Dense!Return(p))
<1> USE NoneAssumption DEF DInv, Base, TypeOK
<1> w \in Procs
  BY DEF WritesAlone
<1>1. /\ Loads(p) /\ chunks = <<>> /\ UNCHANGED <<disk, op, then, tmp>>
      /\ \A q \in Procs \ {p} : pc'[q] = pc[q] /\ ~Loads(q) /\ ~Loads(q)'
  <2>1. Loads(p) /\ UNCHANGED <<disk, op, then, tmp>>
    BY DEF LoadIndex, LoadMeta, Loads
  <2>2. \A q \in Procs \ {p} : pc'[q] = pc[q]
    BY DEF LoadIndex, LoadMeta, Loaded, Goto
  <2>3. \A q \in Procs \ {p} : ~Loads(q)
    BY <2>1, OneLoads
  <2> QED
    BY <2>1, <2>2, <2>3 DEF MemoryStands, Loads
<1>2. \/ /\ dIndex # None /\ index' = dIndex /\ pc'[p] = "loadMeta" /\ chunks' = <<>>
         /\ loaded' = loaded
      \/ /\ dIndex = None /\ index' = (IF op[p].kind \in {"add", "search"} THEN <<>> ELSE index)
         /\ chunks' = <<>> /\ loaded' = TRUE /\ pc'[p] = then[p]
      \/ /\ index # None /\ index' = index /\ loaded' = TRUE /\ pc'[p] = then[p]
         /\ chunks' = IF MetaFile # None THEN MetaFile ELSE <<>>
  BY <1>1 DEF LoadIndex, LoadMeta, Loaded, Goto, MemoryStands
<1>3. MetaFile' = MetaFile /\ Held' = Held /\ Content' = Content
  BY <1>1 DEF disk, MetaFile, Held, Content
<1>4. /\ op[p].kind \in {"add", "delete", "clear", "info", "search"}
      /\ op[p].kind \in {"add", "clear", "search"} => then[p] = "body"
      /\ op[p].kind = "delete" => then[p] \in {"idle", "delCheck"}
      /\ op[p].kind = "info" => then[p] \in {"idle", "body"}
  BY <1>1 DEF Callers, Points, Saving, Requests, Coherent, Loads
<1>5. pc'[p] \in {"loadMeta", "idle", "body", "delCheck"} /\ pc[w] \notin Changing
  BY <1>1, <1>2, <1>4 DEF WriterStands
<1>6. Callers(w)'
  <2>1. pc'[p] \in Points(op[p].kind)
    BY <1>2, <1>4 DEF Points
  <2>2. pc[p] # "idle"
    BY <1>1 DEF Loads
  <2>3. \A q \in Procs : /\ q = w \/ op'[q].kind \in {"none", "search"}
                         /\ pc'[q] \in Points(op'[q].kind)
    BY <1>1, <2>1 DEF Callers
  <2>4. \A q \in Procs : q # w /\ op'[w].kind = "clear" /\ pc'[w] # "idle" => pc'[q] = "idle"
    BY <1>1, <2>2 DEF Callers
  <2>5. \A q \in Procs :
          /\ op'[q].kind \in {"add", "clear", "search"} /\ pc'[q] # "idle" => then'[q] = "body"
          /\ op'[q].kind = "delete" =>
               /\ then'[q] = "idle" => pc'[q] \in {"idle", "loadIndex", "loadMeta"}
               /\ pc'[q] \in {"loadIndex", "loadMeta"} => then'[q] \in {"idle", "delCheck"}
    BY <1>1, <1>2, <1>4 DEF Callers
  <2> QED
    BY <2>3, <2>4, <2>5 DEF Callers
<1>7. MemoryStands'
  <2>1. pc'[p] = "loadMeta" => Loads(p)'
    BY DEF Loads
  <2>2. Loads(p)' => pc'[p] = "loadMeta"
    BY <1>5 DEF Loads
  <2>3. \A q \in Procs : pc'[q] = "loadMeta" => Loads(q)'
    BY DEF Loads
  <2>4. then[p] # "loadMeta"
    OBVIOUS
  <2> QED
    BY <1>1, <1>2, <1>3, <2>1, <2>2, <2>3, <2>4 DEF MemoryStands, disk
<1>8. MemoryIsHeld(w)'
  <2>1. pc'[p] = "loadMeta" => Loads(p)'
    BY DEF Loads
  <2>2. ToSet(<<>>) = {}
    BY DEF ToSet
  <2> QED
    BY <1>2, <1>3, <2>1, <2>2 DEF MemoryIsHeld, MemoryStands, Held
<1>9. WriterStands(w)'
  <2>1. pc'[w] \notin Changing
    BY <1>1, <1>5 DEF Changing, Saving
  <2>2. pc'[w] = "body" /\ op[w].kind = "add" => w = p
    BY <1>1, <1>2 DEF WriterStands
  <2>3. pc'[p] = "body" /\ op[p].kind = "add" => index' # None /\ loaded' /\ ~Loads(p)'
    <3>1. <<>> \in Seq(Chunk)
      OBVIOUS
    <3> QED
      BY <1>2, <3>1 DEF Loads
  <2>4. pc'[w] \in {"body", "delCheck"} => loaded'
    BY <1>1, <1>2 DEF WriterStands
  <2> QED
    BY <1>1, <2>1, <2>2, <2>3, <2>4 DEF WriterStands, Changing, Saving
<1>10. Waiting' = Waiting \/ Dense!Return(p)
  <2>1. CASE op[p].kind = "delete" /\ then[p] = "idle" /\ pc'[p] = "idle"
    <3>1. Waiting[p] = [kind |-> "delete", source |-> op[p].source, committed |-> TRUE]
      BY <1>1, <2>1 DEF Waiting, Requested, Loads
    <3>2. op[p].source \in Sources
      BY <2>1 DEF Requests
    <3>3. Waiting[p] \in Dense!Requests /\ Waiting[p].committed
      BY <3>1, <3>2 DEF Dense!Requests
    <3>4. Waiting'[p] = None
      BY <2>1 DEF Waiting
    <3>5. Waiting' = [Waiting EXCEPT ![p] = None]
      BY <1>1, <3>4, OneWaits
    <3> QED
      BY <1>3, <3>3, <3>5, NoRequestAssumption DEF Dense!Return
  <2>2. CASE op[p].kind # "delete" \/ then[p] # "idle" \/ pc'[p] # "idle"
    <3>1. Waiting'[p] = Waiting[p]
      BY <1>1, <1>2, <1>4, <2>2 DEF Waiting, Requested, Loads
    <3> QED
      BY <1>1, <3>1, NoneWaits
  <2> QED
    BY <2>1, <2>2
<1> QED
  BY <1>3, <1>6, <1>7, <1>8, <1>9, <1>10 DEF Stands

(* A search looks at the pair and changes nothing.                         *)
LEMMA SearchStands ==
  ASSUME NEW w, WritesAlone(w), DInv(w), NEW p \in Procs,
         SearchCheck(p) \/ SearchScan(p) \/ SearchLookup(p), op[p].kind = "search"
  PROVE  Stands(w)' /\ Content' = Content /\ Waiting' = Waiting
<1> USE DEF DInv, Base, TypeOK
<1> w \in Procs
  BY DEF WritesAlone
<1>1. /\ UNCHANGED <<memory, disk, op, then>> /\ \A q \in Procs \ {p} : tmp'[q] = tmp[q]
      /\ pc[p] \in {"body", "scan", "lookup"} /\ pc'[p] \in {"idle", "scan", "lookup"}
      /\ \A q \in Procs \ {p} : pc'[q] = pc[q]
  BY DEF SearchCheck, SearchScan, SearchLookup, Goto
<1>2. MetaFile' = MetaFile /\ Held' = Held /\ Content' = Content
  BY <1>1 DEF disk, MetaFile, Held, Content
<1>3. \A q \in Procs : Loads(q)' <=> Loads(q)
  BY <1>1 DEF Loads
<1>4. Callers(w)'
  <2>1. op[p].kind = "search" /\ pc'[p] \in Points(op[p].kind) /\ pc[p] # "idle"
    BY <1>1 DEF Points
  <2>2. \A q \in Procs : pc'[q] \in Points(op[q].kind)
    BY <1>1, <2>1 DEF Callers
  <2>3. \A q \in Procs : q # w /\ op[w].kind = "clear" /\ pc'[w] # "idle" => pc'[q] = "idle"
    BY <1>1, <2>1 DEF Callers
  <2>4. \A q \in Procs :
          op[q].kind \in {"add", "clear", "search"} /\ pc'[q] # "idle" => then[q] = "body"
    BY <1>1, <2>1 DEF Callers
  <2>5. \A q \in Procs : op[q].kind = "delete" =>
          /\ then[q] = "idle" => pc'[q] \in {"idle", "loadIndex", "loadMeta"}
          /\ pc'[q] \in {"loadIndex", "loadMeta"} => then[q] \in {"idle", "delCheck"}
    BY <1>1, <2>1 DEF Callers
  <2>6. \A q \in Procs : q = w \/ op[q].kind \in {"none", "search"}
    BY DEF Callers
  <2> QED
    BY <1>1, <2>2, <2>3, <2>4, <2>5, <2>6 DEF Callers
<1>5. MemoryStands' /\ MemoryIsHeld(w)'
  <2>1. \A q \in Procs : pc'[q] = "loadMeta" => pc[q] = "loadMeta"
    BY <1>1
  <2>2. pc'[w] \in Saving => pc[w] \in Saving
    BY <1>1 DEF Saving
  <2>3. pc[w] \in Saving => pc'[w] \in Saving
    BY <1>1 DEF Saving
  <2> QED
    BY <1>1, <1>2, <1>3, <2>1, <2>2, <2>3 DEF memory, disk, MemoryStands, MemoryIsHeld, Saving
<1>6. WriterStands(w)'
  BY <1>1, <1>2, <1>3 DEF memory, disk, WriterStands, Target, Changing, Saving
<1>7. Waiting'[p] = Waiting[p]
  BY <1>1 DEF Waiting
<1>8. Waiting' = Waiting
  BY <1>1, <1>7, NoneWaits
<1> QED
  BY <1>2, <1>4, <1>5, <1>6, <1>8 DEF Stands

(* Dropping the pair while the lock is held, to load it again.             *)
LEMMA DropStands ==
  ASSUME NEW w, WritesAlone(w), DInv(w),
         DelLock(w) \/ ForceReload(w) \/ InfoReload(w) \/ DelReload(w) \/ InfoCheck(w)
  PROVE  Stands(w)' /\ Content' = Content /\ Waiting' = Waiting
<1> USE NoneAssumption DEF DInv, Base, TypeOK
<1> w \in Procs
  BY DEF WritesAlone
<1>1. /\ UNCHANGED <<disk, op>> /\ \A q \in Procs \ {w} : pc'[q] = pc[q] /\ then'[q] = then[q]
  BY DEF DelLock, ForceReload, InfoReload, DelReload, InfoCheck, Goto
<1>2. MetaFile' = MetaFile /\ Held' = Held /\ Content' = Content
  BY <1>1 DEF disk, MetaFile, Held, Content
<1>3. pc[w] \in {"delLock", "forceReload", "reloadInfo", "reload"} => \A q \in Procs : ~Loads(q)
  BY DEF DelLock, ForceReload, InfoReload, DelReload, InfoCheck, Acquire, LockHeld, Holding, Loads
<1>4. op[w].kind # "add" /\ op[w].kind # "clear"
  BY DEF DelLock, ForceReload, InfoReload, DelReload, InfoCheck, Callers, Points, Saving
<1>5. CASE DelLock(w)
  <2>1. /\ pc[w] = "delLock" /\ op[w].kind = "delete" /\ UNCHANGED <<memory, tmp>>
        /\ pc'[w] = (IF loaded THEN "delCheck" ELSE "loadIndex")
        /\ then'[w] = (IF loaded THEN then[w] ELSE "delCheck") /\ then[w] # "idle"
    BY <1>5 DEF DelLock, Goto, Coherent, Callers
  <2>2. \A q \in Procs : (Loads(q)' <=> q = w /\ ~loaded) /\ ~Loads(q)
    BY <1>1, <1>3, <2>1 DEF Loads
  <2>3. Callers(w)'
    BY <1>1, <2>1 DEF Callers, Points
  <2>4. MemoryStands'
    BY <1>1, <1>2, <2>1, <2>2 DEF memory, disk, MemoryStands, Loads
  <2>5. MemoryIsHeld(w)'
    BY <1>2, <2>1, <2>2 DEF memory, MemoryIsHeld
  <2>6. WriterStands(w)'
    BY <1>2, <2>1 DEF memory, WriterStands, Changing, Saving
  <2>7. Waiting'[w] = Waiting[w]
    BY <1>1, <2>1 DEF Waiting, Requested
  <2> QED
    BY <1>1, <1>2, <2>3, <2>4, <2>5, <2>6, <2>7, NoneWaits DEF Stands
<1>6. CASE ForceReload(w)
  <2>1. /\ pc[w] = "forceReload" /\ op[w].kind = "reload" /\ pc'[w] = "idle" /\ then' = then
        /\ loaded' = FALSE /\ index' = None /\ chunks' = <<>>
    BY <1>6 DEF ForceReload, DropMemory, Goto, Callers, Points, Saving, Requests
  <2>2. \A q \in Procs : ~Loads(q)' /\ ~Loads(q)
    BY <1>1, <1>3, <2>1 DEF Loads
  <2>3. Callers(w)'
    BY <1>1, <2>1 DEF Callers, Points
  <2>4. MemoryStands'
    BY <1>1, <1>2, <2>1, <2>2 DEF disk, MemoryStands, Loads
  <2>5. MemoryIsHeld(w)' /\ WriterStands(w)'
    BY <2>1 DEF MemoryIsHeld, WriterStands, Changing, Saving
  <2>6. Waiting'[w] = Waiting[w]
    BY <1>1, <2>1 DEF Waiting
  <2> QED
    BY <1>1, <1>2, <2>1, <2>3, <2>4, <2>5, <2>6, NoneWaits DEF Stands
<1>7. CASE InfoReload(w)
  <2>1. /\ pc[w] = "reloadInfo" /\ op[w].kind = "info" /\ pc'[w] = "loadIndex" /\ then'[w] = "idle"
        /\ loaded' = FALSE /\ index' = index /\ chunks' = <<>>
    BY <1>7 DEF InfoReload, Goto, Callers, Points, Saving, Requests
  <2>2. \A q \in Procs : (Loads(q)' <=> q = w) /\ ~Loads(q)
    BY <1>1, <1>3, <2>1 DEF Loads
  <2>3. Callers(w)'
    BY <1>1, <2>1 DEF Callers, Points
  <2>4. MemoryStands'
    BY <1>1, <1>2, <2>1, <2>2 DEF disk, MemoryStands, Loads
  <2>5. MemoryIsHeld(w)' /\ WriterStands(w)'
    BY <2>1, <2>2 DEF MemoryIsHeld, WriterStands, Changing, Saving
  <2>6. Waiting'[w] = Waiting[w]
    BY <1>1, <2>1 DEF Waiting
  <2> QED
    BY <1>1, <1>2, <2>3, <2>4, <2>5, <2>6, NoneWaits DEF Stands
<1>8. CASE DelReload(w)
  <2>1. /\ pc[w] = "reload" /\ op[w].kind = "delete" /\ pc'[w] = "loadIndex" /\ then'[w] = "idle"
        /\ loaded' = FALSE /\ index' = None /\ chunks' = <<>>
    BY <1>8 DEF DelReload, DropMemory, Goto, Coherent
  <2>2. \A q \in Procs : (Loads(q)' <=> q = w) /\ ~Loads(q)
    BY <1>1, <1>3, <2>1 DEF Loads
  <2>3. Callers(w)'
    BY <1>1, <2>1 DEF Callers, Points
  <2>4. MemoryStands'
    BY <1>1, <1>2, <2>1, <2>2 DEF disk, MemoryStands, Loads
  <2>5. MemoryIsHeld(w)' /\ WriterStands(w)'
    BY <2>1 DEF MemoryIsHeld, WriterStands, Changing, Saving
  <2>6. Waiting'[w] = Waiting[w]
    BY <1>1, <2>1 DEF Waiting, Requested
  <2> QED
    BY <1>1, <1>2, <2>3, <2>4, <2>5, <2>6, NoneWaits DEF Stands
<1>9. CASE InfoCheck(w)
  <2>1. /\ pc[w] = "body" /\ op[w].kind = "info" /\ pc'[w] \in {"reloadInfo", "idle"}
        /\ UNCHANGED <<memory, then, tmp>>
    BY <1>9 DEF InfoCheck, Goto
  <2>2. \A q \in Procs : Loads(q)' <=> Loads(q)
    BY <1>1, <2>1 DEF Loads
  <2>3. Callers(w)'
    BY <1>1, <2>1 DEF Callers, Points
  <2>4. MemoryStands'
    BY <1>1, <1>2, <2>1, <2>2 DEF memory, disk, MemoryStands, Loads
  <2>5. MemoryIsHeld(w)' /\ WriterStands(w)'
    BY <1>2, <2>1, <2>2 DEF memory, MemoryIsHeld, WriterStands, Changing, Saving
  <2>6. Waiting'[w] = Waiting[w]
    BY <1>1, <2>1 DEF Waiting
  <2> QED
    BY <1>1, <1>2, <2>1, <2>3, <2>4, <2>5, <2>6, NoneWaits DEF Stands
<1> QED
  BY <1>5, <1>6, <1>7, <1>8, <1>9

(* The writer's way from its change in memory to the rename of the         *)
(* metadata: nothing a restart could see changes.                          *)
LEMMA SaveStands ==
  ASSUME NEW w, WritesAlone(w), DInv(w),
         \/ AddVectors(w) \/ AddChunks(w) \/ WriteIndex(w) \/ ReplaceIndex(w) \/ WriteMeta(w)
         \/ DelSwapChunks(w)
  PROVE  Stands(w)' /\ Content' = Content /\ Waiting' = Waiting
<1> USE NoneAssumption DEF DInv, Base, TypeOK
<1> w \in Procs
  BY DEF WritesAlone
<1>1. /\ UNCHANGED <<dMeta, dAlt, op, then, loaded>> /\ \A q \in Procs \ {w} : pc'[q] = pc[q]
      /\ pc[w] \in {"body", "addChunks", "swapChunks", "writeIndex", "replaceIndex", "writeMeta"}
      /\ pc[w] = "body" => op[w].kind = "add"
  BY DEF AddVectors, AddChunks, WriteIndex, ReplaceIndex, WriteMeta, DelSwapChunks, Goto, memory, disk
<1>2. loaded /\ index # None /\ \A q \in Procs : ~Loads(q)
  BY <1>1 DEF WriterStands, Changing, Saving
<1>3. pc'[w] \in Changing \ {"swapChunks"} /\ pc[w] # "idle"
  BY <1>1, <1>2 DEF AddVectors, AddChunks, WriteIndex, ReplaceIndex, WriteMeta, DelSwapChunks, Goto,
                    Changing, Saving
<1>4. MetaFile' = MetaFile /\ Held' = Held /\ Target(w)' = Target(w)
  BY <1>1 DEF MetaFile, Held, Target
<1>5. \A q \in Procs : ~Loads(q)'
  BY <1>1, <1>2, <1>3 DEF Loads, Changing, Saving
<1>6. op[w].kind \in {"add", "delete"} /\ (op[w].kind = "delete" => then[w] # "idle")
        /\ (pc[w] \in {"body", "addChunks"} => op[w].kind = "add")
        /\ (pc[w] = "swapChunks" => op[w].kind = "delete")
  BY <1>1 DEF Callers, Points, Saving, Requests, Coherent
<1>7. index' \in Seq(Chunk) /\ index' # None
  <2>1. CASE AddVectors(w)
    <3>1. index \in Seq(Chunk) /\ op[w].chunk \in Chunk
      BY <1>2, <1>6, <2>1 DEF File, Requests, AddVectors
    <3>2. index' = Append(index, op[w].chunk)
      BY <1>2, <2>1 DEF AddVectors
    <3>3. Append(index, op[w].chunk) \in Seq(Chunk)
      BY <3>1
    <3> QED
      BY <3>2, <3>3
  <2>2. CASE ~AddVectors(w)
    <3>1. index' = index
      BY <2>2 DEF AddChunks, WriteIndex, ReplaceIndex, WriteMeta, DelSwapChunks, memory
    <3> QED
      BY <1>2, <3>1 DEF File
  <2> QED
    BY <2>1, <2>2
<1>8. dIndex' = dIndex \/ (dIndex' # None /\ pc[w] = "replaceIndex")
  BY DEF AddVectors, AddChunks, WriteIndex, ReplaceIndex, WriteMeta, DelSwapChunks, disk
<1>9. Content' = Content
  BY <1>4, <1>8 DEF Content, MemoryStands
<1>10. Callers(w)'
  <2>1. pc'[w] \in Points(op[w].kind)
    BY <1>1, <1>2, <1>6 DEF Points, Saving, AddVectors, AddChunks, WriteIndex, ReplaceIndex, WriteMeta,
                            DelSwapChunks, Goto
  <2> QED
    BY <1>1, <1>3, <1>6, <2>1 DEF Callers, Changing, Saving
<1>11. MemoryStands'
  BY <1>1, <1>2, <1>4, <1>5, <1>7, <1>8 DEF MemoryStands, Loads
<1>12. /\ pc'[w] = "addChunks" => chunks' = chunks /\ pc[w] = "body"
       /\ pc'[w] \in Saving => ToSet(chunks') = Target(w)
  <2>1. CASE AddVectors(w)
    BY <1>2, <2>1 DEF AddVectors, Goto, Saving
  <2>2. CASE AddChunks(w)
    <3>1. chunks' = Append(chunks, op[w].chunk) /\ op[w].chunk \in Chunk /\ pc'[w] = "writeIndex"
      BY <1>6, <2>2 DEF AddChunks, Requests, Goto
    <3>2. ToSet(Append(chunks, op[w].chunk)) = ToSet(chunks) \cup {op[w].chunk}
      <4> DEFINE s == Append(chunks, op[w].chunk)
      <4>1. s \in Seq(Chunk) /\ Len(s) = Len(chunks) + 1 /\ s[Len(chunks) + 1] = op[w].chunk
        BY <3>1
      <4>2. \A i \in DOMAIN chunks : s[i] = chunks[i]
        BY <3>1
      <4>3. DOMAIN s = DOMAIN chunks \cup {Len(chunks) + 1}
        BY <4>1
      <4> HIDE DEF s
      <4>4. ASSUME NEW x PROVE x \in ToSet(s) <=> x \in ToSet(chunks) \cup {op[w].chunk}
        BY <4>1, <4>2, <4>3 DEF ToSet
      <4> QED
        BY <4>4 DEF s
    <3>3. ToSet(chunks) = Held
      BY <1>2, <2>2 DEF AddChunks, MemoryIsHeld, Saving
    <3> QED
      BY <1>6, <2>2, <3>1, <3>2, <3>3 DEF AddChunks, Target
  <2>3. CASE WriteIndex(w)
    BY <1>2, <2>3 DEF WriteIndex, Goto, Saving, WriterStands, memory
  <2>4. CASE ReplaceIndex(w)
    BY <2>4 DEF ReplaceIndex, Goto, Saving, WriterStands, memory
  <2>5. CASE WriteMeta(w)
    BY <2>5 DEF WriteMeta, Goto, Saving, WriterStands, memory
  <2>6. CASE DelSwapChunks(w)
    BY <2>6 DEF DelSwapChunks, Goto, Saving, WriterStands
  <2> QED
    BY <2>1, <2>2, <2>3, <2>4, <2>5, <2>6
<1>13. MemoryIsHeld(w)'
  BY <1>2, <1>3, <1>4, <1>12 DEF MemoryIsHeld, Changing, Saving
<1>14. WriterStands(w)'
  <2>1. pc'[w] = "replaceMeta" => tmp'[w] = chunks'
    BY <1>1, <1>2 DEF AddVectors, AddChunks, WriteIndex, ReplaceIndex, WriteMeta, DelSwapChunks, Goto, memory
  <2>2. pc'[w] \in {"writeMeta", "replaceMeta"} => dIndex' # None
    BY <1>1, <1>2, <1>8 DEF AddVectors, AddChunks, WriteIndex, ReplaceIndex, WriteMeta, DelSwapChunks,
                            Goto, WriterStands
  <2>3. pc'[w] \notin {"body", "delCheck", "swapChunks"}
    BY <1>3 DEF Changing, Saving
  <2> QED
    BY <1>1, <1>2, <1>4, <1>5, <1>7, <1>12, <2>1, <2>2, <2>3 DEF WriterStands
<1>15. Waiting'[w] = Waiting[w]
  BY <1>1, <1>3, <1>6 DEF Waiting, Requested, Changing, Saving
<1>16. Waiting' = Waiting
  BY <1>1, <1>15, NoneWaits
<1> QED
  BY <1>9, <1>10, <1>11, <1>13, <1>14, <1>16 DEF Stands

(* The rename of the metadata is where an add or a delete takes effect.    *)
LEMMA CommitStands ==
  ASSUME NEW w, WritesAlone(w), DInv(w), ReplaceMeta(w)
  PROVE  Stands(w)' /\ (Dense!Finish(w) \/ Dense!Commit(w))
<1> USE NoneAssumption DEF DInv, Base, TypeOK
<1> w \in Procs
  BY DEF WritesAlone
<1>1. /\ pc[w] = "replaceMeta" /\ dMeta' = tmp[w] /\ dAlt' = None
      /\ UNCHANGED <<memory, dIndex, op, then, tmp>>
      /\ pc'[w] = (IF op[w].kind = "delete" THEN "reload" ELSE "idle")
      /\ \A q \in Procs \ {w} : pc'[q] = pc[q]
  BY DEF ReplaceMeta, Saved, Goto
<1>2. loaded /\ index # None /\ (\A q \in Procs : ~Loads(q)) /\ tmp[w] = chunks /\ dIndex # None
        /\ ToSet(chunks) = Target(w)
  BY <1>1 DEF WriterStands, Changing, Saving
<1>3. op[w].kind \in {"add", "delete"} /\ (op[w].kind = "delete" => then[w] # "idle")
  BY <1>1 DEF Callers, Points, Saving, Requests
<1>4. MetaFile' = chunks /\ Held' = ToSet(chunks) /\ Content' = Target(w) /\ Content = Held
  BY <1>1, <1>2, ContentIsHeld DEF MetaFile, Held, Content
<1>5. \A q \in Procs : ~Loads(q)'
  BY <1>1, <1>2, <1>3 DEF Loads
<1>6. Callers(w)'
  BY <1>1, <1>3 DEF Callers, Points
<1>7. MemoryStands'
  BY <1>1, <1>2, <1>5 DEF MemoryStands, memory, Loads
<1>8. MemoryIsHeld(w)' /\ WriterStands(w)'
  BY <1>1, <1>3, <1>4 DEF MemoryIsHeld, WriterStands, memory, Changing, Saving
<1>9. CASE op[w].kind = "add"
  <2>1. op[w].chunk \in Chunk
    BY <1>9 DEF Requests
  <2>2. Waiting[w] = [kind |-> "add", chunk |-> op[w].chunk, committed |-> FALSE]
    BY <1>1, <1>9 DEF Waiting, Requested
  <2>3. Waiting[w] \in Dense!Requests /\ ~Waiting[w].committed
    BY <2>1, <2>2 DEF Dense!Requests
  <2>4. Dense!Effect(Waiting[w], Content) = Content \cup {op[w].chunk}
    BY <2>2 DEF Dense!Effect
  <2>5. Waiting'[w] = None
    BY <1>1, <1>9 DEF Waiting
  <2>6. Waiting' = [Waiting EXCEPT ![w] = None]
    BY <1>1, <2>5, OneWaits
  <2>7. Content' = Content \cup {op[w].chunk}
    BY <1>4, <1>9 DEF Target
  <2>8. Dense!Finish(w)
    BY <2>3, <2>4, <2>6, <2>7, NoRequestAssumption DEF Dense!Finish
  <2> QED
    BY <1>6, <1>7, <1>8, <2>8 DEF Stands
<1>10. CASE op[w].kind = "delete"
  <2>1. op[w].source \in Sources
    BY <1>10 DEF Requests
  <2>2. Waiting[w] = [kind |-> "delete", source |-> op[w].source, committed |-> FALSE]
    BY <1>1, <1>3, <1>10 DEF Waiting, Requested
  <2>3. Waiting[w] \in Dense!Requests /\ ~Waiting[w].committed
    BY <2>1, <2>2 DEF Dense!Requests
  <2>4. Dense!Effect(Waiting[w], Content) = {c \in Content : c.source_id # op[w].source}
    BY <2>2 DEF Dense!Effect
  <2>5. Waiting'[w] = [Waiting[w] EXCEPT !.committed = TRUE]
    <3>1. Waiting'[w] = [kind |-> "delete", source |-> op[w].source, committed |-> TRUE]
      BY <1>1, <1>10 DEF Waiting, Requested
    <3> DEFINE Deletes == [kind : {"delete"}, source : Sources, committed : BOOLEAN]
    <3>2. Waiting[w] \in Deletes /\ Waiting[w].source = op[w].source
      BY <2>1, <2>2
    <3>3. Waiting'[w] \in Deletes /\ Waiting'[w].source = op[w].source /\ Waiting'[w].committed = TRUE
      BY <2>1, <3>1
    <3> QED
      BY <3>2, <3>3
  <2>6. Waiting' = [Waiting EXCEPT ![w].committed = TRUE]
    BY <1>1, <2>5, OneWaits
  <2>7. Content' = {c \in Content : c.source_id # op[w].source}
    BY <1>4, <1>10 DEF Target
  <2>8. Dense!Commit(w)
    BY <2>3, <2>4, <2>6, <2>7, NoRequestAssumption DEF Dense!Commit
  <2> QED
    BY <1>6, <1>7, <1>8, <2>8 DEF Stands
<1> QED
  BY <1>3, <1>9, <1>10

(* What a delete asks of the abstract store, until it has taken effect.    *)
LEMMA DeleteWaits ==
  ASSUME TypeOK, NEW p \in Procs, op[p].kind = "delete", pc[p] \notin {"idle", "reload"}, then[p] # "idle"
  PROVE  /\ Waiting[p] # None /\ ~Waiting[p].committed
         /\ Dense!Effect(Waiting[p], Content) = {c \in Content : c.source_id # op[p].source}
         /\ (op'[p] = op[p] /\ pc'[p] = "reload" =>
              Waiting'[p] = [Waiting[p] EXCEPT !.committed = TRUE])
<1>1. op[p].source \in Sources
  BY DEF TypeOK, Requests
<1>2. Waiting[p] = [kind |-> "delete", source |-> op[p].source, committed |-> FALSE]
  BY DEF Waiting, Requested
<1>3. Waiting[p] \in Dense!Requests
  BY <1>1, <1>2 DEF Dense!Requests
<1>4. Dense!Effect(Waiting[p], Content) = {c \in Content : c.source_id # op[p].source}
  BY <1>2 DEF Dense!Effect
<1>5. op'[p] = op[p] /\ pc'[p] = "reload" => Waiting'[p] = [Waiting[p] EXCEPT !.committed = TRUE]
  <2> HAVE op'[p] = op[p] /\ pc'[p] = "reload"
  <2>1. Waiting'[p] = [kind |-> "delete", source |-> op[p].source, committed |-> TRUE]
    BY DEF Waiting, Requested
  <2> DEFINE Deletes == [kind : {"delete"}, source : Sources, committed : BOOLEAN]
  <2>2. Waiting[p] \in Deletes /\ Waiting[p].source = op[p].source
    BY <1>1, <1>2
  <2>3. Waiting'[p] \in Deletes /\ Waiting'[p].source = op[p].source /\ Waiting'[p].committed = TRUE
    BY <1>1, <2>1
  <2> QED
    BY <2>2, <2>3
<1>6. ~Waiting[p].committed
  BY <1>2
<1> QED
  BY <1>3, <1>4, <1>5, <1>6, NoRequestAssumption

(* A delete that finds nothing of its source has taken effect, one that    *)
(* finds something has computed what will be left, and one that finds      *)
(* chunks without vectors ends with FAISS's exception.                     *)
LEMMA RebuildStands ==
  ASSUME NEW w, WritesAlone(w), DInv(w), DelRebuild(w)
  PROVE  /\ Stands(w)'
         /\ \/ Content' = Content /\ Waiting' = Waiting
            \/ Dense!Finish(w) \/ Dense!Commit(w) \/ (Dense!Raise(w) /\ Raises(w))
<1> USE NoneAssumption DEF DInv, Base, TypeOK
<1> w \in Procs
  BY DEF WritesAlone
<1> DEFINE keep == {i \in DOMAIN chunks : chunks[i].source_id # op[w].source}
<1>1. /\ pc[w] = "delCheck" /\ op[w].kind = "delete" /\ then[w] # "idle" /\ loaded
      /\ UNCHANGED <<loaded, chunks, disk, op, then>>
      /\ \A q \in Procs \ {w} : pc'[q] = pc[q]
  BY DEF DelRebuild, Goto, Coherent, Callers, WriterStands
<1>2. \/ (index = None \/ chunks = <<>>) /\ pc'[w] = "idle" /\ index' = index
      \/ index # None /\ keep = DOMAIN chunks /\ pc'[w] = "reload" /\ index' = index
      \/ index # None /\ ~(keep \subseteq DOMAIN index) /\ pc'[w] = "idle" /\ index' = index
      \/ /\ index # None /\ keep \subseteq DOMAIN index /\ pc'[w] = "swapChunks"
         /\ \E e \in Enumerations(keep) :
              /\ index' = [i \in DOMAIN e |-> index[e[i]]]
              /\ tmp' = [tmp EXCEPT ![w] = [i \in DOMAIN e |-> chunks[e[i]]]]
  BY <1>1 DEF DelRebuild, Goto
<1> HIDE DEF keep
<1>3. \A q \in Procs : ~Loads(q) /\ ~Loads(q)'
  BY <1>1, <1>2 DEF LockHeld, Holding, Loads
<1>4. MetaFile' = MetaFile /\ Held' = Held /\ Content' = Content /\ Content = Held
  BY <1>1, ContentIsHeld DEF disk, MetaFile, Held, Content
<1>5. ToSet(chunks) = Held
  <2>1. CASE index = None
    <3>1. ToSet(<<>>) = {}
      BY DEF ToSet
    <3> QED
      BY <1>1, <2>1, <3>1 DEF MemoryStands, Held
  <2>2. CASE index # None
    BY <1>1, <1>3, <2>2 DEF MemoryIsHeld
  <2> QED
    BY <2>1, <2>2
<1>6. index' = None <=> index = None
  <2>1. ASSUME index # None, NEW e \in Enumerations(keep), keep \subseteq DOMAIN index,
               index' = [i \in DOMAIN e |-> index[e[i]]]
        PROVE  index' # None
    <3>1. PICK n \in 0..Len(chunks) : e \in [1..n -> keep]
      BY <2>1 DEF Enumerations
    <3>2. n \in Nat /\ index \in Seq(Chunk)
      BY <2>1 DEF File
    <3>3. index' \in Seq(Chunk)
      BY <2>1, <3>1, <3>2
    <3> QED
      BY <3>3
  <2> QED
    BY <1>2, <2>1
<1>7. Callers(w)'
  BY <1>1, <1>2 DEF Callers, Points
<1>8. MemoryStands'
  BY <1>1, <1>3, <1>4, <1>6 DEF disk, MemoryStands, Loads
<1>9. MemoryIsHeld(w)'
  BY <1>1, <1>4, <1>5 DEF MemoryIsHeld
<1>10. pc'[w] = "swapChunks" => ToSet(tmp'[w]) = Target(w)'
  <2> SUFFICES ASSUME pc'[w] = "swapChunks" PROVE ToSet(tmp'[w]) = Target(w)'
    OBVIOUS
  <2>1. PICK e \in Enumerations(keep) : tmp' = [tmp EXCEPT ![w] = [i \in DOMAIN e |-> chunks[e[i]]]]
    BY <1>2
  <2>2. tmp'[w] = [i \in DOMAIN e |-> chunks[e[i]]]
    BY <2>1
  <2>3. (\A i \in DOMAIN e : e[i] \in keep) /\ (\A k \in keep : \E i \in DOMAIN e : e[i] = k)
    <3>1. PICK n \in 0..Len(chunks) : e \in [1..n -> keep]
      BY DEF Enumerations
    <3> QED
      BY <3>1 DEF Enumerations
  <2>4. ASSUME NEW x PROVE x \in ToSet(tmp'[w]) <=> x \in ToSet(chunks) /\ x.source_id # op[w].source
    <3>1. DOMAIN tmp'[w] = DOMAIN e /\ \A i \in DOMAIN e : tmp'[w][i] = chunks[e[i]]
      BY <2>2
    <3>2. x \in ToSet(tmp'[w]) <=> \E k \in keep : x = chunks[k]
      BY <2>3, <3>1 DEF ToSet
    <3> QED
      BY <3>2 DEF ToSet, keep
  <2>5. Target(w)' = {c \in Held : c.source_id # op[w].source}
    BY <1>1, <1>4 DEF Target
  <2> QED
    BY <1>5, <2>4, <2>5
<1>11. WriterStands(w)'
  BY <1>1, <1>2, <1>3, <1>6, <1>10 DEF WriterStands, Changing, Saving
<1> Stands(w)'
  BY <1>7, <1>8, <1>9, <1>11 DEF Stands
<1>12. /\ Waiting[w] # None /\ ~Waiting[w].committed
       /\ Dense!Effect(Waiting[w], Content) = {c \in Held : c.source_id # op[w].source}
  BY <1>1, <1>4, DeleteWaits
<1>13. pc'[w] = "idle" => Waiting' = [Waiting EXCEPT ![w] = None]
  <2> SUFFICES ASSUME pc'[w] = "idle" PROVE Waiting' = [Waiting EXCEPT ![w] = None]
    OBVIOUS
  <2>1. Waiting'[w] = None
    BY DEF Waiting
  <2> QED
    BY <1>1, <2>1, OneWaits
<1>14. CASE (index = None \/ chunks = <<>>) /\ pc'[w] = "idle"
  <2>1. chunks = <<>>
    BY <1>14 DEF MemoryStands
  <2>2. Held = {}
    BY <1>5, <2>1 DEF ToSet
  <2>3. Dense!Finish(w)
    BY <1>4, <1>12, <1>13, <1>14, <2>2 DEF Dense!Finish
  <2> QED
    BY <2>3
<1>15. CASE keep = DOMAIN chunks /\ pc'[w] = "reload"
  <2>1. Held = {c \in Held : c.source_id # op[w].source}
    BY <1>5, <1>15 DEF ToSet, keep
  <2>2. Waiting'[w] = [Waiting[w] EXCEPT !.committed = TRUE]
    BY <1>1, <1>15, DeleteWaits
  <2>3. Waiting' = [Waiting EXCEPT ![w].committed = TRUE]
    BY <1>1, <2>2, OneWaits
  <2>4. Dense!Commit(w)
    BY <1>4, <1>12, <2>1, <2>3 DEF Dense!Commit
  <2> QED
    BY <2>4
<1>16. CASE index # None /\ ~(keep \subseteq DOMAIN index) /\ pc'[w] = "idle"
  <2>1. Raises(w)
    BY <1>16 DEF Raises, keep
  <2>2. Dense!Raise(w)
    BY <1>4, <1>12, <1>13, <1>16 DEF Dense!Raise
  <2> QED
    BY <2>1, <2>2
<1>17. CASE pc'[w] = "swapChunks"
  <2>1. Waiting'[w] = Waiting[w]
    BY <1>1, <1>17 DEF Waiting, Requested
  <2>2. Waiting' = Waiting
    BY <1>1, <2>1, NoneWaits
  <2> QED
    BY <1>4, <2>2
<1> QED
  BY <1>2, <1>14, <1>15, <1>16, <1>17

(* clear_all leaves neither memory nor files.                              *)
LEMMA ClearStands ==
  ASSUME NEW w, WritesAlone(w), DInv(w), ClearAll(w)
  PROVE  Stands(w)' /\ Dense!Finish(w)
<1> USE NoneAssumption DEF DInv, Base, TypeOK
<1> w \in Procs
  BY DEF WritesAlone
<1>1. /\ pc[w] = "body" /\ op[w].kind = "clear" /\ pc'[w] = "idle" /\ loaded
      /\ UNCHANGED <<loaded, op, then>> /\ \A q \in Procs \ {w} : pc'[q] = pc[q]
  BY DEF ClearAll, Goto, WriterStands
<1>2. \A q \in Procs : pc'[q] = "idle" /\ ~Loads(q) /\ ~Loads(q)'
  BY <1>1 DEF Callers, Loads
<1>3. /\ chunks' = <<>> /\ (index' = None <=> index = None)
      /\ Held' = {} /\ Content' = {} /\ (dIndex' = None => MetaFile' = None)
      /\ (index' = None => dIndex' = None)
  <2>1. CASE chunks = <<>> /\ index \in {None, <<>>}
    <3>1. Held = {}
      <4>1. ToSet(<<>>) = {}
        BY DEF ToSet
      <4> QED
        BY <1>1, <1>2, <2>1, <4>1 DEF MemoryStands, MemoryIsHeld, Held
    <3>2. UNCHANGED <<index, chunks, disk>>
      BY <2>1 DEF ClearAll
    <3>3. Held' = Held /\ MetaFile' = MetaFile
      BY <3>2 DEF Held, MetaFile, disk
    <3>4. Content' = Content /\ Content = Held
      BY <3>2, <3>3, ContentIsHeld DEF Content, disk
    <3> QED
      BY <1>1, <2>1, <3>1, <3>2, <3>3, <3>4 DEF MemoryStands, disk
  <2>2. CASE ~(chunks = <<>> /\ index \in {None, <<>>})
    <3>1. <<>> \in Seq(Chunk)
      OBVIOUS
    <3>2. /\ index' = (IF index = None THEN None ELSE <<>>) /\ chunks' = <<>>
          /\ dIndex' = None /\ dMeta' = None /\ dAlt' = None
      BY <2>2 DEF ClearAll
    <3>3. MetaFile' = None
      BY <3>2 DEF MetaFile
    <3> QED
      BY <3>1, <3>2, <3>3 DEF Held, Content
  <2> QED
    BY <2>1, <2>2
<1>4. Callers(w)'
  BY <1>1, <1>2 DEF Callers, Points
<1>5. MemoryStands'
  BY <1>1, <1>2, <1>3 DEF MemoryStands, Loads
<1>6. MemoryIsHeld(w)'
  <2>1. ToSet(<<>>) = {}
    BY DEF ToSet
  <2> QED
    BY <1>3, <2>1 DEF MemoryIsHeld
<1>7. WriterStands(w)'
  BY <1>1 DEF WriterStands, Changing, Saving
<1>8. Waiting[w] = [kind |-> "clear", committed |-> FALSE]
  BY <1>1 DEF Waiting, Requested
<1>9. Waiting[w] \in Dense!Requests /\ Dense!Effect(Waiting[w], Content) = {} /\ ~Waiting[w].committed
  BY <1>8 DEF Dense!Requests, Dense!Effect
<1>10. Waiting'[w] = None
  BY <1>1 DEF Waiting
<1>11. Waiting' = [Waiting EXCEPT ![w] = None]
  BY <1>1, <1>10, OneWaits
<1>12. Dense!Finish(w)
  BY <1>3, <1>9, <1>11, NoRequestAssumption DEF Dense!Finish
<1> QED
  BY <1>4, <1>5, <1>6, <1>7, <1>12 DEF Stands

(* A restart finds what the disk holds, and no request.                    *)
LEMMA CrashStands ==
  ASSUME NEW w, WritesAlone(w), DInv(w), Crash
  PROVE  Stands(w)' /\ [Dense!Next]_Dense!vars /\ ReturnsInEffect
<1> USE NoneAssumption DEF DInv, Base, TypeOK
<1> w \in Procs
  BY DEF WritesAlone
<1>1. /\ loaded' = FALSE /\ index' = None /\ chunks' = <<>> /\ UNCHANGED disk
      /\ \A q \in Procs : pc'[q] = "idle" /\ op'[q] = [kind |-> "none"] /\ ~Loads(q)'
  BY DEF Crash, DropMemory, Loads
<1>2. Content' = Content /\ MetaFile' = MetaFile
  BY <1>1 DEF disk, MetaFile, Content
<1>3. Callers(w)'
  BY <1>1 DEF Callers, Points
<1>4. MemoryStands'
  BY <1>1, <1>2 DEF MemoryStands, disk
<1>5. MemoryIsHeld(w)' /\ WriterStands(w)'
  BY <1>1 DEF MemoryIsHeld, WriterStands, Changing, Saving
<1>6. Waiting' = [p \in Procs |-> None]
  BY <1>1 DEF Waiting
<1>7. Dense!Next
  BY <1>2, <1>6 DEF Dense!Next, Dense!Crash
<1> QED
  BY <1>3, <1>4, <1>5, <1>7 DEF Stands, ReturnsInEffect

(* A call asks the abstract store for the same.                            *)
LEMMA CallWaits ==
  ASSUME TypeOK, NEW p \in Procs, Call(p)
  PROVE  (Content' = Content /\ Waiting' = Waiting) \/ Dense!Call(p)
<1>1. Content' = Content
  BY DEF Call, CallAdd, CallDelete, CallOther, Started, disk, Content, MetaFile
<1>2. ASSUME NEW r, NEW l \in {"ensure", "delLock", "forceReload"}, Started(p, r, l)
      PROVE  /\ pc[p] = "idle" /\ op'[p] = r /\ pc'[p] # "idle" /\ pc'[p] # "reload" /\ then'[p] = "body"
             /\ Waiting[p] = None /\ Waiting' = [Waiting EXCEPT ![p] = Waiting'[p]]
  <2>1. /\ pc[p] = "idle" /\ op'[p] = r /\ pc'[p] = l /\ then'[p] = "body"
        /\ \A q \in Procs \ {p} : pc'[q] = pc[q] /\ op'[q] = op[q] /\ then'[q] = then[q]
    BY <1>2 DEF Started, Goto, TypeOK
  <2>2. Waiting[p] = None
    BY <2>1 DEF Waiting
  <2> QED
    BY <2>1, <2>2, OneWaits
<1>3. ASSUME Waiting[p] = None, Waiting' = [Waiting EXCEPT ![p] = Waiting'[p]],
             Waiting'[p] \in Dense!Requests, ~Waiting'[p].committed
      PROVE  Dense!Call(p)
  BY <1>1, <1>3 DEF Dense!Call
<1>4. CASE CallAdd(p)
  <2>1. PICK s \in Sources :
          Started(p, [kind |-> "add", chunk |-> [source_id |-> s, n |-> adds + 1]], "ensure")
    BY <1>4 DEF CallAdd
  <2> DEFINE c == [source_id |-> s, n |-> adds + 1]
  <2>2. c \in Chunk
    BY <1>4, BoundsAssumption DEF Chunk, CallAdd, TypeOK
  <2> HIDE DEF c
  <2>3. Started(p, [kind |-> "add", chunk |-> c], "ensure")
    BY <2>1 DEF c
  <2>4. Waiting'[p] = [kind |-> "add", chunk |-> c, committed |-> FALSE]
    <3>1. op'[p] = [kind |-> "add", chunk |-> c] /\ pc'[p] # "idle"
      BY <1>2, <2>3
    <3>2. op'[p].kind = "add" /\ op'[p].chunk = c
      BY <3>1
    <3>3. Waiting'[p] = Requested(p)'
      BY <3>1, <3>2 DEF Waiting
    <3> QED
      BY <3>2, <3>3 DEF Requested
  <2>5. Waiting'[p] \in Dense!Requests /\ ~Waiting'[p].committed
    BY <2>2, <2>4 DEF Dense!Requests
  <2> QED
    BY <1>2, <1>3, <2>3, <2>5
<1>5. CASE CallDelete(p)
  <2>1. PICK s \in Sources : Started(p, [kind |-> "delete", source |-> s], "delLock")
    BY <1>5 DEF CallDelete
  <2>2. Waiting'[p] = [kind |-> "delete", source |-> s, committed |-> FALSE]
    <3>1. op'[p] = [kind |-> "delete", source |-> s] /\ pc'[p] \notin {"idle", "reload"}
            /\ then'[p] = "body"
      BY <1>2, <2>1
    <3>2. op'[p].kind = "delete" /\ op'[p].source = s
      BY <3>1
    <3>3. Waiting'[p] = Requested(p)'
      BY <3>1, <3>2 DEF Waiting
    <3> QED
      BY <3>1, <3>2, <3>3 DEF Requested
  <2>3. Waiting'[p] \in Dense!Requests /\ ~Waiting'[p].committed
    BY <2>2 DEF Dense!Requests
  <2> QED
    BY <1>2, <1>3, <2>1, <2>3
<1>6. CASE CallOther(p)
  <2>1. PICK k \in {"clear", "info", "search", "reload"}, l \in {"ensure", "forceReload"} :
          Started(p, [kind |-> k], l)
    BY <1>6 DEF CallOther
  <2>2. CASE k = "clear"
    <3>1. Waiting'[p] = [kind |-> "clear", committed |-> FALSE]
      <4>1. op'[p] = [kind |-> "clear"] /\ pc'[p] # "idle"
        BY <1>2, <2>1, <2>2
      <4> QED
        BY <4>1 DEF Waiting, Requested
    <3>2. Waiting'[p] \in Dense!Requests /\ ~Waiting'[p].committed
      BY <3>1 DEF Dense!Requests
    <3> QED
      BY <1>2, <1>3, <2>1, <3>2
  <2>3. CASE k # "clear"
    <3>1. Waiting'[p] = None
      <4>1. op'[p] = [kind |-> k]
        BY <1>2, <2>1
      <4> QED
        BY <2>3, <4>1 DEF Waiting
    <3>2. Waiting' = Waiting
      BY <1>2, <2>1, <3>1 DEF Waiting
    <3> QED
      BY <1>1, <3>2
  <2> QED
    BY <2>2, <2>3
<1> QED
  BY <1>4, <1>5, <1>6 DEF Call

(* Every step keeps the invariant and is a step of the abstract store, or  *)
(* one that it does not see.                                               *)
LEMMA DenseStep ==
  ASSUME NEW w, WritesAlone(w), DInv(w), [Next]_vars
  PROVE  DInv(w)' /\ [Dense!Next]_Dense!vars /\ ReturnsInEffect
<1> w \in Procs /\ TypeOK
  BY DEF WritesAlone, DInv, Base
<1>1. Base'
  BY TypeStep, LockStep DEF DInv, Base
<1>2. SUFFICES Stands(w)' /\ [Dense!Next]_Dense!vars /\ ReturnsInEffect
  BY <1>1 DEF DInv, Stands
<1>3. CASE Crash
  BY <1>3, CrashStands
<1>4. CASE UNCHANGED vars
  <2>1. Stands(w)'
    BY <1>4 DEF vars, memory, disk, DInv, Stands, Callers, MemoryStands, MemoryIsHeld, WriterStands,
                Loads, Held, MetaFile, Target
  <2>2. Content' = Content /\ Waiting' = Waiting
    BY <1>4 DEF vars, disk, Content, Waiting, Requested, MetaFile
  <2> QED
    BY <2>1, <2>2, Stutters
<1>5. ASSUME NEW p \in Procs, Call(p) \/ Locking(p) \/ Running(p) \/ PersistError(p)
      PROVE  Stands(w)' /\ [Dense!Next]_Dense!vars /\ ReturnsInEffect
  <2>1. CASE p # w
    <3>1. CASE CallOther(p) /\ op'[p].kind = "search" /\ pc'[p] = "ensure" /\ then'[p] = "body"
      <4>1. Stands(w)'
        BY <3>1, CallStands DEF Call
      <4>2. Content' = Content
        BY <3>1 DEF CallOther, Started, disk, Content, MetaFile
      <4>3. pc[p] = "idle" /\ \A q \in Procs \ {p} : pc'[q] = pc[q] /\ op'[q] = op[q] /\ then'[q] = then[q]
        BY <3>1 DEF CallOther, Started, Goto, TypeOK
      <4>4. Waiting'[p] = Waiting[p]
        BY <3>1, <4>3 DEF Waiting
      <4> QED
        BY <4>1, <4>2, <4>3, <4>4, NoneWaits, Stutters
    <3>2. CASE op[p].kind = "search" /\ EnsureLoaded(p)
      BY <3>2, EnsureStands, Stutters
    <3>3. CASE op[p].kind = "search" /\ (LoadIndex(p) \/ LoadMeta(p))
      BY <3>3, LoadStands, Stutters, Acts
    <3>4. CASE op[p].kind = "search" /\ (SearchCheck(p) \/ SearchScan(p) \/ SearchLookup(p))
      BY <3>4, SearchStands, Stutters
    <3> QED
      BY <1>5, <2>1, <3>1, <3>2, <3>3, <3>4, SearchesOnly
  <2>2. CASE p = w
    <3>1. CASE Call(w)
      <4>1. Stands(w)'
        BY <3>1, CallStands
      <4>2. (Content' = Content /\ Waiting' = Waiting) \/ Dense!Call(w)
        BY <3>1, CallWaits
      <4> QED
        BY <4>1, <4>2, Stutters, Acts
    <3>2. CASE Locking(w)
      BY <3>2, EnsureStands, DropStands, Stutters DEF Locking
    <3>3. CASE LoadIndex(w) \/ LoadMeta(w)
      BY <3>3, LoadStands, Stutters, Acts
    <3>4. CASE AddVectors(w) \/ AddChunks(w) \/ WriteIndex(w) \/ ReplaceIndex(w) \/ WriteMeta(w)
                 \/ DelSwapChunks(w)
      BY <3>4, SaveStands, Stutters
    <3>5. CASE ReplaceMeta(w)
      BY <3>5, CommitStands, Acts
    <3>6. CASE DelRebuild(w)
      BY <3>6, RebuildStands, Stutters, Acts
    <3>7. CASE DelReload(w) \/ InfoCheck(w)
      BY <3>7, DropStands, Stutters
    <3>8. CASE ClearAll(w)
      BY <3>8, ClearStands, Acts
    <3>9. CASE SearchCheck(w) \/ SearchScan(w) \/ SearchLookup(w)
      <4>1. op[w].kind = "search"
        BY <3>9 DEF SearchCheck, SearchScan, SearchLookup, DInv, Callers, Points, Saving, TypeOK, Requests
      <4> QED
        BY <3>9, <4>1, SearchStands, Stutters
    <3>10. ~PersistError(w)
      BY DEF PersistError, WritesAlone, TypeOK
    <3> QED
      BY <1>5, <2>2, <3>1, <3>2, <3>3, <3>4, <3>5, <3>6, <3>7, <3>8, <3>9, <3>10 DEF Running
  <2> QED
    BY <2>1, <2>2
<1> QED
  BY <1>3, <1>4, <1>5 DEF Next

(* The first state is one of the abstract store's.                         *)
LEMMA DenseInit == Init => Dense!Init
<1> SUFFICES ASSUME Init PROVE Dense!Init
  OBVIOUS
<1>1. TypeOK
  BY BaseInit DEF Base
<1>2. Content \in SUBSET Chunk
  <2>1. MetaFile \in Seq(Chunk) \cup {None}
    BY <1>1 DEF TypeOK, File, MetaFile
  <2>2. MetaFile # None => \A i \in DOMAIN MetaFile : MetaFile[i] \in Chunk
    BY <2>1
  <2> QED
    BY <2>2 DEF Content, ToSet
<1>3. Waiting = [p \in Procs |-> None]
  BY DEF Init, Waiting
<1> QED
  BY <1>2, <1>3 DEF Dense!Init

(* With one request that writes, any number that search, a restart between *)
(* any two steps and no error of a file operation, the store implements    *)
(* DenseIndex: an add or a delete takes effect at one rename or not at     *)
(* all, it has when the request returns, and nothing else is ever lost.    *)
THEOREM StoreIsDense ==
  ASSUME NEW w, WritesAlone(w)
  PROVE  Spec => Refines
<1>1. Init => Dense!Init /\ DInv(w)
  BY DenseInit, DInvInit DEF WritesAlone
<1>2. DInv(w) /\ [Next]_vars => DInv(w)' /\ [Dense!Next]_Dense!vars /\ [ReturnsInEffect]_vars
  BY DenseStep
<1> QED
  BY <1>1, <1>2, PTL DEF Spec, Refines, Dense!Spec
=============================================================================
