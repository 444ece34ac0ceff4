--------------------------- MODULE MCSavedProofs ----------------------------
(***************************************************************************)
(* What is saved, for any number of requests, chunks, sources, questions   *)
(* and sessions and any bounds: the theorems of Bm25Index, and of what     *)
(* MCSaved checks of a tab (ChatClient).                                   *)
(***************************************************************************)
EXTENDS MCSaved, OrderLemmas, SequenceTheorems

-----------------------------------------------------------------------------
(* Bm25Index. *)

Requests == [kind : {"add"}, chunk : Chunk] \cup [kind : {"delete"}, source : Sources]
              \cup [kind : {"none", "search", "reload", "clear"}]

Adding == {"select", "insert", "commit"}
Deleting == {"delLock", "delInit", "delCount", "delRows", "delCommit", "vacuum",
             "close", "reinit"}

(* Which operation a request is in, and that the connection it entered its *)
(* block on is one.                                                        *)
Coherent ==
  \A p \in Procs :
    /\ pc[p] \in Adding => op[p].kind = "add" /\ mine[p] # None
    /\ pc[p] \in Deleting => op[p].kind = "delete"

(* _init_lock is held from its acquisition to the end of the block.        *)
Holding == {"init", "delInit", "delCount", "delRows", "delCommit", "vacuum", "close", "reinit"}
LockHeld == \A p \in Procs : pc[p] \in Holding => lock = p

(* The flag says whether there is a connection.                            *)
FlagTold == initialized <=> conn # None

Base == TypeOK /\ Coherent /\ LockHeld /\ FlagTold

(* A deletion of the source of c is in the open transaction.               *)
Doomed(c) == \E q \in Procs : pc[q] = "delCommit" /\ op[q].source = SourceOf[c]

(* Nothing is missing from the open transaction but what a delete took.    *)
Open == \A c \in Chunk : Doomed(c) \/ rows[c] <= view[c]

(* An acknowledged chunk is committed, and so it is to stay.               *)
Kept == \A c \in acked : rows[c] > 0

(* An add that can still commit will commit its chunk.                     *)
Inserted ==
  \A p \in Procs \ struck :
    pc[p] = "commit" /\ mine[p] = conn => view[op[p].chunk] > 0

(* A chunk about to be inserted is not there, for one add at most.         *)
Missing ==
  \A c \in Chunk \ raced :
    /\ rows[c] <= 1 /\ view[c] <= 1
    /\ \A p, q \in Procs :
         /\ pc[p] = "insert" /\ op[p].chunk = c
         => /\ view[c] = 0 /\ (rows[c] = 0 \/ Doomed(c))
            /\ pc[q] = "insert" /\ op[q].chunk = c => p = q

Data == Open /\ Kept /\ Inserted /\ Missing

IndexInv == Base /\ (~undone => Data)

-----------------------------------------------------------------------------
(* There is always an identity for a new connection that no request still  *)
(* refers to: there is one more of them than there are requests.           *)
LEMMA FreshConnection ==
  TypeOK => \E n \in Connections : \A q \in Procs : mine[q] # n
<1> SUFFICES ASSUME TypeOK, \A n \in Connections : \E q \in Procs : mine[q] = n
             PROVE  FALSE
  OBVIOUS
<1> DEFINE holder == [n \in Connections |-> CHOOSE q \in Procs : mine[q] = n]
<1>1. \A n \in Connections : holder[n] \in Procs /\ mine[holder[n]] = n
  OBVIOUS
<1>2. holder \in [Connections -> Procs]
  BY <1>1
<1>3. \A m, n \in Connections : holder[m] = holder[n] => m = n
  BY <1>1, Zenon
<1>4. holder \in Injection(Connections, Procs)
  <2> HIDE DEF holder
  <2> QED
    BY <1>2, <1>3, Fun_IsInj
<1>5. Cardinality(Connections) <= Cardinality(Procs)
  BY <1>4, FS_Injection, ProcsAssumption
<1>6. Cardinality(Procs) \in Nat
  BY FS_CardinalityType, ProcsAssumption
<1>7. Cardinality(Connections) = Cardinality(Procs) + 1
  BY <1>6, FS_Interval DEF Connections
<1> QED
  BY <1>5, <1>6, <1>7

(* None is not the identity of a connection.                               *)
LEMMA NoneIsNoConnection == None \notin Connections
<1>1. Cardinality(Procs) \in Nat
  BY FS_CardinalityType, ProcsAssumption
<1> QED
  BY <1>1, NoneAssumption DEF Connections

(* A connection just opened is one, and no block was entered on it.        *)
LEMMA OpensFresh ==
  ASSUME TypeOK, Opens
  PROVE  /\ conn' \in Connections /\ conn' # None
         /\ \A q \in Procs : mine[q] # conn'
<1>1. conn' = CHOOSE n \in Connections : \A q \in Procs : mine[q] # n
  BY DEF Opens
<1>2. conn' \in Connections /\ \A q \in Procs : mine[q] # conn'
  BY <1>1, FreshConnection, Zenon
<1> QED
  BY <1>2, NoneIsNoConnection

-----------------------------------------------------------------------------
(* The initial states satisfy the inductive invariant.                     *)
LEMMA IndexInit == Init => IndexInv
<1> SUFFICES ASSUME Init PROVE IndexInv
  OBVIOUS
<1>1. PICK stored \in SUBSET Chunk : rows = [c \in Chunk |-> IF c \in stored THEN 1 ELSE 0]
  BY DEF Init
<1>2. rows \in [Chunk -> Nat] /\ view = rows /\ \A c \in Chunk : rows[c] <= 1 /\ rows[c] \in Nat
  BY <1>1 DEF Init
<1>3. TypeOK
  <2>1. undone \in BOOLEAN /\ initialized \in BOOLEAN /\ inTx \in BOOLEAN
    BY Zenon DEF Init
  <2>2. acked \subseteq Chunk /\ struck \subseteq Procs /\ raced \subseteq Chunk
    BY DEF Init
  <2>3. pc \in [Procs -> PCs] /\ op \in [Procs -> Requests]
        /\ mine \in [Procs -> Connections \cup {None}]
    BY DEF Init, PCs, Requests
  <2>4. lock \in Procs \cup {None} /\ conn \in Connections \cup {None}
    BY DEF Init
  <2>5. crashes \in 0..MaxCrashes /\ faults \in 0..MaxFaults
    BY BoundsAssumption DEF Init
  <2> QED
    BY <1>2, <2>1, <2>2, <2>3, <2>4, <2>5 DEF TypeOK, Requests
<1>4. Coherent /\ LockHeld /\ FlagTold
  BY DEF Init, Coherent, LockHeld, FlagTold, Adding, Deleting, Holding
<1>5. Open /\ Inserted /\ Missing
  BY <1>2 DEF Init, Open, Inserted, Missing
<1>6. Kept
  BY DEF Init, Kept
<1> QED
  BY <1>3, <1>4, <1>5, <1>6 DEF IndexInv, Base, Data

-----------------------------------------------------------------------------
(* A request keeps what it asked for in the form of its operation.         *)
LEMMA ChunkOfAdd == TypeOK => \A p \in Procs :
                                /\ op[p].kind = "add" => op[p].chunk \in Chunk
                                /\ op[p].kind = "delete" => op[p].source \in Sources
  BY DEF TypeOK

(* Every step keeps the types.                                             *)
LEMMA TypeStep == TypeOK /\ Coherent /\ [Next]_vars => TypeOK'
<1> SUFFICES ASSUME TypeOK, Coherent, [Next]_vars PROVE TypeOK'
  OBVIOUS
<1> USE DEF PCs, Goto, Ends, Release, connection, table, bounds, history
<1>1. ASSUME NEW p \in Procs, NEW r \in Requests, NEW l \in PCs, Called(p, r, l) PROVE TypeOK'
  BY <1>1 DEF TypeOK, Called, Requests
<1>2. ASSUME NEW p \in Procs, Call(p) PROVE TypeOK'
  <2>1. ASSUME NEW c \in Chunk, Called(p, [kind |-> "add", chunk |-> c], "ensure") PROVE TypeOK'
    <3>1. [kind |-> "add", chunk |-> c] \in Requests
      BY DEF Requests
    <3> QED
      BY <1>1, <2>1, <3>1
  <2>2. ASSUME NEW s \in Sources, Called(p, [kind |-> "delete", source |-> s], "delLock")
        PROVE  TypeOK'
    <3>1. [kind |-> "delete", source |-> s] \in Requests
      BY DEF Requests
    <3> QED
      BY <1>1, <2>2, <3>1
  <2>3. ASSUME NEW k \in {"search", "reload", "clear"}, NEW l \in {"ensure", "reload"},
               Called(p, [kind |-> k], l)
        PROVE  TypeOK'
    <3>1. [kind |-> k] \in Requests
      BY DEF Requests
    <3> QED
      BY <1>1, <2>3, <3>1
  <2> QED
    BY <1>2, <2>1, <2>2, <2>3 DEF Call
<1>3. ASSUME Opens PROVE conn' \in Connections /\ view' \in [Chunk -> Nat] /\ inTx' \in BOOLEAN
  <2>1. inTx' \in BOOLEAN
    BY <1>3, Zenon DEF Opens
  <2> QED
    BY <1>3, <2>1, OpensFresh DEF Opens, TypeOK
<1>4. ASSUME NEW p \in Procs, Locking(p) PROVE TypeOK'
  <2>1. CASE EnsureInitialized(p)
    BY <2>1 DEF EnsureInitialized, TypeOK
  <2>2. CASE DelLock(p)
    BY <2>2 DEF DelLock, TypeOK
  <2>3. CASE ForceReload(p)
    <3>1. initialized' \in BOOLEAN /\ inTx' \in BOOLEAN
      BY <2>3, Zenon DEF ForceReload, Closes
    <3> QED
      BY <2>3, <3>1 DEF ForceReload, Closes, TypeOK
  <2> QED
    BY <1>4, <2>1, <2>2, <2>3 DEF Locking
<1>5. ASSUME NEW p \in Procs, InitSync(p) \/ DelInit(p) \/ DelReinit(p) PROVE TypeOK'
  <2>1. CASE InitSync(p)
    <3>1. initialized' \in BOOLEAN
      BY <2>1, Zenon DEF InitSync
    <3> QED
      BY <1>3, <2>1, <3>1 DEF InitSync, Opens, TypeOK
  <2>2. CASE DelInit(p)
    <3>1. initialized' \in BOOLEAN
      BY <2>2, Zenon DEF DelInit
    <3> QED
      BY <1>3, <2>2, <3>1 DEF DelInit, Opens, TypeOK
  <2>3. CASE DelReinit(p)
    <3>1. initialized' \in BOOLEAN
      BY <2>3, Zenon DEF DelReinit
    <3> QED
      BY <1>3, <2>3, <3>1 DEF DelReinit, Opens, TypeOK
  <2> QED
    BY <1>5, <2>1, <2>2, <2>3
<1>6. ASSUME NEW p \in Procs, RollsBack(p)
      PROVE  /\ pc' \in [Procs -> PCs] /\ mine' \in [Procs -> Connections \cup {None}]
             /\ rows' \in [Chunk -> Nat] /\ view' \in [Chunk -> Nat] /\ inTx' \in BOOLEAN
             /\ undone' \in BOOLEAN /\ struck' \subseteq Procs
             /\ acked' \subseteq Chunk /\ raced' \subseteq Chunk
  <2>1. inTx' \in BOOLEAN /\ undone' \in BOOLEAN
    BY <1>6, Zenon DEF RollsBack, TypeOK
  <2> QED
    BY <1>6, <2>1 DEF RollsBack, TypeOK
<1>7. ASSUME NEW p \in Procs, AddBegin(p) \/ AddSelect(p) PROVE TypeOK'
  <2>1. CASE AddBegin(p)
    BY <2>1 DEF AddBegin, TypeOK
  <2>2. CASE AddSelect(p)
    <3>1. CASE RollsBack(p)
      BY <1>6, <2>2, <3>1 DEF AddSelect, TypeOK
    <3>2. CASE ~RollsBack(p)
      <4>1. op[p].chunk \in Chunk
        BY <2>2, ChunkOfAdd DEF AddSelect, Coherent, Adding
      <4>2. raced' \subseteq Chunk
        BY <2>2, <3>2, <4>1 DEF AddSelect, TypeOK
      <4> QED
        BY <2>2, <3>2, <4>2 DEF AddSelect, TypeOK
    <3> QED
      BY <3>1, <3>2
  <2> QED
    BY <1>7, <2>1, <2>2
<1>8. ASSUME NEW p \in Procs, AddInsert(p) PROVE TypeOK'
  <2>1. CASE conn = None
    BY <1>6, <1>8, <2>1 DEF AddInsert, TypeOK
  <2>2. CASE conn # None
    <3>1. inTx' \in BOOLEAN
      BY <1>8, <2>2, Zenon DEF AddInsert
    <3>2. view' \in [Chunk -> Nat]
      BY <1>8, <2>2, ChunkOfAdd DEF AddInsert, TypeOK, Coherent, Adding
    <3> QED
      BY <1>8, <2>2, <3>1, <3>2 DEF AddInsert, TypeOK
  <2> QED
    BY <2>1, <2>2
<1>9. ASSUME NEW p \in Procs, AddCommit(p) PROVE TypeOK'
  <2>1. op[p].chunk \in Chunk
    BY <1>9, ChunkOfAdd DEF AddCommit, Coherent, Adding
  <2>2. acked' \subseteq Chunk
    BY <1>9, <2>1 DEF AddCommit, TypeOK
  <2>3. inTx' \in BOOLEAN /\ undone' \in BOOLEAN
    BY <1>9, Zenon DEF AddCommit, TypeOK
  <2> QED
    BY <1>9, <2>2, <2>3 DEF AddCommit, TypeOK
<1>10. ASSUME NEW p \in Procs, AddFault(p) PROVE TypeOK'
  <2>1. faults' \in 0..MaxFaults
    BY <1>10, BoundsAssumption DEF AddFault, TypeOK
  <2> QED
    BY <1>6, <1>10, <2>1 DEF AddFault, TypeOK
<1>11. ASSUME NEW p \in Procs, Search(p) \/ DelCount(p) \/ Vacuum(p) PROVE TypeOK'
  <2>1. CASE Search(p)
    BY <2>1 DEF Search, TypeOK
  <2>2. CASE DelCount(p)
    BY <2>2 DEF DelCount, TypeOK
  <2>3. CASE Vacuum(p)
    BY <2>3 DEF Vacuum, TypeOK
  <2> QED
    BY <1>11, <2>1, <2>2, <2>3
<1>12. ASSUME NEW p \in Procs, DelRows(p) PROVE TypeOK'
  <2>1. inTx' \in BOOLEAN /\ undone' \in BOOLEAN
    BY <1>12, Zenon DEF DelRows, TypeOK
  <2>2. struck' \subseteq Procs
    BY <1>12 DEF DelRows, TypeOK
  <2> QED
    BY <1>12, <2>1, <2>2 DEF DelRows, TypeOK, Of
<1>13. ASSUME NEW p \in Procs, DelCommit(p) PROVE TypeOK'
  <2>1. inTx' \in BOOLEAN /\ undone' \in BOOLEAN
    BY <1>13, Zenon DEF DelCommit, TypeOK
  <2> QED
    BY <1>13, <2>1 DEF DelCommit, TypeOK
<1>14. ASSUME NEW p \in Procs, DelClose(p) PROVE TypeOK'
  <2>1. initialized' \in BOOLEAN /\ inTx' \in BOOLEAN
    BY <1>14, Zenon DEF DelClose, Closes
  <2> QED
    BY <1>14, <2>1 DEF DelClose, Closes, TypeOK
<1>15. ASSUME NEW p \in Procs, DelFault(p) PROVE TypeOK'
  <2>1. inTx' \in BOOLEAN /\ undone' \in BOOLEAN
    BY <1>15, Zenon DEF DelFault
  <2>2. faults' \in 0..MaxFaults
    BY <1>15, BoundsAssumption DEF DelFault, TypeOK
  <2> QED
    BY <1>15, <2>1, <2>2 DEF DelFault, TypeOK
<1>16. ASSUME NEW p \in Procs, ClearAll(p) PROVE TypeOK'
  <2>1. initialized' \in BOOLEAN /\ inTx' \in BOOLEAN
    BY <1>16, Zenon DEF ClearAll
  <2> QED
    BY <1>16, <2>1 DEF ClearAll, TypeOK, NoRows
<1>17. CASE Crash
  <2>1. initialized' \in BOOLEAN /\ inTx' \in BOOLEAN
    BY <1>17, Zenon DEF Crash, Closes
  <2>2. crashes' \in 0..MaxCrashes
    BY <1>17, BoundsAssumption DEF Crash, TypeOK
  <2>3. op' \in [Procs -> Requests]
    BY <1>17 DEF Crash, Requests
  <2> QED
    BY <1>17, <2>1, <2>2, <2>3 DEF Crash, Closes, TypeOK, Requests
<1>18. CASE UNCHANGED vars
  BY <1>18 DEF TypeOK, vars
<1> QED
  BY <1>2, <1>4, <1>5, <1>7, <1>8, <1>9, <1>10, <1>11, <1>12, <1>13, <1>14, <1>15, <1>16,
     <1>17, <1>18 DEF Next, Running

(* Every step keeps the coherence of program points and operations, the    *)
(* lock with its holder and the flag with the connection.                  *)
LEMMA LockStep == Base /\ [Next]_vars => Coherent' /\ LockHeld' /\ FlagTold'
<1> SUFFICES ASSUME Base, [Next]_vars PROVE Coherent' /\ LockHeld' /\ FlagTold'
  OBVIOUS
<1> USE DEF Base, TypeOK, Coherent, LockHeld, FlagTold, Adding, Deleting, Holding, Goto, Ends,
            connection
<1>1. ASSUME NEW p \in Procs, NEW r, NEW l \in {"ensure", "delLock", "reload"},
             Called(p, r, l), l = "delLock" => r.kind = "delete"
      PROVE  Coherent' /\ LockHeld' /\ FlagTold'
  BY <1>1 DEF Called
<1>2. ASSUME NEW p \in Procs, Call(p) PROVE Coherent' /\ LockHeld' /\ FlagTold'
  <2>1. ASSUME NEW c \in Chunk, Called(p, [kind |-> "add", chunk |-> c], "ensure")
        PROVE  Coherent' /\ LockHeld' /\ FlagTold'
    BY <1>1, <2>1
  <2>2. ASSUME NEW s \in Sources, Called(p, [kind |-> "delete", source |-> s], "delLock")
        PROVE  Coherent' /\ LockHeld' /\ FlagTold'
    BY <1>1, <2>2
  <2>3. ASSUME NEW k, NEW l \in {"ensure", "reload"}, Called(p, [kind |-> k], l)
        PROVE  Coherent' /\ LockHeld' /\ FlagTold'
    BY <1>1, <2>3
  <2> QED
    BY <1>2, <2>1, <2>2, <2>3 DEF Call
<1>3. ASSUME NEW p \in Procs, EnsureInitialized(p) PROVE Coherent' /\ LockHeld' /\ FlagTold'
  BY <1>3, NoneAssumption DEF EnsureInitialized
<1>4. ASSUME NEW p \in Procs, DelLock(p) PROVE Coherent' /\ LockHeld' /\ FlagTold'
  BY <1>4, NoneAssumption DEF DelLock
<1>5. ASSUME NEW p \in Procs, ForceReload(p) PROVE Coherent' /\ LockHeld' /\ FlagTold'
  BY <1>5 DEF ForceReload, Closes
<1>6. ASSUME NEW p \in Procs, InitSync(p) PROVE Coherent' /\ LockHeld' /\ FlagTold'
  BY <1>6, OpensFresh DEF InitSync
<1>7. ASSUME NEW p \in Procs, DelInit(p) PROVE Coherent' /\ LockHeld' /\ FlagTold'
  BY <1>7, OpensFresh DEF DelInit
<1>8. ASSUME NEW p \in Procs, DelReinit(p) PROVE Coherent' /\ LockHeld' /\ FlagTold'
  BY <1>8, OpensFresh DEF DelReinit, Release
<1>9. ASSUME NEW p \in Procs, AddBegin(p) PROVE Coherent' /\ LockHeld' /\ FlagTold'
  BY <1>9 DEF AddBegin
<1>10. ASSUME NEW p \in Procs, AddSelect(p) PROVE Coherent' /\ LockHeld' /\ FlagTold'
  BY <1>10 DEF AddSelect, RollsBack
<1>11. ASSUME NEW p \in Procs, AddInsert(p) PROVE Coherent' /\ LockHeld' /\ FlagTold'
  BY <1>11 DEF AddInsert, RollsBack
<1>12. ASSUME NEW p \in Procs, AddCommit(p) PROVE Coherent' /\ LockHeld' /\ FlagTold'
  BY <1>12 DEF AddCommit
<1>13. ASSUME NEW p \in Procs, AddFault(p) PROVE Coherent' /\ LockHeld' /\ FlagTold'
  BY <1>13 DEF AddFault, RollsBack
<1>14. ASSUME NEW p \in Procs, Search(p) PROVE Coherent' /\ LockHeld' /\ FlagTold'
  BY <1>14 DEF Search
<1>15. ASSUME NEW p \in Procs, DelCount(p) PROVE Coherent' /\ LockHeld' /\ FlagTold'
  BY <1>15 DEF DelCount
<1>16. ASSUME NEW p \in Procs, DelRows(p) PROVE Coherent' /\ LockHeld' /\ FlagTold'
  BY <1>16 DEF DelRows
<1>17. ASSUME NEW p \in Procs, DelCommit(p) PROVE Coherent' /\ LockHeld' /\ FlagTold'
  BY <1>17 DEF DelCommit
<1>18. ASSUME NEW p \in Procs, Vacuum(p) PROVE Coherent' /\ LockHeld' /\ FlagTold'
  BY <1>18 DEF Vacuum, Release
<1>19. ASSUME NEW p \in Procs, DelClose(p) PROVE Coherent' /\ LockHeld' /\ FlagTold'
  BY <1>19 DEF DelClose, Closes
<1>20. ASSUME NEW p \in Procs, DelFault(p) PROVE Coherent' /\ LockHeld' /\ FlagTold'
  BY <1>20 DEF DelFault, Release
<1>21. ASSUME NEW p \in Procs, ClearAll(p) PROVE Coherent' /\ LockHeld' /\ FlagTold'
  BY <1>21 DEF ClearAll
<1>22. CASE Crash
  BY <1>22 DEF Crash, Closes
<1>23. CASE UNCHANGED vars
  BY <1>23 DEF vars
<1> QED
  BY <1>2, <1>3, <1>4, <1>5, <1>6, <1>7, <1>8, <1>9, <1>10, <1>11, <1>12, <1>13, <1>14, <1>15,
     <1>16, <1>17, <1>18, <1>19, <1>20, <1>21, <1>22, <1>23 DEF Next, Locking, Running

-----------------------------------------------------------------------------
(* The requests whose place in the shared transaction the invariant is     *)
(* about.                                                                  *)
Sharing == {"insert", "commit", "delCommit"}

(* The rows: the ways a step of request p can go.  It moves between places *)
(* that share nothing, and the connection stays or is one nobody entered;  *)
LEMMA Apart ==
  ASSUME NEW p \in Procs, NEW l \in PCs \ Sharing, TypeOK, Coherent, Data,
         pc[p] \notin Sharing, Goto(p, l),
         \A q \in Procs \ {p} : op'[q] = op[q] /\ mine'[q] = mine[q],
         conn' = conn, rows' = rows, view' = view,
         acked' = acked, struck' = struck, raced' = raced
  PROVE  Data'
<1> USE DEF TypeOK, Goto, Data, Sharing
<1>1. \A q \in Procs : pc'[q] \in Sharing => q # p /\ pc'[q] = pc[q]
  OBVIOUS
<1>2. \A q \in Procs : pc[q] \in Sharing => q # p /\ pc'[q] = pc[q]
  OBVIOUS
<1>3. \A c \in Chunk : Doomed(c) <=> Doomed(c)'
  BY <1>1, <1>2 DEF Doomed
<1>4. Open' /\ Kept'
  BY <1>3 DEF Open, Kept
<1>5. Inserted'
  BY <1>1 DEF Inserted
<1>6. Missing'
  BY <1>1, <1>3 DEF Missing
<1> QED
  BY <1>4, <1>5, <1>6

(* or nothing uncommitted is left in view, no deletion is in the           *)
(* transaction, and every add that is still to commit did not enter its    *)
(* block on the connection there is now;                                   *)
LEMMA Refreshed ==
  ASSUME NEW p \in Procs, NEW l \in PCs \ Sharing, TypeOK, Coherent, Data, Goto(p, l),
         \A q \in Procs : ~(pc[q] = "delCommit"),
         \A q \in Procs \ {p} : pc[q] = "commit" => mine'[q] # conn',
         op' = op, rows' = rows, view' = rows, acked' = acked, raced' = raced
  PROVE  Data'
<1> USE DEF TypeOK, Goto, Data, Sharing
<1>1. \A q \in Procs : pc'[q] \in Sharing => q # p /\ pc'[q] = pc[q]
  OBVIOUS
<1>2. Open' /\ Kept'
  BY DEF Open, Kept
<1>3. Inserted'
  BY <1>1 DEF Inserted
<1>4. \A c \in Chunk : ~Doomed(c)
  BY DEF Doomed
<1>5. Missing'
  BY <1>1, <1>4 DEF Missing
<1> QED
  BY <1>2, <1>3, <1>5

(* or everything uncommitted is rolled back and it was alone in it;        *)
LEMMA Alone ==
  ASSUME NEW p \in Procs, TypeOK, Coherent, Data, Goto(p, "idle"), ~SharesTx(p),
         rows' = rows, view' = rows, acked' = acked, raced' = raced
  PROVE  Data'
<1> USE DEF TypeOK, Goto, Data, SharesTx
<1>1. \A q \in Procs : pc'[q] \notin Sharing
  BY DEF Sharing
<1>2. Open' /\ Kept'
  BY DEF Open, Kept
<1>3. Inserted' /\ Missing'
  BY <1>1 DEF Inserted, Missing, Sharing
<1> QED
  BY <1>2, <1>3

(* or an add leaves its block and what it inserted stays in view.          *)
LEMMA Abandoned ==
  ASSUME NEW p \in Procs, TypeOK, Coherent, Data, pc[p] \in Adding, Goto(p, "idle"),
         mine' = [mine EXCEPT ![p] = None], conn' = conn, op' = op, rows' = rows, view' = view,
         acked' = acked, struck' = struck \ {p}, raced' = raced
  PROVE  Data'
<1> USE DEF TypeOK, Goto, Data, Adding
<1>1. \A q \in Procs : pc'[q] # "idle" => q # p /\ pc'[q] = pc[q]
  OBVIOUS
<1>2. \A q \in Procs : pc[q] = "delCommit" => q # p /\ pc'[q] = pc[q]
  OBVIOUS
<1>3. \A c \in Chunk : Doomed(c) <=> Doomed(c)'
  BY <1>1, <1>2 DEF Doomed
<1>4. Open' /\ Kept'
  BY <1>3 DEF Open, Kept
<1>5. Inserted'
  BY <1>1 DEF Inserted
<1>6. Missing'
  BY <1>1, <1>3 DEF Missing
<1> QED
  BY <1>4, <1>5, <1>6

(* An exception rolls back, on the connection the block was entered on.    *)
LEMMA RolledBack ==
  ASSUME NEW p \in Procs, TypeOK, Coherent, Data, pc[p] \in Adding, RollsBack(p), ~undone',
         conn' = conn, op' = op
  PROVE  Data'
<1>1. CASE mine[p] = conn
  <2>1. undone' = (undone \/ SharesTx(p))
    BY <1>1 DEF RollsBack
  <2>2. ~SharesTx(p)
    BY <2>1
  <2>3. Goto(p, "idle") /\ rows' = rows /\ view' = rows /\ acked' = acked /\ raced' = raced
    BY <1>1 DEF RollsBack, Ends
  <2> QED
    BY <2>2, <2>3, Alone
<1>2. CASE mine[p] # conn
  <2>1. /\ Goto(p, "idle") /\ mine' = [mine EXCEPT ![p] = None] /\ rows' = rows /\ view' = view
        /\ acked' = acked /\ struck' = struck \ {p} /\ raced' = raced
    BY <1>2 DEF RollsBack, Ends
  <2> QED
    BY <2>1, Abandoned
<1> QED
  BY <1>1, <1>2

(* A step after which no rollback took another's rows keeps the rows in    *)
(* order.                                                                  *)
LEMMA DataStep == IndexInv /\ [Next]_vars /\ ~undone' => Data'
<1> SUFFICES ASSUME IndexInv, [Next]_vars, ~undone' PROVE Data'
  OBVIOUS
<1> USE DEF IndexInv, Base
<1>a. undone => undone'
  <2>1. ASSUME NEW p \in Procs, Call(p) PROVE undone' = undone
    BY <2>1, Zenon DEF Call, Called, history
  <2>2. ASSUME NEW p \in Procs, Locking(p) PROVE undone' = undone
    BY <2>2, Zenon DEF Locking, EnsureInitialized, DelLock, ForceReload, history
  <2>3. ASSUME NEW p \in Procs, RollsBack(p), undone PROVE undone'
    BY <2>3, Zenon DEF RollsBack
  <2>4. ASSUME NEW p \in Procs, Running(p), undone PROVE undone'
    BY <2>3, <2>4, Zenon DEF Running, InitSync, AddBegin, AddSelect, AddInsert, AddCommit, Search,
       DelInit, DelCount, DelRows, DelCommit, Vacuum, DelClose, DelReinit, ClearAll, history
  <2>5. ASSUME NEW p \in Procs, AddFault(p) \/ DelFault(p), undone PROVE undone'
    BY <2>3, <2>5, Zenon DEF AddFault, DelFault
  <2>6. ASSUME Crash PROVE undone' = undone
    BY <2>6, Zenon DEF Crash
  <2>7. UNCHANGED vars => undone' = undone
    BY DEF vars, history
  <2> QED
    BY <2>1, <2>2, <2>4, <2>5, <2>6, <2>7 DEF Next
<1>b. Data /\ TypeOK /\ Coherent
  BY <1>a
\* Whoever has the lock is the only one who can be deleting.
<1>c. ASSUME NEW p \in Procs, pc[p] \in Holding \ {"delCommit"} \/ lock = None
      PROVE  \A q \in Procs : pc[q] # "delCommit"
  BY <1>c, NoneAssumption DEF LockHeld, Holding
\* A new connection, or none: no block was entered on it.
<1>d. ASSUME NEW p \in Procs, NEW l \in PCs \ Sharing, Goto(p, l), op' = op, rows' = rows,
             view' = rows, acked' = acked, raced' = raced,
             pc[p] \in Holding \ {"delCommit"} \/ lock = None,
             \A q \in Procs \ {p} : mine'[q] = mine[q], Opens \/ conn' = None
      PROVE  Data'
  <2>1. \A q \in Procs \ {p} : pc[q] = "commit" => mine'[q] # conn'
    BY <1>b, <1>d, OpensFresh DEF Coherent, Adding
  <2> QED
    BY <1>b, <1>c, <1>d, <2>1, Refreshed
<1>1. ASSUME NEW p \in Procs, Call(p) PROVE Data'
  <2>1. \E r : \E l \in {"ensure", "delLock", "reload"} : Called(p, r, l)
    BY <1>1 DEF Call
  <2>2. PICK r : \E l \in {"ensure", "delLock", "reload"} : Called(p, r, l)
    BY <2>1
  <2>3. PICK l \in {"ensure", "delLock", "reload"} : Called(p, r, l)
    BY <2>2
  <2>4. l \in PCs \ Sharing /\ pc[p] \notin Sharing /\ Goto(p, l)
    BY <2>3 DEF Called, PCs, Sharing
  <2>5. /\ \A q \in Procs \ {p} : op'[q] = op[q] /\ mine'[q] = mine[q]
        /\ conn' = conn /\ rows' = rows /\ view' = view
        /\ acked' = acked /\ struck' = struck /\ raced' = raced
    BY <1>b, <2>3 DEF Called, connection, table, history, TypeOK
  <2> QED
    BY <1>b, <2>4, <2>5, Apart
<1>2. ASSUME NEW p \in Procs, EnsureInitialized(p) \/ DelLock(p) PROVE Data'
  <2>1. PICK l \in {"body", "init", "delCount", "delInit"} : Goto(p, l)
    BY <1>2 DEF EnsureInitialized, DelLock
  <2>2. l \in PCs \ Sharing /\ pc[p] \notin Sharing /\ op' = op /\ mine' = mine
        /\ conn' = conn /\ rows' = rows /\ view' = view
        /\ acked' = acked /\ struck' = struck /\ raced' = raced
    BY <1>2, <2>1
       DEF EnsureInitialized, DelLock, PCs, Sharing, connection, table, history
  <2> QED
    BY <1>b, <2>1, <2>2, Apart
<1>3. ASSUME NEW p \in Procs, ForceReload(p) PROVE Data'
  <2>1. Goto(p, "idle") /\ mine' = [mine EXCEPT ![p] = None] /\ conn' = None
        /\ op' = op /\ rows' = rows /\ view' = rows /\ acked' = acked /\ raced' = raced
        /\ lock = None
    BY <1>3 DEF ForceReload, Closes, Ends, history
  <2> QED
    BY <1>b, <1>d, <2>1 DEF PCs, Sharing, TypeOK
<1>4. ASSUME NEW p \in Procs, InitSync(p) \/ DelInit(p) PROVE Data'
  <2>1. PICK l \in {"body", "delCount"} : Goto(p, l)
    BY <1>4 DEF InitSync, DelInit
  <2>2. /\ pc[p] \in {"init", "delInit"} /\ mine' = mine /\ Opens
        /\ op' = op /\ rows' = rows /\ view' = rows /\ acked' = acked /\ raced' = raced
    BY <1>4 DEF InitSync, DelInit, Opens, history
  <2> QED
    BY <1>b, <1>d, <2>1, <2>2 DEF PCs, Sharing, Holding
<1>5. ASSUME NEW p \in Procs, DelReinit(p) PROVE Data'
  <2>1. /\ pc[p] = "reinit" /\ Goto(p, "idle") /\ mine' = [mine EXCEPT ![p] = None] /\ Opens
        /\ op' = op /\ rows' = rows /\ view' = rows /\ acked' = acked /\ raced' = raced
    BY <1>5 DEF DelReinit, Opens, Ends, history
  <2> QED
    BY <1>b, <1>d, <2>1 DEF PCs, Sharing, Holding, TypeOK
<1>6. ASSUME NEW p \in Procs, DelClose(p) PROVE Data'
  <2>1. /\ pc[p] = "close" /\ Goto(p, "reinit") /\ mine' = mine /\ conn' = None
        /\ op' = op /\ rows' = rows /\ view' = rows /\ acked' = acked /\ raced' = raced
    BY <1>6 DEF DelClose, Closes, history
  <2> QED
    BY <1>b, <1>d, <2>1 DEF PCs, Sharing, Holding
<1>7. ASSUME NEW p \in Procs, AddBegin(p) \/ Search(p) \/ DelCount(p) PROVE Data'
  <2>1. PICK l \in {"idle", "select", "delRows", "close"} : Goto(p, l)
    BY <1>7 DEF AddBegin, Search, DelCount, Ends
  <2>2. \A q \in Procs \ {p} : mine'[q] = mine[q]
    BY <1>7, <1>b DEF AddBegin, Search, DelCount, Ends, TypeOK
  <2>3. l \in PCs \ Sharing /\ pc[p] \notin Sharing /\ op' = op
        /\ conn' = conn /\ rows' = rows /\ view' = view
        /\ acked' = acked /\ struck' = struck /\ raced' = raced
    BY <1>7, <2>1 DEF AddBegin, Search, DelCount, PCs, Sharing, connection, table, history
  <2> QED
    BY <1>b, <2>1, <2>2, <2>3, Apart
<1>8. ASSUME NEW p \in Procs, Vacuum(p) PROVE Data'
  <2>1. PICK l \in {"idle", "close"} : Goto(p, l)
    BY <1>8 DEF Vacuum, Ends
  <2>2. \A q \in Procs \ {p} : mine'[q] = mine[q]
    BY <1>8, <1>b DEF Vacuum, Ends, TypeOK
  <2>3. l \in PCs \ Sharing /\ pc[p] \notin Sharing /\ op' = op
        /\ conn' = conn /\ rows' = rows /\ view' = view
        /\ acked' = acked /\ struck' = struck /\ raced' = raced
    BY <1>8, <2>1 DEF Vacuum, PCs, Sharing, connection, table, history
  <2> QED
    BY <1>b, <2>1, <2>2, <2>3, Apart
<1>9. ASSUME NEW p \in Procs, AddSelect(p) PROVE Data'
  <2> DEFINE k == op[p].chunk
  <2>1. pc[p] = "select" /\ conn' = conn /\ op' = op /\ k \in Chunk
    BY <1>9, ChunkOfAdd DEF AddSelect, connection, Coherent, Adding
  <2>2. CASE RollsBack(p)
    BY <1>b, <2>1, <2>2, RolledBack DEF Adding
  <2>3. CASE /\ view[k] > 0 /\ Goto(p, "commit") /\ UNCHANGED <<table, mine, history>>
    <3>1. \A q \in Procs : pc'[q] \in Sharing => q = p \/ pc'[q] = pc[q]
      BY <1>b, <2>3 DEF Goto, TypeOK
    <3>2. pc'[p] = "commit" /\ \A q \in Procs \ {p} : pc'[q] = pc[q]
      BY <1>b, <2>3 DEF Goto, TypeOK
    <3>3. \A c \in Chunk : Doomed(c) <=> Doomed(c)'
      BY <2>1, <3>2 DEF Doomed
    <3>4. Open' /\ Kept'
      BY <1>b, <2>3, <3>3 DEF Data, Open, Kept, table, history
    <3>5. Inserted'
      BY <1>b, <2>1, <2>3, <3>2 DEF Data, Inserted, table, history
    <3>6. Missing'
      BY <1>b, <2>1, <2>3, <3>2, <3>3 DEF Data, Missing, table, history
    <3> QED
      BY <3>4, <3>5, <3>6 DEF Data
  <2>4. CASE /\ view[k] = 0 /\ Goto(p, "insert")
             /\ raced' = raced \cup {d \in {k} : \E q \in Procs : pc[q] = "insert" /\ op[q].chunk = d}
             /\ UNCHANGED <<table, mine, acked, struck, undone>>
    <3>1. pc'[p] = "insert" /\ \A q \in Procs \ {p} : pc'[q] = pc[q]
      BY <1>b, <2>4 DEF Goto, TypeOK
    <3>2. \A c \in Chunk : Doomed(c) <=> Doomed(c)'
      BY <2>1, <3>1 DEF Doomed
    <3>3. Open' /\ Kept'
      BY <1>b, <2>4, <3>2 DEF Data, Open, Kept, table
    <3>4. Inserted'
      BY <1>b, <2>1, <2>4, <3>1 DEF Data, Inserted, table
    <3>5. k \notin raced' => \A q \in Procs : ~(pc[q] = "insert" /\ op[q].chunk = k)
      BY <2>4
    <3>6. raced \subseteq raced'
      BY <2>4
    <3>7. rows[k] = 0 \/ Doomed(k)
      BY <1>b, <2>1, <2>4 DEF Data, Open, TypeOK
    <3>8. ASSUME NEW c \in Chunk \ raced' PROVE rows'[c] <= 1 /\ view'[c] <= 1
      BY <1>b, <2>4, <3>6 DEF Data, Missing, table
    <3>9. ASSUME NEW c \in Chunk \ raced', NEW q \in Procs, NEW r \in Procs,
                 pc'[q] = "insert", op'[q].chunk = c
          PROVE  /\ view'[c] = 0 /\ (rows'[c] = 0 \/ Doomed(c)')
                 /\ pc'[r] = "insert" /\ op'[r].chunk = c => q = r
      <4>1. CASE c = k
        <5>1. \A s \in Procs : pc'[s] = "insert" /\ op'[s].chunk = c => s = p
          BY <2>1, <3>1, <3>5, <4>1
        <5> QED
          BY <2>4, <3>2, <3>7, <3>9, <4>1, <5>1 DEF table
      <4>2. CASE c # k
        <5>1. \A s \in Procs : pc'[s] = "insert" /\ op'[s].chunk = c => s # p /\ pc[s] = "insert"
                                                                      /\ op[s].chunk = c
          BY <2>1, <3>1, <4>2
        <5>2. view[c] = 0 /\ (rows[c] = 0 \/ Doomed(c))
          BY <1>b, <3>6, <3>9, <5>1 DEF Data, Missing
        <5>3. pc'[r] = "insert" /\ op'[r].chunk = c => q = r
          BY <1>b, <3>6, <3>9, <5>1 DEF Data, Missing
        <5> QED
          BY <2>4, <3>2, <5>2, <5>3 DEF table
      <4> QED
        BY <4>1, <4>2
    <3> QED
      BY <3>3, <3>4, <3>8, <3>9 DEF Data, Missing
  <2> QED
    BY <1>9, <2>2, <2>3, <2>4 DEF AddSelect
<1>10. ASSUME NEW p \in Procs, AddInsert(p) PROVE Data'
  <2> DEFINE k == op[p].chunk
  <2>1. pc[p] = "insert" /\ conn' = conn /\ op' = op /\ k \in Chunk
    BY <1>10, ChunkOfAdd DEF AddInsert, connection, Coherent, Adding
  <2>2. CASE RollsBack(p)
    BY <1>b, <2>1, <2>2, RolledBack DEF Adding
  <2>3. CASE /\ view' = [view EXCEPT ![k] = @ + 1] /\ Goto(p, "commit")
             /\ UNCHANGED <<rows, mine, history>>
    <3>1. pc'[p] = "commit" /\ \A q \in Procs \ {p} : pc'[q] = pc[q]
      BY <1>b, <2>3 DEF Goto, TypeOK
    <3>2. \A c \in Chunk : Doomed(c) <=> Doomed(c)'
      BY <2>1, <3>1 DEF Doomed
    <3>3. /\ rows \in [Chunk -> Nat] /\ view \in [Chunk -> Nat]
          /\ view'[k] = view[k] + 1 /\ \A c \in Chunk \ {k} : view'[c] = view[c]
      BY <1>b, <2>1, <2>3 DEF TypeOK
    <3>4. Open' /\ Kept'
      <4>1. \A c \in Chunk : view[c] <= view'[c] /\ view'[c] \in Nat
        BY <3>3
      <4> QED
        BY <1>b, <2>3, <3>2, <3>3, <4>1 DEF Data, Open, Kept, history
    <3>5. Inserted'
      <4>1. ASSUME NEW q \in Procs \ struck, pc'[q] = "commit", mine[q] = conn
            PROVE  view'[op[q].chunk] > 0
        <5>1. op[q].chunk \in Chunk
          BY <2>1, <3>1, <4>1, ChunkOfAdd DEF Coherent, Adding
        <5>2. q = p \/ view[op[q].chunk] > 0
          BY <1>b, <3>1, <4>1 DEF Data, Inserted
        <5> QED
          BY <3>3, <5>1, <5>2
      <4> QED
        BY <2>1, <2>3, <4>1 DEF Inserted, history
    <3>6. Missing'
      <4>1. ASSUME NEW c \in Chunk \ raced PROVE rows[c] <= 1 /\ view'[c] <= 1
        <5>1. c = k => view[c] = 0
          BY <1>b, <2>1, <4>1 DEF Data, Missing
        <5> QED
          BY <1>b, <3>3, <4>1, <5>1 DEF Data, Missing
      <4>2. ASSUME NEW c \in Chunk \ raced, NEW q \in Procs, NEW r \in Procs,
                   pc'[q] = "insert", op[q].chunk = c
            PROVE  /\ view'[c] = 0 /\ (rows[c] = 0 \/ Doomed(c))
                   /\ pc'[r] = "insert" /\ op[r].chunk = c => q = r
        <5>1. q # p /\ pc[q] = "insert"
          BY <3>1, <4>2
        <5>2. c # k
          BY <1>b, <2>1, <4>2, <5>1 DEF Data, Missing
        <5>3. view[c] = 0 /\ (rows[c] = 0 \/ Doomed(c))
          BY <1>b, <4>2, <5>1 DEF Data, Missing
        <5>4. pc'[r] = "insert" /\ op[r].chunk = c => q = r
          BY <1>b, <3>1, <4>2, <5>1 DEF Data, Missing
        <5> QED
          BY <3>3, <5>2, <5>3, <5>4
      <4> QED
        BY <2>1, <2>3, <3>2, <4>1, <4>2 DEF Missing, history
    <3> QED
      BY <3>4, <3>5, <3>6 DEF Data
  <2> QED
    BY <1>10, <2>2, <2>3 DEF AddInsert
<1>11. ASSUME NEW p \in Procs, AddCommit(p) PROVE Data'
  <2> DEFINE k == op[p].chunk
  <2>1. pc[p] = "commit" /\ conn' = conn /\ op' = op /\ k \in Chunk /\ Goto(p, "idle")
        /\ mine' = [mine EXCEPT ![p] = None] /\ struck' = struck \ {p} /\ raced' = raced
    BY <1>11, ChunkOfAdd DEF AddCommit, connection, Coherent, Adding, Ends
  <2>2. CASE mine[p] # conn
    <3>1. rows' = rows /\ view' = view /\ acked' = acked
      BY <1>11, <2>2 DEF AddCommit, table
    <3> QED
      BY <1>b, <2>1, <3>1, Abandoned DEF Adding
  <2>3. CASE mine[p] = conn
    <3>1. /\ rows' = view /\ view' = view
          /\ acked' = {c \in acked \cup (IF p \in struck THEN {} ELSE {k}) :
                         \A q \in Procs :
                           ~(pc[q] = "delCommit" /\ op[q].source = SourceOf[c])}
      BY <1>11, <2>3 DEF AddCommit
    <3>2. pc'[p] = "idle" /\ \A q \in Procs \ {p} : pc'[q] = pc[q] /\ mine'[q] = mine[q]
      BY <1>b, <2>1 DEF Goto, TypeOK
    <3>3. Open'
      BY <1>b, <3>1 DEF Open, TypeOK
    <3>4. Kept'
      <4>1. ASSUME NEW c \in acked' PROVE view[c] > 0
        <5>1. ~Doomed(c) /\ (c \in acked \/ (c = k /\ p \notin struck))
          BY <3>1, <4>1 DEF Doomed
        <5>2. c \in Chunk
          BY <1>b, <2>1, <5>1 DEF TypeOK
        <5>3. CASE c \in acked
          BY <1>b, <5>1, <5>2, <5>3 DEF Data, Open, Kept, TypeOK
        <5>4. CASE c = k /\ p \notin struck
          BY <1>b, <2>1, <2>3, <5>4 DEF Data, Inserted
        <5> QED
          BY <5>1, <5>3, <5>4
      <4> QED
        BY <3>1, <4>1 DEF Kept
    <3>5. Inserted'
      BY <1>b, <2>1, <3>1, <3>2 DEF Data, Inserted
    <3>6. Missing'
      BY <1>b, <2>1, <3>1, <3>2 DEF Data, Missing
    <3> QED
      BY <3>3, <3>4, <3>5, <3>6 DEF Data
  <2> QED
    BY <2>2, <2>3
<1>12. ASSUME NEW p \in Procs, AddFault(p) PROVE Data'
  BY <1>b, <1>12, RolledBack DEF AddFault, connection, Adding
<1>13. ASSUME NEW p \in Procs, DelRows(p) PROVE Data'
  <2> DEFINE s == op[p].source
  <2>1. /\ pc[p] = "delRows" /\ view' = Of(s, view) /\ rows' = rows /\ Goto(p, "delCommit")
        /\ struck' = struck \cup {q \in Procs : pc[q] = "commit" /\ SourceOf[op[q].chunk] = s}
        /\ conn' = conn /\ op' = op /\ mine' = mine /\ acked' = acked /\ raced' = raced
    BY <1>13 DEF DelRows, connection
  <2>2. pc'[p] = "delCommit" /\ \A q \in Procs \ {p} : pc'[q] = pc[q]
    BY <1>b, <2>1 DEF Goto, TypeOK
  <2>3. \A c \in Chunk : view'[c] = IF SourceOf[c] = s THEN 0 ELSE view[c]
    BY <2>1 DEF Of
  <2>4. \A c \in Chunk : Doomed(c)' <=> Doomed(c) \/ SourceOf[c] = s
    BY <2>1, <2>2 DEF Doomed
  <2>5. Open' /\ Kept'
    BY <1>b, <2>1, <2>3, <2>4 DEF Data, Open, Kept
  <2>6. Inserted'
    <3>1. ASSUME NEW q \in Procs \ struck', pc'[q] = "commit", mine[q] = conn
          PROVE  view'[op[q].chunk] > 0
      <4>1. pc[q] = "commit" /\ q \notin struck /\ SourceOf[op[q].chunk] # s
        BY <2>1, <2>2, <3>1
      <4>2. op[q].chunk \in Chunk
        BY <4>1, ChunkOfAdd DEF Coherent, Adding
      <4> QED
        BY <1>b, <2>3, <3>1, <4>1, <4>2 DEF Data, Inserted
    <3> QED
      BY <2>1, <3>1 DEF Inserted
  <2>7. Missing'
    <3>1. \A c \in Chunk \ raced : rows[c] <= 1 /\ view'[c] <= 1
      BY <1>b, <2>3 DEF Data, Missing
    <3>2. ASSUME NEW c \in Chunk \ raced, NEW q \in Procs, NEW r \in Procs,
                 pc'[q] = "insert", op[q].chunk = c
          PROVE  /\ view'[c] = 0 /\ (rows[c] = 0 \/ Doomed(c)')
                 /\ pc'[r] = "insert" /\ op[r].chunk = c => q = r
      <4>1. pc[q] = "insert" /\ (pc'[r] = "insert" => pc[r] = "insert")
        BY <2>2, <3>2
      <4>2. view[c] = 0 /\ (rows[c] = 0 \/ Doomed(c))
        BY <1>b, <3>2, <4>1 DEF Data, Missing
      <4>3. pc[r] = "insert" /\ op[r].chunk = c => q = r
        BY <1>b, <3>2, <4>1 DEF Data, Missing
      <4> QED
        BY <2>3, <2>4, <4>1, <4>2, <4>3
    <3> QED
      BY <2>1, <3>1, <3>2 DEF Missing
  <2> QED
    BY <2>5, <2>6, <2>7 DEF Data
<1>14. ASSUME NEW p \in Procs, DelCommit(p) PROVE Data'
  <2>1. /\ pc[p] = "delCommit" /\ rows' = view /\ view' = view /\ Goto(p, "vacuum")
        /\ acked' = {c \in acked : SourceOf[c] # op[p].source}
        /\ conn' = conn /\ op' = op /\ mine' = mine /\ struck' = struck /\ raced' = raced
    BY <1>14 DEF DelCommit, connection
  <2>2. pc'[p] = "vacuum" /\ \A q \in Procs \ {p} : pc'[q] = pc[q]
    BY <1>b, <2>1 DEF Goto, TypeOK
  <2>3. \A q \in Procs : pc[q] = "delCommit" => q = p
    BY <2>1 DEF LockHeld, Holding
  <2>4. Open'
    BY <1>b, <2>1 DEF Open, TypeOK
  <2>5. Kept'
    <3>1. ASSUME NEW c \in acked' PROVE view[c] > 0
      <4>1. c \in acked /\ c \in Chunk /\ ~Doomed(c)
        BY <1>b, <2>1, <2>3, <3>1 DEF Doomed, TypeOK
      <4> QED
        BY <1>b, <4>1 DEF Data, Open, Kept, TypeOK
    <3> QED
      BY <2>1, <3>1 DEF Kept
  <2>6. Inserted' /\ Missing'
    BY <1>b, <2>1, <2>2 DEF Data, Inserted, Missing
  <2> QED
    BY <2>4, <2>5, <2>6 DEF Data
<1>15. ASSUME NEW p \in Procs, DelFault(p) PROVE Data'
  <2>1. undone' = (undone \/ SharesTx(p))
    BY <1>15 DEF DelFault
  <2>2. ~SharesTx(p)
    BY <2>1
  <2>3. Goto(p, "idle") /\ rows' = rows /\ view' = rows /\ acked' = acked /\ raced' = raced
    BY <1>15 DEF DelFault, Ends
  <2> QED
    BY <1>b, <2>2, <2>3, Alone
<1>16. ASSUME NEW p \in Procs, ClearAll(p) PROVE Data'
  <2>1. /\ pc[p] = "body" /\ rows' = NoRows /\ view' = NoRows /\ conn' = None /\ acked' = {}
        /\ Goto(p, "idle") /\ mine' = [mine EXCEPT ![p] = None] /\ op' = op /\ raced' = raced
    BY <1>16 DEF ClearAll, Ends
  <2>2. pc'[p] = "idle" /\ \A q \in Procs \ {p} : pc'[q] = pc[q] /\ mine'[q] = mine[q]
    BY <1>b, <2>1 DEF Goto, TypeOK
  <2>3. \A c \in Chunk : rows'[c] = 0 /\ view'[c] = 0
    BY <2>1 DEF NoRows
  <2>4. Open' /\ Kept'
    BY <2>1, <2>3 DEF Open, Kept
  <2>5. Inserted'
    BY <1>b, <2>1, <2>2 DEF Inserted, Coherent, Adding
  <2>6. Missing'
    BY <1>b, <2>1, <2>2, <2>3 DEF Data, Missing
  <2> QED
    BY <2>4, <2>5, <2>6 DEF Data
<1>17. CASE Crash
  <2>1. /\ rows' = rows /\ view' = rows /\ acked' = acked /\ raced' = raced
        /\ \A q \in Procs : pc'[q] = "idle"
    BY <1>17 DEF Crash, Closes
  <2>2. Open' /\ Kept'
    BY <1>b, <2>1 DEF Data, Open, Kept, TypeOK
  <2>3. Inserted' /\ Missing'
    BY <1>b, <2>1 DEF Data, Inserted, Missing
  <2> QED
    BY <2>2, <2>3 DEF Data
<1>18. CASE UNCHANGED vars
  <2>1. \A c : Doomed(c) <=> Doomed(c)'
    BY <1>18 DEF vars, Doomed
  <2> QED
    BY <1>b, <1>18, <2>1
       DEF vars, connection, table, history, Data, Open, Kept, Inserted, Missing
<1> QED
  BY <1>1, <1>2, <1>3, <1>4, <1>5, <1>6, <1>7, <1>8, <1>9, <1>10, <1>11, <1>12, <1>13, <1>14,
     <1>15, <1>16, <1>17, <1>18 DEF Next, Locking, Running

-----------------------------------------------------------------------------
(* Every step keeps the inductive invariant.                               *)
LEMMA IndexStep == IndexInv /\ [Next]_vars => IndexInv'
  BY TypeStep, LockStep, DataStep DEF IndexInv, Base

(* In every behaviour the variables have their types: in particular there  *)
(* is always an identity left for the next connection.                     *)
THEOREM TypeCorrect == Spec => []TypeOK
<1>1. IndexInv => TypeOK
  BY DEF IndexInv, Base
<1> QED
  BY <1>1, IndexInit, IndexStep, PTL DEF Spec

(* A chunk whose add returned is committed until its source is deleted,    *)
(* over any interleaving of adds, deletes, reloads, faults and crashes in  *)
(* which no rollback took another request's rows along.                    *)
THEOREM DurabilityHolds == Spec => []AckedIsDurable
<1>1. IndexInv => AckedIsDurable
  BY DEF IndexInv, Data, Kept, AckedIsDurable
<1> QED
  BY <1>1, IndexInit, IndexStep, PTL DEF Spec

(* An index that says it is initialized has a connection.                  *)
THEOREM OpenHolds == Spec => []InitializedIsOpen
<1>1. IndexInv => InitializedIsOpen
  BY DEF IndexInv, Base, FlagTold, InitializedIsOpen
<1> QED
  BY <1>1, IndexInit, IndexStep, PTL DEF Spec

(* A chunk is stored once unless two adds looked for it before either      *)
(* inserted it, or a rollback undid a deletion an add had seen.            *)
THEOREM StoredOnce == Spec => []NoDuplicateRows
<1>1. IndexInv => NoDuplicateRows
  BY DEF IndexInv, Data, Missing, NoDuplicateRows
<1> QED
  BY <1>1, IndexInit, IndexStep, PTL DEF Spec
-----------------------------------------------------------------------------
(* ChatClient: the state of a tab and of the rows it saves. *)

NoSession == Tab!NoSession
TabSessions == Fresh \cup {Tab!Old}
TabTurns == 1..MaxTurns
RowIds == (0..MaxTurns) \X Tab!Roles
MessageRows == [id : RowIds, session : TabSessions, status : {"done", "streaming", "error"}]
Posts == [at : {"none", "waiting", "sent", "over"}, to : TabSessions \cup {NoSession}]
Fetches == [at : {"none", "asked", "read"}, of : TabSessions \cup {NoSession},
            had : SUBSET RowIds, rows : Seq(RowIds)]
Question(t) == <<t, "user">>
Answer(t) == <<t, "assistant">>

\* A tab is at a session that is there, or at none.
TabPlaces ==
  /\ sessions \subseteq TabSessions /\ loaded \subseteq TabSessions
  /\ creating \subseteq Fresh /\ lazily \subseteq Fresh
  /\ {active, rendered, bound} \subseteq sessions \cup {NoSession}
  /\ ensured \in creating \cup {NoSession}
  /\ listing \in [at : {"none", "asked", "read"}, ids : SUBSET sessions]
TabScreen ==
  /\ thread \in Seq(RowIds)
  /\ fetch \in Fetches /\ (fetch.at # "none" => fetch.of \in TabSessions)
  /\ rail \in 0..MaxTurns /\ control \in 0..MaxTurns /\ streaming \in BOOLEAN
TabSaves ==
  /\ turns \in [TabTurns -> {"unsent", "saving", "reading", "told", "empty", "asking", "ended"}]
  /\ posts \in [Tab!Saves -> Posts]
  /\ left \cup overtaken \cup hurt \cup aborted \subseteq TabTurns
  /\ messages \in Seq(MessageRows) /\ patches \subseteq TabTurns \X {"done", "error"}
TabTyped == TabPlaces /\ TabScreen /\ TabSaves

\* The answer's row is sent when the question's is saved or lost, and to the
\* same session, unless that was left while the question was being saved.
TurnStands(t) ==
  LET u == posts[Question(t)]
      a == posts[Answer(t)]
  IN /\ turns[t] = "unsent" => u.at = "none" /\ a.at = "none"
     /\ turns[t] = "saving" => u.at # "none" /\ a.at = "none"
     /\ turns[t] \notin {"unsent", "saving"} => u.at = "over" /\ a.at # "none"
     /\ turns[t] = "saving" /\ t \notin left => u.to \in {NoSession, bound}
     /\ a.at # "none" /\ t \notin left => u.to \in {NoSession, a.to}

Saved(x) == \E i \in DOMAIN messages : messages[i].id = x
\* What a save is about to do, or did.
PostStands(x) ==
  /\ posts[x].at = "waiting" => posts[x].to = NoSession
  /\ posts[x].at = "sent" => posts[x].to \in sessions
  /\ posts[x].at = "over" /\ x[1] \notin hurt => Saved(x)

\* A row is where its save put it; the rows of the turn found are in its session.
RowStands(row) ==
  /\ row.session \in sessions
  /\ row.id[1] = Tab!OldTurn => row.session = Tab!Old
  /\ row.id[1] # Tab!OldTurn => posts[row.id].at = "over" /\ posts[row.id].to = row.session
RowsStand == \A i \in DOMAIN messages : RowStands(messages[i])
\* The rows of a turn are its question and then its answer.
RowsOrdered ==
  \A i, j \in DOMAIN messages :
    i < j /\ messages[i].id[1] = messages[j].id[1] =>
      messages[i].id[2] = "user" /\ messages[j].id[2] = "assistant"

\* The answer of a turn that ended is written back, or about to be.
Finished(t) == \E i \in DOMAIN messages :
                 messages[i].id = Answer(t) /\ messages[i].status # "streaming"
Written(t) ==
  turns[t] = "ended" /\ t \notin hurt \cup overtaken =>
    Finished(t) \/ \E p \in patches : p[1] = t

\* A session is being opened for sends exactly while some wait for it.
Waits == ensured # NoSession <=> \E x \in Tab!Saves : posts[x].at = "waiting"
\* The one session sends opened is still being created, or the tab has one.
OpenedOnce ==
  hurt = {} /\ ~outlisted =>
    IF ensured # NoSession THEN lazily = {ensured}
    ELSE \/ lazily = {}
         \/ active # NoSession /\ bound # NoSession /\ \E s \in lazily : lazily = {s}

TabInv ==
  /\ TabTyped /\ RowsStand /\ RowsOrdered /\ Waits /\ OpenedOnce
  /\ \A t \in TabTurns : TurnStands(t) /\ Written(t)
  /\ \A x \in Tab!Saves : PostStands(x)

(* The tab's own sets, parts of sequences and cardinalities are these.     *)
LEMMA TabHelpers ==
  /\ \A s : Tab!ToSet(s) = {s[i] : i \in DOMAIN s}
  /\ \A s, S : Tab!KeptOf(s, S) = KeptOf(s, S)
  /\ \A S : Tab!IsFiniteSet(S) = IsFiniteSet(S) /\ Tab!Cardinality(S) = Cardinality(S)
<1>1. \A s : Tab!ToSet(s) = {s[i] : i \in DOMAIN s}
  BY DEF Tab!ToSet
<1>2. \A s, S : Tab!KeptOf(s, S) = KeptOf(s, S)
  BY DEF Tab!KeptOf, KeptOf
<1>3. \A S : Tab!IsFiniteSet(S) = IsFiniteSet(S)
  BY DEF Tab!IsFiniteSet, IsFiniteSet
<1>4. \A S : Tab!Cardinality(S) = Cardinality(S)
  BY DEF Tab!Cardinality, Cardinality, Tab!IsFiniteSet, IsFiniteSet
<1> QED
  BY <1>1, <1>2, <1>3, <1>4

(* Ids of sessions, turns and saves.                                       *)
LEMMA TabIds ==
  /\ Fresh \subseteq Nat /\ NoSession \notin TabSessions /\ Tab!Old \notin Fresh
  /\ MaxTurns \in Nat /\ 0 \notin TabTurns /\ TabTurns \subseteq 0..MaxTurns
  /\ Tab!Turns = TabTurns
  /\ \A t \in TabTurns : Question(t) \in Tab!Saves /\ Answer(t) \in Tab!Saves
  /\ \A x \in Tab!Saves : x[1] \in TabTurns /\ x \in RowIds
                          /\ (x = Question(x[1]) \/ x = Answer(x[1]))
BY ClientAssumption DEF Tab!ClientAssumption, NoSession, Tab!NoSession, TabSessions, Tab!Old,
   TabTurns, Tab!Turns, Tab!Saves, Tab!Roles, Question, Answer, RowIds

(* The invariant holds of a tab whose sessions are being listed.           *)
LEMMA TabStarts == Tab!Init => TabInv
<1> SUFFICES ASSUME Tab!Init PROVE TabInv
  OBVIOUS
<1> USE TabIds
<1>0. /\ active = NoSession /\ rendered = NoSession /\ bound = NoSession /\ loaded = {}
      /\ thread = <<>> /\ rail = 0 /\ streaming = FALSE /\ control = 0
      /\ turns = [t \in TabTurns |-> "unsent"]
      /\ posts = [s \in Tab!Saves |-> [at |-> "none", to |-> NoSession]]
      /\ aborted = {} /\ creating = {} /\ ensured = NoSession /\ patches = {}
      /\ fetch = [at |-> "none", of |-> NoSession, had |-> {}, rows |-> <<>>]
      /\ listing = [at |-> "asked", ids |-> {}] /\ sessions \subseteq {Tab!Old}
      /\ left = {} /\ overtaken = {} /\ hurt = {} /\ lazily = {}
  BY DEF Tab!Init, NoSession, Tab!NoSave, Tab!NoFetch
<1>1. TabPlaces
  BY <1>0 DEF TabPlaces, TabSessions
<1>2. TabScreen
  <2>1. <<>> \in Seq(RowIds)
    OBVIOUS
  <2>2. fetch \in Fetches /\ fetch.at = "none"
    BY <1>0, <2>1 DEF Fetches
  <2>3. thread \in Seq(RowIds)
    BY <1>0, <2>1
  <2>4. streaming \in BOOLEAN
    BY <1>0, Zenon
  <2>5. rail \in 0..MaxTurns /\ control \in 0..MaxTurns
    BY <1>0
  <2> QED
    BY <2>2, <2>3, <2>4, <2>5 DEF TabScreen
<1>3. \/ messages = <<>>
      \/ /\ messages = <<[id |-> <<0, "user">>, session |-> Tab!Old, status |-> "done"],
                         [id |-> <<0, "assistant">>, session |-> Tab!Old, status |-> "done"]>>
         /\ sessions = {Tab!Old}
  BY DEF Tab!Init, Tab!RowOf, Tab!OldTurn
<1>4. /\ messages \in Seq(MessageRows) /\ RowsOrdered
      /\ \A i \in DOMAIN messages : messages[i].session \in sessions
           /\ messages[i].session = Tab!Old /\ messages[i].id[1] = 0
  <2>1. CASE messages = <<>>
    <3>1. <<>> \in Seq(MessageRows)
      OBVIOUS
    <3> QED
      BY <2>1, <3>1 DEF RowsOrdered
  <2>2. CASE messages # <<>>
    <3>1. PICK u, a : /\ u = [id |-> <<0, "user">>, session |-> Tab!Old, status |-> "done"]
                      /\ a = [id |-> <<0, "assistant">>, session |-> Tab!Old, status |-> "done"]
      OBVIOUS
    <3>2. u \in MessageRows /\ a \in MessageRows
      BY <3>1 DEF MessageRows, RowIds, Tab!Roles, TabSessions
    <3>3. messages = <<u, a>> /\ sessions = {Tab!Old}
      BY <1>3, <2>2, <3>1
    <3>4. /\ messages \in Seq(MessageRows) /\ DOMAIN messages = {1, 2}
          /\ messages[1] = u /\ messages[2] = a
      BY <3>2, <3>3
    <3>5. RowsOrdered
      BY <3>1, <3>4 DEF RowsOrdered
    <3> QED
      BY <3>1, <3>3, <3>4, <3>5
  <2> QED
    BY <2>1, <2>2
<1>5. TabSaves
  <2>1. [at |-> "none", to |-> NoSession] \in Posts
    BY DEF Posts
  <2> QED
    BY <1>0, <1>4, <2>1 DEF TabSaves
<1>6. RowsStand
  BY <1>4 DEF RowsStand, RowStands, Tab!OldTurn
<1>7. Waits /\ OpenedOnce
  BY <1>0 DEF Waits, OpenedOnce
<1>8. \A t \in TabTurns : TurnStands(t) /\ Written(t)
  BY <1>0 DEF TurnStands, Written
<1>9. \A x \in Tab!Saves : PostStands(x)
  BY <1>0 DEF PostStands
<1> QED
  BY <1>1, <1>2, <1>4, <1>5, <1>6, <1>7, <1>8, <1>9 DEF TabInv, TabTyped

-----------------------------------------------------------------------------
(* ChatClient: the steps that save nothing. *)

(* The id of the next session is a spare one; what LeavesIds leaves is one.*)
LEMMA NextIs ==
  /\ Tab!Spare # {} => Tab!NextId \in Tab!Spare
  /\ Tab!Spare \subseteq Fresh
  /\ \A n \in Nat \ {0} : Tab!LeavesIds(n) => Tab!Spare # {}
<1>1. Tab!Spare \subseteq Fresh
  BY DEF Tab!Spare
<1>2. ASSUME Tab!Spare # {} PROVE Tab!NextId \in Tab!Spare
  <2>1. Tab!Spare \in SUBSET Nat
    BY <1>1, TabIds
  <2>2. \E m \in Tab!Spare : \A k \in Tab!Spare : m <= k
    BY <1>2, <2>1, LeastNumber
  <2> QED
    BY <2>2 DEF Tab!NextId, Tab!Min
<1>3. ASSUME NEW n \in Nat \ {0}, Tab!LeavesIds(n) PROVE Tab!Spare # {}
  <2> DEFINE S == {t \in Tab!Turns : turns[t] = "saving"}
  <2>1. IsFiniteSet(1..MaxTurns) /\ S \subseteq 1..MaxTurns
    BY FS_Interval, TabIds DEF TabTurns
  <2>2. Cardinality(S) \in Nat
    BY <2>1, FS_Subset, FS_CardinalityType
  <2>3. Cardinality(Tab!Spare) >= n + Cardinality(S)
    BY <1>3, TabHelpers DEF Tab!LeavesIds
  <2>4. Cardinality({}) = 0
    BY FS_EmptySet
  <2> HIDE DEF S
  <2> QED
    BY <2>2, <2>3, <2>4
<1> QED
  BY <1>1, <1>2, <1>3

(* A turn that is left goes to another session than the tab does.          *)
LEMMA LeavingIs ==
  ASSUME NEW s
  PROVE  /\ Tab!Leaving(s) \subseteq TabTurns
         /\ \A t \in TabTurns : turns[t] = "saving" /\ t \notin Tab!Leaving(s) =>
              posts[Question(t)].to \in {NoSession, s}
BY TabIds DEF Tab!Leaving, Tab!Running, Question, NoSession

(* A step that saves nothing keeps the invariant when it keeps to the ids, *)
(* to what turns are being saved to, and to one session opened for sends.  *)
LEMMA TabQuiet ==
  ASSUME TabInv, TabPlaces', TabScreen', OpenedOnce', sessions \subseteq sessions',
         UNCHANGED <<turns, posts, messages, patches, overtaken, hurt, lazily, ensured>>,
         left \subseteq left', left' \cup aborted' \subseteq TabTurns,
         \A t \in TabTurns : turns[t] = "saving" /\ t \notin left' =>
           posts[Question(t)].to \in {NoSession, bound'}
  PROVE  TabInv'
<1> USE DEF TabInv
<1>1. TabTyped'
  BY DEF TabTyped, TabSaves
<1>2. RowsStand' /\ RowsOrdered' /\ Waits'
  BY DEF RowsStand, RowStands, RowsOrdered, Waits
<1>3. ASSUME NEW t \in TabTurns PROVE TurnStands(t)' /\ Written(t)'
  <2>1. TurnStands(t) /\ Written(t)
    OBVIOUS
  <2>2. Written(t)'
    BY <2>1 DEF Written, Finished
  <2>3. t \notin left' => t \notin left
    OBVIOUS
  <2>4. turns[t] = "saving" /\ t \notin left' => posts[Question(t)].to \in {NoSession, bound'}
    OBVIOUS
  <2>5. TurnStands(t)'
    BY <2>1, <2>3, <2>4 DEF TurnStands, NoSession
  <2> QED
    BY <2>2, <2>5
<1>4. ASSUME NEW x \in Tab!Saves PROVE PostStands(x)'
  <2>1. PostStands(x)
    OBVIOUS
  <2> QED
    BY <2>1 DEF PostStands, Saved, NoSession
<1> QED
  BY <1>1, <1>2, <1>3, <1>4

(* What aborting the stream at hand aborts.                                *)
LEMMA StreamAborts ==
  TabInv => left \cup overtaken \cup hurt \cup aborted \cup ({control} \ {0}) \subseteq TabTurns
<1> SUFFICES ASSUME TabInv PROVE {control} \ {0} \subseteq TabTurns
  BY DEF TabInv, TabTyped, TabSaves
<1> QED
  BY TabIds DEF TabInv, TabTyped, TabScreen, TabTurns

(* The steps that leave the thread alone: sessions are created and listed. *)
LEMMA SessionSteps ==
  ASSUME TabInv,
         \/ Tab!Refresh \/ Tab!List \/ Tab!Listed \/ Tab!ListFails
         \/ \E s \in Fresh : \/ Tab!Create(s)
                             \/ s # ensured /\ (Tab!Created(s) \/ Tab!CreateFails(s))
  PROVE  TabInv'
<1>0. TabPlaces /\ TabScreen /\ OpenedOnce /\ \A t \in TabTurns : TurnStands(t)
  BY DEF TabInv, TabTyped
<1> DEFINE Unmoved ==
             /\ UNCHANGED <<turns, posts, messages, patches, overtaken, hurt, lazily, ensured>>
             /\ UNCHANGED <<thread, rail, control, streaming, fetch, left, aborted, bound, rendered,
                            loaded>>
           Placed ==
             /\ sessions \subseteq sessions' /\ TabPlaces' /\ (outlisted => outlisted')
             /\ active' = active \/ active' # NoSession \/ active = NoSession \/ outlisted'
<1>1. Unmoved
  <2>1. CASE Tab!Refresh \/ Tab!List \/ Tab!Listed \/ Tab!ListFails
    BY <2>1 DEF Tab!Refresh, Tab!List, Tab!Listed, Tab!ListFails, Tab!tab, Tab!turn, Tab!server,
                Tab!history
  <2>2. ASSUME NEW s \in Fresh, Tab!Create(s) PROVE Unmoved
    BY <2>2 DEF Tab!Create, Tab!tab, Tab!turn, Tab!calls, Tab!history
  <2>3. ASSUME NEW s \in Fresh, s # ensured, Tab!Created(s) \/ Tab!CreateFails(s)
        PROVE  Unmoved
    BY <2>3 DEF Tab!Created, Tab!CreateFails, Tab!tab, Tab!turn, Tab!server
  <2> QED
    BY <2>1, <2>2, <2>3
<1>2. TabScreen'
  BY <1>0, <1>1 DEF TabScreen
<1>3. Placed
  <2>1. CASE Tab!Refresh \/ Tab!List \/ Tab!ListFails
    <3>1. /\ UNCHANGED <<active, creating, sessions, outlisted>>
          /\ listing' \in {[at |-> "asked", ids |-> {}], [at |-> "read", ids |-> sessions],
                           [at |-> "none", ids |-> {}]}
      BY <2>1 DEF Tab!Refresh, Tab!List, Tab!ListFails, Tab!tab, Tab!server, Tab!history,
                  Tab!NoListing
    <3>2. listing' \in [at : {"none", "asked", "read"}, ids : SUBSET sessions]
      BY <3>1
    <3> QED
      BY <1>0, <1>1, <3>1, <3>2 DEF TabPlaces
  <2>2. CASE Tab!Listed
    <3>1. /\ UNCHANGED <<creating, sessions>> /\ listing' = [at |-> "none", ids |-> {}]
          /\ outlisted' = (outlisted \/ active \notin listing.ids \cup {NoSession})
          /\ \/ active \in listing.ids /\ active' = active
             \/ active \notin listing.ids /\ active' \in listing.ids \cup {NoSession}
      BY <2>2 DEF Tab!Listed, Tab!server, Tab!NoListing, NoSession
    <3>2. listing' \in [at : {"none", "asked", "read"}, ids : SUBSET sessions]
          /\ listing.ids \subseteq sessions
      BY <1>0, <3>1 DEF TabPlaces
    <3>3. active' \in sessions \cup {NoSession}
      BY <1>0, <3>1, <3>2 DEF TabPlaces
    <3> QED
      BY <1>0, <1>1, <3>1, <3>2, <3>3 DEF TabPlaces
  <2>3. ASSUME NEW s \in Fresh, Tab!Create(s) PROVE Placed
    <3>1. /\ UNCHANGED <<active, creating, outlisted, listing>> /\ sessions' = sessions \cup {s}
      BY <2>3 DEF Tab!Create, Tab!tab, Tab!calls, Tab!history
    <3> QED
      BY <1>0, <1>1, <3>1 DEF TabPlaces, TabSessions
  <2>4. ASSUME NEW s \in Fresh, s # ensured, Tab!Created(s) \/ Tab!CreateFails(s)
        PROVE  Placed
    <3>1. /\ UNCHANGED <<sessions, listing, outlisted>> /\ creating' = creating \ {s}
          /\ active' = active \/ (active' = s /\ s \in sessions)
      BY <2>4 DEF Tab!Created, Tab!CreateFails, Tab!tab, Tab!server
    <3>2. s # NoSession
      BY TabIds DEF TabSessions
    <3> QED
      BY <1>0, <1>1, <2>4, <3>1, <3>2 DEF TabPlaces
  <2> QED
    BY <2>1, <2>2, <2>3, <2>4
<1>4. OpenedOnce'
  BY <1>0, <1>1, <1>3 DEF OpenedOnce, NoSession
<1>5. \A t \in TabTurns : turns[t] = "saving" /\ t \notin left' =>
           posts[Question(t)].to \in {NoSession, bound'}
  BY <1>0, <1>1 DEF TurnStands
<1>6. left' \cup aborted' \subseteq TabTurns
  BY <1>1 DEF TabInv, TabTyped, TabSaves
<1> QED
  BY <1>1, <1>2, <1>3, <1>4, <1>5, <1>6, TabQuiet

(* The rows of a session are rows, and have ids of rows.                   *)
LEMMA RowsInAre ==
  ASSUME TabInv, NEW s
  PROVE  Tab!RowsIn(s) \in Seq(MessageRows) /\ Tab!Ids(Tab!RowsIn(s)) \in Seq(RowIds)
<1>1. PICK S : S = {r \in Tab!ToSet(messages) : r.session = s}
  OBVIOUS
<1>2. messages \in Seq(MessageRows)
  BY DEF TabInv, TabTyped, TabSaves
<1>3. KeptOf(messages, S) \in Seq(MessageRows)
  BY <1>2, KeptIs
<1>4. PICK list \in Seq(MessageRows) : list = Tab!RowsIn(s)
  BY <1>1, <1>3, TabHelpers DEF Tab!RowsIn
<1>5. [i \in DOMAIN list |-> list[i].id] \in Seq(RowIds)
  <2>1. PICK n \in Nat : DOMAIN list = 1..n
    BY <1>4, LenProperties
  <2>2. \A i \in 1..n : list[i].id \in RowIds
    <3>1. \A i \in 1..n : list[i] \in MessageRows
      BY <2>1
    <3> QED
      BY <3>1 DEF MessageRows
  <2>3. [i \in 1..n |-> list[i].id] \in [1..n -> RowIds]
    BY <2>2
  <2> QED
    BY <2>1, <2>3, SeqDef
<1> QED
  BY <1>4, <1>5 DEF Tab!Ids

(* The steps that change the thread without saving: a new chat, and the    *)
(* effects of a render and what they fetch.                                *)
LEMMA ThreadSteps ==
  ASSUME TabInv, Tab!NewChat \/ Tab!Rebind \/ Tab!Fetch \/ Tab!Fetched \/ Tab!FetchFails
  PROVE  TabInv'
<1>0. /\ TabPlaces /\ TabScreen /\ OpenedOnce /\ \A t \in TabTurns : TurnStands(t)
      /\ fetch \in Fetches
  BY DEF TabInv, TabTyped, TabScreen
<1>a. UNCHANGED <<turns, posts, messages, patches, overtaken, lazily, ensured, sessions, active,
                  outlisted, streaming>>
  BY DEF Tab!NewChat, Tab!Rebind, Tab!Fetch, Tab!Fetched, Tab!FetchFails, Tab!tab, Tab!turn,
         Tab!server, Tab!history
<1>1. UNCHANGED hurt
  BY DEF Tab!NewChat, Tab!Rebind, Tab!Fetch, Tab!Fetched, Tab!FetchFails, Tab!history
<1>2. <<>> \in Seq(RowIds) /\ Tab!NoFetch \in Fetches /\ Tab!NoFetch.at = "none"
  <2>1. <<>> \in Seq(RowIds)
    OBVIOUS
  <2> QED
    BY <2>1 DEF Fetches, Tab!NoFetch, NoSession
<1>3. CASE Tab!NewChat
  <2>1. /\ UNCHANGED <<rendered, bound, loaded, fetch, listing>>
        /\ thread' = <<>> /\ rail' = 0 /\ control' = 0
        /\ aborted' = aborted \cup ({control} \ {0}) /\ left' = left \cup Tab!Running
        /\ Tab!LeavesIds(1) /\ creating' = creating \cup {Tab!NextId}
    BY <1>3 DEF Tab!NewChat, Tab!server
  <2>2. Tab!NextId \in Fresh
    BY <2>1, NextIs
  <2>3. TabPlaces'
    BY <1>0, <1>a, <2>1, <2>2 DEF TabPlaces
  <2>4. TabScreen'
    BY <1>0, <1>a, <1>2, <2>1, TabIds DEF TabScreen
  <2>5. OpenedOnce'
    BY <1>0, <1>a, <1>1, <2>1 DEF OpenedOnce
  <2>6. Tab!Running \subseteq TabTurns
    BY TabIds DEF Tab!Running
  <2>7. left \subseteq left' /\ left' \cup aborted' \subseteq TabTurns
    BY <2>1, <2>6, StreamAborts
  <2>8. \A t \in TabTurns : turns[t] = "saving" /\ t \notin left' =>
          posts[Question(t)].to \in {NoSession, bound'}
    BY <1>0, <2>1 DEF TurnStands
  <2> QED
    BY <1>a, <1>1, <2>3, <2>4, <2>5, <2>7, <2>8, TabQuiet
<1>4. CASE Tab!Rebind
  <2>1. /\ UNCHANGED <<loaded, creating, listing>>
        /\ rendered' = active /\ bound' = active /\ control' = 0
        /\ aborted' = aborted \cup ({control} \ {0}) /\ left' = left \cup Tab!Leaving(active)
        /\ \/ thread' = <<>> /\ rail' = 0 /\ fetch' = Tab!NoFetch
           \/ UNCHANGED <<thread, rail>> /\ fetch' = Tab!NoFetch
           \/ /\ UNCHANGED <<thread, rail>> /\ active # NoSession
              /\ fetch' = [at |-> "asked", of |-> active, had |-> Tab!Placed, rows |-> <<>>]
    BY <1>4 DEF Tab!Rebind, Tab!server, NoSession
  <2>2. TabPlaces'
    BY <1>0, <1>a, <2>1 DEF TabPlaces
  <2>3. Tab!Placed \subseteq RowIds
    <3>1. \A i \in DOMAIN thread : thread[i] \in RowIds
      BY <1>0 DEF TabScreen
    <3> QED
      BY <3>1, TabHelpers DEF Tab!Placed
  <2>4. fetch' \in Fetches /\ (fetch'.at # "none" => fetch'.of \in TabSessions)
    <3>1. active # NoSession => active \in TabSessions
      BY <1>0 DEF TabPlaces
    <3>2. PICK had \in SUBSET RowIds : had = Tab!Placed
      BY <2>3
    <3>3. CASE fetch' = Tab!NoFetch
      BY <1>2, <3>3
    <3>4. CASE fetch' = [at |-> "asked", of |-> active, had |-> had, rows |-> <<>>]
               /\ active # NoSession
      BY <1>2, <3>1, <3>4 DEF Fetches
    <3> QED
      BY <2>1, <3>2, <3>3, <3>4
  <2>5. thread' \in Seq(RowIds)
    BY <1>0, <1>2, <2>1 DEF TabScreen
  <2>a. rail' \in 0..MaxTurns /\ control' \in 0..MaxTurns
    <3>1. 0 \in 0..MaxTurns /\ rail \in 0..MaxTurns
      BY <1>0, TabIds DEF TabScreen
    <3> QED
      BY <2>1, <3>1
  <2>6. TabScreen'
    BY <1>0, <1>a, <2>4, <2>5, <2>a DEF TabScreen
  <2>7. OpenedOnce'
    BY <1>0, <1>a, <1>1, <2>1 DEF OpenedOnce
  <2>8. left \subseteq left' /\ left' \cup aborted' \subseteq TabTurns
    BY <2>1, StreamAborts, LeavingIs
  <2>9. \A t \in TabTurns : turns[t] = "saving" /\ t \notin left' =>
          posts[Question(t)].to \in {NoSession, bound'}
    BY <2>1, LeavingIs
  <2> QED
    BY <1>a, <1>1, <2>2, <2>6, <2>7, <2>8, <2>9, TabQuiet
<1>5. ASSUME Tab!Fetch \/ Tab!Fetched \/ Tab!FetchFails PROVE TabInv'
  <2>1. UNCHANGED <<rendered, bound, control, aborted, left, creating, listing>>
    BY <1>5 DEF Tab!Fetch, Tab!Fetched, Tab!FetchFails, Tab!tab, Tab!turn, Tab!history
  <2>2. /\ loaded' \subseteq TabSessions /\ thread' \in Seq(RowIds) /\ rail' \in 0..MaxTurns
        /\ fetch' \in Fetches /\ (fetch'.at # "none" => fetch'.of \in TabSessions)
    <3>1. CASE Tab!Fetch
      <4>1. PICK list \in Seq(RowIds) : list = Tab!Ids(Tab!RowsIn(fetch.of))
        BY RowsInAre
      <4>2. /\ fetch.at = "asked" /\ fetch' = [fetch EXCEPT !.at = "read", !.rows = list]
            /\ UNCHANGED <<loaded, thread, rail>>
        BY <3>1, <4>1 DEF Tab!Fetch, Tab!tab
      <4>3. fetch' \in Fetches /\ fetch'.of = fetch.of
        BY <1>0, <4>2 DEF Fetches
      <4> QED
        BY <1>0, <4>2, <4>3 DEF TabPlaces, TabScreen
    <3>2. CASE Tab!Fetched
      <4>1. PICK list \in Seq(RowIds) : list = fetch.rows
        BY <1>0 DEF Fetches
      <4>2. PICK S : S = {id \in Tab!ToSet(list) : id[2] = "assistant"}
        OBVIOUS
      <4>3. PICK answers \in Seq(RowIds) : answers = Tab!KeptOf(list, S)
        BY KeptIs, TabHelpers
      <4>4. /\ fetch.at = "read" /\ fetch' = Tab!NoFetch /\ loaded' = loaded \cup {fetch.of}
            /\ thread' = list /\ rail' = (IF answers = <<>> THEN 0 ELSE Tab!Last(answers)[1])
        BY <3>2, <4>1, <4>2, <4>3 DEF Tab!Fetched
      <4>5. ASSUME answers # <<>> PROVE Tab!Last(answers)[1] \in 0..MaxTurns
        <5>1. Len(answers) \in DOMAIN answers
          BY <4>5
        <5>2. answers[Len(answers)] \in RowIds
          BY <5>1
        <5> QED
          BY <5>2 DEF Tab!Last, RowIds
      <4>6. rail' \in 0..MaxTurns
        BY <4>4, <4>5, TabIds
      <4> QED
        BY <1>0, <1>2, <4>4, <4>6 DEF TabPlaces, TabScreen
    <3>3. CASE Tab!FetchFails
      <4>1. UNCHANGED <<loaded, rail>> /\ fetch' = Tab!NoFetch /\ thread' = <<>>
        BY <3>3 DEF Tab!FetchFails
      <4> QED
        BY <1>0, <1>2, <4>1 DEF TabPlaces, TabScreen
    <3> QED
      BY <1>5, <3>1, <3>2, <3>3
  <2>3. TabPlaces'
    BY <1>0, <1>a, <2>1, <2>2 DEF TabPlaces
  <2>4. TabScreen'
    BY <1>0, <1>a, <2>1, <2>2 DEF TabScreen
  <2>5. OpenedOnce'
    BY <1>0, <1>a, <1>1, <2>1 DEF OpenedOnce
  <2>6. left' \cup aborted' \subseteq TabTurns
    BY <2>1, StreamAborts
  <2>7. \A t \in TabTurns : turns[t] = "saving" /\ t \notin left' =>
          posts[Question(t)].to \in {NoSession, bound'}
    BY <1>0, <2>1 DEF TurnStands
  <2> QED
    BY <1>a, <1>1, <2>1, <2>3, <2>4, <2>5, <2>6, <2>7, TabQuiet
<1> QED
  BY <1>3, <1>4, <1>5

-----------------------------------------------------------------------------
(* ChatClient: a turn goes on. *)

(* A stream or an answer goes on, or ends and is written back.             *)
LEMMA AnswerSteps ==
  ASSUME TabInv, NEW t \in TabTurns,
         Tab!Done(t) \/ Tab!Close(t) \/ Tab!Break(t) \/ Tab!Answered(t) \/ Tab!AskFails(t)
  PROVE  TabInv'
<1>1. /\ UNCHANGED <<active, rendered, bound, loaded, posts, fetch, listing, creating, ensured,
                     sessions, messages, left, overtaken, hurt, outlisted, lazily, thread>>
      /\ turns[t] \in {"reading", "told", "empty", "asking"}
      /\ rail' \in {rail, t} /\ control' \in {control, 0} /\ streaming' \in {streaming, FALSE}
      /\ aborted' \subseteq aborted \cup ({control} \ {0})
  BY DEF Tab!Done, Tab!Close, Tab!Break, Tab!Answered, Tab!AskFails, Tab!Still, Tab!calls
<1>2. PICK l \in {"told", "empty", "asking", "ended"} :
        /\ turns' = [turns EXCEPT ![t] = l]
        /\ \/ l # "ended" /\ patches' \in {patches, patches \cup {<<t, "done">>}}
           \/ patches' \in {patches \cup {<<t, "done">>}, patches \cup {<<t, "error">>}}
  BY DEF Tab!Done, Tab!Close, Tab!Break, Tab!Answered, Tab!AskFails
<1>3. /\ patches \subseteq patches' /\ patches' \subseteq TabTurns \X {"done", "error"}
      /\ l = "ended" => \E p \in patches' : p[1] = t
  <2>1. patches \subseteq TabTurns \X {"done", "error"}
    BY DEF TabInv, TabTyped, TabSaves
  <2>2. PICK p, q \in TabTurns \X {"done", "error"} : p = <<t, "done">> /\ q = <<t, "error">>
    OBVIOUS
  <2>3. p[1] = t /\ q[1] = t
    BY <2>2
  <2> QED
    BY <1>2, <2>1, <2>2, <2>3
<1>4. turns \in [TabTurns -> {"unsent", "saving", "reading", "told", "empty", "asking", "ended"}]
  BY DEF TabInv, TabTyped, TabSaves
<1>5. TabPlaces'
  BY <1>1 DEF TabInv, TabTyped, TabPlaces
<1>6. TabScreen'
  <2>1. TabScreen
    BY DEF TabInv, TabTyped
  <2>2. t \in 0..MaxTurns /\ 0 \in 0..MaxTurns
    BY TabIds
  <2>3. rail' \in 0..MaxTurns /\ control' \in 0..MaxTurns
    BY <1>1, <2>1, <2>2 DEF TabScreen
  <2>4. streaming' \in BOOLEAN
    BY <1>1, <2>1 DEF TabScreen
  <2> QED
    BY <1>1, <2>1, <2>3, <2>4 DEF TabScreen
<1>7. TabSaves'
  <2>1. turns' \in [TabTurns -> {"unsent", "saving", "reading", "told", "empty", "asking", "ended"}]
    BY <1>2, <1>4
  <2> QED
    BY <1>1, <1>3, <2>1, StreamAborts DEF TabInv, TabTyped, TabSaves
<1>8. RowsStand' /\ RowsOrdered' /\ Waits' /\ OpenedOnce'
  BY <1>1 DEF TabInv, RowsStand, RowStands, RowsOrdered, Waits, OpenedOnce
<1>9. ASSUME NEW u \in TabTurns PROVE TurnStands(u)' /\ Written(u)'
  <2>1. TurnStands(u) /\ Written(u)
    BY DEF TabInv
  <2>2. CASE u = t
    <3>1. turns'[u] = l
      BY <1>2, <1>4, <2>2
    <3>2. TurnStands(u)'
      BY <1>1, <2>1, <2>2, <3>1 DEF TurnStands
    <3>3. Written(u)'
      BY <1>3, <2>2, <3>1 DEF Written
    <3> QED
      BY <3>2, <3>3
  <2>3. CASE u # t
    <3>1. turns'[u] = turns[u]
      BY <1>2, <1>4, <2>3
    <3>2. TurnStands(u)'
      BY <1>1, <2>1, <3>1 DEF TurnStands
    <3>3. Written(u)'
      BY <1>1, <1>3, <2>1, <3>1 DEF Written, Finished
    <3> QED
      BY <3>2, <3>3
  <2> QED
    BY <2>2, <2>3
<1>10. ASSUME NEW x \in Tab!Saves PROVE PostStands(x)'
  <2>1. PostStands(x)
    BY DEF TabInv
  <2> QED
    BY <1>1, <2>1 DEF PostStands, Saved
<1> QED
  BY <1>5, <1>6, <1>7, <1>8, <1>9, <1>10 DEF TabInv, TabTyped

(* What a row is sent to: the session at hand, or one that is waited for.  *)
LEMMA PersistIs ==
  ASSUME TabInv, NEW t \in TabTurns, NEW role \in Tab!Roles, Tab!Persist(t, role)
  PROVE  \E post \in Posts :
           /\ posts' = [posts EXCEPT ![<<t, role>>] = post] /\ bound' = bound
           /\ post.at \in {"waiting", "sent"} /\ post.to = bound
           /\ post.at = "sent" <=> bound # NoSession
           /\ loaded' = loaded \cup ({bound} \ {NoSession})
           /\ \/ UNCHANGED <<creating, ensured, lazily>> /\ (post.at = "waiting" => ensured # NoSession)
              \/ \E s \in Fresh \ creating :
                                  /\ bound = NoSession /\ ensured = NoSession
                                  /\ creating' = creating \cup {s} /\ ensured' = s
                                  /\ lazily' = lazily \cup {s}
<1>1. bound \in TabSessions \cup {NoSession}
  BY DEF TabInv, TabTyped, TabPlaces
<1>2. CASE bound # NoSession
  <2>1. PICK post : post = [at |-> "sent", to |-> bound]
    OBVIOUS
  <2>2. post \in Posts /\ post.at = "sent" /\ post.to = bound
    BY <1>1, <2>1 DEF Posts
  <2>3. /\ posts' = [posts EXCEPT ![<<t, role>>] = post] /\ bound' = bound
        /\ loaded' = loaded \cup {bound} /\ UNCHANGED <<creating, ensured, lazily>>
    BY <1>2, <2>1 DEF Tab!Persist, Tab!Own, NoSession
  <2> QED
    BY <1>2, <2>2, <2>3
<1>3. CASE bound = NoSession
  <2>1. PICK post : post = [at |-> "waiting", to |-> NoSession]
    OBVIOUS
  <2>2. post \in Posts /\ post.at = "waiting" /\ post.to = NoSession
    BY <2>1 DEF Posts
  <2>3. /\ posts' = [posts EXCEPT ![<<t, role>>] = post] /\ bound' = bound /\ loaded' = loaded
        /\ \/ ensured # NoSession /\ UNCHANGED <<creating, ensured, lazily>>
           \/ /\ ensured = NoSession /\ Tab!Spare # {} /\ creating' = creating \cup {Tab!NextId}
              /\ ensured' = Tab!NextId /\ lazily' = lazily \cup {Tab!NextId}
    BY <1>3, <2>1 DEF Tab!Persist, Tab!OpensOne, NoSession
  <2>4. Tab!Spare # {} => Tab!NextId \in Fresh \ creating
    BY NextIs DEF Tab!Spare
  <2> QED
    BY <1>3, <2>2, <2>3, <2>4
<1> QED
  BY <1>2, <1>3

(* A question is sent, or its answer's row once the question's is over: in *)
(* either case a row is sent to the session at hand, or waits for one.     *)
LEMMA SendSteps ==
  ASSUME TabInv, NEW t \in TabTurns, Tab!Send(t) \/ Tab!Open(t)
  PROVE  TabInv'
<1> DEFINE Stages == {"unsent", "saving", "reading", "told", "empty", "asking", "ended"}
<1>0. TabPlaces /\ TabScreen /\ TabSaves
  BY DEF TabInv, TabTyped
<1>1. PICK role \in Tab!Roles :
        /\ Tab!Persist(t, role)
        /\ \/ /\ role = "user" /\ turns[t] = "unsent" /\ turns' = [turns EXCEPT ![t] = "saving"]
           \/ /\ role = "assistant" /\ turns[t] = "saving" /\ posts[Question(t)].at = "over"
              /\ turns' = [turns EXCEPT ![t] = "reading"]
  BY DEF Tab!Send, Tab!Open, Tab!Roles, Question
<1>2. /\ UNCHANGED <<active, rendered, fetch, listing, sessions, messages, patches, left, overtaken,
                     hurt, outlisted>>
      /\ aborted' \subseteq aborted \cup ({control} \ {0})
      /\ rail' \in {rail, 0} /\ control' \in {control, t} /\ streaming' \in {streaming, TRUE}
      /\ thread' \in {thread, thread \o <<<<t, "user">>, <<t, "assistant">>>>}
  BY DEF Tab!Send, Tab!Open, Tab!server
<1>3. PICK post \in Posts :
           /\ posts' = [posts EXCEPT ![<<t, role>>] = post] /\ bound' = bound
           /\ post.at \in {"waiting", "sent"} /\ post.to = bound
           /\ post.at = "sent" <=> bound # NoSession
           /\ loaded' = loaded \cup ({bound} \ {NoSession})
           /\ \/ UNCHANGED <<creating, ensured, lazily>> /\ (post.at = "waiting" => ensured # NoSession)
              \/ \E s \in Fresh \ creating :
                                  /\ bound = NoSession /\ ensured = NoSession
                                  /\ creating' = creating \cup {s} /\ ensured' = s
                                  /\ lazily' = lazily \cup {s}
  BY <1>1, PersistIs
<1>4. PICK x \in Tab!Saves : x = <<t, role>>
  BY <1>1, TabIds DEF Tab!Saves
<1>5. posts \in [Tab!Saves -> Posts] /\ turns \in [TabTurns -> Stages]
  BY <1>0 DEF TabSaves
<1>6. /\ posts' \in [Tab!Saves -> Posts] /\ posts'[x] = post
      /\ \A y \in Tab!Saves : y # x => posts'[y] = posts[y]
  BY <1>3, <1>4, <1>5
<1>7. /\ turns' \in [TabTurns -> Stages]
      /\ \A u \in TabTurns : u # t => turns'[u] = turns[u]
      /\ turns'[t] \in {"saving", "reading"}
      /\ turns'[t] = "saving" => role = "user" /\ turns[t] = "unsent"
      /\ turns'[t] = "reading" =>
           role = "assistant" /\ turns[t] = "saving" /\ posts[Question(t)].at = "over"
  BY <1>1, <1>5
<1>8. posts[x].at = "none"
  <2>1. TurnStands(t)
    BY DEF TabInv
  <2> QED
    BY <1>1, <1>4, <2>1 DEF TurnStands, Question, Answer
<1>9. TabPlaces'
  BY <1>0, <1>2, <1>3 DEF TabPlaces
<1>10. TabScreen'
  <2>1. <<<<t, "user">>, <<t, "assistant">>>> \in Seq(RowIds)
    <3>1. <<t, "user">> \in RowIds /\ <<t, "assistant">> \in RowIds
      BY TabIds DEF RowIds, Tab!Roles
    <3> QED
      BY <3>1
  <2>2. thread' \in Seq(RowIds)
    <3>1. PICK two \in Seq(RowIds) : two = <<<<t, "user">>, <<t, "assistant">>>>
      BY <2>1, Zenon
    <3>2. PICK old \in Seq(RowIds) : old = thread
      BY <1>0 DEF TabScreen
    <3>3. old \o two \in Seq(RowIds)
      BY ConcatProperties
    <3> QED
      BY <1>2, <3>1, <3>2, <3>3
  <2>3. t \in 0..MaxTurns /\ 0 \in 0..MaxTurns
    BY TabIds
  <2>4. rail' \in 0..MaxTurns /\ control' \in 0..MaxTurns
    BY <1>0, <1>2, <2>3 DEF TabScreen
  <2>5. streaming' \in BOOLEAN
    BY <1>0, <1>2 DEF TabScreen
  <2> QED
    BY <1>0, <1>2, <2>2, <2>4, <2>5 DEF TabScreen
<1>11. TabSaves'
  BY <1>0, <1>2, <1>6, <1>7, StreamAborts DEF TabSaves
<1>12. RowsStand' /\ RowsOrdered'
  <2>1. RowsOrdered'
    BY <1>2 DEF TabInv, RowsOrdered
  <2>2. ASSUME NEW i \in DOMAIN messages PROVE RowStands(messages[i])'
    <3>1. RowStands(messages[i])
      BY DEF TabInv, RowsStand
    <3>2. messages[i].id \in RowIds
      <4>1. messages[i] \in MessageRows
        BY <1>0 DEF TabSaves
      <4> QED
        BY <4>1 DEF MessageRows
    <3>3. messages[i].id[1] # Tab!OldTurn => messages[i].id \in Tab!Saves
      BY <3>2, TabIds DEF RowIds, Tab!OldTurn, Tab!Saves, Tab!Turns, TabTurns
    <3>4. messages[i].id[1] # Tab!OldTurn => messages[i].id # x
      BY <1>8, <3>1 DEF RowStands
    <3>5. messages[i].id[1] # Tab!OldTurn => posts'[messages[i].id] = posts[messages[i].id]
      BY <1>6, <3>3, <3>4
    <3> QED
      BY <1>2, <3>1, <3>5 DEF RowStands
  <2> QED
    BY <1>2, <2>1, <2>2 DEF RowsStand
<1>13. Waits'
  <2>1. \A y \in Tab!Saves : posts[y].at = "waiting" => posts'[y].at = "waiting"
    BY <1>6, <1>8
  <2>2. \A y \in Tab!Saves : posts'[y].at = "waiting" => posts[y].at = "waiting" \/ y = x
    BY <1>6
  <2>3. \A s \in Fresh : s # NoSession
    BY TabIds DEF TabSessions
  <2> QED
    BY <1>3, <1>6, <2>1, <2>2, <2>3 DEF TabInv, Waits
<1>14. OpenedOnce'
  <2>1. OpenedOnce
    BY DEF TabInv
  <2>2. \A s \in Fresh : s # NoSession
    BY TabIds DEF TabSessions
  <2>3. CASE UNCHANGED <<creating, ensured, lazily>>
    BY <1>2, <1>3, <2>1, <2>3 DEF OpenedOnce
  <2>4. ASSUME NEW s \in Fresh, bound = NoSession, ensured = NoSession,
               ensured' = s, lazily' = lazily \cup {s}
        PROVE  OpenedOnce'
    <3>1. hurt = {} /\ ~outlisted => lazily = {}
      BY <2>1, <2>4 DEF OpenedOnce
    <3> QED
      BY <1>2, <2>2, <2>4, <3>1 DEF OpenedOnce
  <2> QED
    BY <1>3, <2>3, <2>4
<1>15. ASSUME NEW u \in TabTurns PROVE TurnStands(u)' /\ Written(u)'
  <2>1. TurnStands(u) /\ Written(u)
    BY DEF TabInv
  <2>2. Written(u)'
    BY <1>2, <1>7, <2>1 DEF Written, Finished
  <2>3. Question(u) \in Tab!Saves /\ Answer(u) \in Tab!Saves
    BY TabIds
  <2>4. CASE u # t
    <3>1. Question(u) # x /\ Answer(u) # x
      BY <1>4, <2>4 DEF Question, Answer
    <3>2. posts'[Question(u)] = posts[Question(u)] /\ posts'[Answer(u)] = posts[Answer(u)]
      BY <1>6, <2>3, <3>1
    <3>3. turns'[u] = turns[u]
      BY <1>7, <2>4
    <3>4. TurnStands(u)'
      BY <1>2, <1>3, <2>1, <3>2, <3>3 DEF TurnStands
    <3> QED
      BY <2>2, <3>4
  <2>5. CASE u = t /\ turns'[t] = "saving"
    <3>1. x = Question(t) /\ Answer(t) # x /\ turns[t] = "unsent"
      BY <1>4, <1>7, <2>5 DEF Question, Answer
    <3>2. posts'[Question(t)] = post /\ posts'[Answer(t)] = posts[Answer(t)]
      BY <1>6, <2>3, <2>5, <3>1
    <3>3. TurnStands(u)'
      BY <1>3, <2>1, <2>5, <3>1, <3>2 DEF TurnStands
    <3> QED
      BY <2>2, <3>3
  <2>6. CASE u = t /\ turns'[t] = "reading"
    <3>1. x = Answer(t) /\ Question(t) # x /\ turns[t] = "saving" /\ posts[Question(t)].at = "over"
      BY <1>4, <1>7, <2>6 DEF Question, Answer
    <3>2. posts'[Answer(t)] = post /\ posts'[Question(t)] = posts[Question(t)]
      BY <1>6, <2>3, <2>6, <3>1
    <3>3. TurnStands(u)'
      BY <1>2, <1>3, <2>1, <2>6, <3>1, <3>2 DEF TurnStands
    <3> QED
      BY <2>2, <3>3
  <2> QED
    BY <1>7, <2>4, <2>5, <2>6
<1>16. ASSUME NEW y \in Tab!Saves PROVE PostStands(y)'
  <2>1. PostStands(y)
    BY DEF TabInv
  <2>2. CASE y # x
    BY <1>2, <1>6, <2>1, <2>2 DEF PostStands, Saved
  <2>3. CASE y = x
    <3>1. bound # NoSession => bound \in sessions
      BY <1>0 DEF TabPlaces
    <3> QED
      BY <1>2, <1>3, <1>6, <2>3, <3>1 DEF PostStands
  <2> QED
    BY <2>2, <2>3
<1> QED
  BY <1>9, <1>10, <1>11, <1>12, <1>13, <1>14, <1>15, <1>16 DEF TabInv, TabTyped

-----------------------------------------------------------------------------
(* ChatClient: the requests of the saves come back. *)

(* The session sends wait for is there, or cannot be created: whoever      *)
(* waits goes on, and nobody is left waiting.                              *)
LEMMA OpeningSteps ==
  ASSUME TabInv, ensured \in Fresh, Tab!Created(ensured) \/ Tab!CreateFails(ensured)
  PROVE  TabInv'
<1> DEFINE Waiting == {x \in Tab!Saves : posts[x].at = "waiting"}
           s == ensured
<1>0. TabPlaces /\ TabScreen /\ TabSaves /\ posts \in [Tab!Saves -> Posts]
  BY DEF TabInv, TabTyped, TabSaves
<1>1. PICK save \in Posts :
        /\ posts' = [x \in Tab!Saves |-> IF x \in Waiting THEN save ELSE posts[x]]
        /\ \/ /\ save.at = "sent" /\ save.to = s /\ s \in sessions
              /\ active' = s /\ bound' = s /\ loaded' = loaded \cup {s}
              /\ left' = left \cup Tab!Leaving(s) /\ UNCHANGED hurt
           \/ /\ save.at = "over" /\ save.to = NoSession
              /\ UNCHANGED <<active, bound, loaded, left>>
              /\ hurt' = hurt \cup {x[1] : x \in Waiting}
  <2>1. CASE Tab!Created(s)
    <3>1. PICK save : save = [at |-> "sent", to |-> s]
      OBVIOUS
    <3>2. save \in Posts /\ save.at = "sent" /\ save.to = s
      BY <3>1 DEF Posts, TabSessions
    <3>3. /\ posts' = [x \in Tab!Saves |-> IF x \in Waiting THEN save ELSE posts[x]]
          /\ s \in sessions /\ active' = s /\ bound' = s /\ loaded' = loaded \cup {s}
          /\ left' = left \cup Tab!Leaving(s) /\ UNCHANGED hurt
      BY <2>1, <3>1 DEF Tab!Created, Tab!Own, Tab!Resumed, Tab!Waiting
    <3> QED
      BY <3>2, <3>3
  <2>2. CASE Tab!CreateFails(s)
    <3>1. PICK save : save = [at |-> "over", to |-> NoSession]
      OBVIOUS
    <3>2. save \in Posts /\ save.at = "over" /\ save.to = NoSession
      BY <3>1 DEF Posts
    <3>3. /\ posts' = [x \in Tab!Saves |-> IF x \in Waiting THEN save ELSE posts[x]]
          /\ UNCHANGED <<active, bound, loaded, left>>
          /\ hurt' = hurt \cup {x[1] : x \in Waiting}
      BY <2>2, <3>1 DEF Tab!CreateFails, Tab!Resumed, Tab!Waiting, Tab!tab, NoSession
    <3> QED
      BY <3>2, <3>3
  <2> QED
    BY <2>1, <2>2
<1>2. /\ UNCHANGED <<rendered, thread, rail, streaming, control, turns, aborted, fetch, listing,
                     sessions, messages, patches, overtaken, outlisted, lazily>>
      /\ ensured' = NoSession /\ creating' = creating \ {s}
  BY DEF Tab!Created, Tab!CreateFails, Tab!tab, Tab!server, NoSession
<1>3. /\ posts' \in [Tab!Saves -> Posts]
      /\ \A x \in Waiting : posts'[x] = save
      /\ \A x \in Tab!Saves \ Waiting : posts'[x] = posts[x]
  BY <1>0, <1>1
<1>4. /\ s # NoSession /\ s \in TabSessions /\ left \subseteq left' /\ hurt \subseteq hurt'
      /\ left' \cup hurt' \subseteq TabTurns
  <2>1. \A x \in Waiting : x[1] \in TabTurns
    BY TabIds
  <2> QED
    BY <1>0, <1>1, <2>1, LeavingIs, TabIds DEF TabSaves, TabSessions
<1>5. TabPlaces'
  BY <1>0, <1>1, <1>2, <1>4 DEF TabPlaces
<1>6. TabScreen'
  BY <1>0, <1>2 DEF TabScreen
<1>7. TabSaves'
  BY <1>0, <1>2, <1>3, <1>4 DEF TabSaves
<1>8. Waits'
  BY <1>1, <1>2, <1>3 DEF Waits
<1>9. OpenedOnce'
  <2>1. OpenedOnce /\ Waits
    BY DEF TabInv
  <2>2. CASE save.at = "sent"
    BY <1>1, <1>2, <1>4, <2>1, <2>2 DEF OpenedOnce
  <2>3. CASE save.at = "over"
    <3>1. PICK x \in Waiting : TRUE
      BY <1>4, <2>1 DEF Waits
    <3>2. hurt' # {}
      BY <1>1, <2>3, <3>1
    <3> QED
      BY <3>2 DEF OpenedOnce
  <2> QED
    BY <1>1, <2>2, <2>3
<1>10. RowsStand' /\ RowsOrdered'
  <2>1. RowsOrdered'
    BY <1>2 DEF TabInv, RowsOrdered
  <2>2. ASSUME NEW i \in DOMAIN messages PROVE RowStands(messages[i])'
    <3>1. RowStands(messages[i])
      BY DEF TabInv, RowsStand
    <3>2. messages[i].id \in RowIds
      <4>1. messages[i] \in MessageRows
        BY <1>0 DEF TabSaves
      <4> QED
        BY <4>1 DEF MessageRows
    <3>3. messages[i].id[1] # Tab!OldTurn => messages[i].id \in Tab!Saves
      BY <3>2, TabIds DEF RowIds, Tab!OldTurn, Tab!Saves, Tab!Turns, TabTurns
    <3>4. messages[i].id[1] # Tab!OldTurn => posts'[messages[i].id] = posts[messages[i].id]
      BY <1>3, <3>1, <3>3 DEF RowStands
    <3> QED
      BY <1>2, <3>1, <3>4 DEF RowStands
  <2> QED
    BY <1>2, <2>1, <2>2 DEF RowsStand
<1>11. ASSUME NEW t \in TabTurns PROVE TurnStands(t)' /\ Written(t)'
  <2>1. TurnStands(t) /\ Written(t)
    BY DEF TabInv
  <2>2. Written(t)'
    BY <1>2, <1>4, <2>1 DEF Written, Finished
  <2>3. PICK q, a : q = Question(t) /\ a = Answer(t)
    OBVIOUS
  <2>4. q \in Tab!Saves /\ a \in Tab!Saves /\ PostStands(q) /\ PostStands(a)
    BY <2>3, TabIds DEF TabInv
  <2>5. turns[t] = "saving" /\ t \notin left' => posts'[q].to \in {NoSession, bound'}
    <3>1. CASE q \in Waiting
      BY <1>1, <1>3, <3>1
    <3>2. CASE q \notin Waiting /\ save.at = "sent"
      <4>1. turns[t] = "saving" /\ t \notin Tab!Leaving(s) => posts[q].to \in {NoSession, s}
        BY <2>3, LeavingIs
      <4> QED
        BY <1>1, <1>3, <2>4, <3>2, <4>1
    <3>3. CASE q \notin Waiting /\ save.at = "over"
      BY <1>1, <1>3, <2>1, <2>3, <2>4, <3>3 DEF TurnStands
    <3> QED
      BY <1>1, <3>1, <3>2, <3>3
  <2>6. turns[t] \notin {"unsent", "saving"} \/ posts[a].at = "none"
    BY <2>1, <2>3 DEF TurnStands
  <2>7. posts[a].at # "none" => posts'[q] = posts[q]
    BY <1>3, <2>1, <2>3, <2>4, <2>6 DEF TurnStands
  <2>8. posts[a].at # "none" /\ t \notin left' => posts'[q].to \in {NoSession, posts'[a].to}
    <3>1. CASE a \in Waiting
      BY <1>3, <1>4, <2>1, <2>3, <2>4, <2>7, <3>1 DEF TurnStands, PostStands
    <3>2. CASE a \notin Waiting
      BY <1>3, <1>4, <2>1, <2>3, <2>4, <2>7, <3>2 DEF TurnStands
    <3> QED
      BY <3>1, <3>2
  <2>9. /\ posts'[q].at = "none" <=> posts[q].at = "none"
        /\ posts'[a].at = "none" <=> posts[a].at = "none"
        /\ posts[q].at = "over" => posts'[q].at = "over"
    BY <1>1, <1>3, <2>4
  <2>10. TurnStands(t)'
    BY <1>2, <2>1, <2>3, <2>5, <2>8, <2>9 DEF TurnStands
  <2> QED
    BY <2>2, <2>10
<1>12. ASSUME NEW x \in Tab!Saves PROVE PostStands(x)'
  <2>1. PostStands(x)
    BY DEF TabInv
  <2>2. CASE x \in Waiting
    BY <1>1, <1>2, <1>3, <2>2 DEF PostStands
  <2>3. CASE x \notin Waiting
    BY <1>2, <1>3, <1>4, <2>1, <2>3 DEF PostStands, Saved, NoSession
  <2> QED
    BY <2>2, <2>3
<1> QED
  BY <1>5, <1>6, <1>7, <1>8, <1>9, <1>10, <1>11, <1>12 DEF TabInv, TabTyped

(* A row is saved behind the others, or lost.                              *)
LEMMA SaveSteps ==
  ASSUME TabInv, NEW x \in Tab!Saves, Tab!SaveRow(x) \/ Tab!SaveFails(x)
  PROVE  TabInv'
<1>0. /\ TabPlaces /\ TabScreen /\ TabSaves /\ posts \in [Tab!Saves -> Posts]
      /\ messages \in Seq(MessageRows)
  BY DEF TabInv, TabTyped, TabSaves
<1>1. /\ UNCHANGED <<active, rendered, bound, loaded, thread, rail, streaming, control, turns, aborted,
                     fetch, listing, creating, ensured, sessions, patches, left, overtaken,
                     outlisted, lazily>>
      /\ posts[x].at = "sent" /\ posts' = [posts EXCEPT ![x].at = "over"]
  BY DEF Tab!SaveRow, Tab!SaveFails, Tab!tab, Tab!calls, Tab!history, Tab!server
<1>2. /\ posts' \in [Tab!Saves -> Posts] /\ posts'[x].at = "over" /\ posts'[x].to = posts[x].to
      /\ \A y \in Tab!Saves : y # x => posts'[y] = posts[y]
  <2>1. PICK post : post = [posts[x] EXCEPT !.at = "over"]
    OBVIOUS
  <2>2. posts[x] \in Posts
    BY <1>0
  <2>3. post \in Posts /\ post.at = "over" /\ post.to = posts[x].to
    BY <2>1, <2>2 DEF Posts
  <2>4. posts' = [posts EXCEPT ![x] = post]
    BY <1>0, <1>1, <2>1
  <2> QED
    BY <1>0, <2>3, <2>4
<1>3. posts[x].to \in TabSessions
  <2>1. PostStands(x)
    BY DEF TabInv
  <2> QED
    BY <1>0, <1>1, <2>1 DEF PostStands, TabPlaces
<1>4. \/ messages' = messages /\ hurt' = hurt \cup {x[1]}
      \/ /\ hurt' = hurt
         /\ \E r \in MessageRows : /\ r.id = x /\ r.session = posts[x].to
                                   /\ messages' = Append(messages, r)
  <2>1. CASE Tab!SaveFails(x)
    BY <2>1 DEF Tab!SaveFails, Tab!server
  <2>2. CASE Tab!SaveRow(x)
    <3>1. PICK status \in {"done", "streaming"} : status = Tab!StatusOf(x[2])
      BY DEF Tab!StatusOf
    <3>2. PICK r : r = [id |-> x, session |-> posts[x].to, status |-> status]
      OBVIOUS
    <3>3. r \in MessageRows /\ r.id = x /\ r.session = posts[x].to
      BY <1>3, <3>2, TabIds DEF MessageRows
    <3>4. messages' = Append(messages, r) /\ hurt' = hurt
      BY <2>2, <3>1, <3>2 DEF Tab!SaveRow, Tab!RowOf, Tab!history
    <3> QED
      BY <3>3, <3>4
  <2> QED
    BY <2>1, <2>2
<1>5. PICK n \in Nat : n = Len(messages) /\ DOMAIN messages = 1..n
  BY <1>0, LenProperties
<1> DEFINE Grown ==
             /\ messages' \in Seq(MessageRows)
             /\ \A i \in 1..n : i \in DOMAIN messages' /\ messages'[i] = messages[i]
             /\ DOMAIN messages' \in {1..n, 1..(n + 1)}
             /\ n + 1 \in DOMAIN messages' =>
                  messages'[n + 1].id = x /\ messages'[n + 1].session = posts[x].to
             /\ \/ n + 1 \in DOMAIN messages' /\ hurt' = hurt
                \/ hurt' = hurt \cup {x[1]} /\ messages' = messages
<1>6. Grown
  <2>1. CASE messages' = messages /\ hurt' = hurt \cup {x[1]}
    BY <1>0, <1>5, <2>1
  <2>2. ASSUME NEW r \in MessageRows, r.id = x, r.session = posts[x].to,
               messages' = Append(messages, r), hurt' = hurt
        PROVE  Grown
    <3>1. PICK old \in Seq(MessageRows) : old = messages
      BY <1>0
    <3>2. /\ Append(old, r) \in Seq(MessageRows) /\ DOMAIN Append(old, r) = 1..(n + 1)
          /\ \A i \in 1..n : Append(old, r)[i] = old[i]
          /\ Append(old, r)[n + 1] = r
      BY <1>5, <3>1
    <3> QED
      BY <1>5, <2>2, <3>1, <3>2
  <2> QED
    BY <1>4, <2>1, <2>2
<1>7. x[1] \in TabTurns /\ x \in RowIds /\ (x = Question(x[1]) \/ x = Answer(x[1]))
  BY TabIds
<1>8. TabPlaces' /\ TabScreen'
  BY <1>0, <1>1 DEF TabPlaces, TabScreen
<1>9. TabSaves'
  <2>1. hurt' \subseteq TabTurns
    BY <1>0, <1>4, <1>7 DEF TabSaves
  <2> QED
    BY <1>0, <1>1, <1>2, <1>6, <2>1 DEF TabSaves
<1>10. Waits'
  BY <1>1, <1>2 DEF TabInv, Waits
<1>11. OpenedOnce'
  <2>1. hurt' = {} => hurt = {}
    BY <1>4
  <2> QED
    BY <1>1, <2>1 DEF TabInv, OpenedOnce
<1>12. ASSUME NEW i \in 1..n
       PROVE  /\ messages[i].id # x /\ RowStands(messages[i])'
              /\ messages[i].id[1] = x[1] => messages[i].id[2] = "user" /\ x[2] = "assistant"
  <2>1. RowStands(messages[i]) /\ messages[i] \in MessageRows
    BY <1>0, <1>5 DEF TabInv, RowsStand
  <2>2. messages[i].id \in RowIds
    BY <2>1 DEF MessageRows
  <2>3. messages[i].id[1] # Tab!OldTurn => messages[i].id \in Tab!Saves
    BY <2>2, TabIds DEF RowIds, Tab!OldTurn, Tab!Saves, Tab!Turns, TabTurns
  <2>4. x[1] # Tab!OldTurn
    BY <1>7, TabIds DEF Tab!OldTurn
  <2>5. messages[i].id # x
    BY <1>1, <2>1, <2>4 DEF RowStands
  <2>6. RowStands(messages[i])'
    BY <1>1, <1>2, <1>6, <2>1, <2>3, <2>5 DEF RowStands
  <2>7. ASSUME messages[i].id[1] = x[1]
        PROVE  messages[i].id[2] = "user" /\ x[2] = "assistant"
    <3>1. PICK t \in TabTurns : t = x[1]
      BY <1>7
    <3>2. TurnStands(t)
      BY DEF TabInv
    <3>3. PICK y \in Tab!Saves : y = messages[i].id
      BY <2>3, <2>4, <2>7
    <3>4. posts[y].at = "over" /\ y[1] = t /\ (y = Question(t) \/ y = Answer(t))
      BY <2>1, <2>4, <2>7, <3>1, <3>3, TabIds DEF RowStands
    <3>5. x # Question(t)
      <4>1. SUFFICES ASSUME x = Question(t) PROVE FALSE
        OBVIOUS
      <4>2. y = Answer(t)
        BY <2>5, <3>3, <3>4, <4>1
      <4> QED
        BY <1>1, <3>2, <3>4, <4>1, <4>2 DEF TurnStands
    <3>6. x = Answer(t) /\ y = Question(t)
      BY <1>7, <2>5, <3>1, <3>3, <3>4, <3>5
    <3> QED
      BY <3>3, <3>6 DEF Question, Answer
  <2> QED
    BY <2>5, <2>6, <2>7
<1>13. RowsStand'
  <2>1. posts[x].to \in sessions
    BY <1>1 DEF TabInv, PostStands
  <2>2. n + 1 \in DOMAIN messages' => RowStands(messages[n + 1])'
    <3>1. ASSUME n + 1 \in DOMAIN messages' PROVE RowStands(messages[n + 1])'
      BY <1>1, <1>2, <1>6, <1>7, <2>1, <3>1, TabIds DEF RowStands, Tab!OldTurn
    <3> QED
      BY <3>1
  <2>4. ASSUME NEW i \in DOMAIN messages' PROVE RowStands(messages[i])'
    <3>1. i \in 1..n \/ i = n + 1
      BY <1>6
    <3> QED
      BY <1>6, <1>12, <2>2, <3>1 DEF RowStands
  <2> QED
    BY <2>4 DEF RowsStand
<1>14. RowsOrdered'
  <2> SUFFICES ASSUME NEW i \in DOMAIN messages', NEW j \in DOMAIN messages', i < j,
                      messages'[i].id[1] = messages'[j].id[1]
               PROVE  messages'[i].id[2] = "user" /\ messages'[j].id[2] = "assistant"
    BY DEF RowsOrdered
  <2>1. i \in 1..n /\ (j \in 1..n \/ j = n + 1)
    BY <1>6
  <2>2. messages'[i] = messages[i] /\ (j \in 1..n => messages'[j] = messages[j])
    BY <1>6, <2>1
  <2>3. CASE j \in 1..n
    BY <1>5, <2>1, <2>2, <2>3 DEF TabInv, RowsOrdered
  <2>4. CASE j = n + 1
    BY <1>6, <1>12, <2>1, <2>2, <2>4
  <2> QED
    BY <2>1, <2>3, <2>4
<1>15. ASSUME NEW t \in TabTurns PROVE TurnStands(t)' /\ Written(t)'
  <2>1. TurnStands(t) /\ Written(t)
    BY DEF TabInv
  <2>2. Finished(t) => Finished(t)'
    BY <1>5, <1>6 DEF Finished
  <2>3. Written(t)'
    BY <1>1, <1>4, <2>1, <2>2 DEF Written
  <2>4. PICK q, a : q = Question(t) /\ a = Answer(t)
    OBVIOUS
  <2>5. q \in Tab!Saves /\ a \in Tab!Saves
    BY <2>4, TabIds
  <2>6. /\ posts'[q].to = posts[q].to /\ posts'[a].to = posts[a].to
        /\ posts'[q].at = "none" <=> posts[q].at = "none"
        /\ posts'[a].at = "none" <=> posts[a].at = "none"
        /\ posts[q].at = "over" => posts'[q].at = "over"
    BY <1>1, <1>2, <2>5
  <2>7. TurnStands(t)'
    BY <1>1, <2>1, <2>4, <2>6 DEF TurnStands, NoSession
  <2> QED
    BY <2>3, <2>7
<1>16. ASSUME NEW y \in Tab!Saves PROVE PostStands(y)'
  <2>1. PostStands(y)
    BY DEF TabInv
  <2>2. Saved(y) => Saved(y)'
    BY <1>5, <1>6 DEF Saved
  <2>3. hurt \subseteq hurt'
    BY <1>4
  <2>4. CASE y # x
    BY <1>1, <1>2, <2>1, <2>2, <2>3, <2>4 DEF PostStands, NoSession
  <2>5. CASE y = x
    <3>1. x[1] \notin hurt' => Saved(x)'
      BY <1>6 DEF Saved
    <3> QED
      BY <1>2, <2>5, <3>1 DEF PostStands
  <2> QED
    BY <2>4, <2>5
<1> QED
  BY <1>8, <1>9, <1>10, <1>11, <1>13, <1>14, <1>15, <1>16 DEF TabInv, TabTyped

(* An answer is written to its row, finds none, or is lost.                *)
LEMMA UpdateSteps ==
  ASSUME TabInv, NEW p \in patches, Tab!UpdateRow(p) \/ Tab!UpdateFails(p)
  PROVE  TabInv'
<1>0. /\ TabPlaces /\ TabScreen /\ TabSaves /\ messages \in Seq(MessageRows)
  BY DEF TabInv, TabTyped, TabSaves
<1>1. /\ UNCHANGED <<active, rendered, bound, loaded, thread, rail, streaming, control, turns, posts,
                     aborted, fetch, listing, creating, ensured, sessions, left, outlisted, lazily>>
      /\ patches' = patches \ {p}
  BY DEF Tab!UpdateRow, Tab!UpdateFails, Tab!tab, Tab!turn, Tab!calls
<1>2. p[1] \in TabTurns /\ p[2] \in {"done", "error"}
  BY <1>0 DEF TabSaves
<1>3. PICK n \in Nat : DOMAIN messages = 1..n
  BY <1>0, LenProperties
<1>4. /\ messages' \in Seq(MessageRows) /\ DOMAIN messages' = 1..n
      /\ \A i \in 1..n : /\ messages'[i].id = messages[i].id
                         /\ messages'[i].session = messages[i].session
                         /\ messages'[i].status # messages[i].status =>
                              messages'[i].status # "streaming"
      /\ hurt \subseteq hurt' /\ overtaken \subseteq overtaken' /\ hurt' \cup overtaken' \subseteq TabTurns
      /\ \/ p[1] \in hurt' \cup overtaken'
         \/ \E i \in 1..n : messages'[i].id = Answer(p[1]) /\ messages'[i].status # "streaming"
  <2>1. CASE Tab!UpdateFails(p)
    <3>1. messages' = messages /\ hurt' = hurt \cup {p[1]} /\ overtaken' = overtaken
      BY <2>1 DEF Tab!UpdateFails
    <3> QED
      BY <1>0, <1>2, <1>3, <3>1 DEF TabSaves
  <2>2. CASE Tab!UpdateRow(p)
    <3>1. PICK found : found = {i \in 1..n : messages[i].id = Answer(p[1])}
      OBVIOUS
    <3>2. /\ messages' = [i \in 1..n |-> IF i \in found THEN [messages[i] EXCEPT !.status = p[2]]
                                          ELSE messages[i]]
          /\ overtaken' = (IF found = {} THEN overtaken \cup {p[1]} ELSE overtaken)
          /\ hurt' = hurt
      BY <1>3, <2>2, <3>1 DEF Tab!UpdateRow, Answer
    <3>3. \A i \in 1..n : messages[i] \in MessageRows
      BY <1>0, <1>3
    <3>4. ASSUME NEW i \in 1..n
          PROVE  /\ messages'[i] \in MessageRows /\ messages'[i].id = messages[i].id
                 /\ messages'[i].session = messages[i].session
                 /\ messages'[i].status \in {messages[i].status, p[2]}
                 /\ i \in found => messages'[i].status = p[2]
      <4>1. PICK r \in MessageRows : r = messages[i]
        BY <3>3
      <4>2. PICK now : now = [r EXCEPT !.status = p[2]]
        OBVIOUS
      <4>3. /\ now \in MessageRows /\ now.id = r.id /\ now.session = r.session
            /\ now.status = p[2]
        BY <1>2, <4>2 DEF MessageRows
      <4>4. messages'[i] = IF i \in found THEN now ELSE r
        BY <3>2, <4>1, <4>2
      <4> QED
        BY <4>1, <4>3, <4>4
    <3>5. messages' \in [1..n -> MessageRows] /\ DOMAIN messages' = 1..n
      BY <3>2, <3>4
    <3>6. messages' \in Seq(MessageRows)
      BY <3>5, SeqDef
    <3>7. p[2] # "streaming"
      BY <1>2
    <3>8. found # {} => \E i \in 1..n : messages'[i].id = Answer(p[1]) /\ messages'[i].status # "streaming"
      BY <3>1, <3>4, <3>7
    <3> QED
      BY <1>0, <1>2, <3>2, <3>4, <3>5, <3>6, <3>7, <3>8 DEF TabSaves
  <2> QED
    BY <2>1, <2>2
<1>5. TabPlaces' /\ TabScreen'
  BY <1>0, <1>1 DEF TabPlaces, TabScreen
<1>6. TabSaves'
  BY <1>0, <1>1, <1>4 DEF TabSaves
<1>7. Waits'
  BY <1>1 DEF TabInv, Waits
<1>8. OpenedOnce'
  <2>1. hurt' = {} => hurt = {}
    BY <1>4
  <2> QED
    BY <1>1, <2>1 DEF TabInv, OpenedOnce
<1>9. RowsStand'
  BY <1>1, <1>3, <1>4 DEF TabInv, RowsStand, RowStands
<1>10. RowsOrdered'
  BY <1>3, <1>4 DEF TabInv, RowsOrdered
<1>11. ASSUME NEW t \in TabTurns PROVE TurnStands(t)' /\ Written(t)'
  <2>1. TurnStands(t) /\ Written(t)
    BY DEF TabInv
  <2>2. TurnStands(t)'
    BY <1>1, <2>1 DEF TurnStands, NoSession
  <2>3. Finished(t) => Finished(t)'
    BY <1>3, <1>4 DEF Finished
  <2>4. t = p[1] /\ t \notin hurt' \cup overtaken' => Finished(t)'
    BY <1>4 DEF Finished
  <2>5. t # p[1] => \A q \in patches : q[1] = t => q \in patches'
    BY <1>1
  <2>6. Written(t)'
    BY <1>1, <1>4, <2>1, <2>3, <2>4, <2>5 DEF Written
  <2> QED
    BY <2>2, <2>6
<1>12. ASSUME NEW x \in Tab!Saves PROVE PostStands(x)'
  <2>1. PostStands(x)
    BY DEF TabInv
  <2>2. Saved(x) => Saved(x)'
    BY <1>3, <1>4 DEF Saved
  <2> QED
    BY <1>1, <1>4, <2>1, <2>2 DEF PostStands, NoSession
<1> QED
  BY <1>5, <1>6, <1>7, <1>8, <1>9, <1>10, <1>11, <1>12 DEF TabInv, TabTyped

(* Every step keeps it.                                                    *)
LEMMA TabStep == TabInv /\ (Tab!ClientNext \/ UNCHANGED client) => TabInv'
<1> SUFFICES ASSUME TabInv, Tab!ClientNext \/ UNCHANGED client PROVE TabInv'
  OBVIOUS
<1>1. CASE UNCHANGED client \/ Tab!Rest
  <2>1. UNCHANGED client
    BY <1>1 DEF client, Tab!Rest, Tab!clientVars, Tab!tab, Tab!turn, Tab!calls, Tab!server,
                Tab!history
  <2>2. TabPlaces' /\ TabScreen'
    BY <2>1 DEF client, TabInv, TabTyped, TabPlaces, TabScreen
  <2>3. OpenedOnce'
    BY <2>1 DEF client, TabInv, OpenedOnce
  <2>4. left' \cup aborted' \subseteq TabTurns
    BY <2>1, StreamAborts DEF client
  <2>5. \A t \in TabTurns : turns[t] = "saving" /\ t \notin left' =>
          posts[Question(t)].to \in {NoSession, bound'}
    BY <2>1 DEF client, TabInv, TurnStands
  <2> QED
    BY <2>1, <2>2, <2>3, <2>4, <2>5, TabQuiet DEF client
<1>2. CASE \/ Tab!Refresh \/ Tab!List \/ Tab!Listed \/ Tab!ListFails
           \/ Tab!NewChat \/ Tab!Rebind \/ Tab!Fetch \/ Tab!Fetched \/ Tab!FetchFails
  BY <1>2, SessionSteps, ThreadSteps
<1>3. ASSUME NEW s \in Fresh, Tab!Create(s) \/ Tab!Created(s) \/ Tab!CreateFails(s)
      PROVE  TabInv'
  <2>1. CASE s = ensured
    BY <1>3, <2>1, SessionSteps, OpeningSteps
  <2>2. CASE s # ensured
    BY <1>3, <2>2, SessionSteps
  <2> QED
    BY <2>1, <2>2
<1>4. ASSUME NEW t \in Tab!Turns,
             \/ Tab!Send(t) \/ Tab!Open(t) \/ Tab!Done(t) \/ Tab!Close(t)
             \/ Tab!Break(t) \/ Tab!Answered(t) \/ Tab!AskFails(t)
      PROVE  TabInv'
  BY <1>4, TabIds, SendSteps, AnswerSteps
<1>5. ASSUME NEW x \in Tab!Saves, Tab!SaveRow(x) \/ Tab!SaveFails(x) PROVE TabInv'
  BY <1>5, SaveSteps
<1>6. ASSUME NEW p \in patches, Tab!UpdateRow(p) \/ Tab!UpdateFails(p) PROVE TabInv'
  BY <1>6, UpdateSteps
<1> QED
  BY <1>1, <1>2, <1>3, <1>4, <1>5, <1>6 DEF Tab!ClientNext

(* What the invariant says of types, and of turns.                         *)
LEMMA TabTypes == TabInv => Tab!ClientTypeOK
<1> SUFFICES ASSUME TabInv PROVE Tab!ClientTypeOK
  OBVIOUS
<1>1. TabPlaces /\ TabScreen /\ TabSaves
  BY DEF TabInv, TabTyped
<1>2. /\ {active, rendered, bound, ensured} \subseteq Fresh \cup {Tab!NoSession, Tab!Old}
      /\ loaded \cup creating \cup lazily \subseteq Fresh \cup {Tab!Old}
  BY <1>1 DEF TabPlaces, TabSessions, NoSession
<1>3. turns \in [Tab!Turns -> {"unsent", "saving", "reading", "told", "empty", "asking", "ended"}]
  BY <1>1, TabIds DEF TabSaves
<1>4. \A x \in Tab!Saves : posts[x].at \in {"none", "waiting", "sent", "over"}
  BY <1>1 DEF TabSaves, Posts
<1>5. left \cup overtaken \cup hurt \cup aborted \subseteq Tab!Turns
  BY <1>1, TabIds DEF TabSaves
<1>6. \A i \in DOMAIN messages : /\ messages[i].session \in sessions
                                 /\ messages[i].status \in {"done", "streaming", "error"}
  <2>1. \A i \in DOMAIN messages : messages[i] \in MessageRows
    BY <1>1 DEF TabSaves
  <2> QED
    BY <2>1 DEF TabInv, RowsStand, RowStands, MessageRows
<1>7. rail \in 0..MaxTurns /\ control \in 0..MaxTurns /\ streaming \in BOOLEAN
  BY <1>1 DEF TabScreen
<1> QED
  BY <1>2, <1>3, <1>4, <1>5, <1>6, <1>7 DEF Tab!ClientTypeOK

LEMMA TabSavesTurns == TabInv => Tab!TurnsAreWhole /\ Tab!OneLazySession
<1> SUFFICES ASSUME TabInv PROVE Tab!TurnsAreWhole /\ Tab!OneLazySession
  OBVIOUS
<1>1. ASSUME NEW i \in DOMAIN messages, NEW j \in DOMAIN messages, i < j,
             messages[i].id[1] = messages[j].id[1]
      PROVE  /\ messages[i].id[2] = "user" /\ messages[j].id[2] = "assistant"
             /\ messages[i].session = messages[j].session \/ messages[i].id[1] \in left
  <2>1. messages[i].id[2] = "user" /\ messages[j].id[2] = "assistant"
    BY <1>1 DEF TabInv, RowsOrdered
  <2>2. /\ RowStands(messages[i]) /\ RowStands(messages[j])
        /\ messages[i] \in MessageRows /\ messages[j] \in MessageRows
    BY DEF TabInv, RowsStand, TabTyped, TabSaves
  <2>3. CASE messages[i].id[1] = Tab!OldTurn
    BY <1>1, <2>1, <2>2, <2>3 DEF RowStands
  <2>4. CASE messages[i].id[1] # Tab!OldTurn
    <3>1. PICK t : t = messages[i].id[1]
      OBVIOUS
    <3>2. t \in TabTurns /\ messages[i].id = Question(t) /\ messages[j].id = Answer(t)
      BY <1>1, <2>1, <2>2, <2>4, <3>1, TabIds
         DEF MessageRows, RowIds, Question, Answer, TabTurns, Tab!OldTurn
    <3>3. TurnStands(t)
      BY <3>2 DEF TabInv
    <3>4. /\ posts[Question(t)].to = messages[i].session /\ posts[Answer(t)].at = "over"
          /\ posts[Answer(t)].to = messages[j].session
      BY <1>1, <2>2, <2>4, <3>2 DEF RowStands
    <3>5. messages[i].session # NoSession
      BY <2>2, TabIds DEF MessageRows
    <3> QED
      BY <2>1, <3>1, <3>3, <3>4, <3>5 DEF TurnStands
  <2> QED
    BY <2>1, <2>3, <2>4
<1>2. ASSUME NEW t \in Tab!Turns \ (hurt \cup overtaken), Tab!Settled(t)
      PROVE  \E i \in DOMAIN messages :
               messages[i].id = <<t, "assistant">> /\ messages[i].status # "streaming"
  <2>1. turns[t] = "ended" /\ \A p \in patches : p[1] # t
    BY <1>2 DEF Tab!Settled
  <2>2. Written(t)
    BY TabIds DEF TabInv
  <2> QED
    BY <2>1, <2>2 DEF Written, Finished, Answer
<1>3. Tab!OneLazySession
  <2> SUFFICES ASSUME hurt = {}, ~outlisted PROVE Cardinality(lazily) <= 1
    BY TabHelpers DEF Tab!OneLazySession
  <2>1. lazily = {} \/ \E s : lazily = {s}
    BY DEF TabInv, OpenedOnce
  <2>2. Cardinality({}) = 0
    BY FS_EmptySet
  <2>3. ASSUME NEW s PROVE Cardinality({s}) = 1
    BY FS_Singleton
  <2>4. ASSUME NEW s, lazily = {s} PROVE Cardinality(lazily) <= 1
    BY <2>3, <2>4
  <2> QED
    BY <2>1, <2>2, <2>4
<1> QED
  BY <1>1, <1>2, <1>3 DEF Tab!TurnsAreWhole

-----------------------------------------------------------------------------
(* ChatClient: what is on screen. *)

Clean == hurt = {} /\ ~parted /\ ~outlisted
Shows(x) == \E i \in DOMAIN thread : thread[i] = x
Brings(x) == \E i \in DOMAIN fetch.rows : fetch.rows[i] = x
SavedIn(x, s) == \E i \in DOMAIN messages : messages[i].id = x /\ messages[i].session = s
OldRow(role) == <<Tab!OldTurn, role>>
\* Where the question of a turn is saved, or is about to be.
Home(t) == posts[Question(t)].to

Streams == streaming => \E t \in TabTurns : turns[t] \in {"reading", "told", "empty", "asking"}
Evidence == rail = 0 \/ Shows(Answer(rail)) \/ rail \in left
OldStays == Tab!Old \in sessions => \A role \in Tab!Roles : Saved(OldRow(role))

\* A session something is saved to is one whose thread is in memory.
Owned ==
  \A x \in Tab!Saves : /\ posts[x].at = "none" => posts[x].to = NoSession
                       /\ posts[x].to \in loaded \cup {NoSession}

\* Saves go to the session on screen, once its effects have run.  A thread that
\* is not in memory, and is not being fetched, could not be, and is empty.
Bound ==
  /\ active = rendered => bound = rendered
  /\ active = NoSession => rendered = NoSession /\ loaded = {} /\ fetch.at = "none"
  /\ bound = NoSession => rendered = NoSession
  /\ ensured # NoSession => bound = rendered
  /\ rendered \notin loaded \cup {NoSession} /\ fetch.at = "none" /\ bound = rendered =>
       thread = <<>>

\* What is fetched is the thread of the session on screen; what was there when it
\* was asked for is of turns that were left, or are over and elsewhere.
FetchStands ==
  /\ fetch.at # "none" =>
       /\ fetch.of = rendered
       /\ \A x \in fetch.had : x[1] \in TabTurns \ left =>
            turns[x[1]] = "ended" /\ Home(x[1]) \notin {NoSession, fetch.of}
  /\ fetch.at = "read" =>
       /\ \A x \in Tab!Saves : Brings(x) => posts[x].at = "over" /\ posts[x].to = fetch.of
       /\ \A role \in Tab!Roles : Brings(OldRow(role)) <=> fetch.of = Tab!Old

\* No session is on its way that a new chat asked for.
Settling == active = rendered /\ creating \subseteq {ensured}

\* A turn that was not left is on screen while it is under way; after that, it is
\* where its session is.
TurnShows(t) ==
  /\ turns[t] = "unsent" => ~Shows(Question(t)) /\ ~Shows(Answer(t))
  /\ turns[t] # "unsent" /\ t \notin left =>
       /\ turns[t] # "ended" => Shows(Question(t)) /\ Shows(Answer(t))
       /\ active # rendered /\ Home(t) = active /\ Shows(Question(t)) => Shows(Answer(t))
       /\ Settling /\ Home(t) \in {NoSession, active} => Shows(Question(t)) /\ Shows(Answer(t))
       /\ Settling /\ fetch.at = "none" /\ (Shows(Question(t)) \/ Shows(Answer(t))) =>
            Home(t) \in {NoSession, active}
OldShows ==
  Settling /\ fetch.at = "none" =>
    \A role \in Tab!Roles : Shows(OldRow(role)) <=> active = Tab!Old

ScreenStands ==
  /\ Streams /\ Evidence /\ OldStays /\ Owned /\ Bound /\ FetchStands /\ OldShows
  /\ \A t \in TabTurns : TurnShows(t)
ScreenInv == Clean => ScreenStands

(* The rows of a session are the saved ones.                               *)
LEMMA RowsInHold ==
  ASSUME TabInv, NEW s, NEW x
  PROVE  x \in Tab!ToSet(Tab!Ids(Tab!RowsIn(s))) <=> SavedIn(x, s)
<1>1. PICK S : S = {r \in Tab!ToSet(messages) : r.session = s}
  OBVIOUS
<1>2. PICK all \in Seq(MessageRows) : all = messages
  BY DEF TabInv, TabTyped, TabSaves
<1>3. PICK list \in Seq(MessageRows) : list = Tab!RowsIn(s) /\ PickedOf(all, S, Len(all), list)
  <2>1. Tab!RowsIn(s) = KeptOf(all, S)
    BY <1>1, <1>2, TabHelpers DEF Tab!RowsIn
  <2> QED
    BY <2>1, KeptIs
<1>4. Tab!Ids(list) = [i \in DOMAIN list |-> list[i].id]
  BY DEF Tab!Ids
<1>5. x \in Tab!ToSet(Tab!Ids(list)) <=> \E i \in DOMAIN list : list[i].id = x
  <2>1. PICK ids : ids = [i \in DOMAIN list |-> list[i].id]
    OBVIOUS
  <2>2. Tab!ToSet(ids) = {ids[i] : i \in DOMAIN ids}
    BY TabHelpers
  <2>3. x \in Tab!ToSet(ids) <=> \E i \in DOMAIN ids : ids[i] = x
    BY <2>2
  <2>4. DOMAIN ids = DOMAIN list /\ \A i \in DOMAIN list : ids[i] = list[i].id
    BY <2>1
  <2>5. Tab!Ids(list) = ids
    BY <1>4, <2>1
  <2> QED
    BY <2>3, <2>4, <2>5
<1>6. \A i \in DOMAIN all : all[i] \in S <=> messages[i].session = s
  BY <1>1, <1>2, TabHelpers
<1>7. (\E i \in DOMAIN list : list[i].id = x) <=> SavedIn(x, s)
  BY <1>2, <1>3, <1>6 DEF PickedOf, SavedIn
<1> QED
  BY <1>3, <1>5, <1>7

(* While no request was lost, a turn whose question has no session yet is  *)
(* waiting for one, and what is over is saved where it was sent.           *)
LEMMA HomeIs ==
  ASSUME TabInv, Owned, hurt = {}, NEW t \in TabTurns
  PROVE  /\ turns[t] = "unsent" => Home(t) = NoSession
         /\ turns[t] # "unsent" /\ Home(t) = NoSession =>
              turns[t] = "saving" /\ posts[Question(t)].at = "waiting"
         /\ posts[Question(t)].at \in {"waiting", "sent"} => turns[t] = "saving"
         /\ \A x \in Tab!Saves : posts[x].at = "over" =>
              SavedIn(x, posts[x].to) /\ posts[x].to # NoSession
<1>0. posts \in [Tab!Saves -> Posts] /\ messages \in Seq(MessageRows) /\ TurnStands(t)
  BY DEF TabInv, TabTyped, TabSaves
<1>1. ASSUME NEW x \in Tab!Saves, posts[x].at = "over"
      PROVE  SavedIn(x, posts[x].to) /\ posts[x].to # NoSession
  <2>1. PICK i \in DOMAIN messages : messages[i].id = x
    BY <1>1 DEF TabInv, PostStands, Saved
  <2>2. RowStands(messages[i]) /\ messages[i] \in MessageRows
    BY <1>0, <2>1 DEF TabInv, RowsStand
  <2>3. x[1] # Tab!OldTurn
    BY TabIds DEF Tab!OldTurn
  <2>4. messages[i].session = posts[x].to
    BY <2>1, <2>2, <2>3 DEF RowStands
  <2>5. messages[i].session # NoSession
    BY <2>2, TabIds DEF MessageRows
  <2> QED
    BY <2>1, <2>4, <2>5 DEF SavedIn
<1>2. PICK q \in Tab!Saves : q = Question(t)
  BY TabIds
<1>3. posts[q].at \in {"none", "waiting", "sent", "over"} /\ PostStands(q)
  BY <1>0 DEF TabInv, Posts
<1>4. posts[q].at = "sent" => posts[q].to # NoSession
  BY <1>3, TabIds DEF PostStands, TabInv, TabTyped, TabPlaces
<1>5. posts[q].at = "none" <=> turns[t] = "unsent"
  BY <1>0, <1>2, <1>3 DEF TurnStands
<1>6. posts[q].at \in {"waiting", "sent"} => turns[t] = "saving"
  BY <1>0, <1>2, <1>3, <1>5 DEF TurnStands
<1> QED
  BY <1>1, <1>2, <1>3, <1>4, <1>5, <1>6 DEF Home, Owned

(* A tab that is opened shows nothing.                                     *)
LEMMA ScreenStarts == Tab!Init => ScreenStands
<1> SUFFICES ASSUME Tab!Init PROVE ScreenStands
  OBVIOUS
<1>0. /\ active = NoSession /\ rendered = NoSession /\ bound = NoSession /\ loaded = {}
      /\ thread = <<>> /\ rail = 0 /\ streaming = FALSE
      /\ turns = [t \in TabTurns |-> "unsent"]
      /\ posts = [s \in Tab!Saves |-> [at |-> "none", to |-> NoSession]]
      /\ creating = {} /\ ensured = NoSession /\ fetch.at = "none"
  BY TabIds DEF Tab!Init, NoSession, Tab!NoSave, Tab!NoFetch
<1>1. Streams /\ Evidence /\ Owned /\ Bound /\ FetchStands
  BY <1>0 DEF Streams, Evidence, Owned, Bound, FetchStands
<1>2. \A x : ~Shows(x)
  BY <1>0 DEF Shows
<1>3. OldShows
  BY <1>0, <1>2 DEF OldShows, NoSession, Tab!NoSession, Tab!Old
<1>4. \A t \in TabTurns : TurnShows(t)
  BY <1>0, <1>2 DEF TurnShows
<1>5. OldStays
  <2> SUFFICES ASSUME Tab!Old \in sessions, NEW role \in Tab!Roles PROVE Saved(OldRow(role))
    BY DEF OldStays
  <2>1. PICK u, a : /\ u = [id |-> <<0, "user">>, session |-> Tab!Old, status |-> "done"]
                    /\ a = [id |-> <<0, "assistant">>, session |-> Tab!Old, status |-> "done"]
    OBVIOUS
  <2>2. messages = <<u, a>>
    BY <2>1 DEF Tab!Init, Tab!RowOf, Tab!OldTurn
  <2>3. DOMAIN messages = {1, 2} /\ messages[1] = u /\ messages[2] = a
    BY <2>2
  <2> QED
    BY <2>1, <2>3 DEF Saved, OldRow, Tab!OldTurn, Tab!Roles
<1> QED
  BY <1>1, <1>3, <1>4, <1>5 DEF ScreenStands

-----------------------------------------------------------------------------
(* ChatClient: steps after which the screen is what it was. *)

(* The screen stands when it and the sessions are left alone, and saves    *)
(* and turns only go on.                                                   *)
LEMMA ScreenKeeps ==
  ASSUME ScreenStands, Streams', Evidence', OldStays',
         UNCHANGED <<active, rendered, bound, loaded, thread, fetch, creating, ensured, left>>,
         \A x \in Tab!Saves : /\ posts'[x].to = posts[x].to
                              /\ posts'[x].at = "none" => posts[x].at = "none"
                              /\ posts[x].at = "over" => posts'[x].at = "over",
         \A t \in TabTurns : /\ turns'[t] = "unsent" <=> turns[t] = "unsent"
                             /\ turns[t] = "ended" => turns'[t] = "ended"
  PROVE  ScreenStands'
<1>0. Owned /\ Bound /\ FetchStands /\ OldShows /\ \A t \in TabTurns : TurnShows(t)
  BY DEF ScreenStands
<1>1. Owned' /\ Bound'
  BY <1>0 DEF Owned, Bound, NoSession
<1>2. \A x : (Shows(x)' <=> Shows(x)) /\ (Brings(x)' <=> Brings(x))
  BY DEF Shows, Brings
<1>3. \A t \in TabTurns : Home(t)' = Home(t)
  BY TabIds DEF Home
<1>4. (Settling' <=> Settling) /\ NoSession' = NoSession
  BY DEF Settling, NoSession
<1>5. FetchStands'
  BY <1>0, <1>2, <1>3, <1>4 DEF FetchStands, Brings
<1>6. OldShows'
  BY <1>0, <1>2, <1>4 DEF OldShows
<1>7. ASSUME NEW t \in TabTurns PROVE TurnShows(t)'
  BY <1>0, <1>2, <1>3, <1>4 DEF TurnShows
<1> QED
  BY <1>1, <1>5, <1>6, <1>7 DEF ScreenStands

(* Listings that are asked for, sessions the server creates, and rows it   *)
(* saves.                                                                  *)
LEMMA ScreenQuiet ==
  ASSUME TabInv, ScreenInv, Clean',
         \/ UNCHANGED client
         \/ Tab!Refresh \/ Tab!List \/ Tab!ListFails \/ \E s \in Fresh : Tab!Create(s)
         \/ \E x \in Tab!Saves : Tab!SaveRow(x) \/ Tab!SaveFails(x)
         \/ \E p \in patches : Tab!UpdateRow(p) \/ Tab!UpdateFails(p)
  PROVE  ScreenStands'
<1>1. /\ UNCHANGED <<active, rendered, bound, loaded, thread, rail, streaming, turns, fetch, creating,
                     ensured, left, parted, outlisted>>
      /\ hurt \subseteq hurt' /\ (Tab!Old \in sessions' => Tab!Old \in sessions)
  <2>1. CASE UNCHANGED client
    BY <2>1 DEF client
  <2>2. CASE Tab!Refresh \/ Tab!List \/ Tab!ListFails
    BY <2>2 DEF Tab!Refresh, Tab!List, Tab!ListFails, Tab!tab, Tab!turn, Tab!server, Tab!history
  <2>3. ASSUME NEW s \in Fresh, Tab!Create(s)
        PROVE  /\ UNCHANGED <<active, rendered, bound, loaded, thread, rail, streaming, turns, fetch,
                              creating, ensured, left, parted, outlisted, hurt>>
               /\ Tab!Old \in sessions' => Tab!Old \in sessions
    BY <2>3, TabIds DEF Tab!Create, Tab!tab, Tab!turn, Tab!calls, Tab!history
  <2>4. ASSUME NEW x \in Tab!Saves, Tab!SaveRow(x) \/ Tab!SaveFails(x)
        PROVE  /\ UNCHANGED <<active, rendered, bound, loaded, thread, rail, streaming, turns, fetch,
                              creating, ensured, left, parted, outlisted, sessions>>
               /\ hurt \subseteq hurt'
    BY <2>4 DEF Tab!SaveRow, Tab!SaveFails, Tab!tab, Tab!calls, Tab!history, Tab!server
  <2>5. ASSUME NEW p \in patches, Tab!UpdateRow(p) \/ Tab!UpdateFails(p)
        PROVE  /\ UNCHANGED <<active, rendered, bound, loaded, thread, rail, streaming, turns, fetch,
                              creating, ensured, left, parted, outlisted, sessions>>
               /\ hurt \subseteq hurt'
    BY <2>5 DEF Tab!UpdateRow, Tab!UpdateFails, Tab!tab, Tab!turn, Tab!calls
  <2> QED
    BY <2>1, <2>2, <2>3, <2>4, <2>5
<1>2. ScreenStands
  BY <1>1 DEF ScreenInv, Clean
<1>3. posts \in [Tab!Saves -> Posts] /\ messages \in Seq(MessageRows)
  BY DEF TabInv, TabTyped, TabSaves
<1>4. \A x \in Tab!Saves : /\ posts'[x].to = posts[x].to
                           /\ posts'[x].at = "none" => posts[x].at = "none"
                           /\ posts[x].at = "over" => posts'[x].at = "over"
  <2>1. ASSUME NEW y \in Tab!Saves, Tab!SaveRow(y) \/ Tab!SaveFails(y), NEW x \in Tab!Saves
        PROVE  /\ posts'[x].to = posts[x].to
               /\ posts'[x].at = "none" => posts[x].at = "none"
               /\ posts[x].at = "over" => posts'[x].at = "over"
    <3>1. posts' = [posts EXCEPT ![y].at = "over"] /\ posts[y] \in Posts
      BY <1>3, <2>1 DEF Tab!SaveRow, Tab!SaveFails
    <3>2. PICK post : post = [posts[y] EXCEPT !.at = "over"]
      OBVIOUS
    <3>3. post.at = "over" /\ post.to = posts[y].to
      BY <3>1, <3>2 DEF Posts
    <3>4. posts'[x] = IF x = y THEN post ELSE posts[x]
      BY <1>3, <3>1, <3>2
    <3> QED
      BY <3>3, <3>4
  <2>2. CASE UNCHANGED posts
    BY <2>2
  <2>3. UNCHANGED posts \/ \E x \in Tab!Saves : Tab!SaveRow(x) \/ Tab!SaveFails(x)
    BY DEF client, Tab!Refresh, Tab!List, Tab!ListFails, Tab!Create, Tab!UpdateRow, Tab!UpdateFails,
           Tab!turn
  <2> QED
    BY <2>1, <2>2, <2>3
<1>5. \A x : Saved(x) => Saved(x)'
  <2>1. ASSUME NEW y \in Tab!Saves, Tab!SaveRow(y), NEW x, Saved(x) PROVE Saved(x)'
    <3>1. PICK row : messages' = Append(messages, row)
      BY <2>1 DEF Tab!SaveRow
    <3>2. PICK list \in Seq(MessageRows) : list = messages
      BY <1>3
    <3>3. PICK i \in 1..Len(list) : list[i].id = x
      BY <2>1, <3>2 DEF Saved
    <3>4. i \in DOMAIN Append(list, row) /\ Append(list, row)[i] = list[i]
      BY <3>3
    <3> QED
      BY <3>1, <3>2, <3>3, <3>4 DEF Saved
  <2>2. ASSUME NEW p \in patches, Tab!UpdateRow(p), NEW x, Saved(x) PROVE Saved(x)'
    <3>1. PICK found : messages' = [i \in DOMAIN messages |->
                          IF i \in found THEN [messages[i] EXCEPT !.status = p[2]] ELSE messages[i]]
      BY <2>2 DEF Tab!UpdateRow
    <3>2. PICK i \in DOMAIN messages : messages[i].id = x /\ messages[i] \in MessageRows
      BY <1>3, <2>2 DEF Saved
    <3>3. PICK r \in MessageRows : r = messages[i]
      BY <3>2
    <3>4. PICK now : now = [r EXCEPT !.status = p[2]]
      OBVIOUS
    <3>5. now.id = r.id
      BY <3>3, <3>4 DEF MessageRows
    <3>6. i \in DOMAIN messages' /\ messages'[i] = IF i \in found THEN now ELSE r
      BY <3>1, <3>2, <3>3, <3>4
    <3> QED
      BY <3>2, <3>3, <3>5, <3>6 DEF Saved
  <2>3. CASE UNCHANGED messages
    BY <2>3 DEF Saved
  <2>4. \/ UNCHANGED messages
        \/ \E x \in Tab!Saves : Tab!SaveRow(x)
        \/ \E p \in patches : Tab!UpdateRow(p)
    BY DEF client, Tab!Refresh, Tab!List, Tab!ListFails, Tab!Create, Tab!SaveFails, Tab!UpdateFails,
           Tab!server
  <2> QED
    BY <2>1, <2>2, <2>3, <2>4
<1>6. Streams' /\ Evidence'
  BY <1>1, <1>2 DEF ScreenStands, Streams, Evidence, Shows, Answer
<1>7. OldStays'
  BY <1>1, <1>2, <1>5 DEF ScreenStands, OldStays
<1> QED
  BY <1>1, <1>2, <1>4, <1>6, <1>7, ScreenKeeps

(* A stream or an answer goes on.                                          *)
LEMMA ScreenAnswers ==
  ASSUME TabInv, ScreenInv, Clean', NEW t \in TabTurns,
         Tab!Done(t) \/ Tab!Close(t) \/ Tab!Break(t) \/ Tab!Answered(t) \/ Tab!AskFails(t)
  PROVE  ScreenStands'
<1>1. /\ UNCHANGED <<active, rendered, bound, loaded, posts, fetch, creating, ensured, sessions,
                     messages, left, hurt, parted, outlisted, thread>>
      /\ turns[t] \in {"reading", "told", "empty", "asking"}
      /\ rail' \in {rail, t}
      /\ streaming' = streaming \/ streaming' = FALSE
  BY DEF Tab!Done, Tab!Close, Tab!Break, Tab!Answered, Tab!AskFails, Tab!Still, Tab!calls
<1>2. PICK l \in {"told", "empty", "asking", "ended"} :
        turns' = [turns EXCEPT ![t] = l] /\ (l = "ended" => ~streaming')
  BY DEF Tab!Done, Tab!Close, Tab!Break, Tab!Answered, Tab!AskFails
<1>3. ScreenStands
  BY <1>1 DEF ScreenInv, Clean
<1>4. \A u \in TabTurns : turns'[u] = IF u = t THEN l ELSE turns[u]
  BY <1>2 DEF TabInv, TabTyped, TabSaves
<1>5. Streams'
  BY <1>1, <1>2, <1>3, <1>4 DEF ScreenStands, Streams
<1>6. Evidence'
  <2>1. t \notin left => Shows(Answer(t))
    BY <1>1, <1>3 DEF ScreenStands, TurnShows
  <2> QED
    BY <1>1, <1>3, <2>1 DEF ScreenStands, Evidence, Shows, Answer
<1>7. OldStays'
  BY <1>1, <1>3 DEF ScreenStands, OldStays, Saved
<1> QED
  BY <1>1, <1>2, <1>3, <1>4, <1>5, <1>6, <1>7, ScreenKeeps

-----------------------------------------------------------------------------
(* ChatClient: the session on screen changes, and rows are sent to it. *)

(* A listing only picks a session where there was none.                    *)
LEMMA ScreenListed ==
  ASSUME TabInv, ScreenInv, Clean', Tab!Listed
  PROVE  ScreenStands'
<1>1. /\ UNCHANGED <<rendered, bound, loaded, thread, rail, streaming, turns, posts, fetch, creating,
                     ensured, sessions, messages, left, hurt, parted>>
      /\ outlisted' = (outlisted \/ active \notin listing.ids \cup {NoSession})
      /\ \/ active' = active
         \/ active \notin listing.ids /\ active' \in listing.ids
         \/ active' = NoSession /\ listing.ids = {}
  BY DEF Tab!Listed, Tab!turn, Tab!server, NoSession
<1>2. ~outlisted /\ active \in listing.ids \cup {NoSession}
  BY <1>1 DEF Clean
<1>3. ScreenStands
  BY <1>1, <1>2 DEF ScreenInv, Clean
<1>4. Streams' /\ Evidence' /\ OldStays'
  BY <1>1, <1>3 DEF ScreenStands, Streams, Evidence, OldStays, Shows, Saved, Answer
<1>5. CASE active' = active
  BY <1>1, <1>3, <1>4, <1>5, ScreenKeeps
<1>6. CASE active' # active
  <2>1. active = NoSession /\ active' \in listing.ids
    BY <1>1, <1>2, <1>6
  <2>2. active' # NoSession
    BY <2>1, TabIds DEF TabInv, TabTyped, TabPlaces
  <2>3. rendered = NoSession /\ loaded = {}
    BY <1>3, <2>1 DEF ScreenStands, Bound
  <2>4. Bound' /\ Owned' /\ FetchStands'
    BY <1>1, <1>3, <2>2, <2>3
       DEF ScreenStands, Bound, Owned, FetchStands, Brings, Home, Question, OldRow, NoSession
  <2>5. \A x : Shows(x)' <=> Shows(x)
    BY <1>1 DEF Shows
  <2>6. active' # rendered' /\ ~Settling'
    BY <1>1, <2>2, <2>3 DEF Settling
  <2>7. ASSUME NEW t \in TabTurns PROVE TurnShows(t)'
    <3>1. TurnShows(t)
      BY <1>3 DEF ScreenStands
    <3>2. Home(t)' = Home(t) /\ Home(t) = NoSession
      BY <1>1, <1>3, <2>3, TabIds DEF ScreenStands, Owned, Home
    <3> QED
      BY <1>1, <2>2, <2>5, <2>6, <3>1, <3>2 DEF TurnShows
  <2>8. OldShows'
    BY <2>6 DEF OldShows
  <2> QED
    BY <1>4, <2>4, <2>7, <2>8 DEF ScreenStands
<1> QED
  BY <1>5, <1>6

(* The session of a new chat is there.  If it is the one on screen, by a   *)
(* listing that was quicker, the thread could not be fetched or still is.  *)
LEMMA ScreenCreated ==
  ASSUME TabInv, ScreenInv, Clean', NEW s \in Fresh, s # ensured, Tab!Created(s)
  PROVE  ScreenStands'
<1>1. /\ UNCHANGED <<rendered, bound, loaded, thread, rail, streaming, turns, posts, fetch, ensured,
                     sessions, messages, left, hurt, outlisted>>
      /\ active' = s /\ creating' = creating \ {s}
      /\ ~parted /\ s \notin loaded /\ (s = rendered => s = bound)
  BY DEF Tab!Created, Tab!server, Clean
<1>2. ScreenStands /\ hurt = {}
  BY <1>1 DEF ScreenInv, Clean
<1>3. s # NoSession /\ s # Tab!Old
  BY TabIds DEF TabSessions
<1>4. Streams' /\ Evidence' /\ OldStays' /\ Owned' /\ FetchStands'
  BY <1>1, <1>2 DEF ScreenStands, Streams, Evidence, OldStays, Owned, FetchStands, Shows, Brings,
                    Saved, Answer, Home, Question, OldRow, NoSession
<1>5. Bound'
  BY <1>1, <1>2, <1>3 DEF ScreenStands, Bound, NoSession
<1>6. \A x : Shows(x)' <=> Shows(x)
  BY <1>1 DEF Shows
<1>7. ASSUME s = rendered, fetch.at = "none" PROVE \A x : ~Shows(x)
  <2>1. thread = <<>>
    BY <1>1, <1>2, <1>3, <1>7 DEF ScreenStands, Bound
  <2> QED
    BY <2>1 DEF Shows
<1>8. ASSUME NEW t \in TabTurns PROVE TurnShows(t)'
  <2>1. TurnShows(t)
    BY <1>2 DEF ScreenStands
  <2>2. Home(t)' = Home(t) /\ NoSession' = NoSession
    BY <1>1, TabIds DEF Home, NoSession
  <2>3. Home(t) # s
    BY <1>1, <1>2, <1>3, TabIds DEF ScreenStands, Owned, Home
  <2>4. turns[t] # "unsent" /\ Home(t) = NoSession => turns[t] = "saving"
    BY <1>2, HomeIs DEF ScreenStands
  <2>5. Settling' => s = rendered
    BY <1>1 DEF Settling
  <2> QED
    BY <1>1, <1>6, <1>7, <2>1, <2>2, <2>3, <2>4, <2>5 DEF TurnShows
<1>9. OldShows'
  <2>1. Settling' => s = rendered
    BY <1>1 DEF Settling
  <2> QED
    BY <1>1, <1>3, <1>6, <1>7, <2>1 DEF OldShows
<1> QED
  BY <1>4, <1>5, <1>8, <1>9 DEF ScreenStands

(* The session sends wait for is there: whatever waited has it for its own,*)
(* and is on screen.                                                       *)
LEMMA ScreenOpened ==
  ASSUME TabInv, ScreenInv, Clean', ensured \in Fresh, Tab!Created(ensured)
  PROVE  ScreenStands'
<1> DEFINE Waiting == {x \in Tab!Saves : posts[x].at = "waiting"}
<1>1. PICK s : s = ensured
  OBVIOUS
<1>2. /\ UNCHANGED <<rendered, thread, rail, streaming, turns, fetch, sessions, messages, hurt,
                     outlisted>>
      /\ active' = s /\ bound' = s /\ creating' = creating \ {s} /\ ensured' = NoSession
      /\ loaded' = loaded \cup {s} /\ left \subseteq left'
      /\ posts' = [x \in Tab!Saves |-> IF x \in Waiting THEN [at |-> "sent", to |-> s] ELSE posts[x]]
      /\ ~parted /\ s \notin loaded
  BY <1>1 DEF Tab!Created, Tab!server, Tab!Own, Tab!Resumed, Tab!Waiting, Clean, NoSession
<1>3. ScreenStands /\ hurt = {}
  BY <1>2 DEF ScreenInv, Clean
<1>4. s # NoSession /\ s # Tab!Old
  BY <1>1, TabIds DEF TabSessions
<1>5. bound = rendered
  BY <1>1, <1>3, <1>4 DEF ScreenStands, Bound
<1>6. /\ \A x \in Waiting : posts'[x].at = "sent" /\ posts'[x].to = s /\ posts[x].to = NoSession
      /\ \A x \in Tab!Saves \ Waiting : posts'[x] = posts[x]
  BY <1>2 DEF TabInv, PostStands
<1>7. Streams' /\ Evidence' /\ OldStays'
  BY <1>2, <1>3 DEF ScreenStands, Streams, Evidence, OldStays, Shows, Saved, Answer
<1>8. Owned'
  <2> SUFFICES ASSUME NEW x \in Tab!Saves
               PROVE  /\ posts'[x].at = "none" => posts'[x].to = NoSession
                      /\ posts'[x].to \in loaded' \cup {NoSession}
    BY DEF Owned, NoSession
  <2>1. /\ posts[x].at = "none" => posts[x].to = NoSession
        /\ posts[x].to \in loaded \cup {NoSession}
    BY <1>3 DEF ScreenStands, Owned
  <2> QED
    BY <1>2, <1>6, <2>1
<1>9. Bound'
  BY <1>2, <1>3, <1>4 DEF ScreenStands, Bound, NoSession
<1>10. \A x : (Shows(x)' <=> Shows(x)) /\ (Brings(x)' <=> Brings(x))
  BY <1>2 DEF Shows, Brings
<1>11. \A t \in TabTurns : /\ Question(t) \in Waiting => Home(t)' = s /\ Home(t) = NoSession
                           /\ Question(t) \notin Waiting => Home(t)' = Home(t)
                           /\ Home(t) # s
  <2>1. \A t \in TabTurns : Home(t) # s
    BY <1>2, <1>3, <1>4, TabIds DEF ScreenStands, Owned, Home
  <2> QED
    BY <1>6, <2>1, TabIds DEF Home
<1>12. FetchStands'
  <2>1. \A x \in Tab!Saves : posts[x].at = "over" => posts'[x] = posts[x]
    BY <1>6
  <2>2. \A t \in TabTurns : Home(t) # NoSession => Home(t)' = Home(t)
    BY <1>11
  <2>3. FetchStands /\ NoSession' = NoSession
    BY <1>3 DEF ScreenStands, NoSession
  <2>4. fetch.at = "read" =>
          \A x \in Tab!Saves : Brings(x) => posts'[x].at = "over" /\ posts'[x].to = fetch.of
    BY <2>1, <2>3 DEF FetchStands
  <2>5. fetch.at # "none" =>
          \A x \in fetch.had : x[1] \in TabTurns \ left' =>
            turns[x[1]] = "ended" /\ Home(x[1])' \notin {NoSession, fetch.of}
    BY <1>2, <2>2, <2>3 DEF FetchStands
  <2> QED
    BY <1>2, <1>10, <2>3, <2>4, <2>5 DEF FetchStands, OldRow
<1>13. ASSUME Settling', fetch.at = "none" PROVE \A x : ~Shows(x)
  <2>1. s = rendered
    BY <1>2, <1>13 DEF Settling
  <2>2. thread = <<>>
    BY <1>2, <1>3, <1>4, <1>5, <1>13, <2>1 DEF ScreenStands, Bound
  <2> QED
    BY <2>2 DEF Shows
<1>14. ASSUME NEW t \in TabTurns PROVE TurnShows(t)'
  <2>1. TurnShows(t)
    BY <1>3 DEF ScreenStands
  <2>2. turns[t] # "unsent" /\ Home(t) = NoSession =>
          turns[t] = "saving" /\ posts[Question(t)].at = "waiting"
    BY <1>3, HomeIs DEF ScreenStands
  <2>3. turns[t] # "unsent" /\ Question(t) \in Waiting => turns[t] = "saving"
    BY <1>11, <2>2
  <2>4. turns[t] # "unsent" => Home(t)' # NoSession
    BY <1>4, <1>11, <2>2, TabIds
  <2>5. Home(t)' = s <=> Question(t) \in Waiting
    BY <1>11
  <2>6. NoSession' = NoSession
    BY DEF NoSession
  <2> QED
    BY <1>2, <1>10, <1>13, <2>1, <2>3, <2>4, <2>5, <2>6 DEF TurnShows
<1>15. OldShows'
  BY <1>2, <1>4, <1>10, <1>13 DEF OldShows
<1> QED
  BY <1>7, <1>8, <1>9, <1>12, <1>14, <1>15 DEF ScreenStands

(* A question is put on screen with its answer; a row is sent to the       *)
(* session on screen.                                                      *)
LEMMA ScreenSends ==
  ASSUME TabInv, ScreenInv, Clean', NEW t \in TabTurns, Tab!Send(t) \/ Tab!Open(t)
  PROVE  ScreenStands'
<1>1. PICK role \in Tab!Roles :
        /\ Tab!Persist(t, role)
        /\ \/ /\ role = "user" /\ turns[t] = "unsent" /\ turns' = [turns EXCEPT ![t] = "saving"]
              /\ thread' = thread \o <<Question(t), Answer(t)>> /\ rail' = 0
              /\ streaming' = streaming
           \/ /\ role = "assistant" /\ turns[t] = "saving" /\ posts[Question(t)].at = "over"
              /\ turns' = [turns EXCEPT ![t] = "reading"]
              /\ UNCHANGED <<thread, rail>>
  BY DEF Tab!Send, Tab!Open, Tab!Roles, Question, Answer
<1>2. UNCHANGED <<active, rendered, fetch, sessions, messages, left, hurt, parted, outlisted>>
  BY DEF Tab!Send, Tab!Open, Tab!server
<1>3. ScreenStands /\ hurt = {}
  BY <1>2 DEF ScreenInv, Clean
<1>4. PICK post \in Posts :
           /\ posts' = [posts EXCEPT ![<<t, role>>] = post] /\ bound' = bound
           /\ post.at \in {"waiting", "sent"} /\ post.to = bound
           /\ loaded' = loaded \cup ({bound} \ {NoSession})
           /\ \/ UNCHANGED <<creating, ensured>>
              \/ \E s \in Fresh \ creating :
                                  /\ bound = NoSession /\ ensured = NoSession
                                  /\ creating' = creating \cup {s} /\ ensured' = s
  BY <1>1, PersistIs
<1>5. PICK x \in Tab!Saves : x = <<t, role>>
  BY <1>1, TabIds DEF Tab!Saves
<1>6. posts'[x] = post /\ \A y \in Tab!Saves : y # x => posts'[y] = posts[y]
  BY <1>4, <1>5 DEF TabInv, TabTyped, TabSaves
<1>7. /\ \A u \in TabTurns : u # t => turns'[u] = turns[u]
      /\ role = "user" => turns'[t] = "saving"
      /\ role = "assistant" => turns'[t] = "reading"
  BY <1>1 DEF TabInv, TabTyped, TabSaves
<1>8. posts[x].at = "none"
  <2>1. TurnStands(t)
    BY DEF TabInv
  <2> QED
    BY <1>1, <1>5, <2>1 DEF TurnStands, Question, Answer
<1>9. /\ creating \subseteq creating'
      /\ ensured' # ensured => ensured' \notin creating /\ bound = NoSession
      /\ creating' \subseteq {ensured'} => creating \subseteq {ensured}
  BY <1>4
<1>10. Bound'
  <2>1. Bound /\ NoSession' = NoSession
    BY <1>3 DEF ScreenStands, NoSession
  <2>2. active = NoSession => loaded' = {}
    BY <1>4, <2>1 DEF Bound
  <2>3. bound # NoSession => bound \in loaded'
    BY <1>4
  <2> QED
    BY <1>2, <1>4, <1>9, <2>1, <2>2, <2>3 DEF Bound
<1>11. Owned'
  <2> SUFFICES ASSUME NEW y \in Tab!Saves
               PROVE  /\ posts'[y].at = "none" => posts'[y].to = NoSession
                      /\ posts'[y].to \in loaded' \cup {NoSession}
    BY DEF Owned, NoSession
  <2>1. /\ posts[y].at = "none" => posts[y].to = NoSession
        /\ posts[y].to \in loaded \cup {NoSession}
    BY <1>3 DEF ScreenStands, Owned
  <2> QED
    BY <1>4, <1>6, <2>1
<1>12. OldStays'
  BY <1>2, <1>3 DEF ScreenStands, OldStays, Saved
<1>13. /\ \A y : y \notin {Question(t), Answer(t)} => (Shows(y)' <=> Shows(y))
       /\ role = "assistant" => \A y : Shows(y)' <=> Shows(y)
       /\ role = "user" => Shows(Question(t))' /\ Shows(Answer(t))'
       /\ \A y : Brings(y)' <=> Brings(y)
  <2>1. \A y : Brings(y)' <=> Brings(y)
    BY <1>2 DEF Brings
  <2>2. CASE role = "assistant"
    BY <1>1, <2>1, <2>2 DEF Shows
  <2>3. CASE role = "user"
    <3>1. PICK old \in Seq(RowIds) : old = thread
      BY DEF TabInv, TabTyped, TabScreen
    <3>2. PICK q, a \in RowIds : q = Question(t) /\ a = Answer(t)
      BY TabIds
    <3>3. PICK new : new = old \o <<q, a>>
      OBVIOUS
    <3>4. /\ DOMAIN new = 1..(Len(old) + 2) /\ DOMAIN old = 1..Len(old)
          /\ \A i \in DOMAIN old : new[i] = old[i]
          /\ new[Len(old) + 1] = q /\ new[Len(old) + 2] = a
      BY <3>2, <3>3
    <3>5. thread' = new
      BY <1>1, <2>3, <3>1, <3>2, <3>3
    <3>6. Len(old) \in Nat
      OBVIOUS
    <3>7. \A i \in DOMAIN new : i \in DOMAIN old \/ new[i] \in {q, a}
      BY <3>4, <3>6
    <3>8. \A y : (\E i \in DOMAIN new : new[i] = y) <=> Shows(y) \/ y \in {q, a}
      BY <3>1, <3>4, <3>6, <3>7 DEF Shows
    <3> QED
      BY <2>1, <2>3, <3>2, <3>5, <3>8 DEF Shows
  <2> QED
    BY <2>2, <2>3 DEF Tab!Roles
<1>14. Streams'
  <2>1. CASE role = "assistant"
    BY <1>7, <2>1 DEF Streams
  <2>2. CASE role = "user"
    BY <1>1, <1>3, <1>7, <2>2 DEF ScreenStands, Streams
  <2> QED
    BY <2>1, <2>2 DEF Tab!Roles
<1>15. Evidence'
  <2>1. CASE role = "assistant"
    BY <1>1, <1>2, <1>3, <1>13, <2>1 DEF ScreenStands, Evidence, Answer, Shows
  <2>2. CASE role = "user"
    BY <1>1, <2>2 DEF Evidence
  <2> QED
    BY <2>1, <2>2 DEF Tab!Roles
<1>16. /\ \A u \in TabTurns : u # t => Home(u)' = Home(u)
       /\ role = "user" => Home(t)' = bound
       /\ role = "assistant" => Home(t)' = Home(t)
  <2>1. \A u \in TabTurns : Question(u) = x <=> u = t /\ role = "user"
    BY <1>5 DEF Question
  <2> QED
    BY <1>1, <1>4, <1>6, <2>1, TabIds DEF Home, Tab!Roles
<1>17. FetchStands'
  <2>1. FetchStands /\ NoSession' = NoSession
    BY <1>3 DEF ScreenStands, NoSession
  <2>2. fetch.at = "read" =>
          \A y \in Tab!Saves : Brings(y) => posts'[y].at = "over" /\ posts'[y].to = fetch.of
    BY <1>6, <1>8, <2>1 DEF FetchStands
  <2>3. turns[t] # "ended"
    BY <1>1
  <2>4. fetch.at # "none" =>
          \A y \in fetch.had : y[1] \in TabTurns \ left =>
            turns'[y[1]] = "ended" /\ Home(y[1])' \notin {NoSession, fetch.of}
    BY <1>7, <1>16, <2>1, <2>3 DEF FetchStands
  <2> QED
    BY <1>2, <1>13, <2>1, <2>2, <2>4 DEF FetchStands, OldRow
<1>18. Settling' => Settling /\ bound = active
  BY <1>2, <1>3, <1>9 DEF Settling, ScreenStands, Bound
<1>19. ASSUME NEW u \in TabTurns PROVE TurnShows(u)'
  <2>1. TurnShows(u) /\ NoSession' = NoSession
    BY <1>3 DEF ScreenStands, NoSession
  <2>2. CASE u # t
    <3>1. /\ Shows(Question(u))' <=> Shows(Question(u))
          /\ Shows(Answer(u))' <=> Shows(Answer(u))
      BY <1>13, <2>2 DEF Question, Answer
    <3> QED
      BY <1>2, <1>7, <1>16, <1>18, <2>1, <2>2, <3>1 DEF TurnShows
  <2>3. CASE u = t /\ role = "user"
    BY <1>2, <1>7, <1>13, <1>16, <1>18, <2>1, <2>3 DEF TurnShows
  <2>4. CASE u = t /\ role = "assistant"
    BY <1>1, <1>2, <1>7, <1>13, <1>16, <1>18, <2>1, <2>4 DEF TurnShows
  <2> QED
    BY <2>2, <2>3, <2>4 DEF Tab!Roles
<1>20. OldShows'
  <2>1. \A r \in Tab!Roles : OldRow(r) \notin {Question(t), Answer(t)}
    BY TabIds DEF OldRow, Question, Answer, Tab!OldTurn
  <2>2. \A r \in Tab!Roles : Shows(OldRow(r))' <=> Shows(OldRow(r))
    BY <1>13, <2>1 DEF OldRow
  <2> QED
    BY <1>2, <1>3, <1>18, <2>2 DEF ScreenStands, OldShows
<1> QED
  BY <1>10, <1>11, <1>12, <1>14, <1>15, <1>17, <1>19, <1>20 DEF ScreenStands

-----------------------------------------------------------------------------
(* ChatClient: the thread is cleared, kept or fetched. *)

(* A row of a turn that is saved in a session was sent there; the rows the *)
(* project had are in theirs.                                              *)
LEMMA SavedInIs ==
  ASSUME TabInv, OldStays, NEW s
  PROVE  /\ \A x \in Tab!Saves : SavedIn(x, s) => posts[x].at = "over" /\ posts[x].to = s
         /\ s \in sessions \cup {NoSession} =>
              \A role \in Tab!Roles : SavedIn(OldRow(role), s) <=> s = Tab!Old
<1>1. \A i \in DOMAIN messages : RowStands(messages[i])
  BY DEF TabInv, RowsStand
<1>2. \A x \in Tab!Saves : x[1] # Tab!OldTurn
  BY TabIds DEF Tab!OldTurn
<1>3. \A role : OldRow(role)[1] = Tab!OldTurn
  BY DEF OldRow
<1>4. ASSUME NEW x \in Tab!Saves, SavedIn(x, s) PROVE posts[x].at = "over" /\ posts[x].to = s
  BY <1>1, <1>2, <1>4 DEF SavedIn, RowStands
<1>5. ASSUME s \in sessions \cup {NoSession}, NEW role \in Tab!Roles
      PROVE  SavedIn(OldRow(role), s) <=> s = Tab!Old
  <2>1. SavedIn(OldRow(role), s) => s = Tab!Old
    BY <1>1, <1>3 DEF SavedIn, RowStands
  <2>2. ASSUME s = Tab!Old PROVE SavedIn(OldRow(role), s)
    <3>1. Tab!Old \in sessions
      BY <1>5, <2>2, TabIds DEF TabSessions
    <3>2. PICK i \in DOMAIN messages : messages[i].id = OldRow(role)
      BY <3>1 DEF OldStays, Saved
    <3>3. messages[i].session = Tab!Old
      BY <1>1, <1>3, <3>2 DEF RowStands
    <3> QED
      BY <2>2, <3>2, <3>3 DEF SavedIn
  <2> QED
    BY <2>1, <2>2
<1> QED
  BY <1>4, <1>5

(* A new chat leaves whatever runs, and waits for its session.             *)
LEMMA ScreenNewChat ==
  ASSUME TabInv, ScreenInv, Clean', Tab!NewChat
  PROVE  ScreenStands'
<1>1. /\ UNCHANGED <<active, rendered, bound, loaded, streaming, turns, posts, fetch, ensured,
                     sessions, messages, hurt, parted, outlisted>>
      /\ thread' = <<>> /\ rail' = 0 /\ left' = left \cup Tab!Running
      /\ Tab!LeavesIds(1) /\ creating' = creating \cup {Tab!NextId}
  BY DEF Tab!NewChat, Tab!server
<1>2. ScreenStands
  BY <1>1 DEF ScreenInv, Clean
<1>3. ~Settling'
  <2>1. Tab!NextId \in Tab!Spare
    BY <1>1, NextIs
  <2>2. Tab!NextId \in Fresh \ creating
    BY <2>1 DEF Tab!Spare
  <2>3. ensured \in creating \cup {NoSession}
    BY DEF TabInv, TabTyped, TabPlaces
  <2>4. Tab!NextId # ensured
    BY <2>2, <2>3, TabIds DEF TabSessions
  <2> QED
    BY <1>1, <2>4 DEF Settling
<1>4. \A x : ~Shows(x)'
  BY <1>1 DEF Shows
<1>5. Streams' /\ Evidence' /\ OldStays' /\ Owned' /\ Bound'
  BY <1>1, <1>2 DEF ScreenStands, Streams, Evidence, OldStays, Owned, Bound, Saved, NoSession
<1>6. FetchStands'
  BY <1>1, <1>2 DEF ScreenStands, FetchStands, Brings, Home, Question, OldRow, NoSession
<1>7. OldShows'
  BY <1>3 DEF OldShows
<1>8. ASSUME NEW t \in TabTurns PROVE TurnShows(t)'
  <2>1. turns[t] # "unsent" /\ t \notin left' => turns[t] = "ended"
    BY <1>1, TabIds DEF Tab!Running
  <2> QED
    BY <1>1, <1>3, <1>4, <2>1 DEF TurnShows
<1> QED
  BY <1>5, <1>6, <1>7, <1>8 DEF ScreenStands

(* What is read is what is saved in the session on screen.                 *)
LEMMA ScreenFetch ==
  ASSUME TabInv, ScreenInv, Clean', Tab!Fetch
  PROVE  ScreenStands'
<1>1. PICK list : list = Tab!Ids(Tab!RowsIn(fetch.of))
  OBVIOUS
<1>2. /\ UNCHANGED <<active, rendered, bound, loaded, thread, rail, streaming, turns, posts, creating,
                     ensured, sessions, messages, left, hurt, parted, outlisted>>
      /\ fetch.at = "asked" /\ fetch' = [fetch EXCEPT !.at = "read", !.rows = list]
  BY <1>1 DEF Tab!Fetch, Tab!tab, Tab!turn, Tab!server, Tab!history
<1>3. /\ fetch'.at = "read" /\ fetch'.of = fetch.of /\ fetch'.had = fetch.had /\ fetch'.rows = list
  BY <1>2 DEF TabInv, TabTyped, TabScreen, Fetches
<1>4. ScreenStands
  BY <1>2 DEF ScreenInv, Clean
<1>5. fetch.of = rendered /\ fetch.of \in sessions \cup {NoSession}
  BY <1>2, <1>4 DEF ScreenStands, FetchStands, TabInv, TabTyped, TabPlaces
<1>6. \A x : Brings(x)' <=> SavedIn(x, fetch.of)
  <2>1. \A x : x \in Tab!ToSet(list) <=> SavedIn(x, fetch.of)
    BY <1>1, RowsInHold
  <2> QED
    BY <1>3, <2>1, TabHelpers DEF Brings
<1>7. Streams' /\ Evidence' /\ OldStays' /\ Owned'
  BY <1>2, <1>4 DEF ScreenStands, Streams, Evidence, OldStays, Owned, Saved, Shows, Answer, NoSession
<1>8. Bound'
  BY <1>2, <1>3, <1>4 DEF ScreenStands, Bound, NoSession
<1>9. FetchStands'
  <2>1. \A x \in fetch.had : x[1] \in TabTurns \ left =>
          turns[x[1]] = "ended" /\ Home(x[1]) \notin {NoSession, fetch.of}
    BY <1>2, <1>4 DEF ScreenStands, FetchStands
  <2>2. \A t : Home(t)' = Home(t)
    BY <1>2 DEF Home, Question
  <2>3. \A role \in Tab!Roles : Brings(OldRow(role))' <=> fetch.of = Tab!Old
    BY <1>4, <1>5, <1>6, SavedInIs DEF ScreenStands
  <2>4. \A x \in Tab!Saves : Brings(x)' => posts[x].at = "over" /\ posts[x].to = fetch.of
    BY <1>4, <1>6, SavedInIs DEF ScreenStands
  <2>5. NoSession' = NoSession
    BY DEF NoSession
  <2> QED
    BY <1>2, <1>3, <1>5, <2>1, <2>2, <2>3, <2>4, <2>5 DEF FetchStands, OldRow
<1>10. \A x : Shows(x)' <=> Shows(x)
  BY <1>2 DEF Shows
<1>11. OldShows'
  BY <1>3 DEF OldShows
<1>12. ASSUME NEW t \in TabTurns PROVE TurnShows(t)'
  <2>1. TurnShows(t) /\ Home(t)' = Home(t) /\ (Settling' <=> Settling) /\ NoSession' = NoSession
    BY <1>2, <1>4 DEF ScreenStands, Home, Question, Settling, NoSession
  <2> QED
    BY <1>2, <1>3, <1>10, <2>1 DEF TurnShows
<1> QED
  BY <1>7, <1>8, <1>9, <1>11, <1>12 DEF ScreenStands

(* What was read replaces the thread, of which it has all that was not     *)
(* elsewhere.                                                              *)
LEMMA ScreenFetched ==
  ASSUME TabInv, ScreenInv, Clean', Tab!Fetched
  PROVE  ScreenStands'
<1>1. PICK list \in Seq(RowIds) : list = fetch.rows
  BY DEF TabInv, TabTyped, TabScreen, Fetches
<1>2. PICK answers : answers = Tab!KeptOf(list, {id \in Tab!ToSet(list) : id[2] = "assistant"})
  OBVIOUS
<1>3. /\ UNCHANGED <<active, rendered, bound, streaming, turns, posts, creating, ensured, sessions,
                     messages, left, hurt, outlisted>>
      /\ fetch.at = "read" /\ fetch'.at = "none" /\ loaded' = loaded \cup {fetch.of}
      /\ thread' = list /\ rail' = (IF answers = <<>> THEN 0 ELSE Tab!Last(answers)[1])
      /\ ~parted /\ Tab!ToSet(thread) \subseteq Tab!ToSet(list) \cup fetch.had
  BY <1>1, <1>2 DEF Tab!Fetched, Tab!turn, Tab!server, Tab!NoFetch, Clean
<1>4. ScreenStands
  BY <1>3 DEF ScreenInv, Clean
<1>5. fetch.of = rendered /\ active # NoSession
  BY <1>3, <1>4 DEF ScreenStands, FetchStands, Bound
<1>6. \A x : Shows(x)' <=> Brings(x)
  BY <1>1, <1>3 DEF Shows, Brings
<1>7. \A x : Shows(x) => Brings(x) \/ x \in fetch.had
  BY <1>1, <1>3, TabHelpers DEF Shows, Brings
<1>8. Streams' /\ OldStays'
  BY <1>3, <1>4 DEF ScreenStands, Streams, OldStays, Saved
<1>9. Owned' /\ Bound'
  BY <1>3, <1>4, <1>5 DEF ScreenStands, Owned, Bound, NoSession
<1>10. Evidence'
  <2> SUFFICES ASSUME answers # <<>> PROVE Shows(Answer(rail))'
    BY <1>3 DEF Evidence
  <2>1. PICK S : S = {id \in Tab!ToSet(list) : id[2] = "assistant"}
    OBVIOUS
  <2>2. PICK kept \in Seq(RowIds) : kept = answers /\ PickedOf(list, S, Len(list), kept)
    BY <1>2, <2>1, KeptIs, TabHelpers
  <2>3. Len(kept) \in DOMAIN kept
    BY <2>2
  <2>4. PICK x : x = kept[Len(kept)]
    OBVIOUS
  <2>5. x \in RowIds /\ x \in S
    BY <2>2, <2>3, <2>4 DEF PickedOf
  <2>6. x = Answer(x[1]) /\ x \in Tab!ToSet(list)
    BY <2>1, <2>5 DEF RowIds, Answer
  <2>7. Answer(rail)' = x
    BY <1>3, <2>2, <2>4, <2>6 DEF Tab!Last, Answer
  <2>8. PICK i \in DOMAIN list : list[i] = x
    BY <2>6, TabHelpers
  <2> QED
    BY <1>3, <2>7, <2>8 DEF Shows
<1>11. FetchStands'
  BY <1>3 DEF FetchStands
<1>12. ASSUME NEW t \in TabTurns PROVE TurnShows(t)'
  <2>1. TurnShows(t) /\ TurnStands(t)
    BY <1>4 DEF ScreenStands, TabInv
  <2>2. Home(t)' = Home(t) /\ (Settling' <=> Settling) /\ NoSession' = NoSession
    BY <1>3 DEF Home, Question, Settling, NoSession
  <2>3. \A x \in {Question(t), Answer(t)} :
          Brings(x) => posts[x].at = "over" /\ posts[x].to = rendered
    BY <1>3, <1>4, <1>5, TabIds DEF ScreenStands, FetchStands
  <2>4. turns[t] = "unsent" => ~Brings(Question(t)) /\ ~Brings(Answer(t))
    BY <2>1, <2>3 DEF TurnStands
  <2>5. \A x \in {Question(t), Answer(t)} :
          x \in fetch.had /\ t \notin left =>
            turns[t] = "ended" /\ Home(t) \notin {NoSession, rendered}
    BY <1>3, <1>4, <1>5 DEF ScreenStands, FetchStands, Question, Answer
  <2>6. t \notin left /\ (Brings(Question(t)) \/ Brings(Answer(t))) => Home(t) \in {NoSession, rendered}
    BY <2>1, <2>3 DEF TurnStands, Home
  <2>7. Settling => active = rendered
    BY DEF Settling
  <2> DEFINE both == Brings(Question(t)) /\ Brings(Answer(t))
  <2>8. turns[t] # "unsent" /\ t \notin left /\ turns[t] # "ended" => both
    BY <1>7, <2>1, <2>5 DEF TurnShows
  <2>9. turns[t] # "unsent" /\ t \notin left /\ Settling /\ Home(t) \in {NoSession, active} => both
    BY <1>7, <2>1, <2>5, <2>7 DEF TurnShows
  <2>10. t \notin left /\ active # rendered /\ Home(t) = active => ~Brings(Question(t))
    BY <1>5, <2>6
  <2> QED
    BY <1>3, <1>6, <2>2, <2>4, <2>6, <2>7, <2>8, <2>9, <2>10 DEF TurnShows
<1>13. OldShows'
  BY <1>3, <1>4, <1>5, <1>6 DEF OldShows, Settling, ScreenStands, FetchStands, OldRow
<1> QED
  BY <1>8, <1>9, <1>10, <1>11, <1>12, <1>13 DEF ScreenStands

(* A fetch that fails clears what was empty.                               *)
LEMMA ScreenFetchFails ==
  ASSUME TabInv, ScreenInv, Clean', Tab!FetchFails
  PROVE  ScreenStands'
<1>1. /\ UNCHANGED <<active, rendered, bound, loaded, rail, streaming, turns, posts, creating, ensured,
                     sessions, messages, left, hurt, outlisted>>
      /\ fetch.at = "asked" /\ fetch'.at = "none" /\ thread' = <<>>
      /\ ~parted /\ thread = <<>> /\ Tab!RowsIn(fetch.of) = <<>>
  BY DEF Tab!FetchFails, Tab!turn, Tab!server, Tab!NoFetch, Clean
<1>2. ScreenStands
  BY <1>1 DEF ScreenInv, Clean
<1>3. /\ fetch.of = rendered /\ active # NoSession
      /\ fetch.of \in sessions \cup {NoSession}
  BY <1>1, <1>2 DEF ScreenStands, FetchStands, Bound, TabInv, TabTyped, TabPlaces
<1>4. \A x : ~Shows(x)' /\ ~Shows(x)
  BY <1>1 DEF Shows
<1>5. Streams' /\ Evidence' /\ OldStays' /\ Owned'
  BY <1>1, <1>2 DEF ScreenStands, Streams, Evidence, OldStays, Owned, Saved, Shows, Answer, NoSession
<1>6. Bound' /\ FetchStands'
  BY <1>1, <1>2, <1>3 DEF ScreenStands, Bound, FetchStands, NoSession
<1>7. ASSUME NEW t \in TabTurns PROVE TurnShows(t)'
  <2>1. TurnShows(t) /\ Home(t)' = Home(t) /\ (Settling' <=> Settling) /\ NoSession' = NoSession
    BY <1>1, <1>2 DEF ScreenStands, Home, Question, Settling, NoSession
  <2> QED
    BY <1>1, <1>4, <2>1 DEF TurnShows
<1>8. OldShows'
  <2> SUFFICES ASSUME Settling', active = Tab!Old PROVE FALSE
    BY <1>1, <1>4 DEF OldShows, OldRow
  <2>1. fetch.of = Tab!Old
    BY <1>1, <1>3 DEF Settling
  <2>2. SavedIn(OldRow("user"), fetch.of)
    BY <1>2, <1>3, <2>1, SavedInIs DEF ScreenStands, Tab!Roles
  <2>3. OldRow("user") \in Tab!ToSet(Tab!Ids(Tab!RowsIn(fetch.of)))
    BY <2>2, RowsInHold
  <2>4. PICK none : none = Tab!Ids(Tab!RowsIn(fetch.of))
    OBVIOUS
  <2>5. DOMAIN none = {}
    BY <1>1, <2>4 DEF Tab!Ids
  <2> QED
    BY <2>3, <2>4, <2>5, TabHelpers
<1> QED
  BY <1>5, <1>6, <1>7, <1>8 DEF ScreenStands

(* The effects of a render with another session.                           *)
LEMMA ScreenRebind ==
  ASSUME TabInv, ScreenInv, Clean', Tab!Rebind
  PROVE  ScreenStands'
<1>1. /\ UNCHANGED <<active, loaded, streaming, turns, posts, creating, ensured, sessions, messages,
                     hurt, outlisted>>
      /\ active # rendered /\ rendered' = active /\ bound' = active
      /\ left' = left \cup Tab!Leaving(active)
  BY DEF Tab!Rebind, Tab!server
<1>2. ScreenStands /\ hurt = {}
  <2>1. \/ parted' = parted
        \/ parted' = \/ parted
                     \/ \E i \in DOMAIN thread : Tab!SessionOf(thread[i]) \notin {NoSession, active}
                     \/ ~(Tab!ToSet(Tab!Ids(Tab!RowsIn(active))) \subseteq Tab!ToSet(thread))
    BY DEF Tab!Rebind, NoSession
  <2>2. ~parted
    BY <2>1, Zenon DEF Clean
  <2> QED
    BY <1>1, <2>2 DEF ScreenInv, Clean
<1>3. active # NoSession
  BY <1>1, <1>2 DEF ScreenStands, Bound
<1>4. UNCHANGED <<thread, rail>>
  BY <1>3 DEF Tab!Rebind, NoSession
<1>5. \/ /\ active \in loaded /\ fetch'.at = "none"
         /\ \A i \in DOMAIN thread : Tab!SessionOf(thread[i]) \in {NoSession, active}
         /\ Tab!ToSet(Tab!Ids(Tab!RowsIn(active))) \subseteq Tab!ToSet(thread)
      \/ /\ active \notin loaded
         /\ fetch' = [at |-> "asked", of |-> active, had |-> Tab!Placed, rows |-> <<>>]
  <2>1. \/ /\ active \in loaded /\ fetch' = Tab!NoFetch
           /\ parted' = \/ parted
                        \/ \E i \in DOMAIN thread : Tab!SessionOf(thread[i]) \notin {NoSession, active}
                        \/ ~(Tab!ToSet(Tab!Ids(Tab!RowsIn(active))) \subseteq Tab!ToSet(thread))
        \/ /\ active \notin loaded
           /\ fetch' = [at |-> "asked", of |-> active, had |-> Tab!Placed, rows |-> <<>>]
    BY <1>3, Zenon DEF Tab!Rebind, NoSession
  <2>2. ~parted' /\ Tab!NoFetch.at = "none"
    BY DEF Clean, Tab!NoFetch
  <2> QED
    BY <2>1, <2>2, Zenon
<1>6. \A x : Shows(x)' <=> Shows(x)
  BY <1>4 DEF Shows
<1>7. Streams' /\ Evidence' /\ OldStays' /\ Owned' /\ Bound'
  BY <1>1, <1>2, <1>3, <1>4, <1>5
     DEF ScreenStands, Streams, Evidence, OldStays, Owned, Bound, Saved, Shows, Answer, NoSession
<1>8. \A t \in TabTurns :
        /\ Home(t)' = Home(t) /\ Home(t) \in loaded \cup {NoSession}
        /\ turns[t] = "unsent" \/ (Home(t) = NoSession /\ turns[t] = "saving")
             \/ Home(t) # NoSession
        /\ turns[t] = "unsent" => Home(t) = NoSession
  BY <1>1, <1>2, HomeIs, TabIds DEF ScreenStands, Owned, Home
<1>9. FetchStands'
  <2>1. CASE active \in loaded
    BY <1>5, <2>1 DEF FetchStands
  <2>2. CASE active \notin loaded
    <3>1. /\ fetch'.at = "asked" /\ fetch'.of = rendered' /\ fetch'.had = Tab!Placed
      BY <1>1, <1>5, <2>2
    <3>2. ASSUME NEW x \in Tab!Placed, x[1] \in TabTurns \ left'
          PROVE  turns[x[1]] = "ended" /\ Home(x[1]) \notin {NoSession, active}
      <4>1. PICK t \in TabTurns : t = x[1]
        BY <3>2
      <4>2. Home(t) # NoSession
        BY <3>2, <4>1, TabIds DEF Tab!Placed, Tab!SessionOf, Home, Question, NoSession, Tab!OldTurn
      <4>3. Home(t) # active
        BY <1>8, <2>2, <4>2
      <4>4. t \notin Tab!Running
        BY <1>1, <3>2, <4>1, <4>2, <4>3 DEF Tab!Leaving, Home, Question, NoSession
      <4>5. turns[t] # "unsent"
        BY <1>8, <4>2
      <4> QED
        BY <4>1, <4>2, <4>3, <4>4, <4>5, TabIds DEF Tab!Running
    <3>3. NoSession' = NoSession
      BY DEF NoSession
    <3> QED
      BY <1>1, <1>8, <3>1, <3>2, <3>3 DEF FetchStands
  <2> QED
    BY <2>1, <2>2
<1>10. ASSUME active \in loaded
       PROVE  /\ \A x : Shows(x) => Tab!SessionOf(x) \in {NoSession, active}
              /\ \A x : SavedIn(x, active) => Shows(x)
  <2>1. \A x : x \in Tab!ToSet(Tab!Ids(Tab!RowsIn(active))) => x \in Tab!ToSet(thread)
    BY <1>5, <1>10
  <2>2. \A x : SavedIn(x, active) => x \in Tab!ToSet(thread)
    BY <2>1, RowsInHold
  <2> QED
    BY <1>5, <1>10, <2>2, TabHelpers DEF Shows
<1>11. ASSUME NEW t \in TabTurns PROVE TurnShows(t)'
  <2>1. TurnShows(t) /\ TurnStands(t)
    BY <1>2 DEF ScreenStands, TabInv
  <2>2. NoSession' = NoSession
    BY DEF NoSession
  <2>3. turns[t] = "ended" /\ t \notin left /\ Home(t) = active =>
          Shows(Question(t)) /\ Shows(Answer(t))
    <3> SUFFICES ASSUME turns[t] = "ended", t \notin left, Home(t) = active
                 PROVE  Shows(Question(t)) /\ Shows(Answer(t))
      OBVIOUS
    <3>1. active \in loaded
      BY <1>3, <1>8
    <3>2. posts[Question(t)].at = "over"
      BY <2>1 DEF TurnStands
    <3>3. SavedIn(Question(t), active)
      BY <1>2, <3>2, HomeIs, TabIds DEF ScreenStands, Home
    <3> QED
      BY <1>1, <1>10, <2>1, <3>1, <3>3 DEF TurnShows
  <2>4. ASSUME turns[t] # "unsent", t \notin left, active \in loaded,
               Shows(Question(t)) \/ Shows(Answer(t))
        PROVE  Home(t) \in {NoSession, active}
    <3>1. \A x \in {Question(t), Answer(t)} : Tab!SessionOf(x) = posts[x].to
      BY TabIds DEF Tab!SessionOf, Question, Answer, Tab!OldTurn
    <3>2. CASE Shows(Question(t))
      BY <1>10, <2>4, <3>1, <3>2 DEF Home
    <3>3. CASE ~Shows(Question(t))
      <4>1. turns[t] = "ended" /\ posts[Answer(t)].to \in {NoSession, active}
        BY <1>10, <2>1, <2>4, <3>1, <3>3 DEF TurnShows
      <4> QED
        BY <2>1, <2>4, <4>1 DEF TurnStands, Home
    <3> QED
      BY <3>2, <3>3
  <2>5. t \notin left' => t \notin left
    BY <1>1
  <2>6. fetch'.at = "none" => active \in loaded
    BY <1>5
  <2>7. turns[t] = "ended" => Home(t) # NoSession
    BY <1>8
  <2> QED
    BY <1>1, <1>6, <1>8, <2>1, <2>2, <2>3, <2>4, <2>5, <2>6, <2>7 DEF TurnShows
<1>12. OldShows'
  <2> SUFFICES ASSUME fetch'.at = "none", NEW role \in Tab!Roles
               PROVE  Shows(OldRow(role)) <=> active = Tab!Old
    BY <1>1, <1>6 DEF OldShows, OldRow
  <2>1. active \in loaded /\ active \in sessions \cup {NoSession}
    BY <1>5 DEF TabInv, TabTyped, TabPlaces
  <2>2. Tab!SessionOf(OldRow(role)) = Tab!Old
    BY DEF Tab!SessionOf, OldRow
  <2>3. Tab!Old # NoSession
    BY TabIds DEF TabSessions
  <2>4. active = Tab!Old => SavedIn(OldRow(role), active)
    BY <1>2, <2>1, SavedInIs DEF ScreenStands
  <2> QED
    BY <1>10, <2>1, <2>2, <2>3, <2>4
<1> QED
  BY <1>7, <1>9, <1>11, <1>12 DEF ScreenStands

-----------------------------------------------------------------------------
(* ChatClient: every step keeps the screen, and at rest it is the thread. *)

(* A session that cannot be created loses what waited for it, or parts a   *)
(* new chat from what it will be saved to.                                 *)
LEMMA CreateFailsParts ==
  ASSUME TabInv, NEW s \in Fresh, Tab!CreateFails(s)
  PROVE  ~Clean'
<1>1. CASE s # ensured
  <2>1. parted' = (parted \/ s # ensured)
    BY DEF Tab!CreateFails
  <2> QED
    BY <1>1, <2>1 DEF Clean
<1>2. CASE s = ensured
  <2>1. ensured # NoSession
    BY <1>2, TabIds DEF TabSessions
  <2>2. PICK x \in Tab!Saves : posts[x].at = "waiting"
    BY <2>1 DEF TabInv, Waits
  <2>3. hurt' = hurt \cup {y[1] : y \in Tab!Waiting}
    BY <1>2 DEF Tab!CreateFails
  <2>4. x[1] \in hurt'
    BY <2>2, <2>3 DEF Tab!Waiting
  <2> QED
    BY <2>4 DEF Clean
<1> QED
  BY <1>1, <1>2

LEMMA ScreenStep ==
  TabInv /\ ScreenInv /\ (Tab!ClientNext \/ UNCHANGED client) => ScreenInv'
<1> SUFFICES ASSUME TabInv, ScreenInv, Tab!ClientNext \/ UNCHANGED client, Clean'
             PROVE  ScreenStands'
  BY DEF ScreenInv
<1>1. CASE UNCHANGED client \/ Tab!Rest
  <2>1. UNCHANGED client
    BY <1>1 DEF client, Tab!Rest, Tab!clientVars, Tab!tab, Tab!turn, Tab!calls, Tab!server,
                Tab!history
  <2> QED
    BY <2>1, ScreenQuiet
<1>2. CASE Tab!Refresh \/ Tab!List \/ Tab!ListFails
  BY <1>2, ScreenQuiet
<1>3. CASE Tab!Listed \/ Tab!NewChat
  BY <1>3, ScreenListed, ScreenNewChat
<1>4. CASE Tab!Rebind \/ Tab!Fetch \/ Tab!Fetched \/ Tab!FetchFails
  BY <1>4, ScreenRebind, ScreenFetch, ScreenFetched, ScreenFetchFails
<1>5. ASSUME NEW s \in Fresh, Tab!Create(s) \/ Tab!Created(s) \/ Tab!CreateFails(s)
      PROVE  ScreenStands'
  <2>1. CASE Tab!Create(s)
    BY <2>1, ScreenQuiet
  <2>2. CASE Tab!Created(s) /\ s = ensured
    BY <2>2, ScreenOpened
  <2>3. CASE Tab!Created(s) /\ s # ensured
    BY <2>3, ScreenCreated
  <2>4. CASE Tab!CreateFails(s)
    BY <2>4, CreateFailsParts
  <2> QED
    BY <1>5, <2>1, <2>2, <2>3, <2>4
<1>6. ASSUME NEW t \in Tab!Turns,
             \/ Tab!Send(t) \/ Tab!Open(t) \/ Tab!Done(t) \/ Tab!Close(t)
             \/ Tab!Break(t) \/ Tab!Answered(t) \/ Tab!AskFails(t)
      PROVE  ScreenStands'
  BY <1>6, TabIds, ScreenSends, ScreenAnswers
<1>7. ASSUME NEW x \in Tab!Saves, Tab!SaveRow(x) \/ Tab!SaveFails(x) PROVE ScreenStands'
  BY <1>7, ScreenQuiet
<1>8. ASSUME NEW p \in patches, Tab!UpdateRow(p) \/ Tab!UpdateFails(p) PROVE ScreenStands'
  BY <1>8, ScreenQuiet
<1> QED
  BY <1>1, <1>2, <1>3, <1>4, <1>5, <1>6, <1>7, <1>8 DEF Tab!ClientNext

LEMMA ScreenShows == TabInv /\ ScreenInv => Tab!ScreenIsTheThread
<1> SUFFICES ASSUME TabInv, ScreenInv, Tab!Quiet, hurt = {}, ~parted, ~outlisted
             PROVE  /\ \A id \in {x \in Tab!ToSet(thread) \cup Tab!ToSet(Tab!Ids(messages)) :
                                    x[1] \notin left} :
                         id \in Tab!ToSet(thread) <=> id \in Tab!ToSet(Tab!Ids(Tab!RowsIn(active)))
                    /\ ~streaming
                    /\ rail = 0 \/ <<rail, "assistant">> \in Tab!ToSet(thread) \/ rail \in left
  BY DEF Tab!ScreenIsTheThread
<1>1. ScreenStands
  BY DEF ScreenInv, Clean
<1>2. /\ \A t \in TabTurns : turns[t] \in {"unsent", "ended"}
      /\ active = rendered /\ creating = {} /\ fetch.at = "none"
      /\ \A x \in Tab!Saves : posts[x].at \in {"none", "over"}
  BY TabIds DEF Tab!Quiet, Tab!Running, Tab!NoFetch
<1>3. Settling
  BY <1>2 DEF Settling
<1>4. \A x : x \in Tab!ToSet(thread) <=> Shows(x)
  BY TabHelpers DEF Shows
<1>5. \A x : x \in Tab!ToSet(Tab!Ids(messages)) => Saved(x)
  <2>1. PICK ids : ids = [i \in DOMAIN messages |-> messages[i].id]
    OBVIOUS
  <2>2. Tab!ToSet(ids) = {ids[i] : i \in DOMAIN ids} /\ Tab!Ids(messages) = ids
    BY <2>1, TabHelpers DEF Tab!Ids
  <2> QED
    BY <2>1, <2>2 DEF Saved
<1>6. \A x : Shows(x) \/ Saved(x) => x \in RowIds
  <2>1. thread \in Seq(RowIds) /\ messages \in Seq(MessageRows)
    BY DEF TabInv, TabTyped, TabScreen, TabSaves
  <2>2. \A i \in DOMAIN messages : messages[i] \in MessageRows
    BY <2>1
  <2>3. \A i \in DOMAIN messages : messages[i].id \in RowIds
    BY <2>2 DEF MessageRows
  <2>4. \A i \in DOMAIN thread : thread[i] \in RowIds
    BY <2>1
  <2> QED
    BY <2>3, <2>4 DEF Shows, Saved
<1>7. ASSUME NEW role \in Tab!Roles
      PROVE  Shows(OldRow(role)) <=> SavedIn(OldRow(role), active)
  <2>1. active \in sessions \cup {NoSession}
    BY DEF TabInv, TabTyped, TabPlaces
  <2> QED
    BY <1>1, <1>2, <1>3, <2>1, SavedInIs DEF ScreenStands, OldShows
<1>8. ASSUME NEW t \in TabTurns \ left
      PROVE  /\ Shows(Question(t)) <=> SavedIn(Question(t), active)
             /\ Shows(Answer(t)) <=> SavedIn(Answer(t), active)
  <2>1. TurnShows(t) /\ TurnStands(t) /\ t \in TabTurns
    BY <1>1 DEF ScreenStands, TabInv
  <2>2. \A x \in {Question(t), Answer(t)} :
          /\ posts[x].at = "over" => SavedIn(x, posts[x].to)
          /\ SavedIn(x, active) => posts[x].at = "over" /\ posts[x].to = active
    <3>1. Owned /\ OldStays
      BY <1>1 DEF ScreenStands
    <3>2. \A x \in Tab!Saves : posts[x].at = "over" => SavedIn(x, posts[x].to)
      BY <2>1, <3>1, HomeIs
    <3>3. \A x \in Tab!Saves :
            SavedIn(x, active) => posts[x].at = "over" /\ posts[x].to = active
      BY <3>1, SavedInIs
    <3> QED
      BY <2>1, <3>2, <3>3, TabIds
  <2>3. CASE turns[t] = "unsent"
    BY <2>1, <2>2, <2>3 DEF TurnShows, TurnStands
  <2>4. CASE turns[t] = "ended"
    <3>1. Home(t) # NoSession
      BY <1>1, <2>1, <2>4, HomeIs DEF ScreenStands
    <3>2. /\ Shows(Question(t)) <=> Home(t) = active
          /\ Shows(Answer(t)) <=> Home(t) = active
      BY <1>2, <1>3, <2>1, <2>4, <3>1 DEF TurnShows
    <3>3. posts[Question(t)].at = "over" /\ posts[Answer(t)].at = "over"
      BY <1>2, <2>1, <2>4, TabIds DEF TurnStands
    <3>4. posts[Answer(t)].to = Home(t)
      BY <2>1, <2>4, <3>1, <3>3 DEF TurnStands, Home
    <3> QED
      BY <2>2, <3>2, <3>3, <3>4 DEF Home
  <2> QED
    BY <1>2, <2>1, <2>3, <2>4
<1>9. ASSUME NEW x, Shows(x) \/ Saved(x), x[1] \notin left
      PROVE  Shows(x) <=> x \in Tab!ToSet(Tab!Ids(Tab!RowsIn(active)))
  <2>1. x \in RowIds
    BY <1>6, <1>9
  <2>2. \/ \E role \in Tab!Roles : x = OldRow(role)
        \/ \E t \in TabTurns \ left : x = Question(t) \/ x = Answer(t)
    BY <1>9, <2>1, TabIds DEF RowIds, Tab!Roles, OldRow, Tab!OldTurn, Question, Answer, TabTurns
  <2>3. Shows(x) <=> SavedIn(x, active)
    BY <1>7, <1>8, <2>2
  <2> QED
    BY <2>3, RowsInHold
<1>10. ~streaming
  BY <1>1, <1>2 DEF ScreenStands, Streams
<1>11. rail = 0 \/ <<rail, "assistant">> \in Tab!ToSet(thread) \/ rail \in left
  BY <1>1, <1>4 DEF ScreenStands, Evidence, Answer
<1> QED
  BY <1>4, <1>5, <1>9, <1>10, <1>11

-----------------------------------------------------------------------------
(* What holds of each side, whichever is running.                          *)

SavedInv == IndexInv /\ (side = "tab" => TabInv /\ ScreenInv)

(* It always holds.                                                        *)
LEMMA AlwaysSavedInv == AllSpec => []SavedInv
<1>1. AllInit => SavedInv
  BY IndexInit, TabStarts, ScreenStarts DEF AllInit, SavedInv, ScreenInv
<1>2. SavedInv /\ [AllNext]_<<side, vars, client>> => SavedInv'
  <2> SUFFICES ASSUME SavedInv, [AllNext]_<<side, vars, client>> PROVE SavedInv'
    OBVIOUS
  <2>1. [Next]_vars /\ side' = side
    BY DEF AllNext
  <2>2. IndexInv'
    BY <2>1, IndexStep DEF SavedInv
  <2>3. side = "tab" => Tab!ClientNext \/ UNCHANGED client
    BY DEF AllNext
  <2>4. side = "tab" => TabInv' /\ ScreenInv'
    BY <2>3, TabStep, ScreenStep DEF SavedInv
  <2> QED
    BY <2>1, <2>2, <2>4 DEF SavedInv
<1> QED
  BY <1>1, <1>2, PTL DEF AllSpec

(* Of BM25Index and of the chat hooks: the variables of both have their    *)
(* types, and a tab is at a session that is there.                         *)
THEOREM TypesHold == AllSpec => []Types
<1>1. SavedInv => Types
  BY TabTypes DEF SavedInv, IndexInv, Base, Types
<1> QED
  BY <1>1, AlwaysSavedInv, PTL

(* Of sendMessage, persist and ensureSession: however requests overtake    *)
(* each other, what is saved of a turn is a question followed by its answer*)
(* in the same session, the answer of a turn that is over is a finished    *)
(* one, and sends open one session between them -- but for what was lost,  *)
(* overtaken or left, as each says.                                        *)
THEOREM TurnsHold == AllSpec => []TurnsAreSaved
<1>1. SavedInv => TurnsAreSaved
  BY TabSavesTurns DEF SavedInv, TurnsAreSaved
<1> QED
  BY <1>1, AlwaysSavedInv, PTL

(* Of useChat and useChatSessions: when nothing is under way, a tab shows  *)
(* the rows saved in the session it is at, and no others, and the evidence *)
(* of an answer among them, whatever sessions were opened, listed and      *)
(* fetched on the way and in whatever order the calls were answered -- but *)
(* for a row that was lost, a turn that was left, and the cases in which   *)
(* `parted' and `outlisted' say a thread or a session was replaced.        *)
THEOREM ScreenHolds == AllSpec => []ScreenIsTheThread
<1>1. SavedInv => ScreenIsTheThread
  BY ScreenShows DEF SavedInv, ScreenIsTheThread
<1> QED
  BY <1>1, AlwaysSavedInv, PTL
=============================================================================
