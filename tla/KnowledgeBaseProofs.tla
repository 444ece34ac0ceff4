------------------------ MODULE KnowledgeBaseProofs ------------------------
(***************************************************************************)
(* Proofs about KnowledgeBase for every set of requests, of URLs, contents *)
(* and corpora and every bound: the two stores agree, a URL has one id, a  *)
(* retry is not swallowed, and a deletion leaves nothing behind.           *)
(***************************************************************************)
EXTENDS KnowledgeBase, FiniteSetTheorems, TLAPS

Working(p) == pc[p] # "idle"
Emptied(i) == dense[i] = <<>> /\ lexical[i] = 0
Agree(i) == Emptied(i) \/ (lexical[i] # 0 /\ dense[i] = <<lexical[i]>>)

(* What a request asked for, at each of its steps, and the text it loaded. *)
Coherent ==
  \A p \in Procs :
    /\ Working(p) => req[p].kind \in {"ingest", "delete"} /\ req[p].id.url \in DOMAIN world
    /\ pc[p] \in {"exists", "legacy", "recheck", "load", "dedup", "embed", "addDense",
                  "addLexical"} => req[p].kind = "ingest"
    /\ pc[p] \in {"unlink", "untitle"} => req[p].kind = "delete"
    /\ pc[p] \in {"exists", "legacy"} => req[p].id = Derived(req[p].id.url)
    /\ pc[p] = "legacy" => req[p].id.url \notin Files /\ ~req[p].replaced
    /\ req[p].kind = "ingest" /\ pc[p] \notin {"idle", "exists", "legacy", "recheck", "load"}
         => req[p].doc \in Texts

(* Two requests of one URL know of each other.                             *)
Overlap ==
  \A p, q \in Procs :
    p # q /\ Working(p) /\ Working(q) /\ req[p].id.url = req[q].id.url
    => p \in disturbed /\ IdsOf(req[p].id.url) \subseteq broken

(* A source no request works on is the same in both stores.                *)
Rest == \A i \in Ids \ broken : (\A q \in Procs : Working(q) => req[q].id # i) => Agree(i)

(* Of the two ids of a URL, the old one is the broken one if both are      *)
(* stored.                                                                 *)
OneStored == \A u \in OldUrls : Stored(Derived(u)) /\ Stored(Random(u)) => Random(u) \in broken

(* The deduplicator knows texts that are stored, or on their way in or out.*)
Marking == {"delLexical", "delReset", "embed", "addDense"}
SeenIsStored ==
  \A mark \in seen :
    \/ Stored(mark[1])
    \/ \E q \in Procs : pc[q] \in Marking /\ req[q].id = mark[1]

(* What the request relies on about its source, step by step: if it was    *)
(* not broken, or nothing disturbed the request itself.                    *)
Whole(p) == req[p].id \notin broken
Calm(p) == p \notin disturbed

ShapeStores(p) ==
  LET i == req[p].id IN
  /\ pc[p] \in {"exists", "recheck", "load", "delDense"} /\ Whole(p) => Agree(i)
  /\ pc[p] = "legacy" \/ (pc[p] = "load" /\ ~req[p].replaced)
       => (Whole(p) => Emptied(i)) /\ (Calm(p) => ~Stored(i))
  /\ pc[p] = "delLexical" /\ (Whole(p) \/ Calm(p)) => dense[i] = <<>>
  /\ pc[p] \in {"delReset", "unlink", "untitle"} /\ (Whole(p) \/ Calm(p)) => Emptied(i)
  /\ pc[p] \in {"dedup", "embed", "addDense"}
       => /\ Whole(p) \/ (Calm(p) /\ req[p].replaced) => Emptied(i)
          /\ Calm(p) => ~Stored(i)
  /\ pc[p] = "addLexical" /\ (Whole(p) \/ (Calm(p) /\ req[p].replaced))
       => dense[i] = <<req[p].doc>> /\ lexical[i] = 0

(* and about the other id of its URL, and the card of its source.          *)
ShapeOther(p) ==
  LET i == req[p].id
      u == req[p].id.url IN
  /\ req[p].kind = "ingest" /\ i = Derived(u) /\ u \in OldUrls
       /\ pc[p] \notin {"idle", "exists", "legacy"}
       => (Stored(Random(u)) => Random(u) \in broken)
  /\ req[p].kind = "ingest" /\ i # Derived(u) /\ Working(p) /\ (Whole(p) \/ Calm(p))
       => ~Stored(Derived(u))
  /\ pc[p] = "untitle" /\ Calm(p) => i \notin members

Shapes == \A p \in Procs : ShapeStores(p) /\ ShapeOther(p)

Data == Overlap /\ Rest /\ OneStored /\ SeenIsStored /\ Shapes

IInv == TypeOK /\ Coherent /\ Data

-----------------------------------------------------------------------------
(* The ids of a URL.                                                       *)
LEMMA IdFacts ==
  /\ \A u \in Urls : Derived(u) \in Ids
  /\ \A u \in OldUrls : Random(u) \in Ids
  /\ \A u : Derived(u).url = u /\ Random(u).url = u
  /\ \A u, v : Derived(u) # Random(v)
  /\ \A i \in Ids : /\ i.url \in Urls
                    /\ i = Derived(i.url) \/ (i = Random(i.url) /\ i.url \in OldUrls)
<1> USE UrlsAssumption DEF Derived, Random, Ids
<1>1. \A u, v : Derived(u) # Random(v)
  <2> SUFFICES ASSUME NEW u, NEW v, Derived(u) = Random(v) PROVE FALSE
    OBVIOUS
  <2>1. Derived(u).how = "derived" /\ Random(v).how = "random"
    OBVIOUS
  <2> QED
    BY <2>1
<1>2. ASSUME NEW i \in Ids
      PROVE  i.url \in Urls /\ (i = Derived(i.url) \/ (i = Random(i.url) /\ i.url \in OldUrls))
  <2>1. CASE \E u \in Urls : i = [url |-> u, how |-> "derived"]
    BY <2>1
  <2>2. CASE \E u \in OldUrls : i = [url |-> u, how |-> "random"]
    BY <2>2
  <2> QED
    BY <2>1, <2>2
<1>3. \A u : Derived(u).url = u /\ Random(u).url = u
  OBVIOUS
<1>4. (\A u \in Urls : Derived(u) \in Ids) /\ (\A u \in OldUrls : Random(u) \in Ids)
  OBVIOUS
<1> QED
  BY <1>1, <1>2, <1>3, <1>4

(* Contents are positive numbers, and what a URL of a corpus holds is one. *)
LEMMA TextFacts ==
  /\ Texts \subseteq Nat /\ 0 \notin Texts
  /\ TypeOK => /\ DOMAIN world \subseteq Urls
               /\ \A u \in DOMAIN world : world[u] \in Texts /\ world[u] \in Versions[u]
<1>1. Texts \subseteq Nat /\ 0 \notin Texts
  BY VersionsAssumption DEF Texts
<1>2. ASSUME TypeOK PROVE DOMAIN world \subseteq Urls
  BY <1>2, CorporaAssumption DEF TypeOK
<1>3. ASSUME TypeOK PROVE \A u \in DOMAIN world : world[u] \in Texts /\ world[u] \in Versions[u]
  BY <1>3 DEF TypeOK, ContentsOf
<1> QED
  BY <1>1, <1>2, <1>3

Requests == [kind : {"none", "ingest", "delete"}, id : Ids, replaced : BOOLEAN,
             doc : Texts \cup {0}]

(* The request that asks for nothing is one.                               *)
LEMMA NobodyIsRequest == Nobody \in Requests /\ Nobody.kind = "none"
<1>1. (CHOOSE u \in Urls : TRUE) \in Urls
  BY UrlsAssumption
<1>2. Derived(CHOOSE u \in Urls : TRUE) \in Ids
  BY <1>1, IdFacts
<1> QED
  BY <1>2 DEF Nobody, Requests

-----------------------------------------------------------------------------
(* Every step keeps the types.                                             *)
LEMMA TypeStep == TypeOK /\ Coherent /\ [Next]_vars => TypeOK'
<1> SUFFICES ASSUME TypeOK, Coherent, [Next]_vars PROVE TypeOK'
  OBVIOUS
<1> USE DEF Requests, PCs, stores, sides, bounds, Goto, Becomes
<1>1. /\ pc \in [Procs -> PCs] /\ req \in [Procs -> Requests]
      /\ dense \in [Ids -> Seq(Texts)] /\ lexical \in [Ids -> Texts \cup {0}]
      /\ \A p \in Procs : req[p].id \in Ids /\ req[p].doc \in Texts \cup {0}
  BY DEF TypeOK
<1>2. ASSUME Smooth PROVE /\ disturbed' \subseteq Procs /\ broken' \subseteq Ids
                          /\ faults' \in 0..MaxFaults /\ crashes' \in 0..MaxCrashes
  BY <1>2 DEF Smooth, TypeOK
<1>3. ASSUME NEW p \in Procs, Fault(p) \/ Ends(p) \/ Repairs(p) \/ Breaks(p)
             \/ (Errs(p) /\ UNCHANGED broken)
      PROVE  /\ disturbed' \subseteq Procs /\ broken' \subseteq Ids
             /\ faults' \in 0..MaxFaults /\ crashes' \in 0..MaxCrashes
  BY <1>1, <1>3, BoundsAssumption DEF Fault, Ends, Repairs, Breaks, Errs, Leaves, TypeOK
<1>4. ASSUME NEW p \in Procs, Leaves(p)
      PROVE  pc' \in [Procs -> PCs] /\ req' \in [Procs -> Requests]
  BY <1>1, <1>4, NobodyIsRequest DEF Leaves
<1>5. ASSUME NEW p \in Procs, Ends(p) \/ Repairs(p) \/ Breaks(p) \/ Errs(p) PROVE Leaves(p)
  BY <1>5, Zenon DEF Ends, Repairs, Breaks, Errs
<1>6. ASSUME NEW p \in Procs, NEW l \in PCs, Goto(p, l)
      PROVE  pc' \in [Procs -> PCs] /\ req' \in [Procs -> Requests]
  BY <1>1, <1>6
<1>7. ASSUME NEW p \in Procs, NEW l \in PCs, NEW r \in Requests, Becomes(p, l, r)
      PROVE  pc' \in [Procs -> PCs] /\ req' \in [Procs -> Requests]
  BY <1>1, <1>7
<1>8. ASSUME NEW p \in Procs, NEW yes \in BOOLEAN PROVE [req[p] EXCEPT !.replaced = yes] \in Requests
  BY <1>1
<1>9. ASSUME NEW p \in Procs, NEW yes, Exists(p, yes)
      PROVE  /\ disturbed' \subseteq Procs /\ broken' \subseteq Ids
             /\ faults' \in 0..MaxFaults /\ crashes' \in 0..MaxCrashes
  BY <1>2, <1>3, <1>9 DEF Exists
<1>10. ASSUME NEW p \in Procs, NEW r \in Requests, NEW l \in PCs, Called(p, r, l) PROVE TypeOK'
  <2>1. disturbed' \subseteq Procs /\ broken' \subseteq Ids
    BY <1>10 DEF Called, TypeOK, Active, IdsOf
  <2> QED
    BY <1>7, <1>10, <2>1 DEF Called, TypeOK
<1>11. ASSUME NEW p \in Procs, CallIngest(p) PROVE TypeOK'
  <2>1. PICK u \in DOMAIN world :
          Called(p, [kind |-> "ingest", id |-> Derived(u), replaced |-> FALSE, doc |-> 0], "exists")
    BY <1>11 DEF CallIngest
  <2>2. Derived(u) \in Ids
    BY IdFacts, TextFacts
  <2>3. [kind |-> "ingest", id |-> Derived(u), replaced |-> FALSE, doc |-> 0] \in Requests
    BY <2>2
  <2> HIDE DEF Requests
  <2> QED
    BY <1>10, <2>1, <2>3
<1>12. ASSUME NEW p \in Procs, CallDelete(p) PROVE TypeOK'
  <2>1. PICK i \in Ids :
          Called(p, [kind |-> "delete", id |-> i, replaced |-> FALSE, doc |-> 0], "delDense")
    BY <1>12 DEF CallDelete
  <2>2. [kind |-> "delete", id |-> i, replaced |-> FALSE, doc |-> 0] \in Requests
    OBVIOUS
  <2> HIDE DEF Requests
  <2> QED
    BY <1>10, <2>1, <2>2
<1>13. ASSUME NEW i \in Ids, Name(i) PROVE TypeOK'
  BY <1>13 DEF Name, TypeOK, Active
<1>14. ASSUME NEW p \in Procs, SourceExists(p) PROVE TypeOK'
  <2>1. PICK yes \in BOOLEAN : /\ Exists(p, yes)
          /\ Becomes(p, IF yes \/ req[p].id.url \in Files THEN "load" ELSE "legacy",
                     [req[p] EXCEPT !.replaced = yes])
    BY <1>14 DEF SourceExists
  <2>2. (IF yes \/ req[p].id.url \in Files THEN "load" ELSE "legacy") \in PCs
    OBVIOUS
  <2>3. pc' \in [Procs -> PCs] /\ req' \in [Procs -> Requests]
    BY <1>7, <1>8, <2>1, <2>2
  <2> QED
    BY <1>9, <1>14, <2>1, <2>3 DEF SourceExists, TypeOK
<1>15. ASSUME NEW p \in Procs, AdoptLegacy(p) PROVE TypeOK'
  <2>1. pc' \in [Procs -> PCs] /\ req' \in [Procs -> Requests]
    <3>1. CASE Goto(p, "load")
      BY <1>6, <3>1
    <3>2. CASE Becomes(p, "load", [req[p] EXCEPT !.replaced = TRUE])
      BY <1>7, <1>8, <3>2
    <3>3. ASSUME NEW i \in Ids, Becomes(p, "recheck", [req[p] EXCEPT !.id = i])
          PROVE  pc' \in [Procs -> PCs] /\ req' \in [Procs -> Requests]
      <4>1. [req[p] EXCEPT !.id = i] \in Requests
        BY <1>1
      <4> QED
        BY <1>7, <3>3, <4>1
    <3>4. CASE Errs(p)
      BY <1>4, <1>5, <3>4
    <3> HIDE DEF Goto, Becomes
    <3> QED
      BY <1>15, <3>1, <3>2, <3>3, <3>4 DEF AdoptLegacy, IdsOf
  <2>2. /\ disturbed' \subseteq Procs /\ broken' \subseteq Ids
        /\ faults' \in 0..MaxFaults /\ crashes' \in 0..MaxCrashes
    BY <1>2, <1>3, <1>15 DEF AdoptLegacy
  <2> QED
    BY <1>15, <2>1, <2>2 DEF AdoptLegacy, TypeOK
<1>16. ASSUME NEW p \in Procs, Recheck(p) PROVE TypeOK'
  <2>1. PICK yes \in BOOLEAN : Exists(p, yes) /\ Becomes(p, "load", [req[p] EXCEPT !.replaced = yes])
    BY <1>16 DEF Recheck
  <2>3. pc' \in [Procs -> PCs] /\ req' \in [Procs -> Requests]
    BY <1>7, <1>8, <2>1
  <2> QED
    BY <1>9, <1>16, <2>1, <2>3 DEF Recheck, TypeOK
<1>17. ASSUME NEW p \in Procs, Load(p) PROVE TypeOK'
  <2>1. world[req[p].id.url] \in Texts
    BY <1>17, TextFacts DEF Load, Coherent, Working
  <2>2. [req[p] EXCEPT !.doc = world[req[p].id.url]] \in Requests
    <3>1. \A r \in Requests, doc \in Texts : [r EXCEPT !.doc = doc] \in Requests
      OBVIOUS
    <3>2. req[p] \in Requests
      BY <1>1
    <3> HIDE DEF Requests
    <3> QED
      BY <2>1, <3>1, <3>2
  <2>3. (IF req[p].replaced THEN "delDense" ELSE "dedup") \in PCs
    OBVIOUS
  <2>4. pc' \in [Procs -> PCs] /\ req' \in [Procs -> Requests]
    BY <1>7, <1>17, <2>2, <2>3 DEF Load
  <2> QED
    BY <1>2, <1>17, <2>4 DEF Load, TypeOK
<1>18. ASSUME NEW p \in Procs, DeleteDense(p) \/ DeleteLexical(p) PROVE TypeOK'
  <2>0. <<>> \in Seq(Texts)
    OBVIOUS
  <2>1. dense' \in [Ids -> Seq(Texts)] /\ lexical' \in [Ids -> Texts \cup {0}]
    <3> HIDE DEF Goto, Requests
    <3>1. CASE DeleteDense(p)
      <4>1. dense' = dense \/ \E x \in Seq(Texts) : dense' = [dense EXCEPT ![req[p].id] = x]
        BY <2>0, <3>1, Zenon DEF DeleteDense
      <4>2. dense' \in [Ids -> Seq(Texts)]
        BY <1>1, <4>1
      <4> QED
        BY <1>1, <3>1, <4>2 DEF DeleteDense
    <3>2. CASE DeleteLexical(p)
      <4>1. lexical' = lexical \/ lexical' = [lexical EXCEPT ![req[p].id] = 0]
        BY <3>2, Zenon DEF DeleteLexical
      <4>2. lexical' \in [Ids -> Texts \cup {0}]
        BY <1>1, <4>1
      <4> QED
        BY <1>1, <3>2, <4>2 DEF DeleteLexical
    <3> QED
      BY <1>18, <3>1, <3>2
  <2>2. pc' \in [Procs -> PCs] /\ req' \in [Procs -> Requests]
    BY <1>6, <1>18 DEF DeleteDense, DeleteLexical
  <2>3. /\ disturbed' \subseteq Procs /\ broken' \subseteq Ids
        /\ faults' \in 0..MaxFaults /\ crashes' \in 0..MaxCrashes
    BY <1>2, <1>3, <1>18 DEF DeleteDense, DeleteLexical
  <2> QED
    BY <1>18, <2>1, <2>2, <2>3 DEF DeleteDense, DeleteLexical, TypeOK
<1>19. ASSUME NEW p \in Procs, DeleteReset(p) PROVE TypeOK'
  <2>1. (IF req[p].kind = "delete" THEN "unlink" ELSE "dedup") \in PCs
    OBVIOUS
  <2>2. pc' \in [Procs -> PCs] /\ req' \in [Procs -> Requests]
    BY <1>6, <1>19, <2>1 DEF DeleteReset
  <2> QED
    BY <1>2, <1>19, <2>2 DEF DeleteReset, TypeOK
<1>20. ASSUME NEW p \in Procs, Unlink(p) PROVE TypeOK'
  <2>1. pc' \in [Procs -> PCs] /\ req' \in [Procs -> Requests]
    BY <1>6, <1>20 DEF Unlink
  <2>2. members' \subseteq Ids
    BY <1>20 DEF Unlink, TypeOK
  <2> QED
    BY <1>2, <1>3, <1>20, <2>1, <2>2 DEF Unlink, TypeOK
<1>21. ASSUME NEW p \in Procs, Untitle(p) PROVE TypeOK'
  <2>1. pc' \in [Procs -> PCs] /\ req' \in [Procs -> Requests]
    BY <1>4, <1>5, <1>21 DEF Untitle
  <2>2. titles' \subseteq Ids
    BY <1>21 DEF Untitle, TypeOK
  <2> QED
    BY <1>3, <1>21, <2>1, <2>2 DEF Untitle, TypeOK
<1>22. ASSUME NEW p \in Procs, Dedup(p) PROVE TypeOK'
  <2>1. req[p].doc \in Texts
    BY <1>22 DEF Dedup, Coherent
  <2>2. seen' \subseteq Ids \X Texts
    BY <1>1, <1>22, <2>1 DEF Dedup, Fingerprint, TypeOK
  <2>3. pc' \in [Procs -> PCs] /\ req' \in [Procs -> Requests]
    BY <1>6, <1>22 DEF Dedup
  <2> QED
    BY <1>2, <1>22, <2>2, <2>3 DEF Dedup, TypeOK
<1>23. ASSUME NEW p \in Procs, Embed(p) PROVE TypeOK'
  <2>1. pc' \in [Procs -> PCs] /\ req' \in [Procs -> Requests]
    BY <1>6, <1>23 DEF Embed
  <2> QED
    BY <1>2, <1>23, <2>1 DEF Embed, TypeOK
<1>24. ASSUME NEW p \in Procs, DedupSkips(p) \/ LoadFails(p) \/ EmbedFails(p) PROVE TypeOK'
  <2>1. pc' \in [Procs -> PCs] /\ req' \in [Procs -> Requests]
    BY <1>4, <1>5, <1>24 DEF DedupSkips, LoadFails, EmbedFails
  <2>2. seen' \subseteq Ids \X Texts
    BY <1>24 DEF DedupSkips, LoadFails, EmbedFails, TypeOK
  <2>3. /\ disturbed' \subseteq Procs /\ broken' \subseteq Ids
        /\ faults' \in 0..MaxFaults /\ crashes' \in 0..MaxCrashes
    BY <1>3, <1>24 DEF DedupSkips, LoadFails, EmbedFails
  <2> QED
    BY <1>24, <2>1, <2>2, <2>3 DEF DedupSkips, LoadFails, EmbedFails, TypeOK
<1>25. ASSUME NEW p \in Procs, pc[p] = "addDense", Appended(p) \/ UNCHANGED dense
       PROVE  dense' \in [Ids -> Seq(Texts)]
  <2>1. req[p].doc \in Texts
    BY <1>25 DEF Coherent
  <2>2. \A i \in Ids : Append(dense[i], req[p].doc) \in Seq(Texts)
    BY <1>1, <2>1
  <2>3. CASE Appended(p)
    <3>1. dense' = [dense EXCEPT ![req[p].id] = Append(dense[req[p].id], req[p].doc)]
      BY <2>3 DEF Appended
    <3> QED
      BY <1>1, <2>2, <3>1
  <2>4. CASE UNCHANGED dense
    BY <1>1, <2>4
  <2> QED
    BY <1>25, <2>3, <2>4
<1>26. ASSUME NEW p \in Procs, AddDense(p) PROVE TypeOK'
  <2>1. pc' \in [Procs -> PCs] /\ req' \in [Procs -> Requests]
    BY <1>6, <1>26 DEF AddDense
  <2> QED
    BY <1>2, <1>25, <1>26, <2>1 DEF AddDense, TypeOK
<1>27. ASSUME NEW p \in Procs, AddDenseFails(p) PROVE TypeOK'
  <2>1. pc' \in [Procs -> PCs] /\ req' \in [Procs -> Requests]
    BY <1>4, <1>5, <1>27 DEF AddDenseFails
  <2> QED
    BY <1>3, <1>25, <1>27, <2>1 DEF AddDenseFails, TypeOK
<1>28. ASSUME NEW p \in Procs, AddLexical(p) PROVE TypeOK'
  <2>1. pc' \in [Procs -> PCs] /\ req' \in [Procs -> Requests]
    BY <1>4, <1>5, <1>28 DEF AddLexical
  <2>2. lexical' \in [Ids -> Texts \cup {0}]
    BY <1>1, <1>28 DEF AddLexical
  <2>3. /\ disturbed' \subseteq Procs /\ broken' \subseteq Ids
        /\ faults' \in 0..MaxFaults /\ crashes' \in 0..MaxCrashes
    BY <1>3, <1>28 DEF AddLexical
  <2> QED
    BY <1>28, <2>1, <2>2, <2>3 DEF AddLexical, TypeOK
<1>29. ASSUME NEW p \in Procs, AddLexicalFails(p) PROVE TypeOK'
  <2>1. pc' \in [Procs -> PCs] /\ req' \in [Procs -> Requests]
    BY <1>4, <1>5, <1>29 DEF AddLexicalFails
  <2> QED
    BY <1>3, <1>29, <2>1 DEF AddLexicalFails, TypeOK
<1>30. CASE Publish
  <2>0. PICK u \in DOMAIN world \ Files : \E v \in Versions[u] : world' = [world EXCEPT ![u] = v]
    BY <1>30 DEF Publish
  <2>1. PICK v \in Versions[u] : world' = [world EXCEPT ![u] = v]
    BY <2>0
  <2>2. u \in Urls /\ v \in Texts
    BY <2>1, TextFacts DEF Texts
  <2>3. DOMAIN world' = DOMAIN world /\ world' \in ContentsOf(DOMAIN world)
    BY <2>1, <2>2 DEF TypeOK, ContentsOf
  <2> QED
    BY <1>30, <2>3 DEF Publish, TypeOK
<1>31. CASE Crash
  <2>1. pc' \in [Procs -> PCs] /\ req' \in [Procs -> Requests]
    BY <1>31, NobodyIsRequest DEF Crash
  <2>2. broken' \subseteq Ids /\ crashes' \in 0..MaxCrashes
    BY <1>1, <1>31, BoundsAssumption DEF Crash, TypeOK
  <2> QED
    BY <1>31, <2>1, <2>2 DEF Crash, TypeOK
<1>32. CASE UNCHANGED vars
  BY <1>32 DEF vars, TypeOK
<1> QED
  BY <1>11, <1>12, <1>13, <1>14, <1>15, <1>16, <1>17, <1>18, <1>19, <1>20, <1>21, <1>22, <1>23,
     <1>24, <1>26, <1>27, <1>28, <1>29, <1>30, <1>31, <1>32 DEF Next, Step, Fails

-----------------------------------------------------------------------------
(* Every step keeps the coherence of program points and requests.          *)
LEMMA CoherentStep == TypeOK /\ Coherent /\ [Next]_vars => Coherent'
<1> SUFFICES ASSUME TypeOK, Coherent, [Next]_vars PROVE Coherent'
  OBVIOUS
<1> USE DEF Requests, Working
<1>1. /\ pc \in [Procs -> PCs] /\ req \in [Procs -> Requests]
      /\ \A p \in Procs : req[p].id \in Ids /\ req[p].doc \in Texts \cup {0}
  BY DEF TypeOK
\* A request that changes must be coherent, the others are.
<1> DEFINE Fine(l, r, w) ==
      /\ l # "idle" => r.kind \in {"ingest", "delete"} /\ r.id.url \in DOMAIN w
      /\ l \in {"exists", "legacy", "recheck", "load", "dedup", "embed", "addDense",
                "addLexical"} => r.kind = "ingest"
      /\ l \in {"unlink", "untitle"} => r.kind = "delete"
      /\ l \in {"exists", "legacy"} => r.id = Derived(r.id.url)
      /\ l = "legacy" => r.id.url \notin Files /\ ~r.replaced
      /\ r.kind = "ingest" /\ l \notin {"idle", "exists", "legacy", "recheck", "load"}
           => r.doc \in Texts
<1>2. Coherent <=> \A p \in Procs : Fine(pc[p], req[p], world)
  BY Zenon DEF Coherent
<1>3. Coherent' <=> \A p \in Procs : Fine(pc'[p], req'[p], world')
  BY Zenon DEF Coherent
<1>4. ASSUME NEW p \in Procs, NEW l, NEW r, Becomes(p, l, r), world' = world, Fine(l, r, world)
      PROVE  Coherent'
  <2> HIDE DEF Fine
  <2> QED
    BY <1>1, <1>2, <1>3, <1>4 DEF Becomes
<1>5. ASSUME NEW p \in Procs, NEW l, Goto(p, l), world' = world, Fine(l, req[p], world)
      PROVE  Coherent'
  <2> HIDE DEF Fine
  <2> QED
    BY <1>1, <1>2, <1>3, <1>5 DEF Goto
<1>6. ASSUME NEW p \in Procs, Ends(p) \/ Repairs(p) \/ Breaks(p) \/ Errs(p), world' = world
      PROVE  Coherent'
  <2>1. Becomes(p, "idle", Nobody)
    BY <1>6, Zenon DEF Ends, Repairs, Breaks, Errs, Leaves
  <2>2. Fine("idle", Nobody, world)
    BY NobodyIsRequest
  <2> QED
    BY <1>4, <1>6, <2>1, <2>2
<1>7. ASSUME NEW p \in Procs, CallIngest(p) PROVE Coherent'
  <2>1. PICK u \in DOMAIN world :
          Called(p, [kind |-> "ingest", id |-> Derived(u), replaced |-> FALSE, doc |-> 0], "exists")
    BY <1>7 DEF CallIngest
  <2>2. Fine("exists", [kind |-> "ingest", id |-> Derived(u), replaced |-> FALSE, doc |-> 0], world)
    BY IdFacts
  <2> QED
    BY <1>4, <2>1, <2>2 DEF Called
<1>8. ASSUME NEW p \in Procs, CallDelete(p) PROVE Coherent'
  <2>1. PICK i \in {j \in Ids : j.url \in DOMAIN world} :
          Called(p, [kind |-> "delete", id |-> i, replaced |-> FALSE, doc |-> 0], "delDense")
    BY <1>8 DEF CallDelete
  <2>2. Fine("delDense", [kind |-> "delete", id |-> i, replaced |-> FALSE, doc |-> 0], world)
    OBVIOUS
  <2> QED
    BY <1>4, <2>1, <2>2 DEF Called
<1>9. ASSUME NEW p \in Procs, SourceExists(p) PROVE Coherent'
  <2>1. PICK yes \in BOOLEAN :
          Becomes(p, IF yes \/ req[p].id.url \in Files THEN "load" ELSE "legacy",
                     [req[p] EXCEPT !.replaced = yes])
    BY <1>9 DEF SourceExists
  <2>2. pc[p] = "exists" /\ world' = world
    BY <1>9 DEF SourceExists
  <2>3. Fine(IF yes \/ req[p].id.url \in Files THEN "load" ELSE "legacy",
             [req[p] EXCEPT !.replaced = yes], world)
    BY <1>1, <1>2, <2>2
  <2> QED
    BY <1>4, <2>1, <2>2, <2>3
<1>10. ASSUME NEW p \in Procs, AdoptLegacy(p) PROVE Coherent'
  <2>1. pc[p] = "legacy" /\ world' = world
    BY <1>10 DEF AdoptLegacy
  <2>2. Fine("load", req[p], world) /\ Fine("load", [req[p] EXCEPT !.replaced = TRUE], world)
    BY <1>1, <1>2, <2>1
  <2>3. \A i \in IdsOf(req[p].id.url) : Fine("recheck", [req[p] EXCEPT !.id = i], world)
    BY <1>1, <1>2, <2>1 DEF IdsOf
  <2>4. \/ Goto(p, "load") \/ Becomes(p, "load", [req[p] EXCEPT !.replaced = TRUE])
        \/ \E i \in IdsOf(req[p].id.url) : Becomes(p, "recheck", [req[p] EXCEPT !.id = i])
        \/ Errs(p)
    BY <1>10, Zenon DEF AdoptLegacy
  <2> HIDE DEF Fine
  <2> QED
    BY <1>4, <1>5, <1>6, <2>1, <2>2, <2>3, <2>4
<1>11. ASSUME NEW p \in Procs, Recheck(p) PROVE Coherent'
  <2>1. PICK yes \in BOOLEAN : Becomes(p, "load", [req[p] EXCEPT !.replaced = yes])
    BY <1>11 DEF Recheck
  <2>2. pc[p] = "recheck" /\ world' = world
    BY <1>11 DEF Recheck
  <2>3. Fine("load", [req[p] EXCEPT !.replaced = yes], world)
    BY <1>1, <1>2, <2>2
  <2> QED
    BY <1>4, <2>1, <2>2, <2>3
<1>12. ASSUME NEW p \in Procs, Load(p) PROVE Coherent'
  <2>1. /\ pc[p] = "load" /\ world' = world
        /\ Becomes(p, IF req[p].replaced THEN "delDense" ELSE "dedup",
                   [req[p] EXCEPT !.doc = world[req[p].id.url]])
    BY <1>12 DEF Load
  <2>2. world[req[p].id.url] \in Texts
    BY <2>1, TextFacts DEF Coherent
  <2>3. Fine(IF req[p].replaced THEN "delDense" ELSE "dedup",
             [req[p] EXCEPT !.doc = world[req[p].id.url]], world)
    BY <1>1, <1>2, <2>1, <2>2
  <2> QED
    BY <1>4, <2>1, <2>3
<1>13. ASSUME NEW p \in Procs,
              LoadFails(p) \/ EmbedFails(p) \/ AddDenseFails(p) \/ AddLexicalFails(p)
              \/ DedupSkips(p) \/ AddLexical(p) \/ Untitle(p)
       PROVE  Coherent'
  <2>1. Ends(p) \/ Repairs(p) \/ Breaks(p)
    BY <1>13, Zenon
       DEF LoadFails, EmbedFails, AddDenseFails, AddLexicalFails, DedupSkips, AddLexical, Untitle
  <2>2. world' = world
    BY <1>13
       DEF LoadFails, EmbedFails, AddDenseFails, AddLexicalFails, DedupSkips, AddLexical, Untitle
  <2> QED
    BY <1>6, <2>1, <2>2
<1>14. ASSUME NEW p \in Procs,
              DeleteDense(p) \/ DeleteLexical(p) \/ DeleteReset(p) \/ Unlink(p) \/ Dedup(p)
              \/ Embed(p) \/ AddDense(p)
       PROVE  Coherent'
  <2>1. world' = world
    BY <1>14 DEF DeleteDense, DeleteLexical, DeleteReset, Unlink, Dedup, Embed, AddDense
  <2>2. \/ pc[p] = "delDense" /\ Goto(p, "delLexical")
        \/ pc[p] = "delLexical" /\ Goto(p, "delReset")
        \/ pc[p] = "delReset" /\ Goto(p, IF req[p].kind = "delete" THEN "unlink" ELSE "dedup")
        \/ pc[p] = "unlink" /\ Goto(p, "untitle")
        \/ pc[p] = "dedup" /\ Goto(p, "embed")
        \/ pc[p] = "embed" /\ Goto(p, "addDense")
        \/ pc[p] = "addDense" /\ Goto(p, "addLexical")
    BY <1>14 DEF DeleteDense, DeleteLexical, DeleteReset, Unlink, Dedup, Embed, AddDense
  <2>3. PICK l : Goto(p, l) /\ Fine(l, req[p], world)
    BY <1>1, <1>2, <2>2
  <2> QED
    BY <1>5, <2>1, <2>3
<1>15. CASE Publish
  <2>1. DOMAIN world' = DOMAIN world /\ pc' = pc /\ req' = req
    BY <1>15 DEF Publish
  <2>2. \A p \in Procs : Fine(pc[p], req[p], world')
    BY <1>2, <2>1
  <2> QED
    BY <1>3, <2>1, <2>2
<1>16. CASE \E i \in Ids : Name(i)
  BY <1>16 DEF Name, Coherent
<1>17. CASE Crash
  BY <1>17, NobodyIsRequest DEF Crash, Coherent
<1>18. CASE UNCHANGED vars
  BY <1>18 DEF vars, Coherent
<1> QED
  BY <1>7, <1>8, <1>9, <1>10, <1>11, <1>12, <1>13, <1>14, <1>15, <1>16, <1>17, <1>18
     DEF Next, Step, Fails

-----------------------------------------------------------------------------
(* What a step of request p leaves alone: the others and their URLs, and   *)
(* what was broken when p was disturbed.                                   *)
Own(p) ==
  /\ \A q \in Procs \ {p} : /\ pc'[q] = pc[q] /\ req'[q] = req[q]
                            /\ q \in disturbed' <=> q \in disturbed
  /\ Working(p)' => /\ req'[p].id.url = req[p].id.url
                    /\ p \in disturbed => p \in disturbed'
  /\ \A j \in Ids \ {req[p].id} : /\ dense'[j] = dense[j] /\ lexical'[j] = lexical[j]
                                  /\ j \in broken' <=> j \in broken
  /\ p \in disturbed /\ req[p].id \in broken => req[p].id \in broken'
  /\ members' \subseteq members

(* How a request goes on, and how it ends, in these terms.                 *)
LEMMA OwnGoesOn ==
  ASSUME NEW p \in Procs, NEW l, NEW r, TypeOK, Becomes(p, l, r), r.id.url = req[p].id.url,
         Smooth \/ Fault(p),
         \A j \in Ids \ {req[p].id} : dense'[j] = dense[j] /\ lexical'[j] = lexical[j],
         members' \subseteq members
  PROVE  Own(p)
  BY DEF TypeOK, Becomes, Smooth, Fault, Own, bounds

LEMMA OwnEnds ==
  ASSUME NEW p \in Procs, TypeOK,
         Ends(p) \/ Repairs(p) \/ Breaks(p) \/ (Errs(p) /\ UNCHANGED broken),
         \A j \in Ids \ {req[p].id} : dense'[j] = dense[j] /\ lexical'[j] = lexical[j],
         members' \subseteq members
  PROVE  Own(p) /\ pc'[p] = "idle"
<1>1. Leaves(p)
  BY Zenon DEF Ends, Repairs, Breaks, Errs
<1>2. /\ pc'[p] = "idle" /\ \A q \in Procs \ {p} : pc'[q] = pc[q] /\ req'[q] = req[q]
      /\ \A q \in Procs \ {p} : q \in disturbed' <=> q \in disturbed
  BY <1>1 DEF Leaves, Becomes, TypeOK
<1>3. /\ \A j \in Ids \ {req[p].id} : j \in broken' <=> j \in broken
      /\ p \in disturbed /\ req[p].id \in broken => req[p].id \in broken'
  BY DEF Ends, Repairs, Breaks
<1> QED
  BY <1>2, <1>3 DEF Own, Working

(* The two ids of a URL, and a request's own.                              *)
LEMMA UrlFacts ==
  TypeOK => \A p \in Procs : /\ req[p].id \in Ids /\ req[p].id.url \in Urls
                             /\ req[p].id \in IdsOf(req[p].id.url)
                             /\ \/ req[p].id = Derived(req[p].id.url)
                                \/ /\ req[p].id = Random(req[p].id.url)
                                   /\ req[p].id.url \in OldUrls
<1> SUFFICES ASSUME TypeOK, NEW p \in Procs
             PROVE  /\ req[p].id \in Ids /\ req[p].id.url \in Urls
                    /\ req[p].id \in IdsOf(req[p].id.url)
                    /\ \/ req[p].id = Derived(req[p].id.url)
                       \/ req[p].id = Random(req[p].id.url) /\ req[p].id.url \in OldUrls
  OBVIOUS
<1>1. req[p].id \in Ids
  BY DEF TypeOK
<1> QED
  BY <1>1, IdFacts DEF IdsOf

(* A step of one request keeps what the others rely on: those of another   *)
(* URL see nothing of it, those of its URL rely on nothing.                *)
LEMMA OthersKeep ==
  ASSUME NEW p \in Procs, TypeOK, Coherent, Overlap, Shapes, Working(p), Own(p)
  PROVE  Overlap' /\ \A q \in Procs \ {p} : ShapeStores(q)' /\ ShapeOther(q)'
<1> DEFINE u == req[p].id.url
<1>1. req[p].id \in Ids /\ u \in Urls /\ req[p].id \in IdsOf(u)
  BY UrlFacts
<1>2. ASSUME NEW q \in Procs \ {p}, Working(q), req[q].id.url = u
      PROVE  /\ p \in disturbed /\ q \in disturbed /\ q \in disturbed'
             /\ IdsOf(u) \subseteq broken /\ IdsOf(u) \subseteq broken'
  <2>1. p \in disturbed /\ q \in disturbed /\ IdsOf(u) \subseteq broken
    BY <1>2 DEF Overlap
  <2>2. \A j \in IdsOf(u) : j \in broken'
    BY <1>1, <2>1 DEF Own, IdsOf
  <2> QED
    BY <1>2, <2>1, <2>2 DEF Own
<1>3. Overlap'
  <2> SUFFICES ASSUME NEW q \in Procs, NEW r \in Procs, q # r, Working(q)', Working(r)',
                      req'[q].id.url = req'[r].id.url
               PROVE  q \in disturbed' /\ IdsOf(req'[q].id.url) \subseteq broken'
    BY DEF Overlap, IdsOf
  <2>1. \A s \in Procs : Working(s)' => Working(s) /\ req'[s].id.url = req[s].id.url
    BY DEF Own, Working
  <2>2. q \in disturbed /\ IdsOf(req[q].id.url) \subseteq broken /\ req[q].id.url = req[r].id.url
    BY <2>1 DEF Overlap
  <2>3. q \in disturbed'
    BY <2>2 DEF Own
  <2>4. CASE req[q].id.url = u
    <3>1. q # p \/ r # p
      OBVIOUS
    <3>2. PICK s \in Procs \ {p} : Working(s) /\ req[s].id.url = u
      BY <2>1, <2>2, <2>4, <3>1
    <3> QED
      BY <1>2, <2>1, <2>3, <2>4, <3>2
  <2>5. CASE req[q].id.url # u
    <3>1. \A j \in IdsOf(req[q].id.url) : j \in broken'
      BY <1>1, <2>2, <2>5 DEF Own, IdsOf
    <3> QED
      BY <2>1, <2>3, <3>1
  <2> QED
    BY <2>4, <2>5
<1>4. ASSUME NEW q \in Procs \ {p} PROVE ShapeStores(q)' /\ ShapeOther(q)'
  <2>1. pc'[q] = pc[q] /\ req'[q] = req[q] /\ (q \in disturbed' <=> q \in disturbed)
    BY DEF Own
  <2>2. ShapeStores(q) /\ ShapeOther(q) /\ req[q].id \in Ids /\ req[q].id \in IdsOf(req[q].id.url)
    BY UrlFacts DEF Shapes
  <2>3. CASE ~Working(q)
    BY <2>1, <2>3 DEF ShapeStores, ShapeOther, Working, Marking
  <2>4. CASE Working(q) /\ req[q].id.url = u
    <3>1. ~Calm(q)' /\ ~Whole(q)'
      BY <1>2, <2>1, <2>2, <2>4 DEF Calm, Whole
    <3>2. u \in OldUrls => Random(u) \in broken'
      BY <1>2, <2>4, IdFacts DEF IdsOf
    <3> QED
      BY <2>1, <2>4, <3>1, <3>2 DEF ShapeStores, ShapeOther, Working
  <2>5. CASE Working(q) /\ req[q].id.url # u
    <3> DEFINE v == req[q].id.url
    <3>1. \A j \in IdsOf(v) : /\ dense'[j] = dense[j] /\ lexical'[j] = lexical[j]
                              /\ j \in broken' <=> j \in broken
      BY <1>1, <2>5 DEF Own, IdsOf
    <3>2. Derived(v) \in IdsOf(v) /\ (v \in OldUrls => Random(v) \in IdsOf(v))
      BY <2>2, IdFacts DEF IdsOf
    <3>3. (Calm(q)' <=> Calm(q)) /\ (Whole(q)' <=> Whole(q)) /\ (Working(q)' <=> Working(q))
      BY <2>1, <2>2, <3>1 DEF Calm, Whole, Working
    <3>4. /\ Emptied(req[q].id)' <=> Emptied(req[q].id)
          /\ Agree(req[q].id)' <=> Agree(req[q].id)
          /\ Stored(req[q].id)' <=> Stored(req[q].id)
      BY <2>1, <2>2, <3>1 DEF Emptied, Agree, Stored
    <3>5. /\ Stored(Derived(v))' <=> Stored(Derived(v))
          /\ v \in OldUrls => /\ Stored(Random(v))' <=> Stored(Random(v))
                              /\ Random(v) \in broken' <=> Random(v) \in broken
      BY <2>1, <3>1, <3>2 DEF Stored, Derived, Random
    <3>6. members' \subseteq members
      BY DEF Own
    <3>7. ShapeStores(q)'
      BY <2>1, <2>2, <3>1, <3>3, <3>4 DEF ShapeStores
    <3>8. ShapeOther(q)'
      BY <2>1, <2>2, <3>3, <3>5, <3>6 DEF ShapeOther
    <3> QED
      BY <3>7, <3>8
  <2> QED
    BY <2>3, <2>4, <2>5
<1> QED
  BY <1>3, <1>4

(* So a step of p, on the source i, keeps the invariant if p is in its     *)
(* shape again, i is as it should be when p no longer works on it, the two *)
(* ids of its URL are in order, and the deduplicator knows i for a reason. *)
LEMMA Framed ==
  ASSUME NEW p \in Procs, NEW i \in Ids, req[p].id = i, IInv, Working(p), Own(p),
         ShapeStores(p)', ShapeOther(p)',
         (Working(p)' /\ req'[p].id = i) \/ i \in broken' \/ Agree(i)',
         i.url \in OldUrls /\ Stored(Derived(i.url))' /\ Stored(Random(i.url))'
           => Random(i.url) \in broken',
         \/ seen' = {}
         \/ seen' \subseteq seen \cup {<<i, req[p].doc>>} /\ pc'[p] \in Marking /\ req'[p].id = i
         \/ seen' = seen /\ Stored(i)'
         \/ seen' = seen /\ pc[p] \notin Marking /\ dense' = dense
  PROVE  Data'
<1> USE DEF IInv, Data
<1>1. Overlap' /\ \A q \in Procs \ {p} : ShapeStores(q)' /\ ShapeOther(q)'
  BY OthersKeep
<1>2. \A j \in Ids \ {i} : /\ dense'[j] = dense[j] /\ lexical'[j] = lexical[j]
                           /\ j \in broken' <=> j \in broken
  BY DEF Own
<1>3. \A q \in Procs \ {p} : pc'[q] = pc[q] /\ req'[q] = req[q]
  BY DEF Own
<1>4. Rest'
  <2> SUFFICES ASSUME NEW j \in Ids, j \notin broken', \A q \in Procs : Working(q)' => req'[q].id # j
               PROVE  Agree(j)'
    BY DEF Rest
  <2>1. CASE j = i
    BY <2>1
  <2>2. CASE j # i
    <3>1. j \notin broken /\ \A q \in Procs : Working(q) => req[q].id # j
      BY <1>2, <1>3, <2>2 DEF Working
    <3>2. Agree(j)
      BY <3>1 DEF Rest
    <3> QED
      BY <1>2, <2>2, <3>2 DEF Agree, Emptied
  <2> QED
    BY <2>1, <2>2
<1>5. OneStored'
  <2> SUFFICES ASSUME NEW u \in OldUrls, Stored(Derived(u))', Stored(Random(u))'
               PROVE  Random(u) \in broken'
    BY DEF OneStored
  <2>1. CASE u = i.url
    BY <2>1
  <2>2. CASE u # i.url
    <3>1. Derived(u) \in Ids \ {i} /\ Random(u) \in Ids \ {i}
      BY <2>2, IdFacts, UrlsAssumption
    <3>2. Stored(Derived(u)) /\ Stored(Random(u))
      BY <1>2, <3>1 DEF Stored
    <3> QED
      BY <1>2, <3>1, <3>2 DEF OneStored
  <2> QED
    BY <2>1, <2>2
<1>6. SeenIsStored'
  <2>1. ASSUME NEW mark \in seen'
        PROVE  Stored(mark[1])' \/ \E q \in Procs : pc'[q] \in Marking /\ req'[q].id = mark[1]
    <3>1. mark \in seen \/ (mark[1] = i /\ pc'[p] \in Marking /\ req'[p].id = i)
      BY <2>1
    <3>2. CASE mark \notin seen
      BY <3>1, <3>2
    <3>3. CASE mark \in seen
      <4>1. mark[1] \in Ids
        BY <3>3 DEF TypeOK
      <4>2. Stored(mark[1]) \/ \E q \in Procs : pc[q] \in Marking /\ req[q].id = mark[1]
        BY <3>3 DEF SeenIsStored
      <4>3. CASE mark[1] # i
        <5>1. Stored(mark[1])' <=> Stored(mark[1])
          BY <1>2, <4>1, <4>3 DEF Stored
        <5>2. \A q \in Procs : pc[q] \in Marking /\ req[q].id = mark[1] => q # p
          BY <4>3
        <5> QED
          BY <1>3, <4>2, <5>1, <5>2
      <4>4. CASE mark[1] = i
        <5>1. CASE pc'[p] \in Marking /\ req'[p].id = i
          BY <4>4, <5>1
        <5>2. CASE Stored(i)'
          BY <4>4, <5>2
        <5>3. CASE pc[p] \notin Marking /\ dense' = dense
          <6>1. Stored(mark[1])' <=> Stored(mark[1])
            BY <5>3 DEF Stored
          <6>2. \A q \in Procs : pc[q] \in Marking => q # p
            BY <5>3
          <6> QED
            BY <1>3, <4>2, <6>1, <6>2
        <5> QED
          BY <2>1, <5>1, <5>2, <5>3
      <4> QED
        BY <4>3, <4>4
    <3> QED
      BY <3>2, <3>3
  <2> QED
    BY <2>1 DEF SeenIsStored
<1>7. Shapes'
  BY <1>1 DEF Shapes
<1> QED
  BY <1>1, <1>4, <1>5, <1>6, <1>7

(* A request goes on with the same source;                                 *)
LEMMA GoesOn ==
  ASSUME NEW p \in Procs, NEW i \in Ids, req[p].id = i, IInv, Working(p),
         pc[p] \notin {"exists", "legacy"},
         NEW l \in PCs \ {"idle", "exists", "legacy", "untitle"}, NEW r, Becomes(p, l, r),
         r.id = i, r.kind = req[p].kind, Smooth \/ Fault(p),
         \A j \in Ids \ {i} : dense'[j] = dense[j] /\ lexical'[j] = lexical[j],
         members' = members,
         ShapeStores(p)',
         \/ dense'[i] \in {dense[i], <<>>}
         \/ i.url \in OldUrls /\ Stored(Derived(i.url))' /\ Stored(Random(i.url))'
              => Random(i.url) \in broken',
         \/ seen' = {}
         \/ seen' \subseteq seen \cup {<<i, req[p].doc>>} /\ l \in Marking
         \/ seen' = seen /\ Stored(i)'
         \/ seen' = seen /\ pc[p] \notin Marking /\ dense' = dense
  PROVE  Data'
<1> USE DEF IInv, Data
<1>1. pc'[p] = l /\ req'[p] = r /\ Working(p)'
  BY DEF Becomes, TypeOK, Working
<1>2. Own(p)
  BY OwnGoesOn
<1>3. broken \subseteq broken' /\ disturbed \subseteq disturbed'
  BY DEF Smooth, Fault
<1>4. i.url \in OldUrls => Derived(i.url) \in Ids /\ Random(i.url) \in Ids
  BY IdFacts, UrlsAssumption
<1>5. ShapeOther(p)
  BY DEF Shapes
<1>6. ShapeOther(p)'
  <2>1. ASSUME req[p].kind = "ingest", i = Derived(i.url), i.url \in OldUrls, Stored(Random(i.url))'
        PROVE  Random(i.url) \in broken'
    <3>1. Random(i.url) # i
      BY <2>1, IdFacts
    <3>2. Stored(Random(i.url))
      BY <1>4, <2>1, <3>1 DEF Stored
    <3> QED
      BY <1>3, <1>5, <2>1, <3>2 DEF ShapeOther, Working
  <2>2. ASSUME req[p].kind = "ingest", i # Derived(i.url), Whole(p)' \/ Calm(p)'
        PROVE  ~Stored(Derived(i.url))'
    <3>1. Whole(p) \/ Calm(p)
      BY <1>1, <1>3, <2>2 DEF Whole, Calm
    <3>2. ~Stored(Derived(i.url)) /\ Derived(i.url) \in Ids
      BY <1>5, <2>2, <3>1, IdFacts DEF ShapeOther
    <3> QED
      BY <2>2, <3>2 DEF Stored
  <2> QED
    BY <1>1, <2>1, <2>2 DEF ShapeOther
<1>7. ASSUME i.url \in OldUrls, Stored(Derived(i.url))', Stored(Random(i.url))'
      PROVE  Random(i.url) \in broken'
  <2>1. i = Derived(i.url) \/ i = Random(i.url)
    BY IdFacts
  <2>2. CASE dense'[i] = <<>>
    BY <1>7, <2>1, <2>2 DEF Stored
  <2>3. CASE dense'[i] = dense[i]
    <3>1. Stored(Derived(i.url)) /\ Stored(Random(i.url))
      BY <1>4, <1>7, <2>3 DEF Stored
    <3> QED
      BY <1>3, <1>7, <3>1 DEF OneStored
  <2> QED
    BY <1>7, <2>2, <2>3
<1>8. ShapeStores(p)' /\ (Working(p)' /\ req'[p].id = i)
  BY <1>1
<1>9. \/ seen' = {}
      \/ seen' \subseteq seen \cup {<<i, req[p].doc>>} /\ pc'[p] \in Marking /\ req'[p].id = i
      \/ seen' = seen /\ Stored(i)'
      \/ seen' = seen /\ pc[p] \notin Marking /\ dense' = dense
  BY <1>1
<1> HIDE DEF IInv, Data
<1> QED
  BY <1>2, <1>6, <1>7, <1>8, <1>9, Framed

(* or it ends.                                                             *)
LEMMA GoesOff ==
  ASSUME NEW p \in Procs, NEW i \in Ids, req[p].id = i, IInv, Working(p),
         Ends(p) \/ Repairs(p) \/ Breaks(p) \/ (Errs(p) /\ UNCHANGED broken),
         \A j \in Ids \ {i} : dense'[j] = dense[j] /\ lexical'[j] = lexical[j],
         members' = members,
         i \in broken' \/ Agree(i)',
         \/ dense'[i] = dense[i] /\ (broken \subseteq broken' \/ Random(i.url) # i)
         \/ i.url \in OldUrls /\ Stored(Derived(i.url))' /\ Stored(Random(i.url))'
              => Random(i.url) \in broken',
         \/ seen' = {}
         \/ seen' = seen /\ pc[p] \notin Marking /\ dense' = dense
  PROVE  Data'
<1> USE DEF IInv, Data
<1>1. Own(p) /\ pc'[p] = "idle"
  BY OwnEnds
<1>2. ShapeStores(p)' /\ ShapeOther(p)'
  BY <1>1 DEF ShapeStores, ShapeOther, Working
<1>3. i.url \in OldUrls => Derived(i.url) \in Ids /\ Random(i.url) \in Ids
  BY IdFacts, UrlsAssumption
<1>4. ASSUME i.url \in OldUrls, Stored(Derived(i.url))', Stored(Random(i.url))',
             dense'[i] = dense[i], broken \subseteq broken' \/ Random(i.url) # i
      PROVE  Random(i.url) \in broken'
  <2>1. Stored(Derived(i.url)) /\ Stored(Random(i.url))
    BY <1>3, <1>4 DEF Stored
  <2>2. Random(i.url) \in broken
    BY <1>4, <2>1 DEF OneStored
  <2> QED
    BY <1>1, <1>3, <1>4, <2>2 DEF Own
<1> HIDE DEF IInv, Data
<1> QED
  BY <1>1, <1>2, <1>4, Framed

-----------------------------------------------------------------------------
(* A source on which the stores agree is in both or in neither.            *)
LEMMA AgreeFacts == \A i : /\ Agree(i) /\ ~Stored(i) => Emptied(i)
                           /\ Emptied(i) => Agree(i) /\ ~Stored(i)
<1>1. \A x : <<x>> # <<>>
  OBVIOUS
<1> QED
  BY <1>1 DEF Agree, Emptied, Stored

(* The lookups: an existing id, an old one, and what the URL holds.        *)
LEMMA LookStep ==
  ASSUME NEW p \in Procs, IInv,
         SourceExists(p) \/ AdoptLegacy(p) \/ Recheck(p) \/ Load(p) \/ LoadFails(p)
  PROVE  Data'
<1> USE DEF IInv, Data
<1>0. PICK i \in Ids : i = req[p].id
  BY UrlFacts
<1>1. ShapeStores(p) /\ ShapeOther(p) /\ req[p] \in Requests /\ pc \in [Procs -> PCs]
  BY DEF Shapes, TypeOK, Requests
<1>2. Working(p) /\ members' = members /\ dense' = dense /\ lexical' = lexical /\ seen' = seen
      /\ pc[p] \notin Marking
  BY DEF SourceExists, AdoptLegacy, Recheck, Load, LoadFails, Working, stores, sides, Marking
<1>3. \A r, l : Becomes(p, l, r) => pc'[p] = l /\ req'[p] = r
  BY <1>1 DEF Becomes, TypeOK
<1>4. ASSUME NEW yes, Exists(p, yes)
      PROVE  /\ Smooth \/ Fault(p)
             /\ (Whole(p) /\ i \notin broken') \/ p \notin disturbed' => (yes <=> Stored(i))
             /\ broken \subseteq broken' /\ (yes => Stored(i))
             /\ disturbed \subseteq disturbed'
  BY <1>0, <1>4 DEF Exists, Smooth, Fault
<1>5. CASE SourceExists(p)
  <2>1. PICK yes \in BOOLEAN : /\ Exists(p, yes)
          /\ Becomes(p, IF yes \/ req[p].id.url \in Files THEN "load" ELSE "legacy",
                     [req[p] EXCEPT !.replaced = yes])
    BY <1>5 DEF SourceExists
  <2> DEFINE l == IF yes \/ i.url \in Files THEN "load" ELSE "legacy"
             r == [req[p] EXCEPT !.replaced = yes]
  <2>2. pc[p] = "exists" /\ i = Derived(i.url) /\ pc'[p] = l /\ req'[p] = r
        /\ r.id = i /\ r.kind = req[p].kind /\ r.replaced = yes /\ Becomes(p, l, r)
    BY <1>0, <1>1, <1>3, <1>5, <2>1 DEF SourceExists, Coherent, Requests
  <2>3. Own(p)
    BY <1>0, <1>2, <1>4, <2>1, <2>2, OwnGoesOn
  <2>4. Whole(p)' => Whole(p) /\ i \notin broken'
    BY <1>0, <1>4, <2>1, <2>2 DEF Whole
  <2>5. ShapeStores(p)'
    <3>1. Whole(p)' => Agree(i)
      BY <1>0, <1>1, <2>2, <2>4 DEF ShapeStores
    <3>2. ~yes => (Whole(p)' => Emptied(i)) /\ (Calm(p)' => ~Stored(i))
      BY <1>4, <2>1, <2>4, <3>1, AgreeFacts DEF Calm
    <3>3. /\ Agree(req[p].id)' <=> Agree(i)
          /\ Emptied(req[p].id)' <=> Emptied(i)
          /\ Stored(req[p].id)' <=> Stored(i)
      BY <1>2, <2>2 DEF Agree, Emptied, Stored
    <3> QED
      BY <2>2, <3>1, <3>2, <3>3 DEF ShapeStores
  <2>6. ASSUME i.url \in OldUrls, Stored(Derived(i.url))', Stored(Random(i.url))'
        PROVE  Random(i.url) \in broken'
    BY <1>2, <1>4, <2>1, <2>6 DEF OneStored, Stored
  <2>7. ShapeOther(p)'
    <3>1. ASSUME i.url \in OldUrls, l = "load", Stored(Random(i.url))' PROVE Random(i.url) \in broken'
      <4>1. yes
        BY <3>1, UrlsAssumption
      <4>2. Stored(Derived(i.url))
        BY <1>4, <2>1, <2>2, <4>1
      <4> QED
        BY <1>2, <2>6, <3>1, <4>2 DEF Stored
    <3> QED
      BY <2>2, <3>1 DEF ShapeOther
  <2>8. (Working(p)' /\ req'[p].id = i) /\ pc[p] \notin Marking
    BY <2>2 DEF Working, Marking
  <2> HIDE DEF IInv, Data
  <2> QED
    BY <1>0, <1>2, <2>3, <2>5, <2>6, <2>7, <2>8, Framed
<1>6. CASE AdoptLegacy(p)
  <2>1. pc[p] = "legacy" /\ i = Derived(i.url) /\ req[p].kind = "ingest" /\ ~req[p].replaced
    BY <1>0, <1>6 DEF AdoptLegacy, Coherent
  <2>2. (Whole(p) => Emptied(i)) /\ (Calm(p) => ~Stored(i))
    BY <1>0, <1>1, <2>1 DEF ShapeStores
  <2>3. CASE Errs(p) /\ UNCHANGED broken
    <3>1. i \in broken' \/ Agree(i)'
      BY <1>0, <1>2, <2>2, <2>3 DEF Whole, Agree, Emptied
    <3> HIDE DEF IInv, Data
    <3> QED
      BY <1>0, <1>2, <2>3, <3>1, GoesOff
  <2>4. ASSUME Smooth, NEW l \in {"load", "recheck"}, NEW r, NEW j \in IdsOf(i.url),
               Becomes(p, l, r), r.id = j, r.kind = "ingest", l = "recheck" <=> j # i,
               l = "load" /\ ~r.replaced => \A k \in IdsOf(i.url) : ~Stored(k),
               l = "load" /\ r.replaced => Stored(i),
               l = "recheck" => Stored(j)
        PROVE  Data'
    <3>1. pc'[p] = l /\ req'[p] = r /\ req'[p].id = j /\ j \in Ids /\ j.url = i.url
      BY <1>3, <2>4 DEF IdsOf
    <3>2. Own(p)
      BY <1>0, <1>2, <2>4, <3>1, OwnGoesOn
    <3>3. broken' = broken /\ disturbed' = disturbed
      BY <2>4 DEF Smooth
    <3>4. ASSUME i.url \in OldUrls, Stored(Derived(i.url))', Stored(Random(i.url))'
          PROVE  Random(i.url) \in broken'
      BY <1>2, <3>3, <3>4 DEF OneStored, Stored
    <3>5. CASE l = "load"
      <4>1. j = i
        BY <2>4, <3>5
      <4>2. ShapeStores(p)'
        <5>1. /\ Agree(req[p].id)' <=> Agree(i)
              /\ Emptied(req[p].id)' <=> Emptied(i)
              /\ Stored(req[p].id)' <=> Stored(i)
              /\ Whole(p)' <=> Whole(p)
              /\ Calm(p)' <=> Calm(p)
          BY <1>0, <1>2, <3>1, <3>3, <4>1 DEF Agree, Emptied, Stored, Whole, Calm
        <5>2. pc'[p] = "load"
          BY <3>1, <3>5
        <5> QED
          BY <2>2, <5>1, <5>2 DEF ShapeStores, Agree, Whole, Calm
      <4>3. ASSUME i.url \in OldUrls, Stored(Random(i.url))' PROVE Random(i.url) \in broken'
        <5>1. Random(i.url) \in IdsOf(i.url) /\ Stored(Random(i.url))
          BY <1>2, <4>3, IdFacts, UrlsAssumption DEF IdsOf, Stored
        <5>2. Stored(i)
          BY <2>4, <3>5, <5>1
        <5> QED
          BY <1>2, <2>1, <3>4, <4>3, <5>2 DEF Stored
      <4>4. ShapeOther(p)'
        BY <2>1, <3>1, <3>5, <4>1, <4>3 DEF ShapeOther
      <4>5. (Working(p)' /\ req'[p].id = i) /\ pc[p] \notin Marking
        BY <2>1, <3>1, <3>5, <4>1 DEF Working, Marking
      <4> HIDE DEF IInv, Data
      <4> QED
        BY <1>0, <1>2, <3>2, <3>4, <4>2, <4>4, <4>5, Framed
    <3>6. CASE l = "recheck"
      <4>1. j # i /\ Stored(j) /\ i.url \in OldUrls /\ j = Random(i.url)
        BY <2>1, <2>4, <3>1, <3>6, IdFacts
      <4>2. j \notin broken => Agree(j)
        <5>1. ASSUME j \notin broken, NEW q \in Procs, Working(q), req[q].id = j PROVE FALSE
          <6>1. q # p
            BY <1>0, <4>1, <5>1
          <6>2. req[q].id.url = req[p].id.url
            BY <1>0, <3>1, <5>1
          <6>3. IdsOf(i.url) \subseteq broken
            BY <1>0, <1>2, <5>1, <6>1, <6>2 DEF Overlap
          <6> QED
            BY <2>4, <5>1, <6>3
        <5> QED
          BY <3>1, <5>1 DEF Rest
      <4>3. (j \notin broken \/ Calm(p)) => ~Stored(i)
        BY <2>1, <2>2, <4>1 DEF OneStored
      <4>4. ShapeStores(p)'
        <5>1. Agree(req[p].id)' <=> Agree(j)
          BY <1>2, <3>1 DEF Agree, Emptied
        <5>2. Whole(p)' => j \notin broken
          BY <3>1, <3>3 DEF Whole
        <5>3. pc'[p] = "recheck"
          BY <3>1, <3>6
        <5> QED
          BY <4>2, <5>1, <5>2, <5>3 DEF ShapeStores
      <4>5. ShapeOther(p)'
        <5>1. Whole(p)' \/ Calm(p)' => j \notin broken \/ Calm(p)
          BY <3>1, <3>3 DEF Whole, Calm
        <5>2. Stored(Derived(i.url))' <=> Stored(i)
          BY <1>2, <2>1 DEF Stored
        <5>3. pc'[p] = "recheck" /\ req'[p].id # Derived(i.url) /\ req'[p].id.url = i.url
          BY <2>1, <3>1, <3>6, <4>1
        <5> QED
          BY <4>3, <5>1, <5>2, <5>3 DEF ShapeOther
      <4>6. i \in broken' \/ Agree(i)'
        BY <1>0, <1>2, <2>2, <3>3 DEF Whole, Agree, Emptied
      <4> HIDE DEF IInv, Data
      <4> QED
        BY <1>0, <1>2, <3>2, <3>4, <4>4, <4>5, <4>6, Framed
    <3> QED
      BY <3>5, <3>6
  <2> DEFINE same == {k \in IdsOf(i.url) : Stored(k)}
  <2>5. CASE same = {} /\ Goto(p, "load") /\ Smooth
    <3>1. Becomes(p, "load", req[p])
      BY <1>1, <2>5 DEF Goto, Becomes, TypeOK
    <3>2. \A k \in IdsOf(i.url) : ~Stored(k)
      BY <2>5
    <3>3. i \in IdsOf(i.url)
      BY DEF IdsOf
    <3> QED
      BY <1>0, <2>1, <2>4, <2>5, <3>1, <3>2, <3>3
  <2>6. CASE i \in same /\ Becomes(p, "load", [req[p] EXCEPT !.replaced = TRUE]) /\ Smooth
    <3>1. [req[p] EXCEPT !.replaced = TRUE].id = i /\ [req[p] EXCEPT !.replaced = TRUE].kind = "ingest"
          /\ [req[p] EXCEPT !.replaced = TRUE].replaced
      BY <1>0, <1>1, <2>1 DEF Requests
    <3>2. Stored(i) /\ i \in IdsOf(i.url)
      BY <2>6
    <3> QED
      BY <2>4, <2>6, <3>1, <3>2
  <2>7. ASSUME NEW j \in same \ {i}, Becomes(p, "recheck", [req[p] EXCEPT !.id = j]), Smooth
        PROVE  Data'
    <3>1. [req[p] EXCEPT !.id = j].id = j /\ [req[p] EXCEPT !.id = j].kind = "ingest"
      BY <1>1, <2>1 DEF Requests
    <3>2. Stored(j) /\ j \in IdsOf(i.url) /\ j # i
      OBVIOUS
    <3> QED
      BY <2>4, <2>7, <3>1, <3>2
  <2> QED
    BY <1>0, <1>6, <2>3, <2>5, <2>6, <2>7 DEF AdoptLegacy
<1>7. CASE Recheck(p)
  <2>1. PICK yes \in BOOLEAN : Exists(p, yes) /\ Becomes(p, "load", [req[p] EXCEPT !.replaced = yes])
    BY <1>7 DEF Recheck
  <2> DEFINE r == [req[p] EXCEPT !.replaced = yes]
  <2>2. pc[p] = "recheck" /\ pc'[p] = "load" /\ req'[p] = r
        /\ r.id = i /\ r.kind = req[p].kind /\ r.replaced = yes
    BY <1>0, <1>1, <1>3, <1>7, <2>1 DEF Recheck, Requests
  <2>3. Whole(p)' => Whole(p) /\ i \notin broken'
    BY <1>0, <1>4, <2>1, <2>2 DEF Whole
  <2>4. ShapeStores(p)'
    <3>1. Whole(p)' => Agree(i)
      BY <1>0, <1>1, <2>2, <2>3 DEF ShapeStores
    <3>2. ~yes => (Whole(p)' => Emptied(i)) /\ (Calm(p)' => ~Stored(i))
      BY <1>4, <2>1, <2>3, <3>1, AgreeFacts DEF Calm
    <3>3. /\ Agree(req[p].id)' <=> Agree(i)
          /\ Emptied(req[p].id)' <=> Emptied(i)
          /\ Stored(req[p].id)' <=> Stored(i)
      BY <1>2, <2>2 DEF Agree, Emptied, Stored
    <3> QED
      BY <2>2, <3>1, <3>2, <3>3 DEF ShapeStores
  <2>5. "load" \in PCs \ {"idle", "exists", "legacy", "untitle"} /\ dense'[i] \in {dense[i], <<>>}
        /\ pc[p] \notin Marking
    BY <1>2, <2>2 DEF PCs, Marking
  <2> HIDE DEF IInv, Data, r
  <2> QED
    BY <1>0, <1>2, <1>4, <2>1, <2>2, <2>4, <2>5, GoesOn DEF r
<1>8. CASE Load(p)
  <2> DEFINE l == IF req[p].replaced THEN "delDense" ELSE "dedup"
             r == [req[p] EXCEPT !.doc = world[req[p].id.url]]
  <2>1. pc[p] = "load" /\ Becomes(p, l, r) /\ Smooth
    BY <1>8 DEF Load
  <2>2. pc'[p] = l /\ req'[p] = r /\ r.id = i /\ r.kind = req[p].kind /\ r.replaced = req[p].replaced
    BY <1>0, <1>1, <1>3, <2>1 DEF Requests
  <2>3. ShapeStores(p)'
    <3>1. (Whole(p) => Agree(i))
          /\ (~req[p].replaced => (Whole(p) => Emptied(i)) /\ (Calm(p) => ~Stored(i)))
      BY <1>0, <1>1, <2>1 DEF ShapeStores
    <3>2. /\ Agree(req[p].id)' <=> Agree(i)
          /\ Emptied(req[p].id)' <=> Emptied(i)
          /\ Stored(req[p].id)' <=> Stored(i)
          /\ Whole(p)' <=> Whole(p)
          /\ Calm(p)' <=> Calm(p)
      BY <1>0, <1>2, <2>1, <2>2 DEF Agree, Emptied, Stored, Whole, Calm, Smooth
    <3> QED
      BY <2>2, <3>1, <3>2 DEF ShapeStores
  <2>4. l \in PCs \ {"idle", "exists", "legacy", "untitle"} /\ dense'[i] \in {dense[i], <<>>}
        /\ pc[p] \notin Marking /\ pc[p] \notin {"exists", "legacy"}
    BY <1>2, <2>1 DEF PCs, Marking
  <2> HIDE DEF IInv, Data, l, r
  <2> QED
    BY <1>0, <1>2, <2>1, <2>2, <2>3, <2>4, GoesOn
<1>9. CASE LoadFails(p)
  <2>1. pc[p] = "load" /\ Ends(p)
    BY <1>9 DEF LoadFails
  <2>2. broken' = broken
    BY <2>1 DEF Ends
  <2>3. i \in broken' \/ Agree(i)'
    BY <1>0, <1>1, <1>2, <2>1, <2>2 DEF ShapeStores, Whole, Agree, Emptied
  <2> HIDE DEF IInv, Data
  <2> QED
    BY <1>0, <1>2, <2>1, <2>2, <2>3, GoesOff
<1> QED
  BY <1>5, <1>6, <1>7, <1>8, <1>9

(* The deletion: in both stores, from the deduplicator, the cards and the  *)
(* titles.                                                                 *)
LEMMA DeleteStep ==
  ASSUME NEW p \in Procs, IInv,
         DeleteDense(p) \/ DeleteLexical(p) \/ DeleteReset(p) \/ Unlink(p) \/ Untitle(p)
  PROVE  Data'
<1> USE DEF IInv, Data
<1>0. PICK i \in Ids : i = req[p].id
  BY UrlFacts
<1>1. ShapeStores(p) /\ ShapeOther(p) /\ pc \in [Procs -> PCs] /\ req \in [Procs -> Requests]
      /\ dense \in [Ids -> Seq(Texts)] /\ lexical \in [Ids -> Texts \cup {0}]
  BY DEF Shapes, TypeOK, Requests
<1>2. Working(p) /\ pc[p] \notin {"exists", "legacy"}
  BY DEF DeleteDense, DeleteLexical, DeleteReset, Unlink, Untitle, Working
<1>3. ASSUME NEW l, Goto(p, l) PROVE Becomes(p, l, req[p]) /\ pc'[p] = l /\ req'[p] = req[p]
  BY <1>1, <1>3 DEF Goto, Becomes
<1>4. ASSUME Fault(p) PROVE i \in broken' /\ p \in disturbed'
  BY <1>0, <1>4 DEF Fault
<1>5. ASSUME Smooth PROVE broken' = broken /\ disturbed' = disturbed
  BY <1>5 DEF Smooth
<1>6. CASE DeleteDense(p)
  <2>1. pc[p] = "delDense" /\ Goto(p, "delLexical") /\ lexical' = lexical /\ seen' = seen
        /\ members' = members
    BY <1>6 DEF DeleteDense, sides
  <2>2. (dense' = [dense EXCEPT ![i] = <<>>] /\ Smooth) \/ (dense' = dense /\ Fault(p))
    BY <1>0, <1>6 DEF DeleteDense
  <2>3. dense'[i] \in {dense[i], <<>>} /\ \A j \in Ids \ {i} : dense'[j] = dense[j]
    BY <1>1, <2>2
  <2>4. ShapeStores(p)'
    <3>1. (Whole(p)' \/ Calm(p)') => dense'[i] = <<>>
      BY <1>0, <1>1, <1>3, <1>4, <2>1, <2>2 DEF Whole, Calm
    <3> QED
      BY <1>0, <1>3, <2>1, <3>1 DEF ShapeStores
  <2>5. "delLexical" \in PCs \ {"idle", "exists", "legacy", "untitle"} /\ "delLexical" \in Marking
    BY DEF PCs, Marking
  <2> HIDE DEF IInv, Data
  <2> QED
    BY <1>0, <1>2, <1>3, <2>1, <2>2, <2>3, <2>4, <2>5, GoesOn
<1>7. CASE DeleteLexical(p)
  <2>1. pc[p] = "delLexical" /\ Goto(p, "delReset") /\ dense' = dense /\ seen' = seen
        /\ members' = members
    BY <1>7 DEF DeleteLexical, sides
  <2>2. \/ lexical' = [lexical EXCEPT ![i] = 0] /\ (Smooth \/ Fault(p))
        \/ lexical' = lexical /\ Fault(p)
    BY <1>0, <1>7 DEF DeleteLexical
  <2>3. \A j \in Ids \ {i} : lexical'[j] = lexical[j]
    BY <1>1, <2>2
  <2>4. ShapeStores(p)'
    <3>1. (Whole(p)' \/ Calm(p)') => Smooth /\ lexical'[i] = 0 /\ (Whole(p) \/ Calm(p))
      BY <1>0, <1>1, <1>3, <1>4, <1>5, <2>1, <2>2 DEF Whole, Calm
    <3>2. (Whole(p) \/ Calm(p)) => dense[i] = <<>>
      BY <1>0, <1>1, <2>1 DEF ShapeStores
    <3> QED
      BY <1>0, <1>3, <2>1, <3>1, <3>2 DEF ShapeStores, Emptied
  <2>5. "delReset" \in PCs \ {"idle", "exists", "legacy", "untitle"} /\ "delReset" \in Marking
    BY DEF PCs, Marking
  <2> HIDE DEF IInv, Data
  <2> QED
    BY <1>0, <1>2, <1>3, <2>1, <2>2, <2>3, <2>4, <2>5, GoesOn
<1>8. CASE DeleteReset(p)
  <2> DEFINE l == IF req[p].kind = "delete" THEN "unlink" ELSE "dedup"
  <2>1. pc[p] = "delReset" /\ Goto(p, l) /\ dense' = dense /\ lexical' = lexical /\ seen' = {}
        /\ members' = members /\ Smooth
    BY <1>8 DEF DeleteReset, stores, sides
  <2>2. ShapeStores(p)'
    <3>1. (Whole(p)' <=> Whole(p)) /\ (Calm(p)' <=> Calm(p)) /\ pc'[p] = l /\ req'[p] = req[p]
      BY <1>3, <1>5, <2>1 DEF Whole, Calm
    <3>2. (Whole(p) \/ Calm(p)) => Emptied(i)
      BY <1>0, <1>1, <2>1 DEF ShapeStores
    <3>3. /\ Emptied(req[p].id)' <=> Emptied(i)
          /\ Stored(req[p].id)' <=> Stored(i)
      BY <1>0, <2>1, <3>1 DEF Emptied, Stored
    <3> QED
      BY <3>1, <3>2, <3>3, AgreeFacts DEF ShapeStores
  <2>3. l \in PCs \ {"idle", "exists", "legacy", "untitle"} /\ dense'[i] \in {dense[i], <<>>}
    BY <2>1 DEF PCs
  <2> HIDE DEF IInv, Data, l
  <2> QED
    BY <1>0, <1>2, <1>3, <2>1, <2>2, <2>3, GoesOn
<1>9. CASE Unlink(p)
  <2>1. pc[p] = "unlink" /\ Goto(p, "untitle") /\ dense' = dense /\ lexical' = lexical /\ seen' = seen
        /\ req[p].kind = "delete"
    BY <1>9 DEF Unlink, stores, Coherent
  <2>2. (members' = members \ {i} /\ Smooth) \/ (members' = members /\ Fault(p))
    BY <1>0, <1>9 DEF Unlink
  <2>3. pc'[p] = "untitle" /\ req'[p] = req[p] /\ Becomes(p, "untitle", req[p])
    BY <1>3, <2>1
  <2>4. Own(p)
    BY <1>0, <2>1, <2>2, <2>3, OwnGoesOn
  <2>5. ShapeStores(p)'
    <3>1. (Whole(p)' \/ Calm(p)') => Whole(p) \/ Calm(p)
      BY <1>0, <1>4, <1>5, <2>2, <2>3 DEF Whole, Calm
    <3>2. (Whole(p) \/ Calm(p)) => Emptied(i)
      BY <1>0, <1>1, <2>1 DEF ShapeStores
    <3> QED
      BY <1>0, <2>1, <2>3, <3>1, <3>2 DEF ShapeStores, Emptied
  <2>6. ShapeOther(p)'
    <3>1. Calm(p)' => i \notin members'
      BY <1>4, <2>2 DEF Calm
    <3> QED
      BY <1>0, <2>1, <2>3, <3>1 DEF ShapeOther
  <2>7. ASSUME i.url \in OldUrls, Stored(Derived(i.url))', Stored(Random(i.url))'
        PROVE  Random(i.url) \in broken'
    BY <1>5, <2>1, <2>2, <2>7 DEF OneStored, Stored, Fault
  <2>8. (Working(p)' /\ req'[p].id = i) /\ pc[p] \notin Marking
    BY <1>0, <2>1, <2>3 DEF Working, Marking
  <2> HIDE DEF IInv, Data
  <2> QED
    BY <1>0, <1>2, <2>1, <2>4, <2>5, <2>6, <2>7, <2>8, Framed
<1>10. CASE Untitle(p)
  <2>1. pc[p] = "untitle" /\ dense' = dense /\ lexical' = lexical /\ seen' = seen
        /\ members' = members /\ (Repairs(p) \/ Breaks(p))
    BY <1>10 DEF Untitle, stores
  <2>2. (Whole(p) \/ Calm(p)) => Emptied(i)
    BY <1>0, <1>1, <2>1 DEF ShapeStores
  <2>3. broken \subseteq broken' \/ Calm(p)
    BY <2>1 DEF Repairs, Breaks, Calm
  <2>4. i \in broken' \/ Agree(i)'
    <3>1. i \in broken' \/ Whole(p) \/ Calm(p)
      BY <1>0, <2>3 DEF Whole
    <3> QED
      BY <2>1, <2>2, <3>1 DEF Agree, Emptied
  <2>5. \/ dense'[i] = dense[i] /\ (broken \subseteq broken' \/ Random(i.url) # i)
        \/ i.url \in OldUrls /\ Stored(Derived(i.url))' /\ Stored(Random(i.url))'
             => Random(i.url) \in broken'
    <3>1. CASE broken \subseteq broken'
      BY <2>1, <3>1
    <3>2. CASE Calm(p) /\ Random(i.url) = i
      <4>1. ~Stored(i)'
        BY <2>1, <2>2, <3>2 DEF Emptied, Stored
      <4> QED
        BY <3>2, <4>1 DEF Stored
    <3> QED
      BY <2>1, <2>3, <3>1, <3>2
  <2>6. pc[p] \notin Marking
    BY <2>1 DEF Marking
  <2> HIDE DEF IInv, Data
  <2> QED
    BY <1>0, <1>2, <2>1, <2>4, <2>5, <2>6, GoesOff
<1> QED
  BY <1>6, <1>7, <1>8, <1>9, <1>10

(* The ingest: past the deduplicator and the embedder, into both stores.   *)
LEMMA AddStep ==
  ASSUME NEW p \in Procs, IInv,
         Dedup(p) \/ DedupSkips(p) \/ Embed(p) \/ EmbedFails(p) \/ AddDense(p) \/ AddDenseFails(p)
         \/ AddLexical(p) \/ AddLexicalFails(p)
  PROVE  Data'
<1> USE DEF IInv, Data
<1>0. PICK i \in Ids : i = req[p].id
  BY UrlFacts
<1>1. ShapeStores(p) /\ ShapeOther(p) /\ pc \in [Procs -> PCs] /\ req \in [Procs -> Requests]
      /\ dense \in [Ids -> Seq(Texts)] /\ lexical \in [Ids -> Texts \cup {0}]
  BY DEF Shapes, TypeOK, Requests
<1>2. /\ Working(p) /\ pc[p] \notin {"exists", "legacy"} /\ members' = members
      /\ pc[p] \in {"dedup", "embed", "addDense", "addLexical"}
  BY DEF Dedup, DedupSkips, Embed, EmbedFails, AddDense, AddDenseFails, AddLexical,
         AddLexicalFails, Working, sides
<1>3. req[p].kind = "ingest" /\ req[p].doc \in Texts
  BY <1>2 DEF Coherent
<1>4. ASSUME NEW l, Goto(p, l) PROVE Becomes(p, l, req[p]) /\ pc'[p] = l /\ req'[p] = req[p]
  BY <1>1, <1>4 DEF Goto, Becomes
<1>5. ASSUME Smooth PROVE broken' = broken /\ disturbed' = disturbed
  BY <1>5 DEF Smooth
<1>6. ASSUME pc[p] \in {"dedup", "embed", "addDense"}
      PROVE  /\ Whole(p) \/ (Calm(p) /\ req[p].replaced) => Emptied(i)
             /\ Calm(p) => ~Stored(i)
  BY <1>0, <1>1, <1>6 DEF ShapeStores
<1>7. CASE Dedup(p) \/ Embed(p)
  <2>1. PICK l \in {"embed", "addDense"} : Goto(p, l)
    BY <1>7 DEF Dedup, Embed
  <2>2. /\ dense' = dense /\ lexical' = lexical /\ Smooth /\ pc[p] \in {"dedup", "embed"}
        /\ seen' \subseteq seen \cup {<<i, req[p].doc>>}
    BY <1>0, <1>7 DEF Dedup, Embed, stores, Fingerprint
  <2>3. ShapeStores(p)'
    <3>1. (Whole(p)' <=> Whole(p)) /\ (Calm(p)' <=> Calm(p)) /\ pc'[p] = l /\ req'[p] = req[p]
      BY <1>4, <1>5, <2>1, <2>2 DEF Whole, Calm
    <3>2. /\ Emptied(req[p].id)' <=> Emptied(i)
          /\ Stored(req[p].id)' <=> Stored(i)
      BY <1>0, <2>2, <3>1 DEF Emptied, Stored
    <3> QED
      BY <1>6, <2>2, <3>1, <3>2 DEF ShapeStores
  <2>4. l \in PCs \ {"idle", "exists", "legacy", "untitle"} /\ dense'[i] \in {dense[i], <<>>}
        /\ l \in Marking
    BY <2>2 DEF PCs, Marking
  <2> HIDE DEF IInv, Data
  <2> QED
    BY <1>0, <1>2, <1>4, <2>1, <2>2, <2>3, <2>4, GoesOn
<1>8. CASE DedupSkips(p) \/ EmbedFails(p)
  <2>1. /\ Ends(p) /\ dense' = dense /\ lexical' = lexical
        /\ seen' = {} \/ (seen' = seen /\ pc[p] = "dedup")
        /\ pc[p] \in {"dedup", "embed"}
    BY <1>8 DEF DedupSkips, EmbedFails, stores
  <2>2. broken' = broken
    BY <2>1 DEF Ends
  <2>3. i \in broken' \/ Agree(i)'
    BY <1>0, <1>2, <1>6, <1>8, <2>1, <2>2 DEF Whole, Agree, Emptied, DedupSkips, EmbedFails
  <2>4. pc[p] = "dedup" => pc[p] \notin Marking
    BY DEF Marking
  <2> HIDE DEF IInv, Data
  <2> QED
    BY <1>0, <1>2, <2>1, <2>2, <2>3, <2>4, GoesOff
\* After an add to FAISS the source is stored, and the other id of its URL is
\* not, or is broken.
<1>9. ASSUME pc[p] = "addDense", Appended(p)
      PROVE  /\ dense'[i] # <<>> /\ \A j \in Ids \ {i} : dense'[j] = dense[j]
             /\ dense[i] = <<>> => dense'[i] = <<req[p].doc>>
  <2>1. dense'[i] = Append(dense[i], req[p].doc) /\ \A j \in Ids \ {i} : dense'[j] = dense[j]
    BY <1>0, <1>1, <1>9 DEF Appended
  <2>2. dense[i] \in Seq(Texts) /\ Append(dense[i], req[p].doc) # <<>>
    BY <1>1, <1>3
  <2>3. \A d \in Texts : Append(<<>>, d) = <<d>>
    OBVIOUS
  <2> QED
    BY <1>3, <2>1, <2>2, <2>3
<1>10. ASSUME pc[p] = "addDense", i.url \in OldUrls, broken \subseteq broken',
              \A j \in Ids \ {i} : dense'[j] = dense[j],
              Stored(Derived(i.url))', Stored(Random(i.url))'
       PROVE  Random(i.url) \in broken' \/ (i = Random(i.url) /\ i \notin broken')
  <2>1. Derived(i.url) \in Ids /\ Random(i.url) \in Ids /\ Derived(i.url) # Random(i.url)
    BY <1>10, IdFacts, UrlsAssumption
  <2>2. CASE i = Derived(i.url)
    <3>1. Stored(Random(i.url))
      BY <1>10, <2>1, <2>2 DEF Stored
    <3> QED
      BY <1>0, <1>1, <1>3, <1>10, <2>2, <3>1 DEF ShapeOther
  <2>3. CASE i = Random(i.url)
    BY <2>3
  <2> QED
    BY <2>2, <2>3, IdFacts
<1>11. CASE AddDense(p)
  <2>1. pc[p] = "addDense" /\ Appended(p) /\ Goto(p, "addLexical") /\ lexical' = lexical
        /\ seen' = seen /\ Smooth
    BY <1>11 DEF AddDense
  <2>2. ShapeStores(p)'
    <3>1. (Whole(p)' <=> Whole(p)) /\ (Calm(p)' <=> Calm(p)) /\ pc'[p] = "addLexical"
          /\ req'[p] = req[p]
      BY <1>4, <1>5, <2>1 DEF Whole, Calm
    <3>2. Emptied(i) => dense'[i] = <<req[p].doc>> /\ lexical'[i] = 0
      BY <1>9, <2>1 DEF Emptied
    <3> QED
      BY <1>0, <1>6, <2>1, <3>1, <3>2 DEF ShapeStores
  <2>3. Stored(i)' /\ \A j \in Ids \ {i} : dense'[j] = dense[j] /\ lexical'[j] = lexical[j]
    BY <1>9, <2>1 DEF Stored
  <2>4. ASSUME i.url \in OldUrls, Stored(Derived(i.url))', Stored(Random(i.url))'
        PROVE  Random(i.url) \in broken'
    <3>1. CASE i = Random(i.url) /\ i \notin broken'
      <4>1. Whole(p) /\ i # Derived(i.url)
        BY <1>0, <1>5, <2>1, <3>1, IdFacts DEF Whole
      <4>2. ~Stored(Derived(i.url)) /\ Derived(i.url) \in Ids
        BY <1>0, <1>1, <1>2, <1>3, <4>1, IdFacts DEF ShapeOther
      <4> QED
        BY <2>3, <2>4, <4>1, <4>2 DEF Stored
    <3> QED
      BY <1>5, <1>10, <2>1, <2>3, <2>4, <3>1
  <2>5. "addLexical" \in PCs \ {"idle", "exists", "legacy", "untitle"}
    BY DEF PCs
  <2> HIDE DEF IInv, Data
  <2> QED
    BY <1>0, <1>2, <1>4, <2>1, <2>2, <2>3, <2>4, <2>5, GoesOn
<1>12. CASE AddDenseFails(p)
  <2>1. pc[p] = "addDense" /\ (Appended(p) \/ dense' = dense) /\ lexical' = lexical
        /\ seen' = {} /\ Breaks(p)
    BY <1>12 DEF AddDenseFails
  <2>2. i \in broken' /\ broken \subseteq broken'
    BY <1>0, <2>1 DEF Breaks
  <2>3. \A j \in Ids \ {i} : dense'[j] = dense[j] /\ lexical'[j] = lexical[j]
    BY <1>9, <2>1
  <2>4. i.url \in OldUrls /\ Stored(Derived(i.url))' /\ Stored(Random(i.url))'
          => Random(i.url) \in broken'
    BY <1>10, <2>1, <2>2, <2>3
  <2> HIDE DEF IInv, Data
  <2> QED
    BY <1>0, <1>2, <2>1, <2>2, <2>3, <2>4, GoesOff
<1>13. CASE AddLexical(p)
  <2>1. /\ pc[p] = "addLexical" /\ dense' = dense /\ seen' = seen
        /\ lexical' = [lexical EXCEPT ![i] = IF lexical[i] = 0 THEN req[p].doc ELSE lexical[i]]
        /\ IF req[p].replaced THEN Repairs(p) ELSE Ends(p)
    BY <1>0, <1>13 DEF AddLexical
  <2>2. \A j \in Ids \ {i} : dense'[j] = dense[j] /\ lexical'[j] = lexical[j]
    BY <1>1, <2>1
  <2>3. broken \subseteq broken' \/ (Calm(p) /\ req[p].replaced)
    BY <2>1 DEF Repairs, Ends, Calm
  <2>4. i \in broken' \/ Agree(i)'
    <3>1. i \in broken' \/ Whole(p) \/ (Calm(p) /\ req[p].replaced)
      BY <1>0, <2>3 DEF Whole
    <3>2. ASSUME Whole(p) \/ (Calm(p) /\ req[p].replaced) PROVE Agree(i)'
      <4>1. dense[i] = <<req[p].doc>> /\ lexical[i] = 0
        BY <1>0, <1>1, <2>1, <3>2 DEF ShapeStores
      <4>2. lexical'[i] = req[p].doc /\ dense'[i] = <<req[p].doc>>
        BY <1>1, <2>1, <4>1
      <4>3. req[p].doc # 0
        BY <1>3, TextFacts
      <4> QED
        BY <4>2, <4>3 DEF Agree
    <3> QED
      BY <3>1, <3>2
  <2>5. \/ dense'[i] = dense[i] /\ (broken \subseteq broken' \/ Random(i.url) # i)
        \/ i.url \in OldUrls /\ Stored(Derived(i.url))' /\ Stored(Random(i.url))'
             => Random(i.url) \in broken'
    <3>1. CASE broken \subseteq broken'
      BY <2>1, <3>1
    <3>2. CASE Calm(p) /\ Random(i.url) = i
      <4>1. i # Derived(i.url)
        BY <3>2, IdFacts
      <4>2. ~Stored(Derived(i.url))
        BY <1>0, <1>1, <1>2, <1>3, <3>2, <4>1 DEF ShapeOther
      <4> QED
        BY <2>1, <4>2 DEF Stored
    <3> QED
      BY <2>1, <2>3, <3>1, <3>2
  <2>6. pc[p] \notin Marking /\ (Ends(p) \/ Repairs(p))
    BY <2>1 DEF Marking
  <2> HIDE DEF IInv, Data
  <2> QED
    BY <1>0, <1>2, <2>1, <2>2, <2>4, <2>5, <2>6, GoesOff
<1>14. CASE AddLexicalFails(p)
  <2>1. dense' = dense /\ lexical' = lexical /\ seen' = {} /\ Breaks(p)
    BY <1>14 DEF AddLexicalFails, stores
  <2>2. i \in broken' /\ broken \subseteq broken'
    BY <1>0, <2>1 DEF Breaks
  <2> HIDE DEF IInv, Data
  <2> QED
    BY <1>0, <1>2, <2>1, <2>2, GoesOff
<1> QED
  BY <1>7, <1>8, <1>11, <1>12, <1>13, <1>14

(* A new request disturbs those of its URL, and finds a source at rest     *)
(* when there are none.                                                    *)
LEMMA CallStep ==
  ASSUME NEW p \in Procs, NEW r, NEW l, IInv, Called(p, r, l), r.id \in Ids,
         \/ l = "exists" /\ r.kind = "ingest" /\ r.id = Derived(r.id.url)
         \/ l = "delDense" /\ r.kind = "delete"
  PROVE  Data'
<1> USE DEF IInv, Data
<1>1. /\ pc[p] = "idle" /\ pc'[p] = l /\ req'[p] = r
      /\ \A q \in Procs \ {p} : pc'[q] = pc[q] /\ req'[q] = req[q]
      /\ dense' = dense /\ lexical' = lexical /\ seen' = seen /\ members' = members
  BY DEF Called, Becomes, TypeOK, stores, sides
<1>2. /\ disturbed \subseteq disturbed' /\ broken \subseteq broken' /\ Active(r.id.url) \subseteq disturbed'
      /\ Active(r.id.url) # {} => p \in disturbed' /\ IdsOf(r.id.url) \subseteq broken'
      /\ Active(r.id.url) = {} => broken' = broken
  BY DEF Called
<1>3. \A q \in Procs : Working(q) /\ req[q].id.url = r.id.url => q \in Active(r.id.url) /\ q # p
  BY <1>1 DEF Active, Working
<1>4. \A i : /\ Agree(i)' <=> Agree(i)
             /\ Emptied(i)' <=> Emptied(i)
             /\ Stored(i)' <=> Stored(i)
  BY <1>1 DEF Agree, Emptied, Stored
<1>5. Overlap'
  <2> SUFFICES ASSUME NEW q \in Procs, NEW s \in Procs, q # s, Working(q)', Working(s)',
                      req'[q].id.url = req'[s].id.url
               PROVE  q \in disturbed' /\ IdsOf(req'[q].id.url) \subseteq broken'
    BY DEF Overlap, IdsOf
  <2>1. CASE q # p /\ s # p
    BY <1>1, <1>2, <2>1 DEF Overlap, Working
  <2>2. CASE q = p
    <3>1. s \in Active(r.id.url) /\ req'[q].id.url = r.id.url
      BY <1>1, <1>3, <2>2 DEF Working
    <3> QED
      BY <1>2, <2>2, <3>1
  <2>3. CASE s = p
    <3>1. q \in Active(r.id.url) /\ req'[q].id.url = r.id.url
      BY <1>1, <1>3, <2>3 DEF Working
    <3> QED
      BY <1>2, <2>3, <3>1
  <2> QED
    BY <2>1, <2>2, <2>3
<1>6. Rest'
  <2>1. ASSUME NEW j \in Ids \ broken', \A q \in Procs : Working(q)' => req'[q].id # j
        PROVE  Agree(j)
    <3>1. \A q \in Procs : Working(q) => req[q].id # j
      BY <1>1, <2>1 DEF Working
    <3> QED
      BY <1>2, <2>1, <3>1 DEF Rest
  <2> QED
    BY <1>4, <2>1 DEF Rest
<1>7. OneStored'
  BY <1>2, <1>4 DEF OneStored, Derived, Random
<1>8. SeenIsStored'
  <2>1. \A q \in Procs : pc[q] \in Marking => pc'[q] = pc[q] /\ req'[q] = req[q]
    BY <1>1 DEF Marking
  <2> QED
    BY <1>1, <2>1 DEF SeenIsStored, Stored
<1>9. ASSUME NEW q \in Procs \ {p} PROVE ShapeStores(q)' /\ ShapeOther(q)'
  <2>1. pc'[q] = pc[q] /\ req'[q] = req[q] /\ ShapeStores(q) /\ ShapeOther(q)
    BY <1>1 DEF Shapes
  <2>2. (Whole(q)' => Whole(q)) /\ (Calm(q)' => Calm(q)) /\ (Working(q)' <=> Working(q))
    BY <1>2, <2>1 DEF Whole, Calm, Working
  <2>3. /\ Emptied(req[q].id)' <=> Emptied(req[q].id)
        /\ Agree(req[q].id)' <=> Agree(req[q].id)
        /\ Stored(req[q].id)' <=> Stored(req[q].id)
        /\ Stored(Derived(req[q].id.url))' <=> Stored(Derived(req[q].id.url))
        /\ Stored(Random(req[q].id.url))' <=> Stored(Random(req[q].id.url))
    BY <1>1, <2>1 DEF Agree, Emptied, Stored, Derived, Random
  <2>4. ShapeStores(q)'
    BY <1>1, <2>1, <2>2, <2>3 DEF ShapeStores
  <2>5. ShapeOther(q)'
    BY <1>1, <1>2, <2>1, <2>2, <2>3 DEF ShapeOther
  <2> QED
    BY <2>4, <2>5
<1>10. ShapeStores(p)' /\ ShapeOther(p)'
  <2>1. ASSUME Whole(p)' PROVE Agree(r.id)
    <3>1. r.id \notin broken' /\ r.id \in IdsOf(r.id.url)
      BY <1>1, <2>1 DEF Whole, IdsOf
    <3>2. Active(r.id.url) = {} /\ r.id \notin broken
      BY <1>2, <3>1
    <3>3. \A q \in Procs : Working(q) => req[q].id # r.id
      BY <1>3, <3>2
    <3> QED
      BY <3>2, <3>3 DEF Rest
  <2>2. /\ Agree(req[p].id)' <=> Agree(r.id)
    BY <1>1 DEF Agree, Emptied
  <2>3. ShapeStores(p)'
    BY <1>1, <2>1, <2>2 DEF ShapeStores
  <2>4. ShapeOther(p)'
    BY <1>1 DEF ShapeOther
  <2> QED
    BY <2>3, <2>4
<1> QED
  BY <1>5, <1>6, <1>7, <1>8, <1>9, <1>10 DEF Shapes

(* A new name disturbs a deletion under way.                               *)
LEMMA NameStep == ASSUME NEW i \in Ids, IInv, Name(i) PROVE Data'
<1> USE DEF IInv, Data
<1>1. /\ pc' = pc /\ req' = req /\ dense' = dense /\ lexical' = lexical /\ seen' = seen
      /\ broken' = broken /\ members' \subseteq members \cup {i}
      /\ disturbed' = disturbed \cup Active(i.url)
  BY DEF Name, stores
<1>2. Overlap'
  BY <1>1 DEF Overlap, Working, IdsOf
<1>3. Rest' /\ OneStored' /\ SeenIsStored'
  BY <1>1 DEF Rest, OneStored, SeenIsStored, Working, Agree, Emptied, Stored, Derived, Random
<1>4. ASSUME NEW q \in Procs PROVE ShapeStores(q)' /\ ShapeOther(q)'
  <2>1. ShapeStores(q) /\ ShapeOther(q)
    BY DEF Shapes
  <2>2. (Whole(q)' <=> Whole(q)) /\ (Calm(q)' => Calm(q)) /\ (Working(q)' <=> Working(q))
    BY <1>1 DEF Whole, Calm, Working
  <2>3. /\ Emptied(req[q].id)' <=> Emptied(req[q].id)
        /\ Agree(req[q].id)' <=> Agree(req[q].id)
        /\ Stored(req[q].id)' <=> Stored(req[q].id)
        /\ Stored(Derived(req[q].id.url))' <=> Stored(Derived(req[q].id.url))
        /\ Stored(Random(req[q].id.url))' <=> Stored(Random(req[q].id.url))
    BY <1>1 DEF Agree, Emptied, Stored, Derived, Random
  <2>4. ShapeStores(q)'
    BY <1>1, <2>1, <2>2, <2>3 DEF ShapeStores
  <2>5. pc[q] = "untitle" /\ Calm(q)' => req[q].id \notin members'
    <3>1. pc[q] = "untitle" /\ req[q].id = i => q \in disturbed'
      BY <1>1 DEF Active
    <3> QED
      BY <1>1, <2>1, <2>2, <3>1 DEF ShapeOther, Calm
  <2>6. ShapeOther(q)'
    BY <1>1, <2>1, <2>2, <2>3, <2>5 DEF ShapeOther
  <2> QED
    BY <2>4, <2>6
<1> QED
  BY <1>2, <1>3, <1>4 DEF Shapes

(* A restart leaves broken what was being worked on.                       *)
LEMMA CrashStep == IInv /\ Crash => Data'
<1> SUFFICES ASSUME IInv, Crash PROVE Data'
  OBVIOUS
<1> USE DEF IInv, Data
<1>1. /\ \A p \in Procs : pc'[p] = "idle"
      /\ dense' = dense /\ lexical' = lexical /\ seen' = {} /\ broken \subseteq broken'
      /\ \A p \in Procs : Working(p) => req[p].id \in broken'
  BY DEF Crash, stores, Working
<1>2. Overlap' /\ Shapes' /\ SeenIsStored'
  BY <1>1 DEF Overlap, Shapes, ShapeStores, ShapeOther, SeenIsStored, Working, Marking
<1>3. Rest'
  <2>1. \A j \in Ids \ broken' : Agree(j)
    BY <1>1 DEF Rest
  <2> QED
    BY <1>1, <2>1 DEF Rest, Agree, Emptied
<1>4. OneStored'
  BY <1>1 DEF OneStored, Stored, Derived, Random
<1> QED
  BY <1>2, <1>3, <1>4

(* Every step keeps the stores and the side tables in order.               *)
LEMMA DataStep == IInv /\ [Next]_vars => Data'
<1> SUFFICES ASSUME IInv, [Next]_vars PROVE Data'
  OBVIOUS
<1>1. ASSUME NEW p \in Procs, CallIngest(p) PROVE Data'
  <2> DEFINE r(u) == [kind |-> "ingest", id |-> Derived(u), replaced |-> FALSE, doc |-> 0]
  <2>1. PICK u \in DOMAIN world : Called(p, r(u), "exists")
    BY <1>1 DEF CallIngest
  <2>2. Derived(u) \in Ids
    BY IdFacts, TextFacts DEF IInv
  <2>3. r(u).id \in Ids /\ r(u).kind = "ingest" /\ r(u).id = Derived(r(u).id.url)
    BY <2>2, IdFacts
  <2> HIDE DEF r
  <2> QED
    BY <2>1, <2>3, CallStep
<1>2. ASSUME NEW p \in Procs, CallDelete(p) PROVE Data'
  <2> DEFINE r(i) == [kind |-> "delete", id |-> i, replaced |-> FALSE, doc |-> 0]
  <2>1. PICK i \in Ids : Called(p, r(i), "delDense")
    BY <1>2 DEF CallDelete
  <2>2. r(i).id \in Ids /\ r(i).kind = "delete"
    OBVIOUS
  <2> HIDE DEF r
  <2> QED
    BY <2>1, <2>2, CallStep
<1>3. CASE Publish \/ UNCHANGED vars
  <2>1. /\ pc' = pc /\ req' = req /\ dense' = dense /\ lexical' = lexical /\ seen' = seen
        /\ broken' = broken /\ members' = members /\ disturbed' = disturbed
    BY <1>3 DEF Publish, vars, stores, sides
  <2>2. /\ \A i : Agree(i)' = Agree(i) /\ Emptied(i)' = Emptied(i) /\ Stored(i)' = Stored(i)
        /\ \A p : Working(p)' = Working(p) /\ Whole(p)' = Whole(p) /\ Calm(p)' = Calm(p)
    BY <2>1 DEF Agree, Emptied, Stored, Working, Whole, Calm
  <2>3. \A p : ShapeStores(p)' = ShapeStores(p) /\ ShapeOther(p)' = ShapeOther(p)
    BY <2>1, <2>2 DEF ShapeStores, ShapeOther
  <2>4. Shapes' /\ Overlap' /\ Rest' /\ OneStored' /\ SeenIsStored'
    BY <2>1, <2>2, <2>3 DEF IInv, Data, Overlap, Rest, OneStored, SeenIsStored, Shapes
  <2> QED
    BY <2>1, <2>2, <2>3, <2>4 DEF IInv, Data
<1> QED
  BY <1>1, <1>2, <1>3, LookStep, DeleteStep, AddStep, NameStep, CrashStep
     DEF Next, Step, Fails

-----------------------------------------------------------------------------
(* A URL has its two ids, and no others.                                   *)
LEMMA TwoIds ==
  \A u \in Urls : /\ u \notin OldUrls => IdsOf(u) = {Derived(u)}
                  /\ u \in OldUrls => IdsOf(u) = {Derived(u), Random(u)}
  BY IdFacts DEF IdsOf

(* The initial states satisfy the inductive invariant: of the two ids of a *)
(* URL at most one is stored, in both stores.                              *)
LEMMA IInvInit == Init => IInv
<1> SUFFICES ASSUME Init PROVE IInv
  OBVIOUS
<1>1. PICK corpus \in Corpora : world \in ContentsOf(corpus)
  BY DEF Init
<1>2. DOMAIN world = corpus /\ corpus \subseteq Urls
  BY <1>1, CorporaAssumption DEF ContentsOf
<1>3. PICK old \in ContentsOf(DOMAIN world), kept \in SUBSET {i \in Ids : i.url \in DOMAIN world} :
        /\ \A u \in DOMAIN world : Cardinality(kept \cap IdsOf(u)) <= 1
        /\ dense = [i \in Ids |-> IF i \in kept THEN <<old[i.url]>> ELSE <<>>]
        /\ lexical = [i \in Ids |-> IF i \in kept THEN old[i.url] ELSE 0]
  BY DEF Init
<1>4. \A i \in kept : i \in Ids /\ old[i.url] \in Texts /\ old[i.url] # 0
  BY <1>3, TextFacts DEF ContentsOf
<1>5. TypeOK
  <2>1. dense \in [Ids -> Seq(Texts)]
    <3>1. <<>> \in Seq(Texts) /\ \A i \in kept : <<old[i.url]>> \in Seq(Texts)
      BY <1>4
    <3> QED
      BY <1>3, <3>1
  <2>2. lexical \in [Ids -> Texts \cup {0}]
    BY <1>3, <1>4
  <2>3. pc \in [Procs -> PCs] /\ req \in [Procs -> Requests]
    BY NobodyIsRequest DEF Init, PCs
  <2>4. DOMAIN world \in Corpora /\ world \in ContentsOf(DOMAIN world)
    BY <1>1, <1>2
  <2>5. faults \in 0..MaxFaults /\ crashes \in 0..MaxCrashes
    BY BoundsAssumption DEF Init
  <2>6. seen = {} /\ titles = {} /\ members = {} /\ disturbed = {} /\ broken = {}
    BY DEF Init
  <2> QED
    BY <2>1, <2>2, <2>3, <2>4, <2>5, <2>6 DEF TypeOK, Requests
<1>6. \A p \in Procs : ~Working(p) /\ req[p] = Nobody
  BY DEF Init, Working
<1>7. Coherent
  BY <1>6, NobodyIsRequest DEF Coherent, Working
<1>8. Overlap /\ SeenIsStored
  BY <1>6 DEF Init, Overlap, SeenIsStored
<1>9. Shapes
  BY <1>6 DEF Shapes, ShapeStores, ShapeOther, Working
<1>10. Rest
  <2>1. \A i \in Ids : Agree(i)
    <3>1. ASSUME NEW i \in Ids PROVE Agree(i)
      <4>1. CASE i \in kept
        <5>1. dense[i] = <<old[i.url]>> /\ lexical[i] = old[i.url]
          BY <1>3, <4>1
        <5> QED
          BY <1>4, <4>1, <5>1 DEF Agree
      <4>2. CASE i \notin kept
        <5>1. dense[i] = <<>> /\ lexical[i] = 0
          BY <1>3, <4>2
        <5> QED
          BY <5>1 DEF Agree, Emptied
      <4> QED
        BY <4>1, <4>2
    <3> QED
      BY <3>1
  <2> QED
    BY <2>1 DEF Rest
<1>11. OneStored
  <2> SUFFICES ASSUME NEW u \in OldUrls, Stored(Derived(u)), Stored(Random(u)) PROVE FALSE
    BY DEF OneStored
  <2>1. u \in Urls /\ Derived(u) \in Ids /\ Random(u) \in Ids /\ Derived(u) # Random(u)
        /\ Derived(u).url = u /\ Random(u).url = u
    BY IdFacts, UrlsAssumption
  <2>2. Derived(u) \in kept /\ Random(u) \in kept
    BY <1>3, <2>1 DEF Stored
  <2>3. u \in DOMAIN world
    BY <2>1, <2>2
  <2>4. kept \cap IdsOf(u) = {Derived(u)} \cup {Random(u)}
    BY <2>1, <2>2, TwoIds
  <2>5. Cardinality({Derived(u)} \cup {Random(u)}) = 2
    <3>1. IsFiniteSet({Derived(u)}) /\ Cardinality({Derived(u)}) = 1
      BY FS_Singleton
    <3>2. Random(u) \notin {Derived(u)}
      BY <2>1
    <3> QED
      BY <3>1, <3>2, FS_AddElement
  <2>6. Cardinality(kept \cap IdsOf(u)) <= 1
    BY <1>3, <2>3
  <2> QED
    BY <2>4, <2>5, <2>6
<1> QED
  BY <1>5, <1>7, <1>8, <1>9, <1>10, <1>11 DEF IInv, Data

(* Every step keeps it.                                                    *)
LEMMA IInvStep == IInv /\ [Next]_vars => IInv'
  BY TypeStep, CoherentStep, DataStep DEF IInv

(* In every behaviour the variables have their types.                      *)
THEOREM TypeCorrect == Spec => []TypeOK
<1>1. IInv => TypeOK
  BY DEF IInv
<1> QED
  BY <1>1, IInvInit, IInvStep, PTL DEF Spec

(* FAISS and BM25 hold the same text of a source between its requests,     *)
(* whatever the requests of other sources do, unless a fault, a crash or   *)
(* an overlap broke it and nothing has repaired it since.                  *)
THEOREM StoresStayTogether == Spec => []StoresAgree
<1>1. IInv => StoresAgree
  <2> SUFFICES ASSUME IInv, NEW i \in Ids \ broken, Active(i.url) = {}
               PROVE  \/ dense[i] = <<>> /\ lexical[i] = 0
                      \/ lexical[i] # 0 /\ dense[i] = <<lexical[i]>>
    BY DEF StoresAgree
  <2>1. \A q \in Procs : Working(q) => req[q].id # i
    BY DEF Active, Working
  <2> QED
    BY <2>1 DEF IInv, Data, Rest, Agree, Emptied
<1> QED
  BY <1>1, IInvInit, IInvStep, PTL DEF Spec

(* A URL is stored under one of its ids.                                   *)
THEOREM UrlHasOneId == Spec => []OneIdPerUrl
<1>1. IInv => OneIdPerUrl
  <2> SUFFICES ASSUME IInv, NEW u \in Urls, IdsOf(u) \cap broken = {}
               PROVE  Cardinality({i \in IdsOf(u) : Stored(i)}) <= 1
    BY DEF OneIdPerUrl
  <2> DEFINE stored == {i \in IdsOf(u) : Stored(i)}
  <2>1. ASSUME u \in OldUrls, Stored(Derived(u)), Stored(Random(u)) PROVE FALSE
    <3>1. Random(u) \in broken /\ Random(u) \in IdsOf(u)
      BY <2>1, TwoIds DEF IInv, Data, OneStored
    <3> QED
      BY <3>1
  <2>2. stored = {} \/ \E i : stored = {i}
    <3>1. CASE u \notin OldUrls
      BY <3>1, TwoIds
    <3>2. CASE u \in OldUrls
      <4>1. IdsOf(u) = {Derived(u), Random(u)}
        BY <3>2, TwoIds
      <4>2. CASE Stored(Derived(u))
        <5>1. stored = {Derived(u)}
          BY <2>1, <3>2, <4>1, <4>2
        <5> QED
          BY <5>1
      <4>3. CASE ~Stored(Derived(u)) /\ Stored(Random(u))
        <5>1. stored = {Random(u)}
          BY <4>1, <4>3
        <5> QED
          BY <5>1
      <4>4. CASE ~Stored(Derived(u)) /\ ~Stored(Random(u))
        BY <4>1, <4>4
      <4> QED
        BY <4>2, <4>3, <4>4
    <3> QED
      BY <3>1, <3>2
  <2> HIDE DEF stored
  <2>3. Cardinality(stored) = 0 \/ Cardinality(stored) = 1
    BY <2>2, FS_EmptySet, FS_Singleton
  <2> QED
    BY <2>3 DEF stored
<1> QED
  BY <1>1, IInvInit, IInvStep, PTL DEF Spec

(* What an undisturbed request relies on: it is alone on its source, and   *)
(* what the deduplicator knows of it is stored.                            *)
LEMMA UndisturbedIsAlone ==
  ASSUME IInv, NEW p \in Procs, Working(p), p \notin disturbed, ~Stored(req[p].id),
         pc[p] \notin Marking
  PROVE  \A mark \in seen : mark[1] # req[p].id
<1> SUFFICES ASSUME NEW mark \in seen, mark[1] = req[p].id PROVE FALSE
  OBVIOUS
<1>1. PICK q \in Procs : pc[q] \in Marking /\ req[q].id = mark[1]
  BY DEF IInv, Data, SeenIsStored
<1>2. q # p /\ Working(q)
  BY <1>1 DEF Marking, Working
<1> QED
  BY <1>1, <1>2 DEF IInv, Data, Overlap

(* A retry finds its text new, unless it met a fault or raced with another *)
(* request of the same source.                                             *)
THEOREM RetryIsNotSwallowed == Spec => NothingSwallowed
<1>1. IInv /\ [Next]_vars => [\A p \in Procs : DedupSkips(p) => p \in disturbed]_vars
  <2> SUFFICES ASSUME IInv, NEW p \in Procs, DedupSkips(p), p \notin disturbed PROVE FALSE
    OBVIOUS
  <2>1. pc[p] = "dedup" /\ <<req[p].id, req[p].doc>> \in seen
    BY DEF DedupSkips, Fingerprint
  <2>2. ~Stored(req[p].id)
    BY <2>1 DEF IInv, Data, Shapes, ShapeStores, Calm
  <2>3. Working(p) /\ pc[p] \notin Marking
    BY <2>1 DEF Working, Marking
  <2> QED
    BY <2>1, <2>2, <2>3, UndisturbedIsAlone
<1> QED
  BY <1>1, IInvInit, IInvStep, PTL DEF Spec, NothingSwallowed

(* After an undisturbed deletion neither store, nor the deduplicator, nor  *)
(* a card or a title names the source.                                     *)
THEOREM DeletionLeavesNothing == Spec => DeletionForgets
<1> DEFINE Forgets == \A p \in Procs, i \in Ids :
             pc[p] = "untitle" /\ i = req[p].id /\ p \notin disturbed /\ i \notin broken'
               /\ crashes' = crashes /\ pc'[p] = "idle"
             => Forgotten(i)'
<1>1. IInv /\ [Next]_vars => [Forgets]_vars
  <2> SUFFICES ASSUME IInv, Next, NEW p \in Procs, NEW i \in Ids,
                      pc[p] = "untitle", i = req[p].id, p \notin disturbed, i \notin broken',
                      crashes' = crashes, pc'[p] = "idle"
               PROVE  Forgotten(i)'
    BY DEF vars
  <2>1. pc \in [Procs -> PCs]
    BY DEF IInv, TypeOK
  <2>2. Untitle(p)
    <3>1. ~Crash
      <4>1. Crash => crashes' = crashes + 1 /\ crashes \in Nat
        BY DEF Crash, IInv, TypeOK
      <4> QED
        BY <4>1
    <3>2. ~Publish /\ \A j \in Ids : ~Name(j)
      BY DEF Publish, Name
    <3>3. ASSUME NEW q \in Procs, CallIngest(q) \/ CallDelete(q) PROVE FALSE
      <4>1. PICK l \in {"exists", "delDense"} : pc[q] = "idle" /\ pc' = [pc EXCEPT ![q] = l]
        BY <3>3 DEF CallIngest, CallDelete, Called, Becomes
      <4> QED
        BY <2>1, <4>1
    <3>4. ASSUME NEW q \in Procs, Step(q) PROVE q = p
      <4>1. \E l : pc' = [pc EXCEPT ![q] = l]
        <5>1. \A l, r : Goto(q, l) \/ Becomes(q, l, r) => pc' = [pc EXCEPT ![q] = l]
          BY DEF Goto, Becomes
        <5>2. Ends(q) \/ Repairs(q) \/ Breaks(q) \/ Errs(q) => Becomes(q, "idle", Nobody)
          BY Zenon DEF Ends, Repairs, Breaks, Errs, Leaves
        <5>3. \E l, r : Goto(q, l) \/ Becomes(q, l, r)
          BY <3>4, <5>2, Zenon DEF Step, Fails, SourceExists, AdoptLegacy, Recheck, Load, DeleteDense,
             DeleteLexical, DeleteReset, Unlink, Untitle, Dedup, DedupSkips, Embed, AddDense,
             AddLexical, LoadFails, EmbedFails, AddDenseFails, AddLexicalFails
        <5> QED
          BY <5>1, <5>3
      <4> QED
        BY <2>1, <4>1
    <3>5. Step(p)
      BY <3>1, <3>2, <3>3, <3>4 DEF Next
    <3> QED
      BY <3>5 DEF Step, Fails, SourceExists, AdoptLegacy, Recheck, Load, DeleteDense,
         DeleteLexical, DeleteReset, Unlink, Dedup, DedupSkips, Embed, AddDense,
         AddLexical, LoadFails, EmbedFails, AddDenseFails, AddLexicalFails
  <2>3. ShapeStores(p) /\ ShapeOther(p)
    BY DEF IInv, Data, Shapes
  <2>4. Emptied(i) /\ i \notin members
    BY <2>3 DEF ShapeStores, ShapeOther, Calm
  <2>5. \A mark \in seen : mark[1] # i
    <3>1. Working(p) /\ pc[p] \notin Marking /\ ~Stored(i)
      BY <2>4 DEF Working, Marking, Emptied, Stored
    <3> QED
      BY <3>1, UndisturbedIsAlone
  <2>6. dense' = dense /\ lexical' = lexical /\ seen' = seen /\ members' = members
    BY <2>2 DEF Untitle, stores
  <2>7. i \notin titles'
    <3>1. Breaks(p) => i \in broken'
      BY DEF Breaks
    <3> QED
      BY <2>2, <3>1 DEF Untitle
  <2> QED
    BY <2>4, <2>5, <2>6, <2>7 DEF Forgotten, Emptied
<1> QED
  BY <1>1, IInvInit, IInvStep, PTL DEF Spec, DeletionForgets
=============================================================================
