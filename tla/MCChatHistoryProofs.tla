------------------------ MODULE MCChatHistoryProofs ------------------------
(***************************************************************************)
(* What SQLite keeps, for any number of requests, projects, sessions,      *)
(* messages and sources: the theorems of MCChatHistory's invariants and    *)
(* action properties, each from the invariant of its own component.        *)
(***************************************************************************)
EXTENDS MCChatHistory, OrderLemmas, SequenceTheorems

-----------------------------------------------------------------------------
(* ChatHistory. *)

Creating == [kind : {"create"}, project : Projects]
Deleting == [kind : {"delete"}, project : Projects]
Adding == [kind : {"add"}, row : Row]

\* Where a request stands says what it is about.
Standing ==
  \A p \in Procs :
    /\ pc[p] = "idle" => req[p] = Nothing
    /\ pc[p] \in {"check", "insert"} => req[p] \in Creating
    /\ pc[p] \in {"purge", "drop"} => req[p] \in Deleting
    /\ pc[p] \in {"find", "append"} => req[p] \in Adding

\* Without a race and a fault a session is inserted only while its project
\* exists, and a project is dropped only when it has no session left.
Unraced ==
  /\ \A p, q \in Procs :
       pc[p] \in {"check", "insert"} /\ pc[q] \in {"purge", "drop"} =>
         req[p].project # req[q].project
  /\ \A p \in Procs : pc[p] = "insert" => req[p].project \in projects
  /\ \A p \in Procs : pc[p] = "drop" => \A s \in Sessions : sessions[s] # req[p].project
  /\ SessionsHaveProject

HistoryInv ==
  /\ TypeOK /\ Standing /\ MessagesHaveSession
  /\ ~raced /\ faults = 0 => Unraced

(* It holds at the start.                                                  *)
LEMMA HistoryInit == Init => HistoryInv
<1> SUFFICES ASSUME Init PROVE HistoryInv
  OBVIOUS
<1> USE NoneAssumption, BoundsAssumption
<1>1. DOMAIN log = {} /\ log \in [DOMAIN log -> Row]
  BY DEF Init
<1>2. TypeOK
  <2>1. pc \in [Procs -> PCs] /\ sessions \in [Sessions -> Projects \cup {None}]
    BY DEF Init, PCs
  <2>2. req \in [Procs -> {Nothing}]
    BY DEF Init
  <2>3. last \in Nat /\ faults \in 0..MaxFaults /\ crashes \in 0..MaxCrashes
    BY DEF Init
  <2> QED
    BY <1>1, <2>1, <2>2, <2>3 DEF Init, TypeOK
<1>3. Standing
  BY DEF Init, Standing
<1>4. MessagesHaveSession
  BY <1>1 DEF MessagesHaveSession
<1>5. Unraced
  BY DEF Init, Unraced, SessionsHaveProject
<1> QED
  BY <1>2, <1>3, <1>4, <1>5 DEF HistoryInv

\* The bodies of a request that is under way or of none.
Requests == {Nothing} \cup [kind : {"create", "delete"}, project : Projects]
              \cup [kind : {"add"}, row : Row]

LEMMA RequestsAre ==
  /\ Nothing \in Requests /\ Creating \subseteq Requests
  /\ Deleting \subseteq Requests /\ Adding \subseteq Requests
  /\ \A r \in Creating : r.kind = "create" /\ r.project \in Projects
  /\ \A r \in Deleting : r.kind = "delete" /\ r.project \in Projects
  /\ \A r \in Adding : r.kind = "add" /\ r.row \in Row
BY DEF Requests, Creating, Deleting, Adding

(* A request that moves on or ends.                                        *)
LEMMA Moves ==
  ASSUME NEW p \in Procs, pc \in [Procs -> PCs], req \in [Procs -> Requests]
  PROVE  /\ \A l \in PCs : Goto(p, l) =>
              /\ pc' \in [Procs -> PCs] /\ req' = req
              /\ pc'[p] = l /\ \A q \in Procs : q # p => pc'[q] = pc[q]
         /\ Ends(p) =>
              /\ pc' \in [Procs -> PCs] /\ req' \in [Procs -> Requests]
              /\ pc'[p] = "idle" /\ req'[p] = Nothing
              /\ \A q \in Procs : q # p => pc'[q] = pc[q] /\ req'[q] = req[q]
         /\ \A r \in Requests, l \in PCs :
              pc' = [pc EXCEPT ![p] = l] /\ req' = [req EXCEPT ![p] = r] =>
              /\ pc' \in [Procs -> PCs] /\ req' \in [Procs -> Requests]
              /\ pc'[p] = l /\ req'[p] = r
              /\ \A q \in Procs : q # p => pc'[q] = pc[q] /\ req'[q] = req[q]
<1>1. "idle" \in PCs /\ Nothing \in Requests
  BY RequestsAre DEF PCs
<1> QED
  BY <1>1 DEF Goto, Ends

\* What the steps of a request leave of the invariant to show.
StepOf(p) ==
  /\ pc' \in [Procs -> PCs] /\ req' \in [Procs -> Requests]
  /\ \A q \in Procs : q # p => pc'[q] = pc[q] /\ req'[q] = req[q]

(* Standing goes on if the request that moves stands where it says.        *)
LEMMA StandingGoesOn ==
  ASSUME NEW p \in Procs, Standing, StepOf(p),
         \/ pc'[p] = "idle" /\ req'[p] = Nothing
         \/ pc'[p] \in {"check", "insert"} /\ req'[p] \in Creating
         \/ pc'[p] \in {"purge", "drop"} /\ req'[p] \in Deleting
         \/ pc'[p] \in {"find", "append"} /\ req'[p] \in Adding
  PROVE  Standing'
<1> SUFFICES ASSUME NEW q \in Procs
             PROVE  /\ pc'[q] = "idle" => req'[q] = Nothing
                    /\ pc'[q] \in {"check", "insert"} => req'[q] \in Creating
                    /\ pc'[q] \in {"purge", "drop"} => req'[q] \in Deleting
                    /\ pc'[q] \in {"find", "append"} => req'[q] \in Adding
  BY DEF Standing, Creating, Deleting, Adding, Row, Statuses, Nothing
<1>1. CASE q = p
  BY <1>1
<1>2. CASE q # p
  BY <1>2 DEF Standing, StepOf
<1> QED
  BY <1>1, <1>2

(* The messages' part of the types.                                        *)
LogTyped ==
  last \in Nat /\ DOMAIN log \subseteq 1..last /\ log \in [DOMAIN log -> Row]

LEMMA TypesAre ==
  TypeOK <=> /\ projects \subseteq Projects /\ issued \subseteq Projects \cup Sessions
             /\ sessions \in [Sessions -> Projects \cup {None}]
             /\ LogTyped
             /\ pc \in [Procs -> PCs] /\ req \in [Procs -> Requests]
             /\ raced \in BOOLEAN /\ faults \in 0..MaxFaults /\ crashes \in 0..MaxCrashes
BY DEF TypeOK, LogTyped, Requests

(* Taking rows out leaves the others as they are.                          *)
LEMMA WithoutKeeps ==
  ASSUME LogTyped, NEW gone, log' = Without(gone), last' = last
  PROVE  /\ LogTyped'
         /\ \A n \in DOMAIN log' : /\ n \in DOMAIN log /\ log'[n] = log[n]
                                   /\ log[n].session \notin gone
BY DEF LogTyped, Without

(* A project is created, a session deleted, a message updated; a restart.   *)
LEMMA QuietSteps ==
  ASSUME HistoryInv, CreateProject \/ DeleteSession \/ UpdateMessage \/ Crash
  PROVE  HistoryInv'
<1> USE NoneAssumption, BoundsAssumption
<1>1. CASE CreateProject
  <2>1. PICK x \in Projects \ issued :
          /\ projects' = projects \cup {x} /\ issued' = issued \cup {x}
          /\ UNCHANGED <<sessions, log, last, pc, req, raced, faults, crashes>>
    BY <1>1 DEF CreateProject
  <2>2. TypeOK'
    BY <2>1 DEF HistoryInv, TypesAre, TypeOK
  <2>3. Standing' /\ MessagesHaveSession'
    BY <2>1 DEF HistoryInv, Standing, MessagesHaveSession
  <2>4. Unraced => Unraced'
    BY <2>1 DEF Unraced, SessionsHaveProject
  <2> QED
    BY <2>1, <2>2, <2>3, <2>4 DEF HistoryInv
<1>2. CASE DeleteSession
  <2>1. PICK s \in Sessions :
          /\ sessions' = [sessions EXCEPT ![s] = None] /\ log' = Without({s})
          /\ UNCHANGED <<projects, last, issued, pc, req, raced, faults, crashes>>
    BY <1>2 DEF DeleteSession
  <2>2. LogTyped /\ sessions \in [Sessions -> Projects \cup {None}]
    BY TypesAre DEF HistoryInv
  <2>3. /\ LogTyped'
        /\ \A n \in DOMAIN log' : /\ n \in DOMAIN log /\ log'[n] = log[n]
                                  /\ log[n].session # s /\ log[n].session \in Sessions
    BY <2>1, <2>2, WithoutKeeps DEF LogTyped, Row
  <2>4. sessions' \in [Sessions -> Projects \cup {None}] /\ sessions'[s] = None
        /\ \A t \in Sessions : t # s => sessions'[t] = sessions[t]
    BY <2>1, <2>2
  <2>5. TypeOK'
    BY <2>1, <2>3, <2>4, TypesAre DEF HistoryInv, TypeOK, LogTyped
  <2>6. Standing'
    BY <2>1 DEF HistoryInv, Standing
  <2>7. MessagesHaveSession'
    BY <2>3, <2>4 DEF HistoryInv, MessagesHaveSession
  <2>8. Unraced => Unraced'
    <3> SUFFICES ASSUME Unraced PROVE Unraced'
      OBVIOUS
    <3>1. \A p \in Procs : pc[p] = "drop" => req[p].project # None
      BY RequestsAre DEF HistoryInv, Standing
    <3> QED
      BY <2>1, <2>4, <3>1 DEF Unraced, SessionsHaveProject
  <2> QED
    BY <2>1, <2>5, <2>6, <2>7, <2>8 DEF HistoryInv
<1>3. CASE UpdateMessage
  <2>1. PICK n \in DOMAIN log : \E st \in Statuses :
          /\ log' = [log EXCEPT ![n].status = st]
          /\ UNCHANGED <<projects, sessions, last, issued, pc, req, raced, faults, crashes>>
    BY <1>3 DEF UpdateMessage
  <2>2. PICK st \in Statuses : log' = [log EXCEPT ![n].status = st]
    BY <2>1
  <2>3. LogTyped
    BY TypesAre DEF HistoryInv
  <2>4. log[n] \in Row /\ [log[n] EXCEPT !.status = st] \in Row
        /\ [log[n] EXCEPT !.status = st].session = log[n].session
    BY <2>2, <2>3 DEF LogTyped, Row
  <2>5. DOMAIN log' = DOMAIN log /\ log' \in [DOMAIN log -> Row]
        /\ \A m \in DOMAIN log : log'[m].session = log[m].session
    BY <2>2, <2>3, <2>4 DEF LogTyped
  <2>6. TypeOK'
    BY <2>1, <2>3, <2>5, TypesAre DEF HistoryInv, TypeOK, LogTyped
  <2>7. Standing' /\ MessagesHaveSession'
    BY <2>1, <2>5 DEF HistoryInv, Standing, MessagesHaveSession
  <2>8. Unraced => Unraced'
    BY <2>1 DEF Unraced, SessionsHaveProject
  <2> QED
    BY <2>1, <2>6, <2>7, <2>8 DEF HistoryInv
<1>4. CASE Crash
  <2>1. /\ pc' = [p \in Procs |-> "idle"] /\ req' = [p \in Procs |-> Nothing]
        /\ UNCHANGED <<projects, sessions, log, last, issued, raced, faults>>
        /\ crashes' \in 0..MaxCrashes
    BY <1>4 DEF Crash, HistoryInv, TypeOK
  <2>2. pc' \in [Procs -> PCs] /\ req' \in [Procs -> Requests]
    BY <2>1, RequestsAre DEF PCs
  <2>3. TypeOK'
    BY <2>1, <2>2, TypesAre DEF HistoryInv, TypeOK, Requests
  <2>4. Standing' /\ MessagesHaveSession'
    BY <2>1 DEF HistoryInv, Standing, MessagesHaveSession
  <2>5. Unraced => Unraced'
    BY <2>1 DEF Unraced, SessionsHaveProject
  <2> QED
    BY <2>1, <2>3, <2>4, <2>5 DEF HistoryInv
<1> QED
  BY <1>1, <1>2, <1>3, <1>4

(* A request is accepted.  Where a creation and a deletion of one project  *)
(* are under way together, raced says so.                                  *)
LEMMA CallStep ==
  ASSUME NEW p \in Procs, HistoryInv, Call(p)
  PROVE  HistoryInv'
<1>1. PICK r, l :
        /\ Called(p, r, l)
        /\ \/ r \in Creating /\ l = "check"
           \/ r \in Deleting /\ l = "purge"
           \/ r \in Adding /\ l = "find"
  <2>1. ASSUME NEW x \in Projects
        PROVE  [kind |-> "create", project |-> x] \in Creating
               /\ [kind |-> "delete", project |-> x] \in Deleting
    BY DEF Creating, Deleting
  <2>2. ASSUME NEW s \in Sessions, NEW m \in Messages, NEW st \in Statuses
        PROVE  [kind |-> "add", row |-> [id |-> m, session |-> s, status |-> st]] \in Adding
    BY DEF Adding, Row
  <2> QED
    BY <2>1, <2>2 DEF Call
<1>2. /\ pc[p] = "idle" /\ pc' = [pc EXCEPT ![p] = l] /\ req' = [req EXCEPT ![p] = r]
      /\ raced' = (raced \/ Opposed(r))
      /\ UNCHANGED <<projects, sessions, log, last, issued, faults, crashes>>
  BY <1>1 DEF Called
<1>3. /\ r \in Requests /\ l \in PCs
      /\ pc \in [Procs -> PCs] /\ req \in [Procs -> Requests]
  BY <1>1, RequestsAre, TypesAre DEF HistoryInv, PCs
<1>4. StepOf(p) /\ pc'[p] = l /\ req'[p] = r
  BY <1>2, <1>3, Moves DEF StepOf
<1>5. raced' \in BOOLEAN /\ (~raced' => ~raced /\ ~Opposed(r))
  BY <1>2 DEF HistoryInv, TypeOK
<1>6. TypeOK'
  BY <1>2, <1>4, <1>5, TypesAre DEF HistoryInv, TypeOK, StepOf, Requests
<1>7. Standing'
  BY <1>1, <1>4, StandingGoesOn DEF HistoryInv
<1>8. MessagesHaveSession'
  BY <1>2 DEF HistoryInv, MessagesHaveSession
<1>9. ASSUME Unraced, ~Opposed(r) PROVE Unraced'
  <2>1. ASSUME NEW a \in Procs, NEW b \in Procs,
               pc'[a] \in {"check", "insert"}, pc'[b] \in {"purge", "drop"}
        PROVE  req'[a].project # req'[b].project
    <3>1. a # b
      BY <2>1
    <3>2. CASE a # p /\ b # p
      BY <2>1, <3>2, <1>4, <1>9 DEF StepOf, Unraced
    <3>3. CASE a = p
      <4>1. r.kind = "create" /\ pc[b] \in {"purge", "drop"} /\ req'[b] = req[b]
        BY <1>1, <1>4, <2>1, <3>1, <3>3, RequestsAre DEF StepOf
      <4>2. req[b].kind = "delete"
        BY <4>1, RequestsAre DEF HistoryInv, Standing
      <4>3. req[b].project # r.project
        BY <1>9, <4>1, <4>2 DEF Opposed
      <4> QED
        BY <1>4, <3>3, <4>1, <4>3
    <3>4. CASE b = p
      <4>1. r.kind = "delete" /\ pc[a] \in {"check", "insert"} /\ req'[a] = req[a]
        BY <1>1, <1>4, <2>1, <3>1, <3>4, RequestsAre DEF StepOf
      <4>2. req[a].kind = "create"
        BY <4>1, RequestsAre DEF HistoryInv, Standing
      <4>3. req[a].project # r.project
        BY <1>9, <4>1, <4>2 DEF Opposed
      <4> QED
        BY <1>4, <3>4, <4>1, <4>3
    <3> QED
      BY <3>2, <3>3, <3>4
  <2>2. ASSUME NEW a \in Procs, pc'[a] \in {"insert", "drop"}
        PROVE  pc[a] = pc'[a] /\ req'[a] = req[a]
    BY <1>1, <1>4, <2>2 DEF StepOf
  <2> QED
    BY <1>2, <1>9, <2>1, <2>2 DEF Unraced, SessionsHaveProject
<1> QED
  BY <1>2, <1>5, <1>6, <1>7, <1>8, <1>9 DEF HistoryInv

(* A session is created, in two databases and two awaits.                  *)
LEMMA CreateSteps ==
  ASSUME NEW p \in Procs, HistoryInv, CheckProject(p) \/ InsertSession(p)
  PROVE  HistoryInv'
<1> USE NoneAssumption
<1>1. pc \in [Procs -> PCs] /\ req \in [Procs -> Requests]
      /\ sessions \in [Sessions -> Projects \cup {None}]
  BY TypesAre DEF HistoryInv
<1>2. CASE CheckProject(p)
  <2>1. /\ pc[p] = "check" /\ req[p] \in Creating
        /\ UNCHANGED <<projects, sessions, log, last, issued, raced, faults, crashes>>
        /\ \/ req[p].project \in projects /\ Goto(p, "insert")
           \/ Ends(p)
    BY <1>2 DEF CheckProject, HistoryInv, Standing
  <2>2. /\ StepOf(p)
        /\ \/ pc'[p] = "insert" /\ req'[p] = req[p] /\ req[p].project \in projects
           \/ pc'[p] = "idle" /\ req'[p] = Nothing
    BY <1>1, <2>1, Moves DEF StepOf, PCs
  <2>3. TypeOK'
    BY <2>1, <2>2, TypesAre DEF HistoryInv, TypeOK, StepOf, Requests
  <2>4. Standing'
    BY <2>1, <2>2, StandingGoesOn DEF HistoryInv
  <2>5. MessagesHaveSession'
    BY <2>1 DEF HistoryInv, MessagesHaveSession
  <2>6. Unraced => Unraced'
    BY <2>1, <2>2 DEF Unraced, SessionsHaveProject, StepOf
  <2> QED
    BY <2>1, <2>3, <2>4, <2>5, <2>6 DEF HistoryInv
<1>3. CASE InsertSession(p)
  <2>1. PICK s \in Sessions \ issued :
          /\ sessions' = [sessions EXCEPT ![s] = req[p].project]
          /\ issued' = issued \cup {s}
    BY <1>3 DEF InsertSession
  <2>2. /\ pc[p] = "insert" /\ req[p] \in Creating /\ Ends(p)
        /\ UNCHANGED <<projects, log, last, raced, faults, crashes>>
    BY <1>3 DEF InsertSession, HistoryInv, Standing
  <2>3. req[p].project \in Projects
    BY <2>2, RequestsAre
  <2>4. /\ sessions' \in [Sessions -> Projects \cup {None}]
        /\ sessions'[s] = req[p].project /\ sessions'[s] # None
        /\ \A t \in Sessions : t # s => sessions'[t] = sessions[t]
    BY <1>1, <2>1, <2>3
  <2>5. StepOf(p) /\ pc'[p] = "idle" /\ req'[p] = Nothing
    BY <1>1, <2>2, Moves DEF StepOf
  <2>6. TypeOK'
    BY <2>1, <2>2, <2>4, <2>5, TypesAre DEF HistoryInv, TypeOK, StepOf, Requests
  <2>7. Standing'
    BY <2>5, StandingGoesOn DEF HistoryInv
  <2>8. MessagesHaveSession'
    <3>1. \A n \in DOMAIN log : log[n].session \in Sessions
      BY TypesAre DEF HistoryInv, LogTyped, Row
    <3> QED
      BY <2>2, <2>4, <3>1 DEF HistoryInv, MessagesHaveSession
  <2>9. Unraced => Unraced'
    BY <2>2, <2>4, <2>5 DEF Unraced, SessionsHaveProject, StepOf
  <2> QED
    BY <2>2, <2>6, <2>7, <2>8, <2>9 DEF HistoryInv
<1> QED
  BY <1>2, <1>3

(* A project is deleted, in two databases; either may refuse.              *)
LEMMA DeleteSteps ==
  ASSUME NEW p \in Procs, HistoryInv, Purge(p) \/ DropProject(p)
  PROVE  HistoryInv'
<1> USE NoneAssumption, BoundsAssumption
<1>1. pc \in [Procs -> PCs] /\ req \in [Procs -> Requests] /\ LogTyped
      /\ sessions \in [Sessions -> Projects \cup {None}] /\ faults \in 0..MaxFaults
  BY TypesAre DEF HistoryInv
<1>2. Fault => faults' \in 0..MaxFaults /\ faults' # 0
  BY <1>1 DEF Fault
<1>3. CASE Purge(p)
  <2> DEFINE x == req[p].project
  <2>1. /\ pc[p] = "purge" /\ req[p] \in Deleting /\ Goto(p, "drop")
        /\ UNCHANGED <<projects, last, issued, raced, crashes>>
        /\ \/ /\ sessions' = [s \in Sessions |-> IF sessions[s] = x THEN None ELSE sessions[s]]
              /\ log' = Without(SessionsOf(x)) /\ faults' = faults
           \/ Fault /\ UNCHANGED <<sessions, log>>
    BY <1>3 DEF Purge, HistoryInv, Standing
  <2>2. x \in Projects /\ x # None
    BY <2>1, RequestsAre
  <2>3. StepOf(p) /\ pc'[p] = "drop" /\ req'[p] = req[p]
    BY <1>1, <2>1, Moves DEF StepOf, PCs
  <2>4. Standing'
    BY <2>1, <2>3, StandingGoesOn DEF HistoryInv
  <2>5. CASE Fault /\ UNCHANGED <<sessions, log>>
    <3>1. TypeOK'
      BY <1>2, <2>1, <2>3, <2>5, TypesAre DEF HistoryInv, TypeOK, StepOf, Requests
    <3>2. MessagesHaveSession'
      BY <2>5 DEF HistoryInv, MessagesHaveSession
    <3> QED
      BY <1>2, <2>4, <2>5, <3>1, <3>2 DEF HistoryInv
  <2>6. CASE /\ sessions' = [s \in Sessions |-> IF sessions[s] = x THEN None ELSE sessions[s]]
             /\ log' = Without(SessionsOf(x)) /\ faults' = faults
    <3>1. /\ LogTyped'
          /\ \A n \in DOMAIN log' : /\ n \in DOMAIN log /\ log'[n] = log[n]
                                    /\ log[n].session \notin SessionsOf(x)
      BY <1>1, <2>1, <2>6, WithoutKeeps
    <3>2. /\ sessions' \in [Sessions -> Projects \cup {None}]
          /\ \A s \in Sessions : /\ sessions[s] = x => sessions'[s] = None
                                 /\ sessions[s] # x => sessions'[s] = sessions[s]
      BY <1>1, <2>6
    <3>3. TypeOK'
      BY <1>1, <2>1, <2>3, <2>6, <3>1, <3>2, TypesAre
         DEF HistoryInv, TypeOK, StepOf, Requests, LogTyped
    <3>4. MessagesHaveSession'
      <4>1. \A n \in DOMAIN log : log[n].session \in Sessions
        BY <1>1 DEF LogTyped, Row
      <4> QED
        BY <3>1, <3>2, <4>1 DEF HistoryInv, MessagesHaveSession, SessionsOf
    <3>5. Unraced => Unraced'
      <4> SUFFICES ASSUME Unraced PROVE Unraced'
        OBVIOUS
      <4>1. \A q \in Procs : pc'[q] = "drop" => \A s \in Sessions : sessions'[s] # req'[q].project
        <5> SUFFICES ASSUME NEW q \in Procs, pc'[q] = "drop", NEW s \in Sessions
                     PROVE  sessions'[s] # req'[q].project
          OBVIOUS
        <5>1. req'[q] \in Deleting /\ req'[q].project # None
          BY <2>4, RequestsAre DEF Standing, Deleting, Creating, Adding
        <5>2. CASE q = p
          BY <2>2, <2>3, <3>2, <5>2
        <5>3. CASE q # p
          BY <2>3, <3>2, <5>1, <5>3 DEF Unraced, StepOf
        <5> QED
          BY <5>2, <5>3
      <4>2. SessionsHaveProject'
        BY <2>1, <3>2 DEF Unraced, SessionsHaveProject
      <4>3. /\ \A q, r \in Procs :
                 pc'[q] \in {"check", "insert"} /\ pc'[r] \in {"purge", "drop"} =>
                   req'[q].project # req'[r].project
            /\ \A q \in Procs : pc'[q] = "insert" => req'[q].project \in projects'
        BY <2>1, <2>3 DEF Unraced, StepOf
      <4> QED
        BY <4>1, <4>2, <4>3 DEF Unraced
    <3> QED
      BY <2>1, <2>4, <2>6, <3>3, <3>4, <3>5 DEF HistoryInv
  <2> QED
    BY <2>1, <2>5, <2>6
<1>4. CASE DropProject(p)
  <2>1. /\ pc[p] = "drop" /\ req[p] \in Deleting /\ Ends(p)
        /\ UNCHANGED <<sessions, log, last, issued, raced, crashes>>
        /\ \/ projects' = projects \ {req[p].project} /\ faults' = faults
           \/ Fault /\ projects' = projects
    BY <1>4 DEF DropProject, HistoryInv, Standing
  <2>2. StepOf(p) /\ pc'[p] = "idle" /\ req'[p] = Nothing
    BY <1>1, <2>1, Moves DEF StepOf
  <2>3. TypeOK'
    BY <1>1, <1>2, <2>1, <2>2, TypesAre DEF HistoryInv, TypeOK, StepOf, Requests
  <2>4. Standing'
    BY <2>2, StandingGoesOn DEF HistoryInv
  <2>5. MessagesHaveSession'
    BY <2>1 DEF HistoryInv, MessagesHaveSession
  <2>6. ASSUME Unraced, projects' = projects \ {req[p].project} PROVE Unraced'
    <3>1. \A q \in Procs : pc'[q] = "insert" => req'[q].project \in projects'
      <4> SUFFICES ASSUME NEW q \in Procs, pc'[q] = "insert" PROVE req'[q].project \in projects'
        OBVIOUS
      <4>1. q # p /\ pc[q] = "insert" /\ req'[q] = req[q]
        BY <2>2 DEF StepOf
      <4>2. req[q].project # req[p].project
        BY <2>1, <2>6, <4>1 DEF Unraced
      <4> QED
        BY <2>6, <4>1, <4>2 DEF Unraced
    <3>2. SessionsHaveProject'
      BY <2>1, <2>6 DEF Unraced, SessionsHaveProject
    <3>3. /\ \A q, r \in Procs :
               pc'[q] \in {"check", "insert"} /\ pc'[r] \in {"purge", "drop"} =>
                 req'[q].project # req'[r].project
          /\ \A q \in Procs : pc'[q] = "drop" => \A s \in Sessions : sessions'[s] # req'[q].project
      BY <2>1, <2>2, <2>6 DEF Unraced, StepOf
    <3> QED
      BY <3>1, <3>2, <3>3 DEF Unraced
  <2> QED
    BY <1>2, <2>1, <2>3, <2>4, <2>5, <2>6 DEF HistoryInv
<1> QED
  BY <1>3, <1>4

(* A message is added: the session is looked for, and the row is written   *)
(* only where the session still is and the id is new.                      *)
LEMMA AddSteps ==
  ASSUME NEW p \in Procs, HistoryInv, FindSession(p) \/ AppendMessage(p)
  PROVE  HistoryInv'
<1>1. pc \in [Procs -> PCs] /\ req \in [Procs -> Requests] /\ LogTyped
  BY TypesAre DEF HistoryInv
<1>2. CASE FindSession(p)
  <2>1. /\ pc[p] = "find" /\ req[p] \in Adding
        /\ UNCHANGED <<projects, sessions, log, last, issued, raced, faults, crashes>>
        /\ Goto(p, "append") \/ Ends(p)
    BY <1>2 DEF FindSession, HistoryInv, Standing
  <2>2. /\ StepOf(p)
        /\ \/ pc'[p] = "append" /\ req'[p] = req[p]
           \/ pc'[p] = "idle" /\ req'[p] = Nothing
    BY <1>1, <2>1, Moves DEF StepOf, PCs
  <2>3. TypeOK'
    BY <2>1, <2>2, TypesAre DEF HistoryInv, TypeOK, StepOf, Requests
  <2>4. Standing'
    BY <2>1, <2>2, StandingGoesOn DEF HistoryInv
  <2>5. MessagesHaveSession' /\ (Unraced => Unraced')
    BY <2>1, <2>2 DEF HistoryInv, MessagesHaveSession, Unraced, SessionsHaveProject, StepOf
  <2> QED
    BY <2>1, <2>3, <2>4, <2>5 DEF HistoryInv
<1>3. CASE AppendMessage(p)
  <2> DEFINE row == req[p].row
  <2>1. /\ pc[p] = "append" /\ req[p] \in Adding /\ Ends(p)
        /\ UNCHANGED <<projects, sessions, issued, raced, faults, crashes>>
        /\ \/ sessions[row.session] # None /\ Written(row, DOMAIN log)
           \/ UNCHANGED <<log, last>>
    BY <1>3 DEF AppendMessage, HistoryInv, Standing
  <2>2. row \in Row
    BY <2>1, RequestsAre
  <2>3. StepOf(p) /\ pc'[p] = "idle" /\ req'[p] = Nothing
    BY <1>1, <2>1, Moves DEF StepOf
  <2>4. Standing'
    BY <2>3, StandingGoesOn DEF HistoryInv
  <2>5. Unraced => Unraced'
    BY <2>1, <2>3 DEF Unraced, SessionsHaveProject, StepOf
  <2>6. LogTyped' /\ MessagesHaveSession'
    <3>1. CASE UNCHANGED <<log, last>>
      BY <1>1, <2>1, <3>1 DEF LogTyped, HistoryInv, MessagesHaveSession
    <3>2. CASE sessions[row.session] # None /\ Written(row, DOMAIN log)
      <4> HIDE DEF row
      <4>1. /\ last' = last + 1 /\ DOMAIN log' = DOMAIN log \cup {last'}
            /\ log'[last'] = row /\ \A n \in DOMAIN log : n # last' => log'[n] = log[n]
        BY <3>2 DEF Written
      <4>2. last' \notin DOMAIN log /\ last' \in Nat /\ DOMAIN log' \subseteq 1..last'
        BY <1>1, <4>1 DEF LogTyped
      <4>3. log' \in [DOMAIN log' -> Row]
        BY <1>1, <2>2, <3>2, <4>1 DEF LogTyped, Written
      <4>4. MessagesHaveSession'
        BY <2>1, <3>2, <4>1, <4>2 DEF HistoryInv, MessagesHaveSession
      <4> QED
        BY <4>2, <4>3, <4>4 DEF LogTyped
    <3> QED
      BY <2>1, <3>1, <3>2
  <2>7. TypeOK'
    BY <2>1, <2>3, <2>6, TypesAre DEF HistoryInv, TypeOK, StepOf, Requests, LogTyped
  <2> QED
    BY <2>1, <2>4, <2>5, <2>6, <2>7 DEF HistoryInv
<1> QED
  BY <1>2, <1>3

(* Every step keeps it.                                                    *)
LEMMA HistoryStep == HistoryInv /\ [Next]_vars => HistoryInv'
<1> SUFFICES ASSUME HistoryInv, [Next]_vars PROVE HistoryInv'
  OBVIOUS
<1>1. CASE UNCHANGED vars
  BY <1>1 DEF vars, HistoryInv, TypeOK, Standing, MessagesHaveSession, Unraced,
              SessionsHaveProject, Creating, Deleting, Adding
<1> QED
  BY <1>1, QuietSteps, CallStep, CreateSteps, DeleteSteps, AddSteps DEF Next

(* History is append-only: a session that is there before and after a step *)
(* keeps its messages and their places, and a new one comes last.          *)
LEMMA HistoryAppends == HistoryInv /\ [Next]_vars => Appends
<1> SUFFICES ASSUME HistoryInv, [Next]_vars, NEW s \in Sessions,
                    sessions[s] # None, sessions'[s] # None
             PROVE  /\ \A n \in Rows(s) : n \in Rows(s)' /\ log'[n].id = log[n].id
                    /\ \A n \in Rows(s), new \in Rows(s)' \ Rows(s) : n < new
  BY DEF Appends
<1>1. LogTyped
  BY TypesAre DEF HistoryInv
<1>2. CASE log' = log
  BY <1>2 DEF Rows
<1>3. ASSUME NEW gone, log' = Without(gone), s \notin gone
      PROVE  /\ \A n \in Rows(s) : n \in Rows(s)' /\ log'[n].id = log[n].id
             /\ Rows(s)' \subseteq Rows(s)
  BY <1>3 DEF Rows, Without
<1>4. CASE DeleteSession
  <2>1. PICK t \in Sessions : sessions' = [sessions EXCEPT ![t] = None] /\ log' = Without({t})
    BY <1>4 DEF DeleteSession
  <2>2. s # t
    BY <2>1, TypesAre DEF HistoryInv
  <2> QED
    BY <1>3, <2>1, <2>2
<1>5. ASSUME NEW p \in Procs, Purge(p), log' # log
      PROVE  log' = Without(SessionsOf(req[p].project)) /\ s \notin SessionsOf(req[p].project)
  BY <1>5 DEF Purge, SessionsOf
<1>6. CASE UpdateMessage
  <2>1. PICK n \in DOMAIN log : \E st \in Statuses : log' = [log EXCEPT ![n].status = st]
    BY <1>6 DEF UpdateMessage
  <2>2. PICK st \in Statuses : log' = [log EXCEPT ![n].status = st]
    BY <2>1
  <2>3. /\ DOMAIN log' = DOMAIN log
        /\ \A m \in DOMAIN log : log'[m].session = log[m].session /\ log'[m].id = log[m].id
    BY <1>1, <2>2 DEF LogTyped, Row
  <2> QED
    BY <2>3 DEF Rows
<1>7. ASSUME NEW p \in Procs, AppendMessage(p), log' # log
      PROVE  /\ \A n \in Rows(s) : n \in Rows(s)' /\ log'[n].id = log[n].id
             /\ \A n \in Rows(s), new \in Rows(s)' \ Rows(s) : n < new
  <2>1. PICK row : Written(row, DOMAIN log)
    BY <1>7 DEF AppendMessage
  <2>2. /\ last' = last + 1 /\ DOMAIN log' = DOMAIN log \cup {last'}
        /\ \A n \in DOMAIN log : n # last' => log'[n] = log[n]
    BY <2>1 DEF Written
  <2>3. last' \notin DOMAIN log /\ \A n \in DOMAIN log : n < last'
    BY <1>1, <2>2 DEF LogTyped
  <2>4. \A n \in DOMAIN log : log'[n] = log[n]
    BY <2>2, <2>3
  <2> QED
    BY <2>2, <2>3, <2>4 DEF Rows
<1>8. \/ log' = log \/ DeleteSession \/ UpdateMessage
      \/ \E p \in Procs : Purge(p) \/ AppendMessage(p)
  BY DEF Next, vars, CreateProject, Crash, Call, Called, CheckProject, InsertSession,
         DropProject, FindSession
<1> QED
  BY <1>2, <1>3, <1>4, <1>5, <1>6, <1>7, <1>8

-----------------------------------------------------------------------------
(* ProjectLibrary. *)

\* Where a request stands says what it is about.
CardStands(p) ==
  /\ lpc[p] \in {"inventory", "list", "adopt", "relist", "prune"} => lreq[p].kind = "list"
  /\ lpc[p] \in {"find", "insert"} =>
       lreq[p].kind \in {"attach", "list"} /\ lreq[p].project # None /\ lreq[p].source # None
  /\ lpc[p] \in {"adopt", "find", "insert"} => lreq[p].todo \subseteq Sources

\* A source is attached to a project that is there or went meanwhile.
AttachesToOne(p) == lpc[p] = "insert" => lreq[p].project \in cards \cup torn

\* What an inventory lacks was ingested after it was read, and only what it
\* lacks is pruned.
KnowsWhatArrived(p) ==
  /\ lreq[p].kind = "list" /\ lpc[p] # "inventory" /\ lreq[p].inventory # {} =>
       live \subseteq lreq[p].inventory \cup lreq[p].arrived
  /\ lpc[p] = "prune" => \A row \in lreq[p].todo :
       lreq[p].inventory # {} /\ row[2] \notin lreq[p].inventory

CardRequest(p) == CardStands(p) /\ AttachesToOne(p) /\ KnowsWhatArrived(p)

LibraryInv ==
  /\ Library!TypeOK /\ Library!MembersHaveProject
  /\ \A p \in Procs : CardRequest(p)

(* It holds at the start.                                                  *)
LEMMA LibraryInit == Library!Init => LibraryInv
<1> SUFFICES ASSUME Library!Init PROVE LibraryInv
  OBVIOUS
<1> USE DEF Library!Init, Library!Nothing
<1>1. Library!Nothing \in Library!Requests
  BY DEF Library!Requests
<1>2. lpc \in [Procs -> Library!PCs] /\ lreq \in [Procs -> Library!Requests]
  BY <1>1 DEF Library!PCs
<1>3. lcrashes \in 0..MaxCrashes
  BY BoundsAssumption
<1>4. Library!TypeOK
  BY <1>2, <1>3 DEF Library!TypeOK
<1>5. Library!MembersHaveProject
  BY DEF Library!MembersHaveProject
<1>6. ASSUME NEW p \in Procs PROVE CardRequest(p)
  BY DEF CardRequest, CardStands, AttachesToOne, KnowsWhatArrived
<1> QED
  BY <1>4, <1>5, <1>6 DEF LibraryInv

(* A request of the library that moves.                                    *)
LEMMA CardMoves ==
  ASSUME NEW p \in Procs, lpc \in [Procs -> Library!PCs], lreq \in [Procs -> Library!Requests],
         NEW l \in Library!PCs, NEW r \in Library!Requests, Library!Becomes(p, l, r)
  PROVE  /\ lpc' \in [Procs -> Library!PCs] /\ lreq' \in [Procs -> Library!Requests]
         /\ lpc'[p] = l /\ lreq'[p] = r
         /\ \A q \in Procs : q # p => lpc'[q] = lpc[q] /\ lreq'[q] = lreq[q]
BY DEF Library!Becomes

(* A request that does not move stands where it stood, whatever source went *)
(* and whatever project came, or went while a source was being attached.   *)
LEMMA CardWaits ==
  ASSUME NEW q \in Procs, CardRequest(q), lpc'[q] = lpc[q], lreq'[q] = lreq[q],
         live' \subseteq live,
         lpc[q] = "insert" /\ lreq[q].project \in cards \cup torn
           => lreq[q].project \in cards' \cup torn'
  PROVE  CardRequest(q)'
BY DEF CardRequest, CardStands, AttachesToOne, KnowsWhatArrived

(* The steps that move no request: a project is created or dropped, a row  *)
(* detached, a source ingested; a restart.                                 *)
LEMMA CardQuietSteps ==
  ASSUME LibraryInv,
         \/ Library!Crash
         \/ \E p \in Procs : \/ Library!Create(p) \/ Library!Detach(p) \/ Library!Drop(p)
                             \/ Library!SetToolSource(p) \/ Library!Ingest(p)
  PROVE  LibraryInv'
<1> USE DEF LibraryInv
<1>1. CASE Library!Crash
  <2>1. /\ lpc' = [p \in Procs |-> "idle"] /\ lreq' = [p \in Procs |-> Library!Nothing]
        /\ UNCHANGED <<live, cards, members, tool, cardIds, torn>>
        /\ lcrashes < MaxCrashes /\ lcrashes' = lcrashes + 1
    BY <1>1 DEF Library!Crash
  <2>2. Library!Nothing \in Library!Requests
    BY DEF Library!Requests, Library!Nothing
  <2>3. lpc' \in [Procs -> Library!PCs] /\ lreq' \in [Procs -> Library!Requests]
    BY <2>1, <2>2 DEF Library!PCs
  <2>4. lcrashes' \in 0..MaxCrashes
    BY <2>1, BoundsAssumption DEF Library!TypeOK
  <2>5. Library!TypeOK' /\ Library!MembersHaveProject'
    BY <2>1, <2>3, <2>4 DEF Library!TypeOK, Library!MembersHaveProject
  <2>6. ASSUME NEW p \in Procs PROVE CardRequest(p)'
    BY <2>1 DEF CardRequest, CardStands, AttachesToOne, KnowsWhatArrived, Library!Nothing
  <2> QED
    BY <2>5, <2>6
<1>2. ASSUME NEW p \in Procs, Library!Create(p) PROVE LibraryInv'
  <2>1. PICK x \in Projects : cards' = cards \cup {x} /\ cardIds' = cardIds \cup {x}
    BY <1>2 DEF Library!Create, Library!Created
  <2>2. UNCHANGED <<live, members, tool, lpc, lreq, torn, lcrashes>>
    BY <1>2 DEF Library!Create
  <2>3. Library!TypeOK' /\ Library!MembersHaveProject'
    BY <2>1, <2>2 DEF Library!TypeOK, Library!MembersHaveProject
  <2>4. \A q \in Procs : CardRequest(q)'
    BY <2>1, <2>2, CardWaits
  <2> QED
    BY <2>3, <2>4
<1>3. ASSUME NEW p \in Procs, Library!Detach(p) \/ Library!SetToolSource(p) PROVE LibraryInv'
  <2>1. /\ UNCHANGED <<live, cards, cardIds, lpc, lreq, torn, lcrashes>>
        /\ members' \subseteq members /\ tool' = tool
    BY <1>3 DEF Library!Detach, Library!SetToolSource, Library!May, Cards
  <2>2. Library!TypeOK' /\ Library!MembersHaveProject'
    BY <2>1 DEF Library!TypeOK, Library!MembersHaveProject
  <2>3. \A q \in Procs : CardRequest(q)'
    BY <2>1, CardWaits
  <2> QED
    BY <2>2, <2>3
<1>4. ASSUME NEW p \in Procs, Library!Drop(p) PROVE LibraryInv'
  <2>1. PICK x \in cards :
          /\ cards' = cards \ {x} /\ members' = {row \in members : row[1] # x}
          /\ torn' = IF Library!BeingAttached(x) THEN torn \cup {x} ELSE torn
    BY <1>4 DEF Library!Drop
  <2>2. UNCHANGED <<live, tool, cardIds, lpc, lreq, lcrashes>>
    BY <1>4 DEF Library!Drop
  <2>3. Library!TypeOK' /\ Library!MembersHaveProject'
    BY <2>1, <2>2 DEF Library!TypeOK, Library!MembersHaveProject
  <2>4. ASSUME NEW q \in Procs PROVE CardRequest(q)'
    <3>1. lpc[q] = "insert" /\ lreq[q].project = x => x \in torn'
      BY <2>1 DEF Library!BeingAttached
    <3> QED
      BY <2>1, <2>2, <3>1, CardWaits
  <2> QED
    BY <2>3, <2>4
<1>5. ASSUME NEW p \in Procs, Library!Ingest(p) PROVE LibraryInv'
  <2>1. PICK s \in Sources :
          /\ live' = live \cup {s}
          /\ lreq' = [q \in Procs |-> IF Library!HasInventory(q)
                                       THEN [lreq[q] EXCEPT !.arrived = @ \cup {s}] ELSE lreq[q]]
    BY <1>5 DEF Library!Ingest
  <2>2. UNCHANGED <<cards, members, tool, cardIds, lpc, torn, lcrashes>>
    BY <1>5 DEF Library!Ingest
  <2>3. ASSUME NEW q \in Procs
        PROVE  /\ lreq'[q] \in Library!Requests
               /\ lreq'[q].kind = lreq[q].kind /\ lreq'[q].project = lreq[q].project
               /\ lreq'[q].source = lreq[q].source /\ lreq'[q].inventory = lreq[q].inventory
               /\ lreq'[q].todo = lreq[q].todo
               /\ Library!HasInventory(q) => lreq'[q].arrived = lreq[q].arrived \cup {s}
    <3>1. \A r \in Library!Requests :
            /\ [r EXCEPT !.arrived = @ \cup {s}] \in Library!Requests
            /\ [r EXCEPT !.arrived = @ \cup {s}].arrived = r.arrived \cup {s}
            /\ [r EXCEPT !.arrived = @ \cup {s}].kind = r.kind
            /\ [r EXCEPT !.arrived = @ \cup {s}].project = r.project
            /\ [r EXCEPT !.arrived = @ \cup {s}].source = r.source
            /\ [r EXCEPT !.arrived = @ \cup {s}].inventory = r.inventory
            /\ [r EXCEPT !.arrived = @ \cup {s}].todo = r.todo
      BY DEF Library!Requests
    <3>2. lreq[q] \in Library!Requests
      BY DEF Library!TypeOK
    <3> QED
      BY <2>1, <3>1, <3>2
  <2>4. lreq' \in [Procs -> Library!Requests]
    BY <2>1, <2>3
  <2>5. Library!TypeOK' /\ Library!MembersHaveProject'
    BY <2>1, <2>2, <2>4 DEF Library!TypeOK, Library!MembersHaveProject
  <2>6. ASSUME NEW q \in Procs PROVE CardRequest(q)'
    BY <2>1, <2>2, <2>3 DEF CardRequest, CardStands, AttachesToOne, KnowsWhatArrived,
                            Library!HasInventory
  <2> QED
    BY <2>5, <2>6
<1> QED
  BY <1>1, <1>2, <1>3, <1>4, <1>5

(* One request moves and nothing else gets in its way.                     *)
LEMMA CardStep ==
  ASSUME NEW p \in Procs, LibraryInv, NEW l \in Library!PCs, NEW r \in Library!Requests,
         Library!Becomes(p, l, r),
         live' \subseteq live, cards \subseteq cards', torn' = torn, tool' = tool,
         lcrashes' = lcrashes, cards' \subseteq Projects, cardIds' \subseteq Projects,
         members' \subseteq Projects \X Sources, Library!MembersHaveProject', CardRequest(p)'
  PROVE  LibraryInv'
<1> USE DEF LibraryInv
<1>1. lpc \in [Procs -> Library!PCs] /\ lreq \in [Procs -> Library!Requests]
  BY DEF Library!TypeOK
<1>2. /\ lpc' \in [Procs -> Library!PCs] /\ lreq' \in [Procs -> Library!Requests]
      /\ \A q \in Procs : q # p => lpc'[q] = lpc[q] /\ lreq'[q] = lreq[q]
  BY <1>1, CardMoves
<1>3. \A q \in Procs : q # p => CardRequest(q)'
  BY <1>2, CardWaits
<1>4. Library!TypeOK'
  BY <1>2 DEF Library!TypeOK
<1> QED
  BY <1>3, <1>4

(* Going on without a word is going on with the same.                      *)
LEMMA CardGoto ==
  ASSUME NEW p \in Procs, LibraryInv, NEW l, Library!Goto(p, l)
  PROVE  Library!Becomes(p, l, lreq[p])
BY DEF Library!Goto, Library!Becomes, LibraryInv, Library!TypeOK

(* What the locals of a request become.                                    *)
LEMMA CardLocals ==
  ASSUME NEW r \in Library!Requests
  PROVE  /\ \A s \in Sources \cup {None} :
              LET n == [r EXCEPT !.source = s] IN
              /\ n \in Library!Requests /\ n.kind = r.kind /\ n.project = r.project
              /\ n.source = s /\ n.inventory = r.inventory /\ n.todo = r.todo
              /\ n.arrived = r.arrived
         /\ \A x \in Projects :
              LET n == [r EXCEPT !.project = x] IN
              /\ n \in Library!Requests /\ n.kind = r.kind /\ n.project = x
              /\ n.source = r.source /\ n.inventory = r.inventory /\ n.todo = r.todo
              /\ n.arrived = r.arrived
         /\ \A inventory \in SUBSET Sources :
              LET n == [r EXCEPT !.inventory = inventory] IN
              /\ n \in Library!Requests /\ n.kind = r.kind /\ n.project = r.project
              /\ n.source = r.source /\ n.inventory = inventory /\ n.todo = r.todo
              /\ n.arrived = r.arrived
         /\ \A todo \in SUBSET (Sources \cup (Projects \X Sources)) :
              LET n == [r EXCEPT !.todo = todo] IN
              /\ n \in Library!Requests /\ n.kind = r.kind /\ n.project = r.project
              /\ n.source = r.source /\ n.inventory = r.inventory /\ n.todo = todo
              /\ n.arrived = r.arrived
BY DEF Library!Requests

(* The fields of no request.                                               *)
LEMMA NothingIs ==
  /\ Library!Nothing \in Library!Requests /\ Library!Nothing.kind = "none"
  /\ Library!Nothing.project = None /\ Library!Nothing.source = None
  /\ Library!Nothing.inventory = {} /\ Library!Nothing.todo = {} /\ Library!Nothing.arrived = {}
BY DEF Library!Nothing, Library!Requests

(* A request that ends, or goes on to the next source it adopts.           *)
LEMMA CardEnds ==
  ASSUME NEW p \in Procs, LibraryInv,
         Library!Ends(p) \/ (Library!Continues(p) /\ lpc[p] \in {"find", "insert"}),
         live' \subseteq live, cards' = cards, torn' = torn, tool' = tool,
         lcrashes' = lcrashes, cardIds' = cardIds,
         members' \subseteq Projects \X Sources, Library!MembersHaveProject'
  PROVE  LibraryInv'
<1>0. /\ lpc \in [Procs -> Library!PCs] /\ lreq \in [Procs -> Library!Requests]
      /\ cards \subseteq Projects /\ cardIds \subseteq Projects
  BY DEF LibraryInv, Library!TypeOK
<1>1. CASE Library!Ends(p)
  <2>1. Library!Becomes(p, "idle", Library!Nothing) /\ "idle" \in Library!PCs
    BY <1>1 DEF Library!Ends, Library!PCs
  <2>2. lpc'[p] = "idle" /\ lreq'[p] = Library!Nothing
    BY <1>0, <2>1, NothingIs, CardMoves
  <2>3. CardRequest(p)'
    BY <2>2, NothingIs DEF CardRequest, CardStands, AttachesToOne, KnowsWhatArrived
  <2> QED
    BY <1>0, <2>1, <2>3, NothingIs, CardStep
<1>2. CASE ~Library!Ends(p)
  <2>1. PICK r : r = [lreq[p] EXCEPT !.source = None]
    OBVIOUS
  <2>2. /\ lreq[p].kind # "attach" /\ Library!Becomes(p, "adopt", r)
        /\ lpc[p] \in {"find", "insert"} /\ "adopt" \in Library!PCs
    BY <1>2, <2>1 DEF Library!Continues, Library!PCs
  <2>3. lreq[p] \in Library!Requests /\ CardRequest(p)
    BY <1>0 DEF LibraryInv
  <2>4. /\ r \in Library!Requests /\ r.kind = lreq[p].kind /\ r.project = lreq[p].project
        /\ r.inventory = lreq[p].inventory /\ r.todo = lreq[p].todo
        /\ r.arrived = lreq[p].arrived
    BY <2>1, <2>3, CardLocals
  <2>5. lpc'[p] = "adopt" /\ lreq'[p] = r
    BY <1>0, <2>2, <2>4, CardMoves
  <2>6. CardRequest(p)'
    BY <2>2, <2>3, <2>4, <2>5 DEF CardRequest, CardStands, AttachesToOne, KnowsWhatArrived
  <2> QED
    BY <1>0, <2>2, <2>4, <2>6, CardStep
<1> QED
  BY <1>1, <1>2

(* A source is attached, by its own request or by a listing that adopts.   *)
LEMMA CardAttachSteps ==
  ASSUME NEW p \in Procs, LibraryInv,
         Library!CallAttach(p) \/ Library!FindProject(p) \/ Library!InsertMember(p)
  PROVE  LibraryInv'
<1>0. /\ lpc \in [Procs -> Library!PCs] /\ lreq \in [Procs -> Library!Requests]
      /\ cards \subseteq Projects /\ cardIds \subseteq Projects
      /\ members \subseteq Projects \X Sources /\ Library!MembersHaveProject
      /\ lreq[p] \in Library!Requests /\ CardRequest(p)
      /\ None \notin Projects /\ None \notin Sources
  BY InstanceAssumptions DEF LibraryInv, Library!TypeOK, Library!NoneAssumption
<1>1. CASE Library!CallAttach(p)
  <2>1. UNCHANGED <<live, cards, members, tool, cardIds, torn, lcrashes>>
    BY <1>1 DEF Library!CallAttach
  <2>2. PICK x \in Projects : \E s \in Sources :
          Library!Becomes(p, "find", [Library!Nothing EXCEPT !.kind = "attach", !.project = x, !.source = s])
    BY <1>1 DEF Library!CallAttach
  <2>3. PICK s \in Sources :
          Library!Becomes(p, "find", [Library!Nothing EXCEPT !.kind = "attach", !.project = x, !.source = s])
    BY <2>2
  <2>4. PICK r : r = [Library!Nothing EXCEPT !.kind = "attach", !.project = x, !.source = s]
    OBVIOUS
  <2>5. /\ r \in Library!Requests /\ r.kind = "attach" /\ r.project = x /\ r.source = s
        /\ r.todo = {} /\ "find" \in Library!PCs
    BY <2>4 DEF Library!Nothing, Library!Requests, Library!PCs
  <2>6. Library!Becomes(p, "find", r)
    BY <2>3, <2>4
  <2>7. lpc'[p] = "find" /\ lreq'[p] = r
    BY <1>0, <2>5, <2>6, CardMoves
  <2>8. CardRequest(p)'
    BY <1>0, <2>5, <2>7 DEF CardRequest, CardStands, AttachesToOne, KnowsWhatArrived
  <2>9. Library!MembersHaveProject'
    BY <1>0, <2>1 DEF Library!MembersHaveProject
  <2> QED
    BY <1>0, <2>1, <2>5, <2>6, <2>8, <2>9, CardStep
<1>2. CASE Library!FindProject(p)
  <2>1. lpc[p] = "find" /\ UNCHANGED <<live, cards, members, tool, cardIds, torn, lcrashes>>
    BY <1>2 DEF Library!FindProject
  <2>2. Library!MembersHaveProject'
    BY <1>0, <2>1 DEF Library!MembersHaveProject
  <2>3. CASE lreq[p].project \in cards /\ Library!Goto(p, "insert")
    <3>1. Library!Becomes(p, "insert", lreq[p]) /\ "insert" \in Library!PCs
      BY <2>3, CardGoto DEF Library!PCs
    <3>2. lpc'[p] = "insert" /\ lreq'[p] = lreq[p]
      BY <1>0, <3>1, CardMoves
    <3>3. CardRequest(p)'
      BY <1>0, <2>1, <2>3, <3>2 DEF CardRequest, CardStands, AttachesToOne, KnowsWhatArrived
    <3> QED
      BY <1>0, <2>1, <2>2, <3>1, <3>3, CardStep
  <2>4. CASE Library!Continues(p)
    BY <1>0, <2>1, <2>2, <2>4, CardEnds
  <2> QED
    BY <1>2, <2>3, <2>4 DEF Library!FindProject
<1>3. CASE Library!InsertMember(p)
  <2>1. /\ lpc[p] = "insert" /\ Library!Continues(p)
        /\ members' = members \cup {<<lreq[p].project, lreq[p].source>>}
        /\ UNCHANGED <<live, cards, tool, cardIds, torn, lcrashes>>
    BY <1>3 DEF Library!InsertMember
  <2>2. /\ lreq[p].project \in Projects /\ lreq[p].source \in Sources
        /\ lreq[p].project \in cards \cup torn
    BY <1>0, <2>1 DEF CardRequest, CardStands, AttachesToOne, Library!Requests
  <2>3. members' \subseteq Projects \X Sources
    BY <1>0, <2>1, <2>2
  <2>4. Library!MembersHaveProject'
    BY <1>0, <2>1, <2>2 DEF Library!MembersHaveProject
  <2> QED
    BY <2>1, <2>3, <2>4, CardEnds
<1> QED
  BY <1>1, <1>2, <1>3

(* A source is deleted, and taken off every card.                          *)
LEMMA CardDeleteSteps ==
  ASSUME NEW p \in Procs, LibraryInv, Library!CallDeleteSource(p) \/ Library!RemoveEverywhere(p)
  PROVE  LibraryInv'
<1>0. /\ lpc \in [Procs -> Library!PCs] /\ lreq \in [Procs -> Library!Requests]
      /\ cards \subseteq Projects /\ cardIds \subseteq Projects /\ live \subseteq Sources
      /\ members \subseteq Projects \X Sources /\ Library!MembersHaveProject
  BY DEF LibraryInv, Library!TypeOK
<1>1. CASE Library!CallDeleteSource(p)
  <2>1. UNCHANGED <<cards, members, tool, cardIds, torn, lcrashes>>
    BY <1>1 DEF Library!CallDeleteSource
  <2>2. PICK s \in live :
          /\ live' = live \ {s}
          /\ Library!Becomes(p, "unlink", [Library!Nothing EXCEPT !.kind = "delete", !.source = s])
    BY <1>1 DEF Library!CallDeleteSource
  <2>3. PICK r : r = [Library!Nothing EXCEPT !.kind = "delete", !.source = s]
    OBVIOUS
  <2>4. r \in Library!Requests /\ r.kind = "delete" /\ "unlink" \in Library!PCs
    BY <1>0, <2>2, <2>3 DEF Library!Nothing, Library!Requests, Library!PCs
  <2>5. Library!Becomes(p, "unlink", r)
    BY <2>2, <2>3
  <2>6. lpc'[p] = "unlink" /\ lreq'[p] = r
    BY <1>0, <2>4, <2>5, CardMoves
  <2>7. CardRequest(p)'
    BY <2>4, <2>6 DEF CardRequest, CardStands, AttachesToOne, KnowsWhatArrived
  <2>8. Library!MembersHaveProject'
    BY <1>0, <2>1 DEF Library!MembersHaveProject
  <2> QED
    BY <1>0, <2>1, <2>2, <2>4, <2>5, <2>7, <2>8, CardStep
<1>2. CASE Library!RemoveEverywhere(p)
  <2>1. /\ Library!Ends(p) /\ members' \subseteq members
        /\ UNCHANGED <<live, cards, tool, cardIds, torn, lcrashes>>
    BY <1>2 DEF Library!RemoveEverywhere
  <2>2. members' \subseteq Projects \X Sources /\ Library!MembersHaveProject'
    BY <1>0, <2>1 DEF Library!MembersHaveProject
  <2> QED
    BY <2>1, <2>2, CardEnds
<1> QED
  BY <1>1, <1>2

(* What a listing has left to do, once its inventory is what it lists by.  *)
LEMMA CardListed ==
  ASSUME NEW p \in Procs, LibraryInv, lreq[p].kind = "list", lpc[p] \in {"list", "relist"},
         Library!Listed(p, lreq[p].inventory),
         UNCHANGED <<live, cards, members, tool, cardIds, torn, lcrashes>>
  PROVE  LibraryInv'
<1>0. /\ lpc \in [Procs -> Library!PCs] /\ lreq \in [Procs -> Library!Requests]
      /\ cards \subseteq Projects /\ cardIds \subseteq Projects
      /\ members \subseteq Projects \X Sources /\ Library!MembersHaveProject
      /\ lreq[p] \in Library!Requests /\ CardRequest(p)
  BY DEF LibraryInv, Library!TypeOK
<1>1. PICK todo : todo = {row \in members : /\ row[1] \in cards
                                            /\ row[2] \notin lreq[p].inventory
                                            /\ lreq[p].inventory # {}}
  OBVIOUS
<1>2. PICK r : r = [lreq[p] EXCEPT !.todo = todo]
  OBVIOUS
<1>3. Library!Becomes(p, "prune", r) /\ "prune" \in Library!PCs
  BY <1>1, <1>2 DEF Library!Listed, Library!PCs
<1>4. todo \in SUBSET (Sources \cup (Projects \X Sources))
  BY <1>0, <1>1
<1>5. /\ r \in Library!Requests /\ r.kind = "list" /\ r.todo = todo
      /\ r.inventory = lreq[p].inventory /\ r.arrived = lreq[p].arrived
  <2>1. PICK q \in Library!Requests : q = lreq[p]
    BY <1>0
  <2>2. q.kind = "list" /\ r = [q EXCEPT !.todo = todo]
    BY <1>2, <2>1
  <2>3. /\ r \in Library!Requests /\ r.kind = q.kind /\ r.todo = todo
        /\ r.inventory = q.inventory /\ r.arrived = q.arrived
    BY <1>4, <2>2, CardLocals
  <2> QED
    BY <2>1, <2>2, <2>3
<1>6. lpc'[p] = "prune" /\ lreq'[p] = r
  BY <1>0, <1>3, <1>5, CardMoves
<1>7. CardRequest(p)'
  BY <1>0, <1>1, <1>5, <1>6 DEF CardRequest, CardStands, AttachesToOne, KnowsWhatArrived
<1>8. Library!MembersHaveProject'
  BY <1>0 DEF Library!MembersHaveProject
<1> QED
  BY <1>0, <1>3, <1>5, <1>7, <1>8, CardStep

(* A listing reads its inventory and finds what is stale in it, or, in a   *)
(* library without a project, what to adopt.                               *)
LEMMA CardListSteps ==
  ASSUME NEW p \in Procs, LibraryInv,
         Library!CallList(p) \/ Library!ReadInventory(p) \/ Library!List(p) \/ Library!Relist(p)
  PROVE  LibraryInv'
<1>0. /\ lpc \in [Procs -> Library!PCs] /\ lreq \in [Procs -> Library!Requests]
      /\ cards \subseteq Projects /\ cardIds \subseteq Projects /\ live \subseteq Sources
      /\ members \subseteq Projects \X Sources /\ Library!MembersHaveProject
      /\ lreq[p] \in Library!Requests /\ CardRequest(p)
  BY DEF LibraryInv, Library!TypeOK
<1>1. UNCHANGED <<live, cards, members, tool, cardIds, torn, lcrashes>>
  BY DEF Library!CallList, Library!ReadInventory, Library!List, Library!Relist
<1>2. Library!MembersHaveProject'
  BY <1>0, <1>1 DEF Library!MembersHaveProject
<1>3. CASE Library!CallList(p)
  <2>1. PICK r : r = [Library!Nothing EXCEPT !.kind = "list"]
    OBVIOUS
  <2>2. /\ r \in Library!Requests /\ r.kind = "list" /\ r.inventory = {}
        /\ "inventory" \in Library!PCs
    BY <2>1 DEF Library!Nothing, Library!Requests, Library!PCs
  <2>3. Library!Becomes(p, "inventory", r)
    BY <1>3, <2>1 DEF Library!CallList
  <2>4. lpc'[p] = "inventory" /\ lreq'[p] = r
    BY <1>0, <2>2, <2>3, CardMoves
  <2>5. CardRequest(p)'
    BY <2>2, <2>4 DEF CardRequest, CardStands, AttachesToOne, KnowsWhatArrived
  <2> QED
    BY <1>0, <1>1, <1>2, <2>2, <2>3, <2>5, CardStep
<1>4. CASE Library!ReadInventory(p)
  <2>1. PICK inventory \in {live, {}} :
          Library!Becomes(p, "list", [lreq[p] EXCEPT !.inventory = inventory])
    BY <1>4 DEF Library!ReadInventory
  <2>2. PICK r : r = [lreq[p] EXCEPT !.inventory = inventory]
    OBVIOUS
  <2>3. lpc[p] = "inventory" /\ lreq[p].kind = "list" /\ "list" \in Library!PCs
    BY <1>0, <1>4 DEF Library!ReadInventory, CardRequest, CardStands, Library!PCs
  <2>4. r \in Library!Requests /\ r.kind = "list" /\ r.inventory = inventory
    BY <1>0, <2>1, <2>2, <2>3, CardLocals
  <2>5. Library!Becomes(p, "list", r)
    BY <2>1, <2>2
  <2>6. lpc'[p] = "list" /\ lreq'[p] = r
    BY <1>0, <2>3, <2>4, <2>5, CardMoves
  <2>7. CardRequest(p)'
    BY <1>1, <2>1, <2>4, <2>6 DEF CardRequest, CardStands, AttachesToOne, KnowsWhatArrived
  <2> QED
    BY <1>0, <1>1, <1>2, <2>3, <2>4, <2>5, <2>7, CardStep
<1>5. CASE Library!List(p)
  <2>1. lpc[p] = "list" /\ lreq[p].kind = "list"
    BY <1>0, <1>5 DEF Library!List, CardRequest, CardStands
  <2>2. CASE Library!Listed(p, lreq[p].inventory)
    BY <1>1, <2>1, <2>2, CardListed
  <2>3. CASE Library!Becomes(p, "adopt", [lreq[p] EXCEPT !.todo = lreq[p].inventory])
    <3>1. PICK inventory : inventory = lreq[p].inventory
      OBVIOUS
    <3>2. PICK r : r = [lreq[p] EXCEPT !.todo = inventory]
      OBVIOUS
    <3>3. inventory \subseteq Sources
      BY <1>0, <3>1 DEF Library!Requests
    <3>4. inventory \in SUBSET (Sources \cup (Projects \X Sources))
      BY <3>3
    <3>5. /\ r \in Library!Requests /\ r.kind = "list" /\ r.todo = inventory
          /\ r.inventory = inventory /\ r.arrived = lreq[p].arrived
      <4>1. PICK q \in Library!Requests : q = lreq[p]
        BY <1>0
      <4>2. q.kind = "list" /\ q.inventory = inventory /\ r = [q EXCEPT !.todo = inventory]
        BY <2>1, <3>1, <3>2, <4>1
      <4>3. /\ r \in Library!Requests /\ r.kind = q.kind /\ r.todo = inventory
            /\ r.inventory = q.inventory /\ r.arrived = q.arrived
        BY <3>4, <4>2, CardLocals
      <4> QED
        BY <4>1, <4>2, <4>3
    <3>6. Library!Becomes(p, "adopt", r) /\ "adopt" \in Library!PCs
      BY <2>3, <3>1, <3>2 DEF Library!PCs
    <3>7. lpc'[p] = "adopt" /\ lreq'[p] = r
      BY <1>0, <3>5, <3>6, CardMoves
    <3>8. CardRequest(p)'
      BY <1>0, <1>1, <2>1, <3>1, <3>3, <3>5, <3>7
         DEF CardRequest, CardStands, AttachesToOne, KnowsWhatArrived
    <3> QED
      BY <1>0, <1>1, <1>2, <3>5, <3>6, <3>8, CardStep
  <2> QED
    BY <1>5, <2>2, <2>3 DEF Library!List
<1>6. CASE Library!Relist(p)
  <2>1. /\ lpc[p] = "relist" /\ lreq[p].kind = "list"
        /\ Library!Listed(p, lreq[p].inventory)
    BY <1>0, <1>6 DEF Library!Relist, CardRequest, CardStands
  <2> QED
    BY <1>1, <2>1, CardListed
<1> QED
  BY <1>3, <1>4, <1>5, <1>6

(* A listing creates the first project, and adopts source after source.    *)
LEMMA CardAdoptSteps ==
  ASSUME NEW p \in Procs, LibraryInv, Library!Migrate(p) \/ Library!Adopt(p)
  PROVE  LibraryInv'
<1>0. /\ lpc \in [Procs -> Library!PCs] /\ lreq \in [Procs -> Library!Requests]
      /\ cards \subseteq Projects /\ cardIds \subseteq Projects
      /\ members \subseteq Projects \X Sources /\ Library!MembersHaveProject
      /\ lreq[p] \in Library!Requests /\ CardRequest(p)
      /\ None \notin Projects /\ None \notin Sources
  BY InstanceAssumptions DEF LibraryInv, Library!TypeOK, Library!NoneAssumption
<1>1. lpc[p] = "adopt" /\ UNCHANGED <<live, members, tool, torn, lcrashes>>
  BY DEF Library!Migrate, Library!Adopt
<1>2. lreq[p].kind = "list" /\ lreq[p].todo \subseteq Sources
  BY <1>0, <1>1 DEF CardRequest, CardStands
<1>3. CASE Library!Migrate(p)
  <2>1. PICK x \in Projects :
          Library!Created(x) /\ Library!Becomes(p, "adopt", [lreq[p] EXCEPT !.project = x])
    BY <1>3 DEF Library!Migrate
  <2>2. PICK r : r = [lreq[p] EXCEPT !.project = x]
    OBVIOUS
  <2>3. /\ r \in Library!Requests /\ r.kind = "list" /\ r.todo = lreq[p].todo
        /\ r.inventory = lreq[p].inventory /\ r.arrived = lreq[p].arrived
    BY <1>0, <1>2, <2>1, <2>2, CardLocals
  <2>4. Library!Becomes(p, "adopt", r) /\ "adopt" \in Library!PCs
    BY <2>1, <2>2 DEF Library!PCs
  <2>5. lpc'[p] = "adopt" /\ lreq'[p] = r
    BY <1>0, <2>3, <2>4, CardMoves
  <2>6. CardRequest(p)'
    BY <1>0, <1>1, <1>2, <2>3, <2>5 DEF CardRequest, CardStands, AttachesToOne, KnowsWhatArrived
  <2>7. cards' = cards \cup {x} /\ cardIds' = cardIds \cup {x}
    BY <2>1 DEF Library!Created
  <2>8. Library!MembersHaveProject'
    BY <1>0, <1>1, <2>7 DEF Library!MembersHaveProject
  <2> QED
    BY <1>0, <1>1, <2>1, <2>3, <2>4, <2>6, <2>7, <2>8, CardStep
<1>4. CASE Library!Adopt(p)
  <2>1. cards' = cards /\ cardIds' = cardIds /\ lreq[p].project # None
    BY <1>4 DEF Library!Adopt
  <2>2. Library!MembersHaveProject'
    BY <1>0, <1>1, <2>1 DEF Library!MembersHaveProject
  <2>3. CASE Library!Goto(p, "relist")
    <3>1. Library!Becomes(p, "relist", lreq[p]) /\ "relist" \in Library!PCs
      BY <2>3, CardGoto DEF Library!PCs
    <3>2. lpc'[p] = "relist" /\ lreq'[p] = lreq[p]
      BY <1>0, <3>1, CardMoves
    <3>3. CardRequest(p)'
      BY <1>0, <1>1, <1>2, <3>2 DEF CardRequest, CardStands, AttachesToOne, KnowsWhatArrived
    <3> QED
      BY <1>0, <1>1, <2>1, <2>2, <3>1, <3>3, CardStep
  <2>4. ASSUME NEW s \in lreq[p].todo,
               Library!Becomes(p, "find", [lreq[p] EXCEPT !.source = s, !.todo = @ \ {s}])
        PROVE  LibraryInv'
    <3>1. PICK r : r = [lreq[p] EXCEPT !.source = s, !.todo = @ \ {s}]
      OBVIOUS
    <3>2. /\ r \in Library!Requests /\ r.kind = "list" /\ r.todo = lreq[p].todo \ {s}
          /\ r.project = lreq[p].project /\ r.source = s
          /\ r.inventory = lreq[p].inventory /\ r.arrived = lreq[p].arrived
      BY <1>0, <1>2, <3>1 DEF Library!Requests
    <3>3. Library!Becomes(p, "find", r) /\ "find" \in Library!PCs
      BY <2>4, <3>1 DEF Library!PCs
    <3>4. lpc'[p] = "find" /\ lreq'[p] = r
      BY <1>0, <3>2, <3>3, CardMoves
    <3>5. CardRequest(p)'
      BY <1>0, <1>1, <1>2, <2>1, <3>2, <3>4
         DEF CardRequest, CardStands, AttachesToOne, KnowsWhatArrived
    <3> QED
      BY <1>0, <1>1, <2>1, <2>2, <3>2, <3>3, <3>5, CardStep
  <2> QED
    BY <1>4, <2>3, <2>4 DEF Library!Adopt
<1> QED
  BY <1>3, <1>4

(* A listing prunes a row that it found stale, or has none left.           *)
LEMMA CardPruneStep ==
  ASSUME NEW p \in Procs, LibraryInv, Library!Prune(p)
  PROVE  LibraryInv'
<1>0. /\ lpc \in [Procs -> Library!PCs] /\ lreq \in [Procs -> Library!Requests]
      /\ cards \subseteq Projects /\ cardIds \subseteq Projects
      /\ members \subseteq Projects \X Sources /\ Library!MembersHaveProject
      /\ lreq[p] \in Library!Requests /\ CardRequest(p)
  BY DEF LibraryInv, Library!TypeOK
<1>1. lpc[p] = "prune" /\ UNCHANGED <<live, cards, tool, cardIds, torn, lcrashes>>
      /\ members' \subseteq members
  BY DEF Library!Prune
<1>2. Library!MembersHaveProject' /\ members' \subseteq Projects \X Sources
  BY <1>0, <1>1 DEF Library!MembersHaveProject
<1>3. CASE Library!Ends(p)
  BY <1>1, <1>2, <1>3, CardEnds
<1>4. ASSUME NEW row \in lreq[p].todo,
             Library!Becomes(p, "prune", [lreq[p] EXCEPT !.todo = @ \ {row}])
      PROVE  LibraryInv'
  <2>1. PICK todo : todo = lreq[p].todo \ {row}
    OBVIOUS
  <2>2. PICK r : r = [lreq[p] EXCEPT !.todo = todo]
    OBVIOUS
  <2>3. Library!Becomes(p, "prune", r) /\ "prune" \in Library!PCs
    BY <1>4, <2>1, <2>2 DEF Library!PCs
  <2>4. todo \in SUBSET (Sources \cup (Projects \X Sources))
    BY <1>0, <2>1 DEF Library!Requests
  <2>5. /\ r \in Library!Requests /\ r.kind = lreq[p].kind /\ r.todo = todo
        /\ r.inventory = lreq[p].inventory /\ r.arrived = lreq[p].arrived
    BY <1>0, <2>2, <2>4, CardLocals
  <2>6. lpc'[p] = "prune" /\ lreq'[p] = r
    BY <1>0, <2>3, <2>5, CardMoves
  <2>7. CardRequest(p)'
    BY <1>0, <1>1, <2>1, <2>5, <2>6 DEF CardRequest, CardStands, AttachesToOne, KnowsWhatArrived
  <2> QED
    BY <1>0, <1>1, <1>2, <2>3, <2>5, <2>7, CardStep
<1> QED
  BY <1>3, <1>4 DEF Library!Prune

(* Every step keeps it.                                                    *)
LEMMA LibraryStep == LibraryInv /\ (Library!Next \/ UNCHANGED library) => LibraryInv'
<1> SUFFICES ASSUME LibraryInv, Library!Next \/ UNCHANGED library PROVE LibraryInv'
  OBVIOUS
<1>1. CASE UNCHANGED library
  <2>1. Library!TypeOK' /\ Library!MembersHaveProject'
    BY <1>1 DEF library, LibraryInv, Library!TypeOK, Library!MembersHaveProject
  <2>2. \A p \in Procs : CardRequest(p)'
    BY <1>1, CardWaits DEF library, LibraryInv
  <2> QED
    BY <2>1, <2>2 DEF LibraryInv
<1> QED
  BY <1>1, CardQuietSteps, CardAttachSteps, CardDeleteSteps, CardListSteps, CardAdoptSteps,
     CardPruneStep DEF Library!Next

(* What a listing prunes is gone, or came after its inventory.             *)
LEMMA LibraryPrunes == LibraryInv => Library!PrunesTheGone
<1> SUFFICES ASSUME LibraryInv, NEW p \in Procs, NEW row \in members \ members', Library!Prune(p)
             PROVE  row[2] \notin live \ lreq[p].arrived
  BY DEF Library!PrunesTheGone
<1>1. lpc[p] = "prune" /\ row \in lreq[p].todo
  BY DEF Library!Prune
<1>2. CardRequest(p)
  BY DEF LibraryInv
<1> QED
  BY <1>1, <1>2 DEF CardRequest, CardStands, KnowsWhatArrived

(* A tool's source is of the project and there, if the project has any.    *)
LEMMA ToolsStay == Tools!ToolStaysInProject
<1> SUFFICES ASSUME NEW x \in cards, NEW explicit \in Sources \cup {None}
             PROVE  /\ Tools!ResolveToolSource(x, explicit, live) \subseteq Tools!LiveMembers(x, live)
                    /\ Tools!LiveMembers(x, live) # {} /\ explicit = None
                         => Tools!ResolveToolSource(x, explicit, live) # {}
  BY DEF Tools!ToolStaysInProject
<1>1. PICK mine : mine = Tools!LiveMembers(x, live)
  OBVIOUS
<1>2. Tools!ResolveToolSource(x, explicit, live) =
        CASE explicit # None -> mine \cap {explicit}
          [] explicit = None /\ tool[x] \in mine -> {tool[x]}
          [] explicit = None /\ tool[x] \notin mine /\ mine \cap live \cap Repos # {}
               -> mine \cap live \cap Repos
          [] OTHER -> mine
  BY <1>1 DEF Tools!ResolveToolSource
<1>3. CASE explicit # None
  BY <1>1, <1>2, <1>3
<1>4. CASE explicit = None /\ tool[x] \in mine
  BY <1>1, <1>2, <1>4
<1>5. CASE explicit = None /\ tool[x] \notin mine /\ mine \cap live \cap Repos # {}
  BY <1>1, <1>2, <1>5
<1>6. CASE explicit = None /\ tool[x] \notin mine /\ mine \cap live \cap Repos = {}
  BY <1>1, <1>2, <1>6
<1> QED
  BY <1>3, <1>4, <1>5, <1>6

(* The library with one project and the choice of a tool's source: its     *)
(* requests and rows keep their types, since a listing attaches only what  *)
(* is left of the inventory it adopts, to the project it created.          *)
ToolStands(p) ==
  /\ lpc[p] \in {"find", "insert"} => lreq[p].project # None /\ lreq[p].source # None
  /\ lpc[p] \in {"adopt", "find", "insert"} => lreq[p].todo \subseteq Sources
ToolsInv == Tools!TypeOK /\ \A p \in Procs : ToolStands(p)

\* What a request may be at a step.
ToolRequest(l, r) ==
  /\ l \in Tools!PCs /\ r \in Tools!Requests
  /\ l \in {"find", "insert"} => r.project # None /\ r.source # None
  /\ l \in {"adopt", "find", "insert"} => r.todo \subseteq Sources

\* The rows and what is indexed keep their types.
ToolRows ==
  /\ live \subseteq Sources /\ cards \subseteq ToolProjects /\ cardIds \subseteq ToolProjects
  /\ members \subseteq ToolProjects \X Sources /\ tool \in [ToolProjects -> Sources \cup {None}]
  /\ torn \subseteq ToolProjects /\ lcrashes \in 0..0

LEMMA ToolsAre ==
  ToolsInv <=> /\ ToolRows
               /\ lpc \in [Procs -> Tools!PCs] /\ lreq \in [Procs -> Tools!Requests]
               /\ \A p \in Procs : ToolRequest(lpc[p], lreq[p])
BY DEF ToolsInv, Tools!TypeOK, ToolRows, ToolRequest, ToolStands

LEMMA NoToolRequest ==
  /\ Tools!Nothing \in Tools!Requests /\ Tools!Nothing.project = None
  /\ Tools!Nothing.source = None /\ Tools!Nothing.todo = {}
  /\ ToolRequest("idle", Tools!Nothing)
BY DEF Tools!Nothing, Tools!Requests, Tools!PCs, ToolRequest

(* It holds at the start.                                                  *)
LEMMA ToolsInit == Tools!Init => ToolsInv
<1> SUFFICES ASSUME Tools!Init PROVE ToolsInv
  OBVIOUS
<1>1. ToolRows
  BY DEF Tools!Init, ToolRows
<1>2. /\ lpc = [p \in Procs |-> "idle"] /\ lreq = [p \in Procs |-> Tools!Nothing]
      /\ "idle" \in Tools!PCs
  BY DEF Tools!Init, Tools!PCs
<1> QED
  BY <1>1, <1>2, NoToolRequest, ToolsAre

(* One request moves, or none does.                                        *)
LEMMA ToolStep ==
  ASSUME NEW p \in Procs, ToolsInv, ToolRows', NEW l, NEW r, ToolRequest(l, r),
         Tools!Becomes(p, l, r)
  PROVE  ToolsInv'
<1>1. /\ lpc \in [Procs -> Tools!PCs] /\ lreq \in [Procs -> Tools!Requests]
      /\ \A q \in Procs : ToolRequest(lpc[q], lreq[q])
  BY ToolsAre
<1>2. l \in Tools!PCs /\ r \in Tools!Requests
  BY DEF ToolRequest
<1>3. lpc' \in [Procs -> Tools!PCs] /\ lreq' \in [Procs -> Tools!Requests]
  BY <1>1, <1>2 DEF Tools!Becomes
<1>4. ASSUME NEW q \in Procs PROVE ToolStands(q)'
  <2>1. lpc'[q] = IF q = p THEN l ELSE lpc[q]
    BY <1>1 DEF Tools!Becomes
  <2>2. lreq'[q] = IF q = p THEN r ELSE lreq[q]
    BY <1>1 DEF Tools!Becomes
  <2> QED
    BY <1>1, <2>1, <2>2 DEF ToolStands, ToolRequest
<1> QED
  BY <1>3, <1>4 DEF ToolsInv, Tools!TypeOK, ToolRows

LEMMA ToolsWait ==
  ASSUME ToolsInv, ToolRows', UNCHANGED <<lpc, lreq>>
  PROVE  ToolsInv'
BY DEF ToolsInv, Tools!TypeOK, ToolRows, ToolStands

\* What the locals of a request become.
LEMMA ToolLocals ==
  ASSUME NEW r \in Tools!Requests
  PROVE  /\ \A s \in Sources \cup {None} :
              LET n == [r EXCEPT !.source = s] IN
              n \in Tools!Requests /\ n.project = r.project /\ n.source = s /\ n.todo = r.todo
         /\ \A x \in ToolProjects :
              LET n == [r EXCEPT !.project = x] IN
              n \in Tools!Requests /\ n.project = x /\ n.source = r.source /\ n.todo = r.todo
         /\ \A inventory \in SUBSET Sources :
              LET n == [r EXCEPT !.inventory = inventory] IN
              n \in Tools!Requests /\ n.todo = r.todo
         /\ \A todo \in SUBSET (Sources \cup (ToolProjects \X Sources)) :
              LET n == [r EXCEPT !.todo = todo] IN
              /\ n \in Tools!Requests /\ n.project = r.project /\ n.source = r.source
              /\ n.todo = todo
         /\ \A s \in Sources :
              LET n == [r EXCEPT !.arrived = @ \cup {s}] IN
              n \in Tools!Requests /\ n.project = r.project /\ n.source = r.source /\ n.todo = r.todo
BY DEF Tools!Requests

(* What a call that has ended, or a listing that goes on, becomes.         *)
LEMMA ToolEnds ==
  ASSUME NEW p \in Procs, ToolsInv, ToolRows',
         Tools!Ends(p) \/ (Tools!Continues(p) /\ lpc[p] \in {"find", "insert"})
  PROVE  ToolsInv'
<1>1. CASE Tools!Ends(p)
  BY <1>1, NoToolRequest, ToolStep DEF Tools!Ends
<1>2. CASE ~Tools!Ends(p)
  <2>1. PICK r : r = [lreq[p] EXCEPT !.source = None]
    OBVIOUS
  <2>2. Tools!Becomes(p, "adopt", r)
    BY <1>2, <2>1 DEF Tools!Continues
  <2>3. lreq[p] \in Tools!Requests /\ lreq[p].todo \subseteq Sources
    BY <1>2, ToolsAre DEF ToolRequest
  <2>4. ToolRequest("adopt", r)
    BY <2>1, <2>3, ToolLocals DEF ToolRequest, Tools!PCs
  <2> QED
    BY <2>2, <2>4, ToolStep
<1> QED
  BY <1>1, <1>2

(* What a listing prunes is of the card's rows.                            *)
LEMMA ToolListed ==
  ASSUME NEW p \in Procs, ToolsInv, ToolRows', NEW inventory, Tools!Listed(p, inventory)
  PROVE  ToolsInv'
<1>1. PICK todo : todo = {row \in members : row[1] \in cards /\ row[2] \notin inventory
                                             /\ inventory # {}}
  OBVIOUS
<1>2. Tools!Becomes(p, "prune", [lreq[p] EXCEPT !.todo = todo])
  BY <1>1 DEF Tools!Listed
<1>3. todo \in SUBSET (Sources \cup (ToolProjects \X Sources))
  BY <1>1, ToolsAre DEF ToolRows
<1>4. ToolRequest("prune", [lreq[p] EXCEPT !.todo = todo])
  BY <1>3, ToolsAre, ToolLocals DEF ToolRequest, Tools!PCs
<1> QED
  BY <1>2, <1>4, ToolStep

(* Every step keeps it.                                                    *)
LEMMA ToolsStep == ToolsInv /\ (Tools!Next \/ UNCHANGED library) => ToolsInv'
<1> SUFFICES ASSUME ToolsInv, Tools!Next \/ UNCHANGED library PROVE ToolsInv'
  OBVIOUS
<1>0. /\ ToolRows /\ lpc \in [Procs -> Tools!PCs] /\ lreq \in [Procs -> Tools!Requests]
      /\ \A p \in Procs : ToolRequest(lpc[p], lreq[p]) /\ lreq[p] \in Tools!Requests
      /\ None \notin ToolProjects /\ None \notin Sources
  BY ToolsAre, InstanceAssumptions DEF Tools!NoneAssumption
<1>1. CASE UNCHANGED library
  BY <1>0, <1>1, ToolsWait DEF library, ToolRows
<1>2. CASE Tools!Crash
  BY <1>0, <1>2 DEF Tools!Crash, ToolRows
<1>3. ASSUME NEW p \in Procs,
             Tools!Create(p) \/ Tools!Detach(p) \/ Tools!SetToolSource(p) \/ Tools!Drop(p)
      PROVE  ToolsInv'
  <2>1. ToolRows'
    BY <1>0, <1>3 DEF Tools!Create, Tools!Created, Tools!Detach, Tools!SetToolSource, Tools!Drop,
                      ToolRows
  <2>2. UNCHANGED <<lpc, lreq>>
    BY <1>3 DEF Tools!Create, Tools!Detach, Tools!SetToolSource, Tools!Drop
  <2> QED
    BY <2>1, <2>2, ToolsWait
<1>4. ASSUME NEW p \in Procs, Tools!Ingest(p) PROVE ToolsInv'
  <2>1. PICK s \in Sources :
          /\ live' = live \cup {s}
          /\ lreq' = [q \in Procs |-> IF Tools!HasInventory(q)
                                      THEN [lreq[q] EXCEPT !.arrived = @ \cup {s}] ELSE lreq[q]]
    BY <1>4 DEF Tools!Ingest
  <2>2. UNCHANGED <<cards, members, tool, cardIds, lpc, torn, lcrashes>>
    BY <1>4 DEF Tools!Ingest
  <2>3. ToolRows'
    BY <1>0, <2>1, <2>2 DEF ToolRows
  <2>4. ASSUME NEW q \in Procs
        PROVE  /\ lreq'[q] \in Tools!Requests /\ lreq'[q].project = lreq[q].project
               /\ lreq'[q].source = lreq[q].source /\ lreq'[q].todo = lreq[q].todo
    <3>1. PICK r : r = lreq[q]
      OBVIOUS
    <3>2. r \in Tools!Requests
      BY <1>0, <3>1
    <3>3. CASE lreq'[q] = [r EXCEPT !.arrived = @ \cup {s}]
      BY <3>1, <3>2, <3>3, ToolLocals
    <3>4. CASE lreq'[q] = r
      BY <3>1, <3>2, <3>4
    <3> QED
      BY <2>1, <3>1, <3>3, <3>4
  <2>5. lreq' \in [Procs -> Tools!Requests]
    BY <2>1, <2>4
  <2>6. \A q \in Procs : ToolStands(q)'
    BY <2>2, <2>4 DEF ToolsInv, ToolStands
  <2> QED
    BY <1>0, <2>2, <2>3, <2>5, <2>6 DEF ToolsInv, Tools!TypeOK, ToolRows
<1>5. ASSUME NEW p \in Procs, Tools!CallAttach(p) PROVE ToolsInv'
  <2>1. UNCHANGED <<live, cards, members, tool, cardIds, torn, lcrashes>>
    BY <1>5 DEF Tools!CallAttach
  <2>2. PICK x \in ToolProjects : \E s \in Sources :
          Tools!Becomes(p, "find", [Tools!Nothing EXCEPT !.kind = "attach", !.project = x, !.source = s])
    BY <1>5 DEF Tools!CallAttach
  <2>3. PICK s \in Sources :
          Tools!Becomes(p, "find", [Tools!Nothing EXCEPT !.kind = "attach", !.project = x, !.source = s])
    BY <2>2
  <2>4. PICK r : r = [Tools!Nothing EXCEPT !.kind = "attach", !.project = x, !.source = s]
    OBVIOUS
  <2>5. r \in Tools!Requests /\ r.project = x /\ r.source = s /\ r.todo = {}
    BY <2>4 DEF Tools!Nothing, Tools!Requests
  <2>6. ToolRequest("find", r)
    BY <1>0, <2>5 DEF ToolRequest, Tools!PCs
  <2>7. ToolRows'
    BY <1>0, <2>1 DEF ToolRows
  <2> QED
    BY <2>3, <2>4, <2>6, <2>7, ToolStep
<1>6. ASSUME NEW p \in Procs, Tools!FindProject(p) PROVE ToolsInv'
  <2>1. lpc[p] = "find" /\ UNCHANGED <<live, cards, members, tool, cardIds, torn, lcrashes>>
    BY <1>6 DEF Tools!FindProject
  <2>2. ToolRows'
    BY <1>0, <2>1 DEF ToolRows
  <2>3. CASE Tools!Goto(p, "insert")
    <3>1. Tools!Becomes(p, "insert", lreq[p])
      BY <1>0, <2>3 DEF Tools!Goto, Tools!Becomes
    <3>2. ToolRequest("insert", lreq[p])
      BY <1>0, <2>1 DEF ToolRequest, Tools!PCs
    <3> QED
      BY <2>2, <3>1, <3>2, ToolStep
  <2>4. CASE Tools!Continues(p)
    BY <2>1, <2>2, <2>4, ToolEnds
  <2> QED
    BY <1>6, <2>3, <2>4 DEF Tools!FindProject
<1>7. ASSUME NEW p \in Procs, Tools!InsertMember(p) PROVE ToolsInv'
  <2>1. /\ lpc[p] = "insert" /\ Tools!Continues(p)
        /\ members' = members \cup {<<lreq[p].project, lreq[p].source>>}
        /\ UNCHANGED <<live, cards, tool, cardIds, torn, lcrashes>>
    BY <1>7 DEF Tools!InsertMember
  <2>2. lreq[p].project \in ToolProjects /\ lreq[p].source \in Sources
    BY <1>0, <2>1 DEF ToolRequest, Tools!Requests
  <2>3. ToolRows'
    BY <1>0, <2>1, <2>2 DEF ToolRows
  <2> QED
    BY <2>1, <2>3, ToolEnds
<1>8. ASSUME NEW p \in Procs, Tools!CallDeleteSource(p) PROVE ToolsInv'
  <2>1. UNCHANGED <<cards, members, tool, cardIds, torn, lcrashes>>
    BY <1>8 DEF Tools!CallDeleteSource
  <2>2. PICK s \in live :
          /\ live' = live \ {s}
          /\ Tools!Becomes(p, "unlink", [Tools!Nothing EXCEPT !.kind = "delete", !.source = s])
    BY <1>8 DEF Tools!CallDeleteSource
  <2>3. PICK r : r = [Tools!Nothing EXCEPT !.kind = "delete", !.source = s]
    OBVIOUS
  <2>4. s \in Sources /\ ToolRows'
    BY <1>0, <2>1, <2>2 DEF ToolRows
  <2>5. r \in Tools!Requests
    BY <2>3, <2>4 DEF Tools!Nothing, Tools!Requests
  <2>6. ToolRequest("unlink", r)
    BY <2>5 DEF ToolRequest, Tools!PCs
  <2> QED
    BY <2>2, <2>3, <2>4, <2>6, ToolStep
<1>9. ASSUME NEW p \in Procs, Tools!RemoveEverywhere(p) PROVE ToolsInv'
  <2>1. ToolRows'
    BY <1>0, <1>9 DEF Tools!RemoveEverywhere, ToolRows
  <2> QED
    BY <1>9, <2>1, ToolEnds DEF Tools!RemoveEverywhere
<1>10. ASSUME NEW p \in Procs, Tools!CallList(p) \/ Tools!ReadInventory(p) PROVE ToolsInv'
  <2>1. UNCHANGED <<live, cards, members, tool, cardIds, torn, lcrashes>>
    BY <1>10 DEF Tools!CallList, Tools!ReadInventory
  <2>2. ToolRows'
    BY <1>0, <2>1 DEF ToolRows
  <2>3. CASE Tools!CallList(p)
    <3>1. PICK r : r = [Tools!Nothing EXCEPT !.kind = "list"]
      OBVIOUS
    <3>2. r \in Tools!Requests
      BY <3>1 DEF Tools!Nothing, Tools!Requests
    <3>3. ToolRequest("inventory", r)
      BY <3>2 DEF ToolRequest, Tools!PCs
    <3>4. Tools!Becomes(p, "inventory", r)
      BY <2>3, <3>1 DEF Tools!CallList
    <3> QED
      BY <2>2, <3>3, <3>4, ToolStep
  <2>4. CASE Tools!ReadInventory(p)
    <3>1. PICK inventory \in {live, {}} :
            Tools!Becomes(p, "list", [lreq[p] EXCEPT !.inventory = inventory])
      BY <2>4 DEF Tools!ReadInventory
    <3>2. inventory \in SUBSET Sources
      BY <1>0, <3>1 DEF ToolRows
    <3>3. ToolRequest("list", [lreq[p] EXCEPT !.inventory = inventory])
      BY <1>0, <3>2, ToolLocals DEF ToolRequest, Tools!PCs
    <3> QED
      BY <2>2, <3>1, <3>3, ToolStep
  <2> QED
    BY <1>10, <2>3, <2>4
<1>11. ASSUME NEW p \in Procs, Tools!List(p) \/ Tools!Relist(p) PROVE ToolsInv'
  <2>1. UNCHANGED <<live, cards, members, tool, cardIds, torn, lcrashes>>
    BY <1>11 DEF Tools!List, Tools!Relist
  <2>2. ToolRows'
    BY <1>0, <2>1 DEF ToolRows
  <2>3. CASE Tools!Listed(p, lreq[p].inventory)
    BY <2>2, <2>3, ToolListed
  <2>4. CASE Tools!Becomes(p, "adopt", [lreq[p] EXCEPT !.todo = lreq[p].inventory])
    <3>1. PICK todo : todo = lreq[p].inventory
      OBVIOUS
    <3>2. todo \subseteq Sources
      BY <1>0, <3>1 DEF Tools!Requests
    <3>3. ToolRequest("adopt", [lreq[p] EXCEPT !.todo = todo])
      BY <1>0, <3>2, ToolLocals DEF ToolRequest, Tools!PCs
    <3> QED
      BY <2>2, <2>4, <3>1, <3>3, ToolStep
  <2> QED
    BY <1>11, <2>3, <2>4 DEF Tools!List, Tools!Relist
<1>12. ASSUME NEW p \in Procs, Tools!Migrate(p) PROVE ToolsInv'
  <2>1. PICK x \in ToolProjects :
          /\ Tools!Created(x) /\ Tools!Becomes(p, "adopt", [lreq[p] EXCEPT !.project = x])
    BY <1>12 DEF Tools!Migrate
  <2>2. lpc[p] = "adopt" /\ UNCHANGED <<live, members, tool, torn, lcrashes>>
    BY <1>12 DEF Tools!Migrate
  <2>3. ToolRows'
    BY <1>0, <2>1, <2>2 DEF Tools!Created, ToolRows
  <2>4. ToolRequest("adopt", [lreq[p] EXCEPT !.project = x])
    BY <1>0, <2>2, ToolLocals DEF ToolRequest, Tools!PCs
  <2> QED
    BY <2>1, <2>3, <2>4, ToolStep
<1>13. ASSUME NEW p \in Procs, Tools!Adopt(p) PROVE ToolsInv'
  <2>1. /\ lpc[p] = "adopt" /\ lreq[p].project # None
        /\ UNCHANGED <<live, cards, members, tool, cardIds, torn, lcrashes>>
    BY <1>13 DEF Tools!Adopt
  <2>2. ToolRows'
    BY <1>0, <2>1 DEF ToolRows
  <2>3. CASE Tools!Goto(p, "relist")
    <3>1. Tools!Becomes(p, "relist", lreq[p])
      BY <1>0, <2>3 DEF Tools!Goto, Tools!Becomes
    <3>2. ToolRequest("relist", lreq[p])
      BY <1>0 DEF ToolRequest, Tools!PCs
    <3> QED
      BY <2>2, <3>1, <3>2, ToolStep
  <2>4. ASSUME NEW s \in lreq[p].todo,
               Tools!Becomes(p, "find", [lreq[p] EXCEPT !.source = s, !.todo = @ \ {s}])
        PROVE  ToolsInv'
    <3>1. PICK n : n = [lreq[p] EXCEPT !.source = s, !.todo = @ \ {s}]
      OBVIOUS
    <3>2. lreq[p] \in Tools!Requests /\ lreq[p].todo \subseteq Sources
      BY <1>0, <2>1 DEF ToolRequest
    <3>3. n \in Tools!Requests /\ n.project = lreq[p].project /\ n.source = s
          /\ n.todo \subseteq Sources
      BY <2>4, <3>1, <3>2 DEF Tools!Requests
    <3>4. s # None
      BY <1>0, <3>2
    <3>5. ToolRequest("find", n)
      BY <2>1, <3>3, <3>4 DEF ToolRequest, Tools!PCs
    <3> QED
      BY <2>2, <2>4, <3>1, <3>5, ToolStep
  <2> QED
    BY <1>13, <2>3, <2>4 DEF Tools!Adopt
<1>14. ASSUME NEW p \in Procs, Tools!Prune(p) PROVE ToolsInv'
  <2>1. UNCHANGED <<live, cards, tool, cardIds, torn, lcrashes>>
    BY <1>14 DEF Tools!Prune
  <2>2. members' \subseteq members
    BY <1>14 DEF Tools!Prune
  <2>3. ToolRows'
    BY <1>0, <2>1, <2>2 DEF ToolRows
  <2>4. CASE Tools!Ends(p)
    BY <2>3, <2>4, ToolEnds
  <2>5. ASSUME NEW row \in lreq[p].todo,
               Tools!Becomes(p, "prune", [lreq[p] EXCEPT !.todo = @ \ {row}])
        PROVE  ToolsInv'
    <3>1. PICK n : n = [lreq[p] EXCEPT !.todo = @ \ {row}]
      OBVIOUS
    <3>2. lreq[p] \in Tools!Requests
      BY <1>0
    <3>3. n \in Tools!Requests
      BY <3>1, <3>2 DEF Tools!Requests
    <3>4. ToolRequest("prune", n)
      BY <3>3 DEF ToolRequest, Tools!PCs
    <3> QED
      BY <2>3, <2>5, <3>1, <3>4, ToolStep
  <2> QED
    BY <1>14, <2>4, <2>5 DEF Tools!Prune
<1> QED
  BY <1>1, <1>2, <1>3, <1>4, <1>5, <1>6, <1>7, <1>8, <1>9, <1>10, <1>11, <1>12, <1>13, <1>14
     DEF Tools!Next

-----------------------------------------------------------------------------
(* ReportUpgrade. *)

ReportTables == [there : BOOLEAN, keyed : BOOLEAN, rows : SUBSET Upgrade!Row]

\* A request that has renamed the table and not yet copied it back.
Moved(p) == rpc[p] \in {"create", "copy"}

\* Where the tables are: one at least is there, the renamed one for as long as
\* the one request that renamed it, unless a restart cut that off.
TablesStand ==
  /\ main.there \/ spare.there
  /\ \A p \in Procs : Moved(p) => spare.there
  /\ \A p, q \in Procs : Moved(p) /\ Moved(q) => p = q
  /\ \A p \in Procs : rpc[p] = "copy" => main.there
  /\ ~cut /\ spare.there => \E p \in Procs : Moved(p)

\* Where the rows are.
RowsStand ==
  /\ ~main.there => main.rows = {}
  /\ ~spare.there => spare.rows = {}
  /\ ~main.keyed => \A row \in main.rows : row.source = Blank
  /\ \A row \in kept : \E r \in main.rows \cup spare.rows :
       r.id = row.id /\ r.source \in {row.source, Blank}

\* And while no two requests have migrated at a time.
OneMigration ==
  /\ \A p, q \in Upgrade!Migrating : p = q
  /\ \A p \in Procs : rpc[p] = "rename" => main.there /\ ~main.keyed
  /\ \A row \in spare.rows : row.source = Blank
  /\ kept \subseteq main.rows \cup spare.rows

UpgradeInv == Upgrade!TypeOK /\ TablesStand /\ RowsStand /\ (~beside => OneMigration)

(* It holds at the start: the table found has rows without a source.       *)
LEMMA UpgradeStarts == Upgrade!Init => UpgradeInv
<1> SUFFICES ASSUME Upgrade!Init PROVE UpgradeInv
  OBVIOUS
<1> USE InstanceAssumptions
<1>1. PICK rows \in FoundReports : main = Upgrade!Table(FALSE, rows) /\ kept = rows
  BY DEF Upgrade!Init
<1>2. /\ main.there = TRUE /\ main.keyed = FALSE /\ main.rows = rows /\ kept = rows
      /\ spare.there = FALSE /\ spare.keyed = TRUE /\ spare.rows = {}
  BY <1>1 DEF Upgrade!Init, Upgrade!Table, Upgrade!Missing
<1>3. \A row \in rows : row \in Upgrade!Row /\ row.source = Blank
  BY DEF Upgrade!UpgradeAssumption
<1>4. /\ rpc = [p \in Procs |-> "idle"] /\ rreq = [p \in Procs |-> Blank]
      /\ cut = FALSE /\ beside = FALSE /\ rcrashes = 0 /\ MaxCrashes \in Nat
  BY DEF Upgrade!Init, Upgrade!UpgradeAssumption
<1>5. Upgrade!TypeOK
  <2>1. rcrashes \in 0..MaxCrashes
    BY <1>4
  <2>2. rows \in SUBSET Upgrade!Row /\ {} \in SUBSET Upgrade!Row
    BY <1>3
  <2>3. main \in ReportTables /\ spare \in ReportTables
    BY <1>1, <2>2 DEF ReportTables, Upgrade!Init, Upgrade!Table, Upgrade!Missing
  <2> QED
    BY <1>1, <1>4, <2>1, <2>2, <2>3 DEF ReportTables, Upgrade!TypeOK, Upgrade!PCs
<1>6. \A p \in Procs : rpc[p] = "idle"
  BY <1>4
<1>7. TablesStand
  BY <1>2, <1>4, <1>6 DEF TablesStand, Moved
<1>8. RowsStand
  BY <1>2, <1>3 DEF RowsStand
<1>9. OneMigration
  BY <1>2, <1>6 DEF OneMigration, Upgrade!Migrating
<1> QED
  BY <1>5, <1>7, <1>8, <1>9 DEF UpgradeInv

(* A step that only moves a request on, or lets it fail, and touches no    *)
(* table: it neither starts nor ends a migration's rename.                 *)
LEMMA UpgradeQuiet ==
  ASSUME UpgradeInv, NEW p \in Procs, NEW l \in {"idle", "schema", "look", "body"},
         ~Moved(p), rpc' = [rpc EXCEPT ![p] = l],
         rreq' \in [Procs -> Upgrade!Row \cup {Blank}],
         \A q \in Procs : rpc'[q] # "idle" => rreq'[q] \in Upgrade!Row,
         UNCHANGED <<main, spare, kept, cut, beside, rcrashes>>
  PROVE  UpgradeInv'
<1>1. rpc \in [Procs -> Upgrade!PCs]
  BY DEF UpgradeInv, Upgrade!TypeOK
<1>2. \A q \in Procs : rpc'[q] = IF q = p THEN l ELSE rpc[q]
  BY <1>1
<1>3. rpc' \in [Procs -> Upgrade!PCs]
  BY <1>1 DEF Upgrade!PCs
<1>4. Upgrade!TypeOK'
  BY <1>3 DEF UpgradeInv, Upgrade!TypeOK
<1>5. \A q \in Procs : (Moved(q)' <=> Moved(q))
  BY <1>2 DEF Moved
<1>6. \A q \in Procs : rpc'[q] \in {"copy", "rename"} => rpc'[q] = rpc[q]
  BY <1>2
<1>7. TablesStand'
  BY <1>5, <1>6 DEF UpgradeInv, TablesStand
<1>8. RowsStand'
  BY DEF UpgradeInv, RowsStand
<1>9. Upgrade!Migrating' \subseteq Upgrade!Migrating
  BY <1>2 DEF Upgrade!Migrating
<1>10. ~beside' => OneMigration'
  BY <1>6, <1>9 DEF UpgradeInv, OneMigration
<1> QED
  BY <1>4, <1>7, <1>8, <1>10 DEF UpgradeInv

(* A request arrives, or fails.                                            *)
LEMMA UpgradeQuietSteps ==
  ASSUME UpgradeInv, NEW p \in Procs,
         \/ Upgrade!Store(p) \/ Upgrade!RenameFails(p) \/ Upgrade!CopyFails(p)
         \/ Upgrade!BodyFails(p)
  PROVE  UpgradeInv'
<1>0. /\ rpc \in [Procs -> Upgrade!PCs] /\ rreq \in [Procs -> Upgrade!Row \cup {Blank}]
      /\ \A q \in Procs : rpc[q] # "idle" => rreq[q] \in Upgrade!Row
  BY DEF UpgradeInv, Upgrade!TypeOK
<1>1. CASE Upgrade!Store(p)
  <2>1. PICK row \in ReportRows, s \in ReportSources :
          rreq' = [rreq EXCEPT ![p] = [id |-> row, source |-> s]]
    BY <1>1 DEF Upgrade!Store
  <2>2. PICK r \in Upgrade!Row : r = [id |-> row, source |-> s]
    BY DEF Upgrade!Row
  <2>3. /\ rpc[p] = "idle" /\ rpc' = [rpc EXCEPT ![p] = "schema"]
        /\ UNCHANGED <<main, spare, kept, cut, beside, rcrashes>>
    BY <1>1 DEF Upgrade!Store
  <2>4. rreq' \in [Procs -> Upgrade!Row \cup {Blank}]
    BY <1>0, <2>1, <2>2
  <2>5. \A q \in Procs : rpc'[q] # "idle" => rreq'[q] \in Upgrade!Row
    BY <1>0, <2>1, <2>2, <2>3
  <2> QED
    BY <2>3, <2>4, <2>5, UpgradeQuiet DEF Moved
<1>2. ASSUME Upgrade!Fails(p), ~Moved(p) PROVE UpgradeInv'
  <2>1. /\ rpc' = [rpc EXCEPT ![p] = "idle"] /\ rreq' = [rreq EXCEPT ![p] = Blank]
        /\ UNCHANGED <<main, spare, kept, cut, beside, rcrashes>>
    BY <1>2 DEF Upgrade!Fails
  <2>2. rreq' \in [Procs -> Upgrade!Row \cup {Blank}]
    BY <1>0, <2>1
  <2>3. \A q \in Procs : rpc'[q] # "idle" => rreq'[q] \in Upgrade!Row
    BY <1>0, <2>1
  <2> QED
    BY <1>2, <2>1, <2>2, <2>3, UpgradeQuiet
<1>3. ~Upgrade!CopyFails(p)
  BY DEF Upgrade!CopyFails, UpgradeInv, TablesStand, Moved
<1>4. CASE Upgrade!RenameFails(p)
  BY <1>2, <1>4 DEF Upgrade!RenameFails, Moved
<1>5. CASE Upgrade!BodyFails(p)
  BY <1>2, <1>5 DEF Upgrade!BodyFails, Moved
<1> QED
  BY <1>1, <1>3, <1>4, <1>5

(* A request looks for its table, and goes on to migrate it if it is old.  *)
LEMMA UpgradeLooks ==
  ASSUME UpgradeInv, NEW p \in Procs, Upgrade!Schema(p) \/ Upgrade!Look(p)
  PROVE  UpgradeInv'
<1>0. /\ rpc \in [Procs -> Upgrade!PCs] /\ rreq \in [Procs -> Upgrade!Row \cup {Blank}]
      /\ \A q \in Procs : rpc[q] # "idle" => rreq[q] \in Upgrade!Row
  BY DEF UpgradeInv, Upgrade!TypeOK
<1>1. CASE Upgrade!Schema(p)
  <2>1. /\ rpc[p] = "schema" /\ rpc' = [rpc EXCEPT ![p] = "look"] /\ rreq' = rreq
        /\ main' = IF main.there THEN main ELSE Upgrade!Table(TRUE, {})
        /\ UNCHANGED <<spare, kept, cut, beside, rcrashes>>
    BY <1>1 DEF Upgrade!Schema, Upgrade!Create, Upgrade!Goto
  <2>2. /\ main'.there = TRUE /\ main'.rows = main.rows /\ main'.keyed \in BOOLEAN
        /\ main.there => main' = main
        /\ ~main.there => main'.keyed
    BY <2>1 DEF UpgradeInv, RowsStand, Upgrade!TypeOK, Upgrade!Table
  <2>3. \A q \in Procs : rpc'[q] = IF q = p THEN "look" ELSE rpc[q]
    BY <1>0, <2>1
  <2>4. rpc' \in [Procs -> Upgrade!PCs]
    BY <1>0, <2>1 DEF Upgrade!PCs
  <2>5. Upgrade!TypeOK'
    <3>1. \A q \in Procs : rpc'[q] # "idle" => rreq'[q] \in Upgrade!Row
      BY <1>0, <2>1, <2>3
    <3>2. {} \in SUBSET Upgrade!Row /\ main \in ReportTables /\ spare \in ReportTables
      BY DEF ReportTables, UpgradeInv, Upgrade!TypeOK
    <3>3. main' \in ReportTables /\ spare' \in ReportTables
      BY <2>1, <3>2 DEF ReportTables, Upgrade!Table, Upgrade!Missing
    <3> QED
      BY <1>0, <2>1, <2>4, <3>1, <3>3 DEF ReportTables, UpgradeInv, Upgrade!TypeOK
  <2>6. \A q \in Procs : (Moved(q)' <=> Moved(q))
    BY <2>1, <2>3 DEF Moved
  <2>7. TablesStand'
    BY <2>1, <2>2, <2>6 DEF UpgradeInv, TablesStand
  <2>8. RowsStand'
    BY <2>1, <2>2 DEF UpgradeInv, RowsStand
  <2>9. Upgrade!Migrating' \subseteq Upgrade!Migrating
    BY <2>3 DEF Upgrade!Migrating
  <2>10. ASSUME ~beside' PROVE OneMigration'
    <3>1. OneMigration
      BY <2>1, <2>10 DEF UpgradeInv
    <3>2. \A q \in Procs : rpc'[q] = "rename" => main'.there /\ ~main'.keyed
      BY <2>2, <2>3, <3>1 DEF OneMigration
    <3>3. kept' \subseteq main'.rows \cup spare'.rows
      BY <2>1, <2>2, <3>1 DEF OneMigration
    <3> QED
      BY <2>1, <2>9, <3>1, <3>2, <3>3 DEF OneMigration
  <2> QED
    BY <2>5, <2>7, <2>8, <2>10 DEF UpgradeInv
<1>2. CASE Upgrade!Look(p)
  <2>1. PICK l : l = IF main.there /\ ~main.keyed THEN "rename" ELSE "body"
    OBVIOUS
  <2>2. /\ rpc[p] = "look" /\ rpc' = [rpc EXCEPT ![p] = l] /\ rreq' = rreq
        /\ beside' = (beside \/ (rpc'[p] = "rename" /\ Upgrade!Migrating # {}))
        /\ UNCHANGED <<main, spare, kept, cut, rcrashes>>
    BY <1>2, <2>1 DEF Upgrade!Look, Upgrade!Goto
  <2>3. \A q \in Procs : rpc'[q] = IF q = p THEN l ELSE rpc[q]
    BY <1>0, <2>2
  <2>4. rpc' \in [Procs -> Upgrade!PCs]
    BY <1>0, <2>1, <2>2 DEF Upgrade!PCs
  <2>5. Upgrade!TypeOK'
    <3>1. \A q \in Procs : rpc'[q] # "idle" => rreq'[q] \in Upgrade!Row
      BY <1>0, <2>2, <2>3
    <3>2. beside' \in BOOLEAN
      BY <2>2 DEF UpgradeInv, Upgrade!TypeOK
    <3> QED
      BY <1>0, <2>2, <2>4, <3>1, <3>2 DEF UpgradeInv, Upgrade!TypeOK
  <2>6. \A q \in Procs : (Moved(q)' <=> Moved(q))
    BY <2>1, <2>2, <2>3 DEF Moved
  <2>7. TablesStand'
    <3>1. \A q \in Procs : rpc'[q] = "copy" => rpc[q] = "copy"
      BY <2>1, <2>3
    <3> QED
      BY <2>2, <2>6, <3>1 DEF UpgradeInv, TablesStand
  <2>8. RowsStand'
    BY <2>2 DEF UpgradeInv, RowsStand
  <2>9. ~beside' => OneMigration'
    <3> SUFFICES ASSUME ~beside' PROVE OneMigration'
      OBVIOUS
    <3>1. ~beside /\ OneMigration
      BY <2>2 DEF UpgradeInv
    <3>2. l = "rename" => Upgrade!Migrating = {}
      BY <2>2, <2>3
    <3>3. l = "rename" => main.there /\ ~main.keyed
      BY <2>1
    <3>4. Upgrade!Migrating' \subseteq Upgrade!Migrating \cup {p}
      BY <2>3 DEF Upgrade!Migrating
    <3>5. l # "rename" => Upgrade!Migrating' \subseteq Upgrade!Migrating
      BY <2>1, <2>3 DEF Upgrade!Migrating
    <3>6. \A q, r \in Upgrade!Migrating' : q = r
      BY <3>1, <3>2, <3>4, <3>5 DEF OneMigration
    <3>7. \A q \in Procs : rpc'[q] = "rename" => main'.there /\ ~main'.keyed
      BY <2>2, <2>3, <3>1, <3>3 DEF OneMigration
    <3> QED
      BY <2>2, <3>1, <3>6, <3>7 DEF OneMigration
  <2> QED
    BY <2>5, <2>7, <2>8, <2>9 DEF UpgradeInv
<1> QED
  BY <1>1, <1>2

(* The rename of a table, which is then gone, and its new form.            *)
LEMMA UpgradeRenames ==
  ASSUME UpgradeInv, NEW p \in Procs, Upgrade!Rename(p) \/ Upgrade!Recreate(p)
  PROVE  UpgradeInv'
<1>0. /\ rpc \in [Procs -> Upgrade!PCs] /\ rreq \in [Procs -> Upgrade!Row \cup {Blank}]
      /\ \A q \in Procs : rpc[q] # "idle" => rreq[q] \in Upgrade!Row
  BY DEF UpgradeInv, Upgrade!TypeOK
<1>1. CASE Upgrade!Rename(p)
  <2>1. /\ rpc[p] = "rename" /\ rpc' = [rpc EXCEPT ![p] = "create"] /\ rreq' = rreq
        /\ main.there /\ ~spare.there /\ spare' = main /\ main' = Upgrade!Missing
        /\ UNCHANGED <<kept, cut, beside, rcrashes>>
    BY <1>1 DEF Upgrade!Rename, Upgrade!Goto
  <2>2. main'.there = FALSE /\ main'.keyed = TRUE /\ main'.rows = {}
    BY <2>1 DEF Upgrade!Missing
  <2>3. \A q \in Procs : rpc'[q] = IF q = p THEN "create" ELSE rpc[q]
    BY <1>0, <2>1
  <2>4. rpc' \in [Procs -> Upgrade!PCs]
    BY <1>0, <2>1 DEF Upgrade!PCs
  <2>5. Upgrade!TypeOK'
    <3>1. \A q \in Procs : rpc'[q] # "idle" => rreq'[q] \in Upgrade!Row
      BY <1>0, <2>1, <2>3
    <3>2. {} \in SUBSET Upgrade!Row /\ main \in ReportTables /\ spare \in ReportTables
      BY DEF ReportTables, UpgradeInv, Upgrade!TypeOK
    <3>3. main' \in ReportTables /\ spare' \in ReportTables
      BY <2>1, <3>2 DEF ReportTables, Upgrade!Table, Upgrade!Missing
    <3> QED
      BY <1>0, <2>1, <2>4, <3>1, <3>3 DEF ReportTables, UpgradeInv, Upgrade!TypeOK
  <2>6. \A q \in Procs : ~Moved(q)
    BY <2>1 DEF UpgradeInv, TablesStand
  <2>7. \A q \in Procs : (Moved(q)' <=> q = p) /\ rpc'[q] # "copy"
    BY <2>3, <2>6 DEF Moved
  <2>8. TablesStand'
    BY <2>1, <2>2, <2>7 DEF TablesStand
  <2>9. spare.rows = {} /\ main.rows \cup spare.rows = main'.rows \cup spare'.rows
    BY <2>1, <2>2 DEF UpgradeInv, RowsStand
  <2>10. RowsStand'
    BY <2>1, <2>2, <2>9 DEF UpgradeInv, RowsStand
  <2>11. ~beside' => OneMigration'
    <3> SUFFICES ASSUME ~beside' PROVE OneMigration'
      OBVIOUS
    <3>1. OneMigration /\ ~main.keyed
      BY <2>1 DEF UpgradeInv, OneMigration
    <3>2. \A row \in spare'.rows : row.source = Blank
      BY <2>1, <3>1 DEF UpgradeInv, RowsStand
    <3>3. Upgrade!Migrating' \subseteq Upgrade!Migrating /\ p \in Upgrade!Migrating
      BY <2>1, <2>3 DEF Upgrade!Migrating
    <3>4. \A q \in Procs : rpc'[q] # "rename"
      BY <2>3, <3>1, <3>3 DEF OneMigration, Upgrade!Migrating
    <3> QED
      BY <2>1, <2>9, <3>1, <3>2, <3>3, <3>4 DEF OneMigration
  <2> QED
    BY <2>5, <2>8, <2>10, <2>11 DEF UpgradeInv
<1>2. CASE Upgrade!Recreate(p)
  <2>1. /\ rpc[p] = "create" /\ rpc' = [rpc EXCEPT ![p] = "copy"] /\ rreq' = rreq
        /\ main' = IF main.there THEN main ELSE Upgrade!Table(TRUE, {})
        /\ UNCHANGED <<spare, kept, cut, beside, rcrashes>>
    BY <1>2 DEF Upgrade!Recreate, Upgrade!Create, Upgrade!Goto
  <2>2. /\ main'.there = TRUE /\ main'.rows = main.rows /\ main'.keyed \in BOOLEAN
        /\ main.there => main' = main
        /\ ~main.there => main'.keyed
    BY <2>1 DEF UpgradeInv, RowsStand, Upgrade!TypeOK, Upgrade!Table
  <2>3. \A q \in Procs : rpc'[q] = IF q = p THEN "copy" ELSE rpc[q]
    BY <1>0, <2>1
  <2>4. rpc' \in [Procs -> Upgrade!PCs]
    BY <1>0, <2>1 DEF Upgrade!PCs
  <2>5. Upgrade!TypeOK'
    <3>1. \A q \in Procs : rpc'[q] # "idle" => rreq'[q] \in Upgrade!Row
      BY <1>0, <2>1, <2>3
    <3>2. {} \in SUBSET Upgrade!Row /\ main \in ReportTables /\ spare \in ReportTables
      BY DEF ReportTables, UpgradeInv, Upgrade!TypeOK
    <3>3. main' \in ReportTables /\ spare' \in ReportTables
      BY <2>1, <3>2 DEF ReportTables, Upgrade!Table, Upgrade!Missing
    <3> QED
      BY <1>0, <2>1, <2>4, <3>1, <3>3 DEF ReportTables, UpgradeInv, Upgrade!TypeOK
  <2>6. \A q \in Procs : (Moved(q)' <=> Moved(q))
    BY <2>1, <2>3 DEF Moved
  <2>7. TablesStand'
    BY <2>1, <2>2, <2>6 DEF UpgradeInv, TablesStand
  <2>8. RowsStand'
    BY <2>1, <2>2 DEF UpgradeInv, RowsStand
  <2>9. Upgrade!Migrating' = Upgrade!Migrating
    BY <2>1, <2>3 DEF Upgrade!Migrating
  <2>10. ASSUME ~beside' PROVE OneMigration'
    <3>1. OneMigration
      BY <2>1, <2>10 DEF UpgradeInv
    <3>2. \A q \in Procs : rpc'[q] = "rename" => main'.there /\ ~main'.keyed
      BY <2>2, <2>3, <3>1 DEF OneMigration
    <3>3. kept' \subseteq main'.rows \cup spare'.rows
      BY <2>1, <2>2, <3>1 DEF OneMigration
    <3> QED
      BY <2>1, <2>9, <3>1, <3>2, <3>3 DEF OneMigration
  <2> QED
    BY <2>5, <2>7, <2>8, <2>10 DEF UpgradeInv
<1> QED
  BY <1>1, <1>2

(* The copy of the rows, which ends a migration.                           *)
LEMMA UpgradeCopies ==
  ASSUME UpgradeInv, NEW p \in Procs, Upgrade!Copy(p)
  PROVE  UpgradeInv'
<1>0. /\ rpc \in [Procs -> Upgrade!PCs] /\ rreq \in [Procs -> Upgrade!Row \cup {Blank}]
      /\ \A q \in Procs : rpc[q] # "idle" => rreq[q] \in Upgrade!Row
      /\ main.rows \subseteq Upgrade!Row /\ spare.rows \subseteq Upgrade!Row
      /\ main.there \in BOOLEAN /\ main.keyed \in BOOLEAN
  BY DEF UpgradeInv, Upgrade!TypeOK
<1>1. /\ rpc[p] = "copy" /\ rpc' = [rpc EXCEPT ![p] = "body"] /\ rreq' = rreq
      /\ main.there /\ spare.there /\ spare' = Upgrade!Missing
      /\ main' = [main EXCEPT !.rows = Upgrade!Copied(@, spare.rows)]
      /\ UNCHANGED <<kept, cut, beside, rcrashes>>
  BY DEF Upgrade!Copy, Upgrade!Goto
<1>2. PICK blanked : blanked = Upgrade!Blanked(spare.rows)
  OBVIOUS
<1>3. /\ \A r \in spare.rows : \E b \in blanked : b = [r EXCEPT !.source = Blank]
      /\ \A b \in blanked : \E r \in spare.rows : b = [r EXCEPT !.source = Blank]
  BY <1>2 DEF Upgrade!Blanked
<1>4. \A r \in Upgrade!Row : /\ [r EXCEPT !.source = Blank] \in Upgrade!Row
                             /\ [r EXCEPT !.source = Blank].id = r.id
                             /\ [r EXCEPT !.source = Blank].source = Blank
                             /\ r.source = Blank => [r EXCEPT !.source = Blank] = r
  BY DEF Upgrade!Row
<1>5. blanked \subseteq Upgrade!Row /\ \A b \in blanked : b.source = Blank
  <2>1. ASSUME NEW b \in blanked PROVE b \in Upgrade!Row /\ b.source = Blank
    <3>1. PICK r \in spare.rows : b = [r EXCEPT !.source = Blank]
      BY <1>3
    <3>2. r \in Upgrade!Row
      BY <1>0
    <3> QED
      BY <1>4, <3>1, <3>2, Zenon
  <2> QED
    BY <2>1
<1>6. /\ main'.there = TRUE /\ main'.keyed = main.keyed /\ main'.rows = main.rows \cup blanked
      /\ spare'.there = FALSE /\ spare'.keyed = TRUE /\ spare'.rows = {}
  <2>1. main \in [there : BOOLEAN, keyed : BOOLEAN, rows : SUBSET Upgrade!Row]
    BY DEF UpgradeInv, Upgrade!TypeOK
  <2> QED
    BY <1>1, <1>2, <2>1 DEF Upgrade!Missing, Upgrade!Copied
<1>7. \A q \in Procs : rpc'[q] = IF q = p THEN "body" ELSE rpc[q]
  BY <1>0, <1>1
<1>8. Upgrade!TypeOK'
  <2>1. rpc' \in [Procs -> Upgrade!PCs]
    BY <1>0, <1>1 DEF Upgrade!PCs
  <2>2. \A q \in Procs : rpc'[q] # "idle" => rreq'[q] \in Upgrade!Row
    BY <1>0, <1>1, <1>7
  <2>3. main'.rows \subseteq Upgrade!Row
    BY <1>0, <1>5, <1>6
  <2>4. main \in ReportTables
    BY DEF ReportTables, UpgradeInv, Upgrade!TypeOK
  <2>5. main' \in ReportTables
    <3>1. main' = [main EXCEPT !.rows = main'.rows]
      BY <1>1, <2>4 DEF ReportTables
    <3> QED
      BY <2>3, <2>4, <3>1 DEF ReportTables
  <2>6. {} \in SUBSET Upgrade!Row /\ spare' \in ReportTables
    BY <1>1 DEF ReportTables, Upgrade!Missing
  <2> QED
    BY <1>0, <1>1, <2>1, <2>2, <2>5, <2>6 DEF ReportTables, UpgradeInv, Upgrade!TypeOK
<1>9. \A q \in Procs : (Moved(q) <=> q = p)
  BY <1>1 DEF UpgradeInv, TablesStand, Moved
<1>10. \A q \in Procs : ~Moved(q)' /\ rpc'[q] # "copy"
  BY <1>7, <1>9 DEF Moved
<1>11. TablesStand'
  BY <1>6, <1>10 DEF TablesStand
<1>12. RowsStand'
  <2>1. ~main'.keyed => \A row \in main'.rows : row.source = Blank
    BY <1>5, <1>6 DEF UpgradeInv, RowsStand
  <2>2. ASSUME NEW row \in kept'
        PROVE  \E r \in main'.rows \cup spare'.rows :
                 r.id = row.id /\ r.source \in {row.source, Blank}
    <3>1. PICK r \in main.rows \cup spare.rows : r.id = row.id /\ r.source \in {row.source, Blank}
      BY <1>1 DEF UpgradeInv, RowsStand
    <3>2. CASE r \in main.rows
      BY <1>6, <3>1, <3>2
    <3>3. CASE r \in spare.rows
      <4>1. PICK b \in blanked : b = [r EXCEPT !.source = Blank]
        BY <1>3, <3>3
      <4>2. b.id = r.id /\ b.source = Blank
        BY <1>0, <1>4, <3>3, <4>1
      <4> QED
        BY <1>6, <3>1, <4>2
    <3> QED
      BY <3>2, <3>3
  <2> QED
    BY <1>6, <2>1, <2>2 DEF RowsStand
<1>13. ~beside' => OneMigration'
  <2> SUFFICES ASSUME ~beside' PROVE OneMigration'
    OBVIOUS
  <2>1. OneMigration
    BY <1>1 DEF UpgradeInv
  <2>2. \A r \in spare.rows : r \in blanked
    BY <1>0, <1>3, <1>4, <2>1 DEF OneMigration
  <2>3. kept' \subseteq main'.rows \cup spare'.rows
    BY <1>1, <1>6, <2>1, <2>2 DEF OneMigration
  <2>4. Upgrade!Migrating' \subseteq Upgrade!Migrating
    BY <1>7 DEF Upgrade!Migrating
  <2>5. \A q \in Procs : rpc'[q] = "rename" => main'.there /\ ~main'.keyed
    BY <1>6, <1>7, <2>1 DEF OneMigration
  <2> QED
    BY <1>6, <2>1, <2>3, <2>4, <2>5 DEF OneMigration
<1> QED
  BY <1>8, <1>11, <1>12, <1>13 DEF UpgradeInv

(* A row is stored.                                                        *)
LEMMA UpgradeStores ==
  ASSUME UpgradeInv, NEW p \in Procs, Upgrade!Body(p)
  PROVE  UpgradeInv'
<1>0. /\ rpc \in [Procs -> Upgrade!PCs] /\ rreq \in [Procs -> Upgrade!Row \cup {Blank}]
      /\ \A q \in Procs : rpc[q] # "idle" => rreq[q] \in Upgrade!Row
      /\ main.rows \subseteq Upgrade!Row /\ kept \subseteq Upgrade!Row
      /\ main \in [there : BOOLEAN, keyed : BOOLEAN, rows : SUBSET Upgrade!Row]
  BY DEF UpgradeInv, Upgrade!TypeOK
<1>1. PICK row : row = rreq[p]
  OBVIOUS
<1>2. /\ rpc[p] = "body" /\ rpc' = [rpc EXCEPT ![p] = "idle"] /\ rreq' = [rreq EXCEPT ![p] = Blank]
      /\ main.there /\ main.keyed
      /\ main' = [main EXCEPT !.rows = @ \cup {row}] /\ kept' = kept \cup {row}
      /\ UNCHANGED <<spare, cut, beside, rcrashes>>
  BY <1>1 DEF Upgrade!Body
<1>3. row \in Upgrade!Row
  BY <1>0, <1>1, <1>2
<1>4. main'.there = main.there /\ main'.keyed = main.keyed /\ main'.rows = main.rows \cup {row}
  BY <1>0, <1>2
<1>5. \A q \in Procs : rpc'[q] = IF q = p THEN "idle" ELSE rpc[q]
  BY <1>0, <1>2
<1>6. Upgrade!TypeOK'
  <2>1. rpc' \in [Procs -> Upgrade!PCs] /\ rreq' \in [Procs -> Upgrade!Row \cup {Blank}]
    BY <1>0, <1>2 DEF Upgrade!PCs
  <2>2. \A q \in Procs : rpc'[q] # "idle" => rreq'[q] \in Upgrade!Row
    BY <1>0, <1>2, <1>5
  <2>3. main'.rows \subseteq Upgrade!Row /\ kept' \subseteq Upgrade!Row
    BY <1>0, <1>2, <1>3, <1>4
  <2> QED
    BY <1>0, <1>2, <1>4, <2>1, <2>2, <2>3 DEF UpgradeInv, Upgrade!TypeOK
<1>7. \A q \in Procs : (Moved(q)' <=> Moved(q)) /\ (rpc'[q] = "copy" <=> rpc[q] = "copy")
  BY <1>2, <1>5 DEF Moved
<1>8. TablesStand'
  BY <1>2, <1>4, <1>7 DEF UpgradeInv, TablesStand
<1>9. RowsStand'
  <2>1. \A r \in kept : \E k \in main'.rows \cup spare'.rows :
          k.id = r.id /\ k.source \in {r.source, Blank}
    BY <1>2, <1>4 DEF UpgradeInv, RowsStand
  <2>2. \A r \in kept' : \E k \in main'.rows \cup spare'.rows :
          k.id = r.id /\ k.source \in {r.source, Blank}
    BY <1>2, <1>4, <2>1
  <2> QED
    BY <1>2, <1>4, <2>2 DEF UpgradeInv, RowsStand
<1>10. ~beside' => OneMigration'
  <2> SUFFICES ASSUME ~beside' PROVE OneMigration'
    OBVIOUS
  <2>1. OneMigration
    BY <1>2 DEF UpgradeInv
  <2>2. Upgrade!Migrating' \subseteq Upgrade!Migrating
    BY <1>5 DEF Upgrade!Migrating
  <2>3. \A q \in Procs : rpc'[q] = "rename" => main'.there /\ ~main'.keyed
    BY <1>2, <1>4, <1>5, <2>1 DEF OneMigration
  <2>4. kept' \subseteq main'.rows \cup spare'.rows
    BY <1>2, <1>4, <2>1 DEF OneMigration
  <2> QED
    BY <1>2, <2>1, <2>2, <2>3, <2>4 DEF OneMigration
<1> QED
  BY <1>6, <1>8, <1>9, <1>10 DEF UpgradeInv

(* A restart; one between a rename and its copy is recorded.               *)
LEMMA UpgradeCrashes ==
  ASSUME UpgradeInv, Upgrade!Crash
  PROVE  UpgradeInv'
<1>1. /\ rpc' = [p \in Procs |-> "idle"] /\ rreq' = [p \in Procs |-> Blank]
      /\ (cut' <=> (cut \/ \E p \in Procs : Moved(p))) /\ cut' \in BOOLEAN
      /\ UNCHANGED <<main, spare, kept, beside>>
  BY DEF Upgrade!Crash, Moved
<1>2. rcrashes' \in 0..MaxCrashes
  <2>1. rcrashes \in 0..MaxCrashes /\ MaxCrashes \in Nat
    BY InstanceAssumptions DEF UpgradeInv, Upgrade!TypeOK, Upgrade!UpgradeAssumption
  <2>2. rcrashes < MaxCrashes /\ rcrashes' = rcrashes + 1
    BY DEF Upgrade!Crash
  <2> QED
    BY <2>1, <2>2
<1>3. Upgrade!TypeOK'
  BY <1>1, <1>2 DEF UpgradeInv, Upgrade!TypeOK, Upgrade!PCs
<1>4. \A p \in Procs : ~Moved(p)' /\ rpc'[p] = "idle"
  BY <1>1 DEF Moved
<1>5. TablesStand'
  BY <1>1, <1>4 DEF UpgradeInv, TablesStand
<1>6. RowsStand'
  BY <1>1 DEF UpgradeInv, RowsStand
<1>7. ~beside' => OneMigration'
  BY <1>1, <1>4 DEF UpgradeInv, OneMigration, Upgrade!Migrating
<1> QED
  BY <1>3, <1>5, <1>6, <1>7 DEF UpgradeInv

(* Every step keeps it.                                                    *)
LEMMA UpgradeStep == UpgradeInv /\ (Upgrade!Next \/ UNCHANGED upgrading) => UpgradeInv'
<1> SUFFICES ASSUME UpgradeInv, Upgrade!Next \/ UNCHANGED upgrading PROVE UpgradeInv'
  OBVIOUS
<1>1. CASE UNCHANGED upgrading
  BY <1>1 DEF upgrading, UpgradeInv, Upgrade!TypeOK, TablesStand, Moved, RowsStand, OneMigration,
     Upgrade!Migrating
<1> QED
  BY <1>1, UpgradeQuietSteps, UpgradeLooks, UpgradeRenames, UpgradeCopies, UpgradeStores,
     UpgradeCrashes DEF Upgrade!Next

(* When no request is under way every row is where it belongs.             *)
LEMMA UpgradePreserves == UpgradeInv => Upgrade!RowsArePreserved
<1> SUFFICES ASSUME UpgradeInv, \A p \in Procs : rpc[p] = "idle", ~cut, NEW row \in kept
             PROVE  /\ main.there
                    /\ main.keyed => \E r \in main.rows : r.id = row.id /\ r.source \in {row.source, Blank}
                    /\ main.keyed /\ ~beside => row \in main.rows
  BY DEF Upgrade!RowsArePreserved
<1>1. ~spare.there
  BY DEF UpgradeInv, TablesStand, Moved
<1>2. main.there /\ spare.rows = {}
  BY <1>1 DEF UpgradeInv, TablesStand, RowsStand
<1> QED
  BY <1>2 DEF UpgradeInv, RowsStand, OneMigration
-----------------------------------------------------------------------------
(* ChatMigration. *)

(* The module's cardinality is that of FiniteSets.                         *)
LEMMA SameCardinality == \A S : Migration!Cardinality(S) = Cardinality(S)
BY DEF Migration!Cardinality, Cardinality, Migration!IsFiniteSet, IsFiniteSet

(* ORDER BY created_at lists the messages of a table, and all of them.     *)
LEMMA ByCreationIs ==
  ASSUME NEW rows \in Seq(Migration!Stamps)
  PROVE  /\ Migration!ByCreation(rows) \in Seq(Migration!Stamps)
         /\ Migration!ToSet(Migration!ByCreation(rows)) = Migration!ToSet(rows)
<1> PICK S : S = Migration!ToSet(rows)
  OBVIOUS
<1> PICK n : n = Cardinality(S)
  OBVIOUS
<1> DEFINE R == {ss \in S \X S : ss[1] < ss[2]}
           rank(i) == Cardinality(Below(S, R, i))
           o == Migration!ByCreation(rows)
<1>1. S \subseteq Migration!Stamps /\ Migration!Stamps \subseteq Nat
  <2>1. Migration!Stamps \subseteq Nat
    BY InstanceAssumptions DEF Migration!Stamps, Migration!UpgradeBounds
  <2>2. \A i \in DOMAIN rows : rows[i] \in Migration!Stamps
    OBVIOUS
  <2>3. \A s \in S : \E i \in DOMAIN rows : s = rows[i]
    BY DEF Migration!ToSet
  <2> QED
    BY <2>1, <2>2, <2>3
<1>2. IsFiniteSet(S) /\ n \in Nat
  <2>1. IsFiniteSet(Migration!Stamps)
    BY InstanceAssumptions, FS_Interval DEF Migration!Stamps, Migration!UpgradeBounds
  <2> QED
    BY <1>1, <2>1, FS_Subset, FS_CardinalityType
<1>3. \A i, j \in S : (<<i, j>> \in R <=> i < j)
  OBVIOUS
<1>4. R \in SUBSET (S \X S)
  OBVIOUS
<1> HIDE DEF R
<1>5. StrictOrder(S, R)
  BY <1>1, <1>3 DEF StrictOrder
<1>6. \A i \in S : {s \in S : s < i} = Below(S, R, i)
  BY <1>3 DEF Below
<1>7. o = [k \in 1..n |-> CHOOSE i \in S : rank(i) = k - 1]
  <2>1. o = [k \in 1..Migration!Cardinality(S) |->
               CHOOSE at \in S : Migration!Cardinality({s \in S : s < at}) = k - 1]
    BY DEF Migration!ByCreation
  <2>2. Migration!Cardinality(S) = n
    BY SameCardinality
  <2>3. \A k \in 1..n : (CHOOSE at \in S : Migration!Cardinality({s \in S : s < at}) = k - 1)
                          = (CHOOSE i \in S : rank(i) = k - 1)
    <3>1. \A i \in S : Migration!Cardinality({s \in S : s < i}) = rank(i)
      BY <1>6, SameCardinality
    <3> QED
      BY <3>1
  <2> QED
    BY <2>1, <2>2, <2>3
<1>8. ASSUME NEW k \in 1..n PROVE o[k] \in S /\ rank(o[k]) = k - 1
  <2>1. \E i \in S : rank(i) = k - 1
    BY <1>2, <1>5, RanksExist
  <2>2. o[k] = CHOOSE i \in S : rank(i) = k - 1
    BY <1>7
  <2> HIDE DEF o, rank
  <2> QED
    BY <2>1, <2>2
<1>9. \A i, j \in S : rank(i) = rank(j) => i = j
  <2> SUFFICES ASSUME NEW i \in S, NEW j \in S, rank(i) = rank(j), i # j PROVE FALSE
    OBVIOUS
  <2>1. rank(i) \in Int /\ rank(j) \in Int
    BY <1>2, <1>5, RanksGrow
  <2>2. <<i, j>> \in R \/ <<j, i>> \in R
    BY <1>5 DEF StrictOrder
  <2>3. rank(i) < rank(j) \/ rank(j) < rank(i)
    BY <1>2, <1>5, <2>2, RanksGrow
  <2> HIDE DEF rank
  <2> QED
    BY <2>1, <2>3
<1>10. ASSUME NEW i \in S PROVE \E k \in 1..n : o[k] = i
  <2>1. rank(i) \in 0..(n - 1)
    BY <1>2, <1>5, RanksGrow
  <2>2. PICK k : k = rank(i) + 1
    OBVIOUS
  <2>3. k \in 1..n /\ k - 1 = rank(i)
    <3> HIDE DEF rank
    <3> QED
      BY <1>2, <2>1, <2>2
  <2>4. o[k] \in S /\ rank(o[k]) = rank(i)
    BY <1>8, <2>3
  <2> HIDE DEF o, rank
  <2> QED
    BY <1>9, <2>3, <2>4
<1>11. DOMAIN o = 1..n /\ o = [k \in 1..n |-> o[k]]
  BY <1>7
<1> HIDE DEF o, rank
<1>12. o \in [1..n -> S]
  BY <1>8, <1>11
<1>13. o \in Seq(Migration!Stamps)
  BY <1>1, <1>2, <1>12
<1>14. Migration!ToSet(o) = S
  BY <1>8, <1>10, <1>11 DEF Migration!ToSet
<1> QED
  BY <1>13, <1>14 DEF o

(* A prefix has the same elements at its places.                           *)
LEMMA PrefixIs ==
  ASSUME NEW S, NEW s \in Seq(S), NEW t \in Seq(S)
  PROVE  Migration!IsPrefix(s, t) <=> Len(s) <= Len(t) /\ \A i \in 1..Len(s) : s[i] = t[i]
<1>1. Len(s) \in Nat /\ Len(t) \in Nat /\ DOMAIN s = 1..Len(s)
  OBVIOUS
<1>2. ASSUME Len(s) <= Len(t)
      PROVE  SubSeq(s, 1, Len(s)) = SubSeq(t, 1, Len(s)) <=> \A i \in 1..Len(s) : s[i] = t[i]
  <2>1. /\ SubSeq(s, 1, Len(s)) = [i \in 1..Len(s) |-> s[i]]
        /\ SubSeq(t, 1, Len(s)) = [i \in 1..Len(s) |-> t[i]]
    BY <1>1, <1>2
  <2>2. ASSUME \A i \in 1..Len(s) : s[i] = t[i]
        PROVE  [i \in 1..Len(s) |-> s[i]] = [i \in 1..Len(s) |-> t[i]]
    BY <2>2
  <2>3. ASSUME [i \in 1..Len(s) |-> s[i]] = [i \in 1..Len(s) |-> t[i]], NEW i \in 1..Len(s)
        PROVE  s[i] = t[i]
    <3>1. [j \in 1..Len(s) |-> s[j]][i] = s[i] /\ [j \in 1..Len(s) |-> t[j]][i] = t[i]
      OBVIOUS
    <3> QED
      BY <2>3, <3>1, Zenon
  <2> QED
    BY <2>1, <2>2, <2>3
<1> QED
  BY <1>2 DEF Migration!IsPrefix

(* A list is a prefix of itself, and of itself with more at its end.       *)
LEMMA PrefixGrows ==
  ASSUME NEW S, NEW s \in Seq(S), NEW t \in Seq(S), NEW x \in S
  PROVE  /\ Migration!IsPrefix(s, s)
         /\ Migration!IsPrefix(s, t) => Migration!IsPrefix(s, Append(t, x))
<1>1. Migration!IsPrefix(s, s)
  BY PrefixIs
<1>2. /\ Append(t, x) \in Seq(S) /\ Len(Append(t, x)) = Len(t) + 1
      /\ \A i \in 1..Len(t) : Append(t, x)[i] = t[i]
  BY AppendProperties
<1>3. ASSUME Migration!IsPrefix(s, t) PROVE Migration!IsPrefix(s, Append(t, x))
  <2>1. Len(s) <= Len(t) /\ \A i \in 1..Len(s) : s[i] = t[i]
    BY <1>3, PrefixIs
  <2>2. Len(s) \in Nat /\ Len(t) \in Nat
    OBVIOUS
  <2>3. Len(s) <= Len(Append(t, x)) /\ \A i \in 1..Len(s) : s[i] = Append(t, x)[i]
    BY <1>2, <2>1, <2>2
  <2> QED
    BY <1>2, <2>3, PrefixIs
<1> QED
  BY <1>1, <1>3

(* What more at the end of a table adds to its messages.                   *)
LEMMA RowsOf ==
  ASSUME NEW S, NEW s \in Seq(S), NEW t \in Seq(S), NEW x \in S
  PROVE  /\ Migration!ToSet(Append(s, x)) = Migration!ToSet(s) \cup {x}
         /\ Migration!ToSet(s \o t) = Migration!ToSet(s) \cup Migration!ToSet(t)
         /\ Migration!ToSet(<<>>) = {}
<1> USE DEF Migration!ToSet
<1>0. DOMAIN s = 1..Len(s) /\ DOMAIN t = 1..Len(t) /\ Len(s) \in Nat /\ Len(t) \in Nat
  OBVIOUS
<1>1. Migration!ToSet(Append(s, x)) = Migration!ToSet(s) \cup {x}
  <2>1. /\ Append(s, x) \in Seq(S) /\ Len(Append(s, x)) = Len(s) + 1
        /\ \A i \in 1..Len(s) : Append(s, x)[i] = s[i]
        /\ Append(s, x)[Len(s) + 1] = x
    BY AppendProperties
  <2>2. DOMAIN Append(s, x) = 1..(Len(s) + 1)
    BY <2>1
  <2>3. 1..(Len(s) + 1) = 1..Len(s) \cup {Len(s) + 1}
    BY <1>0
  <2> QED
    BY <1>0, <2>1, <2>2, <2>3
<1>2. Migration!ToSet(s \o t) = Migration!ToSet(s) \cup Migration!ToSet(t)
  <2>1. /\ s \o t \in Seq(S) /\ Len(s \o t) = Len(s) + Len(t)
        /\ \A i \in 1..Len(s) : (s \o t)[i] = s[i]
        /\ \A i \in 1..Len(t) : (s \o t)[Len(s) + i] = t[i]
    <3>1. /\ s \o t \in Seq(S) /\ Len(s \o t) = Len(s) + Len(t)
          /\ \A i \in 1..(Len(s) + Len(t)) :
               (s \o t)[i] = IF i <= Len(s) THEN s[i] ELSE t[i - Len(s)]
      BY ConcatProperties
    <3> QED
      BY <1>0, <3>1
  <2>2. DOMAIN (s \o t) = 1..(Len(s) + Len(t))
    BY <2>1
  <2>3. ASSUME NEW i \in 1..(Len(s) + Len(t))
        PROVE  (s \o t)[i] \in Migration!ToSet(s) \cup Migration!ToSet(t)
    <3>1. CASE i <= Len(s)
      <4>1. i \in 1..Len(s)
        BY <1>0, <3>1
      <4> QED
        BY <1>0, <2>1, <4>1
    <3>2. CASE i > Len(s)
      <4>1. i - Len(s) \in 1..Len(t) /\ Len(s) + (i - Len(s)) = i
        BY <1>0, <3>2
      <4> QED
        BY <1>0, <2>1, <4>1
    <3> QED
      BY <1>0, <3>1, <3>2
  <2>4. ASSUME NEW i \in 1..Len(s) PROVE s[i] \in Migration!ToSet(s \o t)
    <3>1. i \in 1..(Len(s) + Len(t))
      BY <1>0
    <3> QED
      BY <2>1, <2>2, <3>1
  <2>5. ASSUME NEW i \in 1..Len(t) PROVE t[i] \in Migration!ToSet(s \o t)
    <3>1. Len(s) + i \in 1..(Len(s) + Len(t))
      BY <1>0
    <3> QED
      BY <2>1, <2>2, <3>1
  <2>6. Migration!ToSet(s \o t) \subseteq Migration!ToSet(s) \cup Migration!ToSet(t)
    BY <2>2, <2>3
  <2>7. Migration!ToSet(s) \cup Migration!ToSet(t) \subseteq Migration!ToSet(s \o t)
    <3>1. ASSUME NEW m \in Migration!ToSet(s) PROVE m \in Migration!ToSet(s \o t)
      <4>1. PICK i \in 1..Len(s) : m = s[i]
        BY <1>0
      <4> QED
        BY <2>4, <4>1
    <3>2. ASSUME NEW m \in Migration!ToSet(t) PROVE m \in Migration!ToSet(s \o t)
      <4>1. PICK i \in 1..Len(t) : m = t[i]
        BY <1>0
      <4> QED
        BY <2>5, <4>1
    <3> QED
      BY <3>1, <3>2
  <2> QED
    BY <2>6, <2>7
<1>3. Migration!ToSet(<<>>) = {}
  OBVIOUS
<1> QED
  BY <1>1, <1>2, <1>3

FileTables ==
  [there : BOOLEAN, seq : BOOLEAN, index : BOOLEAN, rows : Seq(Migration!Stamps)]

\* A request that has renamed the table and not yet copied it back.
Cut(p) == upc[p] \in {"create", "copy"}

\* Where the messages are: the renamed table is there for as long as the one
\* request that renamed it, unless that was cut off.
FileStands ==
  /\ \A p \in Upgraders : Cut(p) => legacy.there
  /\ \A p, q \in Upgraders : Cut(p) /\ Cut(q) => p = q
  /\ \A p \in Upgraders : upc[p] = "copy" => table.there
  /\ \A p \in Upgraders : upc[p] = "body" => table.seq
  /\ \A p \in Upgraders : ureq[p].kind = "add" => ureq[p].at \in Migration!Stamps
  /\ ~table.there => table.seq /\ table.rows = <<>>
  /\ ~legacy.there => legacy.rows = <<>>
  /\ legacy.there => table.seq
  /\ ~interrupted /\ legacy.there => \E p \in Upgraders : Cut(p)
  /\ stored \subseteq Migration!ToSet(table.rows) \cup Migration!ToSet(legacy.rows)

\* What the last reader was shown, while nobody runs beside a migration.
ShownStands ==
  /\ \A p, q \in Upgraders : Migration!Migrating(p) /\ q # p => upc[q] = "idle"
  /\ \A p \in Upgraders : upc[p] = "rename" => table.there /\ ~table.seq
  /\ ~table.seq => told = Migration!ByCreation(table.rows)
  /\ table.seq /\ ~legacy.there => Migration!IsPrefix(told, table.rows)
  /\ legacy.there => table.rows = <<>> /\ told = Migration!ByCreation(legacy.rows)

MigrationInv ==
  /\ Migration!TypeOK /\ FileStands
  /\ ~interrupted /\ ~overlapped => ShownStands

(* The types of it, and that an absent table is as a new one.              *)
LEMMA FileTypes ==
  /\ MigrationInv =>
       /\ upc \in [Upgraders -> Migration!PCs] /\ table \in FileTables /\ legacy \in FileTables
       /\ ureq \in [Upgraders -> [kind : {"none", "add", "read"}, at : 0..MaxMessages]]
       /\ interrupted \in BOOLEAN /\ overlapped \in BOOLEAN /\ told \in Seq(Migration!Stamps)
       /\ stored \subseteq Migration!Stamps /\ clock \in 0..MaxMessages
       /\ ufaults \in 0..MaxFaults /\ ucrashes \in 0..MaxCrashes
  /\ Migration!Absent \in FileTables /\ Migration!Absent.there = FALSE
  /\ Migration!Absent.seq = TRUE /\ Migration!Absent.rows = <<>>
  /\ Migration!Fresh \in FileTables /\ Migration!Fresh.there = TRUE
  /\ Migration!Fresh.seq = TRUE /\ Migration!Fresh.rows = <<>>
<1>1. <<>> \in Seq(Migration!Stamps)
  OBVIOUS
<1> QED
  BY <1>1 DEF MigrationInv, Migration!TypeOK, FileTables, Migration!Absent, Migration!Fresh

(* At the start: an old file lists its messages by created_at, a new one as*)
(* they were written.                                                      *)
LEMMA MigrationInit == Migration!Init => MigrationInv
<1> SUFFICES ASSUME Migration!Init PROVE MigrationInv
  OBVIOUS
<1>1. PICK n \in 0..MaxMessages, ordered \in BOOLEAN, seq \in BOOLEAN, index \in BOOLEAN :
        LET rows == IF ordered THEN [i \in 1..n |-> i] ELSE Migration!Reverse([i \in 1..n |-> i]) IN
        /\ \/ table = Migration!Absent /\ n = 0
           \/ /\ seq => index
              /\ table = [there |-> TRUE, seq |-> seq, index |-> index, rows |-> rows]
        /\ told = IF seq THEN rows ELSE Migration!ByCreation(rows)
        /\ clock = n /\ stored = 1..n
  BY DEF Migration!Init
<1>2. PICK rows : rows = IF ordered THEN [i \in 1..n |-> i]
                                    ELSE Migration!Reverse([i \in 1..n |-> i])
  OBVIOUS
<1>3. /\ \/ table = Migration!Absent /\ n = 0
         \/ table = [there |-> TRUE, seq |-> seq, index |-> index, rows |-> rows]
      /\ told = IF seq THEN rows ELSE Migration!ByCreation(rows)
      /\ clock = n /\ stored = 1..n
  BY <1>1, <1>2
<1>4. /\ legacy = Migration!Absent /\ upc = [p \in Upgraders |-> "idle"]
      /\ ureq = [p \in Upgraders |-> Migration!Nothing]
      /\ interrupted = FALSE /\ overlapped = FALSE /\ ufaults = 0 /\ ucrashes = 0
  BY DEF Migration!Init
<1>5. MaxMessages \in Nat /\ MaxFaults \in Nat /\ MaxCrashes \in Nat
  BY InstanceAssumptions DEF Migration!UpgradeBounds
<1>6. /\ n \in Nat /\ n <= MaxMessages /\ 1..n \subseteq Migration!Stamps
  BY <1>5 DEF Migration!Stamps
<1>7. rows \in Seq(Migration!Stamps) /\ Len(rows) = n
      /\ \A m \in 1..n : \E i \in 1..n : rows[i] = m
  <2>1. PICK up : up = [i \in 1..n |-> i]
    OBVIOUS
  <2>2. up \in Seq(Migration!Stamps) /\ Len(up) = n /\ \A i \in 1..n : up[i] = i
    BY <1>6, <2>1
  <2>3. CASE ordered
    BY <1>2, <2>1, <2>2, <2>3
  <2>4. CASE ~ordered
    <3>1. rows = [i \in 1..n |-> up[(n - i) + 1]]
      BY <1>2, <2>1, <2>2, <2>4 DEF Migration!Reverse
    <3>2. \A i \in 1..n : (n - i) + 1 \in 1..n /\ up[(n - i) + 1] = (n - i) + 1
      BY <1>6, <2>2
    <3>3. rows = [i \in 1..n |-> (n - i) + 1]
      BY <3>1, <3>2
    <3>4. \A i \in 1..n : (n - i) + 1 \in Migration!Stamps
      BY <1>6, <3>2
    <3>5. rows \in Seq(Migration!Stamps) /\ Len(rows) = n
      BY <1>6, <3>3, <3>4
    <3>6. ASSUME NEW m \in 1..n PROVE \E i \in 1..n : rows[i] = m
      <4>1. (n - m) + 1 \in 1..n /\ (n - ((n - m) + 1)) + 1 = m
        BY <1>6
      <4> QED
        BY <3>3, <4>1
    <3> QED
      BY <3>5, <3>6
  <2> QED
    BY <2>3, <2>4
<1>8. table \in FileTables /\ legacy \in FileTables /\ told \in Seq(Migration!Stamps)
  <2>1. table \in FileTables
    <3>1. CASE table = Migration!Absent
      BY <3>1, FileTypes
    <3>2. CASE table = [there |-> TRUE, seq |-> seq, index |-> index, rows |-> rows]
      BY <1>7, <3>2 DEF FileTables
    <3> QED
      BY <1>3, <3>1, <3>2
  <2> QED
    BY <1>3, <1>4, <1>7, <2>1, FileTypes, ByCreationIs
<1>9. Migration!TypeOK
  <2>1. 0 \in 0..MaxMessages /\ 0 \in 0..MaxFaults /\ 0 \in 0..MaxCrashes
    BY <1>5
  <2>2. upc \in [Upgraders -> Migration!PCs]
    BY <1>4 DEF Migration!PCs
  <2>3. ureq \in [Upgraders -> [kind : {"none", "add", "read"}, at : 0..MaxMessages]]
    BY <1>4, <2>1 DEF Migration!Nothing
  <2> QED
    BY <1>3, <1>4, <1>6, <1>8, <2>1, <2>2, <2>3 DEF Migration!TypeOK, FileTables
<1>10. \A p \in Upgraders : upc[p] = "idle" /\ ureq[p].kind = "none"
  BY <1>4 DEF Migration!Nothing
<1>11. stored \subseteq Migration!ToSet(table.rows)
  <2>1. CASE table = Migration!Absent /\ n = 0
    BY <1>3, <2>1
  <2>2. CASE table = [there |-> TRUE, seq |-> seq, index |-> index, rows |-> rows]
    <3>1. table.rows = rows /\ DOMAIN rows = 1..n
      BY <1>7, <2>2
    <3> QED
      BY <1>3, <1>7, <3>1 DEF Migration!ToSet
  <2> QED
    BY <1>3, <2>1, <2>2
<1>12. FileStands
  BY <1>3, <1>4, <1>10, <1>11, FileTypes DEF FileStands, Cut
<1>13. ShownStands
  <2>1. ~legacy.there
    BY <1>4, FileTypes
  <2>2. CASE table = Migration!Absent /\ n = 0
    <3>1. rows = <<>>
      BY <1>7, <2>2
    <3>2. told = <<>>
      <4>1. <<>> \in Seq(Migration!Stamps) /\ Migration!ToSet(<<>>) = {}
        BY DEF Migration!ToSet
      <4>2. Migration!ToSet(Migration!ByCreation(<<>>)) = {}
        BY <4>1, ByCreationIs
      <4>3. Migration!ByCreation(<<>>) \in Seq(Migration!Stamps)
        BY <1>7, <3>1, ByCreationIs
      <4>4. Migration!ByCreation(<<>>) = <<>>
        BY <4>2, <4>3 DEF Migration!ToSet
      <4> QED
        BY <1>3, <3>1, <4>4
    <3>3. Migration!IsPrefix(<<>>, <<>>)
      <4>1. PICK e : e = <<>>
        OBVIOUS
      <4>2. e \in Seq(Migration!Stamps)
        BY <4>1
      <4>3. Migration!IsPrefix(e, e)
        BY <4>2, PrefixIs
      <4> QED
        BY <4>1, <4>3
    <3> QED
      BY <1>10, <2>1, <2>2, <3>2, <3>3, FileTypes DEF ShownStands, Migration!Migrating
  <2>3. CASE table = [there |-> TRUE, seq |-> seq, index |-> index, rows |-> rows]
    <3>1. table.rows = rows /\ table.seq = seq
      BY <2>3
    <3>2. Migration!IsPrefix(rows, rows)
      BY <1>7, PrefixIs
    <3> QED
      BY <1>3, <1>10, <2>1, <3>1, <3>2 DEF ShownStands, Migration!Migrating
  <2> QED
    BY <1>3, <2>2, <2>3
<1> QED
  BY <1>9, <1>12, <1>13 DEF MigrationInv

(* A step in which a request goes on, or ends, that starts and ends no     *)
(* migration; it may make a table that is not there.                       *)
LEMMA MigrationQuiet ==
  ASSUME MigrationInv, NEW p \in Upgraders, NEW l \in {"idle", "schema", "inspect", "body"},
         ~Cut(p), upc' = [upc EXCEPT ![p] = l],
         ureq' \in [Upgraders -> [kind : {"none", "add", "read"}, at : 0..MaxMessages]],
         \A q \in Upgraders : ureq'[q].kind = "add" => ureq'[q].at \in Migration!Stamps,
         table' = table \/ table' = Migration!Created,
         l = "body" => table.seq,
         upc[p] = "idle" /\ ~overlapped' =>
           \A q \in Upgraders : Migration!Migrating(q) => q = p,
         clock' \in 0..MaxMessages, overlapped' \in BOOLEAN, overlapped => overlapped',
         UNCHANGED <<legacy, stored, told, interrupted, ufaults, ucrashes>>
  PROVE  MigrationInv'
<1>0. /\ upc \in [Upgraders -> Migration!PCs] /\ table \in FileTables /\ legacy \in FileTables
      /\ interrupted \in BOOLEAN
  BY FileTypes
<1>1. \A q \in Upgraders : upc'[q] = IF q = p THEN l ELSE upc[q]
  BY <1>0
<1>2. upc' \in [Upgraders -> Migration!PCs]
  BY <1>0 DEF Migration!PCs
<1>3. /\ table' \in FileTables /\ table'.rows = table.rows /\ table'.seq = table.seq
      /\ table.there => table' = table
  <2>1. CASE table' = table
    BY <1>0, <2>1
  <2>2. CASE table' = Migration!Created
    <3>1. CASE table.there
      BY <1>0, <2>2, <3>1 DEF Migration!Created
    <3>2. CASE ~table.there
      <4>1. table' = Migration!Fresh
        BY <2>2, <3>2 DEF Migration!Created
      <4>2. table.seq = TRUE /\ table.rows = <<>>
        BY <1>0, <3>2 DEF MigrationInv, FileStands, FileTables
      <4> QED
        BY <3>2, <4>1, <4>2, FileTypes
    <3> QED
      BY <3>1, <3>2
  <2> QED
    BY <2>1, <2>2
<1>4. Migration!TypeOK'
  BY <1>0, <1>2, <1>3 DEF MigrationInv, Migration!TypeOK, FileTables
<1>5. \A q \in Upgraders : (Cut(q)' <=> Cut(q)) /\ (upc'[q] = "copy" => upc[q] = "copy")
                           /\ (upc'[q] = "rename" => upc[q] = "rename")
  BY <1>1 DEF Cut
<1>6. FileStands'
  <2>1. \A q \in Upgraders : upc'[q] = "body" => table'.seq
    BY <1>1, <1>3 DEF MigrationInv, FileStands
  <2>2. \A q \in Upgraders : upc'[q] = "copy" => table'.there
    BY <1>3, <1>5 DEF MigrationInv, FileStands
  <2>3. ~table'.there => table'.seq /\ table'.rows = <<>>
    BY <1>3 DEF MigrationInv, FileStands
  <2>4. /\ \A q \in Upgraders : Cut(q)' => legacy'.there
        /\ \A q, r \in Upgraders : Cut(q)' /\ Cut(r)' => q = r
        /\ ~interrupted' /\ legacy'.there => \E q \in Upgraders : Cut(q)'
    BY <1>5 DEF MigrationInv, FileStands
  <2> QED
    BY <1>3, <2>1, <2>2, <2>3, <2>4 DEF MigrationInv, FileStands
<1>7. ASSUME ~interrupted', ~overlapped' PROVE ShownStands'
  <2>1. ShownStands
    BY <1>7 DEF MigrationInv
  <2>2. ASSUME NEW q \in Upgraders, NEW r \in Upgraders, Migration!Migrating(q)', r # q
        PROVE  upc'[r] = "idle"
    <3>1. Migration!Migrating(q) /\ q # p
      BY <1>1, <2>2 DEF Migration!Migrating
    <3>2. upc[p] = "idle"
      BY <2>1, <3>1 DEF ShownStands
    <3> QED
      BY <1>7, <3>1, <3>2
  <2>3. \A q \in Upgraders : upc'[q] = "rename" => table'.there /\ ~table'.seq
    BY <1>3, <1>5, <2>1 DEF ShownStands
  <2> QED
    BY <1>3, <2>1, <2>2, <2>3 DEF ShownStands
<1> QED
  BY <1>4, <1>6, <1>7 DEF MigrationInv

(* A request arrives.                                                      *)
LEMMA MigrationCalls ==
  ASSUME MigrationInv, NEW p \in Upgraders, Migration!Call(p)
  PROVE  MigrationInv'
<1>0. /\ upc \in [Upgraders -> Migration!PCs] /\ overlapped \in BOOLEAN
      /\ ureq \in [Upgraders -> [kind : {"none", "add", "read"}, at : 0..MaxMessages]]
      /\ clock \in 0..MaxMessages /\ MaxMessages \in Nat
      /\ \A q \in Upgraders : ureq[q].kind = "add" => ureq[q].at \in Migration!Stamps
  BY FileTypes, InstanceAssumptions DEF MigrationInv, FileStands, Migration!UpgradeBounds
<1>1. /\ upc[p] = "idle" /\ upc' = [upc EXCEPT ![p] = "schema"]
      /\ overlapped' = (overlapped \/ \E q \in Migration!Others(p) : Migration!Migrating(q))
      /\ UNCHANGED <<table, legacy, stored, told, interrupted, ufaults, ucrashes>>
  BY DEF Migration!Call
<1>2. PICK r \in [kind : {"add", "read"}, at : 0..MaxMessages] :
        /\ ureq' = [ureq EXCEPT ![p] = r] /\ (r.kind = "add" => r.at \in Migration!Stamps)
        /\ clock' \in 0..MaxMessages
  <2>1. CASE /\ clock < MaxMessages /\ clock' = clock + 1
             /\ ureq' = [ureq EXCEPT ![p] = [kind |-> "add", at |-> clock + 1]]
    <3>1. clock + 1 \in 0..MaxMessages /\ clock + 1 \in Migration!Stamps
      BY <1>0, <2>1 DEF Migration!Stamps
    <3> QED
      BY <2>1, <3>1
  <2>2. CASE ureq' = [ureq EXCEPT ![p] = [kind |-> "read", at |-> 0]] /\ UNCHANGED clock
    <3>1. 0 \in 0..MaxMessages
      BY <1>0
    <3> QED
      BY <1>0, <2>2, <3>1
  <2> QED
    BY <2>1, <2>2 DEF Migration!Call
<1>3. ureq' \in [Upgraders -> [kind : {"none", "add", "read"}, at : 0..MaxMessages]]
  BY <1>0, <1>2
<1>4. \A q \in Upgraders : ureq'[q].kind = "add" => ureq'[q].at \in Migration!Stamps
  BY <1>0, <1>2
<1>5. ~overlapped' => \A q \in Upgraders : Migration!Migrating(q) => q = p
  BY <1>1 DEF Migration!Others, Migration!Migrating
<1>6. overlapped' \in BOOLEAN /\ (overlapped => overlapped')
  BY <1>0, <1>1
<1>7. ~Cut(p)
  BY <1>1 DEF Cut
<1> QED
  BY <1>1, <1>2, <1>3, <1>4, <1>5, <1>6, <1>7, MigrationQuiet

(* What a request that ends leaves of itself.                              *)
LEMMA MigrationEnds ==
  ASSUME MigrationInv, NEW p \in Upgraders, Migration!Ends(p) \/ UNCHANGED ureq
  PROVE  /\ ureq' \in [Upgraders -> [kind : {"none", "add", "read"}, at : 0..MaxMessages]]
         /\ \A q \in Upgraders : ureq'[q].kind = "add" => ureq'[q].at \in Migration!Stamps
<1>0. /\ ureq \in [Upgraders -> [kind : {"none", "add", "read"}, at : 0..MaxMessages]]
      /\ \A q \in Upgraders : ureq[q].kind = "add" => ureq[q].at \in Migration!Stamps
  BY FileTypes DEF MigrationInv, FileStands
<1>1. CASE UNCHANGED ureq
  BY <1>0, <1>1
<1>2. CASE Migration!Ends(p)
  <2>1. PICK r : r = Migration!Nothing
    OBVIOUS
  <2>2. ureq' = [ureq EXCEPT ![p] = r] /\ r.kind = "none" /\ r = [kind |-> "none", at |-> 0]
    BY <1>2, <2>1 DEF Migration!Ends, Migration!Nothing
  <2>3. 0 \in 0..MaxMessages
    BY InstanceAssumptions DEF Migration!UpgradeBounds
  <2>4. r \in [kind : {"none", "add", "read"}, at : 0..MaxMessages]
    BY <2>2, <2>3
  <2> QED
    BY <1>0, <2>2, <2>4
<1> QED
  BY <1>1, <1>2

(* A request connects, fails, or goes past the migration.                  *)
LEMMA MigrationQuietSteps ==
  ASSUME MigrationInv, NEW p \in Upgraders,
         \/ Migration!Schema(p) \/ Migration!NoTable(p)
         \/ Migration!Inspect(p) /\ ~(table.there /\ ~table.seq)
         \/ Migration!Rename(p) /\ (~table.there \/ legacy.there)
  PROVE  MigrationInv'
<1>0. /\ upc \in [Upgraders -> Migration!PCs] /\ table \in FileTables
      /\ overlapped \in BOOLEAN /\ clock \in 0..MaxMessages
  BY FileTypes
<1>1. ASSUME NEW l \in {"idle", "inspect", "body"}, upc' = [upc EXCEPT ![p] = l],
             Migration!Ends(p) \/ UNCHANGED ureq,
             upc[p] \in {"schema", "inspect", "rename", "body"}, l = "body" => table.seq,
             table' = table \/ table' = Migration!Created,
             UNCHANGED <<legacy, clock, stored, told, interrupted, overlapped, ufaults, ucrashes>>
      PROVE  MigrationInv'
  <2>1. ~Cut(p) /\ upc[p] # "idle"
    BY <1>1 DEF Cut
  <2>2. /\ ureq' \in [Upgraders -> [kind : {"none", "add", "read"}, at : 0..MaxMessages]]
        /\ \A q \in Upgraders : ureq'[q].kind = "add" => ureq'[q].at \in Migration!Stamps
    BY <1>1, MigrationEnds
  <2>3. clock' \in 0..MaxMessages /\ overlapped' \in BOOLEAN /\ (overlapped => overlapped')
    BY <1>0, <1>1
  <2> QED
    BY <1>1, <2>1, <2>2, <2>3, MigrationQuiet
<1>2. CASE Migration!Schema(p)
  <2>1. /\ upc[p] = "schema" /\ table' = Migration!Created
        /\ Migration!Goto(p, "inspect") \/ Migration!Ends(p)
        /\ UNCHANGED <<legacy, clock, stored, told, interrupted, overlapped, ufaults, ucrashes>>
    BY <1>2 DEF Migration!Schema
  <2>2. CASE Migration!Goto(p, "inspect")
    BY <1>1, <2>1, <2>2 DEF Migration!Goto
  <2>3. CASE Migration!Ends(p)
    <3>1. upc' = [upc EXCEPT ![p] = "idle"]
      BY <2>3 DEF Migration!Ends
    <3> QED
      BY <1>1, <2>1, <2>3, <3>1
  <2> QED
    BY <2>1, <2>2, <2>3
<1>3. CASE Migration!NoTable(p)
  <2>1. /\ upc[p] = "body" /\ upc' = [upc EXCEPT ![p] = "idle"] /\ Migration!Ends(p) /\ table' = table
        /\ UNCHANGED <<legacy, clock, stored, told, interrupted, overlapped, ufaults, ucrashes>>
    BY <1>3 DEF Migration!NoTable, Migration!Ends
  <2> QED
    BY <1>1, <2>1
<1>4. CASE Migration!Inspect(p) /\ ~(table.there /\ ~table.seq)
  <2>1. /\ upc[p] = "inspect" /\ upc' = [upc EXCEPT ![p] = "body"] /\ ureq' = ureq /\ table' = table
        /\ UNCHANGED <<legacy, clock, stored, told, interrupted, overlapped, ufaults, ucrashes>>
    BY <1>4 DEF Migration!Inspect, Migration!Goto
  <2>2. table.seq
    BY <1>4 DEF MigrationInv, FileStands
  <2> QED
    BY <1>1, <2>1, <2>2
<1>5. CASE Migration!Rename(p) /\ (~table.there \/ legacy.there)
  <2>1. /\ upc[p] = "rename" /\ upc' = [upc EXCEPT ![p] = "idle"] /\ Migration!Ends(p) /\ table' = table
        /\ UNCHANGED <<legacy, clock, stored, told, interrupted, overlapped, ufaults, ucrashes>>
    BY <1>5 DEF Migration!Rename, Migration!Ends
  <2> QED
    BY <1>1, <2>1
<1> QED
  BY <1>2, <1>3, <1>4, <1>5

(* A request sets out to migrate, alone or on record as one of several.    *)
LEMMA MigrationInspects ==
  ASSUME MigrationInv, NEW p \in Upgraders, Migration!Inspect(p), table.there, ~table.seq
  PROVE  MigrationInv'
<1>0. /\ upc \in [Upgraders -> Migration!PCs] /\ overlapped \in BOOLEAN
  BY FileTypes
<1>1. /\ upc[p] = "inspect" /\ upc' = [upc EXCEPT ![p] = "rename"]
      /\ overlapped' = (overlapped \/ Migration!Others(p) # {})
      /\ UNCHANGED <<ureq, table, legacy, clock, stored, told, interrupted, ufaults, ucrashes>>
  BY DEF Migration!Inspect, Migration!Goto
<1>2. \A q \in Upgraders : upc'[q] = IF q = p THEN "rename" ELSE upc[q]
  BY <1>0, <1>1
<1>3. Migration!TypeOK'
  <2>1. upc' \in [Upgraders -> Migration!PCs] /\ overlapped' \in BOOLEAN
    BY <1>0, <1>1 DEF Migration!PCs
  <2> QED
    BY <1>1, <2>1 DEF MigrationInv, Migration!TypeOK
<1>4. \A q \in Upgraders : (Cut(q)' <=> Cut(q)) /\ (upc'[q] \in {"copy", "body"} => upc'[q] = upc[q])
  BY <1>1, <1>2 DEF Cut
<1>5. FileStands'
  BY <1>1, <1>4 DEF MigrationInv, FileStands
<1>6. ASSUME ~interrupted', ~overlapped' PROVE ShownStands'
  <2>1. ShownStands /\ Migration!Others(p) = {}
    BY <1>1, <1>6 DEF MigrationInv
  <2>2. \A q \in Upgraders : q # p => upc'[q] = "idle"
    BY <1>2, <2>1 DEF Migration!Others
  <2>3. \A q, r \in Upgraders : Migration!Migrating(q)' /\ r # q => upc'[r] = "idle"
    BY <2>2 DEF Migration!Migrating
  <2>4. \A q \in Upgraders : upc'[q] = "rename" => table'.there /\ ~table'.seq
    BY <1>1
  <2> QED
    BY <1>1, <2>1, <2>3, <2>4 DEF ShownStands
<1> QED
  BY <1>3, <1>5, <1>6 DEF MigrationInv

(* The rename: the messages are in the legacy table.                       *)
LEMMA MigrationRenames ==
  ASSUME MigrationInv, NEW p \in Upgraders, Migration!Rename(p), table.there, ~legacy.there
  PROVE  MigrationInv'
<1>0. /\ upc \in [Upgraders -> Migration!PCs] /\ table \in FileTables /\ legacy \in FileTables
  BY FileTypes
<1>1. /\ upc[p] = "rename" /\ upc' = [upc EXCEPT ![p] = "create"]
      /\ legacy' = table /\ table' = Migration!Absent
      /\ UNCHANGED <<ureq, clock, stored, told, interrupted, overlapped, ufaults, ucrashes>>
  BY DEF Migration!Rename, Migration!Goto
<1>2. \A q \in Upgraders : upc'[q] = IF q = p THEN "create" ELSE upc[q]
  BY <1>0, <1>1
<1>3. /\ table' \in FileTables /\ table'.there = FALSE /\ table'.seq = TRUE /\ table'.rows = <<>>
      /\ legacy.rows = <<>> /\ \A q \in Upgraders : ~Cut(q)
  BY <1>1, FileTypes DEF MigrationInv, FileStands
<1>4. Migration!TypeOK'
  <2>1. upc' \in [Upgraders -> Migration!PCs]
    BY <1>0, <1>1 DEF Migration!PCs
  <2> QED
    BY <1>0, <1>1, <1>3, <2>1 DEF MigrationInv, Migration!TypeOK, FileTables
<1>5. \A q \in Upgraders : (Cut(q)' <=> q = p) /\ upc'[q] # "copy"
  BY <1>2, <1>3 DEF Cut
<1>6. FileStands'
  <2>1. stored' \subseteq Migration!ToSet(table'.rows) \cup Migration!ToSet(legacy'.rows)
    BY <1>1, <1>3 DEF MigrationInv, FileStands
  <2>2. /\ \A q \in Upgraders : Cut(q)' => legacy'.there
        /\ \A q, r \in Upgraders : Cut(q)' /\ Cut(r)' => q = r
        /\ ~interrupted' /\ legacy'.there => \E q \in Upgraders : Cut(q)'
    BY <1>1, <1>5
  <2> QED
    BY <1>1, <1>3, <1>5, <2>1, <2>2 DEF MigrationInv, FileStands
<1>7. ASSUME ~interrupted', ~overlapped' PROVE ShownStands'
  <2>1. ShownStands
    BY <1>1, <1>7 DEF MigrationInv
  <2>2. ~table.seq /\ told = Migration!ByCreation(table.rows)
    BY <1>1, <2>1 DEF ShownStands
  <2>3. \A q \in Upgraders : q # p => upc'[q] = "idle"
    BY <1>1, <1>2, <2>1 DEF ShownStands, Migration!Migrating
  <2>4. /\ \A q, r \in Upgraders : Migration!Migrating(q)' /\ r # q => upc'[r] = "idle"
        /\ \A q \in Upgraders : upc'[q] # "rename"
    BY <1>2, <2>3 DEF Migration!Migrating
  <2> QED
    BY <1>1, <1>3, <2>2, <2>4 DEF ShownStands
<1> QED
  BY <1>4, <1>6, <1>7 DEF MigrationInv

(* The table of the new form, if nobody else has made it.                  *)
LEMMA MigrationCreates ==
  ASSUME MigrationInv, NEW p \in Upgraders, Migration!Create(p)
  PROVE  MigrationInv'
<1>0. /\ upc \in [Upgraders -> Migration!PCs] /\ table \in FileTables /\ legacy \in FileTables
  BY FileTypes
<1>1. /\ upc[p] = "create" /\ upc' = [upc EXCEPT ![p] = "copy"] /\ table' = Migration!Created
      /\ UNCHANGED <<ureq, legacy, clock, stored, told, interrupted, overlapped, ufaults, ucrashes>>
  BY DEF Migration!Create, Migration!Goto
<1>2. \A q \in Upgraders : upc'[q] = IF q = p THEN "copy" ELSE upc[q]
  BY <1>0, <1>1
<1>3. /\ table' \in FileTables /\ table'.there = TRUE /\ table'.rows = table.rows
      /\ table'.seq = table.seq
  <2>1. CASE table.there
    <3>1. table' = table
      BY <1>1, <2>1 DEF Migration!Created
    <3>2. table.there = TRUE
      BY <1>0, <2>1 DEF FileTables
    <3> QED
      BY <1>0, <3>1, <3>2
  <2>2. CASE ~table.there
    <3>1. table' = Migration!Fresh
      BY <1>1, <2>2 DEF Migration!Created
    <3>2. table.seq = TRUE /\ table.rows = <<>>
      BY <1>0, <2>2 DEF MigrationInv, FileStands, FileTables
    <3> QED
      BY <3>1, <3>2, FileTypes
  <2> QED
    BY <2>1, <2>2
<1>4. Migration!TypeOK'
  <2>1. upc' \in [Upgraders -> Migration!PCs]
    BY <1>0, <1>1 DEF Migration!PCs
  <2> QED
    BY <1>0, <1>1, <1>3, <2>1 DEF MigrationInv, Migration!TypeOK, FileTables
<1>5. \A q \in Upgraders : (Cut(q)' <=> Cut(q)) /\ (upc'[q] \in {"body", "rename"} => upc'[q] = upc[q])
  BY <1>1, <1>2 DEF Cut
<1>6. FileStands'
  <2>1. /\ \A q \in Upgraders : Cut(q)' => legacy'.there
        /\ \A q, r \in Upgraders : Cut(q)' /\ Cut(r)' => q = r
        /\ ~interrupted' /\ legacy'.there => \E q \in Upgraders : Cut(q)'
    BY <1>1, <1>5 DEF MigrationInv, FileStands
  <2> QED
    BY <1>1, <1>3, <1>5, <2>1 DEF MigrationInv, FileStands
<1>7. ASSUME ~interrupted', ~overlapped' PROVE ShownStands'
  <2>1. ShownStands
    BY <1>1, <1>7 DEF MigrationInv
  <2>2. \A q \in Upgraders : (Migration!Migrating(q)' <=> Migration!Migrating(q))
    BY <1>1, <1>2 DEF Migration!Migrating
  <2>3. \A q, r \in Upgraders : Migration!Migrating(q)' /\ r # q => upc'[r] = "idle"
    <3> SUFFICES ASSUME NEW q \in Upgraders, NEW r \in Upgraders, Migration!Migrating(q), r # q
                 PROVE  upc'[r] = "idle"
      BY <2>2
    <3>1. upc[r] = "idle"
      BY <2>1 DEF ShownStands
    <3> QED
      BY <1>1, <1>2, <3>1
  <2>4. \A q \in Upgraders : upc'[q] = "rename" => table'.there /\ ~table'.seq
    BY <1>3, <1>5, <2>1 DEF ShownStands
  <2> QED
    BY <1>1, <1>3, <2>1, <2>3, <2>4 DEF ShownStands
<1> QED
  BY <1>4, <1>6, <1>7 DEF MigrationInv

(* The copy, and the drop of the legacy table.                             *)
LEMMA MigrationCopies ==
  ASSUME MigrationInv, NEW p \in Upgraders, Migration!Copy(p)
  PROVE  MigrationInv'
<1>0. /\ upc \in [Upgraders -> Migration!PCs] /\ table \in FileTables /\ legacy \in FileTables
      /\ table.rows \in Seq(Migration!Stamps) /\ legacy.rows \in Seq(Migration!Stamps)
  BY FileTypes DEF FileTables
<1>1. PICK copied : copied = Migration!ByCreation(legacy.rows)
  OBVIOUS
<1>2. upc[p] = "copy" /\ table.there /\ legacy.there /\ table.seq
  BY DEF Migration!Copy, Migration!Copied, MigrationInv, FileStands, Cut
<1>3. /\ upc' = [upc EXCEPT ![p] = "body"] /\ table' = [table EXCEPT !.rows = @ \o copied]
      /\ legacy' = Migration!Absent
      /\ UNCHANGED <<ureq, clock, stored, told, interrupted, overlapped, ufaults, ucrashes>>
  BY <1>1, <1>2 DEF Migration!Copy, Migration!Copied, Migration!Goto
<1>4. /\ copied \in Seq(Migration!Stamps) /\ Migration!ToSet(copied) = Migration!ToSet(legacy.rows)
  BY <1>0, <1>1, ByCreationIs
<1>5. PICK rows : rows = table.rows \o copied
  OBVIOUS
<1>6. /\ rows \in Seq(Migration!Stamps)
      /\ Migration!ToSet(rows) = Migration!ToSet(table.rows) \cup Migration!ToSet(legacy.rows)
  <2>1. rows \in Seq(Migration!Stamps)
    BY <1>0, <1>4, <1>5, ConcatProperties
  <2>2. \A x \in Migration!Stamps :
          Migration!ToSet(rows) = Migration!ToSet(table.rows) \cup Migration!ToSet(legacy.rows)
    BY <1>0, <1>4, <1>5, RowsOf
  <2>3. CASE Migration!Stamps = {}
    <3>1. \A s \in Seq(Migration!Stamps) : Migration!ToSet(s) = {}
      BY <2>3 DEF Migration!ToSet
    <3> QED
      BY <1>0, <2>1, <3>1
  <2> QED
    BY <2>1, <2>2, <2>3
<1>7. /\ table' \in FileTables /\ table'.there = table.there /\ table'.seq = table.seq
      /\ table'.rows = rows
      /\ legacy' \in FileTables /\ legacy'.there = FALSE /\ legacy'.rows = <<>>
  <2>1. table' = [table EXCEPT !.rows = rows]
    BY <1>3, <1>5
  <2> QED
    BY <1>0, <1>3, <1>6, <2>1, FileTypes DEF FileTables
<1>8. \A q \in Upgraders : upc'[q] = IF q = p THEN "body" ELSE upc[q]
  BY <1>0, <1>3
<1>9. Migration!TypeOK'
  <2>1. upc' \in [Upgraders -> Migration!PCs]
    BY <1>0, <1>3 DEF Migration!PCs
  <2> QED
    BY <1>3, <1>7, <2>1 DEF MigrationInv, Migration!TypeOK, FileTables
<1>10. \A q \in Upgraders : (Cut(q) <=> q = p)
  BY <1>2 DEF MigrationInv, FileStands, Cut
<1>11. \A q \in Upgraders : ~Cut(q)' /\ upc'[q] # "copy"
  BY <1>8, <1>10 DEF Cut
<1>12. FileStands'
  <2>1. stored' \subseteq Migration!ToSet(table'.rows) \cup Migration!ToSet(legacy'.rows)
    BY <1>3, <1>6, <1>7 DEF MigrationInv, FileStands
  <2>2. \A q \in Upgraders : ureq'[q].kind = "add" => ureq'[q].at \in Migration!Stamps
    BY <1>3 DEF MigrationInv, FileStands
  <2> QED
    BY <1>2, <1>7, <1>11, <2>1, <2>2 DEF FileStands
<1>13. ASSUME ~interrupted', ~overlapped' PROVE ShownStands'
  <2>1. ShownStands
    BY <1>3, <1>13 DEF MigrationInv
  <2>2. \A q \in Upgraders : q # p => upc'[q] = "idle"
    BY <1>2, <1>8, <2>1 DEF ShownStands, Migration!Migrating
  <2>3. \A q \in Upgraders : ~Migration!Migrating(q)' /\ upc'[q] # "rename"
    BY <1>8, <2>2 DEF Migration!Migrating
  <2>4. table.rows = <<>> /\ told = copied
    BY <1>1, <1>2, <2>1 DEF ShownStands
  <2>5. rows = copied
    BY <1>4, <1>5, <2>4
  <2>6. Migration!IsPrefix(rows, rows)
    BY <1>6, PrefixIs
  <2> QED
    BY <1>2, <1>3, <1>7, <2>3, <2>4, <2>5, <2>6 DEF ShownStands
<1> QED
  BY <1>9, <1>12, <1>13 DEF MigrationInv

(* A copy that is refused, and a restart: neither touches a table.         *)
LEMMA MigrationCutOff ==
  ASSUME MigrationInv,
         Migration!Crash \/ \E p \in Upgraders : Migration!CopyFails(p)
  PROVE  MigrationInv'
<1>0. /\ upc \in [Upgraders -> Migration!PCs] /\ MaxFaults \in Nat /\ MaxCrashes \in Nat
      /\ ufaults \in 0..MaxFaults /\ ucrashes \in 0..MaxCrashes /\ interrupted \in BOOLEAN
  BY FileTypes, InstanceAssumptions DEF Migration!UpgradeBounds
<1>1. CASE Migration!Crash
  <2>1. /\ upc' = [p \in Upgraders |-> "idle"] /\ ureq' = [p \in Upgraders |-> Migration!Nothing]
        /\ (interrupted' <=> (interrupted \/ \E p \in Upgraders : Cut(p))) /\ interrupted' \in BOOLEAN
        /\ UNCHANGED <<table, legacy, clock, stored, told, overlapped, ufaults>>
    BY <1>1 DEF Migration!Crash, Migration!CutOff, Cut
  <2>2. ucrashes' \in 0..MaxCrashes
    BY <1>0, <1>1 DEF Migration!Crash
  <2>3. 0 \in 0..MaxMessages
    BY InstanceAssumptions DEF Migration!UpgradeBounds
  <2>4. Migration!TypeOK'
    BY <2>1, <2>2, <2>3 DEF MigrationInv, Migration!TypeOK, Migration!PCs, Migration!Nothing
  <2>5. \A p \in Upgraders : ~Cut(p)' /\ upc'[p] = "idle" /\ ureq'[p].kind = "none"
    BY <2>1 DEF Cut, Migration!Nothing
  <2>6. FileStands'
    BY <2>1, <2>5 DEF MigrationInv, FileStands
  <2>7. ~interrupted' /\ ~overlapped' => ShownStands'
    BY <2>1, <2>5 DEF MigrationInv, ShownStands, Migration!Migrating
  <2> QED
    BY <2>4, <2>6, <2>7 DEF MigrationInv
<1>2. ASSUME NEW p \in Upgraders, Migration!CopyFails(p) PROVE MigrationInv'
  <2>1. /\ upc[p] = "copy" /\ upc' = [upc EXCEPT ![p] = "idle"] /\ Migration!Ends(p)
        /\ interrupted' = TRUE
        /\ UNCHANGED <<table, legacy, clock, stored, told, overlapped, ucrashes>>
    BY <1>2 DEF Migration!CopyFails, Migration!Ends
  <2>2. ufaults' \in 0..MaxFaults
    BY <1>0, <1>2 DEF Migration!CopyFails
  <2>3. /\ ureq' \in [Upgraders -> [kind : {"none", "add", "read"}, at : 0..MaxMessages]]
        /\ \A q \in Upgraders : ureq'[q].kind = "add" => ureq'[q].at \in Migration!Stamps
    BY <2>1, MigrationEnds
  <2>4. upc' \in [Upgraders -> Migration!PCs]
    BY <1>0, <2>1 DEF Migration!PCs
  <2>5. Migration!TypeOK'
    BY <2>1, <2>2, <2>3, <2>4 DEF MigrationInv, Migration!TypeOK
  <2>6. \A q \in Upgraders : /\ (Cut(q)' => Cut(q))
                             /\ (upc'[q] \in {"copy", "body"} => upc'[q] = upc[q])
    BY <1>0, <2>1 DEF Cut
  <2>7. FileStands'
    BY <2>1, <2>3, <2>6 DEF MigrationInv, FileStands
  <2> QED
    BY <2>1, <2>5, <2>7 DEF MigrationInv
<1> QED
  BY <1>1, <1>2

(* With no migration under way and none cut off, the messages are where    *)
(* they are read.                                                          *)
LEMMA NobodyMigrates ==
  ASSUME MigrationInv, ~interrupted, ~overlapped, NEW p \in Upgraders, upc[p] = "body"
  PROVE  /\ ~legacy.there /\ table.seq /\ \A q \in Upgraders : ~Migration!Migrating(q)
         /\ Migration!IsPrefix(told, table.rows)
<1>1. ShownStands /\ FileStands
  BY DEF MigrationInv
<1>2. \A q \in Upgraders : ~Migration!Migrating(q)
  <2> SUFFICES ASSUME NEW q \in Upgraders, Migration!Migrating(q) PROVE FALSE
    OBVIOUS
  <2>1. p # q
    BY DEF Migration!Migrating
  <2> QED
    BY <1>1, <2>1 DEF ShownStands
<1>3. \A q \in Upgraders : ~Cut(q)
  BY <1>2 DEF Cut, Migration!Migrating
<1> QED
  BY <1>1, <1>2, <1>3 DEF FileStands, ShownStands

(* A message is written.                                                   *)
LEMMA MigrationAdds ==
  ASSUME MigrationInv, NEW p \in Upgraders, Migration!Add(p)
  PROVE  MigrationInv'
<1>0. /\ upc \in [Upgraders -> Migration!PCs] /\ table \in FileTables /\ legacy \in FileTables
      /\ table.rows \in Seq(Migration!Stamps) /\ told \in Seq(Migration!Stamps)
      /\ stored \subseteq Migration!Stamps
  BY FileTypes DEF FileTables
<1>1. PICK at : at = ureq[p].at
  OBVIOUS
<1>2. /\ upc[p] = "body" /\ table.there /\ upc' = [upc EXCEPT ![p] = "idle"] /\ Migration!Ends(p)
      /\ table' = [table EXCEPT !.rows = Append(@, at)] /\ stored' = stored \cup {at}
      /\ UNCHANGED <<legacy, clock, told, interrupted, overlapped, ufaults, ucrashes>>
  BY <1>1 DEF Migration!Add, Migration!Ends
<1>3. at \in Migration!Stamps
  BY <1>1 DEF Migration!Add, MigrationInv, FileStands
<1>4. PICK rows : rows = Append(table.rows, at)
  OBVIOUS
<1>5. /\ rows \in Seq(Migration!Stamps)
      /\ Migration!ToSet(rows) = Migration!ToSet(table.rows) \cup {at}
  BY <1>0, <1>3, <1>4, AppendProperties, RowsOf
<1>6. /\ table' \in FileTables /\ table'.there = table.there /\ table'.seq = table.seq
      /\ table'.rows = rows
  <2>1. table' = [table EXCEPT !.rows = rows]
    BY <1>2, <1>4
  <2> QED
    BY <1>0, <1>5, <2>1 DEF FileTables
<1>7. \A q \in Upgraders : upc'[q] = IF q = p THEN "idle" ELSE upc[q]
  BY <1>0, <1>2
<1>8. /\ ureq' \in [Upgraders -> [kind : {"none", "add", "read"}, at : 0..MaxMessages]]
      /\ \A q \in Upgraders : ureq'[q].kind = "add" => ureq'[q].at \in Migration!Stamps
  BY <1>2, MigrationEnds
<1>9. Migration!TypeOK'
  <2>1. upc' \in [Upgraders -> Migration!PCs] /\ stored' \subseteq Migration!Stamps
    BY <1>0, <1>2, <1>3 DEF Migration!PCs
  <2> QED
    BY <1>2, <1>6, <1>8, <2>1 DEF MigrationInv, Migration!TypeOK, FileTables
<1>10. \A q \in Upgraders : /\ (Cut(q)' <=> Cut(q)) /\ (upc'[q] = "rename" => upc[q] = "rename")
                            /\ (upc'[q] \in {"copy", "body"} => upc'[q] = upc[q])
  BY <1>2, <1>7 DEF Cut
<1>11. FileStands'
  <2>1. stored' \subseteq Migration!ToSet(table'.rows) \cup Migration!ToSet(legacy'.rows)
    BY <1>2, <1>5, <1>6 DEF MigrationInv, FileStands
  <2>2. /\ \A q \in Upgraders : Cut(q)' => legacy'.there
        /\ \A q, r \in Upgraders : Cut(q)' /\ Cut(r)' => q = r
        /\ ~interrupted' /\ legacy'.there => \E q \in Upgraders : Cut(q)'
    BY <1>2, <1>10 DEF MigrationInv, FileStands
  <2> QED
    BY <1>2, <1>6, <1>8, <1>10, <2>1, <2>2 DEF MigrationInv, FileStands
<1>12. ASSUME ~interrupted', ~overlapped' PROVE ShownStands'
  <2>1. ~legacy.there /\ table.seq /\ \A q \in Upgraders : ~Migration!Migrating(q)
    BY <1>2, <1>12, NobodyMigrates
  <2>2. Migration!IsPrefix(told, table.rows)
    BY <1>2, <1>12, NobodyMigrates
  <2>3. Migration!IsPrefix(told, rows)
    BY <1>0, <1>3, <1>4, <2>2, PrefixGrows
  <2>4. \A q \in Upgraders : ~Migration!Migrating(q)' /\ upc'[q] # "rename"
    BY <1>7, <2>1 DEF Migration!Migrating
  <2> QED
    BY <1>2, <1>6, <2>1, <2>3, <2>4 DEF ShownStands
<1> QED
  BY <1>9, <1>11, <1>12 DEF MigrationInv

(* The messages are read.                                                  *)
LEMMA MigrationReads ==
  ASSUME MigrationInv, NEW p \in Upgraders, Migration!Read(p)
  PROVE  MigrationInv'
<1>0. /\ upc \in [Upgraders -> Migration!PCs] /\ table \in FileTables
      /\ table.rows \in Seq(Migration!Stamps)
  BY FileTypes DEF FileTables
<1>1. /\ upc[p] = "body" /\ upc' = [upc EXCEPT ![p] = "idle"] /\ Migration!Ends(p)
      /\ told' = table.rows
      /\ UNCHANGED <<table, legacy, clock, stored, interrupted, overlapped, ufaults, ucrashes>>
  BY DEF Migration!Read, Migration!Ends
<1>2. \A q \in Upgraders : upc'[q] = IF q = p THEN "idle" ELSE upc[q]
  BY <1>0, <1>1
<1>3. /\ ureq' \in [Upgraders -> [kind : {"none", "add", "read"}, at : 0..MaxMessages]]
      /\ \A q \in Upgraders : ureq'[q].kind = "add" => ureq'[q].at \in Migration!Stamps
  BY <1>1, MigrationEnds
<1>4. Migration!TypeOK'
  <2>1. upc' \in [Upgraders -> Migration!PCs]
    BY <1>0, <1>1 DEF Migration!PCs
  <2> QED
    BY <1>0, <1>1, <1>3, <2>1 DEF MigrationInv, Migration!TypeOK
<1>5. \A q \in Upgraders : /\ (Cut(q)' <=> Cut(q))
                           /\ (upc'[q] \in {"copy", "body"} => upc'[q] = upc[q])
  BY <1>1, <1>2 DEF Cut
<1>6. FileStands'
  <2>1. /\ \A q \in Upgraders : Cut(q)' => legacy'.there
        /\ \A q, r \in Upgraders : Cut(q)' /\ Cut(r)' => q = r
        /\ ~interrupted' /\ legacy'.there => \E q \in Upgraders : Cut(q)'
    BY <1>1, <1>5 DEF MigrationInv, FileStands
  <2> QED
    BY <1>1, <1>3, <1>5, <2>1 DEF MigrationInv, FileStands
<1>7. ASSUME ~interrupted', ~overlapped' PROVE ShownStands'
  <2>1. ~legacy.there /\ table.seq /\ \A q \in Upgraders : ~Migration!Migrating(q)
    BY <1>1, <1>7, NobodyMigrates
  <2>2. Migration!IsPrefix(table.rows, table.rows)
    BY <1>0, PrefixIs
  <2>3. \A q \in Upgraders : ~Migration!Migrating(q)' /\ upc'[q] # "rename"
    BY <1>2, <2>1 DEF Migration!Migrating
  <2> QED
    BY <1>1, <2>1, <2>2, <2>3 DEF ShownStands
<1> QED
  BY <1>4, <1>6, <1>7 DEF MigrationInv

(* Every step keeps it.                                                    *)
LEMMA MigrationStep == MigrationInv /\ (Migration!Next \/ UNCHANGED migrating) => MigrationInv'
<1> SUFFICES ASSUME MigrationInv, Migration!Next \/ UNCHANGED migrating PROVE MigrationInv'
  OBVIOUS
<1>1. CASE UNCHANGED migrating
  <2>1. Migration!TypeOK'
    BY <1>1 DEF migrating, MigrationInv, Migration!TypeOK
  <2>2. FileStands'
    BY <1>1 DEF migrating, MigrationInv, FileStands, Cut
  <2>3. ~interrupted' /\ ~overlapped' => ShownStands'
    BY <1>1 DEF migrating, MigrationInv, ShownStands, Migration!Migrating
  <2> QED
    BY <2>1, <2>2, <2>3 DEF MigrationInv
<1>2. ASSUME NEW p \in Upgraders, Migration!Inspect(p) PROVE MigrationInv'
  BY <1>2, MigrationInspects, MigrationQuietSteps
<1>3. ASSUME NEW p \in Upgraders, Migration!Rename(p) PROVE MigrationInv'
  BY <1>3, MigrationRenames, MigrationQuietSteps
<1> QED
  BY <1>1, <1>2, <1>3, MigrationCalls, MigrationQuietSteps, MigrationCreates, MigrationCopies,
     MigrationCutOff, MigrationAdds, MigrationReads DEF Migration!Next

(* Nothing is lost, unless a migration was cut off.                        *)
LEMMA MigrationLosesNothing == MigrationInv => Migration!NothingLost
<1> SUFFICES ASSUME MigrationInv, Migration!Settled, ~interrupted
             PROVE  stored \subseteq Migration!ToSet(table.rows)
  BY DEF Migration!NothingLost
<1>1. ~legacy.there
  BY DEF Migration!Settled, Migration!CutOff, MigrationInv, FileStands, Cut
<1>2. Migration!ToSet(legacy.rows) = {}
  BY <1>1 DEF MigrationInv, FileStands, Migration!ToSet
<1> QED
  BY <1>2 DEF MigrationInv, FileStands

(* What was shown is shown first again.                                    *)
LEMMA MigrationShows ==
  MigrationInv /\ (Migration!Next \/ UNCHANGED migrating) => Migration!ShownFirst
<1> SUFFICES ASSUME MigrationInv, Migration!Next \/ UNCHANGED migrating,
                    ~interrupted', ~overlapped'
             PROVE  Migration!IsPrefix(told, told')
  BY DEF Migration!ShownFirst
<1>1. told \in Seq(Migration!Stamps)
  BY FileTypes
<1>2. ASSUME told' = told PROVE Migration!IsPrefix(told, told')
  <2>1. Migration!IsPrefix(told, told)
    BY <1>1, PrefixIs
  <2> QED
    BY <1>2, <2>1
<1>3. ASSUME NEW p \in Upgraders, Migration!Read(p) PROVE Migration!IsPrefix(told, told')
  <2>1. /\ upc[p] = "body" /\ told' = table.rows
        /\ interrupted' = interrupted /\ overlapped' = overlapped
    BY <1>3 DEF Migration!Read
  <2> QED
    BY <2>1, NobodyMigrates
<1>4. CASE UNCHANGED migrating
  BY <1>2, <1>4 DEF migrating
<1>5. CASE Migration!Crash
  BY <1>2, <1>5 DEF Migration!Crash
<1>6. ASSUME NEW p \in Upgraders,
             \/ Migration!Call(p) \/ Migration!Schema(p) \/ Migration!Inspect(p)
             \/ Migration!Rename(p) \/ Migration!Create(p) \/ Migration!Copy(p)
             \/ Migration!CopyFails(p) \/ Migration!Add(p) \/ Migration!NoTable(p)
      PROVE  told' = told
  BY <1>6 DEF Migration!Call, Migration!Schema, Migration!Inspect, Migration!Rename,
     Migration!Create, Migration!Copy, Migration!Copied, Migration!CopyFails, Migration!Add,
     Migration!NoTable
<1> QED
  BY <1>2, <1>3, <1>4, <1>5, <1>6 DEF Migration!Next
-----------------------------------------------------------------------------
(* What holds of each side, whichever is running.                          *)

AllInv ==
  /\ side \in {"history", "library", "tools", "chat", "reports"}
  /\ HistoryInv
  /\ side = "library" => LibraryInv
  /\ side = "tools" => ToolsInv
  /\ side = "chat" => MigrationInv
  /\ side # "chat" => told = <<>>
  /\ side = "reports" => UpgradeInv

(* It holds at the start.                                                  *)
LEMMA AllStarts == AllInit => AllInv
BY HistoryInit, LibraryInit, ToolsInit, MigrationInit, UpgradeStarts DEF AllInit, AllInv, NoFile

(* Every step keeps it.                                                    *)
LEMMA AllStep ==
  AllInv /\ [AllNext]_<<side, vars, library, migrating, upgrading>> => AllInv'
<1> SUFFICES ASSUME AllInv, [AllNext]_<<side, vars, library, migrating, upgrading>>
             PROVE  AllInv'
  OBVIOUS
<1>1. HistoryInv'
  BY HistoryStep DEF AllInv, AllNext
<1>2. side' = side
  BY DEF AllNext
<1>3. side = "library" => LibraryInv'
  BY LibraryStep DEF AllInv, AllNext
<1>4. side = "chat" => MigrationInv'
  BY MigrationStep DEF AllInv, AllNext
<1>5. side # "chat" => told' = told
  BY DEF AllNext, migrating
<1>6. side = "reports" => UpgradeInv'
  BY UpgradeStep DEF AllInv, AllNext
<1>7. side = "tools" => ToolsInv'
  BY ToolsStep DEF AllInv, AllNext
<1> QED
  BY <1>1, <1>2, <1>3, <1>4, <1>5, <1>6, <1>7 DEF AllInv

(* So it always holds.                                                     *)
LEMMA AlwaysAllInv == AllSpec => []AllInv
BY AllStarts, AllStep, PTL DEF AllSpec

(* Of the tables of chats, projects and reports: every row and every       *)
(* request is what its table and its step say, of whichever component runs.*)
THEOREM TypesHold == AllSpec => []Types
<1>1. AllInv => Types
  BY DEF AllInv, HistoryInv, LibraryInv, ToolsInv, MigrationInv, UpgradeInv, Types
<1> QED
  BY <1>1, AlwaysAllInv, PTL

(* Of ChatService, ChatStore and the project routes: a message has its     *)
(* session, a session its project but for a creation that races with the   *)
(* deletion and for a failed purge, a card's source its card, whatever     *)
(* crashes and interleaves.                                                *)
THEOREM NoOrphans == AllSpec => []RowsHaveTheirParent
<1>1. AllInv => RowsHaveTheirParent
  BY DEF AllInv, HistoryInv, Unraced, LibraryInv, RowsHaveTheirParent, OrphansOnlyByRace
<1> QED
  BY <1>1, AlwaysAllInv, PTL

(* Of resolve_tool_source: what a tool is given is one of the sources its  *)
(* project shows, whichever was asked for or persisted, and a project that *)
(* shows any has one to give when none is asked for.                       *)
THEOREM ToolsHaveTheirSource == AllSpec => []ToolStaysInProject
<1>1. AllInv => ToolStaysInProject
  BY ToolsStay DEF ToolStaysInProject
<1> QED
  BY <1>1, AlwaysAllInv, PTL

(* Of ProjectService.list_projects: the membership a listing prunes is of a*)
(* source that is not in the index, or came after the listing looked.      *)
THEOREM PrunesOnlyTheGone == AllSpec => PruneKeepsLive
<1>1. AllInv /\ [AllNext]_<<side, vars, library, migrating, upgrading>>
        => [side = "library" => Library!PrunesTheGone]_library
  BY LibraryPrunes DEF AllInv
<1> QED
  BY <1>1, AlwaysAllInv, PTL DEF AllSpec, PruneKeepsLive

(* Of the _migrate_sync of ChatStore and of the report stores: whatever    *)
(* requests upgrade an older file side by side, its rows and those written *)
(* meanwhile are in the table when the upgrades are over, unless a restart *)
(* or SQLite cut one off in the middle.                                    *)
THEOREM UpgradesKeepRows == AllSpec => []UpgradesLoseNothing
<1>1. AllInv => UpgradesLoseNothing
  BY MigrationLosesNothing, UpgradePreserves DEF AllInv, UpgradesLoseNothing
<1> QED
  BY <1>1, AlwaysAllInv, PTL

(* Of ChatStore: history only grows at its end, in use and from one version*)
(* of the file to the next.                                                *)
THEOREM HistoryOnlyGrows == AllSpec => HistoryGrows
<1>1. AllInv /\ [AllNext]_<<side, vars, library, migrating, upgrading>>
        => [Appends /\ Migration!ShownFirst]_<<vars, migrating>>
  <2> SUFFICES ASSUME AllInv, [AllNext]_<<side, vars, library, migrating, upgrading>>
               PROVE  Appends /\ Migration!ShownFirst
    OBVIOUS
  <2>1. Appends
    <3>1. [Next]_vars
      BY DEF AllNext
    <3> QED
      BY <3>1, HistoryAppends DEF AllInv
  <2>2. CASE side = "chat"
    <3>1. Migration!Next \/ UNCHANGED migrating
      BY <2>2 DEF AllNext
    <3> QED
      BY <2>1, <2>2, <3>1, MigrationShows DEF AllInv
  <2>3. CASE side # "chat"
    <3>1. PICK e : e = <<>>
      OBVIOUS
    <3>2. told = e /\ told' = e
      BY <2>3, <3>1 DEF AllInv, AllNext, migrating
    <3>3. e \in Seq(Migration!Stamps)
      BY <3>1
    <3>4. Migration!IsPrefix(e, e)
      BY <3>3, PrefixIs
    <3> QED
      BY <2>1, <3>2, <3>4 DEF Migration!ShownFirst
  <2> QED
    BY <2>2, <2>3
<1> QED
  BY <1>1, AlwaysAllInv, PTL DEF AllSpec, HistoryGrows
=============================================================================
