--------------------------- MODULE MCStudioProofs ---------------------------
(***************************************************************************)
(* The workspace and the Model Hub, for any number of requests, sources,   *)
(* trees, models, chains and tiers: the theorems of MCStudio's invariants  *)
(* and of StoredPaperStays, each from the invariant of its component.      *)
(***************************************************************************)
EXTENDS MCStudio, OrderLemmas, SequenceTheorems

-----------------------------------------------------------------------------
(* Studio. *)

Held == [tree : Trees, text : 1..MaxText]
\* What a request has read, and the rows it stores.
Readings == UNION {[S -> Held] : S \in SUBSET Sources}
ReportRows == [project : Projects, source : Sources, of : Held]
StudioJobs ==
  [pc : {"idle", "find", "collect", "write", "save", "answered", "read", "lookup", "run"},
   what : Papers \cup Reports \cup {None}, project : Projects \cup {None},
   sel : SUBSET Sources, todo : SUBSET Sources, refresh : BOOLEAN, read : Readings,
   cached : BOOLEAN, answer : Seq(Readings \cup ReportRows), tries : 0..1]

\* The source of a report's request, as Source(j).
SourceOf(b) == CHOOSE s \in b.sel : TRUE
\* A request for a paper has read sources of its selection only, and writes of
\* some; what it stored is what it read.
PaperJob(b) ==
  /\ b.sel # {} /\ DOMAIN b.read \subseteq b.sel
  /\ b.pc \in {"write", "save"} => DOMAIN b.read # {}
  /\ b.pc = "answered" /\ ~b.cached => b.answer = <<b.read>>
\* A request for a report has read the one source it is about, and answers with
\* a row of its key.
ReportJob(b) ==
  /\ b.project \in Projects /\ SourceOf(b) \in Sources
  /\ b.pc \in {"lookup", "run", "save", "answered"} => b.read \in [{SourceOf(b)} -> Held]
  /\ b.pc = "answered" =>
       \E row \in ReportRows :
         /\ b.answer = <<row>> /\ row.project = b.project /\ row.source = SourceOf(b)
         /\ row.of.tree = b.read[SourceOf(b)].tree
         /\ ~b.cached => row.of = b.read[SourceOf(b)]
JobFits(b) ==
  /\ b \in StudioJobs /\ b.todo \subseteq b.sel
  /\ b.pc \in {"find", "collect", "write"} => b.what \in Papers
  /\ b.pc \in {"read", "lookup", "run"} => b.what \in Reports
  /\ b.what \in Papers => PaperJob(b)
  /\ b.what \in Reports => ReportJob(b)

\* A paper is stored under the selection it is of.
ShelfFits(f) ==
  /\ DOMAIN f \subseteq (SUBSET Sources) \ {{}}
  /\ \A sel \in DOMAIN f :
       f[sel] \in Readings /\ DOMAIN f[sel] # {} /\ DOMAIN f[sel] \subseteq sel
\* A report has one row of a key.
OneRowPerKey(rows) == \A i, k \in DOMAIN rows : i # k => Key(rows[i]) # Key(rows[k])

\* A request that writes a paper that is stored was writing it when it was stored.
WritesBeside ==
  \A j \in Jobs :
    jobs[j].pc \in {"collect", "write", "save"} /\ jobs[j].what \in Papers
    /\ ~jobs[j].refresh /\ jobs[j].sel \in DOMAIN shelf[jobs[j].what]
    => <<jobs[j].what, jobs[j].sel>> \in rivals

JobsFit == jobs \in [Jobs -> StudioJobs] /\ \A j \in Jobs : JobFits(jobs[j])
ShelvesFit == DOMAIN shelf = Papers /\ \A p \in Papers : ShelfFits(shelf[p])
TablesFit == table \in [Reports -> Seq(ReportRows)] /\ \A r \in Reports : OneRowPerKey(table[r])
StudioInv ==
  /\ index \in [Sources -> Contents] /\ JobsFit /\ ShelvesFit /\ TablesFit /\ WritesBeside

(* What was read of the sources is a reading.                              *)
LEMMA ReadingsAre ==
  /\ \A f : f \in Readings <=> \E S \in SUBSET Sources : f \in [S -> Held]
  /\ \A f \in Readings : DOMAIN f \subseteq Sources /\ \A s \in DOMAIN f : f[s] \in Held
BY DEF Readings

(* The row of an ended request fits.                                       *)
LEMMA IdleFits == JobFits(Idle)
<1>1. <<>> \in Readings /\ DOMAIN <<>> = {}
  <2>1. <<>> \in [{} -> Held]
    OBVIOUS
  <2> QED
    BY <2>1, ReadingsAre
<1>2. Idle \in StudioJobs
  BY <1>1 DEF Idle, StudioJobs
<1> QED
  BY <1>2, StudioAssumption DEF JobFits, Idle, Reports

(* The invariant holds of the empty workspace.                             *)
LEMMA StudioInit == Init => StudioInv
<1> SUFFICES ASSUME Init PROVE StudioInv
  OBVIOUS
<1>1. index \in [Sources -> Contents]
  BY DEF Init, Contents
<1>2. JobsFit
  BY IdleFits DEF Init, JobsFit, JobFits
<1>3. ShelvesFit
  BY DEF Init, ShelvesFit, ShelfFits
<1>4. TablesFit
  BY DEF Init, TablesFit, OneRowPerKey
<1>5. WritesBeside
  BY DEF Init, WritesBeside, Idle
<1> QED
  BY <1>1, <1>2, <1>3, <1>4, <1>5 DEF StudioInv

(* A request that takes a step leaves the others where they are.           *)
LEMMA JobGoes ==
  ASSUME JobsFit, NEW j \in Jobs, NEW b, JobFits(b), Goes(j, b)
  PROVE  /\ JobsFit' /\ jobs'[j] = b
         /\ \A k \in Jobs : k # j => jobs'[k] = jobs[k]
<1>1. b \in StudioJobs
  BY DEF JobFits
<1>2. /\ jobs' \in [Jobs -> StudioJobs] /\ jobs'[j] = b
      /\ \A k \in Jobs : k # j => jobs'[k] = jobs[k]
  BY <1>1 DEF JobsFit, Goes
<1>3. \A k \in Jobs : JobFits(jobs'[k])
  BY <1>2 DEF JobsFit
<1> QED
  BY <1>2, <1>3 DEF JobsFit

(* A request stays beside what was stored when it does not begin to        *)
(* collect and nothing is stored.                                          *)
LEMMA StaysBeside ==
  ASSUME WritesBeside, NEW j \in Jobs, NEW b, shelf' = shelf, rivals \subseteq rivals',
         jobs'[j] = b, \A k \in Jobs : k # j => jobs'[k] = jobs[k],
         \/ b.pc \notin {"collect", "write", "save"} \/ b.what \notin Papers \/ b.refresh
         \/ /\ jobs[j].pc \in {"collect", "write", "save"} /\ b.what = jobs[j].what
            /\ b.sel = jobs[j].sel /\ b.refresh = jobs[j].refresh
         \/ b.sel \notin DOMAIN shelf[b.what]
  PROVE  WritesBeside'
<1> SUFFICES ASSUME NEW k \in Jobs, jobs'[k].pc \in {"collect", "write", "save"},
                    jobs'[k].what \in Papers, ~jobs'[k].refresh,
                    jobs'[k].sel \in DOMAIN shelf[jobs'[k].what]
             PROVE  <<jobs'[k].what, jobs'[k].sel>> \in rivals
  BY DEF WritesBeside
<1>1. CASE k # j
  BY <1>1 DEF WritesBeside
<1>2. CASE k = j
  BY <1>2 DEF WritesBeside
<1> QED
  BY <1>1, <1>2

(* A request that takes a step and stores nothing keeps the invariant.     *)
LEMMA StepKeeps ==
  ASSUME StudioInv, NEW j \in Jobs, NEW b, JobFits(b), Goes(j, b),
         UNCHANGED <<index, shelf, table, rivals>>,
         \/ b.pc \notin {"collect", "write", "save"} \/ b.what \notin Papers \/ b.refresh
         \/ /\ jobs[j].pc \in {"collect", "write", "save"} /\ b.what = jobs[j].what
            /\ b.sel = jobs[j].sel /\ b.refresh = jobs[j].refresh
         \/ b.sel \notin DOMAIN shelf[b.what]
  PROVE  StudioInv'
<1>1. /\ JobsFit' /\ jobs'[j] = b
      /\ \A k \in Jobs : k # j => jobs'[k] = jobs[k]
  BY JobGoes DEF StudioInv
<1>2. WritesBeside'
  BY <1>1, StaysBeside DEF StudioInv
<1>3. ShelvesFit' /\ TablesFit' /\ index' \in [Sources -> Contents]
  BY DEF StudioInv, ShelvesFit, TablesFit
<1> QED
  BY <1>1, <1>2, <1>3 DEF StudioInv

-----------------------------------------------------------------------------
(* Requests for papers. *)

(* A paper is asked for.                                                   *)
LEMMA AskPaperKeeps ==
  ASSUME StudioInv, NEW j \in Jobs, NEW p \in Papers, NEW sel \in (SUBSET Sources) \ {{}},
         NEW refresh \in BOOLEAN, AskPaper(j, p, sel, refresh)
  PROVE  StudioInv'
<1> DEFINE b == [Idle EXCEPT !.pc = IF refresh THEN "collect" ELSE "find", !.what = p,
                             !.sel = sel, !.todo = sel, !.refresh = refresh]
<1>1. Goes(j, b) /\ UNCHANGED <<index, shelf, table, rivals>>
  BY DEF AskPaper, Begins
<1>2. Idle \in StudioJobs
  BY IdleFits DEF JobFits
<1>3. /\ b \in StudioJobs /\ b.pc = (IF refresh THEN "collect" ELSE "find") /\ b.what = p
      /\ b.sel = sel /\ b.todo = sel /\ b.refresh = refresh /\ b.read = Idle.read
  BY <1>2 DEF StudioJobs
<1> HIDE DEF b
<1>4. b.pc = "collect" => b.refresh
  BY <1>3
<1>5. JobFits(b)
  <2>1. DOMAIN b.read = {}
    BY <1>3 DEF Idle
  <2>2. b.pc \in {"collect", "find"}
    BY <1>3
  <2>3. p \notin Reports
    BY StudioAssumption DEF Reports
  <2> QED
    BY <1>3, <2>1, <2>2, <2>3 DEF JobFits, PaperJob
<1>6. b.pc \notin {"collect", "write", "save"} \/ b.refresh
  BY <1>3
<1> QED
  BY <1>1, <1>5, <1>6, StepKeeps

(* A request for a paper that is under way.                                *)
LEMMA PaperJobIs ==
  ASSUME JobsFit, NEW j \in Jobs, jobs[j].pc \in {"find", "collect", "write"}
  PROVE  /\ jobs[j] \in StudioJobs /\ jobs[j].what \in Papers /\ jobs[j].what \notin Reports
         /\ PaperJob(jobs[j]) /\ jobs[j].todo \subseteq jobs[j].sel
<1>1. JobFits(jobs[j])
  BY DEF JobsFit
<1> QED
  BY <1>1, StudioAssumption DEF JobFits, Reports

(* The stored paper is looked for.                                         *)
LEMMA FindPaperKeeps ==
  ASSUME StudioInv, NEW j \in Jobs, FindPaper(j)
  PROVE  StudioInv'
<1> DEFINE job == jobs[j]
<1>0. job.pc = "find"
  BY DEF FindPaper
<1>1. /\ job \in StudioJobs /\ job.what \in Papers /\ job.what \notin Reports
      /\ PaperJob(job) /\ job.todo \subseteq job.sel
  BY <1>0, PaperJobIs DEF StudioInv
<1> HIDE DEF job
<1>2. CASE job.sel \in DOMAIN shelf[job.what]
  <2>1. PICK paper \in Readings : paper = shelf[job.what][job.sel]
    BY <1>1, <1>2 DEF StudioInv, ShelvesFit, ShelfFits
  <2> DEFINE b == [job EXCEPT !.pc = "answered", !.answer = <<paper>>, !.cached = TRUE]
  <2>2. Goes(j, b) /\ UNCHANGED <<index, shelf, table, rivals>>
    BY <1>2, <2>1 DEF FindPaper, Answers, Steps, job
  <2>3. <<paper>> \in Seq(Readings \cup ReportRows)
    OBVIOUS
  <2>4. /\ b \in StudioJobs /\ b.pc = "answered" /\ b.what = job.what /\ b.sel = job.sel
        /\ b.read = job.read /\ b.cached /\ b.todo = job.todo
    BY <1>1, <2>3 DEF StudioJobs
  <2> HIDE DEF b
  <2>5. JobFits(b)
    BY <1>1, <2>4 DEF JobFits, PaperJob
  <2> QED
    BY <2>2, <2>4, <2>5, StepKeeps
<1>3. CASE job.sel \notin DOMAIN shelf[job.what]
  <2> DEFINE b == [job EXCEPT !.pc = "collect"]
  <2>2. Goes(j, b) /\ UNCHANGED <<index, shelf, table, rivals>>
    BY <1>3 DEF FindPaper, Steps, job
  <2>4. /\ b \in StudioJobs /\ b.pc = "collect" /\ b.what = job.what /\ b.sel = job.sel
        /\ b.read = job.read /\ b.todo = job.todo
    BY <1>1 DEF StudioJobs
  <2> HIDE DEF b
  <2>5. JobFits(b)
    BY <1>1, <2>4 DEF JobFits, PaperJob
  <2> QED
    BY <1>3, <2>2, <2>4, <2>5, StepKeeps
<1> QED
  BY <1>2, <1>3

(* A source that is indexed is held.                                       *)
LEMMA HeldAre ==
  ASSUME index \in [Sources -> Contents], NEW s \in Sources, index[s] # Absent
  PROVE  index[s] \in Held /\ index[s].tree \in Trees
BY DEF Contents, Held

(* One more source is read.                                                *)
LEMMA PutReading ==
  ASSUME NEW f \in Readings, NEW s \in Sources, NEW c \in Held
  PROVE  Put(f, s, c) \in Readings /\ DOMAIN Put(f, s, c) = DOMAIN f \cup {s}
<1>1. DOMAIN f \subseteq Sources /\ \A x \in DOMAIN f : f[x] \in Held
  BY ReadingsAre
<1>2. Put(f, s, c) \in [DOMAIN f \cup {s} -> Held]
  BY <1>1 DEF Put
<1> QED
  BY <1>1, <1>2, ReadingsAre

(* A source is read, or skipped.                                           *)
LEMMA CollectKeeps ==
  ASSUME StudioInv, NEW j \in Jobs, NEW s \in Sources, Collect(j, s) \/ CollectRaises(j, s)
  PROVE  StudioInv'
<1> DEFINE job == jobs[j]
<1>0. job.pc = "collect" /\ s \in job.todo
  BY DEF Collect, CollectRaises
<1>1. /\ job \in StudioJobs /\ job.what \in Papers /\ job.what \notin Reports
      /\ PaperJob(job) /\ job.todo \subseteq job.sel
  BY <1>0, PaperJobIs DEF StudioInv
<1> HIDE DEF job
<1>2. ASSUME NEW read \in Readings, DOMAIN read \subseteq job.sel,
             Goes(j, [job EXCEPT !.todo = @ \ {s}, !.read = read]),
             UNCHANGED <<index, shelf, table, rivals>>
      PROVE  StudioInv'
  <2> DEFINE b == [job EXCEPT !.todo = @ \ {s}, !.read = read]
  <2>1. /\ b \in StudioJobs /\ b.pc = "collect" /\ b.what = job.what /\ b.sel = job.sel
        /\ b.read = read /\ b.todo \subseteq job.todo /\ b.refresh = job.refresh
    BY <1>0, <1>1 DEF StudioJobs
  <2> HIDE DEF b
  <2>2. JobFits(b)
    BY <1>1, <1>2, <2>1 DEF JobFits, PaperJob
  <2>3. Goes(j, b)
    BY <1>2 DEF b
  <2> QED
    BY <1>0, <1>2, <2>1, <2>2, <2>3, StepKeeps DEF job
<1>3. CASE Collect(j, s)
  <2> DEFINE read == IF index[s] = Absent THEN job.read ELSE Put(job.read, s, index[s])
  <2>1. read \in Readings /\ DOMAIN read \subseteq job.sel
    <3>1. job.read \in Readings /\ DOMAIN job.read \subseteq job.sel /\ s \in job.sel
      BY <1>0, <1>1 DEF PaperJob, StudioJobs
    <3>2. CASE index[s] = Absent
      BY <3>1, <3>2
    <3>3. CASE index[s] # Absent
      <4>1. index[s] \in Held
        BY <3>3, HeldAre DEF StudioInv
      <4>2. Put(job.read, s, index[s]) \in Readings
            /\ DOMAIN Put(job.read, s, index[s]) = DOMAIN job.read \cup {s}
        BY <3>1, <4>1, PutReading
      <4> QED
        BY <3>1, <3>3, <4>2
    <3> QED
      BY <3>2, <3>3
  <2>2. Goes(j, [job EXCEPT !.todo = @ \ {s}, !.read = read])
    <3>1. [job EXCEPT !.todo = @ \ {s}, !.read = IF index[s] = Absent THEN @ ELSE Put(@, s, index[s])]
          = [job EXCEPT !.todo = @ \ {s}, !.read = read]
      OBVIOUS
    <3> QED
      BY <1>3, <3>1 DEF Collect, Steps, job
  <2>3. UNCHANGED <<index, shelf, table, rivals>>
    BY <1>3 DEF Collect, Steps
  <2> QED
    BY <1>2, <2>1, <2>2, <2>3
<1>4. CASE CollectRaises(j, s)
  <2>1. [job EXCEPT !.todo = @ \ {s}] = [job EXCEPT !.todo = @ \ {s}, !.read = job.read]
    BY <1>1 DEF StudioJobs
  <2>2. Goes(j, [job EXCEPT !.todo = @ \ {s}, !.read = job.read])
    BY <1>4, <2>1 DEF CollectRaises, job
  <2>3. UNCHANGED <<index, shelf, table, rivals>>
    BY <1>4 DEF CollectRaises
  <2>4. job.read \in Readings /\ DOMAIN job.read \subseteq job.sel
    BY <1>1 DEF PaperJob, StudioJobs
  <2> QED
    BY <1>2, <2>2, <2>3, <2>4
<1> QED
  BY <1>3, <1>4

(* A request that ends or fails keeps the invariant.                       *)
LEMMA EndKeeps ==
  ASSUME StudioInv, NEW j \in Jobs, Goes(j, Idle), UNCHANGED <<index, shelf, table, rivals>>
  PROVE  StudioInv'
<1>1. Idle.pc = "idle"
  BY DEF Idle
<1> QED
  BY <1>1, IdleFits, StepKeeps

(* The request has read its sources, and the model writes.                 *)
LEMMA WriteKeeps ==
  ASSUME StudioInv, NEW j \in Jobs, Collected(j) \/ Write(j)
  PROVE  StudioInv'
<1> DEFINE job == jobs[j]
<1>0. job.pc \in {"collect", "write"}
  BY DEF Collected, Write
<1>1. /\ job \in StudioJobs /\ job.what \in Papers /\ job.what \notin Reports
      /\ PaperJob(job) /\ job.todo \subseteq job.sel
  BY <1>0, PaperJobIs DEF StudioInv
<1> HIDE DEF job
<1>2. CASE Collected(j) /\ job.read = <<>>
  BY <1>2, EndKeeps DEF Collected, Steps, job
<1>3. ASSUME NEW at \in {"write", "save"}, DOMAIN job.read # {},
             Goes(j, [job EXCEPT !.pc = at]), UNCHANGED <<index, shelf, table, rivals>>
      PROVE  StudioInv'
  <2> DEFINE b == [job EXCEPT !.pc = at]
  <2>1. /\ b \in StudioJobs /\ b.pc = at /\ b.what = job.what /\ b.sel = job.sel
        /\ b.read = job.read /\ b.todo = job.todo /\ b.refresh = job.refresh
    BY <1>1 DEF StudioJobs
  <2> HIDE DEF b
  <2>2. JobFits(b)
    BY <1>1, <1>3, <2>1 DEF JobFits, PaperJob
  <2>3. Goes(j, b)
    BY <1>3 DEF b
  <2> QED
    BY <1>0, <1>3, <2>1, <2>2, <2>3, StepKeeps DEF job
<1>4. CASE Collected(j) /\ job.read # <<>>
  <2>1. DOMAIN job.read # {}
    <3>1. job.read \in Readings
      BY <1>1 DEF StudioJobs
    <3>2. PICK S \in SUBSET Sources : job.read \in [S -> Held]
      BY <3>1, ReadingsAre
    <3>3. S = {} => job.read = <<>>
      BY <3>2
    <3> QED
      BY <1>4, <3>2, <3>3
  <2> QED
    BY <1>3, <1>4, <2>1 DEF Collected, Steps, job
<1>5. CASE Write(j)
  <2>1. DOMAIN job.read # {} 
    BY <1>1, <1>5 DEF Write, PaperJob, job
  <2> QED
    BY <1>3, <1>5, <2>1 DEF Write, Steps, job
<1> QED
  BY <1>2, <1>4, <1>5

(* A paper is stored: whoever writes the same is its rival.                *)
LEMMA SavePaperKeeps ==
  ASSUME StudioInv, NEW j \in Jobs, SavePaper(j)
  PROVE  StudioInv'
<1> DEFINE job == jobs[j]
           p == job.what
           sel == job.sel
           b == [job EXCEPT !.pc = "answered", !.answer = <<job.read>>]
<1>0. job.pc = "save" /\ p \in Papers /\ p \notin Reports /\ JobFits(job) /\ job \in StudioJobs
  BY StudioAssumption DEF SavePaper, StudioInv, JobsFit, JobFits, Reports
<1>1. PaperJob(job) /\ sel \in (SUBSET Sources) \ {{}} /\ job.read \in Readings
  BY <1>0 DEF JobFits, PaperJob, StudioJobs
<1>2. /\ b \in StudioJobs /\ b.pc = "answered" /\ b.what = p /\ b.sel = sel /\ b.read = job.read
      /\ b.answer = <<job.read>> /\ b.todo = job.todo
  <2>1. <<job.read>> \in Seq(Readings \cup ReportRows)
    BY <1>1
  <2> QED
    BY <1>0, <2>1 DEF StudioJobs
<1>3. Goes(j, b) /\ UNCHANGED <<index, table>>
  BY DEF SavePaper
<1>4. /\ shelf' = [shelf EXCEPT ![p] = Put(@, sel, job.read)]
      /\ rivals' = IF \E k \in Jobs : Rival(j, k) THEN rivals \cup {<<p, sel>>} ELSE rivals
  BY DEF SavePaper
<1> HIDE DEF b
<1>5. JobFits(b)
  BY <1>0, <1>1, <1>2 DEF JobFits, PaperJob
<1>6. JobsFit' /\ jobs'[j] = b /\ \A k \in Jobs : k # j => jobs'[k] = jobs[k]
  BY <1>3, <1>5, JobGoes DEF StudioInv
<1> HIDE DEF job
<1>7. /\ shelf'[p] = Put(shelf[p], sel, job.read) /\ DOMAIN shelf' = Papers
      /\ \A q \in Papers : q # p => shelf'[q] = shelf[q]
  BY <1>0, <1>4 DEF StudioInv, ShelvesFit
<1>8. ShelvesFit'
  <2>1. ShelfFits(shelf[p])
    BY <1>0 DEF StudioInv, ShelvesFit
  <2>2. ShelfFits(Put(shelf[p], sel, job.read))
    <3>1. DOMAIN job.read # {} /\ DOMAIN job.read \subseteq sel
      BY <1>0, <1>1 DEF PaperJob
    <3> QED
      BY <1>1, <2>1, <3>1 DEF ShelfFits, Put
  <2> QED
    BY <1>7, <2>2 DEF StudioInv, ShelvesFit
<1>9. WritesBeside'
  <2> SUFFICES ASSUME NEW k \in Jobs, jobs'[k].pc \in {"collect", "write", "save"},
                      jobs'[k].what \in Papers, ~jobs'[k].refresh,
                      jobs'[k].sel \in DOMAIN shelf'[jobs'[k].what]
               PROVE  <<jobs'[k].what, jobs'[k].sel>> \in rivals'
    BY DEF WritesBeside
  <2>1. k # j /\ jobs'[k] = jobs[k]
    BY <1>2, <1>6
  <2>2. CASE jobs[k].what = p /\ jobs[k].sel = sel
    <3>1. Rival(j, k)
      BY <2>1, <2>2 DEF Rival, job
    <3> QED
      BY <1>4, <2>1, <2>2, <3>1
  <2>3. CASE jobs[k].what # p \/ jobs[k].sel # sel
    <3>1. jobs[k].sel \in DOMAIN shelf[jobs[k].what]
      BY <1>7, <2>1, <2>3 DEF Put
    <3> QED
      BY <1>4, <2>1, <3>1 DEF StudioInv, WritesBeside
  <2> QED
    BY <2>2, <2>3
<1> QED
  BY <1>3, <1>6, <1>8, <1>9 DEF StudioInv, TablesFit

-----------------------------------------------------------------------------
(* Requests for reports. *)

(* A report is asked for.                                                  *)
LEMMA AskReportKeeps ==
  ASSUME StudioInv, NEW j \in Jobs, NEW r \in Reports, NEW x \in Projects, NEW s \in Sources,
         NEW refresh \in BOOLEAN, AskReport(j, r, x, s, refresh)
  PROVE  StudioInv'
<1> DEFINE b == [Idle EXCEPT !.pc = "read", !.what = r, !.project = x, !.sel = {s},
                             !.refresh = refresh]
<1>1. Goes(j, b) /\ UNCHANGED <<index, shelf, table, rivals>>
  BY DEF AskReport, Begins
<1>2. Idle \in StudioJobs /\ Idle.todo = {}
  BY IdleFits DEF JobFits, Idle
<1>3. /\ b \in StudioJobs /\ b.pc = "read" /\ b.what = r /\ b.project = x
      /\ b.sel = {s} /\ b.todo = {}
  BY <1>2 DEF StudioJobs
<1> HIDE DEF b
<1>4. SourceOf(b) = s /\ r \notin Papers
  BY <1>3, StudioAssumption DEF SourceOf, Reports
<1>5. JobFits(b)
  BY <1>3, <1>4 DEF JobFits, ReportJob
<1> QED
  BY <1>1, <1>3, <1>5, StepKeeps

(* A request for a report that is under way.                               *)
LEMMA ReportJobIs ==
  ASSUME JobsFit, NEW j \in Jobs,
         jobs[j].pc \in {"read", "lookup", "run"} \/ (jobs[j].pc = "save" /\ jobs[j].what \in Reports)
  PROVE  /\ jobs[j] \in StudioJobs /\ jobs[j].what \in Reports /\ jobs[j].what \notin Papers
         /\ JobFits(jobs[j]) /\ ReportJob(jobs[j]) /\ Source(j) = SourceOf(jobs[j])
<1>1. JobFits(jobs[j])
  BY DEF JobsFit
<1>2. Source(j) = SourceOf(jobs[j])
  BY DEF Source, SourceOf
<1> QED
  BY <1>1, <1>2, StudioAssumption DEF JobFits, Reports

(* The row of a request that has read its source.                          *)
LEMMA RowIs ==
  ASSUME StudioInv, NEW j \in Jobs, jobs[j].pc \in {"lookup", "run", "save"},
         jobs[j].what \in Reports
  PROVE  /\ Row(j) \in ReportRows /\ Row(j).project = jobs[j].project
         /\ Row(j).source = SourceOf(jobs[j]) /\ Row(j).of = jobs[j].read[SourceOf(jobs[j])]
<1> DEFINE job == jobs[j]
<1>1. job \in StudioJobs /\ ReportJob(job) /\ Source(j) = SourceOf(job)
  BY ReportJobIs DEF StudioInv
<1>2. job.read \in [{SourceOf(job)} -> Held] /\ job.project \in Projects /\ SourceOf(job) \in Sources
  BY <1>1 DEF ReportJob
<1> HIDE DEF job
<1>3. Row(j) = [project |-> job.project, source |-> SourceOf(job), of |-> job.read[SourceOf(job)]]
  BY <1>1 DEF Row, job
<1>4. job.read[SourceOf(job)] \in Held
  BY <1>2
<1> QED
  BY <1>2, <1>3, <1>4 DEF ReportRows, job

(* A request for a report moves on with what it has read.                  *)
LEMMA ReportGoes ==
  ASSUME StudioInv, NEW j \in Jobs, NEW b, Goes(j, b), UNCHANGED <<index, shelf, table, rivals>>,
         jobs[j].what \in Reports, JobFits(jobs[j]), b \in StudioJobs,
         b.pc \in {"run", "lookup", "save"}, b.what = jobs[j].what, b.project = jobs[j].project,
         b.sel = jobs[j].sel, b.todo = jobs[j].todo, b.read \in [{SourceOf(jobs[j])} -> Held]
  PROVE  StudioInv'
<1>1. SourceOf(b) = SourceOf(jobs[j])
  BY DEF SourceOf
<1>2. b.what \notin Papers
  BY StudioAssumption DEF Reports
<1>3. JobFits(b)
  BY <1>1, <1>2 DEF JobFits, ReportJob
<1> QED
  BY <1>2, <1>3, StepKeeps

(* A request for a report answers with a row of its key.                   *)
LEMMA ReportAnswers ==
  ASSUME NEW job \in StudioJobs, JobFits(job), job.what \in Reports, NEW cached \in BOOLEAN,
         job.read \in [{SourceOf(job)} -> Held], NEW row \in ReportRows,
         row.project = job.project, row.source = SourceOf(job),
         row.of.tree = job.read[SourceOf(job)].tree, ~cached => row.of = job.read[SourceOf(job)]
  PROVE  JobFits([job EXCEPT !.pc = "answered", !.answer = <<row>>, !.cached = cached])
<1> DEFINE b == [job EXCEPT !.pc = "answered", !.answer = <<row>>, !.cached = cached]
<1>1. <<row>> \in Seq(Readings \cup ReportRows)
  OBVIOUS
<1>2. /\ b \in StudioJobs /\ b.pc = "answered" /\ b.what = job.what /\ b.sel = job.sel
      /\ b.read = job.read /\ b.cached = cached /\ b.todo = job.todo /\ b.answer = <<row>>
      /\ b.project = job.project
  BY <1>1 DEF StudioJobs
<1> HIDE DEF b
<1>3. SourceOf(b) = SourceOf(job) /\ b.what \notin Papers
  BY <1>2, StudioAssumption DEF SourceOf, Reports
<1>4. job.project \in Projects /\ SourceOf(job) \in Sources /\ job.todo \subseteq job.sel
  BY DEF JobFits, ReportJob
<1>5. JobFits(b)
  BY <1>2, <1>3, <1>4 DEF JobFits, ReportJob
<1> QED
  BY <1>5 DEF b

(* The index is read.                                                      *)
LEMMA ReadIndexKeeps ==
  ASSUME StudioInv, NEW j \in Jobs, ReadIndex(j)
  PROVE  StudioInv'
<1> DEFINE job == jobs[j]
           s == SourceOf(job)
<1>0. job.pc = "read"
  BY DEF ReadIndex
<1>1. /\ job \in StudioJobs /\ job.what \in Reports /\ ReportJob(job) /\ Source(j) = s
      /\ JobFits(job)
  BY <1>0, ReportJobIs DEF StudioInv
<1>s. s \in Sources
  BY <1>1 DEF ReportJob
<1>2. CASE index[s] = Absent
  BY <1>1, <1>2, EndKeeps DEF ReadIndex, Steps
<1>3. CASE index[s] # Absent
  <2> DEFINE read == [x \in {s} |-> index[s]]
             at == IF job.refresh THEN "run" ELSE "lookup"
             b == [job EXCEPT !.read = read, !.pc = at]
  <2>1. Goes(j, b) /\ UNCHANGED <<index, shelf, table, rivals>>
    BY <1>1, <1>3 DEF ReadIndex, Steps
  <2> HIDE DEF job, s
  <2>2. read \in [{s} -> Held] /\ read \in Readings
    <3>1. index[s] \in Held
      BY <1>s, <1>3, HeldAre DEF StudioInv
    <3>2. read \in [{s} -> Held] /\ {s} \in SUBSET Sources
      BY <1>s, <3>1
    <3> QED
      BY <3>2, ReadingsAre
  <2>3. at \in {"run", "lookup"}
    OBVIOUS
  <2> HIDE DEF read, at
  <2>4. /\ b \in StudioJobs /\ b.pc = at /\ b.what = job.what /\ b.project = job.project
        /\ b.sel = job.sel /\ b.todo = job.todo /\ b.read = read
    BY <1>1, <2>2, <2>3 DEF StudioJobs
  <2> HIDE DEF b
  <2> QED
    BY <1>1, <2>1, <2>2, <2>3, <2>4, ReportGoes DEF job, s
<1> QED
  BY <1>2, <1>3

(* The scan or the drawing goes on.                                        *)
LEMMA RunKeeps ==
  ASSUME StudioInv, NEW j \in Jobs, Scan(j) \/ Draw(j) \/ Unreadable(j)
  PROVE  StudioInv'
<1> DEFINE job == jobs[j]
<1>0. job.pc = "run"
  BY DEF Scan, Draw, Unreadable
<1>a. job \in StudioJobs /\ job.what \in Reports /\ JobFits(job) /\ ReportJob(job)
  BY <1>0, ReportJobIs DEF StudioInv
<1>1. /\ job \in StudioJobs /\ job.what \in Reports /\ JobFits(job)
      /\ job.read \in [{SourceOf(job)} -> Held]
  BY <1>0, <1>a DEF ReportJob
<1> HIDE DEF job
<1>2. ASSUME NEW at \in {"run", "save"}, NEW tries \in 0..1,
             Goes(j, [job EXCEPT !.pc = at, !.tries = tries]),
             UNCHANGED <<index, shelf, table, rivals>>
      PROVE  StudioInv'
  <2> DEFINE b == [job EXCEPT !.pc = at, !.tries = tries]
  <2>1. /\ b \in StudioJobs /\ b.pc = at /\ b.what = job.what /\ b.project = job.project
        /\ b.sel = job.sel /\ b.todo = job.todo /\ b.read = job.read
    BY <1>1 DEF StudioJobs
  <2> HIDE DEF b
  <2>2. Goes(j, b)
    BY <1>2 DEF b
  <2> QED
    BY <1>1, <1>2, <2>1, <2>2, ReportGoes DEF job
<1>3. CASE Scan(j) \/ Draw(j)
  <2>1. Goes(j, [job EXCEPT !.pc = "save"]) /\ UNCHANGED <<index, shelf, table, rivals>>
    BY <1>3 DEF Scan, Draw, Steps, job
  <2>2. [job EXCEPT !.pc = "save"] = [job EXCEPT !.pc = "save", !.tries = job.tries]
        /\ job.tries \in 0..1
    BY <1>1 DEF StudioJobs
  <2> QED
    BY <1>2, <2>1, <2>2
<1>4. CASE Unreadable(j)
  <2>1. Goes(j, [job EXCEPT !.tries = 1]) /\ UNCHANGED <<index, shelf, table, rivals>>
    BY <1>4 DEF Unreadable, Steps, job
  <2>2. [job EXCEPT !.tries = 1] = [job EXCEPT !.pc = "run", !.tries = 1]
    BY <1>0, <1>1 DEF StudioJobs, job
  <2> QED
    BY <1>2, <2>1, <2>2
<1> QED
  BY <1>3, <1>4

(* The rows of one key that a set picks from a table.                      *)
LEMMA PickedRows ==
  ASSUME NEW rows \in Seq(ReportRows), NEW S
  PROVE  /\ KeptOf(rows, S) \in Seq(ReportRows)
         /\ \A x \in DOMAIN KeptOf(rows, S) : KeptOf(rows, S)[x] \in S
         /\ OneRowPerKey(rows) => OneRowPerKey(KeptOf(rows, S))
<1> DEFINE kept == KeptOf(rows, S)
<1>1. kept \in Seq(ReportRows) /\ PickedOf(rows, S, Len(rows), kept)
  BY KeptIs
<1> HIDE DEF kept
<1>2. \A x \in DOMAIN kept : kept[x] \in S
  BY <1>1 DEF PickedOf
<1>3. ASSUME OneRowPerKey(rows) PROVE OneRowPerKey(kept)
  <2>1. ASSUME NEW x \in DOMAIN kept, NEW y \in DOMAIN kept, x < y
        PROVE  Key(kept[x]) # Key(kept[y])
    <3>1. PICK i, k \in 1..Len(rows) : i < k /\ kept[x] = rows[i] /\ kept[y] = rows[k]
      BY <1>1, <2>1 DEF PickedOf
    <3>2. i \in DOMAIN rows /\ k \in DOMAIN rows /\ i # k
      BY <3>1
    <3> QED
      BY <1>3, <3>1, <3>2 DEF OneRowPerKey
  <2> SUFFICES ASSUME NEW x \in DOMAIN kept, NEW y \in DOMAIN kept, x # y
               PROVE  Key(kept[x]) # Key(kept[y])
    BY DEF OneRowPerKey
  <2>2. x < y \/ y < x
    BY <1>1
  <2> QED
    BY <2>1, <2>2
<1> QED
  BY <1>1, <1>2, <1>3 DEF kept

(* A stored report of the same key is the answer.                          *)
LEMMA LookupKeeps ==
  ASSUME StudioInv, NEW j \in Jobs, Lookup(j)
  PROVE  StudioInv'
<1> DEFINE job == jobs[j]
           hits == Stored(job.what, Row(j))
<1>0. job.pc = "lookup"
  BY DEF Lookup
<1>1. job \in StudioJobs /\ job.what \in Reports /\ JobFits(job) /\ ReportJob(job)
  BY <1>0, ReportJobIs DEF StudioInv
<1>2. job.read \in [{SourceOf(job)} -> Held]
  BY <1>0, <1>1 DEF ReportJob
<1>3. /\ Row(j) \in ReportRows /\ Row(j).project = job.project
      /\ Row(j).source = SourceOf(job) /\ Row(j).of = job.read[SourceOf(job)]
  BY <1>0, <1>1, RowIs
<1>4. PICK rows \in Seq(ReportRows) : rows = table[job.what]
  BY <1>1 DEF StudioInv, TablesFit
<1>5. hits = KeptOf(rows, OfKey(rows, Row(j)))
  BY <1>4 DEF Stored
<1>6. hits \in Seq(ReportRows) /\ \A x \in DOMAIN hits : Key(hits[x]) = Key(Row(j))
  <2>1. \A x \in DOMAIN hits : hits[x] \in OfKey(rows, Row(j))
    BY <1>5, PickedRows
  <2>2. \A old \in OfKey(rows, Row(j)) : Key(old) = Key(Row(j))
    BY DEF OfKey
  <2>3. hits \in Seq(ReportRows)
    BY <1>5, PickedRows
  <2> QED
    BY <2>1, <2>2, <2>3
<1>7. CASE hits = <<>>
  <2> DEFINE b == [job EXCEPT !.pc = "run"]
  <2>1. Goes(j, b) /\ UNCHANGED <<index, shelf, table, rivals>>
    BY <1>7 DEF Lookup, Steps
  <2>2. /\ b \in StudioJobs /\ b.pc = "run" /\ b.what = job.what /\ b.project = job.project
        /\ b.sel = job.sel /\ b.todo = job.todo /\ b.read = job.read
    BY <1>1 DEF StudioJobs
  <2> HIDE DEF b
  <2> QED
    BY <1>1, <1>2, <2>1, <2>2, ReportGoes
<1>8. CASE hits # <<>>
  <2>1. PICK row \in ReportRows : row = hits[1]
    BY <1>6, <1>8
  <2>2. Key(row) = Key(Row(j))
    BY <1>6, <1>8, <2>1
  <2> DEFINE b == [job EXCEPT !.pc = "answered", !.answer = <<row>>, !.cached = TRUE]
  <2>3. Goes(j, b) /\ UNCHANGED <<index, shelf, table, rivals>>
    BY <1>8, <2>1 DEF Lookup, Answers, Steps
  <2>4. row.project = job.project /\ row.source = SourceOf(job)
        /\ row.of.tree = job.read[SourceOf(job)].tree
    BY <1>3, <2>2 DEF Key
  <2> HIDE DEF job, hits
  <2>5. JobFits(b)
    BY <1>1, <1>2, <2>4, ReportAnswers
  <2>6. b.pc = "answered"
    BY <1>1 DEF StudioJobs
  <2> HIDE DEF b
  <2> QED
    BY <2>3, <2>5, <2>6, StepKeeps
<1> QED
  BY <1>7, <1>8

(* The report replaces the row of its key.                                 *)
LEMMA SaveReportKeeps ==
  ASSUME StudioInv, NEW j \in Jobs, SaveReport(j)
  PROVE  StudioInv'
<1> DEFINE job == jobs[j]
           r == job.what
           b == [job EXCEPT !.pc = "answered", !.answer = <<Row(j)>>]
<1>0. job.pc = "save" /\ r \in Reports
  BY DEF SaveReport
<1>1. job \in StudioJobs /\ JobFits(job) /\ ReportJob(job) /\ r \notin Papers
  BY <1>0, ReportJobIs DEF StudioInv
<1>2. job.read \in [{SourceOf(job)} -> Held]
  BY <1>0, <1>1 DEF ReportJob
<1>3. /\ Row(j) \in ReportRows /\ Row(j).project = job.project
      /\ Row(j).source = SourceOf(job) /\ Row(j).of = job.read[SourceOf(job)]
  BY <1>0, RowIs
<1>4. PICK row \in ReportRows : row = Row(j)
  BY <1>3
<1>5. PICK rows \in Seq(ReportRows) : rows = table[r]
  BY <1>0 DEF StudioInv, TablesFit
<1>6. OneRowPerKey(rows)
  BY <1>0, <1>5 DEF StudioInv, TablesFit
<1> DEFINE S == ToSet(rows) \ OfKey(rows, row)
           kept == KeptOf(rows, S)
<1>7. table' = [table EXCEPT ![r] = Append(kept, row)]
  BY <1>4, <1>5 DEF SaveReport
<1>8. Goes(j, b) /\ UNCHANGED <<index, shelf, rivals>>
  BY DEF SaveReport
<1>9. /\ kept \in Seq(ReportRows) /\ OneRowPerKey(kept)
      /\ \A x \in DOMAIN kept : kept[x] \in S
  BY <1>6, PickedRows
<1>10. \A x \in DOMAIN kept : Key(kept[x]) # Key(row)
  BY <1>9 DEF OfKey
<1> HIDE DEF kept
<1>11. Append(kept, row) \in Seq(ReportRows) /\ OneRowPerKey(Append(kept, row))
  BY <1>9, <1>10 DEF OneRowPerKey
<1>12. TablesFit'
  BY <1>0, <1>7, <1>11 DEF StudioInv, TablesFit
<1>13. JobFits(b) /\ b.pc = "answered" /\ b.what = r
  <2>1. b = [job EXCEPT !.pc = "answered", !.answer = <<row>>, !.cached = job.cached]
        /\ job.cached \in BOOLEAN
    BY <1>1, <1>4 DEF StudioJobs
  <2>2. JobFits([job EXCEPT !.pc = "answered", !.answer = <<row>>, !.cached = job.cached])
    BY <1>0, <1>1, <1>2, <1>3, <1>4, <2>1, ReportAnswers
  <2>3. b.pc = "answered" /\ b.what = r
    BY <1>1 DEF StudioJobs
  <2> QED
    BY <2>1, <2>2, <2>3
<1> HIDE DEF b
<1>14. JobsFit' /\ jobs'[j] = b /\ \A k \in Jobs : k # j => jobs'[k] = jobs[k]
  BY <1>8, <1>13, JobGoes DEF StudioInv
<1>15. WritesBeside'
  BY <1>8, <1>13, <1>14, StaysBeside DEF StudioInv
<1> QED
  BY <1>8, <1>12, <1>14, <1>15 DEF StudioInv, ShelvesFit

(* Every step keeps the invariant.                                         *)
LEMMA StudioNext == StudioInv /\ [Next]_vars => StudioInv'
<1> SUFFICES ASSUME StudioInv, [Next]_vars PROVE StudioInv'
  OBVIOUS
<1>1. CASE UNCHANGED vars
  BY <1>1 DEF vars, StudioInv, JobsFit, ShelvesFit, TablesFit, WritesBeside
<1>2. ASSUME NEW s \in Sources, NEW c \in Contents, Reingest(s, c) PROVE StudioInv'
  <2>1. index' \in [Sources -> Contents] /\ UNCHANGED <<shelf, table, jobs, rivals>>
    BY <1>2 DEF Reingest, StudioInv
  <2> QED
    BY <2>1 DEF StudioInv, JobsFit, ShelvesFit, TablesFit, WritesBeside
<1>3. ASSUME NEW j \in Jobs, Advance(j) PROVE StudioInv'
  <2>1. CASE Close(j)
    BY <2>1, EndKeeps DEF Close, Steps
  <2> QED
    BY <1>3, <2>1, FindPaperKeeps, CollectKeeps, WriteKeeps, SavePaperKeeps, ReadIndexKeeps,
       LookupKeeps, RunKeeps, SaveReportKeeps DEF Advance
<1>4. ASSUME NEW j \in Jobs, WriteFails(j) \/ RunFails(j) PROVE StudioInv'
  BY <1>4, EndKeeps DEF WriteFails, RunFails, Fails
<1>5. CASE Crash
  <2>1. JobsFit' /\ \A j \in Jobs : jobs'[j].pc = "idle"
    BY <1>5, IdleFits DEF Crash, JobsFit, JobFits, Idle
  <2>2. UNCHANGED <<index, shelf, table, rivals>>
    BY <1>5 DEF Crash
  <2> QED
    BY <2>1, <2>2 DEF StudioInv, ShelvesFit, TablesFit, WritesBeside
<1>6. CASE Quiet
  BY <1>1, <1>6 DEF Quiet
<1> QED
  BY <1>1, <1>2, <1>3, <1>4, <1>5, <1>6, CollectKeeps, AskPaperKeeps, AskReportKeeps DEF Next

(* What the runs check of it.                                              *)
LEMMA StudioIsRight == StudioInv => TypeOK /\ WorkOfItsInput
<1> SUFFICES ASSUME StudioInv PROVE TypeOK /\ WorkOfItsInput
  OBVIOUS
<1>1. ASSUME NEW r \in Reports, NEW i \in DOMAIN table[r]
      PROVE  table[r][i] \in ReportRows
  BY <1>1 DEF StudioInv, TablesFit
<1>2. TypeOK
  <2>1. \A p \in Papers : DOMAIN shelf[p] \subseteq (SUBSET Sources) \ {{}}
    BY DEF StudioInv, ShelvesFit, ShelfFits
  <2>2. \A j \in Jobs : jobs[j].tries \in 0..1 /\ jobs[j].todo \subseteq jobs[j].sel
    BY DEF StudioInv, JobsFit, JobFits, StudioJobs
  <2>3. \A row \in ReportRows : <<row.project, row.source, row.of.tree>> \in Projects \X Sources \X Trees
    BY DEF ReportRows, Held
  <2> QED
    BY <1>1, <2>1, <2>2, <2>3 DEF TypeOK, StudioInv
<1>3. PaperOfItsSelection
  <2>1. ASSUME NEW j \in Jobs, jobs[j].pc = "answered", jobs[j].what \in Papers, ~jobs[j].cached
        PROVE  jobs[j].answer[1] = jobs[j].read
    BY <2>1 DEF StudioInv, JobsFit, JobFits, PaperJob
  <2> QED
    BY <2>1 DEF PaperOfItsSelection, StudioInv, ShelvesFit, ShelfFits
<1>4. ReportOfItsTree
  <2>1. ASSUME NEW r \in Reports, NEW i \in DOMAIN table[r], NEW k \in DOMAIN table[r], i # k
        PROVE  <<table[r][i].project, table[r][i].source, table[r][i].of.tree>>
               # <<table[r][k].project, table[r][k].source, table[r][k].of.tree>>
    <3>1. Key(table[r][i]) # Key(table[r][k])
      BY <2>1 DEF StudioInv, TablesFit, OneRowPerKey
    <3> QED
      BY <3>1 DEF Key
  <2>2. ASSUME NEW j \in Jobs, jobs[j].pc = "answered", jobs[j].what \in Reports
        PROVE  LET row == jobs[j].answer[1] s == Source(j) IN
               /\ row.project = jobs[j].project /\ row.source = s
               /\ row.of.tree = jobs[j].read[s].tree
               /\ ~jobs[j].cached => row.of = jobs[j].read[s]
    <3>1. ReportJob(jobs[j]) /\ Source(j) = SourceOf(jobs[j])
      BY <2>2 DEF StudioInv, JobsFit, JobFits, Source, SourceOf
    <3>2. PICK row \in ReportRows :
            /\ jobs[j].answer = <<row>> /\ row.project = jobs[j].project
            /\ row.source = SourceOf(jobs[j])
            /\ row.of.tree = jobs[j].read[SourceOf(jobs[j])].tree
            /\ ~jobs[j].cached => row.of = jobs[j].read[SourceOf(jobs[j])]
      BY <2>2, <3>1 DEF ReportJob
    <3> QED
      BY <3>1, <3>2
  <2> QED
    BY <2>1, <2>2 DEF ReportOfItsTree
<1> QED
  BY <1>2, <1>3, <1>4 DEF WorkOfItsInput

(* A step that replaces a stored paper is of a refresh or of a rival.      *)
LEMMA StoredPaperStep ==
  ASSUME StudioInv, [Next]_vars, NEW p \in Papers, NEW sel \in DOMAIN shelf[p],
         shelf'[p][sel] # shelf[p][sel]
  PROVE  \/ <<p, sel>> \in rivals
         \/ \E j \in Jobs : jobs[j].refresh /\ jobs[j].what = p /\ jobs[j].sel = sel
<1>1. shelf' # shelf
  OBVIOUS
<1>2. PICK j \in Jobs : SavePaper(j)
  <2>1. ASSUME NEW j \in Jobs, Advance(j) PROVE SavePaper(j)
    <3>1. ~FindPaper(j) /\ \A s \in Sources : ~Collect(j, s)
      BY <1>1 DEF FindPaper, Collect, Answers, Steps
    <3>2. ~Collected(j) /\ ~Write(j) /\ ~ReadIndex(j) /\ ~Lookup(j)
      BY <1>1 DEF Collected, Write, ReadIndex, Lookup, Answers, Steps
    <3>3. ~Scan(j) /\ ~Draw(j) /\ ~Unreadable(j) /\ ~SaveReport(j) /\ ~Close(j)
      BY <1>1 DEF Scan, Draw, Unreadable, SaveReport, Close, Steps
    <3> QED
      BY <2>1, <3>1, <3>2, <3>3, Zenon DEF Advance
  <2>2. ASSUME NEW j \in Jobs PROVE ~WriteFails(j) /\ ~RunFails(j)
    BY <1>1 DEF WriteFails, RunFails, Fails, Answers, Steps
  <2>3. ASSUME NEW j \in Jobs, NEW s \in Sources PROVE ~CollectRaises(j, s)
    BY <1>1 DEF CollectRaises, Collected, Fails, Steps
  <2>4. ASSUME NEW j \in Jobs, NEW refresh \in BOOLEAN
        PROVE  /\ \A q \in Papers, S \in (SUBSET Sources) \ {{}} : ~AskPaper(j, q, S, refresh)
               /\ \A r \in Reports, x \in Projects, s \in Sources : ~AskReport(j, r, x, s, refresh)
    BY <1>1 DEF AskPaper, AskReport, Begins
  <2> QED
    BY <1>1, <2>1, <2>2, <2>3, <2>4 DEF Next, vars, Reingest, Crash, Quiet
<1>3. jobs[j].pc = "save" /\ jobs[j].what \in Papers
      /\ shelf' = [shelf EXCEPT ![jobs[j].what] = Put(@, jobs[j].sel, jobs[j].read)]
  BY <1>2 DEF SavePaper
<1>4. jobs[j].what = p
  BY <1>3 DEF StudioInv, ShelvesFit
<1>5. jobs[j].sel = sel
  <2>1. shelf'[p] = Put(shelf[p], jobs[j].sel, jobs[j].read)
    BY <1>3, <1>4 DEF StudioInv, ShelvesFit
  <2> QED
    BY <2>1 DEF Put
<1> QED
  BY <1>3, <1>4, <1>5 DEF StudioInv, WritesBeside

-----------------------------------------------------------------------------
(* ModelHub: the state and the requests. *)

HubTiers == ToSet(Tiers)
RowCopies == [id : Models, row : Hub!ModelRows]
ChainRows == [tier : HubTiers, members : Seq(Models), enabled : BOOLEAN]
Targets == Models \cup Chains \cup {None}
Selections == {e \in [mode : {"disabled", "single", "chain"}, target : Targets] :
                 e.target = None <=> e.mode = "disabled"}
HubJobs ==
  [pc : {"idle", "test", "call", "check", "store", "select", "resolve", "members", "swap"},
   tier : HubTiers \cup {None}, mode : {"disabled", "single", "chain", "create", "update"},
   target : Targets, ids : Seq(Models), got : Seq(RowCopies), tiers : Seq(HubTiers),
   clean : BOOLEAN]

HubTyped ==
  /\ DOMAIN models \subseteq Models /\ models \in [DOMAIN models -> Hub!ModelRows]
  /\ DOMAIN chains \subseteq Chains /\ chains \in [DOMAIN chains -> ChainRows]
  /\ serving \in [HubTiers -> Selections] /\ running \in [HubTiers -> Seq(RowCopies)]
  /\ hubJobs \in [Jobs -> HubJobs]
  /\ issued \subseteq Models \cup Chains /\ DOMAIN models \cup DOMAIN chains \subseteq issued
  /\ settled \subseteq HubTiers

\* What a request is about at each stage.
JobTyped(b) ==
  /\ b.pc \in {"check", "store", "resolve", "members", "swap"} => b.tier \in HubTiers
  /\ b.pc = "call" => b.target \in Models /\ Len(b.got) = 1
  /\ b.pc = "check" => b.target \in Chains /\ b.mode \in {"create", "update"}
  /\ b.pc = "store" => [mode |-> b.mode, target |-> b.target] \in Selections
  /\ b.pc = "resolve" => b.mode \in {"single", "chain"} /\ b.got = <<>>

\* An id that was issued is of this tier, as long as it has a row.
KnownAs(x, t) ==
  /\ x \in issued \cup {None}
  /\ x \in DOMAIN models => models[x].tier = t
  /\ x \in DOMAIN chains => chains[x].tier = t
\* An id has a row, or was deleted under a request that had checked it.
Lives(x) == x \in DOMAIN models \cup DOMAIN chains \cup raced \cup {None}
\* The ids a request has checked, as Checked(j).
CheckedBy(b) == IF b.pc = "check" THEN Hub!IdsOf(b.got)
                ELSE IF b.pc = "store" THEN {b.target} ELSE {}
SameSize(m, n) == models[m].dim = 0 \/ models[n].dim = 0 \/ models[m].dim = models[n].dim

\* What a request has read and checked is of its tier.
JobTiers(b) ==
  /\ b.target \in issued \cup {None}
  /\ b.pc = "check" =>
       /\ \A i \in DOMAIN b.got : b.got[i].row.tier = b.tier /\ KnownAs(b.got[i].id, b.tier)
       /\ b.mode = "update" => KnownAs(b.target, b.tier)
  /\ b.pc \in {"store", "resolve"} => KnownAs(b.target, b.tier)
  /\ b.pc = "members" => \A i \in DOMAIN b.ids : KnownAs(b.ids[i], b.tier)
  /\ b.pc \in {"members", "swap"} => \A i \in DOMAIN b.got : b.got[i].row.tier = b.tier
\* What it has checked has a row, or was deleted under it.
JobRefs(b) == \A x \in CheckedBy(b) : Lives(x)
\* A vector size it has checked is the one there is now, unless that drifted.
JobSizes(b) ==
  b.pc = "check" =>
    \A i \in DOMAIN b.got : b.got[i].id \in DOMAIN models \ drifted =>
      models[b.got[i].id].dim = b.got[i].row.dim
\* A model under test has the name it is tested under, unless it was edited.
JobTests(b) ==
  b.pc = "call" /\ b.target \in DOMAIN models \ overtaken =>
    models[b.target].name = b.got[1].row.name
JobHolds(b) == JobTyped(b) /\ JobTiers(b) /\ JobRefs(b) /\ JobSizes(b) /\ JobTests(b)
HubJobsHold == \A j \in Jobs : \A b \in HubJobs : hubJobs[j] = b => JobHolds(b)

\* A chain that is being created is known to its request only.
Unborn ==
  \A j \in Jobs :
    hubJobs[j].pc = "check" /\ hubJobs[j].mode = "create" =>
      /\ hubJobs[j].target \notin DOMAIN chains
      /\ \A k \in Jobs \ {j} : hubJobs[k].target # hubJobs[j].target
      /\ \A t \in HubTiers : serving[t].target # hubJobs[j].target

\* The rows themselves.
RowsHold ==
  /\ \A c \in DOMAIN chains : \A m \in ToSet(chains[c].members) :
       KnownAs(m, chains[c].tier) /\ Lives(m)
  /\ \A t \in HubTiers : KnownAs(serving[t].target, t) /\ Lives(serving[t].target)
  /\ \A t \in HubTiers : \A i \in DOMAIN running[t] : running[t][i].row.tier = t
\* The sizes in a chain agree two by two, unless one of the two drifted: this
\* survives the deletion of a third.
SizesAgree ==
  \A c \in DOMAIN chains : \A m, n \in (ToSet(chains[c].members) \cap DOMAIN models) \ drifted :
    SameSize(m, n)

\* What an apply has read of the selection of its tier, when no row has changed.
JobReads(b) ==
  b.clean =>
    /\ b.pc = "resolve" => serving[b.tier] = [mode |-> b.mode, target |-> b.target]
    /\ b.pc = "members" => \E done \in Seq(Models) :
         Hub!Listed(b.tier) = done \o b.ids /\ b.got = Hub!Copies(done)
    /\ b.pc = "swap" => b.got = Hub!Selected(b.tier)
ReadsAreFresh == \A j \in Jobs : \A b \in HubJobs : hubJobs[j] = b => JobReads(b)

HubInv ==
  /\ HubTyped /\ HubJobsHold /\ Unborn /\ RowsHold /\ SizesAgree
  /\ Hub!ReadyModelWasTested /\ ReadsAreFresh /\ Hub!RunsTheSelection

(* The hub's own sets, parts of sequences and cardinalities are these.     *)
LEMMA HubHelpers ==
  /\ \A s : Hub!ToSet(s) = ToSet(s)
  /\ \A s, S : Hub!KeptOf(s, S) = KeptOf(s, S)
  /\ \A S : Hub!Cardinality(S) = Cardinality(S)
<1>1. \A s : Hub!ToSet(s) = ToSet(s)
  BY DEF Hub!ToSet, ToSet
<1>2. \A s, S : Hub!KeptOf(s, S) = KeptOf(s, S)
  BY DEF Hub!KeptOf, KeptOf
<1>3. \A S : Hub!Cardinality(S) = Cardinality(S)
  BY DEF Hub!Cardinality, Cardinality
<1> QED
  BY <1>1, <1>2, <1>3

(* The assumptions about the hub's constants.                              *)
LEMMA HubConstants ==
  /\ HubTiers \subseteq {"llm", "embedding"} /\ Tiers \in Seq(HubTiers)
  /\ None \notin Models \cup Chains /\ Models \cap Chains = {} /\ 0 \notin Dims
  /\ \A l \in Lists : l \in Seq(Models) /\ l # <<>>
  /\ \A f \in Found : DOMAIN f \subseteq Models /\ f \in [DOMAIN f -> Hub!ModelRows]
<1>1. Tiers \in Seq({"llm", "embedding"})
  BY HubAssumption DEF Hub!HubAssumption
<1>2. HubTiers \subseteq {"llm", "embedding"} /\ Tiers \in Seq(HubTiers)
  BY <1>1 DEF HubTiers, ToSet
<1> QED
  BY <1>2, HubAssumption DEF Hub!HubAssumption

(* A row of a model.                                                       *)
LEMMA ModelRowIs ==
  ASSUME NEW row \in Hub!ModelRows
  PROVE  /\ row \in [tier : HubTiers, name : Nat, url : Nat, dim : Dims \cup {0},
                     status : {"untested", "ready", "error"}, usable : BOOLEAN]
         /\ row.tier = "llm" => row.dim = 0
BY HubHelpers DEF Hub!ModelRows, HubTiers

(* The copies of nothing.                                                  *)
LEMMA CopiesOfNone == Hub!Copies(<<>>) = <<>>
<1>1. KeptOf(<<>>, DOMAIN models) = <<>>
  BY KeptEmpty
<1> QED
  BY <1>1, HubHelpers DEF Hub!Copies

(* The copies of one id more.                                              *)
LEMMA CopiesOfMore ==
  ASSUME NEW T, NEW ids \in Seq(T), NEW x \in T
  PROVE  Hub!Copies(Append(ids, x)) =
           IF x \in DOMAIN models THEN Append(Hub!Copies(ids), Hub!Copy(x)) ELSE Hub!Copies(ids)
<1> DEFINE kept == KeptOf(ids, DOMAIN models)
           more == KeptOf(Append(ids, x), DOMAIN models)
<1>1. more = IF x \in DOMAIN models THEN Append(kept, x) ELSE kept
  BY KeptAppend
<1>2. kept \in Seq(T)
  BY KeptIs
<1>3. Hub!Copies(ids) = [i \in DOMAIN kept |-> Hub!Copy(kept[i])]
      /\ Hub!Copies(Append(ids, x)) = [i \in DOMAIN more |-> Hub!Copy(more[i])]
  BY HubHelpers DEF Hub!Copies
<1> HIDE DEF kept, more
<1>4. CASE x \in DOMAIN models
  <2>1. [i \in DOMAIN more |-> Hub!Copy(more[i])]
        = Append([i \in DOMAIN kept |-> Hub!Copy(kept[i])], Hub!Copy(x))
    BY <1>1, <1>2, <1>4
  <2> QED
    BY <1>3, <1>4, <2>1
<1>5. CASE x \notin DOMAIN models
  BY <1>1, <1>3, <1>5
<1> QED
  BY <1>4, <1>5

(* The copies of one id.                                                   *)
LEMMA CopiesOfOne ==
  ASSUME NEW x
  PROVE  Hub!Copies(<<x>>) = IF x \in DOMAIN models THEN <<Hub!Copy(x)>> ELSE <<>>
<1>1. <<>> \in Seq({x}) /\ Append(<<>>, x) = <<x>>
  OBVIOUS
<1>2. Hub!Copies(Append(<<>>, x)) =
        IF x \in DOMAIN models THEN Append(Hub!Copies(<<>>), Hub!Copy(x)) ELSE Hub!Copies(<<>>)
  BY <1>1, CopiesOfMore
<1> QED
  BY <1>1, <1>2, CopiesOfNone

(* A copy has the id and the row of a model.                               *)
LEMMA CopyIs ==
  ASSUME HubTyped, NEW x \in DOMAIN models
  PROVE  Hub!Copy(x) \in RowCopies /\ Hub!Copy(x).id = x /\ Hub!Copy(x).row = models[x]
BY DEF HubTyped, RowCopies, Hub!Copy

(* Copies are of models, and of ids of the list.                           *)
LEMMA CopiesAre ==
  ASSUME HubTyped, NEW T, NEW ids \in Seq(T)
  PROVE  /\ Hub!Copies(ids) \in Seq(RowCopies)
         /\ \A i \in DOMAIN Hub!Copies(ids) : \E k \in DOMAIN ids :
              ids[k] \in DOMAIN models /\ Hub!Copies(ids)[i] = Hub!Copy(ids[k])
<1> DEFINE kept == KeptOf(ids, DOMAIN models)
<1>1. kept \in Seq(T) /\ PickedOf(ids, DOMAIN models, Len(ids), kept)
  BY KeptIs
<1>2. Hub!Copies(ids) = [i \in DOMAIN kept |-> Hub!Copy(kept[i])]
  BY HubHelpers DEF Hub!Copies
<1> HIDE DEF kept
<1>3. \A i \in DOMAIN kept : \E k \in DOMAIN ids : ids[k] \in DOMAIN models /\ kept[i] = ids[k]
  BY <1>1 DEF PickedOf
<1>4. \A i \in DOMAIN kept : Hub!Copy(kept[i]) \in RowCopies
  BY <1>3, CopyIs
<1>5. DOMAIN kept = 1..Len(kept) /\ Len(kept) \in Nat
  BY <1>1
<1>6. [i \in DOMAIN kept |-> Hub!Copy(kept[i])] \in [1..Len(kept) -> RowCopies]
  BY <1>4, <1>5, Zenon
<1>7. [i \in DOMAIN kept |-> Hub!Copy(kept[i])] \in Seq(RowCopies)
  BY <1>5, <1>6, SeqDef
<1>8. \A i \in DOMAIN kept : \E k \in DOMAIN ids :
        ids[k] \in DOMAIN models /\ Hub!Copy(kept[i]) = Hub!Copy(ids[k])
  BY <1>3
<1> QED
  BY <1>2, <1>7, <1>8

(* The ids of a selection.                                                 *)
LEMMA ListedAre ==
  ASSUME HubTyped, NEW t \in HubTiers
  PROVE  Hub!Listed(t) \in Seq(Targets)
<1>1. serving[t] \in Selections /\ serving[t].target \in Targets
  BY DEF HubTyped, Selections
<1>2. \A c \in DOMAIN chains : chains[c].members \in Seq(Targets)
  BY DEF HubTyped, ChainRows, Targets
<1> QED
  BY <1>1, <1>2 DEF Hub!Listed

(* They are of the tier.                                                   *)
LEMMA ListedKnown ==
  ASSUME HubTyped, RowsHold, NEW t \in HubTiers, NEW i \in DOMAIN Hub!Listed(t)
  PROVE  KnownAs(Hub!Listed(t)[i], t)
<1> DEFINE e == serving[t]
<1>1. KnownAs(e.target, t)
  BY DEF RowsHold
<1>2. CASE e.mode = "single"
  BY <1>1, <1>2 DEF Hub!Listed
<1>3. CASE e.mode = "chain" /\ e.target \in DOMAIN chains /\ chains[e.target].enabled
  <2>1. Hub!Listed(t) = chains[e.target].members
    BY <1>3 DEF Hub!Listed
  <2>2. chains[e.target].members \in Seq(Models) /\ chains[e.target].tier = t
    BY <1>1, <1>3 DEF HubTyped, ChainRows, KnownAs
  <2>3. chains[e.target].members[i] \in ToSet(chains[e.target].members)
    BY <2>1, <2>2 DEF ToSet
  <2>4. \A m \in ToSet(chains[e.target].members) : KnownAs(m, t)
    BY <1>3, <2>2 DEF RowsHold
  <2> QED
    BY <2>1, <2>3, <2>4
<1>4. CASE e.mode # "single"
           /\ ~(e.mode = "chain" /\ e.target \in DOMAIN chains /\ chains[e.target].enabled)
  <2>1. Hub!Listed(t) = <<>>
    BY <1>4 DEF Hub!Listed
  <2> QED
    BY <2>1
<1> QED
  BY <1>2, <1>3, <1>4

(* What a selection stands for is of its tier.                             *)
LEMMA SelectedAre ==
  ASSUME HubTyped, RowsHold, NEW t \in HubTiers
  PROVE  /\ Hub!Selected(t) \in Seq(RowCopies)
         /\ \A i \in DOMAIN Hub!Selected(t) : Hub!Selected(t)[i].row.tier = t
<1>1. Hub!Listed(t) \in Seq(Targets) /\ Hub!Selected(t) = Hub!Copies(Hub!Listed(t))
  BY ListedAre DEF Hub!Selected
<1>2. Hub!Selected(t) \in Seq(RowCopies)
  BY <1>1, CopiesAre
<1>3. ASSUME NEW i \in DOMAIN Hub!Selected(t)
      PROVE  Hub!Selected(t)[i].row.tier = t
  <2>1. PICK k \in DOMAIN Hub!Listed(t) :
          /\ Hub!Listed(t)[k] \in DOMAIN models
          /\ Hub!Selected(t)[i] = Hub!Copy(Hub!Listed(t)[k])
    BY <1>1, CopiesAre
  <2>2. KnownAs(Hub!Listed(t)[k], t)
    BY ListedKnown
  <2> QED
    BY <2>1, <2>2, CopyIs DEF KnownAs
<1> QED
  BY <1>2, <1>3

(* The client of what was read is part of it.                              *)
LEMMA ClientAre ==
  ASSUME NEW t, NEW read \in Seq(RowCopies), \A i \in DOMAIN read : read[i].row.tier = t
  PROVE  /\ Hub!Client(t, read) \in Seq(RowCopies)
         /\ \A i \in DOMAIN Hub!Client(t, read) : Hub!Client(t, read)[i].row.tier = t
<1>1. CASE t = "embedding" /\ read # <<>>
  <2>1. read[1] \in RowCopies /\ read[1].row.tier = t
    BY <1>1
  <2>2. Hub!Client(t, read) = <<read[1]>>
    BY <1>1 DEF Hub!Client
  <2> QED
    BY <2>1, <2>2
<1>2. CASE ~(t = "embedding" /\ read # <<>>)
  BY <1>2 DEF Hub!Client
<1> QED
  BY <1>1, <1>2

(* So is the client that is built, or it is the one that ran.              *)
LEMMA BuiltAre ==
  ASSUME NEW t, NEW read \in Seq(RowCopies), \A i \in DOMAIN read : read[i].row.tier = t,
         NEW now \in Seq(RowCopies), \A i \in DOMAIN now : now[i].row.tier = t
  PROVE  /\ Hub!Built(t, read, now) \in Seq(RowCopies)
         /\ \A i \in DOMAIN Hub!Built(t, read, now) : Hub!Built(t, read, now)[i].row.tier = t
         /\ Hub!Buildable(t, read) => Hub!Built(t, read, now) = Hub!Client(t, read)
<1>1. Hub!Built(t, read, now) = Hub!Client(t, read) \/ Hub!Built(t, read, now) = now
  BY DEF Hub!Built
<1>2. Hub!Buildable(t, read) => Hub!Built(t, read, now) = Hub!Client(t, read)
  BY DEF Hub!Built, Hub!Buildable
<1> QED
  BY <1>1, <1>2, ClientAre

(* A request that is idle holds nothing.                                   *)
LEMMA HubIdle ==
  /\ Hub!Idle \in HubJobs /\ JobHolds(Hub!Idle) /\ JobReads(Hub!Idle)
  /\ Hub!Idle.pc = "idle" /\ Hub!Idle.target = None /\ Hub!Idle.got = <<>> /\ Hub!Idle.ids = <<>>
  /\ Hub!Idle.clean
<1>1. Hub!Idle \in HubJobs
  BY DEF Hub!Idle, HubJobs, Targets
<1>2. /\ Hub!Idle.pc = "idle" /\ Hub!Idle.target = None /\ Hub!Idle.got = <<>>
      /\ Hub!Idle.ids = <<>> /\ Hub!Idle.clean
  BY DEF Hub!Idle
<1>3. JobHolds(Hub!Idle)
  BY <1>2 DEF JobHolds, JobTyped, JobTiers, JobRefs, JobSizes, JobTests, CheckedBy
<1>4. JobReads(Hub!Idle)
  BY <1>2 DEF JobReads
<1> QED
  BY <1>1, <1>2, <1>3, <1>4

(* What a request holds is not changed by what it does not read.           *)
LEMMA HoldsOn ==
  ASSUME UNCHANGED <<models, chains, raced, overtaken, drifted>>, issued \subseteq issued',
         NEW b \in HubJobs, JobHolds(b)
  PROVE  JobHolds(b)'
<1>1. \A x, t : KnownAs(x, t) => KnownAs(x, t)'
  BY DEF KnownAs
<1>2. JobTyped(b)'
  BY DEF JobHolds, JobTyped
<1>3. JobTiers(b)'
  BY <1>1 DEF JobHolds, JobTiers
<1>4. JobRefs(b)'
  BY DEF JobHolds, JobRefs, CheckedBy, Lives
<1>5. JobSizes(b)'
  BY DEF JobHolds, JobSizes
<1>6. JobTests(b)'
  BY DEF JobHolds, JobTests
<1> QED
  BY <1>2, <1>3, <1>4, <1>5, <1>6 DEF JobHolds

(* Nor is what it has read of a selection.                                 *)
LEMMA ReadsOn ==
  ASSUME UNCHANGED <<models, chains, serving>>
  PROVE  /\ \A t : Hub!Listed(t)' = Hub!Listed(t) /\ Hub!Selected(t)' = Hub!Selected(t)
         /\ \A ids : Hub!Copies(ids)' = Hub!Copies(ids)
         /\ \A b : JobReads(b) => JobReads(b)'
<1>1. \A t : Hub!Listed(t)' = Hub!Listed(t)
  BY DEF Hub!Listed
<1>2. \A ids : Hub!Copies(ids)' = Hub!Copies(ids)
  BY DEF Hub!Copies, Hub!Copy
<1>3. \A t : Hub!Selected(t)' = Hub!Selected(t)
  BY DEF Hub!Selected, Hub!Listed, Hub!Copies, Hub!Copy
<1>4. ASSUME NEW b, JobReads(b) PROVE JobReads(b)'
  BY <1>1, <1>2, <1>3, <1>4 DEF JobReads
<1> QED
  BY <1>1, <1>2, <1>3, <1>4

(* A request that takes a step creates the chain it was creating, or none. *)
LEMMA UnbornKept ==
  ASSUME HubInv, NEW j \in Jobs, NEW b \in HubJobs, hubJobs' = [hubJobs EXCEPT ![j] = b],
         UNCHANGED <<chains, serving>>,
         b.pc = "check" /\ b.mode = "create" =>
           /\ hubJobs[j].pc = "check" /\ hubJobs[j].mode = "create"
           /\ b.target = hubJobs[j].target,
         \/ b.target \in {hubJobs[j].target, None} \cup DOMAIN models \cup DOMAIN chains
         \/ \E t \in HubTiers : b.target = serving[t].target
  PROVE  Unborn'
<1>1. hubJobs \in [Jobs -> HubJobs]
  BY DEF HubInv, HubTyped
<1>2. hubJobs'[j] = b /\ \A k \in Jobs : k # j => hubJobs'[k] = hubJobs[k]
  BY <1>1
<1> SUFFICES ASSUME NEW k \in Jobs, hubJobs'[k].pc = "check", hubJobs'[k].mode = "create"
             PROVE  /\ hubJobs'[k].target \notin DOMAIN chains
                    /\ \A l \in Jobs \ {k} : hubJobs'[l].target # hubJobs'[k].target
                    /\ \A t \in HubTiers : serving[t].target # hubJobs'[k].target
  BY DEF Unborn
<1>3. /\ hubJobs[k].pc = "check" /\ hubJobs[k].mode = "create"
      /\ hubJobs'[k].target = hubJobs[k].target
  BY <1>2
<1>4. /\ hubJobs[k].target \notin DOMAIN chains
      /\ \A l \in Jobs \ {k} : hubJobs[l].target # hubJobs[k].target
      /\ \A t \in HubTiers : serving[t].target # hubJobs[k].target
  BY <1>3 DEF HubInv, Unborn
<1>5. hubJobs[k].target \in Chains
  BY <1>1, <1>3 DEF HubInv, HubJobsHold, JobHolds, JobTyped
<1>6. hubJobs[k].target \notin DOMAIN models \cup {None}
  BY <1>5, HubConstants DEF HubInv, HubTyped
<1>7. ASSUME NEW l \in Jobs \ {k} PROVE hubJobs'[l].target # hubJobs[k].target
  <2>1. CASE l = j
    BY <1>2, <1>4, <1>6, <2>1
  <2>2. CASE l # j
    BY <1>2, <1>4, <2>2
  <2> QED
    BY <2>1, <2>2
<1> QED
  BY <1>3, <1>4, <1>7

(* The clients run on as long as no row and no client changes.             *)
LEMMA RunsOn ==
  ASSUME HubInv, UNCHANGED <<models, chains, serving, running, settled>>
  PROVE  /\ Hub!RunsTheSelection'
         /\ running' \in [HubTiers -> Seq(RowCopies)] /\ settled' \subseteq HubTiers
         /\ \A t \in HubTiers : \A i \in DOMAIN running'[t] : running'[t][i].row.tier = t
<1>1. Hub!RunsTheSelection'
  BY ReadsOn DEF HubInv, Hub!RunsTheSelection, Hub!Client
<1> QED
  BY <1>1 DEF HubInv, HubTyped, RowsHold

(* A step of one request that changes no row keeps the invariant.          *)
LEMMA OnlyKeeps ==
  ASSUME HubInv, NEW j \in Jobs, NEW b \in HubJobs, hubJobs' = [hubJobs EXCEPT ![j] = b],
         UNCHANGED <<models, chains, serving, raced, proof, overtaken, drifted>>,
         issued \subseteq issued', issued' \subseteq Models \cup Chains,
         running' \in [HubTiers -> Seq(RowCopies)], settled' \subseteq HubTiers,
         \A t \in HubTiers : \A i \in DOMAIN running'[t] : running'[t][i].row.tier = t,
         JobHolds(b)', JobReads(b), Unborn', Hub!RunsTheSelection'
  PROVE  HubInv'
<1>1. hubJobs \in [Jobs -> HubJobs]
  BY DEF HubInv, HubTyped
<1>2. HubTyped'
  BY <1>1 DEF HubInv, HubTyped
<1>3. HubJobsHold'
  <2> SUFFICES ASSUME NEW k \in Jobs, NEW a \in HubJobs, hubJobs'[k] = a PROVE JobHolds(a)'
    BY DEF HubJobsHold
  <2>1. CASE k = j
    BY <1>1, <2>1
  <2>2. CASE k # j
    <3>1. JobHolds(a)
      BY <1>1, <2>2 DEF HubInv, HubJobsHold
    <3> QED
      BY <3>1, HoldsOn
  <2> QED
    BY <2>1, <2>2
<1>4. ReadsAreFresh'
  <2> SUFFICES ASSUME NEW k \in Jobs, NEW a \in HubJobs, hubJobs'[k] = a PROVE JobReads(a)'
    BY DEF ReadsAreFresh
  <2>1. JobReads(a)
    BY <1>1 DEF HubInv, ReadsAreFresh
  <2> QED
    BY <2>1, ReadsOn
<1>5. RowsHold'
  <2>1. \A x, t : KnownAs(x, t) => KnownAs(x, t)'
    BY DEF KnownAs
  <2>2. \A x : Lives(x) => Lives(x)'
    BY DEF Lives
  <2> QED
    BY <2>1, <2>2 DEF HubInv, RowsHold
<1>6. SizesAgree' /\ Hub!ReadyModelWasTested'
  BY DEF HubInv, SizesAgree, SameSize, Hub!ReadyModelWasTested
<1> QED
  BY <1>2, <1>3, <1>4, <1>5, <1>6 DEF HubInv

(* Nothing happens.                                                        *)
LEMMA HubRests ==
  ASSUME HubInv, UNCHANGED <<models, chains, serving, running, hubJobs, issued, raced, proof,
                             overtaken, drifted, settled>>
  PROVE  HubInv'
<1>1. HubTyped' /\ Unborn'
  BY DEF HubInv, HubTyped, Unborn
<1>2. HubJobsHold'
  <2> SUFFICES ASSUME NEW k \in Jobs, NEW a \in HubJobs, hubJobs[k] = a PROVE JobHolds(a)'
    BY DEF HubJobsHold
  <2>1. JobHolds(a)
    BY DEF HubInv, HubJobsHold
  <2> QED
    BY <2>1, HoldsOn
<1>3. ReadsAreFresh'
  BY ReadsOn DEF HubInv, ReadsAreFresh
<1>4. RowsHold'
  BY DEF HubInv, RowsHold, KnownAs, Lives
<1>5. SizesAgree' /\ Hub!ReadyModelWasTested'
  BY DEF HubInv, SizesAgree, SameSize, Hub!ReadyModelWasTested
<1>6. Hub!RunsTheSelection'
  BY ReadsOn DEF HubInv, Hub!RunsTheSelection, Hub!Client
<1> QED
  BY <1>1, <1>2, <1>3, <1>4, <1>5, <1>6 DEF HubInv

-----------------------------------------------------------------------------
(* ModelHub: the steps of one request that change no row. *)

(* Where a request stands.                                                 *)
LEMMA HubJobIs ==
  ASSUME HubInv, NEW j \in Jobs
  PROVE  /\ hubJobs[j] \in HubJobs /\ JobHolds(hubJobs[j]) /\ JobReads(hubJobs[j])
         /\ hubJobs[j].target \in issued \cup {None}
<1>1. PICK b \in HubJobs : b = hubJobs[j]
  BY DEF HubInv, HubTyped
<1>2. JobHolds(b) /\ JobReads(b)
  BY <1>1 DEF HubInv, HubJobsHold, ReadsAreFresh
<1> QED
  BY <1>1, <1>2 DEF JobHolds, JobTiers

(* A request that goes on without issuing an id.                           *)
LEMMA Walks ==
  ASSUME HubInv, NEW j \in Jobs, NEW b \in HubJobs, hubJobs' = [hubJobs EXCEPT ![j] = b],
         UNCHANGED <<models, chains, serving, running, issued, raced, proof, overtaken, drifted,
                     settled>>,
         JobHolds(b), JobReads(b),
         b.pc = "check" /\ b.mode = "create" =>
           /\ hubJobs[j].pc = "check" /\ hubJobs[j].mode = "create"
           /\ b.target = hubJobs[j].target,
         \/ b.target \in {hubJobs[j].target, None} \cup DOMAIN models \cup DOMAIN chains
         \/ \E t \in HubTiers : b.target = serving[t].target
  PROVE  HubInv'
<1>1. JobHolds(b)'
  BY HoldsOn
<1>2. Unborn'
  BY UnbornKept
<1>3. issued' \subseteq Models \cup Chains
  BY DEF HubInv, HubTyped
<1> QED
  BY <1>1, <1>2, <1>3, RunsOn, OnlyKeeps

(* A request that ends.                                                    *)
LEMMA QuitsKeeps ==
  ASSUME HubInv, NEW j \in Jobs, Hub!Quits(j)
  PROVE  HubInv'
<1>1. hubJobs' = [hubJobs EXCEPT ![j] = Hub!Idle]
      /\ UNCHANGED <<models, chains, serving, running, issued, raced, proof, overtaken, drifted,
                     settled>>
  BY DEF Hub!Quits, Hub!Only, Hub!Takes, Hub!rows, Hub!history
<1> QED
  BY <1>1, HubIdle, Walks

(* A test begins.                                                          *)
LEMMA TestKeeps ==
  ASSUME HubInv, NEW j \in Jobs, NEW ids \in Seq(Models), Hub!Test(j, ids)
  PROVE  HubInv'
<1> DEFINE b == [Hub!Idle EXCEPT !.pc = "test", !.ids = ids]
<1>1. hubJobs' = [hubJobs EXCEPT ![j] = b]
      /\ UNCHANGED <<models, chains, serving, running, issued, raced, proof, overtaken, drifted,
                     settled>>
  BY DEF Hub!Test, Hub!Begins, Hub!rows, Hub!history
<1>2. b \in HubJobs /\ b.pc = "test" /\ b.target = None
  BY HubIdle DEF HubJobs
<1> HIDE DEF b
<1>3. JobHolds(b)
  BY <1>2 DEF JobHolds, JobTyped, JobTiers, JobRefs, JobSizes, JobTests, CheckedBy
<1>4. JobReads(b)
  BY <1>2 DEF JobReads
<1> QED
  BY <1>1, <1>2, <1>3, <1>4, Walks

(* A test of a model or of a chain begins.                                 *)
LEMMA TestsKeep ==
  ASSUME HubInv, NEW j \in Jobs, Hub!TestModel(j) \/ Hub!TestChain(j)
  PROVE  HubInv'
<1>1. CASE Hub!TestModel(j)
  <2>1. PICK m \in DOMAIN models : Hub!Test(j, <<m>>)
    BY <1>1 DEF Hub!TestModel
  <2>2. <<m>> \in Seq(Models)
    BY DEF HubInv, HubTyped
  <2> QED
    BY <2>1, <2>2, TestKeeps
<1>2. CASE Hub!TestChain(j)
  <2>1. PICK c \in DOMAIN chains : Hub!Test(j, chains[c].members)
    BY <1>2 DEF Hub!TestChain
  <2>2. chains[c].members \in Seq(Models)
    BY DEF HubInv, HubTyped, ChainRows
  <2> QED
    BY <2>1, <2>2, TestKeeps
<1> QED
  BY <1>1, <1>2

(* A test reads the row it is about.                                       *)
LEMMA TestReadsKeeps ==
  ASSUME HubInv, NEW j \in Jobs, Hub!TestReads(j)
  PROVE  HubInv'
<1> DEFINE job == hubJobs[j]
<1>1. job \in HubJobs /\ job.pc = "test" /\ JobHolds(job)
  BY HubJobIs DEF Hub!TestReads
<1>2. CASE job.ids = <<>> \/ Head(job.ids) \notin DOMAIN models
  BY <1>2, QuitsKeeps DEF Hub!TestReads
<1>3. CASE job.ids # <<>> /\ Head(job.ids) \in DOMAIN models
  <2> DEFINE m == Head(job.ids)
             b == [job EXCEPT !.pc = "call", !.target = m, !.got = <<Hub!Copy(m)>>, !.ids = Tail(@)]
  <2>1. hubJobs' = [hubJobs EXCEPT ![j] = b]
        /\ UNCHANGED <<models, chains, serving, running, issued, raced, proof, overtaken, drifted,
                       settled>>
    BY <1>3 DEF Hub!TestReads, Hub!Only, Hub!Takes, Hub!rows, Hub!history
  <2>2. PICK copy \in RowCopies : copy = Hub!Copy(m) /\ copy.row = models[m]
    BY <1>3, CopyIs DEF HubInv
  <2>3. m \in DOMAIN models /\ m \in Models /\ m \in issued
    BY <1>3 DEF HubInv, HubTyped
  <2>4. Tail(job.ids) \in Seq(Models) /\ <<copy>> \in Seq(RowCopies) /\ m \in Targets
    BY <1>1, <1>3, <2>3 DEF HubJobs, Targets
  <2> HIDE DEF job, m
  <2>5. /\ b \in HubJobs /\ b.pc = "call" /\ b.target = m /\ b.got = <<copy>>
    BY <1>1, <2>2, <2>4 DEF HubJobs
  <2> HIDE DEF b
  <2>6. JobHolds(b)
    BY <2>2, <2>3, <2>5 DEF JobHolds, JobTyped, JobTiers, JobRefs, JobSizes, JobTests, CheckedBy
  <2>7. JobReads(b)
    BY <2>5 DEF JobReads
  <2> QED
    BY <2>1, <2>3, <2>5, <2>6, <2>7, Walks
<1> QED
  BY <1>2, <1>3

(* A member of a chain is checked, and kept with what was read of it.      *)
LEMMA CheckMemberKeeps ==
  ASSUME HubInv, NEW j \in Jobs, Hub!CheckMember(j)
  PROVE  HubInv'
<1> DEFINE job == hubJobs[j]
           m == Head(job.ids)
<1>1. job \in HubJobs /\ job.pc = "check" /\ JobHolds(job) /\ job.ids # <<>>
  BY HubJobIs DEF Hub!CheckMember
<1>2. CASE ~Hub!Fits(m, job.tier)
  BY <1>2, QuitsKeeps DEF Hub!CheckMember
<1>3. CASE Hub!Fits(m, job.tier)
  <2> DEFINE b == [job EXCEPT !.ids = Tail(@), !.got = Append(@, Hub!Copy(m))]
  <2>1. hubJobs' = [hubJobs EXCEPT ![j] = b]
        /\ UNCHANGED <<models, chains, serving, running, issued, raced, proof, overtaken, drifted,
                       settled>>
    BY <1>3 DEF Hub!CheckMember, Hub!Only, Hub!Takes, Hub!rows, Hub!history
  <2>2. m \in DOMAIN models /\ models[m].tier = job.tier
    BY <1>3 DEF Hub!Fits
  <2>3. PICK copy \in RowCopies : copy = Hub!Copy(m) /\ copy.id = m /\ copy.row = models[m]
    BY <2>2, CopyIs DEF HubInv
  <2>4. KnownAs(m, job.tier) /\ Lives(m)
    BY <2>2, HubConstants DEF KnownAs, Lives, HubInv, HubTyped
  <2>5. Tail(job.ids) \in Seq(Models) /\ job.got \in Seq(RowCopies)
    BY <1>1 DEF HubJobs
  <2>a. Append(job.got, copy) \in Seq(RowCopies)
    BY <2>5
  <2>6. PICK got \in Seq(RowCopies) : got = Append(job.got, copy)
    BY <2>a, Zenon
  <2> HIDE DEF job, m
  <2>7. /\ b \in HubJobs /\ b.pc = "check" /\ b.target = job.target /\ b.got = got
        /\ b.mode = job.mode /\ b.tier = job.tier
    BY <1>1, <2>3, <2>5, <2>6 DEF HubJobs
  <2> HIDE DEF b
  <2>8. \A i \in DOMAIN got : (i \in DOMAIN job.got /\ got[i] = job.got[i]) \/ got[i] = copy
    BY <2>5, <2>6
  <2>9. JobTyped(b)
    BY <1>1, <2>7 DEF JobHolds, JobTyped
  <2>10. JobTiers(b)
    BY <1>1, <2>2, <2>3, <2>4, <2>7, <2>8 DEF JobHolds, JobTiers
  <2>11. JobRefs(b)
    BY <1>1, <2>3, <2>4, <2>7, <2>8 DEF JobHolds, JobRefs, CheckedBy, Hub!IdsOf
  <2>12. JobSizes(b)
    BY <1>1, <2>3, <2>7, <2>8 DEF JobHolds, JobSizes
  <2>13. JobTests(b) /\ JobReads(b)
    BY <2>7 DEF JobTests, JobReads
  <2> QED
    BY <1>1, <2>1, <2>7, <2>9, <2>10, <2>11, <2>12, <2>13, Walks DEF JobHolds, job
<1> QED
  BY <1>2, <1>3

(* A selection is offered.                                                 *)
LEMMA PutServingKeeps ==
  ASSUME HubInv, NEW j \in Jobs, NEW t \in HubTiers, NEW mode \in {"disabled", "single", "chain"},
         NEW x \in Targets, Hub!PutServing(j, t, mode, x)
  PROVE  HubInv'
<1> DEFINE b == [Hub!Idle EXCEPT !.pc = "store", !.tier = t, !.mode = mode, !.target = x]
<1>1. hubJobs' = [hubJobs EXCEPT ![j] = b]
      /\ UNCHANGED <<models, chains, serving, running, issued, raced, proof, overtaken, drifted,
                     settled>>
  BY DEF Hub!PutServing, Hub!Begins, Hub!rows, Hub!history
<1>2. b \in HubJobs /\ b.pc = "store" /\ b.target = x /\ b.tier = t /\ b.mode = mode
  BY HubIdle DEF HubJobs
<1> HIDE DEF b
<1>3. \/ mode = "disabled" /\ x = None
      \/ mode = "single" /\ x \in DOMAIN models /\ models[x].tier = t
      \/ mode = "chain" /\ x \in DOMAIN chains /\ chains[x].tier = t
  BY DEF Hub!PutServing, Hub!Offered, Hub!Fits
<1>4. DOMAIN models \subseteq Models /\ DOMAIN chains \subseteq Chains
      /\ DOMAIN models \cup DOMAIN chains \subseteq issued
  BY DEF HubInv, HubTyped
<1>5. KnownAs(x, t) /\ Lives(x) /\ [mode |-> mode, target |-> x] \in Selections
      /\ x \in {None} \cup DOMAIN models \cup DOMAIN chains
  BY <1>3, <1>4, HubConstants DEF KnownAs, Lives, Selections
<1>6. JobHolds(b)
  <2>1. JobTyped(b) /\ JobTiers(b)
    BY <1>2, <1>5 DEF JobTyped, JobTiers, KnownAs
  <2>2. JobRefs(b) /\ JobSizes(b) /\ JobTests(b)
    BY <1>2, <1>5 DEF JobRefs, JobSizes, JobTests, CheckedBy
  <2> QED
    BY <2>1, <2>2 DEF JobHolds
<1>7. JobReads(b)
  BY <1>2 DEF JobReads
<1> QED
  BY <1>1, <1>2, <1>5, <1>6, <1>7, Walks

(* A chain is asked for: it is new, or it has the tier it is asked in.     *)
LEMMA AskChainKeeps ==
  ASSUME HubInv, NEW j \in Jobs, NEW c \in Chains, NEW t \in HubTiers, NEW list \in Lists,
         Hub!AskChain(j, c, t, list)
  PROVE  HubInv'
<1>h. PICK how \in {"create", "update"} : how = IF c \in issued THEN "update" ELSE "create"
  OBVIOUS
<1> DEFINE b == [Hub!Idle EXCEPT !.pc = "check", !.target = c, !.tier = t, !.ids = list,
                                 !.mode = how]
<1>1. hubJobs' = [hubJobs EXCEPT ![j] = b]
      /\ UNCHANGED <<models, chains, serving, running, raced, proof, overtaken, drifted, settled>>
  BY <1>h DEF Hub!AskChain, Hub!Begins, Hub!rows, Hub!history
<1>2. /\ b \in HubJobs /\ b.pc = "check" /\ b.target = c /\ b.tier = t /\ b.mode = how
      /\ b.got = <<>>
  BY HubIdle, HubConstants DEF HubJobs, Targets
<1>b. PICK a \in HubJobs : a = b
  BY <1>2
<1> HIDE DEF b
<1>c. /\ a.pc = "check" /\ a.target = c /\ a.tier = t /\ a.mode = how /\ a.got = <<>>
      /\ hubJobs' = [hubJobs EXCEPT ![j] = a]
  BY <1>1, <1>2, <1>b
<1>3. \/ c \notin issued /\ issued' = issued \cup {c}
      \/ c \in DOMAIN chains /\ t = chains[c].tier /\ issued' = issued
  BY DEF Hub!AskChain
<1>4. /\ DOMAIN models \subseteq Models /\ DOMAIN chains \subseteq Chains
      /\ DOMAIN models \cup DOMAIN chains \subseteq issued /\ issued \subseteq Models \cup Chains
      /\ hubJobs \in [Jobs -> HubJobs]
  BY DEF HubInv, HubTyped
<1>5. issued \subseteq issued' /\ issued' \subseteq Models \cup Chains
  BY <1>3, <1>4
<1>6. JobHolds(a)'
  <2>1. JobTyped(a)'
    BY <1>c DEF JobTyped
  <2>2. JobTiers(a)'
    <3>1. c \in issued'
      BY <1>3, <1>4
    <3>2. how = "update" => KnownAs(c, t)'
      BY <1>h, <1>1, <1>3, <1>4, HubConstants DEF KnownAs
    <3> QED
      BY <1>c, <3>1, <3>2 DEF JobTiers
  <2>3. JobRefs(a)' /\ JobSizes(a)' /\ JobTests(a)'
    BY <1>c DEF JobRefs, JobSizes, JobTests, CheckedBy, Hub!IdsOf
  <2> QED
    BY <2>1, <2>2, <2>3 DEF JobHolds
<1>7. JobReads(a)
  BY <1>c DEF JobReads
<1>8. Unborn'
  <2>1. CASE c \in DOMAIN chains
    <3>1. a.mode = "update"
      BY <1>h, <1>c, <1>4, <2>1
    <3> QED
      BY <1>1, <1>c, <2>1, <3>1, UnbornKept
  <2>2. CASE c \notin issued
    <3> SUFFICES ASSUME NEW k \in Jobs, hubJobs'[k].pc = "check", hubJobs'[k].mode = "create"
                 PROVE  /\ hubJobs'[k].target \notin DOMAIN chains
                        /\ \A l \in Jobs \ {k} : hubJobs'[l].target # hubJobs'[k].target
                        /\ \A s \in HubTiers : serving[s].target # hubJobs'[k].target
      BY <1>1 DEF Unborn
    <3>1. c # None
      BY HubConstants
    <3>2. \A l \in Jobs : hubJobs[l].target # c
      BY <2>2, <3>1, HubJobIs
    <3>3. \A s \in HubTiers : serving[s].target # c
      BY <2>2, <3>1 DEF HubInv, RowsHold, KnownAs
    <3>4. hubJobs'[j] = a /\ \A l \in Jobs : l # j => hubJobs'[l] = hubJobs[l]
      BY <1>c, <1>4
    <3>5. CASE k = j
      BY <1>c, <1>4, <2>2, <3>2, <3>3, <3>4, <3>5
    <3>6. CASE k # j
      <4>1. /\ hubJobs[k].target \notin DOMAIN chains
            /\ \A l \in Jobs \ {k} : hubJobs[l].target # hubJobs[k].target
            /\ \A s \in HubTiers : serving[s].target # hubJobs[k].target
        BY <3>4, <3>6 DEF HubInv, Unborn
      <4> QED
        BY <1>c, <3>2, <3>4, <3>6, <4>1
    <3> QED
      BY <3>5, <3>6
  <2> QED
    BY <1>3, <2>1, <2>2
<1> QED
  BY <1>1, <1>c, <1>5, <1>6, <1>7, <1>8, RunsOn, OnlyKeeps

(* The selection of the next tier is read.                                 *)
LEMMA SelectKeeps ==
  ASSUME HubInv, NEW j \in Jobs, Hub!Select(j)
  PROVE  HubInv'
<1> DEFINE job == hubJobs[j]
           t == Head(job.tiers)
<1>1. job \in HubJobs /\ job.pc = "select"
  BY HubJobIs DEF Hub!Select
<1>2. CASE job.tiers = <<>>
  BY <1>2, QuitsKeeps DEF Hub!Select
<1>3. CASE job.tiers # <<>>
  <2> DEFINE e == serving[t]
             at == IF e.mode = "disabled" THEN "swap" ELSE "resolve"
             b == [Hub!Idle EXCEPT !.tier = t, !.tiers = Tail(job.tiers), !.mode = e.mode,
                                   !.target = e.target, !.pc = at]
  <2>1. hubJobs' = [hubJobs EXCEPT ![j] = b]
        /\ UNCHANGED <<models, chains, serving, running, issued, raced, proof, overtaken, drifted,
                       settled>>
    BY <1>3 DEF Hub!Select, Hub!Only, Hub!Takes, Hub!rows, Hub!history
  <2>2. t \in HubTiers /\ Tail(job.tiers) \in Seq(HubTiers)
    BY <1>1, <1>3 DEF HubJobs
  <2> HIDE DEF job, t
  <2>3. e \in Selections /\ e.mode \in {"disabled", "single", "chain"} /\ e.target \in Targets
        /\ e = [mode |-> e.mode, target |-> e.target]
    BY <2>2 DEF HubInv, HubTyped, Selections
  <2>4. /\ b \in HubJobs /\ b.pc = at /\ b.tier = t /\ b.mode = e.mode /\ b.target = e.target
        /\ b.got = <<>>
    BY <2>2, <2>3, HubIdle DEF HubJobs
  <2> HIDE DEF b
  <2>5. KnownAs(e.target, t)
    BY <2>2 DEF HubInv, RowsHold
  <2>6. JobHolds(b)
    <3>1. JobTyped(b)
      BY <2>2, <2>3, <2>4 DEF JobTyped
    <3>2. JobTiers(b)
      BY <2>4, <2>5 DEF JobTiers, KnownAs
    <3>3. JobRefs(b) /\ JobSizes(b) /\ JobTests(b)
      BY <2>4 DEF JobRefs, JobSizes, JobTests, CheckedBy
    <3> QED
      BY <3>1, <3>2, <3>3 DEF JobHolds
  <2>7. JobReads(b)
    <3>1. CASE e.mode = "disabled"
      <4>1. Hub!Listed(t) = <<>>
        BY <3>1 DEF Hub!Listed
      <4>2. Hub!Selected(t) = <<>>
        BY <4>1, CopiesOfNone DEF Hub!Selected
      <4> QED
        BY <2>4, <3>1, <4>2 DEF JobReads
    <3>2. CASE e.mode # "disabled"
      BY <2>3, <2>4, <3>2 DEF JobReads
    <3> QED
      BY <3>1, <3>2
  <2>8. b.pc # "check"
    BY <2>4
  <2> QED
    BY <2>1, <2>2, <2>4, <2>6, <2>7, <2>8, Walks
<1> QED
  BY <1>2, <1>3

(* The model or the chain of a selection is read.                          *)
LEMMA ResolveKeeps ==
  ASSUME HubInv, NEW j \in Jobs, Hub!Resolve(j)
  PROVE  HubInv'
<1> DEFINE job == hubJobs[j]
           x == job.target
<1>1. job \in HubJobs /\ job.pc = "resolve" /\ JobHolds(job) /\ JobReads(job)
  BY HubJobIs DEF Hub!Resolve
<1>2. /\ job.tier \in HubTiers /\ job.got = <<>> /\ KnownAs(x, job.tier)
      /\ job.mode \in {"single", "chain"} /\ x \in issued \cup {None}
  BY <1>1 DEF JobHolds, JobTyped, JobTiers
<1>3. job.clean => serving[job.tier] = [mode |-> job.mode, target |-> x]
  BY <1>1 DEF JobReads
<1>4. CASE job.mode = "single"
  <2> DEFINE got == IF x \in DOMAIN models THEN <<Hub!Copy(x)>> ELSE <<>>
             b == [job EXCEPT !.pc = "swap", !.got = got]
  <2>1. hubJobs' = [hubJobs EXCEPT ![j] = b]
        /\ UNCHANGED <<models, chains, serving, running, issued, raced, proof, overtaken, drifted,
                       settled>>
    BY <1>4 DEF Hub!Resolve, Hub!Only, Hub!Takes, Hub!rows, Hub!history
  <2>2. got \in Seq(RowCopies) /\ \A i \in DOMAIN got : got[i].row.tier = job.tier
    <3>1. CASE x \in DOMAIN models
      <4>1. PICK copy \in RowCopies : copy = Hub!Copy(x) /\ copy.row = models[x]
        BY <3>1, CopyIs DEF HubInv
      <4>2. models[x].tier = job.tier
        BY <1>2, <3>1 DEF KnownAs
      <4> QED
        BY <3>1, <4>1, <4>2
    <3>2. CASE x \notin DOMAIN models
      BY <3>2
    <3> QED
      BY <3>1, <3>2
  <2>3. job.clean => got = Hub!Selected(job.tier)
    <3> SUFFICES ASSUME job.clean PROVE got = Hub!Selected(job.tier)
      OBVIOUS
    <3>1. serving[job.tier].mode = "single" /\ serving[job.tier].target = x
      BY <1>3, <1>4
    <3>2. Hub!Listed(job.tier) = <<x>>
      BY <3>1 DEF Hub!Listed
    <3> QED
      BY <3>2, CopiesOfOne DEF Hub!Selected
  <2> HIDE DEF job, got
  <2>4. /\ b \in HubJobs /\ b.pc = "swap" /\ b.target = x /\ b.got = got /\ b.tier = job.tier
        /\ b.clean = job.clean
    BY <1>1, <2>2 DEF HubJobs
  <2> HIDE DEF b
  <2>5. JobHolds(b)
    BY <1>2, <2>2, <2>4 DEF JobHolds, JobTyped, JobTiers, JobRefs, JobSizes, JobTests, CheckedBy
  <2>6. JobReads(b)
    BY <2>3, <2>4 DEF JobReads
  <2> QED
    BY <2>1, <2>4, <2>5, <2>6, Walks DEF job
<1>5. CASE job.mode = "chain"
  <2> DEFINE served == x \in DOMAIN chains /\ chains[x].enabled
             ids == IF served THEN chains[x].members ELSE <<>>
             b == [job EXCEPT !.pc = "members", !.ids = ids]
  <2>1. hubJobs' = [hubJobs EXCEPT ![j] = b]
        /\ UNCHANGED <<models, chains, serving, running, issued, raced, proof, overtaken, drifted,
                       settled>>
    BY <1>5 DEF Hub!Resolve, Hub!Only, Hub!Takes, Hub!rows, Hub!history
  <2>2. ids \in Seq(Models) /\ \A i \in DOMAIN ids : KnownAs(ids[i], job.tier)
    <3>1. CASE served
      <4>1. chains[x].members \in Seq(Models) /\ chains[x].tier = job.tier
        BY <1>2, <3>1 DEF HubInv, HubTyped, ChainRows, KnownAs
      <4>2. \A i \in DOMAIN chains[x].members : chains[x].members[i] \in ToSet(chains[x].members)
        BY <4>1 DEF ToSet
      <4> QED
        BY <3>1, <4>1, <4>2 DEF HubInv, RowsHold
    <3>2. CASE ~served
      BY <3>2
    <3> QED
      BY <3>1, <3>2
  <2>3. job.clean => Hub!Listed(job.tier) = ids
    <3> SUFFICES ASSUME job.clean PROVE Hub!Listed(job.tier) = ids
      OBVIOUS
    <3>1. serving[job.tier].mode = "chain" /\ serving[job.tier].target = x
      BY <1>3, <1>5
    <3> QED
      BY <3>1 DEF Hub!Listed
  <2> HIDE DEF job, ids
  <2>4. /\ b \in HubJobs /\ b.pc = "members" /\ b.target = x /\ b.got = <<>> /\ b.tier = job.tier
        /\ b.clean = job.clean /\ b.ids = ids
    BY <1>1, <1>2, <2>2 DEF HubJobs
  <2> HIDE DEF b
  <2>5. JobHolds(b)
    BY <1>2, <2>2, <2>4 DEF JobHolds, JobTyped, JobTiers, JobRefs, JobSizes, JobTests, CheckedBy
  <2>6. JobReads(b)
    <3> SUFFICES ASSUME job.clean
                 PROVE  \E done \in Seq(Models) :
                          Hub!Listed(job.tier) = done \o ids /\ <<>> = Hub!Copies(done)
      BY <2>4 DEF JobReads
    <3>1. <<>> \in Seq(Models) /\ <<>> \o ids = ids
      BY <2>2
    <3> QED
      BY <2>3, <3>1, CopiesOfNone
  <2> QED
    BY <2>1, <2>4, <2>5, <2>6, Walks DEF job
<1> QED
  BY <1>2, <1>4, <1>5

(* An element moves from the head of one sequence to the end of another.   *)
LEMMA Shifted ==
  ASSUME NEW T, NEW s \in Seq(T), NEW t \in Seq(T), t # <<>>
  PROVE  s \o t = Append(s, Head(t)) \o Tail(t)
<1>0. s \o t \in Seq(T)
  OBVIOUS
<1>1. PICK left \in Seq(T) : left = s \o t
  BY <1>0, Zenon
<1>2. Append(s, Head(t)) \in Seq(T) /\ Tail(t) \in Seq(T)
  OBVIOUS
<1>a. Append(s, Head(t)) \o Tail(t) \in Seq(T)
  BY <1>2
<1>3. PICK right \in Seq(T) : right = Append(s, Head(t)) \o Tail(t)
  BY <1>a, Zenon
<1>4. Len(left) = Len(right)
  BY <1>1, <1>2, <1>3
<1>5. \A i \in 1..Len(left) : left[i] = right[i]
  BY <1>1, <1>2, <1>3
<1> QED
  BY <1>1, <1>3, <1>4, <1>5

(* The next member of the chain is read, or skipped.                       *)
LEMMA ReadMemberKeeps ==
  ASSUME HubInv, NEW j \in Jobs, Hub!ReadMember(j)
  PROVE  HubInv'
<1> DEFINE job == hubJobs[j]
           m == Head(job.ids)
           got == IF m \in DOMAIN models THEN Append(job.got, Hub!Copy(m)) ELSE job.got
           b == IF job.ids = <<>> THEN [job EXCEPT !.pc = "swap"]
                ELSE [job EXCEPT !.ids = Tail(@), !.got = got]
<1>1. job \in HubJobs /\ job.pc = "members" /\ JobHolds(job) /\ JobReads(job)
  BY HubJobIs DEF Hub!ReadMember
<1>2. /\ job.tier \in HubTiers /\ \A i \in DOMAIN job.ids : KnownAs(job.ids[i], job.tier)
      /\ \A i \in DOMAIN job.got : job.got[i].row.tier = job.tier
      /\ job.got \in Seq(RowCopies) /\ job.ids \in Seq(Models)
      /\ job.target \in issued \cup {None}
  BY <1>1 DEF JobHolds, JobTyped, JobTiers, HubJobs
<1>3. hubJobs' = [hubJobs EXCEPT ![j] = b]
      /\ UNCHANGED <<models, chains, serving, running, issued, raced, proof, overtaken, drifted,
                     settled>>
  <2>1. CASE job.ids = <<>>
    BY <2>1 DEF Hub!ReadMember, Hub!Only, Hub!Takes, Hub!rows, Hub!history
  <2>2. CASE job.ids # <<>>
    <3>1. [job EXCEPT !.ids = Tail(@),
                      !.got = IF Head(job.ids) \in DOMAIN models THEN Append(@, Hub!Copy(Head(job.ids))) ELSE @]
          = [job EXCEPT !.ids = Tail(@), !.got = got]
      OBVIOUS
    <3> QED
      BY <2>2, <3>1 DEF Hub!ReadMember, Hub!Only, Hub!Takes, Hub!rows, Hub!history
  <2> QED
    BY <2>1, <2>2
<1>4. job.clean => \E done \in Seq(Models) :
        Hub!Listed(job.tier) = done \o job.ids /\ job.got = Hub!Copies(done)
  BY <1>1 DEF JobReads
<1> HIDE DEF job
<1>5. CASE job.ids = <<>>
  <2>1. /\ b \in HubJobs /\ b.pc = "swap" /\ b.target = job.target /\ b.got = job.got
        /\ b.tier = job.tier /\ b.clean = job.clean
    BY <1>1, <1>5 DEF HubJobs
  <2> HIDE DEF b
  <2>2. JobHolds(b)
    BY <1>2, <2>1 DEF JobHolds, JobTyped, JobTiers, JobRefs, JobSizes, JobTests, CheckedBy
  <2>3. JobReads(b)
    <3> SUFFICES ASSUME job.clean PROVE job.got = Hub!Selected(job.tier)
      BY <2>1 DEF JobReads
    <3>1. PICK done \in Seq(Models) :
            Hub!Listed(job.tier) = done \o job.ids /\ job.got = Hub!Copies(done)
      BY <1>4
    <3>2. Hub!Listed(job.tier) = done
      BY <1>5, <3>1
    <3> QED
      BY <3>1, <3>2 DEF Hub!Selected
  <2> QED
    BY <1>3, <2>1, <2>2, <2>3, Walks DEF job
<1>6. CASE job.ids # <<>>
  <2>1. m \in Models /\ KnownAs(m, job.tier) /\ Tail(job.ids) \in Seq(Models)
        /\ \A i \in DOMAIN Tail(job.ids) : KnownAs(Tail(job.ids)[i], job.tier)
    <3>1. m = job.ids[1] /\ 1 \in DOMAIN job.ids /\ Tail(job.ids) \in Seq(Models)
      BY <1>2, <1>6
    <3>2. \A i \in DOMAIN Tail(job.ids) : i + 1 \in DOMAIN job.ids /\ Tail(job.ids)[i] = job.ids[i + 1]
      BY <1>2, <1>6
    <3> QED
      BY <1>2, <3>1, <3>2
  <2> HIDE DEF m
  <2>2. got \in Seq(RowCopies) /\ \A i \in DOMAIN got : got[i].row.tier = job.tier
    <3>1. CASE m \in DOMAIN models
      <4>1. PICK copy \in RowCopies : copy = Hub!Copy(m) /\ copy.row = models[m]
        BY <3>1, CopyIs DEF HubInv
      <4>2. models[m].tier = job.tier
        BY <2>1, <3>1 DEF KnownAs
      <4>3. got = Append(job.got, copy)
        BY <3>1, <4>1
      <4> QED
        BY <1>2, <4>1, <4>2, <4>3
    <3>2. CASE m \notin DOMAIN models
      BY <1>2, <3>2
    <3> QED
      BY <3>1, <3>2
  <2>3. ASSUME job.clean
        PROVE  \E done \in Seq(Models) :
                 Hub!Listed(job.tier) = done \o Tail(job.ids) /\ got = Hub!Copies(done)
    <3>1. PICK done \in Seq(Models) :
            Hub!Listed(job.tier) = done \o job.ids /\ job.got = Hub!Copies(done)
      BY <1>4, <2>3
    <3>2. Append(done, m) \in Seq(Models)
      BY <2>1
    <3>3. Hub!Listed(job.tier) = Append(done, m) \o Tail(job.ids)
      BY <1>2, <1>6, <3>1, Shifted DEF m
    <3>4. got = Hub!Copies(Append(done, m))
      BY <2>1, <3>1, CopiesOfMore
    <3> QED
      BY <3>2, <3>3, <3>4
  <2> HIDE DEF got
  <2>4. /\ b \in HubJobs /\ b.pc = "members" /\ b.target = job.target /\ b.got = got
        /\ b.tier = job.tier /\ b.clean = job.clean /\ b.ids = Tail(job.ids)
    BY <1>1, <1>6, <2>1, <2>2 DEF HubJobs
  <2> HIDE DEF b
  <2>5. JobHolds(b)
    BY <1>2, <2>1, <2>2, <2>4 DEF JobHolds, JobTyped, JobTiers, JobRefs, JobSizes, JobTests, CheckedBy
  <2>6. JobReads(b)
    BY <2>3, <2>4 DEF JobReads
  <2> QED
    BY <1>3, <2>4, <2>5, <2>6, Walks DEF job
<1> QED
  BY <1>5, <1>6

(* The client is swapped for the one of what was read.                     *)
LEMMA SwapKeeps ==
  ASSUME HubInv, NEW j \in Jobs, Hub!Swap(j)
  PROVE  HubInv'
<1> DEFINE job == hubJobs[j]
           t == job.tier
           b == [Hub!Idle EXCEPT !.pc = "select", !.tiers = job.tiers]
<1>1. job \in HubJobs /\ job.pc = "swap" /\ JobHolds(job) /\ JobReads(job)
  BY HubJobIs DEF Hub!Swap
<1>2. /\ t \in HubTiers /\ job.got \in Seq(RowCopies) /\ job.tiers \in Seq(HubTiers)
      /\ \A i \in DOMAIN job.got : job.got[i].row.tier = t
      /\ job.clean => job.got = Hub!Selected(t)
  BY <1>1 DEF JobHolds, JobTyped, JobTiers, JobReads, HubJobs
<1>3. /\ hubJobs' = [hubJobs EXCEPT ![j] = b]
      /\ running' = [running EXCEPT ![t] = Hub!Built(t, job.got, @)]
      /\ settled' = IF job.clean /\ Hub!Buildable(t, job.got) THEN settled \cup {t} ELSE settled \ {t}
      /\ UNCHANGED <<models, chains, serving, issued, raced, proof, overtaken, drifted>>
  BY DEF Hub!Swap, Hub!Takes, Hub!rows, Hub!history
<1> HIDE DEF job
<1>4. /\ b \in HubJobs /\ b.pc = "select" /\ b.target = None
  BY <1>2, HubIdle DEF HubJobs
<1>a. PICK a \in HubJobs : a = b /\ a.pc = "select" /\ a.target = None
  BY <1>4
<1> HIDE DEF b
<1>5. JobHolds(a) /\ JobReads(a)
  BY <1>a DEF JobHolds, JobTyped, JobTiers, JobRefs, JobSizes, JobTests, CheckedBy, JobReads
<1>6. /\ running \in [HubTiers -> Seq(RowCopies)] /\ settled \subseteq HubTiers
      /\ \A s \in HubTiers : \A i \in DOMAIN running[s] : running[s][i].row.tier = s
  BY DEF HubInv, HubTyped, RowsHold
<1>n. running[t] \in Seq(RowCopies) /\ \A i \in DOMAIN running[t] : running[t][i].row.tier = t
  BY <1>2, <1>6
<1> DEFINE client == Hub!Built(t, job.got, running[t])
<1>7. /\ client \in Seq(RowCopies) /\ \A i \in DOMAIN client : client[i].row.tier = t
      /\ Hub!Buildable(t, job.got) => client = Hub!Client(t, job.got)
  BY <1>2, <1>n, BuiltAre
<1>8. running'[t] = client /\ \A s \in HubTiers : s # t => running'[s] = running[s]
  BY <1>2, <1>3, <1>6
<1>9. running' \in [HubTiers -> Seq(RowCopies)] /\ settled' \subseteq HubTiers
  BY <1>2, <1>3, <1>6, <1>7
<1>10. \A s \in HubTiers : \A i \in DOMAIN running'[s] : running'[s][i].row.tier = s
  BY <1>6, <1>7, <1>8
<1>11. Hub!RunsTheSelection'
  <2> SUFFICES ASSUME NEW s \in settled' PROVE running'[s] = Hub!Client(s, Hub!Selected(s))'
    BY DEF Hub!RunsTheSelection
  <2>0. Hub!Client(s, Hub!Selected(s))' = Hub!Client(s, Hub!Selected(s))
    BY <1>3, ReadsOn DEF Hub!Client
  <2>1. CASE s = t
    <3>1. job.clean /\ Hub!Buildable(t, job.got)
      BY <1>3, <2>1
    <3> QED
      BY <1>2, <1>7, <1>8, <2>0, <2>1, <3>1
  <2>2. CASE s # t
    <3>1. s \in settled /\ s \in HubTiers
      BY <1>3, <1>9, <2>2
    <3> QED
      BY <1>8, <2>0, <2>2, <3>1 DEF HubInv, Hub!RunsTheSelection
  <2> QED
    BY <2>1, <2>2
<1>12. JobHolds(a)'
  BY <1>3, <1>a, <1>5, HoldsOn
<1>e. hubJobs' = [hubJobs EXCEPT ![j] = a]
  BY <1>3, <1>a
<1>13. Unborn'
  <2>1. a.pc # "check"
    BY <1>a
  <2> QED
    BY <1>3, <1>e, <1>a, <2>1, UnbornKept
<1>14. issued' \subseteq Models \cup Chains
  BY <1>3 DEF HubInv, HubTyped
<1> QED
  BY <1>3, <1>a, <1>e, <1>5, <1>9, <1>10, <1>11, <1>12, <1>13, <1>14, OnlyKeeps

-----------------------------------------------------------------------------
(* ModelHub: the steps that change rows. *)

\* Ids that have a row keep their tier, and their size and their name unless they
\* are marked.
TiersFollow == issued \subseteq issued' /\ \A x, t : KnownAs(x, t) => KnownAs(x, t)'
SizeFollows(x) ==
  x \in issued /\ x \in DOMAIN models' \ drifted' =>
    x \in DOMAIN models \ drifted /\ models'[x].dim = models[x].dim
NameFollows(x) ==
  x \in issued /\ x \in DOMAIN models' \ overtaken' =>
    x \in DOMAIN models \ overtaken /\ models'[x].name = models[x].name
LivesOn(x) == Lives(x) => x \in DOMAIN models' \cup DOMAIN chains' \cup raced' \cup {None}
\* Chains lose members and selections lose their target, at most.
ChainsFollow ==
  \A c \in DOMAIN chains' : /\ c \in DOMAIN chains /\ chains'[c].tier = chains[c].tier
                            /\ ToSet(chains'[c].members) \subseteq ToSet(chains[c].members)
SelectionsFollow ==
  \A t \in HubTiers : serving'[t] = serving[t] \/ serving'[t].target = None

(* What a request holds follows the rows.                                  *)
LEMMA HoldsFollow ==
  ASSUME NEW b \in HubJobs, JobHolds(b), issued \subseteq issued',
         \A x, t : KnownAs(x, t) /\ (x = b.target \/ x \in Models) => KnownAs(x, t)',
         \A x \in CheckedBy(b) : LivesOn(x),
         b.pc = "check" => \A x \in CheckedBy(b) : SizeFollows(x),
         b.pc = "call" => NameFollows(b.target)
  PROVE  JobHolds(b)'
<1>0. /\ \A i \in DOMAIN b.got : b.got[i].id \in Models
      /\ \A i \in DOMAIN b.ids : b.ids[i] \in Models
  <2>1. b.got \in Seq(RowCopies) /\ b.ids \in Seq(Models)
    BY DEF HubJobs
  <2>2. \A copy \in RowCopies : copy.id \in Models
    BY DEF RowCopies
  <2> QED
    BY <2>1, <2>2
<1>1. JobTyped(b)'
  BY DEF JobHolds, JobTyped
<1>2. JobTiers(b)'
  <2>1. JobTiers(b)
    BY DEF JobHolds
  <2>2. b.target \in issued' \cup {None}
    BY <2>1 DEF JobTiers
  <2>3. b.pc = "check" =>
          /\ \A i \in DOMAIN b.got : b.got[i].row.tier = b.tier /\ KnownAs(b.got[i].id, b.tier)'
          /\ b.mode = "update" => KnownAs(b.target, b.tier)'
    BY <1>0, <2>1 DEF JobTiers
  <2>4. b.pc \in {"store", "resolve"} => KnownAs(b.target, b.tier)'
    BY <2>1 DEF JobTiers
  <2>5. b.pc = "members" => \A i \in DOMAIN b.ids : KnownAs(b.ids[i], b.tier)'
    BY <1>0, <2>1 DEF JobTiers
  <2> QED
    BY <2>1, <2>2, <2>3, <2>4, <2>5 DEF JobTiers
<1>3. JobRefs(b)'
  BY DEF JobHolds, JobRefs, CheckedBy, LivesOn, Lives
<1>4. JobSizes(b)'
  <2> SUFFICES ASSUME b.pc = "check", NEW i \in DOMAIN b.got,
                      b.got[i].id \in DOMAIN models' \ drifted'
               PROVE  models'[b.got[i].id].dim = b.got[i].row.dim
    BY DEF JobSizes
  <2>1. b.got[i].id \in CheckedBy(b)
    BY DEF CheckedBy, Hub!IdsOf
  <2>2. b.got[i].id \in issued
    BY HubConstants, <1>0 DEF JobHolds, JobTiers, KnownAs
  <2> QED
    BY <2>1, <2>2 DEF SizeFollows, JobHolds, JobSizes
<1>5. JobTests(b)'
  <2> SUFFICES ASSUME b.pc = "call", b.target \in DOMAIN models' \ overtaken'
               PROVE  models'[b.target].name = b.got[1].row.name
    BY DEF JobTests
  <2>1. b.target \in issued
    BY HubConstants DEF JobHolds, JobTiers, JobTyped
  <2> QED
    BY <2>1 DEF NameFollows, JobHolds, JobTests
<1> QED
  BY <1>1, <1>2, <1>3, <1>4, <1>5 DEF JobHolds

(* When a row changes, nothing is settled and no read is fresh.            *)
LEMMA TouchedIs ==
  ASSUME NEW js \in [Jobs -> HubJobs], Hub!Touched(js),
         \A k \in Jobs : \A b \in HubJobs : js[k] = b => JobHolds(b)'
  PROVE  /\ hubJobs' \in [Jobs -> HubJobs] /\ settled' = {}
         /\ HubJobsHold' /\ ReadsAreFresh' /\ Hub!RunsTheSelection'
         /\ \A k \in Jobs : /\ hubJobs'[k].pc = js[k].pc /\ hubJobs'[k].mode = js[k].mode
                            /\ hubJobs'[k].target = js[k].target
<1> DEFINE now(k) == IF js[k].pc \notin {"resolve", "members", "swap"} THEN js[k]
                     ELSE [js[k] EXCEPT !.clean = FALSE]
<1>1. hubJobs' = [k \in Jobs |-> now(k)] /\ settled' = {}
  BY DEF Hub!Touched
<1>2. ASSUME NEW k \in Jobs
      PROVE  /\ now(k) \in HubJobs /\ now(k).pc = js[k].pc /\ now(k).tier = js[k].tier
             /\ now(k).mode = js[k].mode /\ now(k).target = js[k].target
             /\ now(k).ids = js[k].ids /\ now(k).got = js[k].got
             /\ now(k).pc \in {"resolve", "members", "swap"} => ~now(k).clean
  BY DEF HubJobs
<1> HIDE DEF now
<1>3. hubJobs' \in [Jobs -> HubJobs] /\ \A k \in Jobs : hubJobs'[k] = now(k)
  BY <1>1, <1>2
<1>4. HubJobsHold'
  <2> SUFFICES ASSUME NEW k \in Jobs, NEW b \in HubJobs, hubJobs'[k] = b PROVE JobHolds(b)'
    BY DEF HubJobsHold
  <2>1. PICK a \in HubJobs : a = js[k]
    OBVIOUS
  <2>2. JobHolds(a)'
    BY <2>1
  <2>3. /\ b.pc = a.pc /\ b.tier = a.tier /\ b.mode = a.mode /\ b.target = a.target
        /\ b.ids = a.ids /\ b.got = a.got
    BY <1>2, <1>3, <2>1
  <2>4. JobTyped(b)' /\ JobTiers(b)'
    BY <2>2, <2>3 DEF JobHolds, JobTyped, JobTiers
  <2>5. JobRefs(b)' /\ JobSizes(b)' /\ JobTests(b)'
    BY <2>2, <2>3 DEF JobHolds, JobRefs, JobSizes, JobTests, CheckedBy
  <2> QED
    BY <2>4, <2>5 DEF JobHolds
<1>5. ReadsAreFresh'
  <2> SUFFICES ASSUME NEW k \in Jobs, NEW b \in HubJobs, hubJobs'[k] = b PROVE JobReads(b)'
    BY DEF ReadsAreFresh
  <2>1. b.pc \in {"resolve", "members", "swap"} => ~b.clean
    BY <1>2, <1>3
  <2> QED
    BY <2>1 DEF JobReads
<1>6. Hub!RunsTheSelection'
  BY <1>1 DEF Hub!RunsTheSelection
<1> QED
  BY <1>1, <1>2, <1>3, <1>4, <1>5, <1>6

(* Every request's hold follows the rows.                                  *)
LEMMA AllFollow ==
  ASSUME HubInv, TiersFollow,
         \A k \in Jobs : \A x \in CheckedBy(hubJobs[k]) : LivesOn(x),
         \A k \in Jobs : hubJobs[k].pc = "check" => \A x \in CheckedBy(hubJobs[k]) : SizeFollows(x),
         \A k \in Jobs : hubJobs[k].pc = "call" => NameFollows(hubJobs[k].target)
  PROVE  \A k \in Jobs : \A b \in HubJobs : hubJobs[k] = b => JobHolds(b)'
<1> SUFFICES ASSUME NEW k \in Jobs, NEW b \in HubJobs, hubJobs[k] = b PROVE JobHolds(b)'
  OBVIOUS
<1>1. JobHolds(b)
  BY DEF HubInv, HubJobsHold
<1>2. /\ \A x \in CheckedBy(b) : LivesOn(x)
      /\ b.pc = "check" => \A x \in CheckedBy(b) : SizeFollows(x)
      /\ b.pc = "call" => NameFollows(b.target)
  OBVIOUS
<1>3. \A x, t : KnownAs(x, t) => KnownAs(x, t)'
  BY DEF TiersFollow
<1>4. issued \subseteq issued'
  BY DEF TiersFollow
<1> QED
  BY <1>1, <1>2, <1>3, <1>4, HoldsFollow


(* The rows hold when they only lose what they hold.                       *)
LEMMA RowsFollow ==
  ASSUME HubInv, TiersFollow, ChainsFollow, SelectionsFollow, running' = running,
         \A c \in DOMAIN chains' : \A m \in ToSet(chains'[c].members) :
           LivesOn(m) /\ SizeFollows(m),
         \A t \in HubTiers : serving'[t].target = None \/ LivesOn(serving[t].target)
  PROVE  RowsHold' /\ SizesAgree'
<1>1. ASSUME NEW c \in DOMAIN chains', NEW m \in ToSet(chains'[c].members)
      PROVE  /\ \A t : t = chains'[c].tier => KnownAs(m, t)'
             /\ Lives(m)' /\ SizeFollows(m) /\ m \in issued \cup {None}
             /\ c \in DOMAIN chains /\ m \in ToSet(chains[c].members)
  <2>1. c \in DOMAIN chains /\ m \in ToSet(chains[c].members) /\ chains'[c].tier = chains[c].tier
    BY DEF ChainsFollow
  <2>2. KnownAs(m, chains[c].tier) /\ Lives(m)
    BY <2>1 DEF HubInv, RowsHold
  <2>3. PICK t : t = chains[c].tier
    OBVIOUS
  <2>4. KnownAs(m, t)'
    BY <2>2, <2>3 DEF TiersFollow
  <2>5. Lives(m)'
    BY <2>2 DEF LivesOn, Lives
  <2> QED
    BY <2>1, <2>2, <2>3, <2>4, <2>5 DEF KnownAs
<1>2. ASSUME NEW t \in HubTiers
      PROVE  \A x : x = serving'[t].target => KnownAs(x, t)' /\ Lives(x)'
  <2>1. CASE serving'[t].target = None
    <3>1. KnownAs(None, t)
      BY HubConstants DEF KnownAs, HubInv, HubTyped
    <3>2. KnownAs(None, t)' /\ Lives(None)'
      BY <3>1 DEF TiersFollow, Lives
    <3> QED
      BY <2>1, <3>2
  <2>2. CASE serving'[t].target # None
    <3>1. PICK x : x = serving[t].target
      OBVIOUS
    <3>2. serving'[t].target = x
      BY <2>2, <3>1 DEF SelectionsFollow
    <3>3. KnownAs(x, t) /\ Lives(x)
      BY <3>1 DEF HubInv, RowsHold
    <3>4. KnownAs(x, t)'
      BY <3>3 DEF TiersFollow
    <3>5. Lives(x)'
      BY <2>2, <3>1, <3>3 DEF LivesOn, Lives
    <3> QED
      BY <3>2, <3>4, <3>5
  <2> QED
    BY <2>1, <2>2
<1>3. RowsHold'
  <2>1. \A t \in HubTiers : \A i \in DOMAIN running'[t] : running'[t][i].row.tier = t
    BY DEF HubInv, RowsHold
  <2>2. ASSUME NEW c \in DOMAIN chains', NEW m \in ToSet(chains'[c].members)
        PROVE  KnownAs(m, chains[c].tier)'
    BY <1>1 DEF KnownAs
  <2>3. ASSUME NEW t \in HubTiers
        PROVE  KnownAs(serving[t].target, t)' /\ Lives(serving[t].target)'
    BY <1>2 DEF KnownAs, Lives
  <2> QED
    BY <1>1, <2>1, <2>2, <2>3 DEF RowsHold
<1>4. SizesAgree'
  <2> SUFFICES ASSUME NEW c \in DOMAIN chains',
                      NEW m \in (ToSet(chains'[c].members) \cap DOMAIN models') \ drifted',
                      NEW n \in (ToSet(chains'[c].members) \cap DOMAIN models') \ drifted'
               PROVE  SameSize(m, n)'
    BY DEF SizesAgree
  <2>1. ASSUME NEW x \in (ToSet(chains'[c].members) \cap DOMAIN models') \ drifted'
        PROVE  /\ x \in (ToSet(chains[c].members) \cap DOMAIN models) \ drifted
               /\ models'[x].dim = models[x].dim
    <3>1. SizeFollows(x) /\ x \in issued \cup {None} /\ x \in ToSet(chains[c].members)
      BY <1>1
    <3>2. x # None
      <4>1. chains[c].members \in Seq(Models)
        BY <1>1 DEF HubInv, HubTyped, ChainRows
      <4> QED
        BY <3>1, <4>1, HubConstants DEF ToSet
    <3> QED
      BY <3>1, <3>2 DEF SizeFollows
  <2>2. c \in DOMAIN chains
    BY <1>1
  <2>3. SameSize(m, n)
    BY <2>1, <2>2 DEF HubInv, SizesAgree
  <2> QED
    BY <2>1, <2>3 DEF SameSize
<1> QED
  BY <1>3, <1>4

(* A change of the rows that those who hold of them follow keeps the       *)
(* invariant.                                                              *)
LEMMA TouchKeeps ==
  ASSUME HubInv, NEW js \in [Jobs -> HubJobs], Hub!Touched(js), running' = running,
         \A k \in Jobs : \A b \in HubJobs : js[k] = b => JobHolds(b)',
         \A k \in Jobs :
           /\ js[k].target \in {hubJobs[k].target, None}
           /\ js[k].pc = "check" /\ js[k].mode = "create" =>
                /\ hubJobs[k].pc = "check" /\ hubJobs[k].mode = "create"
                /\ js[k].target = hubJobs[k].target /\ js[k].target \notin DOMAIN chains'
                /\ \A t \in HubTiers : serving'[t].target # js[k].target,
         DOMAIN models' \subseteq Models, models' \in [DOMAIN models' -> Hub!ModelRows],
         DOMAIN chains' \subseteq Chains, chains' \in [DOMAIN chains' -> ChainRows],
         serving' \in [HubTiers -> Selections],
         issued' \subseteq Models \cup Chains, DOMAIN models' \cup DOMAIN chains' \subseteq issued',
         RowsHold', SizesAgree', Hub!ReadyModelWasTested'
  PROVE  HubInv'
<1>1. /\ hubJobs' \in [Jobs -> HubJobs] /\ settled' = {}
      /\ HubJobsHold' /\ ReadsAreFresh' /\ Hub!RunsTheSelection'
      /\ \A k \in Jobs : /\ hubJobs'[k].pc = js[k].pc /\ hubJobs'[k].mode = js[k].mode
                         /\ hubJobs'[k].target = js[k].target
  BY TouchedIs
<1>2. HubTyped'
  BY <1>1 DEF HubInv, HubTyped
<1>3. Unborn'
  <2> SUFFICES ASSUME NEW k \in Jobs, hubJobs'[k].pc = "check", hubJobs'[k].mode = "create"
               PROVE  \A l \in Jobs \ {k} : hubJobs'[l].target # hubJobs'[k].target
    BY <1>1 DEF Unborn
  <2>1. /\ js[k].pc = "check" /\ js[k].mode = "create" /\ hubJobs'[k].target = js[k].target
    BY <1>1
  <2>2. /\ hubJobs[k].pc = "check" /\ hubJobs[k].mode = "create"
        /\ js[k].target = hubJobs[k].target
    BY <2>1
  <2>3. \A l \in Jobs \ {k} : hubJobs[l].target # hubJobs[k].target
    BY <2>2 DEF HubInv, Unborn
  <2>4. hubJobs[k].target \in Chains
    BY <2>2, HubJobIs DEF JobHolds, JobTyped
  <2>5. hubJobs[k].target # None
    BY <2>4, HubConstants
  <2> QED
    BY <1>1, <2>1, <2>2, <2>3, <2>5
<1> QED
  BY <1>1, <1>2, <1>3 DEF HubInv

(* A change of the rows after which there is no chain more and every       *)
(* request stands where it stood, or has ended.                            *)
LEMMA LossKeeps ==
  ASSUME HubInv, NEW js \in [Jobs -> HubJobs], Hub!Touched(js), running' = running,
         \A k \in Jobs : js[k] = hubJobs[k] \/ (js[k].pc # "check" /\ js[k].target = None),
         \A k \in Jobs : \A b \in HubJobs : js[k] = b => JobHolds(b)',
         TiersFollow, ChainsFollow, SelectionsFollow,
         DOMAIN models' \subseteq Models, models' \in [DOMAIN models' -> Hub!ModelRows],
         chains' \in [DOMAIN chains' -> ChainRows], serving' \in [HubTiers -> Selections],
         issued' \subseteq Models \cup Chains, DOMAIN models' \cup DOMAIN chains' \subseteq issued',
         \A c \in DOMAIN chains' : \A m \in ToSet(chains'[c].members) :
           LivesOn(m) /\ SizeFollows(m),
         \A t \in HubTiers : serving'[t].target = None \/ LivesOn(serving[t].target),
         Hub!ReadyModelWasTested'
  PROVE  HubInv'
<1>1. RowsHold' /\ SizesAgree'
  BY RowsFollow
<1>2. DOMAIN chains' \subseteq DOMAIN chains /\ DOMAIN chains' \subseteq Chains
  BY DEF ChainsFollow, HubInv, HubTyped
<1>3. ASSUME NEW k \in Jobs
      PROVE  /\ js[k].target \in {hubJobs[k].target, None}
             /\ js[k].pc = "check" /\ js[k].mode = "create" =>
                  /\ hubJobs[k].pc = "check" /\ hubJobs[k].mode = "create"
                  /\ js[k].target = hubJobs[k].target /\ js[k].target \notin DOMAIN chains'
                  /\ \A t \in HubTiers : serving'[t].target # js[k].target
  <2>1. js[k].target \in {hubJobs[k].target, None}
    OBVIOUS
  <2>2. ASSUME js[k].pc = "check", js[k].mode = "create"
        PROVE  /\ js[k] = hubJobs[k] /\ js[k].target \notin DOMAIN chains'
               /\ \A t \in HubTiers : serving'[t].target # js[k].target
    <3>1. js[k] = hubJobs[k]
      BY <2>2
    <3>2. /\ hubJobs[k].target \notin DOMAIN chains
          /\ \A t \in HubTiers : serving[t].target # hubJobs[k].target
      BY <2>2, <3>1 DEF HubInv, Unborn
    <3>3. hubJobs[k].target \in Chains
      BY <2>2, <3>1, HubJobIs DEF JobHolds, JobTyped
    <3>4. hubJobs[k].target # None
      BY <3>3, HubConstants
    <3> QED
      BY <1>2, <3>1, <3>2, <3>4 DEF SelectionsFollow
  <2> QED
    BY <2>1, <2>2
<1> QED
  BY <1>1, <1>2, <1>3, TouchKeeps

(* A model is created under an id that no request and no row knows.        *)
LEMMA CreateModelKeeps ==
  ASSUME HubInv, NEW m \in Models, NEW t \in HubTiers, NEW u \in BOOLEAN,
         Hub!CreateModel(m, t, u)
  PROVE  HubInv'
<1> DEFINE row == Hub!NewModel(t, u)
<1>1. /\ m \notin issued /\ issued' = issued \cup {m} /\ models' = Hub!Put(models, m, row)
      /\ Hub!Touched(hubJobs)
      /\ UNCHANGED <<chains, serving, running, raced, proof, overtaken, drifted>>
  BY DEF Hub!CreateModel, Hub!history
<1>2. row \in Hub!ModelRows /\ row.status = "untested"
  BY HubHelpers DEF Hub!NewModel, Hub!ModelRows, HubTiers
<1> HIDE DEF row
<1>3. /\ DOMAIN models \subseteq Models /\ models \in [DOMAIN models -> Hub!ModelRows]
      /\ DOMAIN models \cup DOMAIN chains \subseteq issued /\ issued \subseteq Models \cup Chains
      /\ chains \in [DOMAIN chains -> ChainRows] /\ serving \in [HubTiers -> Selections]
      /\ hubJobs \in [Jobs -> HubJobs]
  BY DEF HubInv, HubTyped
<1>4. /\ DOMAIN models' = DOMAIN models \cup {m} /\ models'[m] = row
      /\ \A x \in DOMAIN models : x # m /\ models'[x] = models[x]
      /\ models' \in [DOMAIN models' -> Hub!ModelRows]
  BY <1>1, <1>2, <1>3 DEF Hub!Put
<1>5. m # None /\ \A x \in issued : x # m
  BY <1>1, HubConstants
<1>6. TiersFollow
  BY <1>1, <1>4, <1>5 DEF TiersFollow, KnownAs
<1>7. \A x : LivesOn(x) /\ SizeFollows(x) /\ NameFollows(x)
  BY <1>1, <1>4, <1>5 DEF LivesOn, Lives, SizeFollows, NameFollows
<1>8. ChainsFollow /\ SelectionsFollow
  BY <1>1 DEF ChainsFollow, SelectionsFollow
<1>9. Hub!ReadyModelWasTested'
  BY <1>1, <1>2, <1>4 DEF HubInv, Hub!ReadyModelWasTested
<1>10. \A k \in Jobs : \A b \in HubJobs : hubJobs[k] = b => JobHolds(b)'
  BY <1>6, <1>7, AllFollow
<1> QED
  BY <1>1, <1>3, <1>4, <1>6, <1>7, <1>8, <1>9, <1>10, LossKeeps

(* What an edit leaves as it is.                                           *)
LEMMA EditedIs ==
  ASSUME NEW row \in Hub!ModelRows, NEW what \in {"name", "url"}, NEW u \in BOOLEAN
  PROVE  /\ Hub!Edited(row, what, u) \in Hub!ModelRows
         /\ Hub!Edited(row, what, u).tier = row.tier /\ Hub!Edited(row, what, u).dim = row.dim
         /\ Hub!Edited(row, what, u).status = "ready" =>
              row.status = "ready" /\ Hub!Edited(row, what, u).name = row.name
<1>1. /\ row \in [tier : HubTiers, name : Nat, url : Nat, dim : Dims \cup {0},
                   status : {"untested", "ready", "error"}, usable : BOOLEAN]
      /\ row.tier = "llm" => row.dim = 0
  BY ModelRowIs
<1>n. PICK name \in Nat, url \in Nat : name = row.name + 1 /\ url = row.url + 1
  BY <1>1
<1>2. CASE what = "name"
  <2> DEFINE now == [row EXCEPT !.name = name, !.usable = u, !.status = "untested"]
  <2>1. Hub!Edited(row, what, u) = now
    BY <1>n, <1>2 DEF Hub!Edited
  <2>2. /\ now \in [tier : HubTiers, name : Nat, url : Nat, dim : Dims \cup {0},
                     status : {"untested", "ready", "error"}, usable : BOOLEAN]
        /\ now.tier = row.tier /\ now.dim = row.dim /\ now.status = "untested"
    BY <1>1
  <2> HIDE DEF now
  <2>3. now \in Hub!ModelRows
    BY <1>1, <2>2, HubHelpers DEF Hub!ModelRows, HubTiers
  <2> QED
    BY <2>1, <2>2, <2>3
<1>3. CASE what = "url"
  <2> DEFINE now == [row EXCEPT !.url = url, !.usable = u]
  <2>1. Hub!Edited(row, what, u) = now
    BY <1>1, <1>n, <1>3 DEF Hub!Edited
  <2>2. /\ now \in [tier : HubTiers, name : Nat, url : Nat, dim : Dims \cup {0},
                     status : {"untested", "ready", "error"}, usable : BOOLEAN]
        /\ now.tier = row.tier /\ now.dim = row.dim /\ now.status = row.status
        /\ now.name = row.name
    BY <1>1
  <2> HIDE DEF now
  <2>3. now \in Hub!ModelRows
    BY <1>1, <2>2, HubHelpers DEF Hub!ModelRows, HubTiers
  <2> QED
    BY <2>1, <2>2, <2>3
<1> QED
  BY <1>2, <1>3

(* A model is edited: its tier and its size stay, and a test that is under *)
(* way is marked.                                                          *)
LEMMA UpdateModelKeeps ==
  ASSUME HubInv, NEW m \in Models, NEW what \in {"name", "url"}, NEW u \in BOOLEAN,
         Hub!UpdateModel(m, what, u)
  PROVE  HubInv'
<1>1. /\ m \in DOMAIN models
      /\ models' = [models EXCEPT ![m] = Hub!Edited(@, what, u)]
      /\ overtaken' = IF \E j \in Jobs : hubJobs[j].pc = "call" /\ hubJobs[j].target = m
                      THEN overtaken \cup {m} ELSE overtaken
      /\ Hub!Touched(hubJobs)
      /\ UNCHANGED <<chains, serving, running, issued, raced, proof, drifted>>
  BY DEF Hub!UpdateModel
<1>2. /\ DOMAIN models \subseteq Models /\ models \in [DOMAIN models -> Hub!ModelRows]
      /\ DOMAIN models \cup DOMAIN chains \subseteq issued /\ issued \subseteq Models \cup Chains
      /\ chains \in [DOMAIN chains -> ChainRows] /\ serving \in [HubTiers -> Selections]
      /\ hubJobs \in [Jobs -> HubJobs]
  BY DEF HubInv, HubTyped
<1>3. PICK row \in Hub!ModelRows : row = models[m]
  BY <1>1, <1>2
<1>4. PICK now \in Hub!ModelRows : now = Hub!Edited(row, what, u)
  BY EditedIs
<1>5. /\ now.tier = row.tier /\ now.dim = row.dim
      /\ now.status = "ready" => row.status = "ready" /\ now.name = row.name
  BY <1>4, EditedIs
<1>6. /\ DOMAIN models' = DOMAIN models /\ models'[m] = now
      /\ \A x \in DOMAIN models : x # m => models'[x] = models[x]
      /\ models' \in [DOMAIN models' -> Hub!ModelRows]
  BY <1>1, <1>2, <1>3, <1>4
<1>7. TiersFollow
  BY <1>1, <1>3, <1>5, <1>6 DEF TiersFollow, KnownAs
<1>8. \A x : LivesOn(x) /\ SizeFollows(x)
  BY <1>1, <1>3, <1>5, <1>6 DEF LivesOn, Lives, SizeFollows
<1>9. \A k \in Jobs : hubJobs[k].pc = "call" => NameFollows(hubJobs[k].target)
  BY <1>1, <1>6 DEF NameFollows
<1>10. ChainsFollow /\ SelectionsFollow
  BY <1>1 DEF ChainsFollow, SelectionsFollow
<1>11. Hub!ReadyModelWasTested'
  BY <1>1, <1>3, <1>5, <1>6 DEF HubInv, Hub!ReadyModelWasTested
<1>12. \A k \in Jobs : \A b \in HubJobs : hubJobs[k] = b => JobHolds(b)'
  BY <1>7, <1>8, <1>9, AllFollow
<1> QED
  BY <1>1, <1>2, <1>6, <1>7, <1>8, <1>10, <1>11, <1>12, LossKeeps

(* The ids a request has checked.                                          *)
LEMMA CheckedIs == \A j \in Jobs : Hub!Checked(j) = CheckedBy(hubJobs[j])
BY DEF Hub!Checked, CheckedBy

(* A selection loses a target that is deleted.                             *)
LEMMA UnserveIs ==
  ASSUME HubInv, NEW x, serving' = Hub!Unserve(x)
  PROVE  /\ serving' \in [HubTiers -> Selections] /\ SelectionsFollow
         /\ \A t \in HubTiers : serving'[t].target = None \/ serving[t].target # x
<1>1. serving \in [HubTiers -> Selections]
  BY DEF HubInv, HubTyped
<1>2. Hub!Disabled \in Selections /\ Hub!Disabled.target = None
  BY DEF Hub!Disabled, Selections, Targets
<1>3. serving' = [t \in HubTiers |-> IF serving[t].target = x THEN Hub!Disabled ELSE serving[t]]
  BY <1>1 DEF Hub!Unserve
<1> QED
  BY <1>1, <1>2, <1>3 DEF SelectionsFollow

(* A chain loses a member that is deleted, and nothing else.               *)
LEMMA PruneIs ==
  ASSUME HubInv, NEW m, chains' = Hub!Prune(m)
  PROVE  /\ DOMAIN chains' = DOMAIN chains /\ chains' \in [DOMAIN chains' -> ChainRows]
         /\ ChainsFollow /\ \A c \in DOMAIN chains' : m \notin ToSet(chains'[c].members)
<1>1. chains \in [DOMAIN chains -> ChainRows]
  BY DEF HubInv, HubTyped
<1> DEFINE now(c) == [chains[c] EXCEPT !.members = KeptOf(@, ToSet(@) \ {m})]
<1>2. chains' = [c \in DOMAIN chains |-> now(c)]
  BY HubHelpers DEF Hub!Prune
<1>3. ASSUME NEW c \in DOMAIN chains
      PROVE  /\ now(c) \in ChainRows /\ now(c).tier = chains[c].tier
             /\ ToSet(now(c).members) \subseteq ToSet(chains[c].members) \ {m}
  <2>1. PICK row \in ChainRows : row = chains[c]
    BY <1>1
  <2>2. PICK list \in Seq(Models) : list = row.members
    BY DEF ChainRows
  <2>3. PICK S : S = ToSet(list) \ {m}
    OBVIOUS
  <2>4. KeptOf(list, S) \in Seq(Models) /\ PickedOf(list, S, Len(list), KeptOf(list, S))
    BY KeptIs
  <2>5. PICK kept \in Seq(Models) : kept = KeptOf(list, S)
    BY <2>4, Zenon
  <2>6. PickedOf(list, S, Len(list), kept)
    BY <2>4, <2>5
  <2>7. now(c) = [row EXCEPT !.members = kept]
    BY <2>1, <2>2, <2>3, <2>5
  <2>8. ToSet(kept) \subseteq S
    BY <2>6 DEF PickedOf, ToSet
  <2>9. /\ [row EXCEPT !.members = kept] \in ChainRows
        /\ [row EXCEPT !.members = kept].tier = row.tier
        /\ [row EXCEPT !.members = kept].members = kept
    BY DEF ChainRows
  <2> QED
    BY <2>1, <2>2, <2>3, <2>7, <2>8, <2>9
<1> HIDE DEF now
<1>4. DOMAIN chains' = DOMAIN chains /\ \A c \in DOMAIN chains : chains'[c] = now(c)
  BY <1>2
<1> QED
  BY <1>2, <1>3, <1>4 DEF ChainsFollow

(* A model is deleted with what refers to it, but for the requests that    *)
(* have checked it: these are marked.                                      *)
LEMMA DeleteModelKeeps ==
  ASSUME HubInv, NEW m \in Models, Hub!DeleteModel(m)
  PROVE  HubInv'
<1>1. /\ m \in DOMAIN models /\ models' = Hub!Drop(models, m) /\ chains' = Hub!Prune(m)
      /\ serving' = Hub!Unserve(m) /\ raced' = Hub!Deleted(m) /\ Hub!Touched(hubJobs)
      /\ UNCHANGED <<running, issued, proof, overtaken, drifted>>
  BY DEF Hub!DeleteModel
<1>2. /\ DOMAIN models \subseteq Models /\ models \in [DOMAIN models -> Hub!ModelRows]
      /\ DOMAIN models \cup DOMAIN chains \subseteq issued /\ issued \subseteq Models \cup Chains
      /\ hubJobs \in [Jobs -> HubJobs]
  BY DEF HubInv, HubTyped
<1>3. /\ DOMAIN models' = DOMAIN models \ {m}
      /\ \A x \in DOMAIN models' : models'[x] = models[x]
      /\ models' \in [DOMAIN models' -> Hub!ModelRows]
  BY <1>1, <1>2 DEF Hub!Drop
<1>4. /\ DOMAIN chains' = DOMAIN chains /\ chains' \in [DOMAIN chains' -> ChainRows]
      /\ ChainsFollow /\ \A c \in DOMAIN chains' : m \notin ToSet(chains'[c].members)
  BY <1>1, PruneIs
<1>5. /\ serving' \in [HubTiers -> Selections] /\ SelectionsFollow
      /\ \A t \in HubTiers : serving'[t].target = None \/ serving[t].target # m
  BY <1>1, UnserveIs
<1>6. raced \subseteq raced' /\ \A k \in Jobs : m \in CheckedBy(hubJobs[k]) => m \in raced'
  BY <1>1, CheckedIs DEF Hub!Deleted
<1>7. TiersFollow
  BY <1>1, <1>3, <1>4 DEF TiersFollow, KnownAs, ChainsFollow
<1>8. \A x : SizeFollows(x) /\ NameFollows(x)
  BY <1>1, <1>3 DEF SizeFollows, NameFollows
<1>9. \A x : x # m \/ m \in raced' => LivesOn(x)
  BY <1>3, <1>4, <1>6 DEF LivesOn, Lives
<1>10. \A k \in Jobs : \A x \in CheckedBy(hubJobs[k]) : LivesOn(x)
  BY <1>6, <1>9
<1>11. Hub!ReadyModelWasTested'
  BY <1>1, <1>3 DEF HubInv, Hub!ReadyModelWasTested
<1>12. \A k \in Jobs : \A b \in HubJobs : hubJobs[k] = b => JobHolds(b)'
  BY <1>7, <1>8, <1>10, AllFollow
<1>13. \A c \in DOMAIN chains' : \A x \in ToSet(chains'[c].members) :
         LivesOn(x) /\ SizeFollows(x)
  BY <1>4, <1>8, <1>9
<1>14. \A t \in HubTiers : serving'[t].target = None \/ LivesOn(serving[t].target)
  BY <1>5, <1>9
<1>15. issued' \subseteq Models \cup Chains /\ DOMAIN models' \cup DOMAIN chains' \subseteq issued'
  BY <1>1, <1>2, <1>3, <1>4
<1> QED
  BY <1>1, <1>2, <1>3, <1>4, <1>5, <1>7, <1>11, <1>12, <1>13, <1>14, <1>15, LossKeeps

(* A chain is deleted likewise.                                            *)
LEMMA DeleteChainKeeps ==
  ASSUME HubInv, NEW c \in Chains, Hub!DeleteChain(c)
  PROVE  HubInv'
<1>1. /\ c \in DOMAIN chains /\ chains' = Hub!Drop(chains, c)
      /\ serving' = Hub!Unserve(c) /\ raced' = Hub!Deleted(c) /\ Hub!Touched(hubJobs)
      /\ UNCHANGED <<models, running, issued, proof, overtaken, drifted>>
  BY DEF Hub!DeleteChain
<1>2. /\ DOMAIN models \subseteq Models /\ models \in [DOMAIN models -> Hub!ModelRows]
      /\ DOMAIN models \cup DOMAIN chains \subseteq issued /\ issued \subseteq Models \cup Chains
      /\ chains \in [DOMAIN chains -> ChainRows] /\ hubJobs \in [Jobs -> HubJobs]
  BY DEF HubInv, HubTyped
<1>3. /\ DOMAIN chains' = DOMAIN chains \ {c}
      /\ \A x \in DOMAIN chains' : chains'[x] = chains[x]
      /\ chains' \in [DOMAIN chains' -> ChainRows]
  BY <1>1, <1>2 DEF Hub!Drop
<1>4. ChainsFollow
  BY <1>3 DEF ChainsFollow
<1>5. /\ serving' \in [HubTiers -> Selections] /\ SelectionsFollow
      /\ \A t \in HubTiers : serving'[t].target = None \/ serving[t].target # c
  BY <1>1, UnserveIs
<1>6. raced \subseteq raced' /\ \A k \in Jobs : c \in CheckedBy(hubJobs[k]) => c \in raced'
  BY <1>1, CheckedIs DEF Hub!Deleted
<1>7. TiersFollow
  BY <1>1, <1>3 DEF TiersFollow, KnownAs
<1>8. \A x : SizeFollows(x) /\ NameFollows(x)
  BY <1>1 DEF SizeFollows, NameFollows
<1>9. \A x : x # c \/ c \in raced' => LivesOn(x)
  BY <1>1, <1>3, <1>6 DEF LivesOn, Lives
<1>10. \A k \in Jobs : \A x \in CheckedBy(hubJobs[k]) : LivesOn(x)
  BY <1>6, <1>9
<1>11. Hub!ReadyModelWasTested'
  BY <1>1 DEF HubInv, Hub!ReadyModelWasTested
<1>12. \A k \in Jobs : \A b \in HubJobs : hubJobs[k] = b => JobHolds(b)'
  BY <1>7, <1>8, <1>10, AllFollow
<1>13. ASSUME NEW d \in DOMAIN chains', NEW x \in ToSet(chains'[d].members)
       PROVE  LivesOn(x) /\ SizeFollows(x)
  <2>1. chains'[d].members \in Seq(Models)
    BY <1>3 DEF ChainRows
  <2>2. x \in Models
    BY <2>1 DEF ToSet
  <2>3. x # c
    BY <2>2, HubConstants
  <2> QED
    BY <1>8, <1>9, <2>3
<1>14. \A t \in HubTiers : serving'[t].target = None \/ LivesOn(serving[t].target)
  BY <1>5, <1>9
<1>15. /\ issued' \subseteq Models \cup Chains /\ DOMAIN models' \cup DOMAIN chains' \subseteq issued'
       /\ DOMAIN models' \subseteq Models /\ models' \in [DOMAIN models' -> Hub!ModelRows]
  BY <1>1, <1>2, <1>3
<1> QED
  BY <1>1, <1>2, <1>3, <1>4, <1>5, <1>7, <1>11, <1>12, <1>13, <1>14, <1>15, LossKeeps

(* A chain is switched on or off.                                          *)
LEMMA ToggleKeeps ==
  ASSUME HubInv, NEW c \in Chains, Hub!Toggle(c)
  PROVE  HubInv'
<1>1. /\ c \in DOMAIN chains /\ chains' = [chains EXCEPT ![c].enabled = ~@]
      /\ Hub!Touched(hubJobs)
      /\ UNCHANGED <<models, serving, running, issued, raced, proof, overtaken, drifted>>
  BY DEF Hub!Toggle, Hub!history
<1>2. /\ DOMAIN models \subseteq Models /\ models \in [DOMAIN models -> Hub!ModelRows]
      /\ DOMAIN models \cup DOMAIN chains \subseteq issued /\ issued \subseteq Models \cup Chains
      /\ chains \in [DOMAIN chains -> ChainRows] /\ serving \in [HubTiers -> Selections]
      /\ hubJobs \in [Jobs -> HubJobs]
  BY DEF HubInv, HubTyped
<1>3. PICK row \in ChainRows : row = chains[c]
  BY <1>1, <1>2
<1>4. PICK on \in BOOLEAN : on = ~row.enabled
  OBVIOUS
<1>5. PICK now : now = [row EXCEPT !.enabled = on]
  OBVIOUS
<1>6. now \in ChainRows /\ now.tier = row.tier /\ now.members = row.members
  BY <1>5 DEF ChainRows
<1>7. /\ DOMAIN chains' = DOMAIN chains /\ chains'[c] = now
      /\ \A x \in DOMAIN chains : x # c => chains'[x] = chains[x]
      /\ chains' \in [DOMAIN chains' -> ChainRows]
  BY <1>1, <1>2, <1>3, <1>4, <1>5, <1>6
<1>8. ChainsFollow /\ SelectionsFollow
  BY <1>1, <1>3, <1>6, <1>7 DEF ChainsFollow, SelectionsFollow
<1>9. TiersFollow
  BY <1>1, <1>7, <1>8 DEF TiersFollow, KnownAs, ChainsFollow
<1>10. \A x : LivesOn(x) /\ SizeFollows(x) /\ NameFollows(x)
  BY <1>1, <1>7 DEF LivesOn, Lives, SizeFollows, NameFollows
<1>11. Hub!ReadyModelWasTested'
  BY <1>1 DEF HubInv, Hub!ReadyModelWasTested
<1>12. \A k \in Jobs : \A b \in HubJobs : hubJobs[k] = b => JobHolds(b)'
  BY <1>9, <1>10, AllFollow
<1> QED
  BY <1>1, <1>2, <1>7, <1>8, <1>9, <1>10, <1>11, <1>12, LossKeeps

(* What a verdict leaves as it is.                                         *)
LEMMA VerdictIs ==
  ASSUME NEW row \in Hub!ModelRows, NEW status \in {"ready", "error"}, NEW d \in Dims
  PROVE  /\ Hub!Verdict(row, status, d) \in Hub!ModelRows
         /\ Hub!Verdict(row, status, d).tier = row.tier
         /\ Hub!Verdict(row, status, d).name = row.name
         /\ Hub!Verdict(row, status, d).status = status
<1>1. /\ row \in [tier : HubTiers, name : Nat, url : Nat, dim : Dims \cup {0},
                   status : {"untested", "ready", "error"}, usable : BOOLEAN]
      /\ row.tier = "llm" => row.dim = 0
  BY ModelRowIs
<1>2. PICK dim \in Dims \cup {0} :
        dim = IF status = "ready" /\ row.tier = "embedding" THEN d ELSE row.dim
  BY <1>1
<1> DEFINE now == [row EXCEPT !.status = status, !.dim = dim]
<1>3. Hub!Verdict(row, status, d) = now
  BY <1>2 DEF Hub!Verdict
<1>4. /\ now \in [tier : HubTiers, name : Nat, url : Nat, dim : Dims \cup {0},
                   status : {"untested", "ready", "error"}, usable : BOOLEAN]
      /\ now.tier = row.tier /\ now.dim = dim /\ now.status = status /\ now.name = row.name
  BY <1>1, <1>2
<1> HIDE DEF now
<1>5. now.tier = "llm" => now.dim = 0
  BY <1>1, <1>2, <1>4
<1>6. now \in Hub!ModelRows
  BY <1>4, <1>5, HubHelpers DEF Hub!ModelRows, HubTiers
<1> QED
  BY <1>3, <1>4, <1>6

(* The verdict of a test is recorded: the model keeps its tier and its     *)
(* name, and a size that changes under a request or in a chain is marked.  *)
LEMMA TestRecordsKeeps ==
  ASSUME HubInv, NEW j \in Jobs, NEW status \in {"ready", "error"}, NEW d \in Dims,
         Hub!TestRecords(j, status, d)
  PROVE  HubInv'
<1>1. PICK job \in HubJobs : job = hubJobs[j]
  BY HubJobIs
<1>2. /\ job.pc = "call" /\ JobHolds(job) /\ job.target \in Models /\ job.ids \in Seq(Models)
  BY <1>1, HubJobIs DEF Hub!TestRecords, JobHolds, JobTyped, HubJobs
<1>3. PICK m \in Models : m = job.target
  BY <1>2
<1>4. PICK at : at = IF status = "ready" THEN Hub!Idle
                     ELSE [Hub!Idle EXCEPT !.pc = "test", !.ids = job.ids]
  OBVIOUS
<1>5. at \in HubJobs /\ at.pc \in {"idle", "test"} /\ at.target = None
  BY <1>2, <1>4, HubIdle DEF HubJobs
<1>6. PICK js : js = [hubJobs EXCEPT ![j] = at]
  OBVIOUS
<1>7. /\ DOMAIN models \subseteq Models /\ models \in [DOMAIN models -> Hub!ModelRows]
      /\ DOMAIN models \cup DOMAIN chains \subseteq issued /\ issued \subseteq Models \cup Chains
      /\ chains \in [DOMAIN chains -> ChainRows] /\ serving \in [HubTiers -> Selections]
      /\ hubJobs \in [Jobs -> HubJobs]
  BY DEF HubInv, HubTyped
<1>8. /\ js \in [Jobs -> HubJobs] /\ js[j] = at /\ \A k \in Jobs : k # j => js[k] = hubJobs[k]
  BY <1>5, <1>6, <1>7
<1>9. /\ Hub!Touched(js)
      /\ UNCHANGED <<chains, serving, running, issued, raced, overtaken>>
  BY <1>1, <1>4, <1>6 DEF Hub!TestRecords, Hub!Takes
<1>10. PICK name : name = Hub!SettingsOf(job.got[1].row).name
  OBVIOUS
<1>11. m \in DOMAIN models \ overtaken => models[m].name = name
  BY <1>2, <1>3, <1>10 DEF JobHolds, JobTests, Hub!SettingsOf
<1>12. CASE m \notin DOMAIN models
  <2>1. UNCHANGED <<models, proof, drifted>>
    BY <1>1, <1>3, <1>12 DEF Hub!TestRecords
  <2>2. TiersFollow /\ ChainsFollow /\ SelectionsFollow
    BY <1>9, <2>1 DEF TiersFollow, KnownAs, ChainsFollow, SelectionsFollow
  <2>3. \A x : LivesOn(x) /\ SizeFollows(x) /\ NameFollows(x)
    BY <1>9, <2>1 DEF LivesOn, Lives, SizeFollows, NameFollows
  <2>4. \A k \in Jobs : \A b \in HubJobs : hubJobs[k] = b => JobHolds(b)'
    BY <2>2, <2>3, AllFollow
  <2>5. Hub!ReadyModelWasTested'
    BY <1>9, <2>1 DEF HubInv, Hub!ReadyModelWasTested
  <2>6. \A b \in HubJobs : b = at => JobHolds(b)'
    BY <1>5 DEF JobHolds, JobTyped, JobTiers, JobRefs, JobSizes, JobTests, CheckedBy
  <2>7. \A k \in Jobs : \A b \in HubJobs : js[k] = b => JobHolds(b)'
    BY <1>8, <2>4, <2>6
  <2> QED
    BY <1>5, <1>7, <1>8, <1>9, <2>1, <2>2, <2>3, <2>5, <2>7, LossKeeps
<1>13. CASE m \in DOMAIN models
  <2>1. PICK row \in Hub!ModelRows : row = models[m]
    BY <1>7, <1>13
  <2>2. PICK now \in Hub!ModelRows : now = Hub!Verdict(row, status, d)
    BY VerdictIs
  <2>3. now.tier = row.tier /\ now.name = row.name /\ now.status = status
    BY <2>2, VerdictIs
  <2>4. /\ models' = [models EXCEPT ![m] = Hub!Verdict(@, status, d)]
        /\ proof' = IF status = "ready" THEN Hub!Put(proof, m, Hub!SettingsOf(job.got[1].row))
                    ELSE proof
        /\ drifted' = IF models'[m].dim # models[m].dim
                          /\ \/ \E k \in Jobs : m \in Hub!Checked(k)
                             \/ \E c \in DOMAIN chains : m \in ToSet(chains[c].members)
                       THEN drifted \cup {m} ELSE drifted
    BY <1>1, <1>3, <1>13, HubHelpers DEF Hub!TestRecords
  <2>5. /\ DOMAIN models' = DOMAIN models /\ models'[m] = now
        /\ \A x \in DOMAIN models : x # m => models'[x] = models[x]
        /\ models' \in [DOMAIN models' -> Hub!ModelRows]
    BY <1>7, <1>13, <2>1, <2>2, <2>4
  <2>6. TiersFollow /\ ChainsFollow /\ SelectionsFollow
    <3>1. TiersFollow
      BY <1>9, <2>1, <2>3, <2>5 DEF TiersFollow, KnownAs
    <3> QED
      BY <1>9, <3>1 DEF ChainsFollow, SelectionsFollow
  <2>7. \A x : LivesOn(x) /\ NameFollows(x)
    BY <1>9, <2>1, <2>3, <2>5 DEF LivesOn, Lives, NameFollows
  <2>8. ASSUME NEW x, x # m \/ (\E k \in Jobs : m \in CheckedBy(hubJobs[k]))
                             \/ (\E c \in DOMAIN chains : m \in ToSet(chains[c].members))
        PROVE  SizeFollows(x)
    <3>1. CASE x # m
      BY <2>4, <2>5, <3>1 DEF SizeFollows
    <3>2. CASE x = m
      BY <2>4, <2>5, <2>8, <3>2, CheckedIs DEF SizeFollows
    <3> QED
      BY <3>1, <3>2
  <2>9. \A k \in Jobs : \A x \in CheckedBy(hubJobs[k]) : SizeFollows(x)
    BY <2>8
  <2>10. \A k \in Jobs : \A b \in HubJobs : hubJobs[k] = b => JobHolds(b)'
    BY <2>6, <2>7, <2>9, AllFollow
  <2>11. \A c \in DOMAIN chains' : \A x \in ToSet(chains'[c].members) : LivesOn(x) /\ SizeFollows(x)
    BY <1>9, <2>7, <2>8
  <2>12. Hub!ReadyModelWasTested'
    <3> SUFFICES ASSUME NEW x \in DOMAIN models', models'[x].status = "ready", x \notin overtaken'
                 PROVE  x \in DOMAIN proof' /\ proof'[x].name = models'[x].name
      BY DEF Hub!ReadyModelWasTested
    <3>1. CASE x # m
      <4>1. x \in DOMAIN proof /\ proof[x].name = models[x].name
        BY <1>9, <2>5, <3>1 DEF HubInv, Hub!ReadyModelWasTested
      <4> QED
        BY <2>4, <2>5, <3>1, <4>1 DEF Hub!Put
    <3>2. CASE x = m
      <4>1. status = "ready" /\ models[m].name = name
        BY <1>9, <1>11, <2>3, <2>5, <3>2
      <4>2. m \in DOMAIN proof' /\ proof'[m].name = name
        BY <1>10, <2>4, <4>1 DEF Hub!Put
      <4> QED
        BY <2>1, <2>3, <2>5, <3>2, <4>1, <4>2
    <3> QED
      BY <3>1, <3>2
  <2>13. \A b \in HubJobs : b = at => JobHolds(b)'
    BY <1>5 DEF JobHolds, JobTyped, JobTiers, JobRefs, JobSizes, JobTests, CheckedBy
  <2>14. \A k \in Jobs : \A b \in HubJobs : js[k] = b => JobHolds(b)'
    BY <1>8, <2>10, <2>13
  <2> QED
    BY <1>5, <1>7, <1>8, <1>9, <2>5, <2>6, <2>7, <2>11, <2>12, <2>14, LossKeeps
<1> QED
  BY <1>12, <1>13

(* A selection is stored: its target was of its tier, and had a row, when  *)
(* it was checked.                                                         *)
LEMMA SetServingKeeps ==
  ASSUME HubInv, NEW j \in Jobs, Hub!SetServing(j)
  PROVE  HubInv'
<1>1. PICK job \in HubJobs : job = hubJobs[j]
  BY HubJobIs
<1>2. /\ job.pc = "store" /\ JobHolds(job) /\ job.tier \in HubTiers
      /\ [mode |-> job.mode, target |-> job.target] \in Selections
  BY <1>1, HubJobIs DEF Hub!SetServing, JobHolds, JobTyped
<1>3. PICK e \in Selections : e = [mode |-> job.mode, target |-> job.target]
  BY <1>2
<1>4. PICK t \in HubTiers : t = job.tier
  BY <1>2
<1>5. PICK at : at = [Hub!Idle EXCEPT !.pc = "select", !.tiers = Tiers]
  OBVIOUS
<1>6. at \in HubJobs /\ at.pc = "select" /\ at.target = None
  BY <1>5, HubConstants, HubIdle DEF HubJobs
<1>7. PICK js : js = [hubJobs EXCEPT ![j] = at]
  OBVIOUS
<1>8. /\ DOMAIN models \subseteq Models /\ models \in [DOMAIN models -> Hub!ModelRows]
      /\ DOMAIN models \cup DOMAIN chains \subseteq issued /\ issued \subseteq Models \cup Chains
      /\ DOMAIN chains \subseteq Chains /\ chains \in [DOMAIN chains -> ChainRows]
      /\ serving \in [HubTiers -> Selections] /\ hubJobs \in [Jobs -> HubJobs]
  BY DEF HubInv, HubTyped
<1>9. /\ js \in [Jobs -> HubJobs] /\ js[j] = at /\ \A k \in Jobs : k # j => js[k] = hubJobs[k]
  BY <1>6, <1>7, <1>8
<1>10. /\ serving' = [serving EXCEPT ![t] = e] /\ Hub!Touched(js)
       /\ UNCHANGED <<models, chains, running, issued, raced, proof, overtaken, drifted>>
  BY <1>1, <1>3, <1>4, <1>5, <1>7 DEF Hub!SetServing, Hub!Takes, Hub!history
<1>11. /\ serving' \in [HubTiers -> Selections] /\ serving'[t] = e
       /\ \A s \in HubTiers : s # t => serving'[s] = serving[s]
  BY <1>8, <1>10
<1>12. /\ \A x, s : KnownAs(x, s) => KnownAs(x, s)'
       /\ \A x : Lives(x) => Lives(x)'
  BY <1>10 DEF KnownAs, Lives
<1>13. KnownAs(e.target, t)' /\ Lives(e.target)'
  <2>1. e.target = job.target /\ job.target \in CheckedBy(job)
    BY <1>2, <1>3 DEF CheckedBy
  <2>2. KnownAs(job.target, t) /\ Lives(job.target)
    BY <1>2, <1>4, <2>1 DEF JobHolds, JobTiers, JobRefs
  <2>3. PICK x : x = job.target
    OBVIOUS
  <2>4. KnownAs(x, t)' /\ Lives(x)'
    BY <1>12, <2>2, <2>3
  <2> QED
    BY <2>1, <2>3, <2>4
<1>14. RowsHold'
  <2>1. \A s \in HubTiers : \A x : x = serving'[s].target => KnownAs(x, s)' /\ Lives(x)'
    BY <1>11, <1>12, <1>13 DEF HubInv, RowsHold
  <2>2. \A s \in HubTiers : KnownAs(serving[s].target, s)' /\ Lives(serving[s].target)'
    BY <2>1 DEF KnownAs, Lives
  <2>3. \A c \in DOMAIN chains' : \A m \in ToSet(chains'[c].members) :
          KnownAs(m, chains[c].tier)' /\ Lives(m)'
    BY <1>10, <1>12 DEF HubInv, RowsHold, KnownAs, Lives
  <2> QED
    BY <1>10, <2>2, <2>3 DEF HubInv, RowsHold
<1>15. SizesAgree' /\ Hub!ReadyModelWasTested'
  BY <1>10 DEF HubInv, SizesAgree, SameSize, Hub!ReadyModelWasTested
<1>16. \A k \in Jobs : \A b \in HubJobs : js[k] = b => JobHolds(b)'
  <2>1. ASSUME NEW b \in HubJobs, b = at PROVE JobHolds(b)'
    BY <1>6, <2>1 DEF JobHolds, JobTyped, JobTiers, JobRefs, JobSizes, JobTests, CheckedBy
  <2>2. ASSUME NEW k \in Jobs, NEW b \in HubJobs, hubJobs[k] = b PROVE JobHolds(b)'
    <3>1. JobHolds(b)
      BY <2>2, HubJobIs
    <3> QED
      BY <1>10, <3>1, HoldsOn
  <2> QED
    BY <1>9, <2>1, <2>2
<1>17. ASSUME NEW k \in Jobs
       PROVE  /\ js[k].target \in {hubJobs[k].target, None}
              /\ js[k].pc = "check" /\ js[k].mode = "create" =>
                   /\ hubJobs[k].pc = "check" /\ hubJobs[k].mode = "create"
                   /\ js[k].target = hubJobs[k].target /\ js[k].target \notin DOMAIN chains'
                   /\ \A s \in HubTiers : serving'[s].target # js[k].target
  <2>1. CASE k = j
    BY <1>6, <1>9, <2>1
  <2>2. CASE k # j
    <3>1. js[k] = hubJobs[k]
      BY <1>9, <2>2
    <3> SUFFICES ASSUME hubJobs[k].pc = "check", hubJobs[k].mode = "create"
                 PROVE  /\ hubJobs[k].target \notin DOMAIN chains'
                        /\ \A s \in HubTiers : serving'[s].target # hubJobs[k].target
      BY <3>1
    <3>2. /\ hubJobs[k].target \notin DOMAIN chains /\ hubJobs[j].target # hubJobs[k].target
          /\ \A s \in HubTiers : serving[s].target # hubJobs[k].target
      BY <2>2 DEF HubInv, Unborn
    <3>3. e.target = hubJobs[j].target
      BY <1>1, <1>3
    <3> QED
      BY <1>10, <1>11, <3>2, <3>3
  <2> QED
    BY <2>1, <2>2
<1>18. /\ DOMAIN models' \subseteq Models /\ models' \in [DOMAIN models' -> Hub!ModelRows]
       /\ DOMAIN chains' \subseteq Chains /\ chains' \in [DOMAIN chains' -> ChainRows]
       /\ issued' \subseteq Models \cup Chains
       /\ DOMAIN models' \cup DOMAIN chains' \subseteq issued' /\ running' = running
  BY <1>8, <1>10
<1> QED
  BY <1>9, <1>10, <1>11, <1>14, <1>15, <1>16, <1>17, <1>18, TouchKeeps

(* Two elements make more than one.                                        *)
LEMMA TwoAreMore ==
  ASSUME NEW S, IsFiniteSet(S), NEW a \in S, NEW b \in S, a # b
  PROVE  Cardinality(S) > 1
<1>1. IsFiniteSet({a}) /\ Cardinality({a}) = 1
  BY FS_Singleton
<1>2. Cardinality({a} \cup {b}) = 2
  BY <1>1, FS_AddElement
<1>3. {a} \cup {b} \in SUBSET S
  OBVIOUS
<1>4. Cardinality({a} \cup {b}) <= Cardinality(S) /\ Cardinality(S) \in Nat
  BY <1>3, FS_Subset, FS_CardinalityType
<1> QED
  BY <1>2, <1>4

(* A set of one element at most is not more.                               *)
LEMMA OneIsNotMore ==
  ASSUME NEW S, \A a, b \in S : a = b
  PROVE  ~(Cardinality(S) > 1)
<1>1. CASE S = {}
  BY <1>1, FS_EmptySet
<1>2. CASE S # {}
  <2>1. PICK a \in S : TRUE
    BY <1>2
  <2>2. S = {a}
    BY <2>1
  <2>3. Cardinality({a}) = 1
    BY FS_Singleton
  <2> QED
    BY <2>2, <2>3
<1> QED
  BY <1>1, <1>2

(* What is not mixed has one size.                                         *)
LEMMA NotMixed ==
  ASSUME NEW read \in Seq(RowCopies), ~Hub!Mixed(read), NEW i \in DOMAIN read, NEW k \in DOMAIN read
  PROVE  read[i].row.dim = 0 \/ read[k].row.dim = 0 \/ read[i].row.dim = read[k].row.dim
<1>1. IsFiniteSet(DOMAIN read)
  <2>1. Len(read) \in Nat /\ DOMAIN read = 1..Len(read)
    OBVIOUS
  <2> QED
    BY <2>1, FS_Interval
<1>2. PICK dims : dims = [n \in DOMAIN read |-> read[n].row.dim]
  OBVIOUS
<1> DEFINE S == {dims[n] : n \in DOMAIN read}
<1>3. dims \in [DOMAIN read -> S] /\ read[i].row.dim \in S /\ read[k].row.dim \in S
  BY <1>2
<1>4. Hub!Known(read) = S \ {0}
  BY <1>2 DEF Hub!Known
<1>5. PICK T : T = S
  OBVIOUS
<1>6. IsFiniteSet({dims[n] : n \in DOMAIN read})
  <2>1. dims \in [DOMAIN read -> T]
    BY <1>3, <1>5
  <2> HIDE DEF S
  <2> QED
    BY <1>1, <2>1, ImageIsFinite
<1>7. IsFiniteSet(S)
  BY <1>6
<1> HIDE DEF S
<1>8. S \ {0} \in SUBSET S
  OBVIOUS
<1>9. IsFiniteSet(S \ {0})
  BY <1>7, <1>8, FS_Subset
<1>10. ~(Cardinality(S \ {0}) > 1)
  BY <1>4, HubHelpers DEF Hub!Mixed
<1>11. PICK a, b : a = read[i].row.dim /\ b = read[k].row.dim
  OBVIOUS
<1>12. PICK U : U = S \ {0}
  OBVIOUS
<1>13. IsFiniteSet(U) /\ ~(Cardinality(U) > 1)
  BY <1>9, <1>10, <1>12
<1>14. a = 0 \/ b = 0 \/ a = b
  <2> SUFFICES ASSUME a # 0, b # 0, a # b PROVE FALSE
    OBVIOUS
  <2>1. a \in U /\ b \in U
    BY <1>3, <1>11, <1>12
  <2> QED
    BY <1>13, <2>1, TwoAreMore
<1> QED
  BY <1>11, <1>14

(* A chain is stored: each of its members was of its tier and had a row,   *)
(* and they had one size, when they were checked.                          *)
LEMMA SaveChainKeeps ==
  ASSUME HubInv, NEW j \in Jobs, Hub!SaveChain(j)
  PROVE  HubInv'
<1>1. PICK job \in HubJobs : job = hubJobs[j]
  BY HubJobIs
<1>2. /\ job.pc = "check" /\ JobHolds(job) /\ job.tier \in HubTiers /\ job.target \in Chains
      /\ job.mode \in {"create", "update"} /\ job.got \in Seq(RowCopies) /\ ~Hub!Mixed(job.got)
  BY <1>1, HubJobIs DEF Hub!SaveChain, JobHolds, JobTyped, HubJobs
<1>3. PICK c \in Chains : c = job.target
  BY <1>2
<1>4. PICK t \in HubTiers : t = job.tier
  BY <1>2
<1>5. PICK read \in Seq(RowCopies) : read = job.got
  BY <1>2
<1>6. \A i \in DOMAIN read : read[i].id \in Models
  <2>1. \A i \in DOMAIN read : read[i] \in RowCopies
    OBVIOUS
  <2>2. \A copy \in RowCopies : copy.id \in Models
    BY DEF RowCopies
  <2> QED
    BY <2>1, <2>2
<1>7. [i \in DOMAIN read |-> read[i].id] \in Seq(Models)
  BY <1>6
<1>8. PICK list \in Seq(Models) : list = [i \in DOMAIN read |-> read[i].id]
  BY <1>7, Zenon
<1>9. DOMAIN list = DOMAIN read /\ \A i \in DOMAIN read : list[i] = read[i].id
  BY <1>8
<1>10. /\ DOMAIN models \subseteq Models /\ models \in [DOMAIN models -> Hub!ModelRows]
       /\ DOMAIN models \cup DOMAIN chains \subseteq issued /\ issued \subseteq Models \cup Chains
       /\ DOMAIN chains \subseteq Chains /\ chains \in [DOMAIN chains -> ChainRows]
       /\ serving \in [HubTiers -> Selections] /\ hubJobs \in [Jobs -> HubJobs]
  BY DEF HubInv, HubTyped
<1>11. PICK js : js = [hubJobs EXCEPT ![j] = Hub!Idle]
  OBVIOUS
<1>12. /\ js \in [Jobs -> HubJobs] /\ js[j] = Hub!Idle
       /\ \A k \in Jobs : k # j => js[k] = hubJobs[k]
  BY <1>10, <1>11, HubIdle
<1>13. PICK new : new = [tier |-> t, members |-> list, enabled |-> TRUE]
  OBVIOUS
<1>14. new \in ChainRows /\ new.tier = t /\ new.members = list
  BY <1>13 DEF ChainRows
<1>15. /\ chains' = CASE job.mode = "create" -> Hub!Put(chains, c, new)
                     [] c \in DOMAIN chains -> [chains EXCEPT ![c].members = list]
                     [] OTHER -> chains
       /\ Hub!Touched(js)
       /\ UNCHANGED <<models, serving, running, issued, raced, proof, overtaken, drifted>>
  BY <1>1, <1>3, <1>4, <1>5, <1>8, <1>11, <1>13 DEF Hub!SaveChain, Hub!Takes, Hub!history
<1>16. /\ c \in issued
       /\ job.mode = "update" => KnownAs(c, t)
       /\ \A i \in DOMAIN read : KnownAs(read[i].id, t) /\ Lives(read[i].id)
       /\ \A i \in DOMAIN read : read[i].id \in DOMAIN models \ drifted =>
            models[read[i].id].dim = read[i].row.dim
  <2>1. c # None
    BY HubConstants
  <2>2. \A i \in DOMAIN job.got : job.got[i].id \in CheckedBy(job)
    BY <1>2 DEF CheckedBy, Hub!IdsOf
  <2> QED
    BY <1>2, <1>3, <1>4, <1>5, <2>1, <2>2 DEF JobHolds, JobTiers, JobRefs, JobSizes
<1>17. job.mode = "create" =>
         /\ c \notin DOMAIN chains /\ \A s \in HubTiers : serving[s].target # c
         /\ \A k \in Jobs \ {j} : hubJobs[k].target # c
  BY <1>1, <1>2, <1>3 DEF HubInv, Unborn
<1>18. /\ DOMAIN chains \subseteq DOMAIN chains' /\ DOMAIN chains' \subseteq DOMAIN chains \cup {c}
       /\ chains' \in [DOMAIN chains' -> ChainRows]
       /\ \A x \in DOMAIN chains' : x # c => chains'[x] = chains[x]
       /\ c \in DOMAIN chains' => chains'[c].tier = t /\ chains'[c].members = list
       /\ job.mode = "update" => DOMAIN chains' = DOMAIN chains
  <2>1. CASE job.mode = "create"
    <3>1. chains' = Hub!Put(chains, c, new)
      BY <1>15, <1>17, <2>1
    <3> QED
      BY <1>10, <1>14, <2>1, <3>1 DEF Hub!Put
  <2>2. CASE job.mode # "create" /\ c \in DOMAIN chains
    <3>1. PICK row \in ChainRows : row = chains[c]
      BY <1>10, <2>2
    <3>2. PICK now : now = [row EXCEPT !.members = list]
      OBVIOUS
    <3>3. now \in ChainRows /\ now.tier = row.tier /\ now.members = list
      BY <3>2 DEF ChainRows
    <3>4. row.tier = t
      BY <1>2, <1>16, <2>2, <3>1 DEF KnownAs
    <3>5. chains' = [chains EXCEPT ![c] = now]
      BY <1>15, <2>2, <3>1, <3>2
    <3> QED
      BY <1>10, <2>2, <3>3, <3>4, <3>5
  <2>3. CASE job.mode # "create" /\ c \notin DOMAIN chains
    <3>1. chains' = chains
      BY <1>15, <2>3
    <3> QED
      BY <1>10, <2>3, <3>1
  <2> QED
    BY <2>1, <2>2, <2>3
<1>19. \A x, s : KnownAs(x, s) /\ (x # c \/ job.mode # "create") => KnownAs(x, s)'
  <2>1. ASSUME NEW x, NEW s, KnownAs(x, s), x # c PROVE KnownAs(x, s)'
    BY <1>15, <1>18, <2>1 DEF KnownAs
  <2>2. ASSUME NEW s, KnownAs(c, s), job.mode = "update" PROVE KnownAs(c, s)'
    BY <1>15, <1>16, <1>18, <2>2 DEF KnownAs
  <2> QED
    BY <1>2, <2>1, <2>2
<1>20. /\ \A x : LivesOn(x) /\ SizeFollows(x) /\ NameFollows(x)
       /\ \A x : Lives(x) => Lives(x)'
  BY <1>15, <1>18 DEF LivesOn, Lives, SizeFollows, NameFollows
<1>21. \A m \in Models : m # c
  BY HubConstants
<1>22. \A k \in Jobs : \A b \in HubJobs : js[k] = b => JobHolds(b)'
  <2>1. ASSUME NEW b \in HubJobs, b = Hub!Idle PROVE JobHolds(b)'
    <3>1. b.pc = "idle" /\ b.target = None
      BY <2>1, HubIdle
    <3> QED
      BY <3>1 DEF JobHolds, JobTyped, JobTiers, JobRefs, JobSizes, JobTests, CheckedBy
  <2>2. ASSUME NEW k \in Jobs, NEW b \in HubJobs, hubJobs[k] = b, k # j PROVE JobHolds(b)'
    <3>1. JobHolds(b)
      BY <2>2, HubJobIs
    <3>2. job.mode = "create" => b.target # c
      BY <1>17, <2>2
    <3>3. \A x, s : KnownAs(x, s) /\ (x = b.target \/ x \in Models) => KnownAs(x, s)'
      BY <1>19, <1>21, <3>2
    <3>4. issued \subseteq issued'
      BY <1>15
    <3> QED
      BY <1>20, <3>1, <3>3, <3>4, HoldsFollow
  <2> QED
    BY <1>12, <2>1, <2>2
<1>23. RowsHold'
  <2>1. ASSUME NEW x \in DOMAIN chains', NEW m \in ToSet(chains'[x].members)
        PROVE  \A s : s = chains'[x].tier => KnownAs(m, s)' /\ Lives(m)'
    <3>1. PICK s : s = chains'[x].tier
      OBVIOUS
    <3>2. chains'[x].members \in Seq(Models)
      BY <1>18 DEF ChainRows
    <3>3. m \in Models
      BY <3>2 DEF ToSet
    <3>4. KnownAs(m, s) /\ Lives(m)
      <4>1. CASE x = c
        <5>1. PICK i \in DOMAIN list : m = list[i]
          BY <1>18, <4>1 DEF ToSet
        <5> QED
          BY <1>9, <1>16, <1>18, <3>1, <4>1, <5>1
      <4>2. CASE x # c
        BY <1>18, <3>1, <4>2 DEF HubInv, RowsHold
      <4> QED
        BY <4>1, <4>2
    <3>5. KnownAs(m, s)' /\ Lives(m)'
      BY <1>19, <1>20, <1>21, <3>3, <3>4
    <3> QED
      BY <3>1, <3>5
  <2>2. ASSUME NEW s \in HubTiers
        PROVE  \A x : x = serving'[s].target => KnownAs(x, s)' /\ Lives(x)'
    <3>1. PICK x : x = serving'[s].target
      OBVIOUS
    <3>2. KnownAs(x, s) /\ Lives(x) /\ (x # c \/ job.mode # "create")
      BY <1>15, <1>17, <3>1 DEF HubInv, RowsHold
    <3>3. KnownAs(x, s)' /\ Lives(x)'
      BY <1>19, <1>20, <3>2
    <3> QED
      BY <3>1, <3>3
  <2>3. ASSUME NEW x \in DOMAIN chains', NEW m \in ToSet(chains'[x].members)
        PROVE  KnownAs(m, chains[x].tier)' /\ Lives(m)'
    BY <2>1 DEF KnownAs
  <2>4. ASSUME NEW s \in HubTiers
        PROVE  KnownAs(serving[s].target, s)' /\ Lives(serving[s].target)'
    BY <2>2 DEF KnownAs, Lives
  <2> QED
    BY <1>15, <2>3, <2>4 DEF HubInv, RowsHold
<1>24. SizesAgree'
  <2> SUFFICES ASSUME NEW x \in DOMAIN chains',
                      NEW m \in (ToSet(chains'[x].members) \cap DOMAIN models') \ drifted',
                      NEW n \in (ToSet(chains'[x].members) \cap DOMAIN models') \ drifted'
               PROVE  SameSize(m, n)'
    BY DEF SizesAgree
  <2>1. /\ m \in (ToSet(chains'[x].members) \cap DOMAIN models) \ drifted
        /\ n \in (ToSet(chains'[x].members) \cap DOMAIN models) \ drifted
    BY <1>15
  <2>2. SameSize(m, n)
    <3>1. CASE x = c
      <4>1. PICK i \in DOMAIN read : m = read[i].id
        BY <1>9, <1>18, <2>1, <3>1 DEF ToSet
      <4>2. PICK k \in DOMAIN read : n = read[k].id
        BY <1>9, <1>18, <2>1, <3>1 DEF ToSet
      <4>3. models[m].dim = read[i].row.dim /\ models[n].dim = read[k].row.dim
        BY <1>16, <2>1, <4>1, <4>2
      <4>4. read[i].row.dim = 0 \/ read[k].row.dim = 0 \/ read[i].row.dim = read[k].row.dim
        BY <1>2, <1>5, NotMixed
      <4> QED
        BY <4>3, <4>4 DEF SameSize
    <3>2. CASE x # c
      BY <1>18, <2>1, <3>2 DEF HubInv, SizesAgree
    <3> QED
      BY <3>1, <3>2
  <2> QED
    BY <1>15, <2>2 DEF SameSize
<1>25. Hub!ReadyModelWasTested'
  BY <1>15 DEF HubInv, Hub!ReadyModelWasTested
<1>26. ASSUME NEW k \in Jobs
       PROVE  /\ js[k].target \in {hubJobs[k].target, None}
              /\ js[k].pc = "check" /\ js[k].mode = "create" =>
                   /\ hubJobs[k].pc = "check" /\ hubJobs[k].mode = "create"
                   /\ js[k].target = hubJobs[k].target /\ js[k].target \notin DOMAIN chains'
                   /\ \A s \in HubTiers : serving'[s].target # js[k].target
  <2>1. CASE k = j
    BY <1>12, <2>1, HubIdle
  <2>2. CASE k # j
    <3>1. js[k] = hubJobs[k]
      BY <1>12, <2>2
    <3> SUFFICES ASSUME hubJobs[k].pc = "check", hubJobs[k].mode = "create"
                 PROVE  /\ hubJobs[k].target \notin DOMAIN chains'
                        /\ \A s \in HubTiers : serving'[s].target # hubJobs[k].target
      BY <3>1
    <3>2. /\ hubJobs[k].target \notin DOMAIN chains /\ hubJobs[j].target # hubJobs[k].target
          /\ \A s \in HubTiers : serving[s].target # hubJobs[k].target
      BY <2>2 DEF HubInv, Unborn
    <3> QED
      BY <1>1, <1>3, <1>15, <1>18, <3>2
  <2> QED
    BY <2>1, <2>2
<1>27. /\ DOMAIN models' \subseteq Models /\ models' \in [DOMAIN models' -> Hub!ModelRows]
       /\ DOMAIN chains' \subseteq Chains /\ serving' \in [HubTiers -> Selections]
       /\ issued' \subseteq Models \cup Chains
       /\ DOMAIN models' \cup DOMAIN chains' \subseteq issued' /\ running' = running
  BY <1>10, <1>15, <1>16, <1>18
<1> QED
  BY <1>12, <1>15, <1>18, <1>22, <1>23, <1>24, <1>25, <1>26, <1>27, TouchKeeps

(* A new process takes no request over, and runs what is selected.         *)
LEMMA RestartKeeps ==
  ASSUME HubInv, Hub!Restart
  PROVE  HubInv'
<1>1. /\ hubJobs' = [j \in Jobs |-> Hub!Idle]
      /\ running' = [t \in DOMAIN serving |-> Hub!Built(t, Hub!Selected(t), <<>>)]
      /\ settled' = {t \in DOMAIN serving : Hub!Buildable(t, Hub!Selected(t))}
      /\ UNCHANGED <<models, chains, serving, issued, raced, proof, overtaken, drifted>>
  BY DEF Hub!Restart, Hub!rows, Hub!history
<1>2. DOMAIN serving = HubTiers /\ HubTyped /\ RowsHold
  BY DEF HubInv, HubTyped
<1>3. ASSUME NEW t \in HubTiers
      PROVE  /\ Hub!Built(t, Hub!Selected(t), <<>>) \in Seq(RowCopies)
             /\ \A i \in DOMAIN Hub!Built(t, Hub!Selected(t), <<>>) :
                  Hub!Built(t, Hub!Selected(t), <<>>)[i].row.tier = t
             /\ Hub!Buildable(t, Hub!Selected(t)) =>
                  Hub!Built(t, Hub!Selected(t), <<>>) = Hub!Client(t, Hub!Selected(t))
  <2>1. PICK read \in Seq(RowCopies) :
          read = Hub!Selected(t) /\ \A i \in DOMAIN read : read[i].row.tier = t
    BY <1>2, SelectedAre
  <2>2. <<>> \in Seq(RowCopies) /\ \A i \in DOMAIN <<>> : <<>>[i].row.tier = t
    OBVIOUS
  <2> QED
    BY <2>1, <2>2, BuiltAre
<1> DEFINE now(t) == Hub!Built(t, Hub!Selected(t), <<>>)
<1>4. running' = [t \in HubTiers |-> now(t)]
  BY <1>1, <1>2
<1>5. \A t \in HubTiers : /\ now(t) \in Seq(RowCopies)
                          /\ \A i \in DOMAIN now(t) : now(t)[i].row.tier = t
                          /\ Hub!Buildable(t, Hub!Selected(t)) =>
                               now(t) = Hub!Client(t, Hub!Selected(t))
  BY <1>3
<1> HIDE DEF now
<1>6. /\ running' \in [HubTiers -> Seq(RowCopies)]
      /\ \A t \in HubTiers : running'[t] = now(t)
      /\ \A t \in HubTiers : \A i \in DOMAIN running'[t] : running'[t][i].row.tier = t
  BY <1>4, <1>5
<1>7. hubJobs' \in [Jobs -> HubJobs] /\ \A j \in Jobs : hubJobs'[j] = Hub!Idle
  BY <1>1, HubIdle
<1>8. HubTyped'
  <2>1. settled' \subseteq HubTiers
    BY <1>1, <1>2
  <2> QED
    BY <1>1, <1>6, <1>7, <2>1 DEF HubInv, HubTyped
<1>9. HubJobsHold' /\ ReadsAreFresh' /\ Unborn'
  <2>1. ASSUME NEW b \in HubJobs, b = Hub!Idle PROVE JobHolds(b)' /\ JobReads(b)'
    <3>1. b.pc = "idle" /\ b.target = None
      BY <2>1, HubIdle
    <3>2. JobHolds(b)'
      BY <3>1 DEF JobHolds, JobTyped, JobTiers, JobRefs, JobSizes, JobTests, CheckedBy
    <3>3. JobReads(b)'
      BY <3>1 DEF JobReads
    <3> QED
      BY <3>2, <3>3
  <2>2. \A j \in Jobs : hubJobs'[j].pc = "idle"
    BY <1>7, HubIdle
  <2> QED
    BY <1>7, <2>1, <2>2 DEF HubJobsHold, ReadsAreFresh, Unborn
<1>10. RowsHold'
  <2>1. \A x, t : KnownAs(x, t) => KnownAs(x, t)'
    BY <1>1 DEF KnownAs
  <2>2. \A x : Lives(x) => Lives(x)'
    BY <1>1 DEF Lives
  <2> QED
    BY <1>1, <1>2, <1>6, <2>1, <2>2 DEF RowsHold
<1>11. SizesAgree' /\ Hub!ReadyModelWasTested'
  BY <1>1 DEF HubInv, SizesAgree, SameSize, Hub!ReadyModelWasTested
<1>12. Hub!RunsTheSelection'
  <2> SUFFICES ASSUME NEW t \in settled' PROVE running'[t] = Hub!Client(t, Hub!Selected(t))'
    BY DEF Hub!RunsTheSelection
  <2>1. t \in HubTiers /\ Hub!Buildable(t, Hub!Selected(t))
    BY <1>1, <1>2
  <2>2. Hub!Client(t, Hub!Selected(t))' = Hub!Client(t, Hub!Selected(t))
    BY <1>1, ReadsOn DEF Hub!Client
  <2> QED
    BY <1>5, <1>6, <2>1, <2>2
<1> QED
  BY <1>8, <1>9, <1>10, <1>11, <1>12 DEF HubInv

-----------------------------------------------------------------------------
(* ModelHub: the invariant, and what it says. *)

(* A process starts on the models it finds, with nothing selected.         *)
LEMMA HubInit == Hub!Init => HubInv
<1> SUFFICES ASSUME Hub!Init PROVE HubInv
  OBVIOUS
<1>1. /\ models \in Found /\ chains = <<>> /\ serving = [t \in HubTiers |-> Hub!Disabled]
      /\ running = [t \in HubTiers |-> <<>>] /\ hubJobs = [j \in Jobs |-> Hub!Idle]
      /\ issued = DOMAIN models /\ raced = {} /\ overtaken = {} /\ drifted = {}
      /\ proof = [m \in {m \in DOMAIN models : models[m].status = "ready"} |->
                    Hub!SettingsOf(models[m])]
      /\ settled = HubTiers
  BY HubHelpers DEF Hub!Init, HubTiers
<1>2. DOMAIN models \subseteq Models /\ models \in [DOMAIN models -> Hub!ModelRows]
  BY <1>1, HubConstants
<1>3. Hub!Disabled \in Selections /\ Hub!Disabled.target = None /\ Hub!Disabled.mode = "disabled"
  BY DEF Hub!Disabled, Selections, Targets
<1>4. /\ serving \in [HubTiers -> Selections] /\ running \in [HubTiers -> Seq(RowCopies)]
      /\ \A t \in HubTiers : /\ serving[t].target = None /\ serving[t].mode = "disabled"
                             /\ running[t] = <<>>
  BY <1>1, <1>3
<1>5. hubJobs \in [Jobs -> HubJobs] /\ \A j \in Jobs : hubJobs[j] = Hub!Idle
  BY <1>1, HubIdle
<1>6. DOMAIN chains = {} /\ chains \in [DOMAIN chains -> ChainRows]
  BY <1>1
<1>7. HubTyped
  BY <1>1, <1>2, <1>4, <1>5, <1>6 DEF HubTyped
<1>8. HubJobsHold /\ ReadsAreFresh /\ Unborn
  BY <1>5, HubIdle DEF HubJobsHold, ReadsAreFresh, Unborn
<1>9. RowsHold /\ SizesAgree
  <2>1. \A t \in HubTiers : KnownAs(None, t) /\ Lives(None)
    BY <1>2, <1>6, HubConstants DEF KnownAs, Lives
  <2> QED
    BY <1>4, <1>6, <2>1 DEF RowsHold, SizesAgree
<1>10. Hub!ReadyModelWasTested
  BY <1>1 DEF Hub!ReadyModelWasTested, Hub!SettingsOf
<1>11. Hub!RunsTheSelection
  <2> SUFFICES ASSUME NEW t \in HubTiers PROVE running[t] = Hub!Client(t, Hub!Selected(t))
    BY <1>1 DEF Hub!RunsTheSelection
  <2>1. Hub!Listed(t) = <<>>
    BY <1>4 DEF Hub!Listed
  <2>2. Hub!Selected(t) = <<>>
    BY <2>1, CopiesOfNone DEF Hub!Selected
  <2> QED
    BY <1>4, <2>2 DEF Hub!Client
<1> QED
  BY <1>7, <1>8, <1>9, <1>10, <1>11 DEF HubInv

(* Every step of the hub keeps the invariant.                              *)
LEMMA HubNext == HubInv /\ [Hub!Next]_Hub!vars => HubInv'
<1> SUFFICES ASSUME HubInv, [Hub!Next]_Hub!vars PROVE HubInv'
  OBVIOUS
<1>1. CASE UNCHANGED Hub!vars
  <2>1. UNCHANGED <<models, chains, serving, running, hubJobs, issued, raced, proof,
                    overtaken, drifted, settled>>
    BY <1>1 DEF Hub!vars, Hub!rows, Hub!history
  <2> QED
    BY <2>1, HubRests
<1>2. ASSUME NEW m \in Models, NEW u \in BOOLEAN, NEW t \in HubTiers, Hub!CreateModel(m, t, u)
      PROVE  HubInv'
  BY <1>2, CreateModelKeeps
<1>3. ASSUME NEW m \in Models, NEW u \in BOOLEAN, NEW what \in {"name", "url"},
             Hub!UpdateModel(m, what, u)
      PROVE  HubInv'
  BY <1>3, UpdateModelKeeps
<1>4. ASSUME NEW m \in Models, Hub!DeleteModel(m) PROVE HubInv'
  BY <1>4, DeleteModelKeeps
<1>5. ASSUME NEW c \in Chains, Hub!DeleteChain(c) \/ Hub!Toggle(c) PROVE HubInv'
  BY <1>5, DeleteChainKeeps, ToggleKeeps
<1>6. ASSUME NEW j \in Jobs, Hub!TestModel(j) \/ Hub!TestChain(j) \/ Hub!TestReads(j) PROVE HubInv'
  BY <1>6, TestsKeep, TestReadsKeeps
<1>7. ASSUME NEW j \in Jobs, NEW d \in Dims,
             Hub!TestRecords(j, "ready", d) \/ Hub!TestRecords(j, "error", d)
      PROVE  HubInv'
  BY <1>7, TestRecordsKeeps
<1>8. ASSUME NEW j \in Jobs, NEW c \in Chains, NEW t \in HubTiers, NEW l \in Lists,
             Hub!AskChain(j, c, t, l)
      PROVE  HubInv'
  BY <1>8, AskChainKeeps
<1>9. ASSUME NEW j \in Jobs, Hub!CheckMember(j) \/ Hub!SaveChain(j) \/ Hub!RejectChain(j)
      PROVE  HubInv'
  BY <1>9, CheckMemberKeeps, SaveChainKeeps, QuitsKeeps DEF Hub!RejectChain
<1>10. ASSUME NEW j \in Jobs, NEW t \in HubTiers, NEW x \in Targets,
              NEW mode \in {"disabled", "single", "chain"}, Hub!PutServing(j, t, mode, x)
       PROVE  HubInv'
  BY <1>10, PutServingKeeps
<1>11. ASSUME NEW j \in Jobs,
              \/ Hub!SetServing(j) \/ Hub!Select(j) \/ Hub!Resolve(j)
              \/ Hub!ReadMember(j) \/ Hub!Swap(j)
       PROVE  HubInv'
  BY <1>11, SetServingKeeps, SelectKeeps, ResolveKeeps, ReadMemberKeeps, SwapKeeps
<1>12. CASE Hub!Restart
  BY <1>12, RestartKeeps
<1>13. CASE Hub!Quiet
  BY <1>1, <1>13 DEF Hub!Quiet
<1>14. Hub!ToSet(Tiers) = HubTiers /\ Targets = Models \cup Chains \cup {None}
  BY HubHelpers DEF HubTiers, Targets
<1> QED
  BY <1>1, <1>2, <1>3, <1>4, <1>5, <1>6, <1>7, <1>8, <1>9, <1>10, <1>11, <1>12, <1>13, <1>14
     DEF Hub!Next

(* What the runs check of it.                                              *)
LEMMA HubIsRight ==
  HubInv => /\ Hub!TypeOK /\ Hub!DanglesOnlyByRace /\ Hub!TiersNeverMix /\ Hub!OneDimension
            /\ Hub!RunsTheSelection /\ Hub!ReadyModelWasTested
<1> SUFFICES ASSUME HubInv
             PROVE  /\ Hub!TypeOK /\ Hub!DanglesOnlyByRace /\ Hub!TiersNeverMix
                    /\ Hub!OneDimension
  BY DEF HubInv
<1>1. ASSUME NEW c \in DOMAIN chains
      PROVE  /\ c \in Chains /\ chains[c].members \in Seq(Models)
             /\ Hub!ToSet(chains[c].members) = ToSet(chains[c].members)
             /\ ToSet(chains[c].members) \subseteq Models
  <2>1. c \in Chains /\ chains[c].members \in Seq(Models)
    BY DEF HubInv, HubTyped, ChainRows
  <2>2. PICK list \in Seq(Models) : list = chains[c].members
    BY <2>1
  <2>3. ToSet(list) \subseteq Models
    BY DEF ToSet
  <2> QED
    BY <2>1, <2>2, <2>3, HubHelpers
<1>2. DOMAIN serving = HubTiers /\ DOMAIN running = HubTiers
  BY DEF HubInv, HubTyped
<1>3. Hub!TypeOK
  BY <1>1, <1>2 DEF Hub!TypeOK, HubInv, HubTyped, Selections
<1>4. Hub!DanglesOnlyByRace
  <2>1. ASSUME NEW c \in DOMAIN chains, NEW m \in ToSet(chains[c].members)
        PROVE  m \in DOMAIN models \cup raced
    <3>1. m \in Models /\ Lives(m)
      BY <1>1, <2>1 DEF HubInv, RowsHold
    <3>2. m # None /\ m \notin DOMAIN chains
      BY <3>1, HubConstants DEF HubInv, HubTyped
    <3> QED
      BY <3>1, <3>2 DEF Lives
  <2>2. \A t \in HubTiers : serving[t].target \in DOMAIN models \cup DOMAIN chains \cup raced \cup {None}
    BY DEF HubInv, RowsHold, Lives
  <2> QED
    BY <1>1, <1>2, <2>1, <2>2 DEF Hub!DanglesOnlyByRace
<1>5. Hub!TiersNeverMix
  <2>1. ASSUME NEW c \in DOMAIN chains, NEW m \in ToSet(chains[c].members) \cap DOMAIN models
        PROVE  models[m].tier = chains[c].tier
    BY DEF HubInv, RowsHold, KnownAs
  <2>2. \A t \in HubTiers : \A i \in DOMAIN running[t] : running[t][i].row.tier = t
    BY DEF HubInv, RowsHold
  <2> QED
    BY <1>1, <1>2, <2>1, <2>2 DEF Hub!TiersNeverMix
<1>6. Hub!OneDimension
  <2> SUFFICES ASSUME NEW c \in DOMAIN chains, Hub!ToSet(chains[c].members) \cap drifted = {}
               PROVE  ~(Cardinality({models[m].dim :
                             m \in Hub!ToSet(chains[c].members) \cap DOMAIN models} \ {0}) > 1)
    BY HubHelpers DEF Hub!OneDimension
  <2> DEFINE S == {models[m].dim : m \in Hub!ToSet(chains[c].members) \cap DOMAIN models} \ {0}
  <2>1. ASSUME NEW a \in S, NEW b \in S PROVE a = b
    <3>1. PICK m \in Hub!ToSet(chains[c].members) \cap DOMAIN models : a = models[m].dim /\ a # 0
      OBVIOUS
    <3>2. PICK n \in Hub!ToSet(chains[c].members) \cap DOMAIN models : b = models[n].dim /\ b # 0
      OBVIOUS
    <3>3. SameSize(m, n)
      BY <1>1 DEF HubInv, SizesAgree
    <3> QED
      BY <3>1, <3>2, <3>3 DEF SameSize
  <2> HIDE DEF S
  <2>2. ~(Cardinality(S) > 1)
    BY <2>1, OneIsNotMore
  <2> QED
    BY <2>2 DEF S
<1> QED
  BY <1>3, <1>4, <1>5, <1>6

-----------------------------------------------------------------------------
(* Both, side by side. *)

SideInv == StudioInv /\ (side = "hub" => HubInv)

(* The invariant of the workspace and of the hub holds of every behaviour. *)
LEMMA SidesHold == AllSpec => []SideInv
<1>1. AllInit => SideInv
  <2> SUFFICES ASSUME AllInit PROVE SideInv
    OBVIOUS
  <2>1. StudioInv
    BY StudioInit DEF AllInit
  <2>2. side = "hub" => HubInv
    BY HubInit DEF AllInit
  <2> QED
    BY <2>1, <2>2 DEF SideInv
<1>2. SideInv /\ [AllNext]_<<side, vars, hub, sample>> => SideInv'
  <2> SUFFICES ASSUME SideInv, [AllNext]_<<side, vars, hub, sample>> PROVE SideInv'
    OBVIOUS
  <2>1. [Next]_vars /\ side' = side
    BY DEF AllNext
  <2>2. side = "hub" => [Hub!Next]_Hub!vars
    BY DEF AllNext, hub, Hub!vars, Hub!rows, Hub!history
  <2> QED
    BY <2>1, <2>2, StudioNext, HubNext DEF SideInv
<1> QED
  BY <1>1, <1>2, PTL DEF AllSpec

(* Every row and every request is what its table and its kind say.         *)
THEOREM TypesHold == AllSpec => []Types
<1>1. SideInv => Types
  BY StudioIsRight, HubIsRight DEF SideInv, Types
<1> QED
  BY <1>1, SidesHold, PTL

(* A stored paper is of sources of its selection, a report has one row of  *)
(* a key, and an answer is of what its request read (studio and notes).    *)
THEOREM WorkIsOfItsInput == AllSpec => []WorkOfItsInput
<1>1. SideInv => WorkOfItsInput
  BY StudioIsRight DEF SideInv
<1> QED
  BY <1>1, SidesHold, PTL

(* Whatever overlaps, a chain or a selection dangles by a race only, never *)
(* mixes the tiers, and mixes two vector sizes only when one was detected  *)
(* after it was checked (model_hub).                                       *)
THEOREM ChainsHold == AllSpec => []ChainsAreSound
<1>1. SideInv => ChainsAreSound
  BY HubIsRight DEF SideInv, ChainsAreSound
<1> QED
  BY <1>1, SidesHold, PTL

(* A tier that was applied since the rows last changed runs what its       *)
(* selection stands for, and a ready model was tested under its name       *)
(* (apply_serving_configuration, test_model).                              *)
THEOREM HubHolds == AllSpec => []HubIsAsItSays
<1>1. SideInv => HubIsAsItSays
  BY HubIsRight DEF SideInv, HubIsAsItSays
<1> QED
  BY <1>1, SidesHold, PTL

(* Only a refresh, or a request that was writing the same paper when the   *)
(* first was stored, replaces a stored paper (notes).                      *)
THEOREM StoredPapersStay == AllSpec => StoredPaperStays
<1> DEFINE Replaced ==
      \A p \in Papers : \A sel \in DOMAIN shelf[p] :
        shelf'[p][sel] # shelf[p][sel] =>
          \/ <<p, sel>> \in rivals
          \/ \E j \in Jobs : jobs[j].refresh /\ jobs[j].what = p /\ jobs[j].sel = sel
<1>1. SideInv /\ [AllNext]_<<side, vars, hub, sample>> => [Replaced]_vars
  <2> SUFFICES ASSUME SideInv, [AllNext]_<<side, vars, hub, sample>> PROVE Replaced
    OBVIOUS
  <2>1. [Next]_vars
    BY DEF AllNext
  <2> QED
    BY <2>1, StoredPaperStep DEF SideInv
<1> QED
  BY <1>1, SidesHold, PTL DEF AllSpec, StoredPaperStays
=============================================================================
