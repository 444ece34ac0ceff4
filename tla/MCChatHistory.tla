--------------------------- MODULE MCChatHistory ----------------------------
(* TLC instances of what SQLite keeps, side by side: ChatHistory in use,        *)
(* ProjectLibrary in use, an older chat.db that is upgraded (ChatMigration), and *)
(* an older report table that is upgraded (ReportUpgrade).                      *)
EXTENDS ChatHistory, TLC

CONSTANTS MaxMessages,         \* bound: messages ever written to the older file
          third,               \* a request that is not in Procs
          Sources, Repos,      \* sources, and those that are GitHub sources
          ToolProjects, ReportRows, ReportSources, Blank

VARIABLES side,
          live, cards, members, tool, cardIds, lpc, lreq, torn, lcrashes,
          table, legacy, clock, upc, ureq, stored, told, interrupted, overlapped,
          ufaults, ucrashes,
          main, spare, rpc, rreq, kept, cut, beside, rcrashes

Upgraders == Procs \cup {third}
FoundReports == SUBSET [id : ReportRows, source : {Blank}]
Cards == {"create", "attach", "detach", "drop", "list", "ingest", "delete"}

\* Two projects without the choice of a tool's source, and one with it: the choice
\* reads and writes nothing of another project.
Library == INSTANCE ProjectLibrary
             WITH Ops <- [p \in Procs |-> Cards],
                  projects <- cards, issued <- cardIds, pc <- lpc, req <- lreq,
                  crashes <- lcrashes
Tools == INSTANCE ProjectLibrary
           WITH Ops <- [p \in Procs |-> Cards \cup {"tool"}], Projects <- ToolProjects, MaxCrashes <- 0,
                projects <- cards, issued <- cardIds, pc <- lpc, req <- lreq,
                crashes <- lcrashes
Migration == INSTANCE ChatMigration
               WITH Procs <- Upgraders, pc <- upc, req <- ureq,
                    faults <- ufaults, crashes <- ucrashes
Upgrade == INSTANCE ReportUpgrade
             WITH Sources <- ReportSources, Found <- FoundReports,
                  pc <- rpc, req <- rreq, crashes <- rcrashes
ASSUME InstanceAssumptions ==
  /\ Library!OpsAssumption /\ Library!ReposAssumption /\ Library!NoneAssumption
  /\ Tools!OpsAssumption /\ Tools!NoneAssumption
  /\ Migration!UpgradeBounds /\ Upgrade!UpgradeAssumption

library == <<live, cards, members, tool, cardIds, lpc, lreq, torn, lcrashes>>
migrating == <<table, legacy, clock, upc, ureq, stored, told, interrupted, overlapped,
               ufaults, ucrashes>>
upgrading == <<main, spare, rpc, rreq, kept, cut, beside, rcrashes>>

NoLibrary == /\ live = {} /\ cards = {} /\ members = {} /\ tool = <<>> /\ cardIds = {}
             /\ lpc = <<>> /\ lreq = <<>> /\ torn = {} /\ lcrashes = 0
NoFile == /\ table = None /\ legacy = None /\ clock = 0 /\ stored = {} /\ told = <<>>
          /\ upc = <<>> /\ ureq = <<>> /\ interrupted = FALSE /\ overlapped = FALSE
          /\ ufaults = 0 /\ ucrashes = 0
NoTable == /\ main = None /\ spare = None /\ rpc = <<>> /\ rreq = <<>>
           /\ kept = {} /\ cut = FALSE /\ beside = FALSE /\ rcrashes = 0

AllInit == Init /\ \/ side = "history" /\ NoLibrary /\ NoFile /\ NoTable
                   \/ side = "library" /\ Library!Init /\ NoFile /\ NoTable
                   \/ side = "tools" /\ Tools!Init /\ NoFile /\ NoTable
                   \/ side = "chat" /\ NoLibrary /\ Migration!Init /\ NoTable
                   \/ side = "reports" /\ NoLibrary /\ NoFile /\ Upgrade!Init
AllNext ==
  /\ UNCHANGED side
  /\ \/ side = "history" /\ Next /\ UNCHANGED <<library, migrating, upgrading>>
     \/ side = "library" /\ Library!Next /\ UNCHANGED <<vars, migrating, upgrading>>
     \/ side = "tools" /\ Tools!Next /\ UNCHANGED <<vars, migrating, upgrading>>
     \/ side = "chat" /\ Migration!Next /\ UNCHANGED <<vars, library, upgrading>>
     \/ side = "reports" /\ Upgrade!Next /\ UNCHANGED <<vars, library, migrating>>
AllSpec == AllInit /\ [][AllNext]_<<side, vars, library, migrating, upgrading>>

(* TypeOK of each. *)
Types == CASE side = "history" -> TypeOK
           [] side = "library" -> Library!TypeOK
           [] side = "tools" -> Tools!TypeOK
           [] side = "chat" -> Migration!TypeOK
           [] side = "reports" -> Upgrade!TypeOK

(* No row outlives the row it belongs to, in either database: a message its *)
(* session, a session its project, a source on a card its project, but for  *)
(* the races and the failed purge that each of the three names.             *)
RowsHaveTheirParent ==
  /\ MessagesHaveSession /\ OrphansOnlyByRace
  /\ side = "library" => Library!MembersHaveProject

(* ToolStaysInProject and PruneKeepsLive of ProjectLibrary. *)
ToolStaysInProject == side = "tools" => Tools!ToolStaysInProject
PruneKeepsLive == [][side = "library" => Library!PrunesTheGone]_library

(* An upgrade of either table, by several requests at once and with a restart, *)
(* keeps every row: NothingLost of ChatMigration, RowsArePreserved of           *)
(* ReportUpgrade.                                                               *)
UpgradesLoseNothing ==
  /\ side = "chat" => Migration!NothingLost
  /\ side = "reports" => Upgrade!RowsArePreserved

(* What was once in a session, or shown of it, stays first in it, in use and   *)
(* from one version of the program to the next: HistoryAppendOnly, and          *)
(* ReadsGrow of ChatMigration.                                                  *)
HistoryGrows == [][Appends /\ Migration!ShownFirst]_<<vars, migrating>>

(* HistoryIsKept of ChatMigration. *)
HistoryIsKept == side = "chat" => Migration!HistoryIsKept

Symmetry ==
  Permutations(Procs) \cup Permutations(Projects) \cup Permutations(Sessions)
    \cup Permutations(Messages)
=============================================================================
