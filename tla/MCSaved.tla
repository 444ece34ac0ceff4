------------------------------- MODULE MCSaved --------------------------------
(* TLC instances of Bm25Index (two chunks of two sources) and of ChatClient (two *)
(* questions), side by side: what was acknowledged or shown, and what is saved.  *)
EXTENDS Bm25Index, TLC

CONSTANTS p1, p2, c1, c2, s1, s2, MaxTurns, Fresh, MaxEvents

VARIABLES side,
          active, rendered, bound, loaded, thread, rail, streaming, control, turns, posts, aborted,
          fetch, listing, creating, ensured, sessions, messages, patches,
          left, overtaken, hurt, parted, outlisted, lazily, events

TwoSources == (c1 :> s1) @@ (c2 :> s2)
Anything == [p \in Procs |-> Kinds]

Tab == INSTANCE ChatClient WITH pc <- turns, rows <- messages
ASSUME ClientAssumption == Tab!ClientAssumption
client == <<active, rendered, bound, loaded, thread, rail, streaming, control, turns, posts, aborted,
            fetch, listing, creating, ensured, sessions, messages, patches,
            left, overtaken, hurt, parted, outlisted, lazily, events>>

NoTab == /\ active = 0 /\ rendered = 0 /\ bound = 0 /\ loaded = {} /\ thread = <<>> /\ rail = 0
         /\ streaming = FALSE /\ control = 0 /\ turns = <<>> /\ posts = <<>> /\ aborted = {}
         /\ fetch = <<>> /\ listing = <<>> /\ creating = {} /\ ensured = 0
         /\ sessions = {} /\ messages = <<>> /\ patches = {} /\ left = {} /\ overtaken = {}
         /\ hurt = {} /\ parted = FALSE /\ outlisted = FALSE /\ lazily = {} /\ events = 0

AllInit == /\ Init
           /\ \/ side = "index" /\ NoTab
              \/ side = "tab" /\ Tab!Init /\ acked = {}
AllNext == /\ UNCHANGED side
           /\ \/ side = "index" /\ Next /\ UNCHANGED client
              \/ side = "tab" /\ Tab!ClientNext /\ UNCHANGED vars
AllSpec == AllInit /\ [][AllNext]_<<side, vars, client>>

\* Once a thread was parted from what is saved, or the list from what is active,
\* a tab stays so, and ScreenIsTheThread and OneLazySession say nothing of it.
Followed == ~parted /\ ~outlisted

(* TypeOK of both. *)
Types == (side = "index" => TypeOK) /\ (side = "tab" => Tab!ClientTypeOK)

(* A turn is saved whole, in order, and with no more sessions than it takes:     *)
(* TurnsAreWhole and OneLazySession of ChatClient.                               *)
TurnsAreSaved == side = "tab" => Tab!TurnsAreWhole /\ Tab!OneLazySession

(* What a tab shows at rest is what a reload would: ScreenIsTheThread.           *)
ScreenIsTheThread == side = "tab" => Tab!ScreenIsTheThread

ProcSymmetry == Permutations(Procs)
=============================================================================
