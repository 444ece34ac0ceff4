------------------------------ MODULE ChatClient ------------------------------
(***************************************************************************)
(* One browser tab of a project's workspace: the thread it shows and the   *)
(* session it is bound to (hooks/useChat.js, hooks/useChatSessions.js and  *)
(* streamQuery of services/api.js), over the rows the chat service keeps.  *)
(*                                                                         *)
(* A turn is a coroutine: it saves the user's row, streams an answer, and  *)
(* asks once more without a stream if that fails.  Callbacks run to their  *)
(* next await; requests on the network overtake each other.  The effects   *)
(* of a render run after the step that caused it, perhaps with others in   *)
(* between.  Text is abstracted to the status of a row, and to "blank" for *)
(* a finished answer without a word.                                       *)
(***************************************************************************)
EXTENDS Naturals, Sequences, FiniteSets, SequencesExt, Subsequence

CONSTANTS MaxTurns,     \* bound: questions sent, numbered in this order
          Fresh,        \* bound: sessions the tab may create
          MaxEvents     \* bound: questions, new chats, listings after the first
                        \* and requests that fail, together

\* No session; and the one the project had before, with one turn in it.
NoSession == 0
Old == 1
OldTurn == 0

ClientAssumption ==
    /\ {MaxTurns, MaxEvents} \subseteq Nat
    /\ Fresh \subseteq Nat \ {NoSession, Old} /\ IsFiniteSet(Fresh)

Turns == 1..MaxTurns
Roles == {"user", "assistant"}
Saves == Turns \X Roles

VARIABLES active,     \* activeSessionId
          rendered,   \* the activeSessionId the effects last ran for
          bound,      \* sessionRef.current
          loaded,     \* loadedSessionsRef: sessions whose thread is in memory
          thread,     \* messages: the rows on screen, as <<turn, role>>
          rail,       \* the turn whose sources and confidence are shown, or 0
          streaming,  \* isStreaming
          control,    \* the turn whose controller is in abortRef, or 0
          pc,         \* turn -> where its coroutine stands
          posts,      \* <<turn, role>> -> its persist: [at, to]
          aborted,    \* turns whose stream was aborted
          fetch,      \* the getChatSession that still counts: [at, of, had, rows]
          listing,    \* the listChatSessions under way: [at, ids]
          creating,   \* sessions being created
          ensured,    \* creatingRef: the one of them that sends wait for
          sessions,   \* the project's sessions on the server
          rows,       \* its chat_messages in order: [id, session, status]
          patches,    \* updateChatMessage calls under way: <<turn, status>>
          \* history
          left,       \* turns under way when their session or thread was left
          overtaken,  \* turns a patch of which found no row
          hurt,       \* turns one of whose rows or patches was lost
          parted,     \* a thread was replaced or kept against what is saved
          outlisted,  \* a listing older than the active session replaced it
          lazily,     \* sessions that sends opened
          events      \* what MaxEvents bounds

tab == <<active, rendered, bound, loaded, thread, rail, streaming, control>>
turn == <<pc, posts, aborted>>
calls == <<fetch, listing, creating, ensured>>
server == <<sessions, rows, patches>>
history == <<left, overtaken, hurt, parted, outlisted, lazily>>
clientVars == <<tab, turn, calls, server, history, events>>

NoSave == [at |-> "none", to |-> NoSession]
NoFetch == [at |-> "none", of |-> NoSession, had |-> {}, rows |-> <<>>]
NoListing == [at |-> "none", ids |-> {}]
RowOf(id, session, status) == [id |-> id, session |-> session, status |-> status]

Running == {t \in Turns : pc[t] \notin {"unsent", "ended"}}
Idents(t) == {<<t, role>> : role \in Roles}
RowsIn(session) == KeptOf(rows, {r \in ToSet(rows) : r.session = session})
Ids(list) == [i \in DOMAIN list |-> list[i].id]

\* The sessions of a project are listed when it is opened.
Init ==
    /\ active = NoSession /\ rendered = NoSession /\ bound = NoSession /\ loaded = {}
    /\ thread = <<>> /\ rail = 0 /\ streaming = FALSE /\ control = 0
    /\ pc = [t \in Turns |-> "unsent"] /\ posts = [s \in Saves |-> NoSave] /\ aborted = {}
    /\ fetch = NoFetch /\ listing = [at |-> "asked", ids |-> {}]
    /\ creating = {} /\ ensured = NoSession
    /\ sessions \in {{}, {Old}} /\ patches = {}
    /\ rows = IF sessions = {} THEN <<>>
              ELSE <<RowOf(<<OldTurn, "user">>, Old, "done"),
                     RowOf(<<OldTurn, "assistant">>, Old, "done")>>
    /\ left = {} /\ overtaken = {} /\ hurt = {} /\ parted = FALSE /\ outlisted = FALSE
    /\ lazily = {} /\ events = 0

Counts == events < MaxEvents /\ events' = events + 1

-----------------------------------------------------------------------------
(* Sessions (useChatSessions) *)

Spare == Fresh \ (sessions \cup creating)
\* The bound on ids leaves one for every turn that has its answer's row to save.
LeavesIds(n) == Cardinality(Spare) >= n + Cardinality({t \in Turns : pc[t] = "saving"})
\* Ids mean nothing but who is who: the next is any one that is spare.
NextId == Min(Spare)

\* The shortcut: the stream is stopped, the thread cleared, a session asked for
\* (resetChat, handleNewSession of Home.jsx).
NewChat ==
    /\ Counts
    /\ aborted' = aborted \cup ({control} \ {0}) /\ control' = 0
    /\ thread' = <<>> /\ rail' = 0
    /\ LeavesIds(1) /\ creating' = creating \cup {NextId}
    /\ left' = left \cup Running
    /\ UNCHANGED <<active, rendered, bound, loaded, streaming, pc, posts, fetch, listing, ensured,
                   server, overtaken, hurt, parted, outlisted, lazily>>

\* The server creates the session; the answer makes it the active one, and what
\* waited for it in ensureSession is saved to it.
Create(s) ==
    /\ s \in creating \ sessions /\ sessions' = sessions \cup {s}
    /\ UNCHANGED <<tab, turn, calls, rows, patches, history, events>>

\* A session whose thread is the one in memory is not fetched any more.
OwnNothing(s) == UNCHANGED loaded
Own(s) == loaded' = loaded \cup {s}

\* The turns under way in another session.
Leaving(session) == {t \in Running : posts[<<t, "user">>].to \notin {NoSession, session}}
Waiting == {x \in Saves : posts[x].at = "waiting"}
Resumed(save) == [x \in Saves |-> IF x \in Waiting THEN save ELSE posts[x]]
Created(s) ==
    /\ s \in creating \cap sessions /\ creating' = creating \ {s}
    /\ active' = s
    /\ parted' = \/ parted \/ s \in loaded
                 \/ s = rendered /\ s \notin {bound, ensured}
    /\ IF s # ensured THEN UNCHANGED <<ensured, bound, loaded, posts, left>>
       ELSE /\ ensured' = NoSession /\ left' = left \cup Leaving(s)
            /\ bound' = s /\ Own(s)
            /\ posts' = Resumed([at |-> "sent", to |-> s])
    /\ UNCHANGED <<rendered, thread, rail, streaming, control, pc, aborted, fetch, listing,
                   server, overtaken, hurt, outlisted, lazily, events>>

CreateFails(s) ==
    /\ s \in creating \ sessions /\ Counts /\ creating' = creating \ {s}
    /\ parted' = (parted \/ s # ensured)
    /\ IF s # ensured THEN UNCHANGED <<ensured, posts, hurt>>
       ELSE /\ ensured' = NoSession /\ hurt' = hurt \cup {x[1] : x \in Waiting}
            /\ posts' = Resumed([at |-> "over", to |-> NoSession])
    /\ UNCHANGED <<tab, pc, aborted, fetch, listing, server, left, overtaken, outlisted, lazily>>

\* refresh: on opening the project, and after a source is attached to it.  Which
\* of the sessions was touched last, and so is the first of the list, is left open.
Refresh ==
    /\ listing.at = "none" /\ Counts
    /\ listing' = [at |-> "asked", ids |-> {}]
    /\ UNCHANGED <<tab, turn, fetch, creating, ensured, server, history>>
List ==
    /\ listing.at = "asked" /\ listing' = [at |-> "read", ids |-> sessions]
    /\ UNCHANGED <<tab, turn, fetch, creating, ensured, server, history, events>>
Listed ==
    /\ listing.at = "read" /\ listing' = NoListing
    /\ \/ active \in listing.ids /\ UNCHANGED active
       \/ active \notin listing.ids /\ listing.ids # {} /\ active' \in listing.ids
       \/ listing.ids = {} /\ active' = NoSession
    /\ outlisted' = (outlisted \/ active \notin listing.ids \cup {NoSession})
    /\ UNCHANGED <<rendered, bound, loaded, thread, rail, streaming, control, turn, fetch, creating,
                   ensured, server, left, overtaken, hurt, parted, lazily, events>>
ListFails ==
    /\ listing.at = "asked" /\ Counts /\ listing' = NoListing
    /\ UNCHANGED <<tab, turn, fetch, creating, ensured, server, history>>

-----------------------------------------------------------------------------
(* The thread (useChat) *)

\* Where a row is saved, or is about to be.
SessionOf(id) == IF id[1] = OldTurn THEN Old ELSE posts[id].to

\* The rows on screen of turns that have a session.
Placed == {id \in ToSet(thread) : SessionOf(<<id[1], "user">>) # NoSession}

\* The effects of a render with another session: what was fetched or streamed for
\* the one before is abandoned, and the thread is cleared, kept or fetched.
Rebind ==
    /\ active # rendered /\ rendered' = active /\ bound' = active
    /\ aborted' = aborted \cup ({control} \ {0}) /\ control' = 0
    /\ left' = left \cup Leaving(active)
    /\ \/ /\ active = NoSession /\ thread' = <<>> /\ rail' = 0 /\ fetch' = NoFetch
          /\ UNCHANGED parted
       \/ /\ active \in loaded /\ fetch' = NoFetch
          /\ parted' = \/ parted
                       \/ \E i \in DOMAIN thread : SessionOf(thread[i]) \notin {NoSession, active}
                       \/ ~(ToSet(Ids(RowsIn(active))) \subseteq ToSet(thread))
          /\ UNCHANGED <<thread, rail>>
       \/ /\ active # NoSession /\ active \notin loaded
          /\ fetch' = [at |-> "asked", of |-> active, had |-> Placed, rows |-> <<>>]
          /\ UNCHANGED <<thread, rail, parted>>
    /\ UNCHANGED <<active, loaded, streaming, pc, posts, listing, creating, ensured, server,
                   overtaken, hurt, outlisted, lazily, events>>

Fetch ==
    /\ fetch.at = "asked" /\ fetch' = [fetch EXCEPT !.at = "read", !.rows = Ids(RowsIn(fetch.of))]
    /\ UNCHANGED <<tab, turn, listing, creating, ensured, server, history, events>>

Fetched ==
    /\ fetch.at = "read" /\ fetch' = NoFetch
    /\ loaded' = loaded \cup {fetch.of} /\ thread' = fetch.rows
    /\ LET answers == KeptOf(fetch.rows, {id \in ToSet(fetch.rows) : id[2] = "assistant"})
       IN  rail' = IF answers = <<>> THEN 0 ELSE Last(answers)[1]
    /\ parted' = (parted \/ ~(ToSet(thread) \subseteq ToSet(fetch.rows) \cup fetch.had))
    /\ UNCHANGED <<active, rendered, bound, streaming, control, turn, listing, creating, ensured,
                   server, left, overtaken, hurt, outlisted, lazily, events>>
FetchFails ==
    /\ fetch.at = "asked" /\ Counts /\ fetch' = NoFetch
    /\ thread' = <<>> /\ parted' = (parted \/ thread # <<>> \/ RowsIn(fetch.of) # <<>>)
    /\ UNCHANGED <<active, rendered, bound, loaded, rail, streaming, control, turn, listing, creating,
                   ensured, server, left, overtaken, hurt, outlisted, lazily>>

\* One creation serves all who wait for a session.
OpensAnother == TRUE
OpensOne == ensured = NoSession

\* persist, up to its first await: to the session at hand, or to one that
\* ensureSession asks for, once for all sends.  It takes the place of posts.
Persist(t, role) ==
    /\ IF bound # NoSession
       THEN /\ posts' = [posts EXCEPT ![<<t, role>>] = [at |-> "sent", to |-> bound]]
            /\ Own(bound) /\ UNCHANGED <<creating, ensured, lazily>>
       ELSE /\ posts' = [posts EXCEPT ![<<t, role>>] = [at |-> "waiting", to |-> NoSession]]
            /\ UNCHANGED loaded
            /\ IF ~OpensOne THEN UNCHANGED <<creating, ensured, lazily>>
               ELSE /\ Spare # {}
                    /\ creating' = creating \cup {NextId} /\ ensured' = NextId
                    /\ lazily' = lazily \cup {NextId}
    /\ UNCHANGED bound

\* sendMessage, which the form allows while nothing streams.
Send(t) ==
    /\ pc[t] = "unsent" /\ \A u \in 1..(t - 1) : pc[u] # "unsent"
    /\ ~streaming /\ Counts
    /\ LeavesIds(IF bound = NoSession /\ OpensOne THEN 2 ELSE 1)
    /\ pc' = [pc EXCEPT ![t] = "saving"]
    /\ thread' = thread \o <<<<t, "user">>, <<t, "assistant">>>> /\ rail' = 0
    /\ Persist(t, "user")
    /\ UNCHANGED <<active, rendered, streaming, control, aborted, fetch, listing, server,
                   left, overtaken, hurt, parted, outlisted>>

\* Both rows are sent without waiting for the first.
OpenAtOnce(t) ==
    /\ pc[t] = "saving" /\ posts[<<t, "user">>].at # "waiting"
    /\ pc' = [pc EXCEPT ![t] = "reading"]
    /\ Persist(t, "assistant")
    /\ streaming' = TRUE
    /\ aborted' = aborted \cup ({control} \ {0}) /\ control' = t
    /\ UNCHANGED <<active, rendered, thread, rail, fetch, listing, server,
                   left, overtaken, hurt, parted, outlisted, events>>

\* The user's row is saved, or lost: only now is the assistant's sent, without
\* waiting for it, and the stream opened in place of the one before.
Open(t) ==
    /\ pc[t] = "saving" /\ posts[<<t, "user">>].at = "over"
    /\ pc' = [pc EXCEPT ![t] = "reading"]
    /\ Persist(t, "assistant")
    /\ streaming' = TRUE
    /\ aborted' = aborted \cup ({control} \ {0}) /\ control' = t
    /\ UNCHANGED <<active, rendered, thread, rail, fetch, listing, server,
                   left, overtaken, hurt, parted, outlisted, events>>

Still == UNCHANGED <<active, rendered, bound, loaded, posts, calls, sessions, rows,
                     left, overtaken, hurt, parted, outlisted, lazily>>

\* The terminator: the evidence is on the rail by now, the answer is written back.
Done(t) ==
    /\ pc[t] = "reading" /\ t \notin aborted
    /\ \E next \in {"told", "empty"} : pc' = [pc EXCEPT ![t] = next]
    /\ patches' = patches \cup {<<t, "done">>}
    /\ rail' = t
    /\ UNCHANGED <<thread, streaming, control, aborted, events>> /\ Still

\* The answer of a stream without a terminator stays on screen only.
CloseUnsaved(t) ==
    /\ pc[t] \in {"reading", "told"} /\ t \notin aborted
    /\ pc' = [pc EXCEPT ![t] = "ended"] /\ streaming' = FALSE
    /\ UNCHANGED <<patches, thread, rail, control, aborted, events>> /\ Still

\* The stream ends after tokens, with or without a terminator.
Close(t) ==
    /\ pc[t] \in {"reading", "told"} /\ t \notin aborted
    /\ pc' = [pc EXCEPT ![t] = "ended"] /\ streaming' = FALSE
    /\ patches' = patches \cup {<<t, "done">>}
    /\ UNCHANGED <<thread, rail, control, aborted, events>> /\ Still

\* The stream was aborted, fell silent, broke, or held no token: whatever stream is
\* at hand now is stopped, and the question asked again without one.
Break(t) ==
    /\ pc[t] \in {"reading", "told", "empty"}
    /\ IF t \in aborted \/ pc[t] = "empty" THEN UNCHANGED events ELSE Counts
    /\ pc' = [pc EXCEPT ![t] = "asking"]
    /\ aborted' = aborted \cup ({control} \ {0}) /\ control' = 0
    /\ UNCHANGED <<thread, rail, streaming, patches>> /\ Still

Answered(t) ==
    /\ pc[t] = "asking"
    /\ pc' = [pc EXCEPT ![t] = "ended"] /\ streaming' = FALSE
    /\ rail' = t /\ patches' = patches \cup {<<t, "done">>}
    /\ UNCHANGED <<thread, control, aborted, events>> /\ Still
AskFails(t) ==
    /\ pc[t] = "asking" /\ Counts
    /\ pc' = [pc EXCEPT ![t] = "ended"] /\ streaming' = FALSE
    /\ patches' = patches \cup {<<t, "error">>}
    /\ UNCHANGED <<thread, rail, control, aborted>> /\ Still

-----------------------------------------------------------------------------
(* The chat service: add_message and update_message, in whatever order the    *)
(* requests arrive.                                                           *)
StatusUnset(role) == IF role = "user" THEN "done" ELSE ""
StatusOf(role) == IF role = "user" THEN "done" ELSE "streaming"
SaveRow(x) ==
    /\ posts[x].at = "sent" /\ posts' = [posts EXCEPT ![x].at = "over"]
    /\ rows' = Append(rows, RowOf(x, posts[x].to, StatusOf(x[2])))
    /\ UNCHANGED <<tab, pc, aborted, calls, sessions, patches, history, events>>
SaveFails(x) ==
    /\ posts[x].at = "sent" /\ Counts /\ posts' = [posts EXCEPT ![x].at = "over"]
    /\ hurt' = hurt \cup {x[1]}
    /\ UNCHANGED <<tab, pc, aborted, calls, server, left, overtaken, parted, outlisted, lazily>>

UpdateRow(p) ==
    LET id == <<p[1], "assistant">>
        found == {i \in DOMAIN rows : rows[i].id = id}
    IN  /\ p \in patches /\ patches' = patches \ {p}
        /\ rows' = [i \in DOMAIN rows |->
                      IF i \in found THEN [rows[i] EXCEPT !.status = p[2]] ELSE rows[i]]
        /\ overtaken' = IF found = {} THEN overtaken \cup {p[1]} ELSE overtaken
        /\ UNCHANGED <<tab, turn, calls, sessions, left, hurt, parted, outlisted, lazily, events>>
UpdateFails(p) ==
    /\ p \in patches /\ Counts /\ patches' = patches \ {p} /\ hurt' = hurt \cup {p[1]}
    /\ UNCHANGED <<tab, turn, calls, sessions, rows, left, overtaken, parted, outlisted, lazily>>

\* Nothing is under way; the user may leave it at that.
Quiet == /\ Running = {} /\ active = rendered /\ creating = {} /\ patches = {}
         /\ fetch = NoFetch /\ listing = NoListing
         /\ \A x \in Saves : posts[x].at \in {"none", "over"}
Rest == Quiet /\ UNCHANGED clientVars

ClientNext ==
    \/ Rest \/ NewChat \/ Refresh \/ List \/ Listed \/ ListFails
    \/ Rebind \/ Fetch \/ Fetched \/ FetchFails
    \/ \E s \in Fresh : Create(s) \/ Created(s) \/ CreateFails(s)
    \/ \E t \in Turns : \/ Send(t) \/ Open(t) \/ Done(t) \/ Close(t)
                        \/ Break(t) \/ Answered(t) \/ AskFails(t)
    \/ \E x \in Saves : SaveRow(x) \/ SaveFails(x)
    \/ \E p \in patches : UpdateRow(p) \/ UpdateFails(p)

ClientSpec == Init /\ [][ClientNext]_clientVars

-----------------------------------------------------------------------------
(* Properties *)

\* What the variables of the hooks and the rows of the service may hold.
ClientTypeOK ==
    /\ {active, rendered, bound, ensured} \subseteq Fresh \cup {NoSession, Old}
    /\ loaded \cup creating \cup lazily \subseteq Fresh \cup {Old}
    /\ rail \in 0..MaxTurns /\ control \in 0..MaxTurns /\ streaming \in BOOLEAN
    /\ pc \in [Turns -> {"unsent", "saving", "reading", "told", "empty", "asking", "ended"}]
    /\ \A x \in Saves : posts[x].at \in {"none", "waiting", "sent", "over"}
    /\ left \cup overtaken \cup hurt \cup aborted \subseteq Turns
    /\ \A i \in DOMAIN rows : /\ rows[i].session \in sessions
                             /\ rows[i].status \in {"done", "streaming", "error"}

Settled(t) == /\ pc[t] = "ended" /\ \A p \in patches : p[1] # t
              /\ \A role \in Roles : posts[<<t, role>>].at = "over"

\* What is saved of a turn is a question followed by its answer, and the answer is
\* a finished one once the turn is, unless a request of the turn was lost or a
\* patch arrived before the row it was meant for (the placeholder is not awaited).
\* Both are in one session, unless that was left while the question was being saved:
\* the answer goes to the session at hand then.
TurnsAreWhole ==
    /\ \A i, j \in DOMAIN rows : i < j /\ rows[i].id[1] = rows[j].id[1] =>
         /\ rows[i].id[2] = "user" /\ rows[j].id[2] = "assistant"
         /\ rows[i].session = rows[j].session \/ rows[i].id[1] \in left
    /\ \A t \in Turns \ (hurt \cup overtaken) : Settled(t) =>
         \E i \in DOMAIN rows : rows[i].id = <<t, "assistant">> /\ rows[i].status # "streaming"

\* When nothing is under way, what is on screen is what a reload would show: the
\* rows of the session, and the evidence of an answer among them, unless a row was
\* lost, a thread was replaced or kept though it was another one, or the answer
\* came after its thread was left.
ScreenIsTheThread ==
    Quiet /\ hurt = {} /\ ~parted /\ ~outlisted =>
      /\ \A id \in {x \in ToSet(thread) \cup ToSet(Ids(rows)) : x[1] \notin left} :
           id \in ToSet(thread) <=> id \in ToSet(Ids(RowsIn(active)))
      /\ ~streaming
      /\ rail = 0 \/ <<rail, "assistant">> \in ToSet(thread) \/ rail \in left

\* Two sends open one session between them, unless the first could not be opened
\* or a listing that was read before it unbound the tab again.
OneLazySession == hurt = {} /\ ~outlisted => Cardinality(lazily) <= 1
=============================================================================
