----------------------------- MODULE DenseIndex -----------------------------
(***************************************************************************)
(* What the dense store promises its callers, with no memory, file or lock *)
(* in sight: a durable set of chunks, and requests that change it in one   *)
(* step each.  A request that returns has taken effect; one that raises,   *)
(* or that a crash cuts off, has either taken effect whole or not at all.  *)
(* FaissStore is shown to implement this.                                  *)
(***************************************************************************)
CONSTANTS Procs,   \* the callers
          Chunk,   \* the chunks a caller can add, each with a source_id
          Sources, \* the source ids
          None     \* no request

VARIABLES content, \* the chunks a restart would find
          request  \* caller -> None, or the request it waits for

vars == <<content, request>>

Kinds == {"add", "delete", "clear"}

\* What content becomes when request r takes effect.
Effect(r, s) ==
  CASE r.kind = "add"    -> s \cup {r.chunk}
    [] r.kind = "delete" -> {c \in s : c.source_id # r.source}
    [] r.kind = "clear"  -> {}

Requests ==
  [kind : {"add"}, chunk : Chunk, committed : BOOLEAN]
    \cup [kind : {"delete"}, source : Sources, committed : BOOLEAN]
    \cup [kind : {"clear"}, committed : BOOLEAN]

Init == content \in SUBSET Chunk /\ request = [p \in Procs |-> None]

Call(p) ==
  /\ request[p] = None
  /\ \E r \in Requests : ~r.committed /\ request' = [request EXCEPT ![p] = r]
  /\ UNCHANGED content

Commit(p) ==
  /\ request[p] # None /\ ~request[p].committed
  /\ content' = Effect(request[p], content)
  /\ request' = [request EXCEPT ![p].committed = TRUE]

Return(p) ==
  /\ request[p] # None /\ request[p].committed
  /\ request' = [request EXCEPT ![p] = None]
  /\ UNCHANGED content

\* Taking effect and returning in one step.
Finish(p) ==
  /\ request[p] # None /\ ~request[p].committed
  /\ content' = Effect(request[p], content)
  /\ request' = [request EXCEPT ![p] = None]

\* The caller sees an exception.
Raise(p) ==
  /\ request[p] # None
  /\ request' = [request EXCEPT ![p] = None]
  /\ UNCHANGED content

Crash == request' = [p \in Procs |-> None] /\ UNCHANGED content

Next ==
  \/ Crash
  \/ \E p \in Procs : Call(p) \/ Commit(p) \/ Return(p) \/ Finish(p) \/ Raise(p)

Spec == Init /\ [][Next]_vars
=============================================================================
