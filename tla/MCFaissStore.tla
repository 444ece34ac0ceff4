---------------------------- MODULE MCFaissStore ----------------------------
(* TLC instances of FaissStore: which requests run side by side. *)
EXTENDS FaissStore, TLC

CONSTANTS p1, p2, s1, s2

Anything == [p \in Procs |-> Kinds]
OneWriter == (p1 :> {"add", "delete", "reload", "clear"}) @@ (p2 :> {"search"})
DeletesAndSearch == (p1 :> {"delete"}) @@ (p2 :> {"search"})

\* Once tainted, a behaviour stays tainted and Aligned says nothing of it: it
\* is followed only as far as a listing that was taken in repairs what it sees.
Followed == ~tainted \/ \E p \in Procs : op[p].kind = "info" /\ pc[p] # "idle"

Symmetry == Permutations(Procs) \cup Permutations(Sources)
=============================================================================
