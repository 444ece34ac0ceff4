----------------------------- MODULE Subsequence -----------------------------
(* The part of a sequence a set picks out, in order: SelectSeq with a set for *)
(* its test, by a function of how far it has come.                            *)
EXTENDS Naturals, Sequences

KeptOf(s, S) ==
    LET kept[n \in 0..Len(s)] ==
          IF n = 0 THEN <<>>
          ELSE IF s[n] \in S THEN Append(kept[n - 1], s[n]) ELSE kept[n - 1]
    IN  kept[Len(s)]
=============================================================================
