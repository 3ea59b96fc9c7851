------------------------------ MODULE SeqFilter ------------------------------
(* The elements of a sequence that are in a set, in their order.  It is what   *)
(* SelectSeq selects, with a set for the test and a recursive function for the *)
(* recursion, so that proofs can use it (SeqFilterProofs).                     *)
EXTENDS Integers, Sequences

Filter(s, keep) ==
    LET kept[n \in 0 .. Len(s)] ==
            IF n = 0 THEN <<>>
            ELSE IF s[n] \in keep THEN Append(kept[n - 1], s[n]) ELSE kept[n - 1]
    IN  kept[Len(s)]
=============================================================================
