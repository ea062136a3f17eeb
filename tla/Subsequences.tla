---------------------------- MODULE Subsequences ----------------------------
(***************************************************************************)
(* Array.filter, by the places it keeps: SelectSeq of the standard module, *)
(* as a recursive function, which the provers can reason about.            *)
(***************************************************************************)
EXTENDS Naturals, Sequences

\* The elements of s at some of its places, in order.
Kept(s, places) ==
    LET kept[i \in 0 .. Len(s)] ==
            IF i = 0 THEN << >>
            ELSE IF i \in places THEN Append(kept[i - 1], s[i]) ELSE kept[i - 1]
    IN  kept[Len(s)]

=============================================================================
