----------------------------- MODULE Subsequence -----------------------------
(***************************************************************************)
(* A sequence filtered by index, as a recursive function: what SelectSeq   *)
(* is for the elements alone, in a form that can be reasoned about.        *)
(***************************************************************************)
EXTENDS Naturals, Sequences

\* The elements of s at the indexes in I, in their order.
Keep(s, I) ==
  LET kept[n \in 0 .. Len(s)] ==
        IF n = 0 THEN <<>>
        ELSE IF n \in I THEN Append(kept[n - 1], s[n]) ELSE kept[n - 1]
  IN  kept[Len(s)]
=============================================================================
