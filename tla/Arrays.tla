------------------------------- MODULE Arrays -------------------------------
(***************************************************************************)
(* What the code does with arrays, written as functions of numbers so that *)
(* a proof can unfold them.                                                *)
(***************************************************************************)
EXTENDS Naturals, Sequences

\* filter: the members of a sequence that are in S, in their order.
Kept(s, S) ==
  LET kept[n \in 0 .. Len(s)] ==
        IF n = 0 THEN <<>>
        ELSE IF s[n] \in S THEN Append(kept[n - 1], s[n]) ELSE kept[n - 1]
  IN  kept[Len(s)]
=============================================================================
