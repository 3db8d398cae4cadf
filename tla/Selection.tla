------------------------------ MODULE Selection ------------------------------
(***************************************************************************)
(* What Array.prototype.filter() computes: the elements of a sequence that *)
(* are in a set, in their order.  It is SelectSeq for a test that is a     *)
(* set; the components whose proofs look into it use this definition,      *)
(* because the provers know nothing of SelectSeq.                          *)
(***************************************************************************)
EXTENDS Naturals, Sequences

\* What is kept of an element.
KeptOf(x, T) == IF x \in T THEN << x >> ELSE << >>

Among(s, T) ==
  LET kept[i \in 0 .. Len(s)] == IF i = 0 THEN << >> ELSE kept[i - 1] \o KeptOf(s[i], T)
  IN  kept[Len(s)]

=============================================================================
