------------------------------ MODULE LineGate ------------------------------
(***************************************************************************)
(* What LineByLineInput promises its reader: the characters arrive in      *)
(* order, each once, and after the end of a line nothing more arrives      *)
(* until the reader asks for the next line, or for everything.             *)
(***************************************************************************)
EXTENDS Naturals, Sequences, SequencesExt

CONSTANT Newlines   \* the sequences of characters that end a line

VARIABLES
  sent,  \* the characters of the original input
  got,   \* the ones the reader has
  asked  \* "nothing", a "line" or "everything"

vars == << sent, got, asked >>

Init == sent = << >> /\ got = << >> /\ asked = "line"

\* More input arrives.
Send == IsStrictPrefix(sent, sent') /\ UNCHANGED << got, asked >>

\* The characters the reader gets in a step.
New == SubSeq(got', Len(got) + 1, Len(got'))

\* The reader gets text of a line, or the end of it.
DeliverLine ==
  /\ asked = "line"
  /\ IsStrictPrefix(got, got') /\ IsPrefix(got', sent)
  /\ IF New \in Newlines THEN asked' = "nothing"
     ELSE /\ UNCHANGED asked
          /\ \A i \in 1 .. Len(New) : << New[i] >> \notin Newlines
  /\ UNCHANGED sent

\* The reader gets whatever there is.
DeliverAll ==
  /\ asked = "everything"
  /\ IsStrictPrefix(got, got') /\ IsPrefix(got', sent)
  /\ UNCHANGED << sent, asked >>

\* The reader asks for something.
Ask == asked' \in { "nothing", "line", "everything" } /\ UNCHANGED << sent, got >>

Next == Send \/ DeliverLine \/ DeliverAll \/ Ask

Spec == Init /\ [][Next]_vars

=============================================================================
