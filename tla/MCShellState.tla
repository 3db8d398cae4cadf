---------------------------- MODULE MCShellState ----------------------------
(* TLC instance of what a session keeps between commands: cursors and `it`, *)
(* one cursor whose documents fill replies and batches exactly and one with *)
(* a rest; and the connection info with the names for completion.  The two  *)
(* share no state, so each is explored while the other is where it starts:  *)
(* the states are the sum of theirs and not the product.                    *)
EXTENDS ShellState, TLC

CONSTANTS c1, c2

VARIABLE subject

connectionVars == << current, cache, fetch, catalog, names, list, crossed >>

MCDocs == c1 :> 4 @@ c2 :> 3

ASSUME MCConnectionAssumption == Info!ConnectionAssumption

MCInit ==
  /\ Init /\ Info!Init /\ subject \in {"cursors", "connection"}

MCNext ==
  /\ \/ subject = "cursors" /\ Next /\ UNCHANGED connectionVars
     \/ subject = "connection" /\ Info!Next /\ UNCHANGED vars
  /\ UNCHANGED subject

\* Fairness is that of the cursors.
MCSpec == MCInit /\ [][MCNext]_<< subject, vars, connectionVars >> /\ WF_vars(ItSteps)
=============================================================================
