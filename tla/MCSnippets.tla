----------------------------- MODULE MCSnippets -----------------------------
(* TLC instance of the snippet manager: its index and its packages.  The    *)
(* two share no state, so each is explored while the other is where it      *)
(* starts: the states are the sum of theirs and not the product.            *)
EXTENDS Snippets

VARIABLE subject

packageVars == << pkg, modules, boot, setUp, at, kind, name, edit, copy, disturbed >>

ASSUME MCPackagesAssumption == Packages!PackagesAssumption

MCInit ==
  /\ Init /\ Packages!Init /\ subject \in {"index", "packages"}
  /\ subject = "packages" => source = "main"

MCNext ==
  /\ \/ subject = "index" /\ Next /\ UNCHANGED packageVars
     \/ subject = "packages" /\ Packages!Next /\ UNCHANGED vars
  /\ UNCHANGED subject

\* Fairness is that of the index.
MCSpec ==
  MCInit /\ [][MCNext]_<< subject, vars, packageVars >>
         /\ \A f \in Flights : WF_vars(subject = "index" /\ FetchStep(f))
=============================================================================
