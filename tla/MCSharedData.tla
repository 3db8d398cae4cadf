---------------------------- MODULE MCSharedData ----------------------------
(* TLC instance of what several shells read and write back without a lock:  *)
(* the configuration of a replica set, with two hosts that can be added, and*)
(* the file of update metadata, with two releases and a prerelease between  *)
(* them.  The main feed lists the newer release only in its second contents,*)
(* with a call to action of its own; the etag 1 is also that of another     *)
(* feed.                                                                    *)
(*                                                                          *)
(* The two share no state, so each is explored while the other is where it  *)
(* starts: the states are the sum of theirs and not the product.            *)
EXTENDS SharedData, TLC

VARIABLE subject

updateVars == << file, published, installed, url, shell >>

None3 == 1 :> 0 @@ 2 :> 0 @@ 3 :> 0
MCFeeds ==
  "main" :> << [listed |-> {1, 2}, cta |-> None3, default |-> 7],
               [listed |-> {1, 2, 3}, cta |-> [None3 EXCEPT ![3] = 9], default |-> 0] >>
  @@
  "test" :> << [listed |-> {1, 3}, cta |-> [None3 EXCEPT ![3] = 8], default |-> 6] >>

ASSUME MCUpdateAssumption == Updates!UpdateAssumption

Symmetry == Permutations(Shells) \cup Permutations(Hosts)

MCInit ==
  /\ Init /\ Updates!Init /\ subject \in {"replica set", "updates"}
  /\ subject = "replica set" => installed = 1 /\ url = "main"

MCNext ==
  /\ \/ subject = "replica set" /\ Next /\ UNCHANGED updateVars
     \/ subject = "updates" /\ Updates!Next /\ UNCHANGED vars
  /\ UNCHANGED subject

MCSpec == MCInit /\ [][MCNext]_<< subject, vars, updateVars >>
=============================================================================
