---------------------------- MODULE MCAnalytics ----------------------------
(* TLC instance of the last two links of the chain of telemetry: the        *)
(* throttle and the client.  The two share no state, so each is explored    *)
(* while the other is where it starts: the states are the sum of theirs and *)
(* not the product.  The choice of the user is the subject of MCCliConfig.  *)
EXTENDS Telemetry, TLC

VARIABLE subject

throttleVars == << now, lock, throttleFile, place, holds, beat, open, state, waiting,
                   tracked, sessions, emitted, crashed, raced, late, astray >>
clientVars   == << event, pending, aborted, flush, earlier >>

ASSUME MCThrottleAssumption == Throttle!ThrottleAssumption

Symmetry == Permutations(Procs)

MCInit ==
  /\ Init /\ Throttle!Init /\ Client!Init /\ subject \in {"throttle", "client"}
  /\ ~forced

MCNext ==
  /\ \/ subject = "throttle" /\ Throttle!Next /\ UNCHANGED clientVars
     \/ subject = "client" /\ Client!Next /\ UNCHANGED throttleVars
  /\ UNCHANGED << subject, vars >>

MCSpec == MCInit /\ [][MCNext]_<< subject, vars, throttleVars, clientVars >>
=============================================================================
