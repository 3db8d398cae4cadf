------------------------------ MODULE MCProcesses ------------------------------
(* TLC instance of how the CLI's process and the worker thread of a shell    *)
(* start, are stopped and end: two calls of exit() in two pieces of user     *)
(* code, for every command line; two evaluations and two interrupts.  The    *)
(* two share no state, so each is explored while the other is where it       *)
(* starts: the states are the sum of theirs and not the product.             *)
EXTENDS Processes, TLC

CONSTANTS c1, c2

VARIABLE subject

workerVars == << init, waiting, call, ask, end, handle, toWorker, toMain, alive, running,
                 killed, lock, script, busy, alone, asked, aimed >>

MCCodeOf == c1 :> 2 @@ c2 :> 3

ASSUME MCWorkerAssumption == Worker!WorkerAssumption

\* While the worker is the subject the command line does not matter.
MCInit ==
  /\ Init /\ Worker!Init /\ subject \in {"process", "worker"}
  /\ subject = "worker" => mode = [option \in DOMAIN mode |-> FALSE]

MCNext ==
  /\ \/ subject = "process" /\ Next /\ UNCHANGED workerVars
     \/ subject = "worker" /\ Worker!Next /\ UNCHANGED lifeVars
  /\ UNCHANGED subject

MCvars == << subject, lifeVars, workerVars >>

\* The fairness of each, while it is the subject.
Life(step) == subject = "process" /\ Alive /\ step
Work(step) == subject = "worker" /\ step

MCFairness ==
  /\ WF_lifeVars(Life(Closing)) /\ WF_lifeVars(Life(Leaving))
  /\ \A c \in Calls : WF_lifeVars(Life(ExitCloses(c)))
  /\ WF_workerVars(Work(Worker!Start)) /\ WF_workerVars(Work(Worker!Settle))
  /\ WF_workerVars(Work(Worker!Continue)) /\ WF_workerVars(Work(Worker!Receive))
  /\ SF_workerVars(Work(Worker!Work))

MCSpec == MCInit /\ [][MCNext]_<< subject, lifeVars, workerVars >> /\ MCFairness
================================================================================
