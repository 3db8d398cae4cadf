------------------------------ MODULE MCSession ------------------------------
(* TLC instance of one session at the prompt: the lines it reads, in chunks   *)
(* as a terminal, a paste or a pipe delivers them; its evaluations, which nest,*)
(* overlap and are abandoned; and the events it logs and reports.             *)
(*                                                                            *)
(* The three share no state, so each is explored while the others are where   *)
(* they start: the states are the sum of theirs and not the product.  The     *)
(* calls in flight are the subject of MCInterruptFlag.                        *)
EXTENDS Session

VARIABLE subject

replVars == << state, code, top, live, saved, fired, handlers, raw, rawBefore, prompt,
               promptBefore, deferred, ticks, asked, gone, nested >>
logVars  == << emitted, bufferingBus, bufferingTel, pendingBus, pendingTel, log, logged,
               device, analytics, analyticsQueue, tracked, sent, discarded, flushed,
               closed, toggles >>

flagVars == << flag, listeners, told, phase, wrapper, body, cleanup, hit, inside, interrupts >>

ASSUME MCSessionAssumption == Repl!MaxEvalsAssumption /\ Log!BoundsAssumption

\* Lines ended by LF, or by CR LF in one chunk, and control characters.
MCChunks == { << Text >>, << LF >>, << CtrlC >>, << CtrlD >>, << End >>,
              << Text, LF >>, << LF, Text >>, << LF, LF >>, << CR, LF >>,
              << LF, CtrlC >>, << Text, CtrlD >> }

\* A CR LF may be split: its CR is the end of one chunk, its LF the start
\* of the next one.
MCSplit == { << Text, CR >>, << LF, Text >>, << CR, LF >>, << End >> }

\* What is pasted after the Ctrl+D that ends .editor.
MCSpill == { << CtrlD, Text, LF >>, << CtrlD, LF >> }

\* All of them.
MCAll == MCChunks \cup MCSplit \cup MCSpill \cup { << CR >> }

MCInit ==
  /\ Init /\ Repl!Init /\ Log!Init /\ Flag!Init
  /\ subject \in {"input", "evaluations", "events"}

MCNext ==
  /\ \/ subject = "input" /\ Next /\ UNCHANGED << replVars, logVars >>
     \/ subject = "evaluations" /\ Repl!Next /\ UNCHANGED << vars, logVars >>
     \/ subject = "events" /\ Log!Next /\ UNCHANGED << vars, replVars >>
  /\ UNCHANGED << subject, flagVars >>

\* The fairness of each, while it is the subject.
OfInput(step) == subject = "input" /\ step
OfRepl(step)  == subject = "evaluations" /\ step
OfLog(step)   == subject = "events" /\ step

MCFairness ==
  /\ WF_vars(OfInput(Take)) /\ WF_vars(OfInput(Pass)) /\ WF_vars(OfInput(StartFlush))
  /\ WF_vars(OfInput(Flush)) /\ WF_vars(OfInput(FlushEnds)) /\ WF_vars(OfInput(React))
  /\ \A e \in 1 .. MaxEvals, first \in BOOLEAN :
       WF_replVars(OfRepl(Repl!HandlerEnds(e, first)))
  /\ WF_replVars(OfRepl(Repl!EmitDeferred))
  /\ WF_logVars(OfLog(Log!DeviceIdKnown))
  /\ WF_logVars(OfLog(Log!StartLogging \/ Log!StopLogging))

MCSpec == MCInit /\ [][MCNext]_<< subject, vars, replVars, logVars, flagVars >> /\ MCFairness
==============================================================================
