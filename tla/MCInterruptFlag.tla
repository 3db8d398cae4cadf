--------------------------- MODULE MCInterruptFlag ---------------------------
(* Sessions with a plain API call and two calls of sp.process().  The rest  *)
(* of the session stays where it starts.                                    *)
EXTENDS Session

CONSTANTS find, process1, process2

MCCalls     == { find, process1, process2 }
MCProcesses == { process1, process2 }

ASSUME MCCallsAssumption == Flag!CallsAssumption

replVars == << state, code, top, live, saved, fired, handlers, raw, rawBefore, prompt,
               promptBefore, deferred, ticks, asked, gone, nested >>
logVars  == << emitted, bufferingBus, bufferingTel, pendingBus, pendingTel, log, logged,
               device, analytics, analyticsQueue, tracked, sent, discarded, flushed,
               closed, toggles >>

MCInit == Init /\ Repl!Init /\ Log!Init /\ Flag!Init

MCNext == Flag!Next /\ UNCHANGED << vars, replVars, logVars >>

MCSpec == MCInit /\ [][MCNext]_<< Flag!vars, vars, replVars, logVars >> /\ Flag!Fairness
=============================================================================
