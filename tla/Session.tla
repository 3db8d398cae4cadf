------------------------------ MODULE Session -------------------------------
(***************************************************************************)
(* A session at the prompt: the lines it reads (LineByLineInput), its      *)
(* evaluations, which nest (AsyncRepl), the API calls in them that Ctrl+C  *)
(* finds in flight (InterruptFlag), and what it logs and reports           *)
(* (LoggingAndTelemetry).                                                  *)
(*                                                                         *)
(* They are next to each other here, with names of their own for what they *)
(* have under the same one; MCSession and MCInterruptFlag say which of     *)
(* them moves.                                                             *)
(***************************************************************************)

EXTENDS LineByLineInput

CONSTANTS MaxEvals, MaxEvents, MaxToggles, Calls, Processes, MaxInterrupts

VARIABLES state, code, top, live, saved, fired, handlers, raw, rawBefore, prompt,
          promptBefore, deferred, ticks, asked, gone, nested,
          emitted, bufferingBus, bufferingTel, pendingBus, pendingTel, log, logged,
          device, analytics, analyticsQueue, tracked, sent, discarded, flushed, closed,
          toggles,
          flag, listeners, told, phase, wrapper, body, cleanup, hit, inside, interrupts

Repl == INSTANCE AsyncRepl
Log  == INSTANCE LoggingAndTelemetry WITH queue <- analyticsQueue
Flag == INSTANCE InterruptFlag

\* However evaluations nest, overlap and are abandoned, nobody's listener is
\* lost or doubled, the prompt finds its own again, and Ctrl+C is heard
\* (async-repl.ts:52-65).
ListenersSafe == Repl!ListenersSafe

\* An evaluation that Ctrl+C has reached ends, and an exit that was put off
\* happens (async-repl.ts:173-215).
EvaluationsSettle == Repl!EvaluationsSettle

\* The log and the telemetry have what happened, in order, once, and nothing
\* that was dropped while telemetry was disabled is sent when it no longer is
\* (logging-and-telemetry.ts:205-335).
BuffersFaithful == Log!BuffersFaithful

\* What is held back for the device ID or the log is tracked in the end
\* (logging-and-telemetry.ts).
EventsTracked == Log!EventsTracked

\* An interrupt finds the operations in flight, all of them and no other, and
\* leaves none of their work undone (interruptor.ts:97-160).
InterruptsClean == Flag!InterruptsClean

\* Every call that an interrupt hits is settled without help of the server,
\* unless set() waits for a cleanup before it tells the call
\* (interruptor.ts:97-160).
HitCallsSettle == Flag!HitCallsSettle
=============================================================================
