----------------------------- MODULE Processes ------------------------------
(***************************************************************************)
(* What starts, is stopped and ends: the process of the CLI                *)
(* (CliLifecycle), and the worker thread that runs a shell for another     *)
(* product (WorkerRuntime), next to each other.                            *)
(***************************************************************************)

EXTENDS CliLifecycle

CONSTANTS Evals, Interrupts, NoEval

VARIABLES init, waiting, call, ask, end, handle, toWorker, toMain, alive, running,
          killed, lock, script, busy, alone, asked, aimed

Worker == INSTANCE WorkerRuntime

\* An evaluation neither stands in the way of a later one nor passes an
\* interrupt on to it (worker-runtime.ts:128-177).
EvaluationsApart == Worker!EvaluationsApart

\* An interrupt that meets no message under way ends every evaluation that is
\* pending, unless a script never comes back from a loop after an await
\* (index.ts:115-122, worker-runtime.ts:128-177).
InterruptIsEffective == Worker!InterruptIsEffective
=============================================================================
