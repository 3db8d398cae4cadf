------------------------------ MODULE CliLifecycle ------------------------------
(***************************************************************************)
(* The life of the CLI's process (cli-repl: cli-repl.ts, run.ts, and       *)
(* close() and onExit() of mongosh-repl.ts): the stages of CliRepl.start(),*)
(* the user's code it runs on the way, and the ways out, which overlap: a  *)
(* startup error, the end of the scripts, exit() in the code or in a timer *)
(* it left behind, and the end of the input.  They share two promises,     *)
(* MongoshNodeRepl.exitPromise and CliRepl.closingPromise, and only one of *)
(* them may end the process, with its own exit code and after everything   *)
(* was closed.                                                             *)
(*                                                                         *)
(* One action is what runs between two awaits.  Closing a connection or a  *)
(* stream does not fail here: ShellInterrupt has the failures of close().  *)
(***************************************************************************)
EXTENDS Naturals, Sequences

CONSTANTS
  Calls,      \* the calls of exit() in the user's code
  CodeOf,     \* the exit code of each
  Undefined,  \* no exit code was given: the process's default
  NoCode,     \* nothing has asked for an exit, or the process is alive
  Startup,    \* the catch block of start(), as one that waits for close()
  MaxRuns     \* bound: pieces of user code that are run

ASSUME LifecycleAssumption ==
  /\ CodeOf \in [Calls -> Nat] /\ MaxRuns \in Nat
  /\ {Undefined, NoCode, Startup} \cap Nat = {}
  /\ Undefined # NoCode /\ Undefined # Startup /\ NoCode # Startup

VARIABLES
  mode,       \* the command line: scripts, shell, rc, json, repl
  stage,      \* how far _start() has got
  runs,       \* pieces of user code that may still be run
  code,       \* the one _start() or the prompt is running
  phase,      \* each call of exit()
  failing,    \* exitingForStartupError
  runtime,    \* _runtimeState of MongoshNodeRepl
  replState,  \* the Node.js REPL: whether it has emitted 'exit'
  deferred,   \* the REPL's 'exit' waits for the end of the evaluation
  shell,      \* MongoshNodeRepl.close(): who runs it, and what it awaits
  exit,       \* exitPromise
  exitCode,   \* the code it was called with
  closing,    \* closingPromise
  waiters,    \* who awaits it, in the order of their calls
  conns,      \* the connections of the shell
  logging,    \* loggingAndTelemetry is set up
  flushed,    \* the log and the telemetry were flushed
  ended,      \* the code the process has exited with
  first,      \* history: the first code that exit() or the input asked for
  own,        \* history: the code _start() asked for itself
  eof         \* history: the input has ended

startVars == << stage, runs, code >>
replVars  == << replState, deferred >>
exitVars  == << runtime, shell, exit, exitCode >>
closeVars == << closing, waiters >>
keptVars  == << conns, logging, flushed >>
history   == << first, own, eof >>
lifeVars == << mode, startVars, phase, failing, replVars, exitVars, closeVars, keptVars,
               ended, history >>

Modes == [scripts : BOOLEAN, shell : BOOLEAN, rc : BOOLEAN, json : BOOLEAN, repl : BOOLEAN]
Alive == ended = NoCode

Stages == { "setup", "connect", "initialize", "scripts", "snippets", "rc", "prompt",
            "starting", "started", "exiting", "failed", "rethrown" }
Codes == Nat \cup { Undefined }

StartTyped ==
  /\ mode \in Modes /\ stage \in Stages /\ runs \in 0 .. MaxRuns
  /\ code \in { "idle", "running", "exits" } /\ failing \in BOOLEAN
PhasesTyped == phase \in [Calls -> { "new", "timer", "closing", "asked" }]
ExitTyped ==
  /\ runtime \in { "none", "open", "gone" }
  /\ replState \in { "none", "live", "ended" } /\ deferred \in BOOLEAN
  /\ exit \in { "none", "shell", "cli" } /\ exitCode \in Codes \cup { NoCode }
  /\ closing \in { "no", "shell", "flush", "done" }
ShellTyped ==
  shell \in [by : { "none", "exit", "cli" }, awaits : { "none", "exit", "conns" }]
WaitersTyped == waiters \in Seq(Codes \cup { Startup })
EndTyped ==
  /\ conns \in { "none", "open", "closed" } /\ logging \in BOOLEAN /\ flushed \in BOOLEAN
  /\ ended \in Codes \cup { NoCode } /\ first \in Codes \cup { NoCode }
  /\ own \in Codes \cup { NoCode } /\ eof \in BOOLEAN

TypeOK == StartTyped /\ PhasesTyped /\ ExitTyped /\ ShellTyped /\ WaitersTyped /\ EndTyped

\* A REPL is made or not as --jsContext says, whether or not there will be a
\* prompt.  --json is for scripts only; other uses of it fail the start, as a
\* script that throws does.
Init ==
  /\ mode \in Modes /\ (mode.json => mode.scripts /\ ~mode.shell)
  /\ stage = "setup" /\ runs = MaxRuns /\ code = "idle" /\ phase = [c \in Calls |-> "new"]
  /\ failing = FALSE /\ runtime = "none" /\ replState = "none" /\ deferred = FALSE
  /\ shell = [by |-> "none", awaits |-> "none"] /\ exit = "none" /\ exitCode = NoCode
  /\ closing = "no" /\ waiters = << >>
  /\ conns = "none" /\ logging = FALSE /\ flushed = FALSE
  /\ ended = NoCode /\ first = NoCode /\ own = NoCode /\ eof = FALSE

-----------------------------------------------------------------------------
(* close() and onExit() of MongoshNodeRepl, close() and exit() of CliRepl. *)

\* MongoshNodeRepl.close(): the first caller takes the runtime state, and
\* closes the REPL if that has not ended yet; for others it does nothing.
TakeRuntime(caller, liveRepl) ==
  IF runtime = "open"
  THEN /\ runtime' = "gone"
       /\ shell' = [by |-> caller, awaits |-> IF liveRepl THEN "exit" ELSE "conns"]
  ELSE UNCHANGED << runtime, shell >>

HasRepl == replState # "none"
ShellClosedFor(caller) == shell.by # caller \/ shell.awaits = "none"

\* Faulty RememberExit: exitPromise is overwritten.
RememberLast(c) == exit' = "shell" /\ exitCode' = c

\* exitPromise ??= ...: later calls share the promise of the first.
RememberExit(c) ==
  IF exit = "none" THEN exit' = "shell" /\ exitCode' = c ELSE UNCHANGED << exit, exitCode >>

\* MongoshNodeRepl.onExit(c).
OnExit(c, liveRepl) ==
  /\ RememberExit(c)
  /\ IF exit = "none" THEN TakeRuntime("exit", liveRepl) ELSE UNCHANGED << runtime, shell >>

NoteFirst(c) == first' = IF first = NoCode THEN c ELSE first

\* Faulty Close: a second caller finds a flag and goes on at once.
CloseFlagged(waiter) ==
  /\ waiters' = Append(waiters, waiter)
  /\ IF closing = "no"
     THEN closing' = "shell" /\ TakeRuntime("cli", HasRepl)
     ELSE closing' = "done" /\ UNCHANGED << runtime, shell >>

\* CliRepl.close(), awaited: closingPromise ??= ...
Close(waiter) ==
  /\ waiters' = Append(waiters, waiter)
  /\ IF closing = "no"
     THEN closing' = "shell" /\ TakeRuntime("cli", HasRepl)
     ELSE UNCHANGED << closing, runtime, shell >>

\* onExit() after its this.close(): ioProvider.exit(), which calls close().
AskCli ==
  /\ exit = "shell" /\ ShellClosedFor("exit")
  /\ exit' = "cli" /\ Close(exitCode)
  /\ UNCHANGED << mode, startVars, phase, failing, replVars, exitCode, keptVars, ended, history >>

\* instanceState.close() and the last of the output.
CloseConnections ==
  /\ shell.awaits = "conns" /\ shell' = [shell EXCEPT !.awaits = "none"]
  /\ conns' = "closed"
  /\ UNCHANGED << mode, startVars, phase, failing, replVars, runtime, exit, exitCode,
                  closeVars, logging, flushed, ended, history >>

\* CliRepl.close() after mongoshRepl.close(): the output is flushed.
FlushOutput ==
  /\ closing = "shell" /\ ShellClosedFor("cli") /\ closing' = "flush"
  /\ UNCHANGED << mode, startVars, phase, failing, replVars, exitVars, waiters, keptVars,
                  ended, history >>

\* The events still buffered, the telemetry and the log.
FlushTelemetry ==
  /\ closing = "flush" /\ closing' = "done" /\ flushed' = logging
  /\ UNCHANGED << mode, startVars, phase, failing, replVars, exitVars, waiters, conns, logging,
                  ended, history >>

\* Faulty Resume: the last caller of close() goes on first.
ResumeLast ==
  /\ closing = "done" /\ waiters # << >>
  /\ LET waiter == waiters[Len(waiters)] IN
     IF waiter = Startup THEN stage' = "rethrown" /\ UNCHANGED ended
     ELSE ended' = (IF failing THEN ended ELSE waiter) /\ UNCHANGED stage
  /\ waiters' = SubSeq(waiters, 1, Len(waiters) - 1)
  /\ UNCHANGED << mode, runs, code, phase, failing, replVars, exitVars, closing, keptVars,
                  history >>

\* Those who await close() go on: start() rethrows; exit() ends the process
\* by onExit(), or waits for ever when a startup error ends it.
Resume ==
  /\ closing = "done" /\ waiters # << >>
  /\ LET waiter == Head(waiters) IN
     IF waiter = Startup THEN stage' = "rethrown" /\ UNCHANGED ended
     ELSE ended' = (IF failing THEN ended ELSE waiter) /\ UNCHANGED stage
  /\ waiters' = Tail(waiters)
  /\ UNCHANGED << mode, runs, code, phase, failing, replVars, exitVars, closing, keptVars,
                  history >>

\* main()'s catch block: the error is printed, process.exit(1).
ExitOfMain ==
  /\ stage = "rethrown" /\ waiters = << >> /\ ended' = 1
  /\ UNCHANGED << mode, startVars, phase, failing, replVars, exitVars, closeVars, keptVars,
                  history >>

-----------------------------------------------------------------------------
(* The REPL's 'exit' event.                                                *)

\* repl.close() emits it later.  MongoshNodeRepl.close() waits for it; the
\* shell's own listener, which calls onExit(), is put off while an
\* evaluation is in progress.
EmitExit ==
  /\ shell.awaits = "exit" /\ replState = "live" /\ replState' = "ended"
  /\ shell' = [shell EXCEPT !.awaits = "conns"]
  /\ IF code = "idle"
     THEN RememberExit(Undefined) /\ UNCHANGED deferred
     ELSE deferred' = TRUE /\ UNCHANGED << exit, exitCode >>
  /\ UNCHANGED << mode, startVars, phase, failing, runtime, closeVars, keptVars, ended, history >>

\* Ctrl+D or the end of the input closes the REPL.  The listener forgets the
\* REPL, so that onExit() does not wait for a second 'exit'.
EndOfInput ==
  /\ stage = "started" /\ replState = "live" /\ shell.awaits # "exit"
  /\ replState' = "ended" /\ eof' = TRUE
  /\ IF code = "idle"
     THEN OnExit(Undefined, FALSE) /\ NoteFirst(Undefined) /\ UNCHANGED deferred
     ELSE deferred' = TRUE /\ UNCHANGED << exitVars, first >>
  /\ UNCHANGED << mode, startVars, phase, failing, closeVars, keptVars, ended, own >>

\* Faulty EmitDeferred: the event is not emitted again.
DropDeferred ==
  /\ deferred /\ code = "idle" /\ deferred' = FALSE
  /\ UNCHANGED << mode, startVars, phase, failing, replState, exitVars, closeVars, keptVars,
                  ended, history >>

\* The evaluation is over and the event is emitted again.
EmitDeferred ==
  /\ deferred /\ code = "idle" /\ deferred' = FALSE
  /\ IF shell.awaits = "exit"
     THEN /\ shell' = [shell EXCEPT !.awaits = "conns"]
          /\ RememberExit(Undefined) /\ UNCHANGED runtime
     ELSE OnExit(Undefined, FALSE)
  /\ IF eof THEN NoteFirst(Undefined) ELSE UNCHANGED first
  /\ UNCHANGED << mode, startVars, phase, failing, replState, closeVars, keptVars, ended,
                  own, eof >>

-----------------------------------------------------------------------------
(* The user's code, and exit() in it.                                      *)

\* Scripts, snippets, the rc file, input at the prompt: all need the runtime
\* state, and run one at a time.
RunCode ==
  /\ code = "idle" /\ runs > 0 /\ runtime = "open"
  /\ \/ stage \in { "scripts", "snippets" }
     \/ stage = "rc" /\ mode.rc
     \/ stage = "started" /\ replState = "live"
  /\ code' = "running" /\ runs' = runs - 1
  /\ UNCHANGED << mode, stage, phase, failing, replVars, exitVars, closeVars, keptVars, ended,
                  history >>

\* setTimeout(() => exit(n)).
SetTimer(c) ==
  /\ code = "running" /\ phase[c] = "new" /\ phase' = [phase EXCEPT ![c] = "timer"]
  /\ UNCHANGED << mode, startVars, failing, replVars, exitVars, closeVars, keptVars, ended,
                  history >>

\* exit(n): first the connections are closed; the code waits for the rest.
CallExit(c) ==
  /\ \/ phase[c] = "timer" /\ UNCHANGED code
     \/ phase[c] = "new" /\ code = "running" /\ code' = "exits"
  /\ phase' = [phase EXCEPT ![c] = "closing"]
  /\ UNCHANGED << mode, stage, runs, failing, replVars, exitVars, closeVars, keptVars, ended,
                  history >>

\* The connections are closed: the evaluation listener's onExit(n).
ExitCloses(c) ==
  /\ phase[c] = "closing" /\ phase' = [phase EXCEPT ![c] = "asked"]
  /\ conns' = "closed"
  /\ OnExit(CodeOf[c], HasRepl) /\ NoteFirst(CodeOf[c])
  /\ UNCHANGED << mode, startVars, failing, replVars, closeVars, logging, flushed, ended,
                  own, eof >>

-----------------------------------------------------------------------------
(* start() and _start().                                                   *)

\* Faulty StartThrows: exitingForStartupError is not set.
StartThrowsQuietly ==
  /\ stage' = "failed" /\ UNCHANGED failing /\ Close(Startup)

\* _start() has thrown: start() closes everything and rethrows.
StartThrows ==
  /\ stage' = "failed" /\ failing' = TRUE /\ Close(Startup)

\* await this.exit(c), which does not return.
ExitItself(c) ==
  /\ stage' = "exiting" /\ own' = c /\ Close(c)

\* The Node.js version, the home directory, the configuration and the
\* telemetry; or a password is asked for in vain, a fatal error.
SetUp ==
  /\ stage = "setup"
  /\ \/ /\ stage' = "connect" /\ logging' = TRUE
        /\ UNCHANGED << failing, runtime, shell, closeVars, own >>
     \/ StartThrows /\ UNCHANGED << own, logging >>
     \/ ExitItself(1) /\ UNCHANGED << failing, logging >>
  /\ UNCHANGED << mode, runs, code, phase, replVars, exit, exitCode, conns, flushed, ended,
                  first, eof >>

Connect ==
  /\ stage = "connect"
  /\ \/ stage' = "initialize" /\ UNCHANGED << failing, runtime, shell, closeVars >>
     \/ StartThrows
  /\ UNCHANGED << mode, runs, code, phase, replVars, exit, exitCode, keptVars, ended, history >>

\* mongoshRepl.initialize(): the runtime state, with a REPL or without.
Initialize ==
  /\ stage = "initialize"
  /\ \/ /\ stage' = (IF mode.scripts THEN "scripts" ELSE IF mode.rc THEN "snippets" ELSE "rc")
        /\ runtime' = "open" /\ conns' = "open"
        /\ replState' = IF mode.repl THEN "live" ELSE "none"
        /\ UNCHANGED << failing, shell, closeVars >>
     \/ StartThrows /\ UNCHANGED << conns, replState >>
  /\ UNCHANGED << mode, runs, code, phase, deferred, exit, exitCode, logging, flushed, ended,
                  history >>

\* The code returns, or goes on only in its timers.
CodeReturns ==
  /\ code = "running" /\ code' = "idle"
  /\ UNCHANGED << mode, stage, runs, phase, failing, replVars, exitVars, closeVars, keptVars,
                  ended, history >>

\* It throws, or Ctrl+C abandons it, even while it waits for exit().  That
\* is shown for the rc file and at the prompt; a script or a snippet fails
\* the start, and with --json the error is the script's output.
CodeThrows ==
  /\ code # "idle" /\ code' = "idle"
  /\ CASE stage = "scripts" /\ mode.json -> ExitItself(1) /\ UNCHANGED failing
       [] (stage = "scripts" /\ ~mode.json) \/ stage = "snippets" ->
            StartThrows /\ UNCHANGED own
       [] OTHER -> UNCHANGED << stage, failing, runtime, shell, closeVars, own >>
  /\ UNCHANGED << mode, runs, phase, replVars, exit, exitCode, keptVars, ended, first, eof >>

\* A further script finds that the runtime state is gone.
ScriptTooLate ==
  /\ stage = "scripts" /\ code = "idle" /\ runs > 0 /\ runtime = "gone"
  /\ \/ mode.json /\ ExitItself(1) /\ UNCHANGED failing
     \/ ~mode.json /\ StartThrows /\ UNCHANGED own
  /\ UNCHANGED << mode, runs, code, phase, replVars, exit, exitCode, keptVars, ended, first, eof >>

\* All scripts have run: without --shell the process exits.
ScriptsDone ==
  /\ stage = "scripts" /\ code = "idle"
  /\ IF mode.shell
     THEN /\ stage' = IF mode.rc THEN "snippets" ELSE "rc"
          /\ UNCHANGED << runtime, shell, closeVars, own >>
     ELSE ExitItself(0)
  /\ UNCHANGED << mode, runs, code, phase, failing, replVars, exit, exitCode, keptVars, ended,
                  first, eof >>

\* The snippets are loaded, then the rc file; an rc file that finds the
\* runtime state gone is an error that is shown.
Loaded ==
  /\ stage \in { "snippets", "rc" } /\ code = "idle"
  /\ stage' = IF stage = "snippets" THEN "rc" ELSE "prompt"
  /\ UNCHANGED << mode, runs, code, phase, failing, replVars, exitVars, closeVars, keptVars,
                  ended, history >>

\* startRepl(), and the session's first event after it: both throw when the
\* runtime state is gone, the first also without a REPL.
StartRepl ==
  /\ \/ stage = "prompt" /\ IF runtime = "open" /\ HasRepl
                            THEN stage' = "starting" /\ UNCHANGED << failing, runtime, shell, closeVars >>
                            ELSE StartThrows
     \/ stage = "starting" /\ IF runtime = "open"
                              THEN stage' = "started" /\ UNCHANGED << failing, runtime, shell, closeVars >>
                              ELSE StartThrows
  /\ UNCHANGED << mode, runs, code, phase, replVars, exit, exitCode, keptVars, ended, history >>

-----------------------------------------------------------------------------

Starting == SetUp \/ Connect \/ Initialize \/ ScriptTooLate \/ ScriptsDone \/ Loaded \/ StartRepl
Closing ==
  AskCli \/ CloseConnections \/ FlushOutput \/ FlushTelemetry \/ EmitExit \/ EmitDeferred
Leaving == Resume \/ ExitOfMain

Next ==
  /\ Alive
  /\ \/ Starting \/ Closing \/ Leaving
     \/ EndOfInput \/ RunCode \/ CodeReturns \/ CodeThrows
     \/ \E c \in Calls : SetTimer(c) \/ CallExit(c) \/ ExitCloses(c)

\* Promises settle and events are delivered; the user's code and the user may
\* take for ever.
LifeFairness ==
  /\ WF_lifeVars(Alive /\ Closing) /\ WF_lifeVars(Alive /\ Leaving)
  /\ \A c \in Calls : WF_lifeVars(Alive /\ ExitCloses(c))

Spec == Init /\ [][Next]_lifeVars /\ LifeFairness

-----------------------------------------------------------------------------

\* The process ends with the code it was asked to end with: 1 after a startup
\* error, whatever else asked; otherwise what the first exit() or the end of
\* the input asked for, or what _start() asked for itself, and never the
\* default that the REPL's 'exit', emitted by the closing, would ask for.
EndsAsAsked ==
  ~Alive => IF failing \/ stage = "rethrown" THEN ended = 1 ELSE ended \in { first, own }

\* However many ways out are under way, the process ends after the
\* connections were closed and the log and the telemetry flushed.
ClosedAtEnd ==
  ~Alive => conns # "open" /\ flushed = logging /\ closing = "done"

EndSound == EndsAsAsked /\ ClosedAtEnd

\* exit() waits for the REPL's 'exit' event, which the end of the input has
\* emitted before and which is put off until the evaluation ends.  When the
\* evaluation waits for that exit() itself, only Ctrl+C ends it.
AwaitsEvaluation == code # "idle" /\ deferred /\ shell.awaits = "exit"

\* Once an exit is asked for, or the start has failed, the process ends; only
\* an evaluation that goes on when the input has ended can hold that up.
ProcessEnds ==
  (first # NoCode \/ own # NoCode \/ failing) ~> (~Alive \/ AwaitsEvaluation)

=============================================================================
