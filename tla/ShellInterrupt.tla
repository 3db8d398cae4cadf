--------------------------- MODULE ShellInterrupt ---------------------------
(***************************************************************************)
(* Ctrl+C in the interactive shell: evaluations of the async REPL, the     *)
(* SIGINT handler of MongoshNodeRepl, the suspension and resumption of     *)
(* every tracked Mongo by ShellInstanceState, and leaving the shell.       *)
(*                                                                         *)
(* One action is one run of JavaScript between two awaits.  The parties    *)
(* that interleave are the user's code (of the current evaluation and of   *)
(* evaluations abandoned by an earlier Ctrl+C, which keep running), the    *)
(* REPL, the SIGINT handlers, the driver's network operations and the end  *)
(* of the input stream.                                                    *)
(***************************************************************************)
EXTENDS Naturals, FiniteSets

CONSTANTS
  MaxEvals,   \* bound on the evaluations a session runs
  Mongos,     \* connections that may exist during the session
  Default     \* the ones open at startup (empty with --nodb)

ASSUME ConstantsAssumption == MaxEvals \in Nat /\ Default \subseteq Mongos

Evals  == 1 .. MaxEvals
Prompt == 0             \* repl: waiting for a line
Closed == MaxEvals + 1  \* repl: 'exit' was emitted
NoEval == 0             \* armed: no SIGINT listener of an evaluation

VARIABLES
  repl,      \* the evaluation the REPL waits for, Prompt or Closed
  armed,     \* the evaluation whose process.once('SIGINT') is installed
  code,      \* the user code of each evaluation
  target,    \* the connections an evaluation's pending API call uses
  answer,    \* what each _eval() gave to the REPL
  flag,      \* instanceState.interrupted
  handler,   \* the SIGINT handler of each evaluation
  link,      \* resumeMongosAfterInterrupt: each Mongo during an interrupt
  intact,    \* fullyInterrupted
  tracked,   \* instanceState.mongos
  client,    \* the MongoClient of each Mongo
  warned,    \* history: "Could not re-establish all connections" was shown
  signalled, \* history: evaluations that got a SIGINT
  exit,      \* leaving the shell
  todo       \* Mongos instanceState.close() has not closed yet

vars == << repl, armed, code, target, answer, flag, handler, link, intact,
           tracked, client, warned, signalled, exit, todo >>
evalVars   == << code, target, answer >>
replVars   == << repl, armed >>
mongoVars  == << tracked, client, warned >>
suspension == << link, intact >>
leaving    == << exit, todo >>

CodeStates    == { "new", "running", "calling", "opening", "awaiting",
                   "value", "error", "interrupted", "failed" }
Answers       == { "none", "value", "error", "discarded", "abandoned" }
HandlerStates == { "none", "setting", "suspending", "waiting", "resuming",
                   "prompting", "done" }
LinkStates    == { "none", "closing", "suspended", "unsuspendable",
                   "connecting", "resumed", "lost", "skipped" }
ExitStates    == { "no", "deferred", "closing", "failed", "exited", "killed" }

Running == exit \notin { "exited", "killed" }

\* The stages in which onAsyncSigint() has set the flag and not yet reset it.
Interrupting(e) ==
  handler[e] \in { "setting", "suspending", "waiting", "resuming" }

Init ==
  /\ repl = Prompt /\ armed = NoEval
  /\ code = [e \in Evals |-> "new"]
  /\ target = [e \in Evals |-> {}]
  /\ answer = [e \in Evals |-> "none"]
  /\ flag = FALSE
  /\ handler = [e \in Evals |-> "none"]
  /\ link = [m \in Mongos |-> "none"] /\ intact = TRUE
  /\ tracked = Default
  /\ client = [m \in Mongos |-> IF m \in Default THEN "open" ELSE "none"]
  /\ warned = FALSE /\ signalled = {}
  /\ exit = "no" /\ todo = {}

-----------------------------------------------------------------------------
(* Evaluations and the user code they run.                                 *)

\* The REPL hands a line to _eval(), which installs its SIGINT listener.
StartEval(e) ==
  /\ Running /\ exit = "no" /\ repl = Prompt /\ code[e] = "new"
  /\ \A d \in Evals : d < e => code[d] # "new"
  /\ repl' = e /\ armed' = e
  /\ code' = [code EXCEPT ![e] = "running"]
  /\ UNCHANGED << target, answer, flag, handler, suspension, mongoVars,
                  signalled, leaving >>

\* A method of the shell API that talks to the server: the checkpoint of
\* wrapWithApiChecks throws if an interrupt is in progress.
CallApi(e, m) ==
  /\ Running /\ code[e] = "running" /\ m \in tracked
  /\ IF flag THEN /\ code' = [code EXCEPT ![e] = "interrupted"]
                  /\ UNCHANGED target
             ELSE /\ code' = [code EXCEPT ![e] = "calling"]
                  /\ target' = [target EXCEPT ![e] = {m}]
  /\ UNCHANGED << replVars, answer, flag, handler, suspension, mongoVars,
                  signalled, leaving >>

\* The call's result or error arrives; the second checkpoint throws if the
\* flag was set in the meantime.
ApiReturns(e) ==
  /\ Running /\ code[e] = "calling"
  /\ \E next \in { "running", "error" } :
       code' = [code EXCEPT ![e] = IF flag THEN "interrupted" ELSE next]
  /\ target' = [target EXCEPT ![e] = {}]
  /\ UNCHANGED << replVars, answer, flag, handler, suspension, mongoVars,
                  signalled, leaving >>

\* interrupted.set() rejects the watcher a pending call is raced against.
RejectApi(e) ==
  /\ Running /\ flag /\ code[e] \in { "calling", "opening" }
  /\ code' = [code EXCEPT ![e] = "interrupted"]
  /\ target' = [target EXCEPT ![e] = {}]
  /\ UNCHANGED << replVars, answer, flag, handler, suspension, mongoVars,
                  signalled, leaving >>

\* Mongo(uri): a new connection is opened, and tracked once it is connected.
OpenMongo(e, m) ==
  /\ Running /\ code[e] = "running" /\ client[m] = "none"
  /\ IF flag THEN /\ code' = [code EXCEPT ![e] = "interrupted"]
                  /\ UNCHANGED << target, client >>
             ELSE /\ code' = [code EXCEPT ![e] = "opening"]
                  /\ target' = [target EXCEPT ![e] = {m}]
                  /\ client' = [client EXCEPT ![m] = "connecting"]
  /\ UNCHANGED << replVars, answer, flag, handler, suspension, tracked, warned,
                  signalled, leaving >>

\* The body of Mongo() goes on when connect() is done, even if the promise
\* its caller saw was rejected by an interrupt before.
MongoOpened(m) ==
  /\ Running /\ client[m] = "connecting"
  /\ client' = [client EXCEPT ![m] = "open"]
  /\ tracked' = tracked \cup {m}
  /\ code' = [e \in Evals |->
                IF code[e] = "opening" /\ m \in target[e]
                THEN IF flag THEN "interrupted" ELSE "running" ELSE code[e]]
  /\ target' = [e \in Evals |-> IF code[e] = "opening" THEN target[e] \ {m}
                                                       ELSE target[e]]
  /\ UNCHANGED << replVars, answer, flag, handler, suspension, warned,
                  signalled, leaving >>

\* The connection attempt of Mongo() fails, and with it the API call.
MongoFailed(m) ==
  /\ Running /\ client[m] = "connecting"
  /\ client' = [client EXCEPT ![m] = "closed"]
  /\ code' = [e \in Evals |->
                IF code[e] = "opening" /\ m \in target[e]
                THEN IF flag THEN "interrupted" ELSE "error" ELSE code[e]]
  /\ target' = [e \in Evals |-> IF code[e] = "opening" THEN target[e] \ {m}
                                                       ELSE target[e]]
  /\ UNCHANGED << replVars, answer, flag, handler, suspension, tracked,
                  warned, signalled, leaving >>

\* Faulty CloseMongo: close() without a checkpoint.
CloseMongoUnchecked(e, m) ==
  /\ Running /\ code[e] = "running" /\ client[m] \in { "open", "closed" }
  /\ tracked' = tracked \ {m}
  /\ client' = [client EXCEPT ![m] = "closed"]
  /\ UNCHANGED << replVars, evalVars, flag, handler, suspension, warned,
                  signalled, leaving >>

\* conn.close() in user code: a synchronous API method.
CloseMongo(e, m) ==
  /\ Running /\ code[e] = "running" /\ client[m] \in { "open", "closed" }
  /\ IF flag THEN /\ code' = [code EXCEPT ![e] = "interrupted"]
                  /\ UNCHANGED << tracked, client >>
             ELSE /\ tracked' = tracked \ {m}
                  /\ client' = [client EXCEPT ![m] = "closed"]
                  /\ UNCHANGED code
  /\ UNCHANGED << replVars, target, answer, flag, handler, suspension, warned,
                  signalled, leaving >>

\* User code waits for something mongosh cannot reject (a timer, a fetch),
\* resumes after it, returns or throws.
UserStep(e) ==
  /\ Running
  /\ \/ /\ code[e] = "running"
        /\ \E next \in { "awaiting", "value", "error" } :
             code' = [code EXCEPT ![e] = next]
     \/ code[e] = "awaiting" /\ code' = [code EXCEPT ![e] = "running"]
  /\ UNCHANGED << replVars, target, answer, flag, handler, suspension,
                  mongoVars, signalled, leaving >>

\* The finally block of _eval() and its callback: the REPL goes on.
Reply(e, a) ==
  /\ answer' = [answer EXCEPT ![e] = a]
  /\ IF repl = e THEN repl' = Prompt /\ armed' = NoEval ELSE UNCHANGED replVars

\* The catch block of MongoshNodeRepl.eval(): whatever was thrown is dropped
\* if an interrupt is in progress.
Catch(e) ==
  /\ Running /\ code[e] \in { "error", "interrupted" }
  /\ code' = [code EXCEPT ![e] = "failed"]
  /\ IF flag /\ answer[e] = "none" THEN Reply(e, "discarded")
                                   ELSE UNCHANGED << answer, replVars >>
  /\ UNCHANGED << target, flag, handler, suspension, mongoVars, signalled,
                  leaving >>

\* The finally block of MongoshNodeRepl.eval() got a prompt.  The callback
\* may throw while it prints a value: it is called again, with the error.
Answer(e) ==
  /\ Running /\ code[e] \in { "value", "failed" } /\ answer[e] = "none"
  /\ \E a \in { "value", "error" } :
       (a = "value" => code[e] = "value") /\ Reply(e, a)
  /\ UNCHANGED << code, target, flag, handler, suspension, mongoVars,
                  signalled, leaving >>

-----------------------------------------------------------------------------
(* SIGINT.                                                                 *)

\* Faulty Sigint: no look at the flag of an interrupt in progress.
SigintReentrant(e) ==
  /\ Running /\ armed = e
  /\ signalled' = signalled \cup {e}
  /\ handler' = [handler EXCEPT ![e] = "setting"]
  /\ flag' = TRUE /\ armed' = NoEval /\ intact' = TRUE
  /\ UNCHANGED << repl, evalVars, link, mongoVars, leaving >>

\* Ctrl+C while the evaluation's listener is installed.  onAsyncSigint()
\* returns at once if another interrupt is still in progress.
Sigint(e) ==
  /\ Running /\ armed = e
  /\ signalled' = signalled \cup {e}
  /\ IF flag
     THEN /\ handler' = [handler EXCEPT ![e] = "done"]
          /\ Reply(e, "abandoned")
          /\ UNCHANGED << flag, intact >>
     ELSE /\ handler' = [handler EXCEPT ![e] = "setting"]
          /\ flag' = TRUE /\ armed' = NoEval /\ intact' = TRUE
          /\ UNCHANGED << repl, answer >>
  /\ UNCHANGED << code, target, link, mongoVars, leaving >>

\* Ctrl+C while the listener has been used up and all others are disabled:
\* the signal has its default effect.
SigintUnhandled ==
  /\ Running /\ repl \in Evals /\ armed = NoEval
  /\ exit' = "killed"
  /\ UNCHANGED << replVars, evalVars, flag, handler, suspension, mongoVars,
                  signalled, todo >>

\* Faulty Suspend: interrupted.set() is not awaited.
SuspendEarly(e) ==
  /\ Running /\ handler[e] = "setting"
  /\ handler' = [handler EXCEPT ![e] = "suspending"]
  /\ link' = [m \in Mongos |-> IF m \in tracked THEN "closing" ELSE "none"]
  /\ UNCHANGED << replVars, evalVars, flag, intact, mongoVars, signalled,
                  leaving >>

\* interrupted.set() has told every listener; all tracked Mongos suspend.
Suspend(e) ==
  /\ Running /\ handler[e] = "setting"
  /\ \A d \in Evals : code[d] \notin { "calling", "opening" }
  /\ handler' = [handler EXCEPT ![e] = "suspending"]
  /\ link' = [m \in Mongos |-> IF m \in tracked THEN "closing" ELSE "none"]
  /\ UNCHANGED << replVars, evalVars, flag, intact, mongoVars, signalled,
                  leaving >>

\* One Mongo's _suspend() settles; a failure leaves no way to resume it.
Suspended(m) ==
  /\ Running /\ link[m] = "closing"
  /\ client' = [client EXCEPT ![m] = "closed"]
  /\ \E next \in { "suspended", "unsuspendable" } :
       /\ link' = [link EXCEPT ![m] = next]
       /\ intact' = (intact /\ next = "suspended")
  /\ UNCHANGED << replVars, evalVars, flag, handler, tracked, warned, signalled,
                  leaving >>

\* Faulty AllSuspended: the evaluation's end is awaited without a timeout.
AllSuspendedPatient(e) ==
  /\ Running /\ handler[e] = "suspending" /\ answer[e] # "none"
  /\ \A m \in Mongos : link[m] # "closing"
  /\ handler' = [handler EXCEPT ![e] = "waiting"]
  /\ UNCHANGED << replVars, evalVars, flag, suspension, mongoVars, signalled,
                  leaving >>

\* onInterruptExecution() is done: wait for the evaluation's end or one
\* turn of the event loop.
AllSuspended(e) ==
  /\ Running /\ handler[e] = "suspending"
  /\ \A m \in Mongos : link[m] # "closing"
  /\ handler' = [handler EXCEPT ![e] = "waiting"]
  /\ UNCHANGED << replVars, evalVars, flag, suspension, mongoVars, signalled,
                  leaving >>

\* onResumeExecution() starts to reconnect what is still tracked.
Resume(e) ==
  /\ Running /\ handler[e] = "waiting"
  /\ handler' = [handler EXCEPT ![e] = "resuming"]
  /\ link' = [m \in Mongos |->
                CASE link[m] = "none"          -> "none"
                  [] link[m] # "none" /\ m \notin tracked -> "skipped"
                  [] link[m] = "unsuspendable" /\ m \in tracked -> "lost"
                  [] OTHER                     -> "connecting"]
  /\ UNCHANGED << replVars, evalVars, flag, intact, mongoVars, signalled,
                  leaving >>

\* One Mongo's resetConnectionOptions() settles.
Resumed(m) ==
  /\ Running /\ link[m] = "connecting"
  /\ \/ /\ link' = [link EXCEPT ![m] = "resumed"]
        /\ client' = [client EXCEPT ![m] = "open"]
     \/ /\ link' = [link EXCEPT ![m] = "lost"]
        /\ UNCHANGED client
  /\ UNCHANGED << replVars, evalVars, flag, handler, intact, tracked, warned,
                  signalled, leaving >>

\* Faulty Reset: only what was not suspended is reported.
ResetSilently(e) ==
  /\ Running /\ handler[e] = "resuming"
  /\ \A m \in Mongos : link[m] # "connecting"
  /\ handler' = [handler EXCEPT ![e] = "prompting"]
  /\ flag' = FALSE /\ warned' = (warned \/ ~intact)
  /\ link' = [m \in Mongos |-> "none"]
  /\ UNCHANGED << replVars, evalVars, intact, tracked, client, signalled,
                  leaving >>

\* Faulty Reset: the failure to reconnect leaves the flag set.
ResetUnlessLost(e) ==
  /\ Running /\ handler[e] = "resuming"
  /\ \A m \in Mongos : link[m] # "connecting"
  /\ handler' = [handler EXCEPT ![e] = "prompting"]
  /\ flag' = (\E m \in Mongos : link[m] = "lost")
  /\ link' = [m \in Mongos |-> "none"]
  /\ UNCHANGED << replVars, evalVars, intact, mongoVars, signalled, leaving >>

\* All resumed: the flag is reset, failures are reported.  By then the code
\* an earlier step made throw has reached its catch block.
Reset(e) ==
  /\ Running /\ handler[e] = "resuming"
  /\ \A m \in Mongos : link[m] # "connecting"
  /\ \A d \in Evals : code[d] \notin { "error", "interrupted" }
  /\ handler' = [handler EXCEPT ![e] = "prompting"]
  /\ flag' = FALSE
  /\ warned' = (warned \/ ~intact \/ \E m \in Mongos : link[m] = "lost")
  /\ link' = [m \in Mongos |-> "none"]
  /\ UNCHANGED << replVars, evalVars, intact, tracked, client, signalled,
                  leaving >>

\* onAsyncSigint() has a prompt and returns true; its evaluation is rejected
\* with undefined unless it ended before.
Abandon(e) ==
  /\ Running /\ handler[e] = "prompting"
  /\ handler' = [handler EXCEPT ![e] = "done"]
  /\ IF answer[e] = "none" THEN Reply(e, "abandoned")
                           ELSE UNCHANGED << answer, replVars >>
  /\ UNCHANGED << code, target, flag, suspension, mongoVars, signalled,
                  leaving >>

-----------------------------------------------------------------------------
(* Leaving the shell.                                                      *)

\* The REPL's 'exit' listener: onExit() and instanceState.close().
BeginClose ==
  /\ repl' = Closed /\ armed' = NoEval
  /\ exit' = "closing" /\ todo' = tracked

\* Ctrl+D, .exit or the end of the input; deferred while an evaluation runs.
EndOfInput ==
  /\ Running /\ exit = "no"
  /\ IF repl = Prompt THEN BeginClose
                      ELSE exit' = "deferred" /\ UNCHANGED << replVars, todo >>
  /\ UNCHANGED << evalVars, flag, handler, suspension, mongoVars, signalled >>

DeferredExit ==
  /\ Running /\ exit = "deferred" /\ repl = Prompt
  /\ BeginClose
  /\ UNCHANGED << evalVars, flag, handler, suspension, mongoVars, signalled >>

\* Faulty CloseNext: what is closed stays in the list.
CloseNextForever(m) ==
  /\ Running /\ exit = "closing" /\ m \in todo /\ ~flag
  /\ tracked' = tracked \ {m}
  /\ client' = [client EXCEPT ![m] = "closed"]
  /\ UNCHANGED << replVars, evalVars, flag, handler, suspension, warned,
                  signalled, leaving >>

\* One round of the loop in ShellInstanceState.close().  Mongo.close() is an
\* API method: its checkpoint throws, which ends the loop and onExit().
CloseNext(m) ==
  /\ Running /\ exit = "closing" /\ m \in todo
  /\ IF flag THEN /\ exit' = "failed"
                  /\ UNCHANGED << todo, tracked, client >>
             ELSE /\ todo' = todo \ {m}
                  /\ tracked' = tracked \ {m}
                  /\ client' = [client EXCEPT ![m] = "closed"]
                  /\ UNCHANGED exit
  /\ UNCHANGED << replVars, evalVars, flag, handler, suspension, warned,
                  signalled >>

\* Everything is closed: ioProvider.exit() ends the process.
Exit ==
  /\ exit = "closing" /\ todo = {}
  /\ exit' = "exited"
  /\ UNCHANGED << replVars, evalVars, flag, handler, suspension, mongoVars,
                  signalled, todo >>

\* The process is gone, or onExit() failed and nothing is left to run.
Stopped ==
  /\ exit \in { "exited", "killed", "failed" }
  /\ UNCHANGED vars

-----------------------------------------------------------------------------

UserCode(e) ==
  \/ UserStep(e)
  \/ \E m \in Mongos : CallApi(e, m) \/ OpenMongo(e, m) \/ CloseMongo(e, m)

Repl(e) == StartEval(e) \/ Catch(e) \/ Answer(e)

\* onAsyncSigint() up to the point where it asks for a prompt.
Unwinding(e) == Suspend(e) \/ AllSuspended(e) \/ Resume(e) \/ Reset(e)

Handler(e) == Unwinding(e) \/ Abandon(e)

Driver ==
  \/ \E e \in Evals : ApiReturns(e) \/ RejectApi(e)
  \/ \E m \in Mongos :
       MongoOpened(m) \/ MongoFailed(m) \/ Suspended(m) \/ Resumed(m)

Leave ==
  \/ EndOfInput \/ DeferredExit \/ Exit
  \/ \E m \in Mongos : CloseNext(m)

Next ==
  \/ \E e \in Evals : UserCode(e) \/ Repl(e) \/ Sigint(e) \/ Handler(e)
  \/ SigintUnhandled
  \/ Driver
  \/ Leave
  \/ Stopped

(***************************************************************************)
(* Fairness: continuations of settled promises run (Catch, Unwinding), and *)
(* the driver's close and connect settle (they have timeouts).  Nothing is *)
(* assumed of the user's code, which a prompt() of the user's is as well   *)
(* (so Answer and Abandon, which await a prompt, may never happen), of the *)
(* server's answers to API calls, or of the terminal.                      *)
(***************************************************************************)
Fairness ==
  /\ \A e \in Evals : /\ WF_vars(Catch(e)) /\ WF_vars(Unwinding(e))
                      /\ WF_vars(RejectApi(e))
  /\ \A m \in Mongos : /\ WF_vars(Suspended(m)) /\ WF_vars(Resumed(m))
                       /\ WF_vars(CloseNext(m))
  /\ WF_vars(DeferredExit) /\ WF_vars(Exit)

Spec == Init /\ [][Next]_vars /\ Fairness

-----------------------------------------------------------------------------
(* Properties.                                                             *)

\* The types of the variables.
TypeOK ==
  /\ repl \in Evals \cup { Prompt, Closed } /\ armed \in Evals \cup { NoEval }
  /\ code \in [Evals -> CodeStates] /\ target \in [Evals -> SUBSET Mongos]
  /\ answer \in [Evals -> Answers]
  /\ flag \in BOOLEAN /\ handler \in [Evals -> HandlerStates]
  /\ link \in [Mongos -> LinkStates] /\ intact \in BOOLEAN
  /\ tracked \subseteq Mongos
  /\ client \in [Mongos -> { "none", "connecting", "open", "closed" }]
  /\ warned \in BOOLEAN /\ signalled \subseteq Evals
  /\ exit \in ExitStates /\ todo \subseteq Mongos

\* The flag is set exactly while one SIGINT handler is between setting and
\* resetting it: two Ctrl+C never suspend and resume the Mongos at once.
OneInterrupt ==
  /\ flag <=> \E e \in Evals : Interrupting(e)
  /\ \A d, e \in Evals : Interrupting(d) /\ Interrupting(e) => d = e

\* A connection is only taken away from the driver when no API call that
\* user code still waits for uses it: set() rejects them all first.
NoCallOnSuspendedMongo ==
  \A e \in Evals : code[e] = "calling" =>
    \A m \in target[e] \cap tracked : link[m] = "none"

\* Once an interrupt is over, every tracked Mongo is connected again, or the
\* user was told that some are not.
ConnectedUnlessWarned ==
  ~flag /\ ~warned => \A m \in tracked : client[m] = "open"

\* No connection is open that leaving the shell would not close: resuming
\* after an interrupt never brings a closed Mongo back to life.
OpenIsTracked == \A m \in Mongos : client[m] = "open" => m \in tracked

\* Ctrl+C always leads to the prompt, whatever the user's code awaits: the
\* line is answered, or only the computation of the prompt itself, which may
\* be the user's own prompt(), is left to be done.
SigintAnswered ==
  \A e \in Evals :
    e \in signalled
      ~> answer[e] # "none" \/ handler[e] = "prompting" \/ ~Running

\* The shell does not stay interrupted: the flag that makes every API call
\* throw is reset again.
InterruptEnds == flag ~> ~flag \/ ~Running

\* An exit, asked for at the prompt or deferred until the prompt is back,
\* ends one way or the other.
ExitSettles ==
  exit = "closing" \/ (exit = "deferred" /\ repl = Prompt)
    ~> exit \in { "exited", "failed", "killed" }

\* Nothing the user does with Ctrl+C or Ctrl+D is left without an end
\* (mongosh-repl.ts:925-973, shell-instance-state.ts:337-345, 681-712).
CtrlCAndExitSettle == SigintAnswered /\ InterruptEnds /\ ExitSettles

\* What close() and onExit() say: once the REPL emits 'exit' all connections
\* are closed and the process ends.
ExitCompletes == exit = "closing" ~> exit \in { "exited", "killed" }

\* What the comment in eval() says: after an interrupt the prompt is only
\* back when onAsyncSigint() has completed.
PromptAfterInterrupt ==
  repl = Prompt => \A e \in Evals : ~Interrupting(e)

=============================================================================
