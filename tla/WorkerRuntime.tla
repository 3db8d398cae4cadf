----------------------------- MODULE WorkerRuntime -----------------------------
(***************************************************************************)
(* The shell of node-runtime-worker-thread: WorkerRuntime, in the main     *)
(* thread, starts a worker thread and calls it over two message channels.  *)
(* The worker evaluates one script at a time.  A script first runs         *)
(* synchronously, when only the main thread can stop it, by the native     *)
(* interrupt and the handle the worker has posted; then asynchronously,    *)
(* when the worker's evaluation lock can be unlocked to abandon it.  After *)
(* an await it runs synchronously again, and now nothing can stop it.      *)
(*                                                                         *)
(* One action is one task of one of the threads.  Each call of the main    *)
(* thread first awaits initWorkerPromise: `waiting` are those awaits, run  *)
(* in order, as microtasks, before the main thread takes a message.        *)
(***************************************************************************)
EXTENDS Naturals, Sequences

CONSTANTS
  Evals,       \* the calls of evaluate() of a session
  Interrupts,  \* the calls of interrupt()
  NoEval       \* no evaluation: a null handle, an unlocked lock

WorkerAssumption == NoEval \notin Evals \cup Interrupts

VARIABLES
  init,        \* how far initWorker() got
  waiting,     \* the calls that await initWorkerPromise
  call,        \* each call of evaluate()
  ask,         \* each call of interrupt()
  end,         \* the call of terminate()
  handle,      \* interruptHandle, as the main thread knows it
  toWorker, toMain,  \* the messages under way
  alive,       \* the worker thread exists
  running,     \* the evaluation inside runInterruptible()
  killed,      \* the native interrupt has hit it
  lock,        \* the evaluation that holds evaluationLock
  script,      \* the scripts that were started and have not ended
  busy,        \* the script that runs between two of its awaits
  alone,       \* history: evaluations sent while no other was pending
  asked,       \* history: evaluations pending when an interrupt was sent
  aimed        \* history: of them, with no message under way

worker  == << alive, running, killed, lock, script, busy >>
history == << alone, asked, aimed >>
vars == << init, waiting, call, ask, end, handle, toWorker, toMain, worker, history >>

Evaluate(e)  == << "evaluate", e >>
Interrupt(i) == << "interrupt", i >>
Terminate    == << "terminate", NoEval >>
Requests == { Evaluate(e) : e \in Evals } \cup { Interrupt(i) : i \in Interrupts }

Outcomes == { "settled", "interrupted", "refused" }
Posts == { << "handle", h, "null" >> : h \in Evals \cup { NoEval } }
           \cup { << "answer", e, o >> : e \in Evals, o \in Outcomes }
           \cup { << "reply", i, o >> : i \in Interrupts, o \in { "true", "false" } }

Pending == { e \in Evals : call[e] = "sent" }

Init ==
  /\ init = "starting" /\ waiting = << >> /\ end = "none" /\ handle = NoEval
  /\ call = [e \in Evals |-> "none"] /\ ask = [i \in Interrupts |-> "none"]
  /\ toWorker = << >> /\ toMain = << >>
  /\ alive = TRUE /\ running = NoEval /\ killed = FALSE /\ lock = NoEval /\ script = {}
  /\ busy = NoEval
  /\ alone = {} /\ asked = {} /\ aimed = {}

-----------------------------------------------------------------------------
(* initWorker(): the 'ready' message or an 'error' event, then the init()  *)
(* call, whose service provider connects or fails to.                      *)

WorkerReady ==
  /\ init = "starting" /\ init' = "connecting"
  /\ UNCHANGED << waiting, call, ask, end, handle, toWorker, toMain, worker, history >>

\* An error at start ends the worker.
StartFails ==
  /\ init = "starting" /\ init' = "failed" /\ alive' = FALSE
  /\ UNCHANGED << waiting, call, ask, end, handle, toWorker, toMain, running, killed,
                  lock, script, busy, history >>

\* init() is answered; workerProcess is only assigned when it succeeded.
InitSettles(result) ==
  /\ init = "connecting" /\ init' = result
  /\ UNCHANGED << waiting, call, ask, end, handle, toWorker, toMain, worker, history >>

-----------------------------------------------------------------------------
(* The main thread's calls.                                                *)

CallEvaluate(e) ==
  /\ call[e] = "none" /\ call' = [call EXCEPT ![e] = "waiting"]
  /\ waiting' = Append(waiting, Evaluate(e))
  /\ UNCHANGED << init, ask, end, handle, toWorker, toMain, worker, history >>

CallInterrupt(i) ==
  /\ ask[i] = "none" /\ ask' = [ask EXCEPT ![i] = "waiting"]
  /\ waiting' = Append(waiting, Interrupt(i))
  /\ UNCHANGED << init, call, end, handle, toWorker, toMain, worker, history >>

CallTerminate ==
  /\ end = "none" /\ end' = "waiting"
  /\ waiting' = Append(waiting, Terminate)
  /\ UNCHANGED << init, call, ask, handle, toWorker, toMain, worker, history >>

\* The await of initWorkerPromise of the first call that waits is over.
Resumes(item) ==
  /\ init \in { "ready", "failed" } /\ waiting # << >> /\ Head(waiting) = item
  /\ waiting' = Tail(waiting)

SendEvaluate(e) ==
  /\ Resumes(Evaluate(e))
  /\ \/ init = "failed" /\ call' = [call EXCEPT ![e] = "threw"]
        /\ UNCHANGED << toWorker, alone >>
     \/ init = "ready" /\ call' = [call EXCEPT ![e] = "sent"]
        /\ toWorker' = Append(toWorker, Evaluate(e))
        /\ alone' = IF Pending = {} THEN alone \cup { e } ELSE alone
  /\ UNCHANGED << init, ask, end, handle, toMain, worker, asked, aimed >>

\* The history of an interrupt that is sent.
NoteInterrupt ==
  /\ asked' = asked \cup Pending
  /\ aimed' = IF toWorker = << >> /\ toMain = << >> THEN aimed \cup Pending ELSE aimed

\* With a handle, the native interrupt, which has no effect once the worker
\* has left runInterruptible(); without, the worker's own interrupt().
SendInterrupt(i) ==
  /\ Resumes(Interrupt(i))
  /\ \/ init = "failed" /\ ask' = [ask EXCEPT ![i] = "threw"]
        /\ UNCHANGED << toWorker, killed, asked, aimed >>
     \/ /\ init = "ready" /\ handle # NoEval
        /\ ask' = [ask EXCEPT ![i] = "true"]
        /\ killed' = (killed \/ (alive /\ running = handle))
        /\ NoteInterrupt /\ UNCHANGED toWorker
     \/ /\ init = "ready" /\ handle = NoEval
        /\ ask' = [ask EXCEPT ![i] = "sent"]
        /\ toWorker' = Append(toWorker, Interrupt(i))
        /\ NoteInterrupt /\ UNCHANGED killed
  /\ UNCHANGED << init, call, end, handle, toMain, alive, running, lock, script, busy,
                  alone >>

\* terminate(): cancel the calls in flight, end the worker if it is known.
SendTerminate ==
  /\ Resumes(Terminate)
  /\ end' = "done"
  /\ call' = [e \in Evals |-> IF e \in Pending THEN "cancelled" ELSE call[e]]
  /\ alive' = (alive /\ init # "ready")
  /\ UNCHANGED << init, ask, handle, toWorker, toMain, running, killed, lock, script,
                  busy, history >>

\* A message of the worker: a new handle, an answer, a reply.
Receive ==
  /\ toMain # << >> /\ (waiting # << >> => init \notin { "ready", "failed" })
  /\ toMain' = Tail(toMain)
  /\ LET m == Head(toMain) IN
     \/ m[1] = "handle" /\ handle' = m[2] /\ UNCHANGED << call, ask >>
     \/ /\ m[1] = "answer" /\ UNCHANGED << handle, ask >>
        /\ call' = IF call[m[2]] = "sent" THEN [call EXCEPT ![m[2]] = m[3]] ELSE call
     \/ m[1] = "reply" /\ ask' = [ask EXCEPT ![m[2]] = m[3]] /\ UNCHANGED << handle, call >>
  /\ UNCHANGED << init, waiting, end, toWorker, worker, history >>

-----------------------------------------------------------------------------
(* The worker.                                                             *)

Post(messages) == toMain' = toMain \o messages

Handle(h)    == << << "handle", h, "null" >> >>
Answer(e, o) == << << "answer", e, o >> >>

Reply(i, o)  == << << "reply", i, o >> >>

\* The worker takes a request when no script runs synchronously.
Take(request) ==
  /\ alive /\ running = NoEval /\ busy = NoEval
  /\ toWorker # << >> /\ Head(toWorker) = request
  /\ toWorker' = Tail(toWorker)

\* evaluate(): refused while another evaluation holds the lock.
TakeEvaluate(e) ==
  /\ Take(Evaluate(e))
  /\ \/ lock # NoEval /\ Post(Answer(e, "refused")) /\ UNCHANGED << running, script >>
     \/ lock = NoEval /\ running' = e /\ script' = script \cup { e }
        /\ Post(Handle(e))
  /\ UNCHANGED << init, waiting, call, ask, end, handle, alive, killed, lock, busy, history >>

\* Faulty SyncReturns: the null handle is not posted.
SyncReturnsQuietly(e) ==
  /\ alive /\ running = e /\ ~killed
  /\ running' = NoEval /\ lock' = e
  /\ UNCHANGED << init, waiting, call, ask, end, handle, toWorker, toMain, alive, killed, script,
                  busy, history >>

\* The synchronous part is over: the null handle, then the race of the
\* script's promise with the lock.
SyncReturns(e) ==
  /\ alive /\ running = e /\ ~killed
  /\ running' = NoEval /\ lock' = e
  /\ Post(Handle(NoEval))
  /\ UNCHANGED << init, waiting, call, ask, end, handle, toWorker, alive, killed, script,
                  busy, history >>

\* Faulty SyncKilled: the native interrupt stays requested.
SyncKilledLatched(e) ==
  /\ alive /\ running = e /\ killed
  /\ running' = NoEval /\ UNCHANGED killed /\ script' = script \ { e }
  /\ Post(Handle(NoEval) \o Answer(e, "interrupted"))
  /\ UNCHANGED << init, waiting, call, ask, end, handle, toWorker, alive, lock, busy, history >>

\* Faulty SyncKilled: the answer is posted before the null handle.
SyncKilledAnswerFirst(e) ==
  /\ alive /\ running = e /\ killed
  /\ running' = NoEval /\ killed' = FALSE /\ script' = script \ { e }
  /\ Post(Answer(e, "interrupted") \o Handle(NoEval))
  /\ UNCHANGED << init, waiting, call, ask, end, handle, toWorker, alive, lock, busy, history >>

\* The synchronous part is killed: there is no promise, the race is over.
SyncKilled(e) ==
  /\ alive /\ running = e /\ killed
  /\ running' = NoEval /\ killed' = FALSE /\ script' = script \ { e }
  /\ Post(Handle(NoEval) \o Answer(e, "interrupted"))
  /\ UNCHANGED << init, waiting, call, ask, end, handle, toWorker, alive, lock, busy, history >>

\* What a script awaited is there and it goes on, as a task of its own: it runs
\* synchronously, but outside runInterruptible() and with the null handle posted.
ScriptGoesOn(e) ==
  /\ alive /\ running = NoEval /\ e \in script /\ busy = NoEval
  /\ busy' = e
  /\ UNCHANGED << init, waiting, call, ask, end, handle, toWorker, toMain, alive, running,
                  killed, lock, script, history >>

\* It awaits something again.
ScriptAwaits(e) ==
  /\ alive /\ busy = e /\ busy' = NoEval
  /\ UNCHANGED << init, waiting, call, ask, end, handle, toWorker, toMain, alive, running,
                  killed, lock, script, history >>

\* Faulty ScriptSettles: unlocks only after an interrupt.
ScriptSettlesLocked(e) ==
  /\ alive /\ running = NoEval /\ e \in script /\ busy \in { NoEval, e }
  /\ script' = script \ { e } /\ busy' = NoEval
  /\ \/ lock = e /\ UNCHANGED lock /\ Post(Answer(e, "settled"))
     \/ lock # e /\ UNCHANGED << lock, toMain >>
  /\ UNCHANGED << init, waiting, call, ask, end, handle, toWorker, alive, running, killed,
                  history >>

\* The script's promise settles; when its evaluation was abandoned before
\* nobody waits for it.
ScriptSettles(e) ==
  /\ alive /\ running = NoEval /\ e \in script /\ busy \in { NoEval, e }
  /\ script' = script \ { e } /\ busy' = NoEval
  /\ \/ lock = e /\ lock' = NoEval /\ Post(Answer(e, "settled"))
     \/ lock # e /\ UNCHANGED << lock, toMain >>
  /\ UNCHANGED << init, waiting, call, ask, end, handle, toWorker, alive, running, killed,
                  history >>

\* interrupt(): unlock, which abandons the evaluation that holds the lock.
TakeInterrupt(i) ==
  /\ Take(Interrupt(i))
  /\ \/ lock = NoEval /\ Post(Reply(i, "false")) /\ UNCHANGED lock
     \/ lock # NoEval /\ lock' = NoEval
        /\ Post(Reply(i, "true") \o Answer(lock, "interrupted"))
  /\ UNCHANGED << init, waiting, call, ask, end, handle, alive, running, killed, script,
                  busy, history >>

-----------------------------------------------------------------------------

Start    == WorkerReady \/ StartFails
Settle   == InitSettles("ready") \/ InitSettles("failed")
Continue == \/ \E e \in Evals : SendEvaluate(e)
            \/ \E i \in Interrupts : SendInterrupt(i)
            \/ SendTerminate
Work     == \/ \E e \in Evals : TakeEvaluate(e) \/ SyncKilled(e)
            \/ \E i \in Interrupts : TakeInterrupt(i)
Scripts  == \E e \in Evals :
              SyncReturns(e) \/ ScriptGoesOn(e) \/ ScriptAwaits(e) \/ ScriptSettles(e)
User     == \/ \E e \in Evals : CallEvaluate(e)
            \/ \E i \in Interrupts : CallInterrupt(i)
            \/ CallTerminate

Next == Start \/ Settle \/ Continue \/ Receive \/ Work \/ Scripts \/ User

Spec == Init /\ [][Next]_vars

\* Fairness: both event loops run, and connecting times out.  The worker's loop
\* gets its turn whenever a script awaits; scripts need neither end nor await.
FairSpec == Spec /\ WF_vars(Start) /\ WF_vars(Settle) /\ WF_vars(Continue)
                 /\ WF_vars(Receive) /\ SF_vars(Work)

-----------------------------------------------------------------------------
(* Properties.                                                             *)

\* The types of the variables, and of the messages under way.
TypeOK ==
  /\ init \in { "starting", "connecting", "ready", "failed" }
  /\ waiting \in Seq(Requests \cup { Terminate })
  /\ call \in [Evals -> { "none", "waiting", "sent", "threw", "cancelled" } \cup Outcomes]
  /\ ask \in [Interrupts -> { "none", "waiting", "sent", "threw", "true", "false" }]
  /\ end \in { "none", "waiting", "done" }
  /\ handle \in Evals \cup { NoEval } /\ running \in Evals \cup { NoEval }
  /\ lock \in Evals \cup { NoEval }
  /\ toWorker \in Seq(Requests) /\ toMain \in Seq(Posts)
  /\ alive \in BOOLEAN /\ killed \in BOOLEAN
  /\ script \subseteq Evals /\ busy \in Evals \cup { NoEval } /\ alone \subseteq Evals
  /\ asked \subseteq Evals /\ aimed \subseteq Evals

\* An evaluation sent while no other was pending is not refused: whoever
\* waits for each answer never meets "Can't run another evaluation", not
\* even after an interrupt that left the earlier script running.
NeverRefusedAlone == \A e \in alone : call[e] # "refused"

\* The handle the main thread holds belongs to an evaluation it still waits
\* for (or has cancelled): interrupt() never spends itself on a script that
\* was answered, because the null handle is posted before the answer.
HandleIsCurrent == handle # NoEval => call[handle] \in { "sent", "cancelled" }

\* Only an evaluation that was pending when an interrupt was sent is ever
\* answered as interrupted: no late interrupt hits the next evaluation.
InterruptsOnlyEarlier == \A e \in Evals : call[e] = "interrupted" => e \in asked

\* An interrupt hits the evaluation it was meant for, by whichever of its two
\* ways it goes (index.ts:115-122, worker-runtime.ts:128-177).
InterruptsAimed == HandleIsCurrent /\ InterruptsOnlyEarlier

\* An evaluation neither stands in the way of a later one nor passes an interrupt
\* on to it, though its script may go on after it was answered.
EvaluationsApart == NeverRefusedAlone /\ InterruptsAimed

\* An interrupt sent with no message under way ends every evaluation that is
\* pending, be it inside an endless loop or an endless await; unless a script,
\* its own or an abandoned one, never comes back from a loop after an await.
InterruptIsEffective ==
  \A e \in Evals : e \in aimed ~> call[e] # "sent" \/ [](busy # NoEval)

\* What the comment in terminate() and the test "should terminate child
\* process" say: once terminate() is through the worker is gone.
TerminateEndsWorker == end = "done" => ~alive

=============================================================================
