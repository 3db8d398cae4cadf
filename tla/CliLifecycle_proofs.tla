-------------------------- MODULE CliLifecycle_proofs --------------------------
(***************************************************************************)
(* Proofs about CliLifecycle and WorkerRuntime: for any calls of exit(),   *)
(* with any codes, in any number of pieces of user code, the process ends  *)
(* with the code it was asked to end with, and after everything was        *)
(* closed; for any evaluations and interrupts of a worker thread, none     *)
(* stands in the way of another.                                           *)
(***************************************************************************)
EXTENDS Processes, SequenceTheorems, TLAPS

-----------------------------------------------------------------------------
(* The process of the CLI.                                                 *)

\* Until initialize() is through nothing but _start() can ask for an exit.
Early ==
  stage \in { "setup", "connect", "initialize" } =>
    /\ runtime = "none" /\ replState = "none" /\ ~deferred /\ conns = "none"
    /\ exit = "none" /\ closing = "no" /\ code = "idle"
    /\ phase = [c \in Calls |-> "new"]

\* Who closes the shell has taken the runtime state, and the connections are
\* open only while that is to happen or is happening.
ShellParts ==
  /\ closing # "no" \/ exit # "none" => runtime # "open"
  /\ runtime # "gone" => shell.by = "none"
  /\ shell.by = "none" => shell.awaits = "none"
  /\ shell.by = "exit" => exit # "none"
  /\ shell.by = "cli" => closing # "no"
  /\ exit = "cli" => closing # "no"
  /\ conns = "open" => runtime = "open" \/ shell.awaits # "none"

\* onExit() closes open connections itself only after the end of the input,
\* at the prompt, where no startup error can overtake it.
ExitParts ==
  /\ shell.by = "exit" /\ conns = "open" => stage = "started" /\ closing = "no"
  /\ deferred => replState = "ended"
  /\ replState = "ended" /\ runtime = "open" => stage = "started" /\ eof
  /\ closing \in { "flush", "done" } => conns # "open"

\* The promise of onExit() carries the first code, until close() was called
\* by somebody else.
CodeParts ==
  /\ exit = "none" => first = NoCode
  /\ exit # "none" => exitCode # NoCode /\ (closing = "no" => exitCode = first)
  /\ deferred /\ exit = "none" /\ closing = "no" => eof
  /\ own # NoCode => stage = "exiting"

\* A startup error is on its way to main(), and those who wait for close()
\* are headed by the first one.
WaiterParts ==
  /\ failing <=> stage \in { "failed", "rethrown" }
  /\ \A i \in 1 .. Len(waiters) : waiters[i] = Startup => failing
  /\ closing = "no" => waiters = << >>
  /\ closing # "no" /\ Alive /\ ~failing =>
       waiters # << >> /\ waiters[1] \in { first, own }

\* What was set up is flushed when close() is through, which is before
\* anything it was called for can happen.
EndParts ==
  /\ closing = "done" => flushed = logging
  /\ ~Alive \/ stage = "rethrown" => closing = "done"
  /\ EndsAsAsked

\* The inductive invariant.
IInv ==
  TypeOK /\ Early /\ ShellParts /\ ExitParts /\ CodeParts /\ WaiterParts /\ EndParts

\* What waits for close() after one more call of it.
Appended(w) ==
  LET longer == Append(waiters, w) IN
  /\ longer \in Seq(Codes \cup { Startup }) /\ longer # << >> /\ longer[1] # NoCode
  /\ longer[1] = IF waiters = << >> THEN w ELSE waiters[1]
  /\ \A i \in 1 .. Len(longer) :
       longer[i] = Startup => w = Startup \/ \E j \in 1 .. Len(waiters) : waiters[j] = Startup

-----------------------------------------------------------------------------

\* A further call of close() is appended to those who wait for it.
LEMMA AppendWaiter ==
  ASSUME WaitersTyped
  PROVE  \A w \in Codes \cup { Startup } : Appended(w)
  <1> SUFFICES ASSUME NEW w \in Codes \cup { Startup } PROVE Appended(w)
    OBVIOUS
  <1> DEFINE longer == Append(waiters, w)
  <1>1. longer \in Seq(Codes \cup { Startup })
    BY AppendProperties DEF WaitersTyped
  <1>2. longer # << >> /\ longer[1] = IF waiters = << >> THEN w ELSE waiters[1]
    BY AppendProperties DEF WaitersTyped
  <1>4. longer[1] # NoCode
    BY <1>1, <1>2, LifecycleAssumption DEF Codes
  <1>3. ASSUME NEW i \in 1 .. Len(longer), longer[i] = Startup, w # Startup
        PROVE  \E j \in 1 .. Len(waiters) : waiters[j] = Startup
    BY <1>3 DEF WaitersTyped
  <1> QED
    BY <1>1, <1>2, <1>3, <1>4 DEF Appended

\* The inductive invariant holds initially.
LEMMA InitIInv == Init => IInv
  <1> SUFFICES ASSUME Init PROVE IInv
    OBVIOUS
  <1>1. TypeOK
    <2> MaxRuns \in 0 .. MaxRuns
      BY LifecycleAssumption
    <2>1. StartTyped
      BY DEF Init, StartTyped, Stages
    <2>2. PhasesTyped /\ ExitTyped /\ ShellTyped
      BY DEF Init, PhasesTyped, ExitTyped, ShellTyped
    <2>3. WaitersTyped
      BY DEF Init, WaitersTyped
    <2>4. EndTyped
      BY DEF Init, EndTyped
    <2> QED
      BY <2>1, <2>2, <2>3, <2>4 DEF TypeOK
  <1>2. Early /\ ShellParts /\ ExitParts /\ CodeParts
    BY DEF Init, Early, ShellParts, ExitParts, CodeParts
  <1>3. WaiterParts /\ EndParts
    BY DEF Init, WaiterParts, EndParts, EndsAsAsked, Alive
  <1> QED
    BY <1>1, <1>2, <1>3 DEF IInv

\* AskCli preserves the inductive invariant.
LEMMA AskCliIInv ==
  ASSUME IInv, Alive, AskCli
  PROVE  IInv'
  <1> USE LifecycleAssumption DEF IInv, Alive, AskCli, Close, TakeRuntime,
       ShellClosedFor, HasRepl, startVars, replVars, exitVars, closeVars,
       keptVars, history
  <1>1. TypeOK'
    <2>1. StartTyped'
      BY DEF TypeOK, StartTyped, Stages
    <2>2. PhasesTyped'
      BY DEF TypeOK, PhasesTyped
    <2>3. ExitTyped'
      BY DEF TypeOK, ExitTyped, Codes
    <2>4. ShellTyped'
      BY DEF TypeOK, ShellTyped
    <2>5. WaitersTyped'
      BY AppendWaiter DEF Appended, TypeOK, WaitersTyped, ExitTyped, Codes, CodeParts
    <2>6. EndTyped'
      BY DEF TypeOK, EndTyped, Codes
    <2> QED
      BY ONLY <2>1, <2>2, <2>3, <2>4, <2>5, <2>6 DEF TypeOK
  <1>2. Early'
    BY DEF TypeOK, StartTyped, ExitTyped, EndTyped, Early, ShellParts
  <1>3. ShellParts'
    BY DEF TypeOK, StartTyped, ExitTyped, EndTyped, Early, ShellParts
  <1>4. ExitParts'
    BY DEF TypeOK, StartTyped, ExitTyped, EndTyped, Early, ShellParts, ExitParts
  <1>5. CodeParts'
    BY DEF TypeOK, StartTyped, ExitTyped, EndTyped, Codes, Early, ShellParts, ExitParts,
       CodeParts
  <1>6. WaiterParts'
    BY AppendWaiter, ZenonT(60) DEF Appended, TypeOK, StartTyped, ExitTyped, EndTyped, Codes,
       Early, CodeParts, WaiterParts
  <1>7. EndParts'
    BY DEF TypeOK, StartTyped, ExitTyped, EndTyped, WaitersTyped, Codes, Early, WaiterParts,
       EndParts, EndsAsAsked
  <1> QED
    BY ONLY <1>1, <1>2, <1>3, <1>4, <1>5, <1>6, <1>7 DEF IInv

\* CloseConnections preserves the inductive invariant.
LEMMA CloseConnectionsIInv ==
  ASSUME IInv, Alive, CloseConnections
  PROVE  IInv'
  <1> USE LifecycleAssumption DEF IInv, Alive, CloseConnections, startVars,
       replVars, exitVars, closeVars, keptVars, history
  <1>1. TypeOK'
    <2>1. StartTyped'
      BY DEF TypeOK, StartTyped, Stages
    <2>2. PhasesTyped'
      BY DEF TypeOK, PhasesTyped
    <2>3. ExitTyped'
      BY DEF TypeOK, ExitTyped, Codes
    <2>4. ShellTyped'
      BY DEF TypeOK, ShellTyped
    <2>5. WaitersTyped'
      BY DEF TypeOK, WaitersTyped, ExitTyped, Codes
    <2>6. EndTyped'
      BY DEF TypeOK, EndTyped, Codes
    <2> QED
      BY ONLY <2>1, <2>2, <2>3, <2>4, <2>5, <2>6 DEF TypeOK
  <1>2. Early'
    BY DEF TypeOK, StartTyped, ExitTyped, EndTyped, Early, ShellParts
  <1>3. ShellParts'
    BY DEF TypeOK, StartTyped, ExitTyped, EndTyped, Early, ShellParts
  <1>4. ExitParts'
    BY DEF TypeOK, StartTyped, ExitTyped, EndTyped, Early, ShellParts, ExitParts
  <1>5. CodeParts'
    BY DEF TypeOK, StartTyped, ExitTyped, EndTyped, Codes, Early, ShellParts, ExitParts,
       CodeParts
  <1>6. WaiterParts'
    BY DEF TypeOK, StartTyped, ExitTyped, EndTyped, WaitersTyped, Codes, Early, CodeParts,
       WaiterParts
  <1>7. EndParts'
    BY DEF TypeOK, StartTyped, ExitTyped, EndTyped, WaitersTyped, Codes, Early, WaiterParts,
       EndParts, EndsAsAsked
  <1> QED
    BY ONLY <1>1, <1>2, <1>3, <1>4, <1>5, <1>6, <1>7 DEF IInv

\* FlushOutput preserves the inductive invariant.
LEMMA FlushOutputIInv ==
  ASSUME IInv, Alive, FlushOutput
  PROVE  IInv'
  <1> USE LifecycleAssumption DEF IInv, Alive, FlushOutput, ShellClosedFor,
       startVars, replVars, exitVars, closeVars, keptVars, history
  <1>1. TypeOK'
    <2>1. StartTyped'
      BY DEF TypeOK, StartTyped, Stages
    <2>2. PhasesTyped'
      BY DEF TypeOK, PhasesTyped
    <2>3. ExitTyped'
      BY DEF TypeOK, ExitTyped, Codes
    <2>4. ShellTyped'
      BY DEF TypeOK, ShellTyped
    <2>5. WaitersTyped'
      BY DEF TypeOK, WaitersTyped, ExitTyped, Codes
    <2>6. EndTyped'
      BY DEF TypeOK, EndTyped, Codes
    <2> QED
      BY ONLY <2>1, <2>2, <2>3, <2>4, <2>5, <2>6 DEF TypeOK
  <1>2. Early'
    BY DEF TypeOK, StartTyped, ExitTyped, EndTyped, ShellTyped, Early, ShellParts
  <1>3. ShellParts'
    BY DEF TypeOK, StartTyped, ExitTyped, EndTyped, ShellTyped, Early, ShellParts
  <1>4. ExitParts'
    BY DEF TypeOK, StartTyped, ExitTyped, EndTyped, ShellTyped, Early, ShellParts, ExitParts
  <1>5. CodeParts'
    BY DEF TypeOK, StartTyped, ExitTyped, EndTyped, ShellTyped, Codes, Early, ShellParts,
       ExitParts, CodeParts
  <1>6. WaiterParts'
    BY DEF TypeOK, StartTyped, ExitTyped, EndTyped, ShellTyped, WaitersTyped, Codes, Early,
       CodeParts, WaiterParts
  <1>7. EndParts'
    BY DEF TypeOK, StartTyped, ExitTyped, EndTyped, ShellTyped, WaitersTyped, Codes, Early,
       WaiterParts, EndParts, EndsAsAsked
  <1> QED
    BY ONLY <1>1, <1>2, <1>3, <1>4, <1>5, <1>6, <1>7 DEF IInv

\* FlushTelemetry preserves the inductive invariant.
LEMMA FlushTelemetryIInv ==
  ASSUME IInv, Alive, FlushTelemetry
  PROVE  IInv'
  <1> USE LifecycleAssumption DEF IInv, Alive, FlushTelemetry, startVars,
       replVars, exitVars, closeVars, keptVars, history
  <1>1. TypeOK'
    <2>1. StartTyped'
      BY DEF TypeOK, StartTyped, Stages
    <2>2. PhasesTyped'
      BY DEF TypeOK, PhasesTyped
    <2>3. ExitTyped'
      BY DEF TypeOK, ExitTyped, Codes
    <2>4. ShellTyped'
      BY DEF TypeOK, ShellTyped
    <2>5. WaitersTyped'
      BY DEF TypeOK, WaitersTyped, ExitTyped, Codes
    <2>6. EndTyped'
      BY DEF TypeOK, EndTyped, Codes
    <2> QED
      BY ONLY <2>1, <2>2, <2>3, <2>4, <2>5, <2>6 DEF TypeOK
  <1>2. Early'
    BY DEF TypeOK, StartTyped, ExitTyped, EndTyped, Early, ShellParts
  <1>3. ShellParts'
    BY DEF TypeOK, StartTyped, ExitTyped, EndTyped, Early, ShellParts
  <1>4. ExitParts'
    BY DEF TypeOK, StartTyped, ExitTyped, EndTyped, Early, ShellParts, ExitParts
  <1>5. CodeParts'
    BY DEF TypeOK, StartTyped, ExitTyped, EndTyped, Codes, Early, ShellParts, ExitParts,
       CodeParts
  <1>6. WaiterParts'
    BY DEF TypeOK, StartTyped, ExitTyped, EndTyped, WaitersTyped, Codes, Early, CodeParts,
       WaiterParts
  <1>7. EndParts'
    BY DEF TypeOK, StartTyped, ExitTyped, EndTyped, WaitersTyped, Codes, Early, WaiterParts,
       EndParts, EndsAsAsked
  <1> QED
    BY ONLY <1>1, <1>2, <1>3, <1>4, <1>5, <1>6, <1>7 DEF IInv

\* Resume preserves the inductive invariant.
LEMMA ResumeIInv ==
  ASSUME IInv, Alive, Resume
  PROVE  IInv'
  <1> USE LifecycleAssumption DEF IInv, Alive, Resume, startVars, replVars,
       exitVars, closeVars, keptVars, history
  <1>1. TypeOK'
    <2>1. StartTyped'
      BY DEF TypeOK, StartTyped, Stages
    <2>2. PhasesTyped'
      BY DEF TypeOK, PhasesTyped
    <2>3. ExitTyped'
      BY DEF TypeOK, ExitTyped, Codes
    <2>4. ShellTyped'
      BY DEF TypeOK, ShellTyped
    <2>5. WaitersTyped'
      BY DEF TypeOK, WaitersTyped, ExitTyped, Codes
    <2>6. EndTyped'
      BY DEF TypeOK, EndTyped, Codes, WaitersTyped
    <2> QED
      BY ONLY <2>1, <2>2, <2>3, <2>4, <2>5, <2>6 DEF TypeOK
  <1>2. Early'
    BY DEF TypeOK, StartTyped, ExitTyped, EndTyped, Early, ShellParts
  <1>3. ShellParts'
    BY DEF TypeOK, StartTyped, ExitTyped, EndTyped, Early, ShellParts
  <1>4. ExitParts'
    BY DEF TypeOK, StartTyped, ExitTyped, EndTyped, Early, ShellParts, ExitParts
  <1>5. CodeParts'
    BY DEF TypeOK, StartTyped, ExitTyped, EndTyped, Codes, Early, ShellParts, ExitParts,
       CodeParts, WaiterParts
  <1>6. WaiterParts'
    BY DEF TypeOK, StartTyped, ExitTyped, EndTyped, WaitersTyped, Codes, Early, CodeParts,
       WaiterParts
  <1>7. EndParts'
    BY DEF TypeOK, StartTyped, ExitTyped, EndTyped, WaitersTyped, Codes, Early, WaiterParts,
       EndParts, EndsAsAsked
  <1> QED
    BY ONLY <1>1, <1>2, <1>3, <1>4, <1>5, <1>6, <1>7 DEF IInv

\* ExitOfMain preserves the inductive invariant.
LEMMA ExitOfMainIInv ==
  ASSUME IInv, Alive, ExitOfMain
  PROVE  IInv'
  <1> USE LifecycleAssumption DEF IInv, Alive, ExitOfMain, startVars,
       replVars, exitVars, closeVars, keptVars, history
  <1>1. TypeOK'
    <2>1. StartTyped'
      BY DEF TypeOK, StartTyped, Stages
    <2>2. PhasesTyped'
      BY DEF TypeOK, PhasesTyped
    <2>3. ExitTyped'
      BY DEF TypeOK, ExitTyped, Codes
    <2>4. ShellTyped'
      BY DEF TypeOK, ShellTyped
    <2>5. WaitersTyped'
      BY DEF TypeOK, WaitersTyped, ExitTyped, Codes
    <2>6. EndTyped'
      BY DEF TypeOK, EndTyped, Codes
    <2> QED
      BY ONLY <2>1, <2>2, <2>3, <2>4, <2>5, <2>6 DEF TypeOK
  <1>2. Early'
    BY DEF TypeOK, StartTyped, ExitTyped, EndTyped, Early, ShellParts
  <1>3. ShellParts'
    BY DEF TypeOK, StartTyped, ExitTyped, EndTyped, Early, ShellParts
  <1>4. ExitParts'
    BY DEF TypeOK, StartTyped, ExitTyped, EndTyped, Early, ShellParts, ExitParts
  <1>5. CodeParts'
    BY DEF TypeOK, StartTyped, ExitTyped, EndTyped, Codes, Early, ShellParts, ExitParts,
       CodeParts
  <1>6. WaiterParts'
    BY DEF TypeOK, StartTyped, ExitTyped, EndTyped, WaitersTyped, Codes, Early, CodeParts,
       WaiterParts
  <1>7. EndParts'
    BY DEF TypeOK, StartTyped, ExitTyped, EndTyped, WaitersTyped, Codes, Early, WaiterParts,
       EndParts, EndsAsAsked
  <1> QED
    BY ONLY <1>1, <1>2, <1>3, <1>4, <1>5, <1>6, <1>7 DEF IInv

\* EmitExit preserves the inductive invariant.
LEMMA EmitExitIInv ==
  ASSUME IInv, Alive, EmitExit
  PROVE  IInv'
  <1> USE LifecycleAssumption DEF IInv, Alive, EmitExit, RememberExit,
       startVars, replVars, exitVars, closeVars, keptVars, history
  <1>1. TypeOK'
    <2>1. StartTyped'
      BY DEF TypeOK, StartTyped, Stages
    <2>2. PhasesTyped'
      BY DEF TypeOK, PhasesTyped
    <2>3. ExitTyped'
      BY DEF TypeOK, ExitTyped, Codes
    <2>4. ShellTyped'
      BY DEF TypeOK, ShellTyped
    <2>5. WaitersTyped'
      BY DEF TypeOK, WaitersTyped, ExitTyped, Codes
    <2>6. EndTyped'
      BY DEF TypeOK, EndTyped, Codes
    <2> QED
      BY ONLY <2>1, <2>2, <2>3, <2>4, <2>5, <2>6 DEF TypeOK
  <1>2. Early'
    BY DEF TypeOK, StartTyped, ExitTyped, EndTyped, ShellTyped, Early, ShellParts
  <1>3. ShellParts'
    BY DEF TypeOK, StartTyped, ExitTyped, EndTyped, ShellTyped, Early, ShellParts
  <1>4. ExitParts'
    BY DEF TypeOK, StartTyped, ExitTyped, EndTyped, ShellTyped, Early, ShellParts, ExitParts
  <1>5. CodeParts'
    BY DEF TypeOK, StartTyped, ExitTyped, EndTyped, ShellTyped, Codes, Early, ShellParts,
       ExitParts, CodeParts
  <1>6. WaiterParts'
    BY DEF TypeOK, StartTyped, ExitTyped, EndTyped, ShellTyped, WaitersTyped, Codes, Early,
       CodeParts, WaiterParts
  <1>7. EndParts'
    BY DEF TypeOK, StartTyped, ExitTyped, EndTyped, ShellTyped, WaitersTyped, Codes, Early,
       WaiterParts, EndParts, EndsAsAsked
  <1> QED
    BY ONLY <1>1, <1>2, <1>3, <1>4, <1>5, <1>6, <1>7 DEF IInv

\* EndOfInput preserves the inductive invariant.
LEMMA EndOfInputIInv ==
  ASSUME IInv, Alive, EndOfInput
  PROVE  IInv'
  <1> USE LifecycleAssumption DEF IInv, Alive, EndOfInput, OnExit,
       RememberExit, TakeRuntime, NoteFirst, startVars, replVars, exitVars,
       closeVars, keptVars, history
  <1>1. TypeOK'
    <2>1. StartTyped'
      BY DEF TypeOK, StartTyped, Stages
    <2>2. PhasesTyped'
      BY DEF TypeOK, PhasesTyped
    <2>3. ExitTyped'
      BY DEF TypeOK, ExitTyped, Codes
    <2>4. ShellTyped'
      BY DEF TypeOK, ShellTyped
    <2>5. WaitersTyped'
      BY DEF TypeOK, WaitersTyped, ExitTyped, Codes
    <2>6. EndTyped'
      BY DEF TypeOK, EndTyped, Codes
    <2> QED
      BY ONLY <2>1, <2>2, <2>3, <2>4, <2>5, <2>6 DEF TypeOK
  <1>2. Early'
    BY DEF TypeOK, StartTyped, ExitTyped, EndTyped, Early, ShellParts
  <1>3. ShellParts'
    BY DEF TypeOK, StartTyped, ExitTyped, EndTyped, Early, ShellParts
  <1>4. ExitParts'
    BY DEF TypeOK, StartTyped, ExitTyped, EndTyped, Early, ShellParts, ExitParts
  <1>5. CodeParts'
    BY DEF TypeOK, StartTyped, ExitTyped, EndTyped, Codes, Early, ShellParts, ExitParts,
       CodeParts
  <1>6. WaiterParts'
    BY DEF TypeOK, StartTyped, ExitTyped, EndTyped, WaitersTyped, Codes, Early, CodeParts,
       WaiterParts
  <1>7. EndParts'
    BY DEF TypeOK, StartTyped, ExitTyped, EndTyped, WaitersTyped, Codes, Early, WaiterParts,
       EndParts, EndsAsAsked
  <1> QED
    BY ONLY <1>1, <1>2, <1>3, <1>4, <1>5, <1>6, <1>7 DEF IInv

\* EmitDeferred preserves the inductive invariant.
LEMMA EmitDeferredIInv ==
  ASSUME IInv, Alive, EmitDeferred
  PROVE  IInv'
  <1> USE LifecycleAssumption DEF IInv, Alive, EmitDeferred, OnExit,
       RememberExit, TakeRuntime, NoteFirst, startVars, replVars, exitVars,
       closeVars, keptVars, history
  <1>1. TypeOK'
    <2>1. StartTyped'
      BY DEF TypeOK, StartTyped, Stages
    <2>2. PhasesTyped'
      BY DEF TypeOK, PhasesTyped
    <2>3. ExitTyped'
      BY DEF TypeOK, ExitTyped, Codes
    <2>4. ShellTyped'
      BY DEF TypeOK, ShellTyped
    <2>5. WaitersTyped'
      BY DEF TypeOK, WaitersTyped, ExitTyped, Codes
    <2>6. EndTyped'
      BY DEF TypeOK, EndTyped, Codes
    <2> QED
      BY ONLY <2>1, <2>2, <2>3, <2>4, <2>5, <2>6 DEF TypeOK
  <1>2. Early'
    BY DEF TypeOK, StartTyped, ExitTyped, EndTyped, ShellTyped, Early, ShellParts
  <1>3. ShellParts'
    BY DEF TypeOK, StartTyped, ExitTyped, EndTyped, ShellTyped, Early, ShellParts
  <1>4. ExitParts'
    BY DEF TypeOK, StartTyped, ExitTyped, EndTyped, ShellTyped, Early, ShellParts, ExitParts
  <1>5. CodeParts'
    BY DEF TypeOK, StartTyped, ExitTyped, EndTyped, ShellTyped, Codes, Early, ShellParts,
       ExitParts, CodeParts
  <1>6. WaiterParts'
    BY DEF TypeOK, StartTyped, ExitTyped, EndTyped, ShellTyped, WaitersTyped, Codes, Early,
       CodeParts, WaiterParts
  <1>7. EndParts'
    BY DEF TypeOK, StartTyped, ExitTyped, EndTyped, ShellTyped, WaitersTyped, Codes, Early,
       WaiterParts, EndParts, EndsAsAsked
  <1> QED
    BY ONLY <1>1, <1>2, <1>3, <1>4, <1>5, <1>6, <1>7 DEF IInv

\* RunCode preserves the inductive invariant.
LEMMA RunCodeIInv ==
  ASSUME IInv, Alive, RunCode
  PROVE  IInv'
  <1> USE LifecycleAssumption DEF IInv, Alive, RunCode, startVars, replVars,
       exitVars, closeVars, keptVars, history
  <1>1. TypeOK'
    <2>1. StartTyped'
      BY DEF TypeOK, StartTyped, Stages
    <2>2. PhasesTyped'
      BY DEF TypeOK, PhasesTyped
    <2>3. ExitTyped'
      BY DEF TypeOK, ExitTyped, Codes
    <2>4. ShellTyped'
      BY DEF TypeOK, ShellTyped
    <2>5. WaitersTyped'
      BY DEF TypeOK, WaitersTyped, ExitTyped, Codes
    <2>6. EndTyped'
      BY DEF TypeOK, EndTyped, Codes
    <2> QED
      BY ONLY <2>1, <2>2, <2>3, <2>4, <2>5, <2>6 DEF TypeOK
  <1>2. Early'
    BY DEF TypeOK, StartTyped, ExitTyped, EndTyped, Early, ShellParts
  <1>3. ShellParts'
    BY DEF TypeOK, StartTyped, ExitTyped, EndTyped, Early, ShellParts
  <1>4. ExitParts'
    BY DEF TypeOK, StartTyped, ExitTyped, EndTyped, Early, ShellParts, ExitParts
  <1>5. CodeParts'
    BY DEF TypeOK, StartTyped, ExitTyped, EndTyped, Codes, Early, ShellParts, ExitParts,
       CodeParts
  <1>6. WaiterParts'
    BY DEF TypeOK, StartTyped, ExitTyped, EndTyped, WaitersTyped, Codes, Early, CodeParts,
       WaiterParts
  <1>7. EndParts'
    BY DEF TypeOK, StartTyped, ExitTyped, EndTyped, WaitersTyped, Codes, Early, WaiterParts,
       EndParts, EndsAsAsked
  <1> QED
    BY ONLY <1>1, <1>2, <1>3, <1>4, <1>5, <1>6, <1>7 DEF IInv

\* SetTimer(c) preserves the inductive invariant.
LEMMA SetTimerIInv ==
  ASSUME IInv, Alive, NEW c \in Calls, SetTimer(c)
  PROVE  IInv'
  <1> USE LifecycleAssumption DEF IInv, Alive, SetTimer, startVars,
       replVars, exitVars, closeVars, keptVars, history
  <1>1. TypeOK'
    <2>1. StartTyped'
      BY DEF TypeOK, StartTyped, Stages
    <2>2. PhasesTyped'
      BY DEF TypeOK, PhasesTyped
    <2>3. ExitTyped'
      BY DEF TypeOK, ExitTyped, Codes
    <2>4. ShellTyped'
      BY DEF TypeOK, ShellTyped
    <2>5. WaitersTyped'
      BY DEF TypeOK, WaitersTyped, ExitTyped, Codes
    <2>6. EndTyped'
      BY DEF TypeOK, EndTyped, Codes
    <2> QED
      BY ONLY <2>1, <2>2, <2>3, <2>4, <2>5, <2>6 DEF TypeOK
  <1>2. Early'
    BY DEF TypeOK, StartTyped, ExitTyped, EndTyped, Early, ShellParts
  <1>3. ShellParts'
    BY DEF TypeOK, StartTyped, ExitTyped, EndTyped, Early, ShellParts
  <1>4. ExitParts'
    BY DEF TypeOK, StartTyped, ExitTyped, EndTyped, Early, ShellParts, ExitParts
  <1>5. CodeParts'
    BY DEF TypeOK, StartTyped, ExitTyped, EndTyped, Codes, Early, ShellParts, ExitParts,
       CodeParts
  <1>6. WaiterParts'
    BY DEF TypeOK, StartTyped, ExitTyped, EndTyped, WaitersTyped, Codes, Early, CodeParts,
       WaiterParts
  <1>7. EndParts'
    BY DEF TypeOK, StartTyped, ExitTyped, EndTyped, WaitersTyped, Codes, Early, WaiterParts,
       EndParts, EndsAsAsked
  <1> QED
    BY ONLY <1>1, <1>2, <1>3, <1>4, <1>5, <1>6, <1>7 DEF IInv

\* CallExit(c) preserves the inductive invariant.
LEMMA CallExitIInv ==
  ASSUME IInv, Alive, NEW c \in Calls, CallExit(c)
  PROVE  IInv'
  <1> USE LifecycleAssumption DEF IInv, Alive, CallExit, startVars,
       replVars, exitVars, closeVars, keptVars, history
  <1>1. TypeOK'
    <2>1. StartTyped'
      BY DEF TypeOK, StartTyped, Stages
    <2>2. PhasesTyped'
      BY DEF TypeOK, PhasesTyped
    <2>3. ExitTyped'
      BY DEF TypeOK, ExitTyped, Codes
    <2>4. ShellTyped'
      BY DEF TypeOK, ShellTyped
    <2>5. WaitersTyped'
      BY DEF TypeOK, WaitersTyped, ExitTyped, Codes
    <2>6. EndTyped'
      BY DEF TypeOK, EndTyped, Codes
    <2> QED
      BY ONLY <2>1, <2>2, <2>3, <2>4, <2>5, <2>6 DEF TypeOK
  <1>2. Early'
    BY DEF TypeOK, StartTyped, ExitTyped, EndTyped, Early, ShellParts
  <1>3. ShellParts'
    BY DEF TypeOK, StartTyped, ExitTyped, EndTyped, Early, ShellParts
  <1>4. ExitParts'
    BY DEF TypeOK, StartTyped, ExitTyped, EndTyped, Early, ShellParts, ExitParts
  <1>5. CodeParts'
    BY DEF TypeOK, StartTyped, ExitTyped, EndTyped, Codes, Early, ShellParts, ExitParts,
       CodeParts
  <1>6. WaiterParts'
    BY DEF TypeOK, StartTyped, ExitTyped, EndTyped, WaitersTyped, Codes, Early, CodeParts,
       WaiterParts
  <1>7. EndParts'
    BY DEF TypeOK, StartTyped, ExitTyped, EndTyped, WaitersTyped, Codes, Early, WaiterParts,
       EndParts, EndsAsAsked
  <1> QED
    BY ONLY <1>1, <1>2, <1>3, <1>4, <1>5, <1>6, <1>7 DEF IInv

\* ExitCloses(c) preserves the inductive invariant.
LEMMA ExitClosesIInv ==
  ASSUME IInv, Alive, NEW c \in Calls, ExitCloses(c)
  PROVE  IInv'
  <1> USE LifecycleAssumption DEF IInv, Alive, ExitCloses, OnExit,
       RememberExit, TakeRuntime, NoteFirst, HasRepl, startVars, replVars,
       exitVars, closeVars, keptVars, history
  <1>1. TypeOK'
    <2>1. StartTyped'
      BY DEF TypeOK, StartTyped, Stages
    <2>2. PhasesTyped'
      BY DEF TypeOK, PhasesTyped
    <2>3. ExitTyped'
      BY ZenonT(60) DEF TypeOK, ExitTyped, Codes, PhasesTyped
    <2>4. ShellTyped'
      BY DEF TypeOK, ShellTyped
    <2>5. WaitersTyped'
      BY DEF TypeOK, WaitersTyped, ExitTyped, Codes
    <2>6. EndTyped'
      BY DEF TypeOK, EndTyped, Codes, ExitTyped, PhasesTyped
    <2> QED
      BY ONLY <2>1, <2>2, <2>3, <2>4, <2>5, <2>6 DEF TypeOK
  <1>2. Early'
    BY DEF TypeOK, StartTyped, ExitTyped, EndTyped, Early, ShellParts
  <1>3. ShellParts'
    BY DEF TypeOK, StartTyped, ExitTyped, EndTyped, Early, ShellParts
  <1>4. ExitParts'
    BY DEF TypeOK, StartTyped, ExitTyped, EndTyped, Early, ShellParts, ExitParts
  <1>5. CodeParts'
    BY DEF TypeOK, StartTyped, ExitTyped, EndTyped, Codes, Early, ShellParts, ExitParts,
       CodeParts
  <1>6. WaiterParts'
    BY DEF TypeOK, StartTyped, ExitTyped, EndTyped, WaitersTyped, Codes, Early, CodeParts,
       WaiterParts
  <1>7. EndParts'
    BY DEF TypeOK, StartTyped, ExitTyped, EndTyped, WaitersTyped, Codes, Early, WaiterParts,
       EndParts, EndsAsAsked
  <1> QED
    BY ONLY <1>1, <1>2, <1>3, <1>4, <1>5, <1>6, <1>7 DEF IInv

\* SetUp preserves the inductive invariant.
LEMMA SetUpIInv ==
  ASSUME IInv, Alive, SetUp
  PROVE  IInv'
  <1> USE LifecycleAssumption DEF IInv, Alive, SetUp, StartThrows,
       ExitItself, Close, TakeRuntime, HasRepl, startVars, replVars,
       exitVars, closeVars, keptVars, history
  <1>1. TypeOK'
    <2>1. StartTyped'
      BY DEF TypeOK, StartTyped, Stages
    <2>2. PhasesTyped'
      BY DEF TypeOK, PhasesTyped
    <2>3. ExitTyped'
      BY DEF TypeOK, ExitTyped, Codes
    <2>4. ShellTyped'
      BY DEF TypeOK, ShellTyped
    <2>5. WaitersTyped'
      BY AppendWaiter DEF Appended, TypeOK, WaitersTyped, ExitTyped, Codes
    <2>6. EndTyped'
      <3>1. logging' \in BOOLEAN
        BY DEF TypeOK, EndTyped
      <3>2. own' \in Codes \cup { NoCode }
        BY DEF TypeOK, EndTyped, Codes
      <3> QED
        BY <3>1, <3>2 DEF TypeOK, EndTyped
    <2> QED
      BY ONLY <2>1, <2>2, <2>3, <2>4, <2>5, <2>6 DEF TypeOK
  <1>2. Early'
    BY DEF TypeOK, StartTyped, ExitTyped, EndTyped, Early, ShellParts
  <1>3. ShellParts'
    BY DEF TypeOK, StartTyped, ExitTyped, EndTyped, Early, ShellParts
  <1>4. ExitParts'
    BY DEF TypeOK, StartTyped, ExitTyped, EndTyped, Early, ShellParts, ExitParts
  <1>5. CodeParts'
    BY DEF TypeOK, StartTyped, ExitTyped, EndTyped, Codes, Early, ShellParts, ExitParts,
       CodeParts
  <1>6. WaiterParts'
    BY AppendWaiter DEF Appended, TypeOK, StartTyped, ExitTyped, EndTyped, Codes, Early,
       CodeParts, WaiterParts
  <1>7. EndParts'
    BY DEF TypeOK, StartTyped, ExitTyped, EndTyped, WaitersTyped, Codes, Early, WaiterParts,
       EndParts, EndsAsAsked
  <1> QED
    BY ONLY <1>1, <1>2, <1>3, <1>4, <1>5, <1>6, <1>7 DEF IInv

\* Connect preserves the inductive invariant.
LEMMA ConnectIInv ==
  ASSUME IInv, Alive, Connect
  PROVE  IInv'
  <1> USE LifecycleAssumption DEF IInv, Alive, Connect, StartThrows, Close,
       TakeRuntime, HasRepl, startVars, replVars, exitVars, closeVars,
       keptVars, history
  <1>1. TypeOK'
    <2>1. StartTyped'
      BY DEF TypeOK, StartTyped, Stages
    <2>2. PhasesTyped'
      BY DEF TypeOK, PhasesTyped
    <2>3. ExitTyped'
      BY DEF TypeOK, ExitTyped, Codes
    <2>4. ShellTyped'
      BY DEF TypeOK, ShellTyped
    <2>5. WaitersTyped'
      BY AppendWaiter DEF Appended, TypeOK, WaitersTyped, ExitTyped, Codes
    <2>6. EndTyped'
      BY DEF TypeOK, EndTyped, Codes
    <2> QED
      BY ONLY <2>1, <2>2, <2>3, <2>4, <2>5, <2>6 DEF TypeOK
  <1>2. Early'
    BY DEF TypeOK, StartTyped, ExitTyped, EndTyped, Early, ShellParts
  <1>3. ShellParts'
    BY DEF TypeOK, StartTyped, ExitTyped, EndTyped, Early, ShellParts
  <1>4. ExitParts'
    BY DEF TypeOK, StartTyped, ExitTyped, EndTyped, Early, ShellParts, ExitParts
  <1>5. CodeParts'
    BY DEF TypeOK, StartTyped, ExitTyped, EndTyped, Codes, Early, ShellParts, ExitParts,
       CodeParts
  <1>6. WaiterParts'
    BY AppendWaiter DEF Appended, TypeOK, StartTyped, ExitTyped, EndTyped, Codes, Early,
       CodeParts, WaiterParts
  <1>7. EndParts'
    BY DEF TypeOK, StartTyped, ExitTyped, EndTyped, WaitersTyped, Codes, Early, WaiterParts,
       EndParts, EndsAsAsked
  <1> QED
    BY ONLY <1>1, <1>2, <1>3, <1>4, <1>5, <1>6, <1>7 DEF IInv

\* Initialize preserves the inductive invariant.
LEMMA InitializeIInv ==
  ASSUME IInv, Alive, Initialize
  PROVE  IInv'
  <1> USE LifecycleAssumption DEF IInv, Alive, Initialize, StartThrows,
       Close, TakeRuntime, HasRepl, startVars, replVars, exitVars,
       closeVars, keptVars, history
  <1>1. TypeOK'
    <2>1. StartTyped'
      BY DEF TypeOK, StartTyped, Stages
    <2>2. PhasesTyped'
      BY DEF TypeOK, PhasesTyped
    <2>3. ExitTyped'
      BY DEF TypeOK, ExitTyped, Codes
    <2>4. ShellTyped'
      BY DEF TypeOK, ShellTyped
    <2>5. WaitersTyped'
      BY AppendWaiter DEF Appended, TypeOK, WaitersTyped, ExitTyped, Codes
    <2>6. EndTyped'
      BY DEF TypeOK, EndTyped, Codes
    <2> QED
      BY ONLY <2>1, <2>2, <2>3, <2>4, <2>5, <2>6 DEF TypeOK
  <1>2. Early'
    BY DEF TypeOK, StartTyped, ExitTyped, EndTyped, Early, ShellParts
  <1>3. ShellParts'
    BY DEF TypeOK, StartTyped, ExitTyped, EndTyped, Early, ShellParts
  <1>4. ExitParts'
    BY DEF TypeOK, StartTyped, ExitTyped, EndTyped, Early, ShellParts, ExitParts
  <1>5. CodeParts'
    BY DEF TypeOK, StartTyped, ExitTyped, EndTyped, Codes, Early, ShellParts, ExitParts,
       CodeParts
  <1>6. WaiterParts'
    BY AppendWaiter DEF Appended, TypeOK, StartTyped, ExitTyped, EndTyped, Codes, Early,
       CodeParts, WaiterParts
  <1>7. EndParts'
    BY DEF TypeOK, StartTyped, ExitTyped, EndTyped, WaitersTyped, Codes, Early, WaiterParts,
       EndParts, EndsAsAsked
  <1> QED
    BY ONLY <1>1, <1>2, <1>3, <1>4, <1>5, <1>6, <1>7 DEF IInv

\* CodeReturns preserves the inductive invariant.
LEMMA CodeReturnsIInv ==
  ASSUME IInv, Alive, CodeReturns
  PROVE  IInv'
  <1> USE LifecycleAssumption DEF IInv, Alive, CodeReturns, startVars,
       replVars, exitVars, closeVars, keptVars, history
  <1>1. TypeOK'
    <2>1. StartTyped'
      BY DEF TypeOK, StartTyped, Stages
    <2>2. PhasesTyped'
      BY DEF TypeOK, PhasesTyped
    <2>3. ExitTyped'
      BY DEF TypeOK, ExitTyped, Codes
    <2>4. ShellTyped'
      BY DEF TypeOK, ShellTyped
    <2>5. WaitersTyped'
      BY DEF TypeOK, WaitersTyped, ExitTyped, Codes
    <2>6. EndTyped'
      BY DEF TypeOK, EndTyped, Codes
    <2> QED
      BY ONLY <2>1, <2>2, <2>3, <2>4, <2>5, <2>6 DEF TypeOK
  <1>2. Early'
    BY DEF TypeOK, StartTyped, ExitTyped, EndTyped, Early, ShellParts
  <1>3. ShellParts'
    BY DEF TypeOK, StartTyped, ExitTyped, EndTyped, Early, ShellParts
  <1>4. ExitParts'
    BY DEF TypeOK, StartTyped, ExitTyped, EndTyped, Early, ShellParts, ExitParts
  <1>5. CodeParts'
    BY DEF TypeOK, StartTyped, ExitTyped, EndTyped, Codes, Early, ShellParts, ExitParts,
       CodeParts
  <1>6. WaiterParts'
    BY DEF TypeOK, StartTyped, ExitTyped, EndTyped, WaitersTyped, Codes, Early, CodeParts,
       WaiterParts
  <1>7. EndParts'
    BY DEF TypeOK, StartTyped, ExitTyped, EndTyped, WaitersTyped, Codes, Early, WaiterParts,
       EndParts, EndsAsAsked
  <1> QED
    BY ONLY <1>1, <1>2, <1>3, <1>4, <1>5, <1>6, <1>7 DEF IInv

\* CodeThrows preserves the inductive invariant.
LEMMA CodeThrowsIInv ==
  ASSUME IInv, Alive, CodeThrows
  PROVE  IInv'
  <1> USE LifecycleAssumption DEF IInv, Alive, CodeThrows, StartThrows,
       ExitItself, Close, TakeRuntime, HasRepl, startVars, replVars,
       exitVars, closeVars, keptVars, history
  <1>1. TypeOK'
    <2>1. StartTyped'
      BY DEF TypeOK, StartTyped, Stages
    <2>2. PhasesTyped'
      BY DEF TypeOK, PhasesTyped
    <2>3. ExitTyped'
      BY DEF TypeOK, ExitTyped, Codes
    <2>4. ShellTyped'
      BY DEF TypeOK, ShellTyped
    <2>5. WaitersTyped'
      BY AppendWaiter DEF Appended, TypeOK, WaitersTyped, ExitTyped, Codes
    <2>6. EndTyped'
      BY DEF TypeOK, EndTyped, Codes
    <2> QED
      BY ONLY <2>1, <2>2, <2>3, <2>4, <2>5, <2>6 DEF TypeOK
  <1>2. Early'
    BY DEF TypeOK, StartTyped, ExitTyped, EndTyped, Early, ShellParts
  <1>3. ShellParts'
    BY DEF TypeOK, StartTyped, ExitTyped, EndTyped, Early, ShellParts
  <1>4. ExitParts'
    BY DEF TypeOK, StartTyped, ExitTyped, EndTyped, Early, ShellParts, ExitParts
  <1>5. CodeParts'
    BY DEF TypeOK, StartTyped, ExitTyped, EndTyped, Codes, Early, ShellParts, ExitParts,
       CodeParts
  <1>6. WaiterParts'
    <2>1. CASE ExitItself(1) /\ UNCHANGED failing
      BY <2>1, AppendWaiter, ZenonT(60) DEF Appended, TypeOK, StartTyped, ExitTyped, EndTyped,
         Codes, Early, CodeParts, WaiterParts
    <2>2. CASE StartThrows /\ UNCHANGED own
      BY <2>2, AppendWaiter DEF Appended, TypeOK, StartTyped, ExitTyped, EndTyped, Codes,
         Early,
         CodeParts, WaiterParts
    <2>3. CASE UNCHANGED << stage, failing, closeVars, own >>
      BY <2>3 DEF WaiterParts
    <2> QED
      BY <2>1, <2>2, <2>3
  <1>7. EndParts'
    BY DEF TypeOK, StartTyped, ExitTyped, EndTyped, WaitersTyped, Codes, Early, WaiterParts,
       EndParts, EndsAsAsked
  <1> QED
    BY ONLY <1>1, <1>2, <1>3, <1>4, <1>5, <1>6, <1>7 DEF IInv

\* ScriptTooLate preserves the inductive invariant.
LEMMA ScriptTooLateIInv ==
  ASSUME IInv, Alive, ScriptTooLate
  PROVE  IInv'
  <1> USE LifecycleAssumption DEF IInv, Alive, ScriptTooLate, StartThrows,
       ExitItself, Close, TakeRuntime, HasRepl, startVars, replVars,
       exitVars, closeVars, keptVars, history
  <1>1. TypeOK'
    <2>1. StartTyped'
      BY DEF TypeOK, StartTyped, Stages
    <2>2. PhasesTyped'
      BY DEF TypeOK, PhasesTyped
    <2>3. ExitTyped'
      BY DEF TypeOK, ExitTyped, Codes
    <2>4. ShellTyped'
      BY DEF TypeOK, ShellTyped
    <2>5. WaitersTyped'
      BY AppendWaiter DEF Appended, TypeOK, WaitersTyped, ExitTyped, Codes
    <2>6. EndTyped'
      BY DEF TypeOK, EndTyped, Codes
    <2> QED
      BY ONLY <2>1, <2>2, <2>3, <2>4, <2>5, <2>6 DEF TypeOK
  <1>2. Early'
    BY DEF TypeOK, StartTyped, ExitTyped, EndTyped, Early, ShellParts
  <1>3. ShellParts'
    BY DEF TypeOK, StartTyped, ExitTyped, EndTyped, Early, ShellParts
  <1>4. ExitParts'
    BY DEF TypeOK, StartTyped, ExitTyped, EndTyped, Early, ShellParts, ExitParts
  <1>5. CodeParts'
    BY DEF TypeOK, StartTyped, ExitTyped, EndTyped, Codes, Early, ShellParts, ExitParts,
       CodeParts
  <1>6. WaiterParts'
    <2>1. CASE ExitItself(1) /\ UNCHANGED failing
      BY <2>1, AppendWaiter, ZenonT(60) DEF Appended, TypeOK, StartTyped, ExitTyped, EndTyped,
         Codes, Early, CodeParts, WaiterParts
    <2>2. CASE StartThrows /\ UNCHANGED own
      BY <2>2, AppendWaiter DEF Appended, TypeOK, StartTyped, ExitTyped, EndTyped, Codes,
         Early,
         CodeParts, WaiterParts
    <2> QED
      BY <2>1, <2>2
  <1>7. EndParts'
    BY DEF TypeOK, StartTyped, ExitTyped, EndTyped, WaitersTyped, Codes, Early, WaiterParts,
       EndParts, EndsAsAsked
  <1> QED
    BY ONLY <1>1, <1>2, <1>3, <1>4, <1>5, <1>6, <1>7 DEF IInv

\* ScriptsDone preserves the inductive invariant.
LEMMA ScriptsDoneIInv ==
  ASSUME IInv, Alive, ScriptsDone
  PROVE  IInv'
  <1> USE LifecycleAssumption DEF IInv, Alive, ScriptsDone, ExitItself,
       Close, TakeRuntime, HasRepl, startVars, replVars, exitVars,
       closeVars, keptVars, history
  <1>1. TypeOK'
    <2>1. StartTyped'
      BY DEF TypeOK, StartTyped, Stages
    <2>2. PhasesTyped'
      BY DEF TypeOK, PhasesTyped
    <2>3. ExitTyped'
      BY DEF TypeOK, ExitTyped, Codes
    <2>4. ShellTyped'
      BY DEF TypeOK, ShellTyped
    <2>5. WaitersTyped'
      BY AppendWaiter DEF Appended, TypeOK, WaitersTyped, ExitTyped, Codes
    <2>6. EndTyped'
      BY DEF TypeOK, EndTyped, Codes
    <2> QED
      BY ONLY <2>1, <2>2, <2>3, <2>4, <2>5, <2>6 DEF TypeOK
  <1>2. Early'
    BY DEF TypeOK, StartTyped, ExitTyped, EndTyped, Early, ShellParts
  <1>3. ShellParts'
    BY DEF TypeOK, StartTyped, ExitTyped, EndTyped, Early, ShellParts
  <1>4. ExitParts'
    BY DEF TypeOK, StartTyped, ExitTyped, EndTyped, Early, ShellParts, ExitParts
  <1>5. CodeParts'
    BY DEF TypeOK, StartTyped, ExitTyped, EndTyped, Codes, Early, ShellParts, ExitParts,
       CodeParts
  <1>6. WaiterParts'
    BY AppendWaiter, ZenonT(60) DEF Appended, TypeOK, StartTyped, ExitTyped, EndTyped, Codes,
       Early, CodeParts, WaiterParts
  <1>7. EndParts'
    BY DEF TypeOK, StartTyped, ExitTyped, EndTyped, WaitersTyped, Codes, Early, WaiterParts,
       EndParts, EndsAsAsked
  <1> QED
    BY ONLY <1>1, <1>2, <1>3, <1>4, <1>5, <1>6, <1>7 DEF IInv

\* Loaded preserves the inductive invariant.
LEMMA LoadedIInv ==
  ASSUME IInv, Alive, Loaded
  PROVE  IInv'
  <1> USE LifecycleAssumption DEF IInv, Alive, Loaded, startVars, replVars,
       exitVars, closeVars, keptVars, history
  <1>1. TypeOK'
    <2>1. StartTyped'
      BY DEF TypeOK, StartTyped, Stages
    <2>2. PhasesTyped'
      BY DEF TypeOK, PhasesTyped
    <2>3. ExitTyped'
      BY DEF TypeOK, ExitTyped, Codes
    <2>4. ShellTyped'
      BY DEF TypeOK, ShellTyped
    <2>5. WaitersTyped'
      BY DEF TypeOK, WaitersTyped, ExitTyped, Codes
    <2>6. EndTyped'
      BY DEF TypeOK, EndTyped, Codes
    <2> QED
      BY ONLY <2>1, <2>2, <2>3, <2>4, <2>5, <2>6 DEF TypeOK
  <1>2. Early'
    BY DEF TypeOK, StartTyped, ExitTyped, EndTyped, Early, ShellParts
  <1>3. ShellParts'
    BY DEF TypeOK, StartTyped, ExitTyped, EndTyped, Early, ShellParts
  <1>4. ExitParts'
    BY DEF TypeOK, StartTyped, ExitTyped, EndTyped, Early, ShellParts, ExitParts
  <1>5. CodeParts'
    BY DEF TypeOK, StartTyped, ExitTyped, EndTyped, Codes, Early, ShellParts, ExitParts,
       CodeParts
  <1>6. WaiterParts'
    BY DEF TypeOK, StartTyped, ExitTyped, EndTyped, WaitersTyped, Codes, Early, CodeParts,
       WaiterParts
  <1>7. EndParts'
    BY DEF TypeOK, StartTyped, ExitTyped, EndTyped, WaitersTyped, Codes, Early, WaiterParts,
       EndParts, EndsAsAsked
  <1> QED
    BY ONLY <1>1, <1>2, <1>3, <1>4, <1>5, <1>6, <1>7 DEF IInv

\* StartRepl preserves the inductive invariant.
LEMMA StartReplIInv ==
  ASSUME IInv, Alive, StartRepl
  PROVE  IInv'
  <1> USE LifecycleAssumption DEF IInv, Alive, StartRepl, StartThrows,
       Close, TakeRuntime, HasRepl, startVars, replVars, exitVars,
       closeVars, keptVars, history
  <1>1. TypeOK'
    <2>1. StartTyped'
      BY DEF TypeOK, StartTyped, Stages
    <2>2. PhasesTyped'
      BY DEF TypeOK, PhasesTyped
    <2>3. ExitTyped'
      BY DEF TypeOK, ExitTyped, Codes
    <2>4. ShellTyped'
      BY DEF TypeOK, ShellTyped
    <2>5. WaitersTyped'
      BY AppendWaiter DEF Appended, TypeOK, WaitersTyped, ExitTyped, Codes
    <2>6. EndTyped'
      BY DEF TypeOK, EndTyped, Codes
    <2> QED
      BY ONLY <2>1, <2>2, <2>3, <2>4, <2>5, <2>6 DEF TypeOK
  <1>2. Early'
    BY DEF TypeOK, StartTyped, ExitTyped, EndTyped, Early, ShellParts
  <1>3. ShellParts'
    BY DEF TypeOK, StartTyped, ExitTyped, EndTyped, Early, ShellParts
  <1>4. ExitParts'
    BY DEF TypeOK, StartTyped, ExitTyped, EndTyped, Early, ShellParts, ExitParts
  <1>5. CodeParts'
    BY DEF TypeOK, StartTyped, ExitTyped, EndTyped, Codes, Early, ShellParts, ExitParts,
       CodeParts
  <1>6. WaiterParts'
    BY AppendWaiter DEF Appended, TypeOK, StartTyped, ExitTyped, EndTyped, Codes, Early,
       CodeParts, WaiterParts
  <1>7. EndParts'
    BY DEF TypeOK, StartTyped, ExitTyped, EndTyped, WaitersTyped, Codes, Early, WaiterParts,
       EndParts, EndsAsAsked
  <1> QED
    BY ONLY <1>1, <1>2, <1>3, <1>4, <1>5, <1>6, <1>7 DEF IInv

\* Every step preserves the inductive invariant.
LEMMA NextIInv == IInv /\ [Next]_lifeVars => IInv'
  <1> SUFFICES ASSUME IInv, [Next]_lifeVars PROVE IInv'
    OBVIOUS
  <1>1. CASE Next
    <2> Alive
      BY <1>1 DEF Next
    <2>1. CASE Starting
      BY <2>1, SetUpIInv, ConnectIInv, InitializeIInv, ScriptTooLateIInv, ScriptsDoneIInv,
         LoadedIInv, StartReplIInv DEF Starting
    <2>2. CASE Closing
      BY <2>2, AskCliIInv, CloseConnectionsIInv, FlushOutputIInv, FlushTelemetryIInv,
         EmitExitIInv, EmitDeferredIInv DEF Closing
    <2>3. CASE Leaving
      BY <2>3, ResumeIInv, ExitOfMainIInv DEF Leaving
    <2>4. CASE EndOfInput \/ RunCode \/ CodeReturns \/ CodeThrows
      BY <2>4, EndOfInputIInv, RunCodeIInv, CodeReturnsIInv, CodeThrowsIInv
    <2>5. CASE \E c \in Calls : SetTimer(c) \/ CallExit(c) \/ ExitCloses(c)
      BY <2>5, SetTimerIInv, CallExitIInv, ExitClosesIInv
    <2> QED
      BY <1>1, <2>1, <2>2, <2>3, <2>4, <2>5 DEF Next
  <1>2. CASE UNCHANGED lifeVars
    BY <1>2 DEF lifeVars, startVars, replVars, exitVars, closeVars, keptVars, history, IInv,
       TypeOK, StartTyped, PhasesTyped, ExitTyped, ShellTyped, WaitersTyped, EndTyped, Early, ShellParts, ExitParts, CodeParts, WaiterParts, EndParts, EndsAsAsked, Alive
  <1> QED
    BY <1>1, <1>2

-----------------------------------------------------------------------------

\* The inductive invariant holds in every reachable state.
LEMMA InvariantIInv == Spec => []IInv
  <1> QED
    BY InitIInv, NextIInv, PTL DEF Spec

\* Every variable has its type, for any calls of exit() and any number of
\* pieces of user code.
THEOREM LifecycleTypeCorrect == Spec => []TypeOK
  <1>1. IInv => TypeOK
    BY DEF IInv
  <1> QED
    BY <1>1, InvariantIInv, PTL

\* The process ends with the code it was asked to end with, 1 after a startup
\* error, and only after the connections were closed and the log and the
\* telemetry flushed: CliRepl.close() and exit(), MongoshNodeRepl.onExit().
THEOREM LifecycleEndSound == Spec => []EndSound
  <1>1. IInv => EndSound
    BY DEF IInv, EndSound, ExitParts, EndParts, ClosedAtEnd
  <1> QED
    BY <1>1, InvariantIInv, PTL

-----------------------------------------------------------------------------
(* The worker thread, for any evaluations and interrupts.                  *)

\* An evaluation whose answer the main thread has not met.
Open(e) == call[e] \in {"sent", "cancelled"}

\* The k-th of the messages asks for the evaluation, or is an interrupt.
Asks(s, k, e) == k \in 1 .. Len(s) /\ s[k] = Worker!Evaluate(e)
Stops(s, k) == k \in 1 .. Len(s) /\ \E i \in Interrupts : s[k] = Worker!Interrupt(i)

\* The k-th of the messages is a handle, or an answer; as the 0-th counts the
\* last handle that has arrived.
Hands(s, k) == k \in 1 .. Len(s) /\ s[k][1] = "handle"
Posted(h, s, k, e) == (k = 0 /\ h = e) \/ (Hands(s, k) /\ s[k][2] = e)
Answers(s, k, e, o) == k \in 1 .. Len(s) /\ s[k] = << "answer", e, o >>

\* An evaluation waits once, and is only sent when the worker is ready; what
\* is cancelled has no worker any more.
CallInv ==
  /\ \A k \in 1 .. Len(waiting), e \in Evals :
       waiting[k] = Worker!Evaluate(e) =>
         /\ call[e] = "waiting"
         /\ \A l \in 1 .. Len(waiting) : waiting[l] = Worker!Evaluate(e) => l = k
  /\ \A e \in Evals : call[e] = "sent" => init = "ready"
  /\ \A e \in Evals : call[e] = "cancelled" => ~alive

\* An evaluation is asked for, runs or holds the lock, but one at a time.
WorkInv ==
  /\ running # NoEval => Open(running) /\ lock = NoEval
  /\ lock # NoEval => Open(lock)
  /\ \A k \in Nat, e \in Evals :
       Asks(toWorker, k, e) =>
         /\ Open(e) /\ running # e /\ lock # e
         /\ \A l \in Nat : Asks(toWorker, l, e) => l = k
  /\ killed => running \in asked

\* The answer to an evaluation comes once, when the worker is through with it.
AnswerInv ==
  \A j \in Nat, e \in Evals, o \in Worker!Outcomes :
    Answers(toMain, j, e, o) =>
      /\ Open(e) /\ running # e /\ lock # e
      /\ \A k \in Nat : ~Asks(toWorker, k, e)
      /\ \A i \in Nat, p \in Worker!Outcomes : Answers(toMain, i, e, p) => i = j
      /\ o = "interrupted" => e \in asked
      /\ o = "refused" => e \notin alone

\* Between an evaluation's handle and its answer comes another handle.
HandleInv ==
  \A k \in Nat, e \in Evals :
    Posted(handle, toMain, k, e) =>
      /\ Open(e)
      /\ \A m \in Nat : ~Asks(toWorker, m, e)
      /\ lock = e => \E m \in Nat : k < m /\ Hands(toMain, m)
      /\ \A j \in Nat, o \in Worker!Outcomes :
           Answers(toMain, j, e, o) => \E m \in Nat : k < m /\ m < j /\ Hands(toMain, m)

\* Whatever an interrupt finds in the worker was pending when it was sent.
AskedInv ==
  alive => \A k \in Nat :
    Stops(toWorker, k) =>
      /\ running \in asked \cup {NoEval} /\ lock \in asked \cup {NoEval}
      /\ \A l \in Nat, e \in Evals : l < k /\ Asks(toWorker, l, e) => e \in asked

\* Who was sent alone finds the worker free.
AloneInv ==
  \A e \in alone :
    /\ call[e] \notin {"none", "waiting"}
    /\ alive => \A k \in Nat :
         Asks(toWorker, k, e) =>
           /\ running = NoEval /\ lock = NoEval
           /\ \A l \in Nat, f \in Evals : l < k => ~Asks(toWorker, l, f)

\* The inductive invariant of WorkerRuntime.
WorkerInv ==
  /\ Worker!TypeOK /\ CallInv /\ WorkInv /\ AnswerInv /\ HandleInv /\ AskedInv /\ AloneInv
  /\ Worker!EvaluationsApart

-----------------------------------------------------------------------------

\* Requests and messages are told apart.
LEMMA MessagesApart ==
  /\ \A e, f : Worker!Evaluate(e) = Worker!Evaluate(f) => e = f
  /\ \A i, j : Worker!Interrupt(i) = Worker!Interrupt(j) => i = j
  /\ \A e, i : Worker!Evaluate(e) # Worker!Interrupt(i)
  /\ \A e : Worker!Evaluate(e) # Worker!Terminate
  /\ \A e \in Evals : Worker!Evaluate(e) \in Worker!Requests
  /\ \A i \in Interrupts : Worker!Interrupt(i) \in Worker!Requests
  BY DEF Worker!Evaluate, Worker!Interrupt, Worker!Terminate, Worker!Requests

\* What the worker posts.
LEMMA PostsAre ==
  ASSUME NEW m \in Worker!Posts
  PROVE  \/ m[1] = "handle" /\ m[2] \in Evals \cup {NoEval} /\ m = << "handle", m[2], "null" >>
         \/ m[1] = "answer" /\ m[2] \in Evals /\ m[3] \in Worker!Outcomes
            /\ m = << "answer", m[2], m[3] >>
         \/ m[1] = "reply" /\ m[2] \in Interrupts /\ m[3] \in {"true", "false"}
  BY DEF Worker!Posts

\* One more message.
LEMMA AppendIs ==
  ASSUME NEW S, NEW s \in Seq(S), NEW x \in S
  PROVE  /\ Append(s, x) \in Seq(S) /\ Len(s) \in Nat /\ Len(Append(s, x)) = Len(s) + 1
         /\ \A k \in 1 .. Len(s) : Append(s, x)[k] = s[k]
         /\ Append(s, x)[Len(s) + 1] = x
  BY AppendProperties

\* The first message is taken.
LEMMA TailIs ==
  ASSUME NEW S, NEW s \in Seq(S), s # << >>
  PROVE  /\ Tail(s) \in Seq(S) /\ Len(Tail(s)) \in Nat /\ Len(s) = Len(Tail(s)) + 1
         /\ \A k \in 1 .. Len(Tail(s)) : Tail(s)[k] = s[k + 1]
         /\ Head(s) = s[1] /\ s[1] \in S
  BY HeadTailProperties

\* What is posted comes last.
LEMMA PostOneIs ==
  ASSUME NEW S, NEW s \in Seq(S), NEW x \in S
  PROVE  /\ s \o << x >> \in Seq(S) /\ Len(s) \in Nat /\ Len(s \o << x >>) = Len(s) + 1
         /\ \A k \in 1 .. Len(s) : (s \o << x >>)[k] = s[k]
         /\ (s \o << x >>)[Len(s) + 1] = x
  <1>1. << x >> \in Seq(S) /\ Len(<< x >>) = 1 /\ << x >>[1] = x
    OBVIOUS
  <1> QED
    BY <1>1, ConcatProperties, LenProperties

\* One more request.
LEMMA OneMoreRequest ==
  ASSUME NEW s \in Seq(Worker!Requests), NEW e \in Evals
  PROVE  /\ Append(s, Worker!Evaluate(e)) \in Seq(Worker!Requests) /\ Len(s) \in Nat
         /\ \A k \in Nat, f \in Evals :
              Asks(Append(s, Worker!Evaluate(e)), k, f)
                <=> (Asks(s, k, f) \/ (k = Len(s) + 1 /\ f = e))
         /\ \A k \in Nat : Stops(Append(s, Worker!Evaluate(e)), k) <=> Stops(s, k)
  <1>1. PICK t : t = Append(s, Worker!Evaluate(e))
    OBVIOUS
  <1>2. /\ t \in Seq(Worker!Requests) /\ Len(s) \in Nat /\ Len(t) = Len(s) + 1
        /\ \A k \in 1 .. Len(s) : t[k] = s[k]
        /\ t[Len(s) + 1] = Worker!Evaluate(e)
    BY <1>1, AppendIs, MessagesApart
  <1>3. \A k \in Nat, f \in Evals : Asks(t, k, f) <=> (Asks(s, k, f) \/ (k = Len(s) + 1 /\ f = e))
    <2> SUFFICES ASSUME NEW k \in Nat, NEW f \in Evals
                 PROVE  Asks(t, k, f) <=> (Asks(s, k, f) \/ (k = Len(s) + 1 /\ f = e))
      OBVIOUS
    <2>1. CASE k \in 1 .. Len(s)
      BY <1>2, <2>1 DEF Asks
    <2>2. CASE k \notin 1 .. Len(s)
      BY <1>2, <2>2, MessagesApart DEF Asks
    <2> QED
      BY <2>1, <2>2
  <1>4. \A k \in Nat : Stops(t, k) <=> Stops(s, k)
    <2> SUFFICES ASSUME NEW k \in Nat PROVE Stops(t, k) <=> Stops(s, k)
      OBVIOUS
    <2>1. CASE k \in 1 .. Len(s)
      BY <1>2, <2>1 DEF Stops
    <2>2. CASE k \notin 1 .. Len(s)
      BY <1>2, <2>2, MessagesApart DEF Stops
    <2> QED
      BY <2>1, <2>2
  <1> QED
    BY <1>1, <1>2, <1>3, <1>4

\* One more interrupt.
LEMMA OneMoreStop ==
  ASSUME NEW s \in Seq(Worker!Requests), NEW i \in Interrupts
  PROVE  /\ Append(s, Worker!Interrupt(i)) \in Seq(Worker!Requests) /\ Len(s) \in Nat
         /\ \A k \in Nat, f \in Evals :
              Asks(Append(s, Worker!Interrupt(i)), k, f) <=> Asks(s, k, f)
         /\ \A k \in Nat :
              Stops(Append(s, Worker!Interrupt(i)), k) <=> (Stops(s, k) \/ k = Len(s) + 1)
  <1>1. PICK t : t = Append(s, Worker!Interrupt(i))
    OBVIOUS
  <1>2. /\ t \in Seq(Worker!Requests) /\ Len(s) \in Nat /\ Len(t) = Len(s) + 1
        /\ \A k \in 1 .. Len(s) : t[k] = s[k]
        /\ t[Len(s) + 1] = Worker!Interrupt(i)
    BY <1>1, AppendIs, MessagesApart
  <1>3. \A k \in Nat, f \in Evals : Asks(t, k, f) <=> Asks(s, k, f)
    <2> SUFFICES ASSUME NEW k \in Nat, NEW f \in Evals PROVE Asks(t, k, f) <=> Asks(s, k, f)
      OBVIOUS
    <2>1. CASE k \in 1 .. Len(s)
      BY <1>2, <2>1 DEF Asks
    <2>2. CASE k \notin 1 .. Len(s)
      BY <1>2, <2>2, MessagesApart DEF Asks
    <2> QED
      BY <2>1, <2>2
  <1>4. \A k \in Nat : Stops(t, k) <=> (Stops(s, k) \/ k = Len(s) + 1)
    <2> SUFFICES ASSUME NEW k \in Nat PROVE Stops(t, k) <=> (Stops(s, k) \/ k = Len(s) + 1)
      OBVIOUS
    <2>1. CASE k \in 1 .. Len(s)
      BY <1>2, <2>1 DEF Stops
    <2>2. CASE k \notin 1 .. Len(s)
      BY <1>2, <2>2, MessagesApart DEF Stops
    <2> QED
      BY <2>1, <2>2
  <1> QED
    BY <1>1, <1>2, <1>3, <1>4

\* The first request is taken.
LEMMA OneRequestLess ==
  ASSUME NEW s \in Seq(Worker!Requests), s # << >>
  PROVE  /\ Tail(s) \in Seq(Worker!Requests) /\ Head(s) = s[1] /\ Len(s) >= 1 /\ Len(s) \in Nat
         /\ \A k \in Nat, f \in Evals : Asks(Tail(s), k, f) <=> (k # 0 /\ Asks(s, k + 1, f))
         /\ \A k \in Nat : Stops(Tail(s), k) <=> (k # 0 /\ Stops(s, k + 1))
  <1>1. PICK t : t = Tail(s)
    OBVIOUS
  <1>2. /\ t \in Seq(Worker!Requests) /\ Len(t) \in Nat /\ Len(s) = Len(t) + 1
        /\ \A k \in 1 .. Len(t) : t[k] = s[k + 1]
        /\ Head(s) = s[1]
    BY <1>1, TailIs
  <1>3. \A k \in Nat, f \in Evals : Asks(t, k, f) <=> (k # 0 /\ Asks(s, k + 1, f))
    BY <1>2 DEF Asks
  <1>4. \A k \in Nat : Stops(t, k) <=> (k # 0 /\ Stops(s, k + 1))
    BY <1>2 DEF Stops
  <1> QED
    BY <1>1, <1>2, <1>3, <1>4

\* In t the worker has posted one more message, x, after s.
NowPosted(s, t, x) ==
  /\ t \in Seq(Worker!Posts) /\ Len(s) \in Nat
  /\ \A k \in Nat : Hands(t, k) <=> (Hands(s, k) \/ (k = Len(s) + 1 /\ x[1] = "handle"))
  /\ \A c : \A k \in Nat, f \in Evals :
       Posted(c, t, k, f) <=> (Posted(c, s, k, f) \/ (k = Len(s) + 1 /\ x[1] = "handle" /\ x[2] = f))
  /\ \A k \in Nat, f \in Evals, o \in Worker!Outcomes :
       Answers(t, k, f, o) <=> (Answers(s, k, f, o) \/ (k = Len(s) + 1 /\ x = << "answer", f, o >>))

\* One more message of the worker.
LEMMA OneMorePost ==
  ASSUME NEW s \in Seq(Worker!Posts), NEW x \in Worker!Posts
  PROVE  NowPosted(s, s \o << x >>, x)
  <1>1. PICK t : t = s \o << x >>
    OBVIOUS
  <1>2. /\ t \in Seq(Worker!Posts) /\ Len(s) \in Nat /\ Len(t) = Len(s) + 1
        /\ \A k \in 1 .. Len(s) : t[k] = s[k]
        /\ t[Len(s) + 1] = x
    BY <1>1, PostOneIs
  <1>3. ASSUME NEW k \in Nat
        PROVE  /\ k \in 1 .. Len(s) => k \in 1 .. Len(t) /\ t[k] = s[k] /\ k # Len(s) + 1
               /\ k \notin 1 .. Len(s) => (k \in 1 .. Len(t) <=> k = Len(s) + 1)
    BY <1>2
  <1>4. \A k \in Nat : Hands(t, k) <=> (Hands(s, k) \/ (k = Len(s) + 1 /\ x[1] = "handle"))
    BY <1>2, <1>3 DEF Hands
  <1>5. \A c : \A k \in Nat, f \in Evals :
          Posted(c, t, k, f)
            <=> (Posted(c, s, k, f) \/ (k = Len(s) + 1 /\ x[1] = "handle" /\ x[2] = f))
    BY <1>2, <1>3 DEF Posted, Hands
  <1>6. \A k \in Nat, f \in Evals, o \in Worker!Outcomes :
          Answers(t, k, f, o) <=> (Answers(s, k, f, o) \/ (k = Len(s) + 1 /\ x = << "answer", f, o >>))
    BY <1>2, <1>3 DEF Answers
  <1>7. NowPosted(s, t, x)
    BY ONLY <1>2, <1>4, <1>5, <1>6 DEF NowPosted
  <1> QED
    BY <1>1, <1>7

\* In t the worker has posted an answer, or the handle of an evaluation, after s.
NowAnswered(s, t, e, a) ==
  /\ t \in Seq(Worker!Posts)
  /\ \A k \in Nat : Hands(t, k) <=> Hands(s, k)
  /\ \A c : \A k \in Nat, f \in Evals : Posted(c, t, k, f) <=> Posted(c, s, k, f)
  /\ \A k \in Nat, f \in Evals, o \in Worker!Outcomes :
       Answers(t, k, f, o) <=> (Answers(s, k, f, o) \/ (k = Len(s) + 1 /\ f = e /\ o = a))

NowHanded(s, t, e) ==
  /\ t \in Seq(Worker!Posts)
  /\ \A k \in Nat : Hands(t, k) <=> (Hands(s, k) \/ k = Len(s) + 1)
  /\ \A c : \A k \in Nat, f \in Evals :
       Posted(c, t, k, f) <=> (Posted(c, s, k, f) \/ (k = Len(s) + 1 /\ f = e))
  /\ \A k \in Nat, f \in Evals, o \in Worker!Outcomes : Answers(t, k, f, o) <=> Answers(s, k, f, o)

\* The worker posts an answer.
LEMMA AnswerPosted ==
  ASSUME NEW s \in Seq(Worker!Posts), NEW e \in Evals, NEW a \in Worker!Outcomes
  PROVE  NowAnswered(s, s \o Worker!Answer(e, a), e, a)
  <1> PICK t : t = s \o Worker!Answer(e, a)
    OBVIOUS
  <1> PICK x : x = << "answer", e, a >>
    OBVIOUS
  <1>1. x \in Worker!Posts /\ x[1] # "handle"
    BY DEF Worker!Posts
  <1>2. \A f, o : x = << "answer", f, o >> <=> (f = e /\ o = a)
    OBVIOUS
  <1>3. NowPosted(s, t, x)
    BY <1>1, OneMorePost DEF Worker!Answer
  <1>4. \A k \in Nat, f \in Evals, o \in Worker!Outcomes :
          Answers(t, k, f, o) <=> (Answers(s, k, f, o) \/ (k = Len(s) + 1 /\ f = e /\ o = a))
    BY ONLY <1>2, <1>3, SMTT(60) DEF NowPosted
  <1>5. NowAnswered(s, t, e, a)
    BY ONLY <1>1, <1>3, <1>4 DEF NowPosted, NowAnswered
  <1> QED
    BY <1>5

\* The worker posts the handle of an evaluation.
LEMMA HandlePosted ==
  ASSUME NEW s \in Seq(Worker!Posts), NEW e \in Evals
  PROVE  NowHanded(s, s \o Worker!Handle(e), e)
  <1> PICK t : t = s \o Worker!Handle(e)
    OBVIOUS
  <1> PICK x : x = << "handle", e, "null" >>
    OBVIOUS
  <1>1. x \in Worker!Posts
    BY DEF Worker!Posts
  <1>2. /\ x[1] = "handle" /\ \A f : x[2] = f <=> f = e
        /\ \A f, o : x # << "answer", f, o >>
    OBVIOUS
  <1>3. NowPosted(s, t, x)
    BY <1>1, OneMorePost DEF Worker!Handle
  <1>4. NowHanded(s, t, e)
    BY ONLY <1>2, <1>3 DEF NowPosted, NowHanded
  <1> QED
    BY <1>4

\* The first message of the worker is taken.
LEMMA OnePostLess ==
  ASSUME NEW s \in Seq(Worker!Posts), s # << >>, NEW c
  PROVE  /\ Tail(s) \in Seq(Worker!Posts) /\ Head(s) = s[1] /\ Head(s) \in Worker!Posts
         /\ Len(s) >= 1 /\ Len(s) \in Nat
         /\ \A k \in Nat : Hands(Tail(s), k) <=> (k # 0 /\ Hands(s, k + 1))
         /\ \A k \in Nat, f \in Evals :
              Posted(c, Tail(s), k, f) <=> ((k = 0 /\ c = f) \/ (k # 0 /\ Posted(c, s, k + 1, f)))
         /\ \A k \in Nat, f \in Evals, o \in Worker!Outcomes :
              Answers(Tail(s), k, f, o) <=> (k # 0 /\ Answers(s, k + 1, f, o))
  <1>1. PICK t : t = Tail(s)
    OBVIOUS
  <1>2. /\ t \in Seq(Worker!Posts) /\ Len(t) \in Nat /\ Len(s) = Len(t) + 1
        /\ \A k \in 1 .. Len(t) : t[k] = s[k + 1]
        /\ Head(s) = s[1] /\ s[1] \in Worker!Posts
    BY <1>1, TailIs
  <1>3. ASSUME NEW k \in Nat
        PROVE  /\ k \in 1 .. Len(t) <=> (k # 0 /\ k + 1 \in 1 .. Len(s))
               /\ k \in 1 .. Len(t) => t[k] = s[k + 1]
               /\ k + 1 # 0
    BY <1>2
  <1>4. \A k \in Nat : Hands(t, k) <=> (k # 0 /\ Hands(s, k + 1))
    BY <1>3 DEF Hands
  <1>5. \A k \in Nat, f \in Evals :
          Posted(c, t, k, f) <=> ((k = 0 /\ c = f) \/ (k # 0 /\ Posted(c, s, k + 1, f)))
    BY <1>2, <1>3 DEF Posted, Hands
  <1>6. \A k \in Nat, f \in Evals, o \in Worker!Outcomes :
          Answers(t, k, f, o) <=> (k # 0 /\ Answers(s, k + 1, f, o))
    BY <1>3 DEF Answers
  <1> QED
    BY <1>1, <1>2, <1>4, <1>5, <1>6

\* Where messages are.
LEMMA Places ==
  /\ \A s, k, e : Asks(s, k, e) => k \in 1 .. Len(s)
  /\ \A s, k : Stops(s, k) => k \in 1 .. Len(s)
  /\ \A s, k : Hands(s, k) => k \in 1 .. Len(s)
  /\ \A s, k, e, o : Answers(s, k, e, o) => k \in 1 .. Len(s)
  /\ \A h, s, k, e : Posted(h, s, k, e) => k = 0 \/ k \in 1 .. Len(s)
  /\ \A h, s, e : Posted(h, s, 0, e) <=> h = e
  BY DEF Asks, Stops, Hands, Answers, Posted

\* The worker has not started yet.
LEMMA WorkerInit == Worker!WorkerAssumption /\ Worker!Init => WorkerInv
  <1> SUFFICES ASSUME Worker!WorkerAssumption, Worker!Init PROVE WorkerInv
    OBVIOUS
  <1> USE DEF Worker!Init, Worker!WorkerAssumption
  <1>1. Worker!TypeOK
    <2>1. call \in [Evals -> { "none", "waiting", "sent", "threw", "cancelled" } \cup Worker!Outcomes]
      OBVIOUS
    <2>2. ask \in [Interrupts -> { "none", "waiting", "sent", "threw", "true", "false" }]
      OBVIOUS
    <2>3. /\ waiting \in Seq(Worker!Requests \cup {Worker!Terminate})
          /\ toWorker \in Seq(Worker!Requests) /\ toMain \in Seq(Worker!Posts)
      OBVIOUS
    <2> QED
      BY <2>1, <2>2, <2>3 DEF Worker!TypeOK
  <1>2. CallInv /\ WorkInv /\ AskedInv /\ AloneInv
    BY DEF CallInv, WorkInv, AskedInv, AloneInv, Open, Asks, Stops
  <1>4. AnswerInv /\ HandleInv
    BY DEF AnswerInv, HandleInv, Answers, Posted, Hands
  <1>3. Worker!EvaluationsApart
    BY DEF Worker!EvaluationsApart, Worker!NeverRefusedAlone, Worker!InterruptsAimed,
       Worker!HandleIsCurrent, Worker!InterruptsOnlyEarlier
  <1> QED
    BY <1>1, <1>2, <1>3, <1>4 DEF WorkerInv

\* Nothing opens or closes: the worker and the messages are what they were.
LEMMA SameOpen ==
  ASSUME WorkerInv, Worker!TypeOK', CallInv',
         UNCHANGED << handle, toWorker, toMain, running, killed, lock, alone, asked >>,
         alive' => alive, \A e \in Evals : Open(e)' <=> Open(e),
         \A e \in Evals : call[e] \notin {"none", "waiting"} => call'[e] \notin {"none", "waiting"},
         \A e \in Evals : call'[e] \in Worker!Outcomes => call'[e] = call[e]
  PROVE  WorkerInv'
  <1>1. handle \in Evals \cup {NoEval} /\ running \in Evals \cup {NoEval}
        /\ lock \in Evals \cup {NoEval} /\ alone \subseteq Evals
    BY DEF WorkerInv, Worker!TypeOK
  <1>2. WorkInv'
    BY <1>1 DEF WorkerInv, WorkInv
  <1>3. AnswerInv'
    BY DEF WorkerInv, AnswerInv
  <1>4. HandleInv'
    BY DEF WorkerInv, HandleInv
  <1>5. AskedInv' /\ AloneInv'
    BY <1>1 DEF WorkerInv, AskedInv, AloneInv
  <1>6. /\ \A e \in alone' : call'[e] # "refused"
        /\ \A e \in Evals : call'[e] = "interrupted" => e \in asked'
    BY <1>1 DEF WorkerInv, Worker!EvaluationsApart, Worker!NeverRefusedAlone,
       Worker!InterruptsAimed, Worker!InterruptsOnlyEarlier, Worker!Outcomes
  <1>7. Worker!EvaluationsApart'
    BY <1>1, <1>4, <1>6, Places DEF Worker!EvaluationsApart, Worker!NeverRefusedAlone,
       Worker!InterruptsAimed, Worker!HandleIsCurrent, Worker!InterruptsOnlyEarlier, HandleInv, Open
  <1> QED
    BY <1>2, <1>3, <1>4, <1>5, <1>7 DEF WorkerInv

\* The worker starts, or fails to; and the main thread learns of it.
LEMMA StartInv ==
  ASSUME Worker!WorkerAssumption, WorkerInv, Worker!Start \/ Worker!Settle
  PROVE  WorkerInv'
  <1>1. /\ UNCHANGED << waiting, call, ask, end, handle, toWorker, toMain, running, killed,
                        lock, script, busy, alone, asked, aimed >>
        /\ init \in {"starting", "connecting"}
        /\ init' \in {"starting", "connecting", "ready", "failed"}
        /\ (alive' => alive) /\ alive' \in BOOLEAN
    <2>1. CASE Worker!WorkerReady
      BY <2>1 DEF Worker!WorkerReady, Worker!worker, Worker!history, WorkerInv, Worker!TypeOK
    <2>2. CASE Worker!StartFails
      <3>1. alive' = FALSE /\ alive' \in BOOLEAN
        BY <2>2, Zenon DEF Worker!StartFails
      <3> QED
        BY <2>2, <3>1 DEF Worker!StartFails, Worker!history
    <2>3. ASSUME NEW r \in {"ready", "failed"}, Worker!InitSettles(r)
          PROVE  /\ UNCHANGED << waiting, call, ask, end, handle, toWorker, toMain, alive, running,
                                killed, lock, script, busy, alone, asked, aimed >>
                 /\ init = "connecting" /\ init' = r
      BY <2>3 DEF Worker!InitSettles, Worker!worker, Worker!history
    <2>4. CASE Worker!Settle
      BY <2>3, <2>4 DEF Worker!Settle, WorkerInv, Worker!TypeOK
    <2> QED
      BY <2>1, <2>2, <2>4 DEF Worker!Start
  <1>2. Worker!TypeOK'
    BY <1>1 DEF WorkerInv, Worker!TypeOK
  <1>3. CallInv'
    BY <1>1 DEF WorkerInv, CallInv
  <1>4. \A e \in Evals : Open(e)' <=> Open(e)
    BY <1>1 DEF Open
  <1> QED
    BY <1>1, <1>2, <1>3, <1>4, SameOpen

\* The main thread calls evaluate(), interrupt() or terminate().
LEMMA UserInv ==
  ASSUME Worker!WorkerAssumption, WorkerInv, Worker!User
  PROVE  WorkerInv'
  <1> DEFINE Items == Worker!Requests \cup {Worker!Terminate}
  <1>1. waiting \in Seq(Items)
    BY DEF WorkerInv, Worker!TypeOK
  <1>2. UNCHANGED << init, handle, toWorker, toMain, alive, running, killed, lock, script, busy,
                     alone, asked, aimed >>
    BY DEF Worker!User, Worker!CallEvaluate, Worker!CallInterrupt, Worker!CallTerminate,
       Worker!worker, Worker!history
  <1>3. ASSUME NEW e \in Evals, Worker!CallEvaluate(e) PROVE WorkerInv'
    <2>1. /\ call[e] = "none" /\ call' = [call EXCEPT ![e] = "waiting"]
          /\ waiting' = Append(waiting, Worker!Evaluate(e)) /\ UNCHANGED << ask, end >>
      BY <1>3 DEF Worker!CallEvaluate
    <2>2. /\ waiting' \in Seq(Items) /\ Len(waiting) \in Nat /\ Len(waiting') = Len(waiting) + 1
          /\ \A k \in 1 .. Len(waiting) : waiting'[k] = waiting[k]
          /\ waiting'[Len(waiting) + 1] = Worker!Evaluate(e)
      BY <1>1, <2>1, AppendIs, MessagesApart
    <2>3. call'[e] = "waiting" /\ \A f \in Evals : f # e => call'[f] = call[f]
      BY <2>1 DEF WorkerInv, Worker!TypeOK
    <2>4. Worker!TypeOK'
      BY <1>2, <2>1, <2>2 DEF WorkerInv, Worker!TypeOK
    <2>5. CallInv'
      BY <1>2, <2>1, <2>2, <2>3, MessagesApart DEF WorkerInv, CallInv
    <2>6. /\ \A f \in Evals : Open(f)' <=> Open(f)
          /\ \A f \in Evals : call[f] \notin {"none", "waiting"} => call'[f] \notin {"none", "waiting"}
          /\ \A f \in Evals : call'[f] \in Worker!Outcomes => call'[f] = call[f]
      BY <2>1, <2>3 DEF Open, Worker!Outcomes
    <2> QED
      BY <1>2, <2>4, <2>5, <2>6, SameOpen DEF WorkerInv
  <1>4. ASSUME call' = call, ask' \in [Interrupts -> {"none", "waiting", "sent", "threw", "true", "false"}],
               end' \in {"none", "waiting", "done"},
               NEW x \in Items, waiting' = Append(waiting, x), \A e \in Evals : x # Worker!Evaluate(e)
        PROVE  WorkerInv'
    <2>1. /\ waiting' \in Seq(Items) /\ Len(waiting) \in Nat /\ Len(waiting') = Len(waiting) + 1
          /\ \A k \in 1 .. Len(waiting) : waiting'[k] = waiting[k]
          /\ waiting'[Len(waiting) + 1] = x
      BY <1>1, <1>4, AppendIs
    <2>2. Worker!TypeOK'
      BY <1>2, <1>4, <2>1 DEF WorkerInv, Worker!TypeOK
    <2>3. CallInv'
      BY <1>2, <1>4, <2>1 DEF WorkerInv, CallInv
    <2>4. \A f \in Evals : Open(f)' <=> Open(f)
      BY <1>4 DEF Open
    <2> QED
      BY <1>2, <1>4, <2>2, <2>3, <2>4, SameOpen DEF WorkerInv
  <1>5. ASSUME NEW i \in Interrupts, Worker!CallInterrupt(i) PROVE WorkerInv'
    <2>1. /\ call' = call /\ end' = end /\ waiting' = Append(waiting, Worker!Interrupt(i))
          /\ ask' \in [Interrupts -> {"none", "waiting", "sent", "threw", "true", "false"}]
      BY <1>5 DEF Worker!CallInterrupt, WorkerInv, Worker!TypeOK
    <2>2. Worker!Interrupt(i) \in Items /\ \A e \in Evals : Worker!Interrupt(i) # Worker!Evaluate(e)
      BY MessagesApart
    <2> QED
      BY <1>4, <2>1, <2>2 DEF WorkerInv, Worker!TypeOK
  <1>6. CASE Worker!CallTerminate
    <2>1. /\ call' = call /\ ask' = ask /\ end' = "waiting"
          /\ waiting' = Append(waiting, Worker!Terminate)
      BY <1>6 DEF Worker!CallTerminate
    <2> QED
      BY <1>4, <2>1, MessagesApart DEF WorkerInv, Worker!TypeOK
  <1> QED
    BY <1>3, <1>5, <1>6 DEF Worker!User

\* The await of initWorkerPromise of the first call that waits is over.
LEMMA ResumesIs ==
  ASSUME WorkerInv, NEW x, Worker!Resumes(x)
  PROVE  /\ init \in {"ready", "failed"} /\ waiting' = Tail(waiting)
         /\ waiting' \in Seq(Worker!Requests \cup {Worker!Terminate})
         /\ Len(waiting') \in Nat /\ Len(waiting) = Len(waiting') + 1
         /\ \A k \in 1 .. Len(waiting') : waiting'[k] = waiting[k + 1]
         /\ waiting[1] = x
  <1>1. waiting \in Seq(Worker!Requests \cup {Worker!Terminate}) /\ waiting # << >>
    BY DEF WorkerInv, Worker!TypeOK, Worker!Resumes
  <1> QED
    BY <1>1, TailIs DEF Worker!Resumes

\* evaluate() sends its request, or throws since there is no worker.
LEMMA SendEvaluateInv ==
  ASSUME Worker!WorkerAssumption, WorkerInv, NEW e \in Evals, Worker!SendEvaluate(e)
  PROVE  WorkerInv'
  <1>1. /\ init \in {"ready", "failed"} /\ waiting' = Tail(waiting)
        /\ waiting' \in Seq(Worker!Requests \cup {Worker!Terminate})
        /\ Len(waiting') \in Nat /\ Len(waiting) = Len(waiting') + 1
        /\ \A k \in 1 .. Len(waiting') : waiting'[k] = waiting[k + 1]
        /\ waiting[1] = Worker!Evaluate(e)
    BY ResumesIs DEF Worker!SendEvaluate
  <1>2. /\ call[e] = "waiting" /\ \A k \in 1 .. Len(waiting') : waiting'[k] # Worker!Evaluate(e)
    BY <1>1 DEF WorkerInv, CallInv
  <1>3. UNCHANGED << init, ask, end, handle, toMain, alive, running, killed, lock, script, busy,
                     asked, aimed >>
    BY DEF Worker!SendEvaluate, Worker!worker
  <1>4. ASSUME NEW v \in {"threw", "sent"}, call' = [call EXCEPT ![e] = v],
               v = "sent" => init = "ready"
        PROVE  /\ call'[e] = v /\ \A f \in Evals : f # e => call'[f] = call[f]
               /\ call' \in [Evals -> { "none", "waiting", "sent", "threw", "cancelled" }
                                        \cup Worker!Outcomes]
               /\ CallInv'
    <2>1. /\ call'[e] = v /\ \A f \in Evals : f # e => call'[f] = call[f]
          /\ call' \in [Evals -> { "none", "waiting", "sent", "threw", "cancelled" }
                                   \cup Worker!Outcomes]
      BY <1>4 DEF WorkerInv, Worker!TypeOK
    <2>2. \A k \in 1 .. Len(waiting'), f \in Evals :
            waiting'[k] = Worker!Evaluate(f) =>
              /\ f # e /\ call[f] = "waiting"
              /\ \A l \in 1 .. Len(waiting') : waiting'[l] = Worker!Evaluate(f) => l = k
      <3> SUFFICES ASSUME NEW k \in 1 .. Len(waiting'), NEW f \in Evals,
                          waiting'[k] = Worker!Evaluate(f)
                   PROVE  /\ f # e /\ call[f] = "waiting"
                          /\ \A l \in 1 .. Len(waiting') : waiting'[l] = Worker!Evaluate(f) => l = k
        OBVIOUS
      <3>1. k + 1 \in 1 .. Len(waiting) /\ waiting[k + 1] = Worker!Evaluate(f)
        BY <1>1
      <3>2. \A l \in 1 .. Len(waiting') :
              waiting'[l] = Worker!Evaluate(f) =>
                l + 1 \in 1 .. Len(waiting) /\ waiting[l + 1] = Worker!Evaluate(f)
        BY <1>1
      <3>3. f # e
        BY <1>2
      <3>4. call[f] = "waiting"
        BY <3>1 DEF WorkerInv, CallInv
      <3>5. \A l \in 1 .. Len(waiting) : waiting[l] = Worker!Evaluate(f) => l = k + 1
        BY <3>1 DEF WorkerInv, CallInv
      <3>6. \A l \in 1 .. Len(waiting') : waiting'[l] = Worker!Evaluate(f) => l = k
        BY <3>2, <3>5, <1>1
      <3> QED
        BY <3>3, <3>4, <3>6
    <2>3. CallInv'
      BY <1>2, <1>3, <1>4, <2>1, <2>2 DEF WorkerInv, CallInv
    <2> QED
      BY <2>1, <2>3
  <1>5. CASE /\ init = "failed" /\ call' = [call EXCEPT ![e] = "threw"]
             /\ UNCHANGED << toWorker, alone >>
    <2>1. /\ call'[e] = "threw" /\ \A f \in Evals : f # e => call'[f] = call[f]
          /\ call' \in [Evals -> { "none", "waiting", "sent", "threw", "cancelled" }
                                   \cup Worker!Outcomes]
          /\ CallInv'
      BY <1>4, <1>5
    <2>2. Worker!TypeOK'
      BY <1>1, <1>3, <1>5, <2>1 DEF WorkerInv, Worker!TypeOK
    <2>3. /\ \A f \in Evals : Open(f)' <=> Open(f)
          /\ \A f \in Evals : call[f] \notin {"none", "waiting"} => call'[f] \notin {"none", "waiting"}
          /\ \A f \in Evals : call'[f] \in Worker!Outcomes => call'[f] = call[f]
      BY <1>2, <2>1 DEF Open, Worker!Outcomes
    <2> QED
      BY <1>3, <1>5, <2>1, <2>2, <2>3, SameOpen DEF WorkerInv
  <1>6. CASE /\ init = "ready" /\ call' = [call EXCEPT ![e] = "sent"]
             /\ toWorker' = Append(toWorker, Worker!Evaluate(e))
             /\ alone' = IF Worker!Pending = {} THEN alone \cup {e} ELSE alone
    <2>1. /\ call'[e] = "sent" /\ \A f \in Evals : f # e => call'[f] = call[f]
          /\ call' \in [Evals -> { "none", "waiting", "sent", "threw", "cancelled" }
                                   \cup Worker!Outcomes]
          /\ CallInv'
      BY <1>4, <1>6
    <2> PICK n \in Nat : n = Len(toWorker)
      BY AppendIs, MessagesApart DEF WorkerInv, Worker!TypeOK
    <2>2. /\ toWorker' \in Seq(Worker!Requests)
          /\ \A k \in Nat, f \in Evals :
               Asks(toWorker', k, f) <=> (Asks(toWorker, k, f) \/ (k = n + 1 /\ f = e))
          /\ \A k \in Nat : Stops(toWorker', k) <=> Stops(toWorker, k)
      BY <1>6, OneMoreRequest DEF WorkerInv, Worker!TypeOK
    <2>3. alone' \subseteq alone \cup {e} /\ alone \subseteq Evals /\ alone \subseteq alone'
      BY <1>6 DEF WorkerInv, Worker!TypeOK
    <2>4. Worker!TypeOK'
      BY <1>1, <1>3, <2>1, <2>2, <2>3 DEF WorkerInv, Worker!TypeOK
    <2>5. ~Open(e) /\ Open(e)' /\ \A f \in Evals : f # e => (Open(f)' <=> Open(f))
      BY <1>2, <2>1 DEF Open
    <2>6. /\ running # e /\ lock # e /\ running \in Evals \cup {NoEval} /\ lock \in Evals \cup {NoEval}
          /\ NoEval \notin Evals /\ handle \in Evals \cup {NoEval}
      BY <2>5 DEF WorkerInv, WorkInv, Worker!TypeOK, Worker!WorkerAssumption
    <2>7. \A k \in Nat : ~Asks(toWorker, k, e)
      BY <2>5 DEF WorkerInv, WorkInv
    <2>8. \A k \in Nat, f \in Evals : Asks(toWorker, k, f) => k <= n
      BY Places
    <2>9. WorkInv'
      BY <1>3, <2>2, <2>5, <2>6, <2>7 DEF WorkerInv, WorkInv
    <2>10. AnswerInv'
      BY <1>3, <2>2, <2>3, <2>5 DEF WorkerInv, AnswerInv
    <2>11. HandleInv'
      BY <1>3, <2>2, <2>5 DEF WorkerInv, HandleInv
    <2>12. AskedInv'
      <3>1. \A k \in Nat : Stops(toWorker, k) => k <= n
        BY Places
      <3> QED
        BY <1>3, <2>2, <3>1 DEF WorkerInv, AskedInv
    <2>13. AloneInv'
      <3>1. \A f \in alone : f # e /\ f \in Evals
        BY <1>2, <2>3 DEF WorkerInv, AloneInv
      <3>2. ASSUME alive, Worker!Pending = {}
            PROVE  running = NoEval /\ lock = NoEval
                   /\ \A k \in Nat, f \in Evals : ~Asks(toWorker, k, f)
        <4>1. \A f \in Evals : ~Open(f)
          BY <3>2 DEF Worker!Pending, Open, WorkerInv, CallInv
        <4> QED
          BY <2>6, <4>1 DEF WorkerInv, WorkInv
      <3>3. CASE Worker!Pending = {}
        <4>1. ASSUME alive PROVE \A k \in Nat, f \in Evals : Asks(toWorker', k, f) => k = n + 1
          BY <2>2, <3>2, <3>3, <4>1
        <4> QED
          BY <1>3, <2>1, <2>2, <2>3, <3>1, <3>2, <3>3, <4>1 DEF WorkerInv, AloneInv
      <3>4. CASE Worker!Pending # {}
        <4>1. alone' = alone
          BY <1>6, <3>4
        <4> QED
          BY <1>3, <2>1, <2>2, <2>8, <3>1, <4>1 DEF WorkerInv, AloneInv
      <3> QED
        BY <3>3, <3>4
    <2>14. Worker!EvaluationsApart'
      BY <1>3, <2>1, <2>3, <2>5, <2>6 DEF WorkerInv, Worker!EvaluationsApart, Open,
         Worker!NeverRefusedAlone, Worker!InterruptsAimed, Worker!HandleIsCurrent,
         Worker!InterruptsOnlyEarlier
    <2> QED
      BY <2>1, <2>4, <2>9, <2>10, <2>11, <2>12, <2>13, <2>14 DEF WorkerInv
  <1> QED
    BY <1>5, <1>6 DEF Worker!SendEvaluate

\* A call less waits for initWorkerPromise.
LEMMA ResumesCallInv ==
  ASSUME WorkerInv, NEW x, Worker!Resumes(x),
         \A f \in Evals : call[f] = "waiting" => call'[f] = "waiting",
         \A f \in Evals : call'[f] = "sent" => init' = "ready",
         \A f \in Evals : call'[f] = "cancelled" => ~alive'
  PROVE  CallInv'
  <1>1. /\ Len(waiting') \in Nat /\ Len(waiting) = Len(waiting') + 1
        /\ \A k \in 1 .. Len(waiting') : waiting'[k] = waiting[k + 1]
    BY ResumesIs
  <1>2. \A k \in 1 .. Len(waiting'), f \in Evals :
          waiting'[k] = Worker!Evaluate(f) =>
            /\ call[f] = "waiting"
            /\ \A l \in 1 .. Len(waiting') : waiting'[l] = Worker!Evaluate(f) => l = k
    <2> SUFFICES ASSUME NEW k \in 1 .. Len(waiting'), NEW f \in Evals,
                        waiting'[k] = Worker!Evaluate(f)
                 PROVE  /\ call[f] = "waiting"
                        /\ \A l \in 1 .. Len(waiting') : waiting'[l] = Worker!Evaluate(f) => l = k
      OBVIOUS
    <2>1. k + 1 \in 1 .. Len(waiting) /\ waiting[k + 1] = Worker!Evaluate(f)
      BY <1>1
    <2>2. \A l \in 1 .. Len(waiting') :
            waiting'[l] = Worker!Evaluate(f) =>
              l + 1 \in 1 .. Len(waiting) /\ waiting[l + 1] = Worker!Evaluate(f)
      BY <1>1
    <2>3. /\ call[f] = "waiting"
          /\ \A l \in 1 .. Len(waiting) : waiting[l] = Worker!Evaluate(f) => l = k + 1
      BY <2>1 DEF WorkerInv, CallInv
    <2>4. \A l \in 1 .. Len(waiting') : waiting'[l] = Worker!Evaluate(f) => l = k
      BY <1>1, <2>2, <2>3
    <2> QED
      BY <2>3, <2>4
  <1> QED
    BY <1>2 DEF CallInv

\* interrupt() interrupts natively, asks the worker, or throws.
LEMMA SendInterruptInv ==
  ASSUME Worker!WorkerAssumption, WorkerInv, NEW i \in Interrupts, Worker!SendInterrupt(i)
  PROVE  WorkerInv'
  <1>1. Worker!Resumes(Worker!Interrupt(i)) /\ init \in {"ready", "failed"}
        /\ waiting' \in Seq(Worker!Requests \cup {Worker!Terminate})
    BY ResumesIs DEF Worker!SendInterrupt
  <1>2. UNCHANGED << init, call, end, handle, toMain, alive, running, lock, script, busy, alone >>
    BY DEF Worker!SendInterrupt
  <1>3. CallInv'
    BY <1>1, <1>2, ResumesCallInv DEF WorkerInv, CallInv
  <1>4. ask' \in [Interrupts -> { "none", "waiting", "sent", "threw", "true", "false" }]
    BY DEF Worker!SendInterrupt, WorkerInv, Worker!TypeOK
  <1>5. \A f \in Evals : Open(f)' <=> Open(f)
    BY <1>2 DEF Open
  <1>6. /\ running \in Evals \cup {NoEval} /\ lock \in Evals \cup {NoEval} /\ NoEval \notin Evals
        /\ handle \in Evals \cup {NoEval} /\ asked \subseteq Evals /\ aimed \subseteq Evals
        /\ toWorker \in Seq(Worker!Requests) /\ killed \in BOOLEAN
    BY DEF WorkerInv, Worker!TypeOK, Worker!WorkerAssumption
  <1>7. CASE UNCHANGED << toWorker, killed, asked, aimed >>
    <2>1. Worker!TypeOK'
      BY <1>1, <1>2, <1>4, <1>7 DEF WorkerInv, Worker!TypeOK
    <2> QED
      BY <1>2, <1>3, <1>5, <1>7, <2>1, SameOpen
  <1>8. ASSUME init = "ready", Worker!NoteInterrupt, toWorker' \in Seq(Worker!Requests),
               \A k \in Nat, f \in Evals : Asks(toWorker', k, f) <=> Asks(toWorker, k, f),
               killed' \in BOOLEAN, killed' => running \in asked'
        PROVE  WorkerInv'
    <2>1. /\ asked' = asked \cup Worker!Pending /\ aimed' \subseteq Evals
          /\ asked' \subseteq Evals /\ asked \subseteq asked'
      BY <1>6, <1>8 DEF Worker!NoteInterrupt, Worker!Pending
    <2>2. Worker!TypeOK'
      BY <1>1, <1>2, <1>4, <1>8, <2>1 DEF WorkerInv, Worker!TypeOK
    <2>3. WorkInv'
      BY <1>2, <1>5, <1>6, <1>8, <2>1 DEF WorkerInv, WorkInv
    <2>4. AnswerInv'
      BY <1>2, <1>5, <1>8, <2>1 DEF WorkerInv, AnswerInv
    <2>5. HandleInv'
      BY <1>2, <1>5, <1>8 DEF WorkerInv, HandleInv
    <2>6. alive => \A f \in Evals : Open(f) => f \in asked'
      BY <2>1 DEF Open, Worker!Pending, WorkerInv, CallInv
    <2>7. AskedInv'
      BY <1>2, <1>6, <1>8, <2>6 DEF WorkerInv, WorkInv, AskedInv
    <2>8. AloneInv'
      <3>1. alone \subseteq Evals
        BY DEF WorkerInv, Worker!TypeOK
      <3> QED
        BY <1>2, <1>8, <3>1 DEF WorkerInv, AloneInv
    <2>9. Worker!EvaluationsApart'
      BY <1>2, <2>1 DEF WorkerInv, Worker!EvaluationsApart, Worker!NeverRefusedAlone,
         Worker!InterruptsAimed, Worker!HandleIsCurrent, Worker!InterruptsOnlyEarlier
    <2> QED
      BY <1>3, <2>2, <2>3, <2>4, <2>5, <2>7, <2>8, <2>9 DEF WorkerInv
  <1>9. CASE /\ init = "ready" /\ handle # NoEval
             /\ killed' = (killed \/ (alive /\ running = handle))
             /\ Worker!NoteInterrupt /\ UNCHANGED toWorker
    <2>1. asked' = asked \cup Worker!Pending
      BY <1>9 DEF Worker!NoteInterrupt
    <2>2. killed => running \in asked
      BY DEF WorkerInv, WorkInv
    <2>3. ASSUME alive, running = handle PROVE running \in asked'
      <3>1. running \in Evals /\ Open(running)
        BY <1>6, <1>9, <2>3 DEF WorkerInv, WorkInv
      <3> QED
        BY <2>1, <2>3, <3>1 DEF Open, Worker!Pending, WorkerInv, CallInv
    <2>4. killed' => running \in asked'
      BY <1>9, <2>1, <2>2, <2>3
    <2>5. killed' \in BOOLEAN
      BY <1>9, Zenon
    <2> QED
      BY <1>6, <1>8, <1>9, <2>4, <2>5
  <1>10. CASE /\ init = "ready" /\ handle = NoEval
              /\ toWorker' = Append(toWorker, Worker!Interrupt(i))
              /\ Worker!NoteInterrupt /\ UNCHANGED killed
    <2>1. /\ toWorker' \in Seq(Worker!Requests)
          /\ \A k \in Nat, f \in Evals : Asks(toWorker', k, f) <=> Asks(toWorker, k, f)
      BY <1>6, <1>10, OneMoreStop
    <2>2. killed' => running \in asked'
      BY <1>10 DEF Worker!NoteInterrupt, WorkerInv, WorkInv
    <2> QED
      BY <1>6, <1>8, <1>10, <2>1, <2>2
  <1> QED
    BY <1>7, <1>9, <1>10 DEF Worker!SendInterrupt

\* terminate() cancels what is sent; with the worker known, it is gone.
LEMMA SendTerminateInv ==
  ASSUME Worker!WorkerAssumption, WorkerInv, Worker!SendTerminate
  PROVE  WorkerInv'
  <1>1. Worker!Resumes(Worker!Terminate) /\ init \in {"ready", "failed"}
        /\ waiting' \in Seq(Worker!Requests \cup {Worker!Terminate})
    BY ResumesIs DEF Worker!SendTerminate
  <1>2. /\ UNCHANGED << init, ask, handle, toWorker, toMain, running, killed, lock, script, busy,
                        alone, asked, aimed >>
        /\ end' = "done"
        /\ call' = [e \in Evals |-> IF e \in Worker!Pending THEN "cancelled" ELSE call[e]]
    BY DEF Worker!SendTerminate, Worker!history
  <1>3. /\ \A e \in Evals : call[e] = "sent" => call'[e] = "cancelled" /\ init = "ready"
        /\ \A e \in Evals : call[e] # "sent" => call'[e] = call[e]
    BY <1>2 DEF Worker!Pending, WorkerInv, CallInv
  <1>4. (alive' => alive /\ init # "ready") /\ alive' \in BOOLEAN
    BY Zenon DEF Worker!SendTerminate
  <1>5. CallInv'
    <2>1. \A e \in Evals : call'[e] = "cancelled" => ~alive'
      BY <1>3, <1>4 DEF WorkerInv, CallInv
    <2>2. \A e \in Evals : call'[e] = "sent" => init' = "ready"
      BY <1>3
    <2> QED
      BY <1>1, <1>3, <2>1, <2>2, ResumesCallInv
  <1>6. call' \in [Evals -> { "none", "waiting", "sent", "threw", "cancelled" } \cup Worker!Outcomes]
    BY <1>2 DEF WorkerInv, Worker!TypeOK
  <1>7. Worker!TypeOK'
    BY <1>1, <1>2, <1>4, <1>6 DEF WorkerInv, Worker!TypeOK
  <1>8. /\ \A e \in Evals : Open(e)' <=> Open(e)
        /\ \A e \in Evals : call[e] \notin {"none", "waiting"} => call'[e] \notin {"none", "waiting"}
        /\ \A e \in Evals : call'[e] \in Worker!Outcomes => call'[e] = call[e]
    BY <1>3 DEF Open, Worker!Outcomes
  <1> QED
    BY <1>2, <1>4, <1>5, <1>7, <1>8, SameOpen

\* The main thread takes a handle, an answer or a reply.
LEMMA ReceiveInv ==
  ASSUME Worker!WorkerAssumption, WorkerInv, Worker!Receive
  PROVE  WorkerInv'
  <1>1. /\ toMain \in Seq(Worker!Posts) /\ toMain # << >> /\ toMain' = Tail(toMain)
        /\ UNCHANGED << init, waiting, end, toWorker, alive, running, killed, lock, script, busy,
                        alone, asked, aimed >>
    BY DEF Worker!Receive, Worker!worker, Worker!history, WorkerInv, Worker!TypeOK
  <1> PICK m : m = Head(toMain)
    OBVIOUS
  <1>2. /\ toMain' \in Seq(Worker!Posts) /\ m = toMain[1] /\ m \in Worker!Posts
        /\ 1 \in 1 .. Len(toMain)
        /\ \A k \in Nat : Hands(toMain', k) <=> (k # 0 /\ Hands(toMain, k + 1))
        /\ \A k \in Nat, e \in Evals, o \in Worker!Outcomes :
             Answers(toMain', k, e, o) <=> (k # 0 /\ Answers(toMain, k + 1, e, o))
    <2>1. Len(toMain) \in Nat /\ Len(toMain) >= 1 /\ Head(toMain) = toMain[1]
      BY <1>1, OnePostLess
    <2>2. 1 \in 1 .. Len(toMain)
      BY <2>1
    <2> QED
      BY <1>1, <2>1, <2>2, OnePostLess
  <1>3. ASSUME NEW k \in Nat, NEW e \in Evals
        PROVE  Posted(handle', toMain', k, e)
                 <=> ((k = 0 /\ handle' = e) \/ (k # 0 /\ Posted(handle', toMain, k + 1, e)))
    BY <1>1, OnePostLess
  <1>4. ASSUME NEW k \in Nat, NEW e \in Evals, k # 0, Posted(handle', toMain, k, e)
        PROVE  Posted(handle, toMain, k, e)
    BY <1>4 DEF Posted
  <1>5. ASSUME NEW j \in Nat, NEW e \in Evals, NEW o \in Worker!Outcomes,
               Answers(toMain', j, e, o)
        PROVE  j # 0 /\ j + 1 \in Nat /\ Answers(toMain, j + 1, e, o)
    BY <1>2, <1>5
  <1>6. ASSUME NEW l \in Nat, Hands(toMain, l), l # 1
        PROVE  l - 1 \in Nat /\ Hands(toMain', l - 1)
    <2>1. l \in 1 .. Len(toMain)
      BY <1>6, Places
    <2>2. l - 1 \in Nat /\ l - 1 # 0 /\ (l - 1) + 1 = l
      BY <1>6, <2>1
    <2> QED
      BY <1>2, <1>6, <2>2
  <1>7. /\ handle \in Evals \cup {NoEval} /\ running \in Evals \cup {NoEval} /\ NoEval \notin Evals
        /\ lock \in Evals \cup {NoEval} /\ alone \subseteq Evals
    BY DEF WorkerInv, Worker!TypeOK, Worker!WorkerAssumption
  \* What comes after the first message moves up.
  <1>8. ASSUME Worker!TypeOK', CallInv', \A e \in Evals : Open(e)' => Open(e),
               \A e \in Evals : Open(e) => Open(e)' \/ (running # e /\ lock # e /\ e # handle'),
               \A k \in Nat, e \in Evals : Asks(toWorker, k, e) => Open(e)',
               \A j \in Nat, e \in Evals, o \in Worker!Outcomes :
                 Answers(toMain', j, e, o) => Open(e)',
               \A k \in Nat, e \in Evals :
                 Posted(handle', toMain', k, e) =>
                   /\ Open(e)'
                   /\ \/ Posted(handle, toMain, k + 1, e)
                      \/ k = 0 /\ Posted(handle, toMain, 0, e) /\ ~Hands(toMain, 1),
               \A e \in Evals : call[e] \notin {"none", "waiting"} => call'[e] \notin {"none", "waiting"},
               \A e \in alone : call'[e] # "refused",
               \A e \in Evals : call'[e] = "interrupted" => e \in asked
        PROVE  WorkerInv'
    <2>1. WorkInv'
      BY <1>1, <1>7, <1>8 DEF WorkerInv, WorkInv
    <2>2. AnswerInv'
      <3> SUFFICES ASSUME NEW j \in Nat, NEW e \in Evals, NEW o \in Worker!Outcomes,
                          Answers(toMain', j, e, o)
                   PROVE  /\ Open(e)' /\ running' # e /\ lock' # e
                          /\ \A k \in Nat : ~Asks(toWorker', k, e)
                          /\ \A i \in Nat, p \in Worker!Outcomes : Answers(toMain', i, e, p) => i = j
                          /\ o = "interrupted" => e \in asked'
                          /\ o = "refused" => e \notin alone'
        BY DEF AnswerInv
      <3>1. j + 1 \in Nat /\ Answers(toMain, j + 1, e, o)
        BY <1>5
      <3>2. \A i \in Nat, p \in Worker!Outcomes : Answers(toMain, i, e, p) => i = j + 1
        BY <3>1 DEF WorkerInv, AnswerInv
      <3>3. \A i \in Nat, p \in Worker!Outcomes : Answers(toMain', i, e, p) => i = j
        BY <1>5, <3>2
      <3> QED
        BY <1>1, <1>8, <3>1, <3>3 DEF WorkerInv, AnswerInv
    <2>3. HandleInv'
      <3> SUFFICES ASSUME NEW k \in Nat, NEW e \in Evals, Posted(handle', toMain', k, e)
                   PROVE  /\ Open(e)'
                          /\ \A l \in Nat : ~Asks(toWorker', l, e)
                          /\ lock' = e => \E l \in Nat : k < l /\ Hands(toMain', l)
                          /\ \A j \in Nat, o \in Worker!Outcomes :
                               Answers(toMain', j, e, o)
                                 => \E l \in Nat : k < l /\ l < j /\ Hands(toMain', l)
        BY DEF HandleInv
      <3>1. PICK q \in Nat : /\ Posted(handle, toMain, q, e)
                             /\ q = k + 1 \/ (q = 0 /\ k = 0 /\ ~Hands(toMain, 1))
        <4>1. k + 1 \in Nat /\ 0 \in Nat
          OBVIOUS
        <4> QED
          BY <1>8, <4>1
      <3>2. /\ Open(e)
            /\ \A l \in Nat : ~Asks(toWorker, l, e)
            /\ lock = e => \E l \in Nat : q < l /\ Hands(toMain, l)
            /\ \A j \in Nat, o \in Worker!Outcomes :
                 Answers(toMain, j, e, o) => \E l \in Nat : q < l /\ l < j /\ Hands(toMain, l)
        BY <3>1 DEF WorkerInv, HandleInv
      <3>3. ASSUME NEW l \in Nat, q < l, Hands(toMain, l)
            PROVE  l - 1 \in Nat /\ k < l - 1 /\ Hands(toMain', l - 1)
        <4>1. l # 1 /\ k < l - 1
          BY <3>1, <3>3
        <4> QED
          BY <1>6, <3>3, <4>1
      <3>4. ASSUME lock' = e PROVE \E l \in Nat : k < l /\ Hands(toMain', l)
        <4>1. PICK l \in Nat : q < l /\ Hands(toMain, l)
          BY <1>1, <3>2, <3>4
        <4> QED
          BY <3>3, <4>1
      <3>5. ASSUME NEW j \in Nat, NEW o \in Worker!Outcomes, Answers(toMain', j, e, o)
            PROVE  \E l \in Nat : k < l /\ l < j /\ Hands(toMain', l)
        <4>1. PICK l \in Nat : q < l /\ l < j + 1 /\ Hands(toMain, l)
          BY <1>5, <3>2, <3>5
        <4>2. l - 1 \in Nat /\ k < l - 1 /\ l - 1 < j /\ Hands(toMain', l - 1)
          BY <3>3, <4>1
        <4> QED
          BY <4>2
      <3> QED
        BY <1>1, <1>8, <3>2, <3>4, <3>5
    <2>4. AskedInv' /\ AloneInv'
      BY <1>1, <1>7, <1>8 DEF WorkerInv, AskedInv, AloneInv
    <2>5. Worker!HandleIsCurrent'
      <3>1. handle' \in Evals \cup {NoEval}
        BY <1>8 DEF Worker!TypeOK
      <3>2. handle' # NoEval => Posted(handle', toMain', 0, handle') /\ 0 \in Nat /\ handle' \in Evals
        BY <3>1, Places
      <3> QED
        BY <1>8, <3>2 DEF Worker!HandleIsCurrent, Open
    <2>6. Worker!EvaluationsApart'
      BY <1>1, <1>8, <2>5 DEF Worker!EvaluationsApart, Worker!NeverRefusedAlone,
         Worker!InterruptsAimed, Worker!InterruptsOnlyEarlier
    <2> QED
      BY <1>8, <2>1, <2>2, <2>3, <2>4, <2>6 DEF WorkerInv
  <1>9. /\ \A k \in Nat, e \in Evals : Asks(toWorker, k, e) => Open(e)
        /\ \A j \in Nat, e \in Evals, o \in Worker!Outcomes : Answers(toMain, j, e, o) => Open(e)
        /\ \A k \in Nat, e \in Evals : Posted(handle, toMain, k, e) => Open(e)
        /\ running # NoEval => Open(running)
        /\ lock # NoEval => Open(lock)
    BY DEF WorkerInv, WorkInv, AnswerInv, HandleInv
  <1>10. \A j \in Nat, e \in Evals, o \in Worker!Outcomes : Answers(toMain', j, e, o) => Open(e)
    BY <1>5, <1>9
  <1>11. /\ \A e \in alone : call[e] # "refused"
         /\ \A e \in Evals : call[e] = "interrupted" => e \in asked
    BY DEF WorkerInv, Worker!EvaluationsApart, Worker!NeverRefusedAlone,
       Worker!InterruptsAimed,
       Worker!InterruptsOnlyEarlier
  <1>12. CASE m[1] = "handle" /\ handle' = m[2] /\ UNCHANGED << call, ask >>
    <2>1. Worker!TypeOK'
      BY <1>1, <1>2, <1>12, PostsAre DEF WorkerInv, Worker!TypeOK
    <2>2. CallInv'
      BY <1>1, <1>12 DEF WorkerInv, CallInv
    <2>3. \A e \in Evals : Open(e)' <=> Open(e)
      BY <1>12 DEF Open
    <2>4. ASSUME NEW k \in Nat, NEW e \in Evals, Posted(handle', toMain', k, e)
          PROVE  k + 1 \in Nat /\ Posted(handle, toMain, k + 1, e)
      <3>1. CASE k = 0
        BY <1>2, <1>3, <1>12, <2>4, <3>1 DEF Posted, Hands
      <3>2. CASE k # 0
        <4>1. k + 1 \in Nat /\ k + 1 # 0
          OBVIOUS
        <4> QED
          BY <1>3, <1>4, <2>4, <3>2, <4>1
      <3> QED
        BY <3>1, <3>2
    <2> QED
      BY <1>8, <1>9, <1>10, <1>11, <1>12, <2>1, <2>2, <2>3, <2>4
  <1>13. CASE m[1] # "handle" /\ handle' = handle
    <2>1. ~Hands(toMain, 1)
      BY <1>2, <1>13 DEF Hands
    <2>2. ASSUME NEW k \in Nat, NEW e \in Evals, Posted(handle', toMain', k, e)
          PROVE  \/ k + 1 \in Nat /\ Posted(handle, toMain, k + 1, e)
                 \/ k = 0 /\ Posted(handle, toMain, 0, e)
      <3>1. CASE k = 0
        BY <1>3, <1>13, <2>2, <3>1, Places
      <3>2. CASE k # 0
        <4>1. k + 1 \in Nat /\ k + 1 # 0
          OBVIOUS
        <4> QED
          BY <1>3, <1>4, <2>2, <3>2, <4>1
      <3> QED
        BY <3>1, <3>2
    <2>3. CASE m[1] = "reply" /\ ask' = [ask EXCEPT ![m[2]] = m[3]] /\ UNCHANGED call
      <3>1. ask' \in [Interrupts -> { "none", "waiting", "sent", "threw", "true", "false" }]
        BY <1>2, <2>3, PostsAre DEF WorkerInv, Worker!TypeOK
      <3>2. Worker!TypeOK'
        BY <1>1, <1>2, <1>13, <2>3, <3>1, ZenonT(60) DEF WorkerInv, Worker!TypeOK
      <3>3. CallInv'
        BY <1>1, <2>3 DEF WorkerInv, CallInv
      <3>4. \A e \in Evals : Open(e)' <=> Open(e)
        BY <2>3 DEF Open
      <3>5. \A k \in Nat, e \in Evals : Posted(handle', toMain', k, e) => Open(e)
        BY <1>9, <2>2
      <3> QED
        BY <1>8, <1>9, <1>10, <1>11, <2>1, <2>2, <2>3, <3>2, <3>3, <3>4, <3>5
    <2>4. CASE /\ m[1] = "answer" /\ ask' = ask
               /\ call' = IF call[m[2]] = "sent" THEN [call EXCEPT ![m[2]] = m[3]] ELSE call
      <3> PICK g, o : g = m[2] /\ o = m[3]
        OBVIOUS
      <3>1. /\ g \in Evals /\ o \in Worker!Outcomes /\ m = << "answer", g, o >>
            /\ 1 \in Nat /\ Answers(toMain, 1, g, o)
        BY <1>2, <2>4, PostsAre DEF Answers
      <3>2. /\ Open(g) /\ running # g /\ lock # g
            /\ \A k \in Nat : ~Asks(toWorker, k, g)
            /\ \A i \in Nat, p \in Worker!Outcomes : Answers(toMain, i, g, p) => i = 1
            /\ o = "interrupted" => g \in asked
            /\ o = "refused" => g \notin alone
        BY <3>1 DEF WorkerInv, AnswerInv
      <3>3. \A k \in Nat : ~Posted(handle, toMain, k, g)
        <4> SUFFICES ASSUME NEW k \in Nat, Posted(handle, toMain, k, g) PROVE FALSE
          OBVIOUS
        <4>1. PICK l \in Nat : k < l /\ l < 1
          BY <3>1 DEF WorkerInv, HandleInv
        <4> QED
          BY <4>1
      <3>4. \A j \in Nat, p \in Worker!Outcomes : ~Answers(toMain', j, g, p)
        <4> SUFFICES ASSUME NEW j \in Nat, NEW p \in Worker!Outcomes, Answers(toMain', j, g, p)
                     PROVE  FALSE
          OBVIOUS
        <4>1. j # 0 /\ j + 1 = 1
          BY <1>5, <3>1, <3>2
        <4> QED
          BY <4>1
      <3>5. \A k \in Nat : ~Posted(handle', toMain', k, g)
        BY <2>2, <3>1, <3>3
      <3>6. /\ call' \in [Evals -> { "none", "waiting", "sent", "threw", "cancelled" }
                                     \cup Worker!Outcomes]
            /\ \A e \in Evals : e # g => call'[e] = call[e]
            /\ call[g] = "sent" => call'[g] = o
            /\ call[g] # "sent" => call'[g] = call[g]
        BY <2>4, <3>1 DEF WorkerInv, Worker!TypeOK
      <3>7. \A e \in Evals : e # g => (Open(e)' <=> Open(e))
        BY <3>6 DEF Open
      <3>8. /\ call'[g] \in Worker!Outcomes \cup {"cancelled"} /\ (Open(g)' => Open(g))
            /\ call'[g] # "cancelled" => call'[g] = o
            /\ call'[g] # "waiting" /\ call'[g] # "sent"
            /\ call'[g] = "cancelled" => call[g] = "cancelled"
        BY <3>1, <3>2, <3>6 DEF Open, Worker!Outcomes
      <3>9. Worker!TypeOK'
        BY <1>1, <1>2, <1>13, <2>4, <3>6, ZenonT(60) DEF WorkerInv, Worker!TypeOK
      <3>10. CallInv'
        BY <1>1, <3>2, <3>6, <3>8 DEF WorkerInv, CallInv, Open
      <3>11. handle' # g
        BY <3>5, Places
      <3>12. /\ \A e \in Evals : Open(e)' => Open(e)
             /\ \A e \in Evals : Open(e) => Open(e)' \/ (running # e /\ lock # e /\ e # handle')
        BY <3>2, <3>7, <3>8, <3>11
      <3>13. /\ \A k \in Nat, e \in Evals : Asks(toWorker, k, e) => Open(e)'
             /\ \A j \in Nat, e \in Evals, p \in Worker!Outcomes :
                  Answers(toMain', j, e, p) => Open(e)'
        BY <1>9, <1>10, <3>2, <3>4, <3>7
      <3>14. \A k \in Nat, e \in Evals :
               Posted(handle', toMain', k, e) =>
                 /\ Open(e)'
                 /\ \/ Posted(handle, toMain, k + 1, e)
                    \/ k = 0 /\ Posted(handle, toMain, 0, e) /\ ~Hands(toMain, 1)
        BY <1>9, <2>1, <2>2, <3>5, <3>7
      <3>15. \A e \in Evals : call[e] \notin {"none", "waiting"} => call'[e] \notin {"none", "waiting"}
        BY <3>6, <3>8 DEF Worker!Outcomes
      <3>16. \A e \in alone : call'[e] # "refused"
        BY <1>7, <1>11, <3>2, <3>6, <3>8
      <3>17. \A e \in Evals : call'[e] = "interrupted" => e \in asked
        BY <1>11, <3>2, <3>6, <3>8
      <3> QED
        BY <1>8, <3>9, <3>10, <3>12, <3>13, <3>14, <3>15, <3>16, <3>17
    <2> QED
      BY <1>13, <2>3, <2>4 DEF Worker!Receive
  <1> QED
    BY <1>2, <1>12, <1>13 DEF Worker!Receive

\* The worker takes the first request.
LEMMA TakeIs ==
  ASSUME WorkerInv, NEW x, Worker!Take(x)
  PROVE  /\ alive /\ running = NoEval /\ toWorker' \in Seq(Worker!Requests)
         /\ 1 \in 1 .. Len(toWorker) /\ toWorker[1] = x
         /\ \A k \in Nat, f \in Evals :
              Asks(toWorker', k, f) => k # 0 /\ k + 1 \in Nat /\ Asks(toWorker, k + 1, f)
         /\ \A k \in Nat :
              Stops(toWorker', k) => k # 0 /\ k + 1 \in Nat /\ Stops(toWorker, k + 1)
  <1>1. toWorker \in Seq(Worker!Requests) /\ toWorker # << >> /\ toWorker' = Tail(toWorker)
        /\ Head(toWorker) = x /\ alive /\ running = NoEval
    BY DEF WorkerInv, Worker!TypeOK, Worker!Take
  <1>2. Len(toWorker) \in Nat /\ Len(toWorker) >= 1 /\ Head(toWorker) = toWorker[1]
    BY <1>1, OneRequestLess
  <1>3. 1 \in 1 .. Len(toWorker)
    BY <1>2
  <1> QED
    BY <1>1, <1>2, <1>3, OneRequestLess

\* The worker's own steps leave the calls alone.
LEMMA WorkerCalls ==
  ASSUME WorkerInv, UNCHANGED << init, waiting, call, ask, end, handle, alive, alone, asked, aimed >>
  PROVE  /\ CallInv'
         /\ \A e \in Evals : Open(e)' <=> Open(e)
         /\ Worker!EvaluationsApart'
  <1>1. CallInv'
    BY DEF WorkerInv, CallInv
  <1>2. \A e \in Evals : Open(e)' <=> Open(e)
    BY DEF Open
  <1>3. Worker!EvaluationsApart'
    BY DEF WorkerInv, Worker!EvaluationsApart, Worker!NeverRefusedAlone,
       Worker!InterruptsAimed,
       Worker!HandleIsCurrent, Worker!InterruptsOnlyEarlier
  <1> QED
    BY <1>1, <1>2, <1>3

\* evaluate() in the worker: refused, or the script starts.
LEMMA TakeEvaluateInv ==
  ASSUME Worker!WorkerAssumption, WorkerInv, NEW e \in Evals, Worker!TakeEvaluate(e)
  PROVE  WorkerInv'
  <1>1. /\ alive /\ running = NoEval /\ toWorker' \in Seq(Worker!Requests)
        /\ 1 \in 1 .. Len(toWorker) /\ toWorker[1] = Worker!Evaluate(e)
        /\ \A k \in Nat, f \in Evals :
             Asks(toWorker', k, f) => k # 0 /\ k + 1 \in Nat /\ Asks(toWorker, k + 1, f)
        /\ \A k \in Nat :
             Stops(toWorker', k) => k # 0 /\ k + 1 \in Nat /\ Stops(toWorker, k + 1)
    BY TakeIs DEF Worker!TakeEvaluate
  <1>2. UNCHANGED << init, waiting, call, ask, end, handle, alive, killed, lock, busy,
                     alone, asked, aimed >>
    BY DEF Worker!TakeEvaluate, Worker!history
  <1>3. 1 \in Nat /\ Asks(toWorker, 1, e)
    BY <1>1 DEF Asks
  <1>4. CallInv' /\ (\A f \in Evals : Open(f)' <=> Open(f)) /\ Worker!EvaluationsApart'
    BY <1>2, WorkerCalls
  <1>5. /\ NoEval \notin Evals /\ lock \in Evals \cup {NoEval} /\ toMain \in Seq(Worker!Posts)
        /\ handle \in Evals \cup {NoEval} /\ alone \subseteq Evals /\ asked \subseteq Evals
    BY DEF WorkerInv, Worker!TypeOK, Worker!WorkerAssumption
  <1>6. /\ Open(e) /\ lock # e /\ \A k \in Nat : Asks(toWorker, k, e) => k = 1
        /\ \A j \in Nat, o \in Worker!Outcomes : ~Answers(toMain, j, e, o)
        /\ \A k \in Nat : ~Posted(handle, toMain, k, e)
        /\ ~killed
    BY <1>1, <1>3, <1>5 DEF WorkerInv, WorkInv, AnswerInv, HandleInv
  <1>7. \A k \in Nat : ~Asks(toWorker', k, e)
    <2> SUFFICES ASSUME NEW k \in Nat, Asks(toWorker', k, e) PROVE FALSE
      OBVIOUS
    <2>1. k # 0 /\ k + 1 = 1
      BY <1>1, <1>6
    <2> QED
      BY <2>1
  <1>8. \A k \in Nat : k # 0 => 1 < k + 1
    OBVIOUS
  <1>9. CASE lock # NoEval /\ toMain' = toMain \o Worker!Answer(e, "refused")
             /\ UNCHANGED << running, script >>
    <2> PICK n \in Nat : n = Len(toMain)
      BY <1>5, PostOneIs, <1>1
    <2>1. "refused" \in Worker!Outcomes
      BY DEF Worker!Outcomes
    <2>2. /\ toMain' \in Seq(Worker!Posts)
          /\ \A k \in Nat : Hands(toMain', k) <=> Hands(toMain, k)
          /\ \A k \in Nat, f \in Evals :
               Posted(handle', toMain', k, f) <=> Posted(handle, toMain, k, f)
          /\ \A k \in Nat, f \in Evals, o \in Worker!Outcomes :
               Answers(toMain', k, f, o)
                 <=> (Answers(toMain, k, f, o) \/ (k = n + 1 /\ f = e /\ o = "refused"))
      <3>1. NowAnswered(toMain, toMain', e, "refused") /\ handle' = handle
        BY <1>2, <1>5, <1>9, <2>1, AnswerPosted
      <3> QED
        BY <3>1 DEF NowAnswered
    <2>3. e \notin alone
      BY <1>1, <1>3, <1>9 DEF WorkerInv, AloneInv
    <2>4. Worker!TypeOK'
      BY <1>1, <1>2, <1>9, <2>2 DEF WorkerInv, Worker!TypeOK
    <2>5. WorkInv'
      BY <1>1, <1>2, <1>4, <1>5, <1>6, <1>9 DEF WorkerInv, WorkInv
    <2>6. AnswerInv'
      BY <1>1, <1>2, <1>4, <1>5, <1>6, <1>7, <1>9, <2>2, <2>3 DEF WorkerInv, AnswerInv
    <2>7. HandleInv'
      BY <1>1, <1>2, <1>4, <1>6, <2>2 DEF WorkerInv, HandleInv
    <2>8. AskedInv'
      BY <1>1, <1>2, <1>9 DEF WorkerInv, AskedInv
    <2>9. AloneInv'
      BY <1>1, <1>2, <1>5, <1>9 DEF WorkerInv, AloneInv
    <2> QED
      BY <1>4, <2>4, <2>5, <2>6, <2>7, <2>8, <2>9 DEF WorkerInv
  <1>10. CASE lock = NoEval /\ running' = e /\ script' = script \cup {e}
              /\ toMain' = toMain \o Worker!Handle(e)
    <2> PICK n \in Nat : n = Len(toMain)
      BY <1>5, PostOneIs, <1>1
    <2>2. /\ toMain' \in Seq(Worker!Posts)
          /\ \A k \in Nat : Hands(toMain', k) <=> (Hands(toMain, k) \/ k = n + 1)
          /\ \A k \in Nat, f \in Evals :
               Posted(handle', toMain', k, f)
                 <=> (Posted(handle, toMain, k, f) \/ (k = n + 1 /\ f = e))
          /\ \A k \in Nat, f \in Evals, o \in Worker!Outcomes :
               Answers(toMain', k, f, o) <=> Answers(toMain, k, f, o)
      <3>1. NowHanded(toMain, toMain', e) /\ handle' = handle
        BY <1>2, <1>5, <1>10, HandlePosted
      <3> QED
        BY <3>1 DEF NowHanded
    <2>3. Worker!TypeOK'
      BY <1>1, <1>2, <1>10, <2>2 DEF WorkerInv, Worker!TypeOK
    <2>4. WorkInv'
      BY <1>1, <1>2, <1>4, <1>5, <1>6, <1>7, <1>10 DEF WorkerInv, WorkInv
    <2>5. AnswerInv'
      BY <1>1, <1>2, <1>4, <1>6, <1>10, <2>2 DEF WorkerInv, AnswerInv
    <2>6. HandleInv'
      BY <1>1, <1>2, <1>4, <1>5, <1>6, <1>7, <1>10, <2>2 DEF WorkerInv, HandleInv
    <2>7. AskedInv'
      BY <1>1, <1>2, <1>3, <1>8, <1>10 DEF WorkerInv, AskedInv
    <2>8. AloneInv'
      BY <1>1, <1>2, <1>3, <1>5, <1>8, <1>10 DEF WorkerInv, AloneInv
    <2> QED
      BY <1>4, <2>3, <2>4, <2>5, <2>6, <2>7, <2>8 DEF WorkerInv
  <1> QED
    BY <1>9, <1>10 DEF Worker!TakeEvaluate, Worker!Post

\* The worker posts the null handle: nothing else becomes known.
LEMMA NullPosted ==
  ASSUME Worker!WorkerAssumption, NEW s \in Seq(Worker!Posts), NEW c
  PROVE  /\ s \o Worker!Handle(NoEval) \in Seq(Worker!Posts) /\ Len(s) \in Nat
         /\ \A k \in Nat :
              Hands(s \o Worker!Handle(NoEval), k) <=> (Hands(s, k) \/ k = Len(s) + 1)
         /\ \A k \in Nat, f \in Evals :
              Posted(c, s \o Worker!Handle(NoEval), k, f) <=> Posted(c, s, k, f)
         /\ \A k \in Nat, f \in Evals, o \in Worker!Outcomes :
              Answers(s \o Worker!Handle(NoEval), k, f, o) <=> Answers(s, k, f, o)
  <1> PICK x : x = << "handle", NoEval, "null" >>
    OBVIOUS
  <1> PICK t : t = s \o Worker!Handle(NoEval)
    OBVIOUS
  <1>1. x \in Worker!Posts
    BY DEF Worker!Posts
  <1>2. NoEval \notin Evals
    BY DEF Worker!WorkerAssumption
  <1>3. /\ x[1] = "handle" /\ \A f \in Evals : x[2] # f
        /\ \A f, o : x # << "answer", f, o >>
    BY <1>2
  <1>4. NowPosted(s, t, x)
    BY <1>1, OneMorePost DEF Worker!Handle
  <1>5. /\ t \in Seq(Worker!Posts) /\ Len(s) \in Nat
        /\ \A k \in Nat : Hands(t, k) <=> (Hands(s, k) \/ k = Len(s) + 1)
        /\ \A k \in Nat, f \in Evals : Posted(c, t, k, f) <=> Posted(c, s, k, f)
        /\ \A k \in Nat, f \in Evals, o \in Worker!Outcomes : Answers(t, k, f, o) <=> Answers(s, k, f, o)
    BY ONLY <1>3, <1>4 DEF NowPosted
  <1> QED
    BY <1>5

\* The worker posts a reply.
LEMMA ReplyPosted ==
  ASSUME NEW s \in Seq(Worker!Posts), NEW c, NEW i \in Interrupts, NEW r \in {"true", "false"}
  PROVE  /\ s \o Worker!Reply(i, r) \in Seq(Worker!Posts) /\ Len(s) \in Nat
         /\ \A k \in Nat : Hands(s \o Worker!Reply(i, r), k) <=> Hands(s, k)
         /\ \A k \in Nat, f \in Evals :
              Posted(c, s \o Worker!Reply(i, r), k, f) <=> Posted(c, s, k, f)
         /\ \A k \in Nat, f \in Evals, o \in Worker!Outcomes :
              Answers(s \o Worker!Reply(i, r), k, f, o) <=> Answers(s, k, f, o)
  <1> PICK x : x = << "reply", i, r >>
    OBVIOUS
  <1> PICK t : t = s \o Worker!Reply(i, r)
    OBVIOUS
  <1>1. x \in Worker!Posts
    BY DEF Worker!Posts
  <1>2. x[1] # "handle" /\ \A f, o : x # << "answer", f, o >>
    OBVIOUS
  <1>3. NowPosted(s, t, x)
    BY <1>1, OneMorePost DEF Worker!Reply
  <1>4. /\ t \in Seq(Worker!Posts) /\ Len(s) \in Nat
        /\ \A k \in Nat : Hands(t, k) <=> Hands(s, k)
        /\ \A k \in Nat, f \in Evals : Posted(c, t, k, f) <=> Posted(c, s, k, f)
        /\ \A k \in Nat, f \in Evals, o \in Worker!Outcomes : Answers(t, k, f, o) <=> Answers(s, k, f, o)
    BY ONLY <1>2, <1>3 DEF NowPosted
  <1> QED
    BY <1>4

\* The synchronous part of a script is over.
LEMMA SyncReturnsInv ==
  ASSUME Worker!WorkerAssumption, WorkerInv, NEW e \in Evals, Worker!SyncReturns(e)
  PROVE  WorkerInv'
  <1>1. /\ running = e /\ ~killed /\ running' = NoEval /\ lock' = e
        /\ toMain' = toMain \o Worker!Handle(NoEval)
        /\ UNCHANGED << init, waiting, call, ask, end, handle, toWorker, alive, killed, script, busy,
                        alone, asked, aimed >>
    BY DEF Worker!SyncReturns, Worker!Post, Worker!history
  <1>2. CallInv' /\ (\A f \in Evals : Open(f)' <=> Open(f)) /\ Worker!EvaluationsApart'
    BY <1>1, WorkerCalls
  <1>3. /\ NoEval \notin Evals /\ toMain \in Seq(Worker!Posts) /\ alone \subseteq Evals
    BY DEF WorkerInv, Worker!TypeOK, Worker!WorkerAssumption
  <1> PICK n \in Nat : n = Len(toMain)
    BY <1>3, NullPosted
  <1>4. /\ toMain' \in Seq(Worker!Posts)
        /\ \A k \in Nat : Hands(toMain', k) <=> (Hands(toMain, k) \/ k = n + 1)
        /\ \A k \in Nat, f \in Evals : Posted(handle', toMain', k, f) <=> Posted(handle, toMain, k, f)
        /\ \A k \in Nat, f \in Evals, o \in Worker!Outcomes :
             Answers(toMain', k, f, o) <=> Answers(toMain, k, f, o)
    BY <1>1, <1>3, NullPosted
  <1>5. \A k \in Nat, f \in Evals : Posted(handle, toMain, k, f) => k < n + 1 /\ n + 1 \in Nat
    BY Places
  <1>6. Worker!TypeOK'
    BY <1>1, <1>4 DEF WorkerInv, Worker!TypeOK
  <1>7. WorkInv'
    BY <1>1, <1>2, <1>3 DEF WorkerInv, WorkInv
  <1>8. AnswerInv'
    BY <1>1, <1>2, <1>3, <1>4 DEF WorkerInv, AnswerInv
  <1>9. HandleInv'
    BY <1>1, <1>2, <1>4, <1>5 DEF WorkerInv, HandleInv
  <1>10. AskedInv' /\ AloneInv'
    BY <1>1, <1>3 DEF WorkerInv, AskedInv, AloneInv
  <1> QED
    BY <1>2, <1>6, <1>7, <1>8, <1>9, <1>10 DEF WorkerInv

\* The synchronous part of a script is killed: the null handle, then the answer.
LEMMA SyncKilledInv ==
  ASSUME Worker!WorkerAssumption, WorkerInv, NEW e \in Evals, Worker!SyncKilled(e)
  PROVE  WorkerInv'
  <1>1. /\ running = e /\ killed /\ running' = NoEval /\ killed' = FALSE /\ script' = script \ {e}
        /\ toMain' = toMain \o (Worker!Handle(NoEval) \o Worker!Answer(e, "interrupted"))
        /\ UNCHANGED << init, waiting, call, ask, end, handle, toWorker, alive, lock, busy,
                        alone, asked, aimed >>
    BY DEF Worker!SyncKilled, Worker!Post, Worker!history
  <1>2. CallInv' /\ (\A f \in Evals : Open(f)' <=> Open(f)) /\ Worker!EvaluationsApart'
    BY <1>1, WorkerCalls
  <1>3. /\ NoEval \notin Evals /\ toMain \in Seq(Worker!Posts) /\ alone \subseteq Evals
        /\ "interrupted" \in Worker!Outcomes
    BY DEF WorkerInv, Worker!TypeOK, Worker!WorkerAssumption, Worker!Outcomes
  <1> PICK n \in Nat : n = Len(toMain)
    BY <1>3, NullPosted
  <1> PICK mid : mid = toMain \o Worker!Handle(NoEval)
    OBVIOUS
  <1>4. /\ mid \in Seq(Worker!Posts)
        /\ \A k \in Nat : Hands(mid, k) <=> (Hands(toMain, k) \/ k = n + 1)
        /\ \A k \in Nat, f \in Evals : Posted(handle, mid, k, f) <=> Posted(handle, toMain, k, f)
        /\ \A k \in Nat, f \in Evals, o \in Worker!Outcomes :
             Answers(mid, k, f, o) <=> Answers(toMain, k, f, o)
    BY <1>3, NullPosted
  <1>5. Len(mid) = n + 1
    <2>1. toMain \o Worker!Handle(NoEval) = toMain \o << << "handle", NoEval, "null" >> >>
      BY DEF Worker!Handle
    <2>2. << "handle", NoEval, "null" >> \in Worker!Posts
      BY DEF Worker!Posts
    <2> QED
      BY <1>3, <2>1, <2>2, PostOneIs
  <1>6. toMain' = mid \o Worker!Answer(e, "interrupted")
    <2>1. Worker!Handle(NoEval) \in Seq(Worker!Posts)
      BY DEF Worker!Handle, Worker!Posts
    <2>2. Worker!Answer(e, "interrupted") \in Seq(Worker!Posts)
      BY <1>3 DEF Worker!Answer, Worker!Posts
    <2>3. toMain \o (Worker!Handle(NoEval) \o Worker!Answer(e, "interrupted"))
            = (toMain \o Worker!Handle(NoEval)) \o Worker!Answer(e, "interrupted")
      <3>1. PICK a, b : a = Worker!Handle(NoEval) /\ b = Worker!Answer(e, "interrupted")
        OBVIOUS
      <3>2. toMain \in Seq(Worker!Posts) /\ a \in Seq(Worker!Posts) /\ b \in Seq(Worker!Posts)
        BY <1>3, <2>1, <2>2, <3>1
      <3>3. toMain \o (a \o b) = (toMain \o a) \o b
        BY ONLY <3>2, ConcatAssociative, SMTT(60)
      <3> QED
        BY <3>1, <3>3
    <2> QED
      BY <1>1, <2>3
  <1>7. /\ toMain' \in Seq(Worker!Posts)
        /\ \A k \in Nat : Hands(toMain', k) <=> (Hands(toMain, k) \/ k = n + 1)
        /\ \A k \in Nat, f \in Evals : Posted(handle', toMain', k, f) <=> Posted(handle, toMain, k, f)
        /\ \A k \in Nat, f \in Evals, o \in Worker!Outcomes :
             Answers(toMain', k, f, o)
               <=> (Answers(toMain, k, f, o) \/ (k = n + 2 /\ f = e /\ o = "interrupted"))
    <2>1. Len(mid) + 1 = n + 2
      BY <1>5
    <2>2. "interrupted" \in Worker!Outcomes
      BY DEF Worker!Outcomes
    <2>5. /\ toMain' \in Seq(Worker!Posts)
          /\ \A k \in Nat : Hands(toMain', k) <=> Hands(mid, k)
          /\ \A k \in Nat, f \in Evals :
               Posted(handle', toMain', k, f) <=> Posted(handle, mid, k, f)
          /\ \A k \in Nat, f \in Evals, o \in Worker!Outcomes :
               Answers(toMain', k, f, o)
                 <=> (Answers(mid, k, f, o) \/ (k = Len(mid) + 1 /\ f = e /\ o = "interrupted"))
      <3>1. mid \in Seq(Worker!Posts)
        BY <1>4
      <3>2. NowAnswered(mid, toMain', e, "interrupted") /\ handle' = handle
        BY <1>1, <1>3, <1>6, <2>2, <3>1, AnswerPosted
      <3> QED
        BY <3>2 DEF NowAnswered
    <2> QED
      BY <1>4, <2>1, <2>5
  <1>8. \A k \in Nat, f \in Evals :
          Posted(handle, toMain, k, f) => k < n + 1 /\ n + 1 < n + 2 /\ n + 1 \in Nat
    BY Places
  <1>9. /\ Open(e) /\ e \in asked /\ lock = NoEval
        /\ \A k \in Nat : ~Asks(toWorker, k, e)
        /\ \A j \in Nat, o \in Worker!Outcomes : ~Answers(toMain, j, e, o)
    BY <1>1, <1>3 DEF WorkerInv, WorkInv, AnswerInv
  <1>10. Worker!TypeOK'
    BY <1>1, <1>7 DEF WorkerInv, Worker!TypeOK
  <1>11. WorkInv'
    BY <1>1, <1>2, <1>3, <1>9 DEF WorkerInv, WorkInv
  <1>12. AnswerInv'
    BY <1>1, <1>2, <1>3, <1>7, <1>9 DEF WorkerInv, AnswerInv
  <1>13. HandleInv'
    BY <1>1, <1>2, <1>3, <1>7, <1>8, <1>9, SMTT(60) DEF WorkerInv, HandleInv
  <1>14. AskedInv' /\ AloneInv'
    BY <1>1, <1>3 DEF WorkerInv, AskedInv, AloneInv
  <1> QED
    BY <1>2, <1>10, <1>11, <1>12, <1>13, <1>14 DEF WorkerInv

\* A script settles: whoever waits for it gets the answer.
LEMMA ScriptSettlesInv ==
  ASSUME Worker!WorkerAssumption, WorkerInv, NEW e \in Evals, Worker!ScriptSettles(e)
  PROVE  WorkerInv'
  <1>1. /\ running = NoEval /\ script' = script \ {e} /\ busy' = NoEval
        /\ UNCHANGED << init, waiting, call, ask, end, handle, toWorker, alive, running, killed,
                        alone, asked, aimed >>
    BY DEF Worker!ScriptSettles, Worker!history
  <1>2. CallInv' /\ (\A f \in Evals : Open(f)' <=> Open(f)) /\ Worker!EvaluationsApart'
    BY <1>1, WorkerCalls
  <1>3. /\ NoEval \notin Evals /\ toMain \in Seq(Worker!Posts) /\ alone \subseteq Evals
        /\ "settled" \in Worker!Outcomes
    BY DEF WorkerInv, Worker!TypeOK, Worker!WorkerAssumption, Worker!Outcomes
  <1>4. CASE lock # e /\ UNCHANGED << lock, toMain >>
    <2>1. Worker!TypeOK'
      BY <1>1, <1>4 DEF WorkerInv, Worker!TypeOK
    <2> QED
      BY <1>1, <1>2, <1>4, <2>1, SameOpen
  <1>5. CASE lock = e /\ lock' = NoEval /\ toMain' = toMain \o Worker!Answer(e, "settled")
    <2> PICK n \in Nat : n = Len(toMain)
      BY <1>3, NullPosted
    <2>1. /\ toMain' \in Seq(Worker!Posts)
          /\ \A k \in Nat : Hands(toMain', k) <=> Hands(toMain, k)
          /\ \A k \in Nat, f \in Evals :
               Posted(handle', toMain', k, f) <=> Posted(handle, toMain, k, f)
          /\ \A k \in Nat, f \in Evals, o \in Worker!Outcomes :
               Answers(toMain', k, f, o)
                 <=> (Answers(toMain, k, f, o) \/ (k = n + 1 /\ f = e /\ o = "settled"))
      <3>1. NowAnswered(toMain, toMain', e, "settled") /\ handle' = handle
        BY <1>1, <1>3, <1>5, AnswerPosted
      <3> QED
        BY <3>1 DEF NowAnswered
    <2>2. \A k \in Nat : Hands(toMain, k) => k < n + 1
      BY Places
    <2>3. /\ Open(e) /\ \A k \in Nat : ~Asks(toWorker, k, e)
          /\ \A j \in Nat, o \in Worker!Outcomes : ~Answers(toMain, j, e, o)
      BY <1>3, <1>5 DEF WorkerInv, WorkInv, AnswerInv
    <2>4. Worker!TypeOK'
      BY <1>1, <1>5, <2>1 DEF WorkerInv, Worker!TypeOK
    <2>5. WorkInv'
      BY <1>1, <1>2, <1>3, <1>5 DEF WorkerInv, WorkInv
    <2>6. AnswerInv'
      BY <1>1, <1>2, <1>3, <1>5, <2>1, <2>3 DEF WorkerInv, AnswerInv
    <2>7. HandleInv'
      BY <1>1, <1>2, <1>3, <1>5, <2>1, <2>2 DEF WorkerInv, HandleInv
    <2>8. AskedInv' /\ AloneInv'
      BY <1>1, <1>3, <1>5 DEF WorkerInv, AskedInv, AloneInv
    <2> QED
      BY <1>2, <2>4, <2>5, <2>6, <2>7, <2>8 DEF WorkerInv
  <1> QED
    BY <1>4, <1>5 DEF Worker!ScriptSettles, Worker!Post

\* A script goes on after an await, or awaits again: nothing else changes.
LEMMA ScriptRunsInv ==
  ASSUME Worker!WorkerAssumption, WorkerInv, NEW e \in Evals,
         Worker!ScriptGoesOn(e) \/ Worker!ScriptAwaits(e)
  PROVE  WorkerInv'
  <1>1. /\ UNCHANGED << init, waiting, call, ask, end, handle, toWorker, toMain >>
        /\ UNCHANGED << alive, running, killed, lock, script, alone, asked, aimed >>
        /\ busy' \in Evals \cup {NoEval}
    BY DEF Worker!ScriptGoesOn, Worker!ScriptAwaits, Worker!history
  <1>2. Worker!TypeOK'
    BY <1>1 DEF WorkerInv, Worker!TypeOK
  <1>3. CallInv'
    BY <1>1 DEF WorkerInv, CallInv
  <1>4. \A f \in Evals : Open(f)' <=> Open(f)
    BY <1>1 DEF Open
  <1> QED
    BY <1>1, <1>2, <1>3, <1>4, SameOpen

\* interrupt() in the worker: the evaluation that holds the lock is abandoned.
LEMMA TakeInterruptInv ==
  ASSUME Worker!WorkerAssumption, WorkerInv, NEW i \in Interrupts, Worker!TakeInterrupt(i)
  PROVE  WorkerInv'
  <1>1. /\ alive /\ running = NoEval /\ toWorker' \in Seq(Worker!Requests)
        /\ 1 \in 1 .. Len(toWorker) /\ toWorker[1] = Worker!Interrupt(i)
        /\ \A k \in Nat, f \in Evals :
             Asks(toWorker', k, f) => k # 0 /\ k + 1 \in Nat /\ Asks(toWorker, k + 1, f)
        /\ \A k \in Nat :
             Stops(toWorker', k) => k # 0 /\ k + 1 \in Nat /\ Stops(toWorker, k + 1)
    BY TakeIs DEF Worker!TakeInterrupt
  <1>2. UNCHANGED << init, waiting, call, ask, end, handle, alive, running, killed, script, busy,
                     alone, asked, aimed >>
    BY DEF Worker!TakeInterrupt, Worker!history
  <1>3. 1 \in Nat /\ Stops(toWorker, 1)
    BY <1>1 DEF Stops
  <1>4. CallInv' /\ (\A f \in Evals : Open(f)' <=> Open(f)) /\ Worker!EvaluationsApart'
    BY <1>2, WorkerCalls
  <1>5. /\ NoEval \notin Evals /\ lock \in Evals \cup {NoEval} /\ toMain \in Seq(Worker!Posts)
        /\ alone \subseteq Evals /\ "interrupted" \in Worker!Outcomes
    BY DEF WorkerInv, Worker!TypeOK, Worker!WorkerAssumption, Worker!Outcomes
  <1>6. \A k, l \in Nat, f \in Evals :
          Asks(toWorker', k, f) /\ Asks(toWorker', l, f) => l = k
    <2> SUFFICES ASSUME NEW k \in Nat, NEW l \in Nat, NEW f \in Evals,
                        Asks(toWorker', k, f), Asks(toWorker', l, f)
                 PROVE  l = k
      OBVIOUS
    <2>1. k + 1 \in Nat /\ l + 1 \in Nat /\ Asks(toWorker, k + 1, f) /\ Asks(toWorker, l + 1, f)
      BY <1>1
    <2>2. l + 1 = k + 1
      BY <2>1 DEF WorkerInv, WorkInv
    <2> QED
      BY <2>2
  <1>7. ASSUME lock' = lock \/ lock' = NoEval PROVE WorkInv' /\ AskedInv' /\ AloneInv'
    <2>1. WorkInv'
      BY <1>1, <1>2, <1>4, <1>5, <1>6, <1>7 DEF WorkerInv, WorkInv
    <2>2. AskedInv'
      BY <1>1, <1>2, <1>5, <1>7 DEF WorkerInv, AskedInv
    <2>3. AloneInv'
      BY <1>1, <1>2, <1>5, <1>7 DEF WorkerInv, AloneInv
    <2> QED
      BY <2>1, <2>2, <2>3
  <1> PICK n \in Nat : n = Len(toMain)
    BY <1>5, NullPosted, ReplyPosted
  <1>8. CASE lock = NoEval /\ toMain' = toMain \o Worker!Reply(i, "false") /\ UNCHANGED lock
    <2>1. /\ toMain' \in Seq(Worker!Posts)
          /\ \A k \in Nat : Hands(toMain', k) <=> Hands(toMain, k)
          /\ \A k \in Nat, f \in Evals :
               Posted(handle', toMain', k, f) <=> Posted(handle, toMain, k, f)
          /\ \A k \in Nat, f \in Evals, o \in Worker!Outcomes :
               Answers(toMain', k, f, o) <=> Answers(toMain, k, f, o)
      BY <1>2, <1>5, <1>8, ReplyPosted
    <2>2. Worker!TypeOK'
      BY <1>1, <1>2, <1>8, <2>1 DEF WorkerInv, Worker!TypeOK
    <2>3. AnswerInv'
      BY <1>1, <1>2, <1>4, <1>8, <2>1 DEF WorkerInv, AnswerInv
    <2>4. HandleInv'
      BY <1>1, <1>2, <1>4, <1>8, <2>1 DEF WorkerInv, HandleInv
    <2> QED
      BY <1>4, <1>7, <1>8, <2>2, <2>3, <2>4 DEF WorkerInv
  <1>9. CASE /\ lock # NoEval /\ lock' = NoEval
             /\ toMain' = toMain \o (Worker!Reply(i, "true") \o Worker!Answer(lock, "interrupted"))
    <2> PICK e \in Evals : e = lock
      BY <1>5, <1>9
    <2> PICK mid : mid = toMain \o Worker!Reply(i, "true")
      OBVIOUS
    <2>1. /\ mid \in Seq(Worker!Posts)
          /\ \A k \in Nat : Hands(mid, k) <=> Hands(toMain, k)
          /\ \A k \in Nat, f \in Evals : Posted(handle, mid, k, f) <=> Posted(handle, toMain, k, f)
          /\ \A k \in Nat, f \in Evals, o \in Worker!Outcomes :
               Answers(mid, k, f, o) <=> Answers(toMain, k, f, o)
      BY <1>5, ReplyPosted
    <2>2. Len(mid) = n + 1
      <3>1. mid = toMain \o << << "reply", i, "true" >> >>
        BY DEF Worker!Reply
      <3>2. << "reply", i, "true" >> \in Worker!Posts
        BY DEF Worker!Posts
      <3> QED
        BY <1>5, <3>1, <3>2, PostOneIs
    <2>3. /\ Worker!Reply(i, "true") \in Seq(Worker!Posts)
          /\ Worker!Answer(e, "interrupted") \in Seq(Worker!Posts)
      <3>1. << "reply", i, "true" >> \in Worker!Posts
        BY DEF Worker!Posts
      <3>2. << "answer", e, "interrupted" >> \in Worker!Posts
        BY <1>5 DEF Worker!Posts
      <3> QED
        BY <3>1, <3>2 DEF Worker!Reply, Worker!Answer
    <2>4. toMain \o (Worker!Reply(i, "true") \o Worker!Answer(e, "interrupted"))
            = (toMain \o Worker!Reply(i, "true")) \o Worker!Answer(e, "interrupted")
      <3>1. PICK a, b : a = Worker!Reply(i, "true") /\ b = Worker!Answer(e, "interrupted")
        OBVIOUS
      <3>2. toMain \in Seq(Worker!Posts) /\ a \in Seq(Worker!Posts) /\ b \in Seq(Worker!Posts)
        BY <1>5, <2>3, <3>1
      <3>3. toMain \o (a \o b) = (toMain \o a) \o b
        BY ONLY <3>2, ConcatAssociative, SMTT(60)
      <3> QED
        BY <3>1, <3>3
    <2>5. toMain' = mid \o Worker!Answer(e, "interrupted")
      BY <1>9, <2>4
    <2>6. /\ toMain' \in Seq(Worker!Posts)
          /\ \A k \in Nat : Hands(toMain', k) <=> Hands(toMain, k)
          /\ \A k \in Nat, f \in Evals :
               Posted(handle', toMain', k, f) <=> Posted(handle, toMain, k, f)
          /\ \A k \in Nat, f \in Evals, o \in Worker!Outcomes :
               Answers(toMain', k, f, o)
                 <=> (Answers(toMain, k, f, o) \/ (k = n + 2 /\ f = e /\ o = "interrupted"))
      <3>1. Len(mid) + 1 = n + 2
        BY <2>2
      <3>2. "interrupted" \in Worker!Outcomes
        BY DEF Worker!Outcomes
      <3>5. /\ toMain' \in Seq(Worker!Posts)
            /\ \A k \in Nat : Hands(toMain', k) <=> Hands(mid, k)
            /\ \A k \in Nat, f \in Evals :
                 Posted(handle', toMain', k, f) <=> Posted(handle, mid, k, f)
            /\ \A k \in Nat, f \in Evals, o \in Worker!Outcomes :
                 Answers(toMain', k, f, o)
                   <=> (Answers(mid, k, f, o) \/ (k = Len(mid) + 1 /\ f = e /\ o = "interrupted"))
        <4>1. NowAnswered(mid, toMain', e, "interrupted") /\ handle' = handle
          BY <1>2, <1>5, <2>1, <2>5, <3>2, AnswerPosted
        <4> QED
          BY <4>1 DEF NowAnswered
      <3> QED
        BY <2>1, <3>1, <3>5
    <2>7. \A k \in Nat : Hands(toMain, k) => k < n + 2
      BY Places
    <2>8. /\ Open(e) /\ e \in asked
          /\ \A k \in Nat : ~Asks(toWorker, k, e)
          /\ \A j \in Nat, o \in Worker!Outcomes : ~Answers(toMain, j, e, o)
      BY <1>1, <1>3, <1>5, <1>9 DEF WorkerInv, WorkInv, AnswerInv, AskedInv
    <2>9. \A k \in Nat : ~Asks(toWorker', k, e)
      BY <1>1, <2>8
    <2>10. Worker!TypeOK'
      BY <1>1, <1>2, <1>9, <2>6 DEF WorkerInv, Worker!TypeOK
    <2>11. AnswerInv'
      BY <1>1, <1>2, <1>4, <1>5, <1>9, <2>6, <2>8, <2>9, SMTT(60) DEF WorkerInv, AnswerInv
    <2>12. HandleInv'
      <3> SUFFICES ASSUME NEW k \in Nat, NEW f \in Evals, Posted(handle', toMain', k, f)
                   PROVE  /\ Open(f)'
                          /\ \A l \in Nat : ~Asks(toWorker', l, f)
                          /\ lock' # f
                          /\ \A j \in Nat, o \in Worker!Outcomes :
                               Answers(toMain', j, f, o)
                                 => \E l \in Nat : k < l /\ l < j /\ Hands(toMain', l)
        BY DEF HandleInv
      <3>1. Posted(handle, toMain, k, f)
        BY <2>6
      <3>2. /\ Open(f) /\ \A l \in Nat : ~Asks(toWorker, l, f)
            /\ lock = f => \E l \in Nat : k < l /\ Hands(toMain, l)
            /\ \A j \in Nat, o \in Worker!Outcomes :
                 Answers(toMain, j, f, o) => \E l \in Nat : k < l /\ l < j /\ Hands(toMain, l)
        BY <3>1 DEF WorkerInv, HandleInv
      <3>3. ASSUME NEW j \in Nat, NEW o \in Worker!Outcomes, Answers(toMain', j, f, o)
            PROVE  \E l \in Nat : k < l /\ l < j /\ Hands(toMain', l)
        BY <2>6, <2>7, <3>2, <3>3
      <3>4. lock' # f
        BY <1>5, <1>9
      <3> QED
        BY <1>1, <1>4, <3>2, <3>3, <3>4
    <2> QED
      BY <1>4, <1>7, <1>9, <2>10, <2>11, <2>12 DEF WorkerInv
  <1> QED
    BY <1>8, <1>9 DEF Worker!TakeInterrupt, Worker!Post

\* Every step of either thread preserves the inductive invariant.
LEMMA WorkerNext ==
  ASSUME Worker!WorkerAssumption, WorkerInv, [Worker!Next]_Worker!vars
  PROVE  WorkerInv'
  <1>1. CASE UNCHANGED Worker!vars
    <2>1. /\ UNCHANGED << init, waiting, call, ask, end, handle, toWorker, toMain >>
          /\ UNCHANGED << alive, running, killed, lock, script, busy, alone, asked, aimed >>
      BY <1>1 DEF Worker!vars, Worker!worker, Worker!history
    <2>2. Worker!TypeOK'
      BY <2>1 DEF WorkerInv, Worker!TypeOK
    <2>3. CallInv'
      BY <2>1 DEF WorkerInv, CallInv
    <2>4. \A e \in Evals : Open(e)' <=> Open(e)
      BY <2>1 DEF Open
    <2> QED
      BY <2>1, <2>2, <2>3, <2>4, SameOpen
  <1>2. CASE Worker!Start \/ Worker!Settle
    BY <1>2, StartInv
  <1>3. CASE Worker!Continue
    BY <1>3, SendEvaluateInv, SendInterruptInv, SendTerminateInv DEF Worker!Continue
  <1>4. CASE Worker!Receive
    BY <1>4, ReceiveInv
  <1>5. CASE Worker!Work
    BY <1>5, TakeEvaluateInv, SyncKilledInv, TakeInterruptInv DEF Worker!Work
  <1>6. CASE Worker!Scripts
    BY <1>6, SyncReturnsInv, ScriptRunsInv, ScriptSettlesInv DEF Worker!Scripts
  <1>7. CASE Worker!User
    BY <1>7, UserInv
  <1> QED
    BY <1>1, <1>2, <1>3, <1>4, <1>5, <1>6, <1>7 DEF Worker!Next

\* WorkerInv holds in every reachable state of the two threads.
LEMMA WorkerInvCorrect == ASSUME Worker!WorkerAssumption PROVE Worker!Spec => []WorkerInv
  <1>1. Worker!Init => WorkerInv
    BY WorkerInit
  <1>2. WorkerInv /\ [Worker!Next]_Worker!vars => WorkerInv'
    BY WorkerNext
  <1> QED
    BY <1>1, <1>2, PTL DEF Worker!Spec

\* The types of the two threads' state and of the messages under way, whatever
\* evaluations and interrupts a session has.
THEOREM WorkerTypeCorrect == ASSUME Worker!WorkerAssumption PROVE Worker!Spec => []Worker!TypeOK
  <1>1. WorkerInv => Worker!TypeOK
    BY DEF WorkerInv
  <1> QED
    BY <1>1, WorkerInvCorrect, PTL

\* The evaluations of a worker do not get in each other's way: one that was
\* sent alone is never refused, the handle the main thread knows belongs to an
\* evaluation that is not answered, and only an evaluation that was pending
\* when an interrupt was sent is answered as interrupted.
THEOREM EvaluationsApartCorrect ==
  ASSUME Worker!WorkerAssumption PROVE Worker!Spec => []EvaluationsApart
  <1>1. WorkerInv => EvaluationsApart
    BY DEF WorkerInv, EvaluationsApart
  <1> QED
    BY <1>1, WorkerInvCorrect, PTL

=============================================================================
