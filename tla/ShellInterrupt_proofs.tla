------------------------ MODULE ShellInterrupt_proofs ------------------------
(***************************************************************************)
(* Proofs that the safety invariants of ShellInterrupt hold for every      *)
(* number of evaluations and every set of connections.                     *)
(***************************************************************************)
EXTENDS ShellInterrupt, TLAPS

\* The stages of a handler in which the Mongos may be without a client.
Severed(e) == handler[e] \in { "suspending", "waiting", "resuming" }

\* A listener is only armed for the evaluation the REPL waits for, and an
\* evaluation that is new or still armed has not been interrupted.
ListenerInv ==
  /\ armed # NoEval => armed = repl /\ code[armed] # "new"
  /\ \A e \in Evals : armed = e \/ code[e] = "new" => handler[e] = "none"

\* From the end of set() to reset() no API call is pending.
QuietInv ==
  \A e \in Evals : Severed(e) =>
    \A d \in Evals : code[d] \notin { "calling", "opening" }

\* How far each Mongo is follows the stage of the one handler in progress.
StageInv ==
  \A m \in Mongos :
    /\ (\A e \in Evals : ~Severed(e)) => link[m] = "none"
    /\ \A e \in Evals :
         /\ handler[e] = "suspending" =>
              link[m] \in { "none", "closing", "suspended", "unsuspendable" }
         /\ handler[e] = "waiting" =>
              link[m] \in { "none", "suspended", "unsuspendable" }
         /\ handler[e] = "resuming" =>
              link[m] \in { "none", "connecting", "resumed", "lost" }

\* A Mongo an interrupt has suspended is still tracked: close() throws while
\* the flag is set.  A tracked Mongo without an open client is either in the
\* middle of an interrupt or the user has been warned.
ClientInv ==
  \A m \in Mongos :
    /\ link[m] # "none" => m \in tracked
    /\ m \in tracked => client[m] \in { "open", "closed" }
    /\ m \in tracked /\ client[m] = "closed" =>
         \/ warned
         \/ link[m] \in { "suspended", "unsuspendable", "connecting", "lost" }

IInv == /\ TypeOK /\ OneInterrupt /\ OpenIsTracked
        /\ ListenerInv /\ QuietInv /\ StageInv /\ ClientInv


-----------------------------------------------------------------------------

\* NoEval, which says that no listener is armed, is not an evaluation.
LEMMA NoEvalIsNone == NoEval \notin Evals
  BY ConstantsAssumption DEF NoEval, Evals

\* The inductive invariant holds initially.
LEMMA InitIInv == Init => IInv
  <1> SUFFICES ASSUME Init PROVE IInv
    OBVIOUS
  <1>1. TypeOK
    BY ConstantsAssumption DEF Init, TypeOK, CodeStates, Answers,
       HandlerStates, LinkStates, ExitStates
  <1>2. OneInterrupt /\ OpenIsTracked
    BY <1>1 DEF Init, OneInterrupt, OpenIsTracked, Interrupting
  <1>3. ListenerInv /\ QuietInv /\ StageInv
    BY DEF Init, ListenerInv, QuietInv, StageInv
  <1>4. ClientInv
    BY DEF Init, ClientInv
  <1> QED
    BY <1>1, <1>2, <1>3, <1>4 DEF IInv

\* StartEval preserves the inductive invariant.
LEMMA StartEvalIInv ==
  ASSUME IInv, NEW e \in Evals, StartEval(e)
  PROVE  IInv'
  <1> USE DEF IInv, StartEval, evalVars, replVars, mongoVars, suspension, leaving
  <1>1. TypeOK'
    BY DEF TypeOK, CodeStates
  <1>2. OneInterrupt' /\ OpenIsTracked'
    BY DEF OneInterrupt, OpenIsTracked, Interrupting
  <1>3. ListenerInv'
    BY DEF TypeOK, ListenerInv
  <1>4. QuietInv' /\ StageInv'
    BY DEF QuietInv, StageInv, Severed
  <1>5. ClientInv'
    BY DEF ClientInv
  <1> QED
    BY <1>1, <1>2, <1>3, <1>4, <1>5

\* CallApi preserves the inductive invariant.
LEMMA CallApiIInv ==
  ASSUME IInv, NEW e \in Evals, NEW m \in Mongos, CallApi(e, m)
  PROVE  IInv'
  <1> USE DEF IInv, CallApi, evalVars, replVars, mongoVars, suspension, leaving
  <1>1. TypeOK'
    BY DEF TypeOK, CodeStates
  <1>2. OneInterrupt' /\ OpenIsTracked'
    BY DEF OneInterrupt, OpenIsTracked, Interrupting
  <1>3. ListenerInv'
    BY DEF TypeOK, ListenerInv
  <1>4. QuietInv' /\ StageInv'
    BY DEF TypeOK, QuietInv, StageInv, Severed, OneInterrupt, Interrupting
  <1>5. ClientInv'
    BY DEF ClientInv
  <1> QED
    BY <1>1, <1>2, <1>3, <1>4, <1>5

\* ApiReturns preserves the inductive invariant.
LEMMA ApiReturnsIInv ==
  ASSUME IInv, NEW e \in Evals, ApiReturns(e)
  PROVE  IInv'
  <1> USE DEF IInv, ApiReturns, evalVars, replVars, mongoVars, suspension, leaving
  <1>1. TypeOK'
    BY DEF TypeOK, CodeStates
  <1>2. OneInterrupt' /\ OpenIsTracked'
    BY DEF OneInterrupt, OpenIsTracked, Interrupting
  <1>3. ListenerInv'
    BY DEF ListenerInv
  <1>4. QuietInv' /\ StageInv'
    BY DEF TypeOK, QuietInv, StageInv, Severed
  <1>5. ClientInv'
    BY DEF ClientInv, StageInv, Severed, OneInterrupt, Interrupting
  <1> QED
    BY <1>1, <1>2, <1>3, <1>4, <1>5

\* RejectApi preserves the inductive invariant.
LEMMA RejectApiIInv ==
  ASSUME IInv, NEW e \in Evals, RejectApi(e)
  PROVE  IInv'
  <1> USE DEF IInv, RejectApi, evalVars, replVars, mongoVars, suspension, leaving
  <1>1. TypeOK'
    BY DEF TypeOK, CodeStates
  <1>2. OneInterrupt' /\ OpenIsTracked'
    BY DEF OneInterrupt, OpenIsTracked, Interrupting
  <1>3. ListenerInv'
    BY DEF ListenerInv
  <1>4. QuietInv' /\ StageInv'
    BY DEF QuietInv, StageInv, Severed
  <1>5. ClientInv'
    BY DEF ClientInv
  <1> QED
    BY <1>1, <1>2, <1>3, <1>4, <1>5

\* OpenMongo preserves the inductive invariant.
LEMMA OpenMongoIInv ==
  ASSUME IInv, NEW e \in Evals, NEW m \in Mongos, OpenMongo(e, m)
  PROVE  IInv'
  <1> USE DEF IInv, OpenMongo, evalVars, replVars, mongoVars, suspension, leaving
  <1>1. TypeOK'
    BY DEF TypeOK, CodeStates
  <1>2. OneInterrupt' /\ OpenIsTracked'
    BY DEF TypeOK, OneInterrupt, OpenIsTracked, Interrupting
  <1>3. ListenerInv'
    BY DEF TypeOK, ListenerInv
  <1>4. QuietInv' /\ StageInv'
    BY DEF TypeOK, QuietInv, StageInv, Severed, OneInterrupt, Interrupting
  <1>5. ClientInv'
    BY DEF TypeOK, ClientInv
  <1> QED
    BY <1>1, <1>2, <1>3, <1>4, <1>5

\* MongoOpened preserves the inductive invariant.
LEMMA MongoOpenedIInv ==
  ASSUME IInv, NEW m \in Mongos, MongoOpened(m)
  PROVE  IInv'
  <1> USE DEF IInv, MongoOpened, evalVars, replVars, mongoVars, suspension, leaving
  <1>1. TypeOK'
    BY DEF TypeOK, CodeStates
  <1>2. OneInterrupt' /\ OpenIsTracked'
    BY DEF OneInterrupt, OpenIsTracked, Interrupting
  <1>3. ListenerInv'
    BY DEF TypeOK, ListenerInv
  <1>4. QuietInv' /\ StageInv'
    BY DEF QuietInv, StageInv, Severed
  <1>5. ClientInv'
    BY DEF TypeOK, ClientInv
  <1> QED
    BY <1>1, <1>2, <1>3, <1>4, <1>5

\* MongoFailed preserves the inductive invariant.
LEMMA MongoFailedIInv ==
  ASSUME IInv, NEW m \in Mongos, MongoFailed(m)
  PROVE  IInv'
  <1> USE DEF IInv, MongoFailed, evalVars, replVars, mongoVars, suspension, leaving
  <1>1. TypeOK'
    BY DEF TypeOK, CodeStates
  <1>2. OneInterrupt' /\ OpenIsTracked'
    BY DEF OneInterrupt, OpenIsTracked, Interrupting
  <1>3. ListenerInv'
    BY DEF TypeOK, ListenerInv
  <1>4. QuietInv' /\ StageInv'
    BY DEF QuietInv, StageInv, Severed
  <1>5. ClientInv'
    BY DEF ClientInv
  <1> QED
    BY <1>1, <1>2, <1>3, <1>4, <1>5

\* CloseMongo preserves the inductive invariant.
LEMMA CloseMongoIInv ==
  ASSUME IInv, NEW e \in Evals, NEW m \in Mongos, CloseMongo(e, m)
  PROVE  IInv'
  <1> USE DEF IInv, CloseMongo, evalVars, replVars, mongoVars, suspension, leaving
  <1>1. TypeOK'
    BY DEF TypeOK, CodeStates
  <1>2. OneInterrupt' /\ OpenIsTracked'
    BY DEF TypeOK, OneInterrupt, OpenIsTracked, Interrupting
  <1>3. ListenerInv'
    BY DEF TypeOK, ListenerInv
  <1>4. QuietInv' /\ StageInv'
    BY DEF TypeOK, QuietInv, StageInv, Severed
  <1>5. ClientInv'
    BY DEF TypeOK, ClientInv, StageInv, Severed, OneInterrupt, Interrupting
  <1> QED
    BY <1>1, <1>2, <1>3, <1>4, <1>5

\* UserStep preserves the inductive invariant.
LEMMA UserStepIInv ==
  ASSUME IInv, NEW e \in Evals, UserStep(e)
  PROVE  IInv'
  <1> USE DEF IInv, UserStep, evalVars, replVars, mongoVars, suspension, leaving
  <1>1. TypeOK'
    BY DEF TypeOK, CodeStates
  <1>2. OneInterrupt' /\ OpenIsTracked'
    BY DEF OneInterrupt, OpenIsTracked, Interrupting
  <1>3. ListenerInv'
    BY DEF TypeOK, ListenerInv
  <1>4. QuietInv' /\ StageInv'
    BY DEF TypeOK, QuietInv, StageInv, Severed
  <1>5. ClientInv'
    BY DEF ClientInv
  <1> QED
    BY <1>1, <1>2, <1>3, <1>4, <1>5

\* Catch preserves the inductive invariant.
LEMMA CatchIInv ==
  ASSUME IInv, NEW e \in Evals, Catch(e)
  PROVE  IInv'
  <1> USE DEF IInv, Catch, Reply, evalVars, replVars, mongoVars, suspension, leaving
  <1>1. TypeOK'
    BY DEF TypeOK, CodeStates, Answers
  <1>2. OneInterrupt' /\ OpenIsTracked'
    BY DEF OneInterrupt, OpenIsTracked, Interrupting
  <1>3. ListenerInv'
    BY NoEvalIsNone DEF ListenerInv
  <1>4. QuietInv' /\ StageInv'
    BY DEF QuietInv, StageInv, Severed
  <1>5. ClientInv'
    BY DEF TypeOK, ClientInv
  <1> QED
    BY <1>1, <1>2, <1>3, <1>4, <1>5

\* Answer preserves the inductive invariant.
LEMMA AnswerIInv ==
  ASSUME IInv, NEW e \in Evals, Answer(e)
  PROVE  IInv'
  <1> USE DEF IInv, Answer, Reply, evalVars, replVars, mongoVars, suspension, leaving
  <1>1. TypeOK'
    BY DEF TypeOK, Answers
  <1>2. OneInterrupt' /\ OpenIsTracked'
    BY DEF OneInterrupt, OpenIsTracked, Interrupting
  <1>3. ListenerInv'
    BY NoEvalIsNone DEF ListenerInv
  <1>4. QuietInv' /\ StageInv'
    BY DEF QuietInv, StageInv, Severed
  <1>5. ClientInv'
    BY DEF ClientInv
  <1> QED
    BY <1>1, <1>2, <1>3, <1>4, <1>5

\* Sigint preserves the inductive invariant.
LEMMA SigintIInv ==
  ASSUME IInv, NEW e \in Evals, Sigint(e)
  PROVE  IInv'
  <1> USE DEF IInv, Sigint, Reply, evalVars, replVars, mongoVars, suspension, leaving
  <1>1. TypeOK'
    BY DEF TypeOK, Answers, HandlerStates
  <1>2. OneInterrupt' /\ OpenIsTracked'
    BY DEF TypeOK, OneInterrupt, OpenIsTracked, Interrupting, ListenerInv
  <1>3. ListenerInv'
    BY NoEvalIsNone DEF TypeOK, ListenerInv
  <1>4. QuietInv' /\ StageInv'
    BY DEF TypeOK, ListenerInv, QuietInv, StageInv, Severed
  <1>5. ClientInv'
    BY DEF ClientInv
  <1> QED
    BY <1>1, <1>2, <1>3, <1>4, <1>5

\* SigintUnhandled preserves the inductive invariant.
LEMMA SigintUnhandledIInv ==
  ASSUME IInv, SigintUnhandled
  PROVE  IInv'
  <1> USE DEF IInv, SigintUnhandled, evalVars, replVars, mongoVars, suspension, leaving
  <1>1. TypeOK'
    BY DEF TypeOK, ExitStates
  <1>2. OneInterrupt' /\ OpenIsTracked'
    BY DEF OneInterrupt, OpenIsTracked, Interrupting
  <1>3. ListenerInv'
    BY DEF ListenerInv
  <1>4. QuietInv' /\ StageInv'
    BY DEF QuietInv, StageInv, Severed
  <1>5. ClientInv'
    BY DEF ClientInv
  <1> QED
    BY <1>1, <1>2, <1>3, <1>4, <1>5

\* Suspend preserves the inductive invariant.
LEMMA SuspendIInv ==
  ASSUME IInv, NEW e \in Evals, Suspend(e)
  PROVE  IInv'
  <1> USE DEF IInv, Suspend, evalVars, replVars, mongoVars, suspension, leaving
  <1>1. TypeOK'
    BY DEF TypeOK, HandlerStates, LinkStates
  <1>2. OneInterrupt' /\ OpenIsTracked'
    BY DEF OneInterrupt, OpenIsTracked, Interrupting
  <1>3. ListenerInv'
    BY DEF ListenerInv
  <1>4. QuietInv' /\ StageInv'
    BY DEF TypeOK, QuietInv, StageInv, Severed, OneInterrupt, Interrupting
  <1>5. ClientInv'
    BY DEF ClientInv, StageInv, Severed, OneInterrupt, Interrupting
  <1> QED
    BY <1>1, <1>2, <1>3, <1>4, <1>5

\* Suspended preserves the inductive invariant.
LEMMA SuspendedIInv ==
  ASSUME IInv, NEW m \in Mongos, Suspended(m)
  PROVE  IInv'
  <1> USE DEF IInv, Suspended, evalVars, replVars, mongoVars, suspension, leaving
  <1>1. TypeOK'
    BY DEF TypeOK, CodeStates, Answers, HandlerStates, LinkStates
  <1>2. OneInterrupt' /\ OpenIsTracked'
    BY DEF TypeOK, OneInterrupt, OpenIsTracked, Interrupting, StageInv,
       ClientInv, ListenerInv
  <1>3. ListenerInv'
    BY DEF ListenerInv
  <1>4. QuietInv' /\ StageInv'
    BY DEF QuietInv, StageInv, Severed, Interrupting
  <1>5. ClientInv'
    BY DEF TypeOK, ClientInv
  <1> QED
    BY <1>1, <1>2, <1>3, <1>4, <1>5

\* AllSuspended preserves the inductive invariant.
LEMMA AllSuspendedIInv ==
  ASSUME IInv, NEW e \in Evals, AllSuspended(e)
  PROVE  IInv'
  <1> USE DEF IInv, AllSuspended, evalVars, replVars, mongoVars, suspension, leaving
  <1>1. TypeOK'
    BY DEF TypeOK, CodeStates, Answers, HandlerStates, LinkStates, ExitStates
  <1>2. OneInterrupt' /\ OpenIsTracked'
    BY DEF OneInterrupt, OpenIsTracked, Interrupting
  <1>3. ListenerInv'
    BY DEF ListenerInv
  <1>4. QuietInv' /\ StageInv'
    BY DEF QuietInv, StageInv, Severed
  <1>5. ClientInv'
    BY DEF ClientInv
  <1> QED
    BY <1>1, <1>2, <1>3, <1>4, <1>5

\* Resume preserves the inductive invariant.
LEMMA ResumeIInv ==
  ASSUME IInv, NEW e \in Evals, Resume(e)
  PROVE  IInv'
  <1> USE DEF IInv, Resume, evalVars, replVars, mongoVars, suspension, leaving
  <1>1. TypeOK'
    BY DEF TypeOK, HandlerStates, LinkStates
  <1>2. OneInterrupt' /\ OpenIsTracked'
    BY DEF OneInterrupt, OpenIsTracked, Interrupting
  <1>3. ListenerInv'
    BY DEF ListenerInv
  <1>4. QuietInv' /\ StageInv'
    BY DEF TypeOK, QuietInv, StageInv, ClientInv, Severed, OneInterrupt,
       Interrupting
  <1>5. ClientInv'
    BY DEF ClientInv
  <1> QED
    BY <1>1, <1>2, <1>3, <1>4, <1>5

\* Resumed preserves the inductive invariant.
LEMMA ResumedIInv ==
  ASSUME IInv, NEW m \in Mongos, Resumed(m)
  PROVE  IInv'
  <1> USE DEF IInv, Resumed, evalVars, replVars, mongoVars, suspension, leaving
  <1>1. TypeOK'
    BY DEF TypeOK, LinkStates
  <1>2. OneInterrupt' /\ OpenIsTracked'
    BY DEF TypeOK, OneInterrupt, OpenIsTracked, Interrupting, ClientInv
  <1>3. ListenerInv'
    BY DEF ListenerInv
  <1>4. QuietInv' /\ StageInv'
    BY DEF TypeOK, QuietInv, StageInv, Severed
  <1>5. ClientInv'
    BY DEF TypeOK, ClientInv
  <1> QED
    BY <1>1, <1>2, <1>3, <1>4, <1>5

\* Reset preserves the inductive invariant.
LEMMA ResetIInv ==
  ASSUME IInv, NEW e \in Evals, Reset(e)
  PROVE  IInv'
  <1> USE DEF IInv, Reset, evalVars, replVars, mongoVars, suspension, leaving
  <1>1. TypeOK'
    BY DEF TypeOK, HandlerStates, LinkStates
  <1>2. OneInterrupt' /\ OpenIsTracked'
    BY DEF TypeOK, OneInterrupt, OpenIsTracked, Interrupting
  <1>3. ListenerInv'
    BY DEF ListenerInv
  <1>4. QuietInv' /\ StageInv'
    BY DEF QuietInv, StageInv, Severed
  <1>5. ClientInv'
    BY DEF ClientInv, StageInv
  <1> QED
    BY <1>1, <1>2, <1>3, <1>4, <1>5

\* Abandon preserves the inductive invariant.
LEMMA AbandonIInv ==
  ASSUME IInv, NEW e \in Evals, Abandon(e)
  PROVE  IInv'
  <1> USE DEF IInv, Abandon, Reply, evalVars, replVars, mongoVars, suspension, leaving
  <1>1. TypeOK'
    BY DEF TypeOK, Answers, HandlerStates
  <1>2. OneInterrupt' /\ OpenIsTracked'
    BY DEF OneInterrupt, OpenIsTracked, Interrupting
  <1>3. ListenerInv'
    BY DEF ListenerInv
  <1>4. QuietInv' /\ StageInv'
    BY DEF QuietInv, StageInv, Severed
  <1>5. ClientInv'
    BY DEF ClientInv
  <1> QED
    BY <1>1, <1>2, <1>3, <1>4, <1>5

\* EndOfInput preserves the inductive invariant.
LEMMA EndOfInputIInv ==
  ASSUME IInv, EndOfInput
  PROVE  IInv'
  <1> USE DEF IInv, EndOfInput, BeginClose, evalVars, replVars, mongoVars, suspension, leaving
  <1>1. TypeOK'
    BY DEF TypeOK, ExitStates
  <1>2. OneInterrupt' /\ OpenIsTracked'
    BY DEF OneInterrupt, OpenIsTracked, Interrupting
  <1>3. ListenerInv'
    BY NoEvalIsNone DEF ListenerInv
  <1>4. QuietInv' /\ StageInv'
    BY DEF QuietInv, StageInv, Severed
  <1>5. ClientInv'
    BY DEF ClientInv
  <1> QED
    BY <1>1, <1>2, <1>3, <1>4, <1>5

\* DeferredExit preserves the inductive invariant.
LEMMA DeferredExitIInv ==
  ASSUME IInv, DeferredExit
  PROVE  IInv'
  <1> USE DEF IInv, DeferredExit, BeginClose, evalVars, replVars, mongoVars, suspension, leaving
  <1>1. TypeOK'
    BY DEF TypeOK, ExitStates
  <1>2. OneInterrupt' /\ OpenIsTracked'
    BY DEF OneInterrupt, OpenIsTracked, Interrupting
  <1>3. ListenerInv'
    BY NoEvalIsNone DEF ListenerInv
  <1>4. QuietInv' /\ StageInv'
    BY DEF QuietInv, StageInv, Severed
  <1>5. ClientInv'
    BY DEF ClientInv
  <1> QED
    BY <1>1, <1>2, <1>3, <1>4, <1>5

\* CloseNext preserves the inductive invariant.
LEMMA CloseNextIInv ==
  ASSUME IInv, NEW m \in Mongos, CloseNext(m)
  PROVE  IInv'
  <1> USE DEF IInv, CloseNext, evalVars, replVars, mongoVars, suspension, leaving
  <1>1. TypeOK'
    BY DEF TypeOK, ExitStates
  <1>2. OneInterrupt' /\ OpenIsTracked'
    BY DEF TypeOK, OneInterrupt, OpenIsTracked, Interrupting
  <1>3. ListenerInv'
    BY DEF ListenerInv
  <1>4. QuietInv' /\ StageInv'
    BY DEF QuietInv, StageInv, Severed
  <1>5. ClientInv'
    BY DEF TypeOK, ClientInv, StageInv, Severed, OneInterrupt, Interrupting
  <1> QED
    BY <1>1, <1>2, <1>3, <1>4, <1>5

\* Exit preserves the inductive invariant.
LEMMA ExitIInv ==
  ASSUME IInv, Exit
  PROVE  IInv'
  <1> USE DEF IInv, Exit, evalVars, replVars, mongoVars, suspension, leaving
  <1>1. TypeOK'
    BY DEF TypeOK, ExitStates
  <1>2. OneInterrupt' /\ OpenIsTracked'
    BY DEF OneInterrupt, OpenIsTracked, Interrupting
  <1>3. ListenerInv'
    BY DEF ListenerInv
  <1>4. QuietInv' /\ StageInv'
    BY DEF QuietInv, StageInv, Severed
  <1>5. ClientInv'
    BY DEF ClientInv
  <1> QED
    BY <1>1, <1>2, <1>3, <1>4, <1>5

-----------------------------------------------------------------------------

\* Every step preserves the inductive invariant.
LEMMA NextIInv == IInv /\ [Next]_vars => IInv'
  <1> SUFFICES ASSUME IInv, [Next]_vars PROVE IInv'
    OBVIOUS
  <1>1. CASE UNCHANGED vars
    BY <1>1 DEF vars, IInv, TypeOK, OneInterrupt, OpenIsTracked, ListenerInv,
       QuietInv, StageInv, ClientInv, Interrupting, Severed
  <1>2. ASSUME NEW e \in Evals, UserCode(e) \/ Repl(e) \/ Sigint(e)
        PROVE  IInv'
    BY <1>2, UserStepIInv, CallApiIInv, OpenMongoIInv, CloseMongoIInv,
       StartEvalIInv, CatchIInv, AnswerIInv, SigintIInv DEF UserCode, Repl
  <1>3. ASSUME NEW e \in Evals, Handler(e)
        PROVE  IInv'
    BY <1>3, SuspendIInv, AllSuspendedIInv, ResumeIInv, ResetIInv,
       AbandonIInv DEF Handler, Unwinding
  <1>4. CASE Driver
    BY <1>4, ApiReturnsIInv, RejectApiIInv, MongoOpenedIInv, MongoFailedIInv,
       SuspendedIInv, ResumedIInv DEF Driver
  <1>5. CASE Leave
    BY <1>5, EndOfInputIInv, DeferredExitIInv, ExitIInv, CloseNextIInv DEF
       Leave
  <1>6. CASE SigintUnhandled
    BY <1>6, SigintUnhandledIInv
  <1>7. CASE Stopped
    BY <1>7, <1>1 DEF Stopped
  <1> QED
    BY <1>1, <1>2, <1>3, <1>4, <1>5, <1>6, <1>7 DEF Next

\* The inductive invariant holds throughout.
THEOREM IInvCorrect == Spec => []IInv
  <1> QED
    BY InitIInv, NextIInv, PTL DEF Spec

\* The variables always have their types.
THEOREM TypeCorrect == Spec => []TypeOK
  <1>1. IInv => TypeOK
    BY DEF IInv
  <1> QED
    BY <1>1, IInvCorrect, PTL

\* At most one SIGINT handler suspends and resumes the Mongos, and the flag
\* is set exactly while one does.
THEOREM OneInterruptCorrect == Spec => []OneInterrupt
  <1>1. IInv => OneInterrupt
    BY DEF IInv
  <1> QED
    BY <1>1, IInvCorrect, PTL

\* No connection is suspended while an API call is waiting for it.
THEOREM NoCallOnSuspendedMongoCorrect == Spec => []NoCallOnSuspendedMongo
  <1>1. IInv => NoCallOnSuspendedMongo
    <2> SUFFICES ASSUME IInv, NEW e \in Evals, code[e] = "calling",
                        NEW m \in target[e] \cap tracked
                 PROVE  link[m] = "none"
      BY DEF NoCallOnSuspendedMongo
    <2>1. \A d \in Evals : ~Severed(d)
      BY DEF IInv, QuietInv
    <2> QED
      BY <2>1 DEF IInv, StageInv, TypeOK
  <1> QED
    BY <1>1, IInvCorrect, PTL

\* After an interrupt all tracked Mongos are connected or the user is warned.
THEOREM ConnectedUnlessWarnedCorrect == Spec => []ConnectedUnlessWarned
  <1>1. IInv => ConnectedUnlessWarned
    <2> SUFFICES ASSUME IInv, ~flag, ~warned, NEW m \in tracked
                 PROVE  client[m] = "open"
      BY DEF ConnectedUnlessWarned
    <2>1. \A e \in Evals : ~Severed(e)
      BY DEF IInv, OneInterrupt, Interrupting, Severed
    <2>2. m \in Mongos /\ link[m] = "none"
      BY <2>1 DEF IInv, StageInv, TypeOK
    <2> QED
      BY <2>2 DEF IInv, ClientInv
  <1> QED
    BY <1>1, IInvCorrect, PTL

\* An interrupt never reopens a connection that was closed for good.
THEOREM OpenIsTrackedCorrect == Spec => []OpenIsTracked
  <1>1. IInv => OpenIsTracked
    BY DEF IInv
  <1> QED
    BY <1>1, IInvCorrect, PTL

=============================================================================
