---------------------------- MODULE InterruptFlag ----------------------------
(***************************************************************************)
(* InterruptFlag and its users: every asynchronous API method is raced     *)
(* against a watcher (wrapWithApiChecks), and sp.process() samples a       *)
(* temporary stream processor inside withOverrideInterruptBehavior(),      *)
(* whose cleanup has to run before an interrupt severs the connections.    *)
(*                                                                         *)
(* One action is one run of JavaScript between two awaits.  A call has     *)
(* three parts that go on independently: the wrapper the user's code       *)
(* waits for, the method's body, which an interrupt does not stop, and the *)
(* cleanup.                                                                *)
(***************************************************************************)
EXTENDS Naturals, Sequences, SequencesExt, Selection

CONSTANTS
  Calls,          \* API calls of the session
  Processes,      \* the calls of sp.process()
  MaxInterrupts   \* bound on the number of interrupts

\* Assumed by the modules that use this one.
CallsAssumption == Processes \subseteq Calls /\ MaxInterrupts \in Nat

VARIABLES
  flag,       \* interrupted
  listeners,  \* onInterruptListeners, in the order of insertion
  told,       \* the listeners set() has not called yet
  phase,      \* of the interrupt in progress
  wrapper,    \* the promise the user's code got from each call
  body,       \* the body of the method
  cleanup,    \* onInterrupt() of each withOverrideInterruptBehavior()
  hit,        \* history: calls in flight when the last set() began
  inside,     \* history: calls whose fn was running when it began
  interrupts

vars == << flag, listeners, told, phase, wrapper, body, cleanup, hit, inside,
           interrupts >>
history   == << hit, inside, interrupts >>
interrupt == << flag, told, phase >>

\* A watcher of the wrapper, a watcher of the override, its cleanup.
Listener == Calls \X { "call", "watch", "cleanup" }

Wrappers == { "none", "pending", "resolved", "threw", "rejected",  \* the race
              "value", "error", "interrupted" }                    \* the result
Bodies   == { "none", "running", "sampling", "sampled", "broken", "cut",
              "waiting", "barred",   \* for the cleanup, after fn or instead of it
              "ended" }

InFlight(c) == wrapper[c] \in { "pending", "resolved", "threw", "rejected" }

Init ==
  /\ flag = FALSE /\ listeners = << >> /\ told = << >> /\ phase = "none"
  /\ wrapper = [c \in Calls |-> "none"] /\ body = [c \in Calls |-> "none"]
  /\ cleanup = [c \in Processes |-> "none"]
  /\ hit = {} /\ inside = {} /\ interrupts = 0

\* Faulty Without: listeners are not deleted.
WithoutNone(c, kinds) == listeners

\* The listeners once c has deleted its listeners of some kinds.
Without(c, kinds) == Among(listeners, { l \in Listener : l[1] # c \/ l[2] \notin kinds })

-----------------------------------------------------------------------------
(* API calls.                                                              *)

\* The wrapper: first checkpoint, watcher, body.
Call(c) ==
  /\ wrapper[c] = "none"
  /\ IF flag
     THEN /\ wrapper' = [wrapper EXCEPT ![c] = "interrupted"]
          /\ UNCHANGED << listeners, body >>
     ELSE /\ wrapper' = [wrapper EXCEPT ![c] = "pending"]
          /\ body' = [body EXCEPT ![c] = "running"]
          /\ listeners' = Append(listeners, << c, "call" >>)
  /\ UNCHANGED << interrupt, cleanup, history >>

\* The body ends; the wrapper takes note unless an interrupt was first.
End(c, outcome) ==
  /\ body' = [body EXCEPT ![c] = "ended"]
  /\ wrapper' = [wrapper EXCEPT ![c] = IF @ = "pending" THEN outcome ELSE @]

\* The server's answer or error, for a body without an override, or before it.
BodyEnds(c) ==
  /\ body[c] = "running"
  /\ \/ c \notin Processes /\ End(c, "resolved")
     \/ End(c, "threw")
  /\ UNCHANGED << listeners, interrupt, cleanup, history >>

\* Faulty Outcome: no checkpoint after the call.
OutcomeUnchecked(won) ==
  CASE won = "rejected" -> "interrupted" [] won = "threw" -> "error"
    [] won = "resolved" -> "value"

\* What the race gave and the second checkpoint make the caller see.
Outcome(won) ==
  CASE won = "threw"                -> "error"
    [] won = "resolved" /\ ~flag    -> "value"
    [] OTHER                        -> "interrupted"

\* The wrapper goes on after its race and destroys the watcher.
Return(c) ==
  /\ wrapper[c] \in { "resolved", "threw", "rejected" }
  /\ listeners' = Without(c, { "call" })
  /\ wrapper' = [wrapper EXCEPT ![c] = Outcome(@)]
  /\ UNCHANGED << interrupt, body, cleanup, history >>

-----------------------------------------------------------------------------
(* withOverrideInterruptBehavior(), called in the body of sp.process().    *)

\* The methods that call withOverrideInterruptBehavior().
UsesOverride(c) == c \in Processes

\* While an interrupt is in progress the watcher is a rejected promise and
\* the checkpoint throws: fn is not called, but the catch block waits for
\* the cleanup, whose listener the interrupt in progress does not know.
Override(c) ==
  /\ body[c] = "running" /\ UsesOverride(c)
  /\ IF flag
     THEN /\ listeners' = Append(listeners, << c, "cleanup" >>)
          /\ body' = [body EXCEPT ![c] = "barred"]
     ELSE /\ listeners' = listeners \o << << c, "watch" >>, << c, "cleanup" >> >>
          /\ body' = [body EXCEPT ![c] = "sampling"]
  /\ UNCHANGED << interrupt, wrapper, cleanup, history >>

\* fn, the loop of getMore commands, returns or throws.
SampleEnds(c) ==
  /\ body[c] = "sampling"
  /\ \E next \in { "sampled", "broken" } : body' = [body EXCEPT ![c] = next]
  /\ UNCHANGED << interrupt, listeners, wrapper, cleanup, history >>

\* The catch block: during an interrupt, wait for the cleanup.
CatchOverride(c) ==
  /\ body[c] \in { "broken", "cut" } /\ flag
  /\ body' = [body EXCEPT ![c] = "waiting"]
  /\ UNCHANGED << interrupt, listeners, wrapper, cleanup, history >>

\* The finally block; process() drops the processor itself after a sample
\* that ended (the drop is ignored here) and passes an error on.
FinallyOverride(c) ==
  /\ \/ body[c] = "sampled" /\ End(c, "resolved")
     \/ body[c] \in { "broken", "cut" } /\ ~flag /\ End(c, "threw")
     \/ body[c] \in { "waiting", "barred" } /\ cleanup[c] = "done" /\ End(c, "threw")
  /\ listeners' = Without(c, { "watch", "cleanup" })
  /\ UNCHANGED << interrupt, cleanup, history >>

-----------------------------------------------------------------------------
(* The interrupt.                                                          *)

\* Faulty Snapshot: only the overrides are told.
SnapshotOfCleanups == SelectSeq(listeners, LAMBDA l : l[2] = "cleanup")

\* The copy of the listeners that set() goes through.
Snapshot == listeners

\* set(): raise the flag and take the snapshot.
Set ==
  /\ phase = "none" /\ interrupts < MaxInterrupts
  /\ flag' = TRUE /\ phase' = "telling" /\ told' = Snapshot
  /\ interrupts' = interrupts + 1
  /\ hit' = { c \in Calls : InFlight(c) }
  /\ inside' = { c \in Calls : body[c] \in { "sampling", "sampled", "broken" } }
  /\ UNCHANGED << listeners, wrapper, body, cleanup >>

\* Faulty AfterTelling: a cleanup is started but not awaited.
AfterTellingNow(kind) == "telling"

\* set() awaits each listener; only a cleanup takes time.
AfterTelling(kind) == IF kind = "cleanup" THEN "cleaning" ELSE "telling"

\* The next listener is called.  Rejecting a promise that has settled has no
\* effect; a cleanup is awaited.
Tell ==
  /\ phase = "telling" /\ told # << >>
  /\ LET c == Head(told)[1] kind == Head(told)[2] IN
       /\ wrapper' = [wrapper EXCEPT ![c] =
            IF kind = "call" /\ @ = "pending" THEN "rejected" ELSE @]
       /\ body' = [body EXCEPT ![c] =
            IF kind = "watch" /\ @ = "sampling" THEN "cut" ELSE @]
       /\ cleanup' = IF kind = "cleanup"
                     THEN [cleanup EXCEPT ![c] = "running"] ELSE cleanup
       /\ phase' = AfterTelling(kind)
  /\ told' = Tail(told)
  /\ UNCHANGED << flag, listeners, history >>

\* onInterrupt() is done; whether it failed does not matter to set().
CleanupDone(c) ==
  /\ c \in Processes /\ cleanup[c] = "running"
  /\ cleanup' = [cleanup EXCEPT ![c] = "done"]
  /\ phase' = IF phase = "cleaning" THEN "telling" ELSE phase
  /\ UNCHANGED << flag, told, listeners, wrapper, body, history >>

\* All listeners told: onInterruptExecution() closes the MongoClients.
Sever ==
  /\ phase = "telling" /\ told = << >>
  /\ phase' = "severed"
  /\ UNCHANGED << flag, told, listeners, wrapper, body, cleanup, history >>

\* No continuation of a settled promise is left to run.
Drained ==
  \A c \in Calls : /\ wrapper[c] \notin { "resolved", "threw", "rejected" }
                   /\ body[c] \notin { "sampled", "broken", "cut" }

\* onResumeExecution(), after at least one turn of the event loop.
Reset ==
  /\ phase = "severed" /\ Drained
  /\ phase' = "none" /\ flag' = FALSE
  /\ UNCHANGED << told, listeners, wrapper, body, cleanup, history >>

\* Everything that can happen has happened.
Idle ==
  /\ phase = "none" /\ interrupts = MaxInterrupts
  /\ \A c \in Calls : /\ wrapper[c] # "none"
                      /\ body[c] \in { "none", "ended", "waiting", "barred" }
  /\ UNCHANGED vars

Next ==
  \/ \E c \in Calls :
       \/ Call(c) \/ BodyEnds(c) \/ Return(c) \/ Override(c) \/ SampleEnds(c)
       \/ CatchOverride(c) \/ FinallyOverride(c) \/ CleanupDone(c)
  \/ Set \/ Tell \/ Sever \/ Reset \/ Idle

(***************************************************************************)
(* Fairness: continuations run.  The server need not answer anything, not  *)
(* even the command that drops a processor: it is sent without a time      *)
(* limit, so that set() may wait for a cleanup for ever.                   *)
(***************************************************************************)
Fairness ==
  /\ \A c \in Calls : WF_vars(Return(c))
  /\ \A c \in Processes : WF_vars(CatchOverride(c) \/ FinallyOverride(c))
  /\ WF_vars(Tell \/ Sever \/ Reset)

Spec == Init /\ [][Next]_vars /\ Fairness

-----------------------------------------------------------------------------

\* The types of the variables.
TypeOK ==
  /\ flag \in BOOLEAN /\ listeners \in Seq(Listener) /\ told \in Seq(Listener)
  /\ phase \in { "none", "telling", "cleaning", "severed" }
  /\ wrapper \in [Calls -> Wrappers] /\ body \in [Calls -> Bodies]
  /\ cleanup \in [Processes -> { "none", "running", "done" }]
  /\ hit \subseteq Calls /\ inside \subseteq Processes
  /\ interrupts \in 0 .. MaxInterrupts

\* A call in flight when Ctrl+C is pressed never gives its caller a value,
\* even if the server's answer arrives while other listeners are being told.
InterruptedCallFails == \A c \in hit : wrapper[c] # "value"

\* Before the connections are severed, the cleanup of every override that
\* was running has been completed, and the callers' promises are rejected.
CleanBeforeSevered ==
  phase = "severed" =>
    /\ \A c \in inside : cleanup[c] = "done"
    /\ \A c \in hit : wrapper[c] # "pending"

\* No listener outlives what it belongs to, so that an interrupt reaches the
\* operations in flight only.
NoStaleListener ==
  \A i \in 1 .. Len(listeners) :
    LET c == listeners[i][1] kind == listeners[i][2] IN
      IF kind = "call" THEN InFlight(c) ELSE body[c] # "ended"

\* Interrupts find the operations in flight, all of them and no other, give
\* their callers no value and leave none of their work undone
\* (interruptor.ts:97-160).
InterruptsClean == InterruptedCallFails /\ CleanBeforeSevered /\ NoStaleListener

\* set() waits for the cleanup of an earlier listener before it tells the call.
WaitsBehind(c) == phase = "cleaning" /\ << c, "call" >> \in ToSet(told)

\* Every call that an interrupt hits is settled without help of the server,
\* but for one that set() has yet to tell while it waits for a cleanup, which
\* may never end: it awaits the listeners one after another.  A call that is
\* still in flight when the cleanup ends is again one that must be settled
\* (interruptor.ts:97-106).
HitCallsSettle ==
  \A c \in Calls : c \in hit /\ InFlight(c) ~> ~InFlight(c) \/ WaitsBehind(c)

\* What the comment of withOverrideInterruptBehavior() says: the cleanup is
\* run for an interrupt inside fn.
CleanupInside ==
  \A c \in Processes : cleanup[c] = "running" => body[c] # "barred"

=============================================================================
