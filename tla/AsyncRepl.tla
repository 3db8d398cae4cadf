----------------------------- MODULE AsyncRepl -----------------------------
(***************************************************************************)
(* What every call of repl.eval() does to the REPL and the process:        *)
(* _eval() of async-repl.ts takes the listeners of three events away,      *)
(* installs its own, switches raw mode and the prompt off, and puts        *)
(* everything back when its promise is settled.                            *)
(*                                                                         *)
(* repl.eval() is re-entered: load(), a prompt function and the completer  *)
(* evaluate code while another evaluation is pending, and code abandoned   *)
(* by Ctrl+C goes on and may call load() during a later evaluation.  What  *)
(* an evaluation saves is therefore what another one installed, and they   *)
(* need not end in the reverse order of their starts.                      *)
(***************************************************************************)
EXTENDS Naturals, Sequences, FiniteSets, SequencesExt, Selection

CONSTANT MaxEvals   \* bound on the calls of repl.eval() of a session

\* Assumed by the modules that use this one.
MaxEvalsAssumption == MaxEvals \in Nat

Evals  == 1 .. MaxEvals
Own    == 0               \* the listener the REPL itself has for an event
NoEval == 0
Events == { "repl", "process", "exit" }  \* repl SIGINT, process SIGINT, exit
Shown  == "prompt"
Hidden == ""              \* the prompt is '' during evaluations

VARIABLES
  state,      \* the promise of each _eval()
  code,       \* the user code of each evaluation
  top,        \* the evaluation the REPL itself waits for
  live,       \* the listeners of each event
  saved,      \* what each pending evaluation has taken away
  fired,      \* once() listeners that have run
  handlers,   \* calls of onAsyncSigint(): <<evaluation, is it the first>>
  raw,        \* the terminal is in raw mode
  rawBefore,  \* previouslyInRawMode
  prompt, promptBefore,  \* origPrompt
  deferred,   \* exitEventPending
  ticks,      \* 'exit' events to be emitted by process.nextTick
  asked,      \* history: the input has ended
  gone,       \* how the session ended
  nested      \* history: evaluations have ended in reverse order of starts

vars == << state, code, top, live, saved, fired, handlers, raw, rawBefore,
           prompt, promptBefore, deferred, ticks, asked, gone, nested >>
lists    == << live, saved >>
terminal == << raw, rawBefore, prompt, promptBefore >>
ending   == << deferred, ticks, asked, gone >>

AtStart == [ev \in Events |-> IF ev = "process" THEN << >> ELSE << Own >>]
Nothing == [ev \in Events |-> << >>]

Pending == { e \in Evals : state[e] = "pending" }
Present == gone = "no"

\* Whose a listener may be.
Listeners == Evals \cup {Own}

\* interrupted.isSet(): the first onAsyncSigint() is at work.
Interrupting == \E h \in handlers : h[2]

TypeOK ==
  /\ state \in [Evals -> { "new", "pending", "ended" }]
  /\ code \in [Evals -> { "none", "running", "done" }]
  /\ top \in Evals \cup {NoEval}
  /\ live \in [Events -> Seq(Listeners)]
  /\ saved \in [Evals -> [Events -> Seq(Listeners)]]
  /\ fired \subseteq Events \X Evals
  /\ handlers \subseteq Evals \X BOOLEAN
  /\ raw \in BOOLEAN /\ rawBefore \in [Evals -> BOOLEAN]
  /\ prompt \in { Shown, Hidden } /\ promptBefore \in [Evals -> { Shown, Hidden }]
  /\ deferred \in [Evals -> BOOLEAN] /\ ticks \in Nat
  /\ asked \in BOOLEAN /\ gone \in { "no", "exited", "killed" }
  /\ nested \in BOOLEAN

Init ==
  /\ state = [e \in Evals |-> "new"] /\ code = [e \in Evals |-> "none"]
  /\ top = NoEval
  /\ live = AtStart /\ saved = [e \in Evals |-> Nothing]
  /\ fired = {} /\ handlers = {}
  /\ raw = TRUE /\ rawBefore = [e \in Evals |-> FALSE]
  /\ prompt = Shown /\ promptBefore = [e \in Evals |-> Hidden]
  /\ deferred = [e \in Evals |-> FALSE] /\ ticks = 0
  /\ asked = FALSE /\ gone = "no" /\ nested = TRUE

-----------------------------------------------------------------------------
(* The beginning and the end of _eval().                                   *)

\* Faulty Takes: the listeners are saved after the own one was installed.
TakesLate(e) == [ev \in Events |-> Append(live[ev], e)]

\* The listeners an evaluation takes away when it starts.
Takes(e) == live

\* Up to the first await: the terminal leaves raw mode, the prompt is
\* hidden, all listeners are taken away and those of e installed.
Begin(e) ==
  /\ Present /\ state[e] = "new" /\ \A d \in Evals : d < e => state[d] # "new"
  /\ state' = [state EXCEPT ![e] = "pending"]
  /\ code' = [code EXCEPT ![e] = "running"]
  /\ rawBefore' = [rawBefore EXCEPT ![e] = raw] /\ raw' = FALSE
  /\ promptBefore' = [promptBefore EXCEPT ![e] = prompt] /\ prompt' = Hidden
  /\ saved' = [saved EXCEPT ![e] = Takes(e)]
  /\ live' = [ev \in Events |-> << e >>]
  /\ UNCHANGED << fired, handlers, ending, nested >>

\* The REPL evaluates a line, or its completer an expression.
EvalLine(e) == /\ top = NoEval /\ ~asked /\ Begin(e) /\ top' = e

\* User code, abandoned or not, calls load().
EvalNested(e) ==
  /\ \E p \in Evals : code[p] = "running"
  /\ Begin(e) /\ UNCHANGED top

\* removeListener() and restore(): the own listener goes, the saved ones
\* are added to whatever is there.
Restored(e) ==
  [ev \in Events |-> Among(live[ev], Listeners \ {e}) \o saved[e][ev]]

\* Faulty Finally: 'exit' is restored, and not emitted again.
FinallyQuietly(e, shown) ==
  /\ state' = [state EXCEPT ![e] = "ended"]
  /\ top' = IF top = e THEN NoEval ELSE top
  /\ raw' = rawBefore[e]
  /\ live' = Restored(e) /\ saved' = [saved EXCEPT ![e] = Nothing]
  /\ prompt' = IF shown = Hidden THEN promptBefore[e] ELSE shown
  /\ UNCHANGED ticks
  /\ nested' = (nested /\ \A d \in Pending : d <= e)
  /\ UNCHANGED << rawBefore, promptBefore >>

\* Faulty Finally: the saved listeners are those of the terminal only.
FinallyTerminal(e, shown) ==
  /\ state' = [state EXCEPT ![e] = "ended"]
  /\ top' = IF top = e THEN NoEval ELSE top
  /\ raw' = rawBefore[e]
  /\ live' = [Restored(e) EXCEPT !["process"] =
                Among(live["process"], Listeners \ {e})]
  /\ saved' = [saved EXCEPT ![e] = Nothing]
  /\ prompt' = IF shown = Hidden THEN promptBefore[e] ELSE shown
  /\ ticks' = ticks + (IF deferred[e] THEN 1 ELSE 0)
  /\ nested' = (nested /\ \A d \in Pending : d <= e)
  /\ UNCHANGED << rawBefore, promptBefore >>

\* The finally block, and the answer to whoever called repl.eval().
Finally(e, shown) ==
  /\ state' = [state EXCEPT ![e] = "ended"]
  /\ top' = IF top = e THEN NoEval ELSE top
  /\ raw' = rawBefore[e]
  /\ live' = Restored(e) /\ saved' = [saved EXCEPT ![e] = Nothing]
  /\ prompt' = IF shown = Hidden THEN promptBefore[e] ELSE shown
  /\ ticks' = ticks + (IF deferred[e] THEN 1 ELSE 0)
  /\ nested' = (nested /\ \A d \in Pending : d <= e)
  /\ UNCHANGED << rawBefore, promptBefore >>

\* The user's code returns or throws.  MongoshNodeRepl.eval() sets the prompt
\* unless an interrupt made the code throw or it evaluated for the completer;
\* an evaluation that was abandoned has nobody to answer to.
CodeEnds(e) ==
  /\ Present /\ code[e] = "running"
  /\ code' = [code EXCEPT ![e] = "done"]
  /\ \E shown \in { prompt, Shown } :
       IF state[e] = "pending"
       THEN Finally(e, shown)
       ELSE /\ prompt' = shown
            /\ UNCHANGED << state, top, lists, raw, rawBefore, promptBefore,
                            ticks, nested >>
  /\ UNCHANGED << fired, handlers, deferred, asked, gone >>

-----------------------------------------------------------------------------
(* Ctrl+C.                                                                 *)

\* The once() wrappers in a list that have not run yet, in order.
Armed(ev) == Among(live[ev], { t \in Evals : << ev, t >> \notin fired })

\* emit(): every listener that is live runs, and once() removes it.
Emit(ev) ==
  /\ fired' = fired \cup { << ev, t >> : t \in ToSet(Armed(ev)) }
  /\ live' = [live EXCEPT ![ev] = Among(@, {Own})]

\* In raw mode Ctrl+C is a key, which the REPL turns into its 'SIGINT' event;
\* else it is a signal.
CtrlCEvent == IF raw THEN "repl" ELSE "process"

\* The first listener that runs sets the flag, the others find it set.  A
\* signal nobody listens to ends the process.
CtrlC ==
  LET ev == CtrlCEvent IN
  /\ Present
  /\ IF live[ev] = << >>
     THEN /\ gone' = "killed"
          /\ UNCHANGED << live, fired, handlers >>
     ELSE /\ Emit(ev)
          /\ handlers' = handlers \cup
               { << Armed(ev)[i], i = 1 /\ ~Interrupting >> :
                   i \in 1 .. Len(Armed(ev)) }
          /\ UNCHANGED gone
  /\ UNCHANGED << state, code, top, saved, terminal, deferred, ticks, asked,
                  nested >>

\* Faulty HandlerEnds: a handler that found another one at work does not
\* reject the promise of its evaluation.
HandlerEndsOnce(e, first) ==
  LET shown == IF first THEN Shown ELSE prompt IN
  /\ Present /\ << e, first >> \in handlers
  /\ handlers' = handlers \ { << e, first >> }
  /\ IF first /\ state[e] = "pending"
     THEN Finally(e, shown)
     ELSE /\ prompt' = shown
          /\ UNCHANGED << state, top, lists, raw, rawBefore, promptBefore,
                          ticks, nested >>
  /\ UNCHANGED << code, fired, deferred, asked, gone >>

\* onAsyncSigint() is done, at once if another one is at work: the promise of
\* the evaluation is rejected if it is still pending.
HandlerEnds(e, first) ==
  LET shown == IF first THEN Shown ELSE prompt IN
  /\ Present /\ << e, first >> \in handlers
  /\ handlers' = handlers \ { << e, first >> }
  /\ IF state[e] = "pending"
     THEN Finally(e, shown)
     ELSE /\ prompt' = shown
          /\ UNCHANGED << state, top, lists, raw, rawBefore, promptBefore,
                          ticks, nested >>
  /\ UNCHANGED << code, fired, deferred, asked, gone >>

-----------------------------------------------------------------------------
(* The 'exit' event.                                                       *)

\* The REPL's own listener leaves the shell; that of an evaluation takes note.
EmitExit ==
  /\ Emit("exit")
  /\ deferred' = [e \in Evals |-> deferred[e] \/ e \in ToSet(Armed("exit"))]
  /\ gone' = IF Own \in ToSet(live["exit"]) THEN "exited" ELSE gone
  /\ UNCHANGED << state, code, top, saved, handlers, terminal, nested >>

EndOfInput == Present /\ ~asked /\ asked' = TRUE /\ EmitExit /\ UNCHANGED ticks

\* process.nextTick(() => repl.emit('exit'))
EmitDeferred ==
  Present /\ ticks > 0 /\ ticks' = ticks - 1 /\ EmitExit /\ UNCHANGED asked

-----------------------------------------------------------------------------
Left == ~Present /\ UNCHANGED vars

Next ==
  \/ \E e \in Evals : \/ EvalLine(e) \/ EvalNested(e) \/ CodeEnds(e)
                      \/ \E first \in BOOLEAN : HandlerEnds(e, first)
  \/ CtrlC \/ EndOfInput \/ EmitDeferred \/ Left

Fairness ==
  /\ \A e \in Evals, first \in BOOLEAN : WF_vars(HandlerEnds(e, first))
  /\ WF_vars(EmitDeferred)

Spec == Init /\ [][Next]_vars /\ Fairness

-----------------------------------------------------------------------------
(* Properties.                                                             *)

\* Where a listener is: among the live ones or with a pending evaluation.
Copies(ev, t) ==
  Cardinality({ i \in DOMAIN live[ev] : live[ev][i] = t }) +
  Cardinality(UNION { { << e, i >> : i \in { j \in DOMAIN saved[e][ev] : saved[e][ev][j] = t } } :
                        e \in Pending })

\* However evaluations nest, overlap and are abandoned, the REPL's own
\* listeners and the ones a pending evaluation still needs are neither lost
\* nor doubled: each is live or saved by exactly one pending evaluation.
ListenersConserved ==
  /\ \A ev \in { "repl", "exit" } : Copies(ev, Own) = 1
  /\ \A e \in Pending, ev \in Events :
       << ev, e >> \notin fired => Copies(ev, e) = 1

\* When evaluations have always ended before the ones they were started in
\* (load() that is awaited and not interrupted), they leave nothing behind:
\* at the prompt listeners, raw mode and prompt are as at the start.
NestedRestored ==
  nested /\ Pending = {} /\ Present
    => live = AtStart /\ raw /\ prompt = Shown

\* While the REPL waits for an evaluation and no interrupt is at work, Ctrl+C
\* reaches the listener of some pending evaluation: it neither gets lost nor
\* ends the process, whatever other evaluations took and put back meanwhile.
CtrlCHeard ==
  top # NoEval /\ handlers = {} /\ Present
    => \E t \in ToSet(Armed(CtrlCEvent)) : t \in Pending

\* Taking and putting back listeners (async-repl.ts:52-65): none is ever lost or
\* doubled, evaluations that are properly nested restore everything, and Ctrl+C
\* is always heard.
ListenersSafe == ListenersConserved /\ NestedRestored /\ CtrlCHeard

\* An evaluation whose listener has run ends, be it the current one, a nested
\* one or one that found another interrupt at work.
InterruptedEnds ==
  \A e \in Evals : e \in Pending /\ ({ "repl", "process" } \X {e}) \cap fired # {}
                    ~> e \notin Pending \/ ~Present

\* The end of the input is not forgotten: an 'exit' that evaluations deferred
\* reaches the REPL's own listener once all of them have ended.
ExitReached == <>[](Pending = {}) => (asked ~> ~Present)

\* Neither an interrupted evaluation nor a deferred exit is left pending
\* (async-repl.ts:173-215).
EvaluationsSettle == InterruptedEnds /\ ExitReached

\* "Restore raw mode" (async-repl.ts): at the prompt the terminal is in raw
\* mode again.
RawModeBack == Pending = {} /\ Present => raw
=============================================================================
