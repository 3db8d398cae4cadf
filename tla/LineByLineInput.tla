--------------------------- MODULE LineByLineInput ---------------------------
(***************************************************************************)
(* LineByLineInput stands between the terminal and the REPL.  It forwards  *)
(* one line at a time, so that what was typed or pasted ahead is not read  *)
(* by the REPL while it evaluates a line, and lets Ctrl+C and Ctrl+D pass. *)
(* The reader is the Node.js REPL, which reads what it gets within push(), *)
(* a character at a time: it starts an evaluation, or asks for the next    *)
(* line at once.                                                           *)
(*                                                                         *)
(* A data event runs to its end before anything else happens; busy says    *)
(* how far it is.                                                          *)
(***************************************************************************)
EXTENDS Naturals, Sequences, SequencesExt, Selection

CONSTANTS
  Chunks,   \* what a data event may carry
  MaxChars  \* bound on the characters of a session

Text   == "x"       \* a regular character
CR     == "r"
LF     == "n"
CtrlC  == "C"
CtrlD  == "D"
End    == "end"     \* null, the end of the input
Chars  == { Text, CR, LF, CtrlC, CtrlD, End }
Control  == { CtrlC, CtrlD }
Newlines == { << CR >>, << LF >>, << CR, LF >> }

ASSUME ChunksAssumption ==
  MaxChars \in Nat /\ Chunks \subseteq Seq(Chars) \ { << >> }

VARIABLES
  queue,      \* _charQueue, a sequence of sequences of characters
  forwarding, \* _forwarding
  blocking,   \* _blockOnNewLineEnabled
  paused,     \* _originalInput.isPaused()
  busy,       \* where the data event in progress is
  chunk,      \* what it, or the REPL within push(), still has to look at
  reader,     \* the REPL
  running,    \* the evaluations it waits for: more than one after an overrun
  sawReturn,  \* readline: a CR was the last thing, less than crlfDelay ago
  received,   \* history: all characters of the original input but control
  forwarded,  \* history: all characters pushed but control
  aborted,    \* history: .editor was left with Ctrl+C
  spilled,    \* history: an evaluation began within a chunk passed through
  swallowed,  \* history: readline ignored an LF of its own in the queue
  held,       \* the last flush found the original input paused
  overrun     \* history: a line was read while another was evaluated

vars == << queue, forwarding, blocking, paused, busy, chunk, reader, running,
           sawReturn, received, forwarded, aborted, spilled, swallowed, held,
           overrun >>
gate    == << forwarding, blocking >>
repl    == << reader, running, sawReturn >>
history == << aborted, spilled, swallowed, overrun >>

BusyStates   == { "idle", "taking", "passing", "passed", "flushing", "pushed" }
ReaderStates == { "prompt", "editor", "closed" }

\* The characters of a chunk but control.
Plain(chars) == Among(chars, Chars \ Control)

Init ==
  /\ queue = << >> /\ forwarding = TRUE /\ blocking = TRUE /\ paused = FALSE
  /\ busy = "idle" /\ chunk = << >>
  /\ reader = "prompt" /\ running = 0 /\ sawReturn = FALSE
  /\ received = << >> /\ forwarded = << >>
  /\ aborted = FALSE /\ spilled = FALSE /\ swallowed = FALSE /\ overrun = FALSE
  /\ held = FALSE

-----------------------------------------------------------------------------
(* What the REPL does with a character it gets, within push().             *)

\* readline takes an LF shortly after a CR for the second half of a CR LF.
Ignored(c) == c = LF /\ sawReturn

EndsInput(c) == reader = "prompt" /\ c \in { CR, LF } /\ ~Ignored(c)

\* A line starts an evaluation, which enables blocking; or it is a command,
\* and the REPL asks for the next line at once; or it is .editor.
Line ==
  \/ /\ running' = running + 1 /\ blocking' = TRUE
     /\ UNCHANGED << reader, forwarding >>
  \/ forwarding' = TRUE /\ UNCHANGED << reader, running, blocking >>
  \/ /\ reader' = "editor" /\ blocking' = FALSE
     /\ UNCHANGED << running, forwarding >>

\* At the prompt, Ctrl+C shows the prompt again (a REPL that evaluates gets a
\* signal in its place), Ctrl+D may close the REPL.
AtPrompt(c) ==
  /\ reader = "prompt" /\ c \in Control
  /\ IF c = CtrlC /\ running = 0
     THEN forwarding' = TRUE /\ UNCHANGED << reader, running, blocking >>
     ELSE /\ reader' \in { reader } \cup (IF c = CtrlD THEN { "closed" } ELSE {})
          /\ UNCHANGED << running, gate >>

\* In .editor, Ctrl+C goes back to the prompt, but not to blocking, and
\* Ctrl+D evaluates the text, as if return had been pressed.
InEditor(c) ==
  /\ reader = "editor" /\ c \in Control /\ reader' = "prompt"
  /\ IF c = CtrlC THEN forwarding' = TRUE /\ UNCHANGED << running, blocking >>
                  ELSE /\ running' = running + 1 /\ blocking' = TRUE
                       /\ UNCHANGED forwarding

\* Text is edited, and nobody reads after the end.
NoLine(c) ==
  /\ c # End => reader = "closed" \/ (c \notin Control /\ ~EndsInput(c))
  /\ reader' = IF c = End THEN "closed" ELSE reader
  /\ UNCHANGED << running, gate >>

Read(c) ==
  /\ (EndsInput(c) /\ Line) \/ AtPrompt(c) \/ InEditor(c) \/ NoLine(c)
  /\ sawReturn' = IF c \in Control THEN sawReturn \/ (reader = "editor" /\ c = CtrlD)
                                  ELSE c = CR
  /\ aborted' = (aborted \/ (reader = "editor" /\ c = CtrlC))
  /\ spilled' = (spilled \/ (busy = "passed" /\ running' > running /\ Len(chunk) > 1))
  /\ swallowed' = (swallowed \/ (/\ reader = "prompt" /\ Ignored(c)
                                 /\ blocking /\ ~forwarding /\ running = 0))
  /\ overrun' = (overrun \/ (EndsInput(c) /\ running > 0))

-----------------------------------------------------------------------------
(* The original input.                                                     *)

\* _onData()
Data(c) ==
  /\ busy = "idle" /\ ~paused /\ Len(received) + Len(c) <= MaxChars
  /\ ~ \E i \in 1 .. Len(received) : received[i] = End
  /\ chunk' = c /\ received' = received \o Plain(c)
  /\ busy' = IF blocking THEN "taking" ELSE "passing"
  /\ UNCHANGED << queue, gate, paused, repl, forwarded, history, held >>

\* Whether a character extends the last entry of the queue: LF a CR, a
\* regular character others.
Grouped(c) ==
  /\ queue # << >>
  /\ \/ c = LF /\ Last(Last(queue)) = CR
     \/ c = Text /\ Last(Last(queue)) = Text

\* One round of the loop in _forwardAndBlockOnNewline().  A control
\* character is pushed at once.
Take ==
  /\ busy = "taking" /\ chunk # << >>
  /\ LET c == Head(chunk) IN
       /\ queue' = IF c \in Control THEN queue
                   ELSE IF Grouped(c)
                   THEN [queue EXCEPT ![Len(queue)] = Append(@, c)]
                   ELSE Append(queue, << c >>)
       /\ IF c \in Control THEN Read(c) ELSE UNCHANGED << gate, repl, history >>
  /\ chunk' = Tail(chunk)
  /\ UNCHANGED << paused, busy, received, forwarded, held >>

\* _forwardWithoutBlocking()
Pass ==
  /\ busy = "passing"
  /\ forwarded' = forwarded \o Plain(chunk) /\ busy' = "passed"
  /\ UNCHANGED << queue, gate, paused, chunk, repl, received, history, held >>

-----------------------------------------------------------------------------
(* Forwarding.                                                             *)

\* The data event has been queued: _flush().
StartFlush ==
  /\ busy = "taking" /\ chunk = << >>
  /\ busy' = "flushing"
  /\ UNCHANGED << queue, gate, paused, chunk, repl, received, forwarded, history,
                  held >>

ShouldForward == ~blocking \/ forwarding

\* Faulty EndsLine: only LF ends a line.
EndsLineUnix(entry) == Last(entry) = LF

\* _isLineEnding()
EndsLine(entry) == entry \in Newlines

\* One round of the loop in _flush(), up to the push.
Flush ==
  /\ busy = "flushing" /\ queue # << >> /\ ShouldForward /\ ~paused
  /\ forwarding' = (forwarding /\ ~EndsLine(Head(queue)))
  /\ forwarded' = forwarded \o Head(queue)
  /\ chunk' = Head(queue) /\ queue' = Tail(queue)
  /\ busy' = "pushed"
  /\ UNCHANGED << blocking, paused, repl, received, history, held >>

FlushEnds ==
  /\ busy = "flushing" /\ (queue = << >> \/ ~ShouldForward \/ paused)
  /\ busy' = "idle"
  /\ held' = (queue # << >> /\ ShouldForward)
  /\ UNCHANGED << queue, gate, paused, chunk, repl, received, forwarded, history >>

\* The REPL reads the next character of what _flush() pushed, or of a chunk
\* that was passed through, of which it gets the rest whatever it does.
React ==
  /\ busy \in { "pushed", "passed" } /\ chunk # << >>
  /\ Read(Head(chunk))
  /\ chunk' = Tail(chunk)
  /\ busy' = IF Len(chunk) > 1 THEN busy
             ELSE IF busy = "pushed" THEN "flushing" ELSE "idle"
  /\ UNCHANGED << queue, paused, received, forwarded, held >>

-----------------------------------------------------------------------------
(* The reader, between two data events.                                    *)

\* Faulty EvalEnds: the gate is opened, but what is queued has to wait for
\* the next data event.
EvalEndsUnflushed ==
  /\ busy = "idle" /\ running > 0
  /\ running' = running - 1 /\ forwarding' = TRUE
  /\ UNCHANGED << queue, blocking, paused, busy, chunk, reader, sawReturn,
                  received, forwarded, history, held >>

\* An evaluation ends, displayPrompt() calls nextLine().
EvalEnds ==
  /\ busy = "idle" /\ running > 0
  /\ running' = running - 1 /\ forwarding' = TRUE /\ busy' = "flushing"
  /\ UNCHANGED << queue, blocking, paused, chunk, reader, sawReturn, received,
                  forwarded, history, held >>

\* The code of an evaluation, which Ctrl+C may have ended for the REPL, asks
\* for a password or a confirmation, which stops the original input while it
\* reads from it.
PauseInput ==
  /\ busy = "idle" /\ ~paused /\ reader # "closed"
  /\ running > 0 \/ \E i \in 1 .. Len(forwarded) : forwarded[i] \in { CR, LF }
  /\ paused' = TRUE
  /\ UNCHANGED << queue, gate, busy, chunk, repl, received, forwarded, history,
                  held >>

\* It got its answer.  Nothing is flushed.
ResumeInput ==
  /\ busy = "idle" /\ paused /\ paused' = FALSE
  /\ UNCHANGED << queue, gate, busy, chunk, repl, received, forwarded, history,
                  held >>

\* readline forgets the CR after crlfDelay.
DelayPasses ==
  /\ busy = "idle" /\ sawReturn /\ sawReturn' = FALSE
  /\ UNCHANGED << queue, gate, paused, busy, chunk, reader, running, received,
                  forwarded, history, held >>

\* Nobody has anything left to do.
Quiet == busy = "idle" /\ running = 0 /\ UNCHANGED vars

Next ==
  \/ \E c \in Chunks : Data(c)
  \/ Take \/ Pass \/ StartFlush \/ Flush \/ FlushEnds \/ React
  \/ EvalEnds \/ PauseInput \/ ResumeInput \/ DelayPasses \/ Quiet

(***************************************************************************)
(* Fairness: a data event runs to its end.  Nothing is assumed of what the *)
(* terminal sends, and nothing of evaluations, which may go on for ever or *)
(* never answer a password prompt.                                         *)
(***************************************************************************)
Fairness ==
  /\ WF_vars(Take) /\ WF_vars(Pass) /\ WF_vars(StartFlush)
  /\ WF_vars(Flush) /\ WF_vars(FlushEnds) /\ WF_vars(React)

Spec == Init /\ [][Next]_vars /\ Fairness

-----------------------------------------------------------------------------

\* What a reader gets at once: text, or one end of a line, or the end of the
\* input.
Entries == { e \in Seq(Chars) : e \in Newlines \cup { << End >> } \/ ToSet(e) = { Text } }

\* The types of the variables.
TypeOK ==
  /\ queue \in Seq(Entries)
  /\ forwarding \in BOOLEAN /\ blocking \in BOOLEAN /\ paused \in BOOLEAN
  /\ busy \in BusyStates /\ chunk \in Seq(Chars)
  /\ reader \in ReaderStates /\ running \in Nat /\ sawReturn \in BOOLEAN
  /\ received \in Seq(Chars) /\ forwarded \in Seq(Chars)
  /\ aborted \in BOOLEAN /\ spilled \in BOOLEAN /\ swallowed \in BOOLEAN
  /\ held \in BOOLEAN /\ overrun \in BOOLEAN

\* A line that was typed or pasted ahead never reaches the REPL while it
\* evaluates another one, but in two cases: .editor has been left with Ctrl+C,
\* which leaves pass-through mode on, or the line is in the rest of the very
\* chunk whose Ctrl+D ended .editor (line-by-line-input.ts:145-151).
NoOverrun == overrun => aborted \/ spilled

\* The reader sees the characters in order and a line at a time.
Gate == INSTANCE LineGate WITH
  sent  <- received,
  got   <- forwarded,
  asked <- IF ~blocking THEN "everything" ELSE
           IF forwarding THEN "line" ELSE "nothing"

GateSpec == Gate!Spec

\* What the class comment says: after a newline nothing more is emitted until
\* nextLine(), which the REPL calls when it has evaluated the line.
BlocksOnNewLine == ~overrun

\* What was typed ahead does not lie in the queue while the REPL waits for
\* input: it is forwarded, until the REPL evaluates something.  But for two
\* cases: readline ignored an LF, and does not ask for more; or the flush found
\* the original input paused by a password prompt, and nothing flushes when it
\* is resumed (line-by-line-input.ts:170-191).
ForwardedUnlessSwallowed ==
  queue # << >> ~>
    queue = << >> \/ running > 0 \/ reader = "closed" \/ swallowed \/ held

\* What the test "groups \r\n together" expects: CR LF ends one line, however
\* it arrives, and what follows it is forwarded.
AllForwarded ==
  queue # << >> ~> queue = << >> \/ running > 0 \/ reader = "closed" \/ held

=============================================================================
