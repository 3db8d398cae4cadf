--------------------------- MODULE CursorIteration ---------------------------
(***************************************************************************)
(* Cursors in the shell: what displaying one and typing `it` take from it, *)
(* and which cursor `it` continues.                                        *)
(*                                                                         *)
(* The documents of cursor c are 1 .. Docs[c], in the order the server     *)
(* sends them, in batches of the driver; the shell takes them one by one   *)
(* and displays them in batches of its own.  A step of iterate() is an     *)
(* await: it can fail, and it can be interrupted.                          *)
(***************************************************************************)
EXTENDS Integers, FiniteSets

CONSTANTS
  Cursors,
  Docs,      \* the number of documents of each
  BatchSize, \* displayBatchSize
  NetBatch   \* documents in one reply of the server

NoCursor == "no cursor"

ASSUME CursorAssumption ==
  /\ Docs \in [Cursors -> Nat]
  /\ BatchSize \in Nat \ {0} /\ NetBatch \in Nat \ {0}
  /\ NoCursor \notin Cursors

VARIABLES
  made,    \* the cursors the user has in variables
  driver,  \* of each: documents received, documents taken, whether the
           \* server's cursor is gone
  result,  \* _currentIterationResult of each, if there is one: documents
           \* lo+1 .. hi, cursorHasMore
  currentCursor,
  op,      \* the _it() under way, and how many documents it may still take
  display, \* history: the documents of each that were displayed
  direct,  \* history: the documents of each that next() gave, or close() dropped
  again,   \* history: those that an `it` displayed although they had been
  cut,     \* history: those an `it` had read when it failed or was interrupted
  early,   \* history: the cursors that ended before their documents did: closed
           \* by the user, or by the driver when the server did not answer
  last     \* history: the cursor the last line displayed, if it did

vars == << made, driver, result, currentCursor, op, display, direct, again, cut,
           early, last >>
documents == << display, direct, again, cut >>

NoResult == [kept |-> FALSE, lo |-> 0, hi |-> 0, more |-> TRUE]
NoOp == [cursor |-> NoCursor, left |-> 0]

TypeOK ==
  /\ made \subseteq Cursors
  /\ driver \in [Cursors -> [sent : Nat, taken : Nat, gone : BOOLEAN]]
  /\ result \in [Cursors -> [kept : BOOLEAN, lo : Nat, hi : Nat, more : BOOLEAN]]
  /\ currentCursor \in Cursors \cup {NoCursor}
  /\ op \in [cursor : Cursors \cup {NoCursor}, left : 0 .. BatchSize]
  /\ \A h \in {display, direct, again, cut} : h \in [Cursors -> SUBSET Nat]
  /\ early \subseteq Cursors /\ last \in Cursors \cup {NoCursor}

Init ==
  /\ made = {}
  /\ driver = [c \in Cursors |-> [sent |-> 0, taken |-> 0, gone |-> FALSE]]
  /\ result = [c \in Cursors |-> NoResult]
  /\ currentCursor = NoCursor /\ op = NoOp
  /\ display = [c \in Cursors |-> {}] /\ direct = display
  /\ again = display /\ cut = display /\ early = {} /\ last = NoCursor

Idle == op = NoOp
Buffered(c) == driver[c].sent - driver[c].taken
InResult(c) == result[c].lo + 1 .. result[c].hi
-----------------------------------------------------------------------------
(* The driver's cursor, as the shell uses it.                              *)

\* closed: gone, and nothing of it left in the buffer.
isClosed(c)    == driver[c].gone /\ Buffered(c) = 0
isExhausted(c) == isClosed(c) /\ Buffered(c) = 0

\* A reply arrives.  The server gives its cursor up with a batch that is not
\* full; with one that is and is the last, it may or may not know.
GetMore(c) ==
  LET rest == Docs[c] - driver[c].sent
      n    == IF rest < NetBatch THEN rest ELSE NetBatch
  IN /\ Buffered(c) = 0 /\ ~driver[c].gone
     /\ \E gone \in BOOLEAN :
          /\ (n < NetBatch => gone) /\ (n < rest => ~gone)
          /\ driver' = [driver EXCEPT ![c].sent = @ + n, ![c].gone = gone]
-----------------------------------------------------------------------------
(* _it() and iterate().                                                    *)

\* Faulty Filling: the result is kept only when it is complete.
FillingLater(c) == result[c]

\* A new result takes the place of the last one before anything is read.
Filling(c) ==
  [kept |-> TRUE, lo |-> driver[c].taken, hi |-> driver[c].taken, more |-> TRUE]

\* _it() starts, with a result of its own.
ItStarts(c) ==
  /\ result' = [result EXCEPT ![c] = Filling(c)]
  /\ op' = [cursor |-> c, left |-> IF isClosed(c) THEN 0 ELSE BatchSize]

\* tryNext() yields a document, or the driver asks for more first.
TryNext ==
  LET c == op.cursor
  IN /\ ~Idle /\ op.left > 0
     /\ \/ /\ Buffered(c) > 0
           /\ driver' = [driver EXCEPT ![c].taken = @ + 1]
           /\ result' = [result EXCEPT ![c].hi = driver[c].taken + 1]
           /\ op' = [op EXCEPT !.left = @ - 1]
        \/ GetMore(c) /\ UNCHANGED << result, op >>
     /\ UNCHANGED << made, currentCursor, documents, early, last >>

\* tryNext() yields null.
NoMore ==
  /\ ~Idle /\ op.left > 0 /\ isClosed(op.cursor)
  /\ op' = [op EXCEPT !.left = 0]
  /\ UNCHANGED << made, driver, result, currentCursor, documents, early, last >>

\* Faulty HasMore: there are no more when the server says so.
HasMoreOnServer(c) == ~driver[c].gone

\* Faulty HasMore: what the constructor of the result says stays.
HasMoreAlways(c) == TRUE

HasMore(c) == ~isExhausted(c)

\* _it() is over and its result is displayed.
ItEnds ==
  LET c == op.cursor
  IN /\ ~Idle /\ op.left = 0
     /\ result' = [result EXCEPT ![c].more = HasMore(c)]
     /\ display' = [display EXCEPT ![c] = @ \cup InResult(c)]
     /\ again' = [again EXCEPT ![c] = @ \cup (InResult(c) \cap display[c])]
     /\ last' = c
     /\ op' = NoOp
     /\ UNCHANGED << made, driver, currentCursor, direct, cut, early >>

\* A request for documents fails, and the driver closes its cursor.
Unanswered(c) ==
  /\ Buffered(c) = 0 /\ ~driver[c].gone
  /\ driver' = [driver EXCEPT ![c].gone = TRUE]
  /\ early' = early \cup {c}

\* _it() ends without displaying what it has read, which stays in the result.
Abandoned(c) ==
  /\ op' = NoOp /\ last' = NoCursor
  /\ cut' = [cut EXCEPT ![c] = @ \cup InResult(c)]
  /\ UNCHANGED << made, result, display, again >>

\* An error is displayed: of the configuration, before anything is read, of the
\* network, or of a function given to map(); the document map() had is gone.
ItFails ==
  LET c == op.cursor
  IN /\ ~Idle /\ op.left > 0
     /\ \/ InResult(c) = {} /\ UNCHANGED << driver, direct, early >>
        \/ Unanswered(c) /\ UNCHANGED direct
        \/ /\ Buffered(c) > 0
           /\ driver' = [driver EXCEPT ![c].taken = @ + 1]
           /\ direct' = [direct EXCEPT ![c] = @ \cup {driver[c].taken + 1}]
           /\ UNCHANGED early
     /\ Abandoned(c)
     /\ UNCHANGED currentCursor
-----------------------------------------------------------------------------
(* Commands.                                                               *)

\* find() or aggregate() makes a cursor, displayed or not.
Make(c) ==
  /\ Idle /\ c \notin made
  /\ made' = made \cup {c}
  /\ currentCursor' = c /\ last' = NoCursor
  /\ UNCHANGED << driver, result, op, documents, early >>

\* A line whose value is the cursor: its last result is displayed once more;
\* only the first time is the cursor read.
Show(c) ==
  /\ Idle /\ c \in made
  /\ IF ~result[c].kept
     THEN ItStarts(c) /\ UNCHANGED << display, last >>
     ELSE /\ display' = [display EXCEPT ![c] = @ \cup InResult(c)]
          /\ last' = c
          /\ UNCHANGED << result, op >>
  /\ UNCHANGED << made, driver, currentCursor, direct, again, cut, early >>

\* `it`.
It ==
  /\ Idle /\ currentCursor # NoCursor
  /\ ItStarts(currentCursor)
  /\ UNCHANGED << made, driver, currentCursor, documents, early, last >>

\* cursor.next(), with the documents that are there.
Next1(c) ==
  /\ Idle /\ c \in made
  /\ \/ /\ Buffered(c) > 0
        /\ driver' = [driver EXCEPT ![c].taken = @ + 1]
        /\ direct' = [direct EXCEPT ![c] = @ \cup {driver[c].taken + 1}]
        /\ UNCHANGED early
     \/ GetMore(c) /\ UNCHANGED << direct, early >>
     \/ Unanswered(c) /\ UNCHANGED direct
  /\ last' = NoCursor
  /\ UNCHANGED << made, result, currentCursor, op, display, again, cut >>

\* cursor.close(), or a forEach() that is left early: the buffer is dropped.
Close(c) ==
  /\ Idle /\ c \in made /\ ~isClosed(c)
  /\ direct' = [direct EXCEPT ![c] = @ \cup (driver[c].taken + 1 .. driver[c].sent)]
  /\ driver' = [driver EXCEPT ![c].taken = driver[c].sent, ![c].gone = TRUE]
  /\ early' = early \cup {c} /\ last' = NoCursor
  /\ UNCHANGED << made, result, currentCursor, op, display, again, cut >>

\* `use`, auth() and logout() forget the cursor, and so does Ctrl+C.
Forget ==
  /\ Idle /\ currentCursor # NoCursor
  /\ currentCursor' = NoCursor /\ last' = NoCursor
  /\ UNCHANGED << made, driver, result, op, documents, early >>

\* Ctrl+C amid an _it(): a request that is under way fails as its connection
\* is closed.
Interrupt ==
  LET c == op.cursor
  IN /\ ~Idle
     /\ UNCHANGED << driver, early >> \/ Unanswered(c)
     /\ currentCursor' = NoCursor
     /\ Abandoned(c) /\ UNCHANGED direct

ItSteps == TryNext \/ NoMore \/ ItEnds

Next ==
  \/ \E c \in Cursors : Make(c) \/ Show(c) \/ Next1(c) \/ Close(c)
  \/ It \/ ItSteps \/ ItFails \/ Forget \/ Interrupt

\* The server answers.  The user need not go on.
Spec == Init /\ [][Next]_vars /\ WF_vars(ItSteps)
-----------------------------------------------------------------------------
(* Properties.                                                             *)

\* Every document that was taken from a cursor has been displayed, was given
\* to the user's code, or can still be displayed by printing the cursor again.
\* Only an `it` after one that failed or was interrupted skips any: those that
\* one had read, which are in its result until then (abstract-cursor.ts:218-230).
NothingLost ==
  Idle => \A c \in Cursors :
    1 .. driver[c].taken = display[c] \cup direct[c] \cup cut[c] \cup InResult(c)

\* No `it` displays a document that an `it` before it has displayed, or that
\* the user's code was given; nor is one given that was displayed.
NoneTwice == \A c \in Cursors : again[c] = {} /\ display[c] \cap direct[c] = {}

\* Who is not offered more after a batch has seen all documents there are,
\* whatever batches, of the display or the server, they end with: all but those
\* that their own code got and those that were cut off (see NothingLost).
\* Excepted are cursors that were closed before.
AllSeen ==
  Idle => \A c \in Cursors \ early :
    ~result[c].more => 1 .. Docs[c] \subseteq display[c] \cup direct[c] \cup cut[c]

\* What displays show of a cursor, across `it`, next(), failures, Ctrl+C and
\* repeated displays, is each of its documents, once.
DisplaySound == NothingLost /\ NoneTwice /\ AllSeen

\* A user who does nothing but type `it`, and no failure, gets to the end: the
\* offer of more is withdrawn.
ItTerminates ==
  /\ <>[][It \/ ItSteps]_vars
  /\ []<>(Idle /\ currentCursor # NoCursor) /\ []<><<It>>_vars
  => <>[](\A c \in Cursors : Idle /\ currentCursor = c => ~result[c].more)

\* "it: result of the last line evaluated; use to further iterate"
\* (packages/i18n/src/locales/en_US.ts:184): when the last line displayed a
\* cursor, that is what `it` continues.
ItContinuesDisplayed ==
  [][It => last \in {NoCursor, currentCursor}]_vars
=============================================================================
