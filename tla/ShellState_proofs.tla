--------------------------- MODULE ShellState_proofs ---------------------------
(***************************************************************************)
(* Proofs about what a session keeps between commands: for any cursors,    *)
(* with any number of documents in replies and batches of any size, no     *)
(* display loses or repeats a document and all have been displayed when    *)
(* "it" is not offered any more; and for any connections and any fetches   *)
(* of a session the caches of a connection are filled with what was        *)
(* fetched of it.                                                          *)
(***************************************************************************)
EXTENDS ShellState, TLAPS

-----------------------------------------------------------------------------
(* Cursors.                                                                *)

\* No document is taken before it was received, or received that is not there;
\* and the server gives a cursor up when it has sent them all.
DriverInv ==
  \A c \in Cursors : /\ driver[c].taken <= driver[c].sent /\ driver[c].sent <= Docs[c]
                     /\ driver[c].gone /\ c \notin early => driver[c].sent = Docs[c]

\* The _it() under way fills a result that ends where the driver's cursor is.
FillInv ==
  ~Idle => /\ op.cursor \in Cursors
           /\ result[op.cursor].hi = driver[op.cursor].taken
           /\ result[op.cursor].lo <= result[op.cursor].hi

\* Every document taken is accounted for, amid a batch as well.
TakenInv ==
  \A c \in Cursors :
    1 .. driver[c].taken = display[c] \cup direct[c] \cup cut[c] \cup InResult(c)

\* What can still be displayed was not given to the user's code.
ApartInv == \A c \in Cursors : (display[c] \cup InResult(c)) \cap direct[c] = {}

\* A result is displayed, or cut off, before another one takes its place ...
ShownInv ==
  \A c \in Cursors : Idle \/ c # op.cursor => InResult(c) \subseteq display[c] \cup cut[c]

\* ... and nothing that the one under way has read was displayed before.
NewInv ==
  /\ ~Idle => InResult(op.cursor) \cap display[op.cursor] = {}
  /\ \A c \in Cursors : again[c] = {}

\* AllSeen, amid a batch as well.
SeenInv ==
  \A c \in Cursors : c \notin early /\ ~result[c].more =>
    1 .. Docs[c] \subseteq display[c] \cup direct[c] \cup cut[c]

\* What the steps do to the documents of a cursor.
DocumentsInv == FillInv /\ TakenInv /\ ApartInv /\ ShownInv /\ NewInv /\ SeenInv

\* The inductive invariant of CursorIteration.
CursorInv == TypeOK /\ DriverInv /\ DocumentsInv

\* In the beginning no document was taken.
LEMMA CursorInit == Init => CursorInv
  <1> SUFFICES ASSUME Init PROVE CursorInv
    OBVIOUS
  <1> USE CursorAssumption DEF Init, NoOp, NoResult
  <1>1. TypeOK
    BY DEF TypeOK
  <1>2. DriverInv /\ FillInv
    BY DEF DriverInv, FillInv, Idle
  <1>3. \A c \in Cursors : InResult(c) = {}
    BY DEF InResult
  <1>4. TakenInv /\ ApartInv /\ ShownInv
    BY <1>3 DEF TakenInv, ApartInv, ShownInv
  <1>5. NewInv /\ SeenInv
    BY DEF NewInv, SeenInv, Idle
  <1> QED
    BY <1>1, <1>2, <1>4, <1>5 DEF CursorInv, DocumentsInv

\* The next document of a cursor is new: nothing has displayed or given it.
LEMMA NextIsNew ==
  ASSUME CursorInv, NEW c \in Cursors
  PROVE  /\ driver[c].taken \in Nat /\ driver[c].sent \in Nat
         /\ \A i \in Nat : i > driver[c].taken =>
              i \notin display[c] \cup direct[c] \cup cut[c] \cup InResult(c)
  <1>1. driver[c].taken \in Nat /\ driver[c].sent \in Nat
    BY DEF CursorInv, TypeOK
  <1>2. \A i \in Nat : i > driver[c].taken => i \notin 1 .. driver[c].taken
    BY <1>1
  <1> QED
    BY <1>1, <1>2 DEF CursorInv, DocumentsInv, TakenInv

\* What a driver's cursor becomes when it has received documents ...
LEMMA SentField ==
  ASSUME NEW r \in [sent : Nat, taken : Nat, gone : BOOLEAN], NEW n \in Nat, NEW g \in BOOLEAN
  PROVE  [r EXCEPT !.sent = n, !.gone = g] = [sent |-> n, taken |-> r.taken, gone |-> g]
  <1> DEFINE q == [r EXCEPT !.sent = n]
  <1>1. /\ q = [sent |-> n, taken |-> r.taken, gone |-> r.gone]
        /\ q \in [sent : Nat, taken : Nat, gone : BOOLEAN]
    OBVIOUS
  <1>2. [r EXCEPT !.sent = n, !.gone = g] = [q EXCEPT !.gone = g]
    OBVIOUS
  <1> HIDE DEF q
  <1>3. [q EXCEPT !.gone = g] = [sent |-> q.sent, taken |-> q.taken, gone |-> g]
    BY <1>1
  <1> QED
    BY <1>1, <1>2, <1>3

\* ... when they are taken ...
LEMMA TakenField ==
  ASSUME NEW r \in [sent : Nat, taken : Nat, gone : BOOLEAN], NEW n \in Nat
  PROVE  [r EXCEPT !.taken = n] = [sent |-> r.sent, taken |-> n, gone |-> r.gone]
  OBVIOUS

\* ... and when it is closed.
LEMMA ClosedFields ==
  ASSUME NEW r \in [sent : Nat, taken : Nat, gone : BOOLEAN], NEW n \in Nat, NEW g \in BOOLEAN
  PROVE  [r EXCEPT !.taken = n, !.gone = g] = [sent |-> r.sent, taken |-> n, gone |-> g]
  <1> DEFINE q == [r EXCEPT !.taken = n]
  <1>1. /\ q = [sent |-> r.sent, taken |-> n, gone |-> r.gone]
        /\ q \in [sent : Nat, taken : Nat, gone : BOOLEAN]
    OBVIOUS
  <1>2. [r EXCEPT !.taken = n, !.gone = g] = [q EXCEPT !.gone = g]
    OBVIOUS
  <1> HIDE DEF q
  <1>3. [q EXCEPT !.gone = g] = [sent |-> q.sent, taken |-> q.taken, gone |-> g]
    BY <1>1
  <1> QED
    BY <1>1, <1>2, <1>3

\* A driver's cursor that has advanced.
LEMMA DriverStep ==
  ASSUME CursorInv, NEW c \in Cursors, NEW s \in Nat, NEW t \in Nat, NEW g \in BOOLEAN,
         driver' = [driver EXCEPT ![c] = [sent |-> s, taken |-> t, gone |-> g]],
         t <= s, s <= Docs[c], g /\ c \notin early' => s = Docs[c], early \subseteq early'
  PROVE  /\ driver' \in [Cursors -> [sent : Nat, taken : Nat, gone : BOOLEAN]] /\ DriverInv'
         /\ driver'[c].taken = t /\ \A d \in Cursors : d # c => driver'[d] = driver[d]
  <1>1. driver'[c] = [sent |-> s, taken |-> t, gone |-> g]
        /\ \A d \in Cursors : d # c => driver'[d] = driver[d]
    BY DEF CursorInv, TypeOK
  <1>2. driver' \in [Cursors -> [sent : Nat, taken : Nat, gone : BOOLEAN]]
    BY DEF CursorInv, TypeOK
  <1>3. DriverInv'
    BY <1>1 DEF CursorInv, DriverInv
  <1> QED
    BY <1>1, <1>2, <1>3

\* A reply: what has been received grows, to no more than there is.
LEMMA GetMoreIs ==
  ASSUME CursorInv, NEW c \in Cursors, GetMore(c), UNCHANGED early
  PROVE  /\ driver' \in [Cursors -> [sent : Nat, taken : Nat, gone : BOOLEAN]] /\ DriverInv'
         /\ \A d \in Cursors : driver'[d].taken = driver[d].taken
  <1> DEFINE rest == Docs[c] - driver[c].sent
             n == IF rest < NetBatch THEN rest ELSE NetBatch
  <1>1. /\ driver[c] \in [sent : Nat, taken : Nat, gone : BOOLEAN]
        /\ driver[c].taken <= driver[c].sent /\ driver[c].sent <= Docs[c] /\ Docs[c] \in Nat
    BY CursorAssumption DEF CursorInv, TypeOK, DriverInv
  <1>2. n \in Nat /\ driver[c].sent + n <= Docs[c]
        /\ (~(n < rest) => driver[c].sent + n = Docs[c])
    BY <1>1, CursorAssumption
  <1>3. PICK gone \in BOOLEAN :
          /\ n < rest => ~gone
          /\ driver' = [driver EXCEPT ![c].sent = driver[c].sent + n, ![c].gone = gone]
    BY DEF GetMore, CursorInv, TypeOK
  <1> HIDE DEF n, rest
  <1>4. driver[c].sent + n \in Nat /\ driver[c].taken \in Nat
    BY <1>1, <1>2
  <1>5. driver' = [driver EXCEPT ![c] =
          [sent |-> driver[c].sent + n, taken |-> driver[c].taken, gone |-> gone]]
    <2>1. driver' = [driver EXCEPT ![c] =
            [driver[c] EXCEPT !.sent = driver[c].sent + n, !.gone = gone]]
      BY <1>3 DEF CursorInv, TypeOK
    <2>2. [driver[c] EXCEPT !.sent = driver[c].sent + n, !.gone = gone]
            = [sent |-> driver[c].sent + n, taken |-> driver[c].taken, gone |-> gone]
      BY <1>1, <1>4, SentField
    <2> QED
      BY <2>1, <2>2
  <1>6. driver[c].taken <= driver[c].sent + n
    BY <1>1, <1>2
  <1>7. gone /\ c \notin early' => driver[c].sent + n = Docs[c]
    BY <1>2, <1>3
  <1>8. early \subseteq early'
    OBVIOUS
  <1> QED
    BY <1>2, <1>4, <1>5, <1>6, <1>7, <1>8, DriverStep

\* A request that is not answered: the driver's cursor is closed.
LEMMA UnansweredIs ==
  ASSUME CursorInv, NEW c \in Cursors, Unanswered(c)
  PROVE  /\ driver' \in [Cursors -> [sent : Nat, taken : Nat, gone : BOOLEAN]] /\ DriverInv'
         /\ \A d \in Cursors : driver'[d].taken = driver[d].taken
         /\ early' = early \cup {c}
  <1>1. driver'[c] = [driver[c] EXCEPT !.gone = TRUE]
        /\ \A d \in Cursors : d # c => driver'[d] = driver[d]
    BY DEF Unanswered, CursorInv, TypeOK
  <1>2. /\ driver[c] \in [sent : Nat, taken : Nat, gone : BOOLEAN]
        /\ driver[c].taken <= driver[c].sent /\ driver[c].sent <= Docs[c]
    BY DEF CursorInv, TypeOK, DriverInv
  <1>3. driver'[c] = [sent |-> driver[c].sent, taken |-> driver[c].taken, gone |-> TRUE]
    BY <1>1, <1>2
  <1>4. driver' = [driver EXCEPT ![c] =
          [sent |-> driver[c].sent, taken |-> driver[c].taken, gone |-> TRUE]]
    BY <1>1, <1>3 DEF Unanswered, CursorInv, TypeOK
  <1>5. c \in early' /\ early \subseteq early' /\ early' = early \cup {c}
    BY DEF Unanswered
  <1>6. /\ driver' \in [Cursors -> [sent : Nat, taken : Nat, gone : BOOLEAN]] /\ DriverInv'
        /\ driver'[c].taken = driver[c].taken /\ \A d \in Cursors : d # c => driver'[d] = driver[d]
    BY <1>2, <1>4, <1>5, DriverStep
  <1> QED
    BY <1>5, <1>6

\* The next document is taken.
LEMMA TakesOneIs ==
  ASSUME CursorInv, NEW c \in Cursors, Buffered(c) > 0, UNCHANGED early,
         driver' = [driver EXCEPT ![c].taken = @ + 1]
  PROVE  /\ driver' \in [Cursors -> [sent : Nat, taken : Nat, gone : BOOLEAN]] /\ DriverInv'
         /\ driver'[c].taken = driver[c].taken + 1
         /\ \A d \in Cursors : d # c => driver'[d] = driver[d]
  <1>1. /\ driver[c] \in [sent : Nat, taken : Nat, gone : BOOLEAN]
        /\ driver[c].sent <= Docs[c]
        /\ driver[c].gone /\ c \notin early => driver[c].sent = Docs[c]
    BY DEF CursorInv, TypeOK, DriverInv
  <1>2. driver[c].taken + 1 \in Nat /\ driver[c].taken + 1 <= driver[c].sent
    BY <1>1 DEF Buffered
  <1>3. driver' = [driver EXCEPT ![c] =
          [sent |-> driver[c].sent, taken |-> driver[c].taken + 1, gone |-> driver[c].gone]]
    <2>1. driver' = [driver EXCEPT ![c] = [driver[c] EXCEPT !.taken = driver[c].taken + 1]]
      BY DEF CursorInv, TypeOK
    <2> QED
      BY <1>1, <1>2, <2>1, TakenField, ZenonT(60)
  <1>4. early \subseteq early' /\ (driver[c].gone /\ c \notin early' => driver[c].sent = Docs[c])
    BY <1>1
  <1> QED
    BY <1>1, <1>2, <1>3, <1>4, DriverStep

\* ... and given to the user's code.
LEMMA GivesOneIs ==
  ASSUME CursorInv, NEW c \in Cursors,
         direct' = [direct EXCEPT ![c] = @ \cup {driver[c].taken + 1}],
         driver'[c].taken = driver[c].taken + 1,
         \A d \in Cursors : d # c => driver'[d] = driver[d]
  PROVE  /\ direct' \in [Cursors -> SUBSET Nat]
         /\ \A d \in Cursors : /\ driver[d].taken <= driver'[d].taken
                               /\ direct'[d] = direct[d] \cup (driver[d].taken + 1 .. driver'[d].taken)
  <1>1. /\ \A d \in Cursors : driver[d].taken \in Nat
                              /\ driver[d].taken + 1 .. driver[d].taken = {}
        /\ direct \in [Cursors -> SUBSET Nat]
    BY DEF CursorInv, TypeOK
  <1>2. driver[c].taken + 1 .. driver[c].taken + 1 = {driver[c].taken + 1}
    BY <1>1
  <1>3. /\ direct' \in [Cursors -> SUBSET Nat]
        /\ direct'[c] = direct[c] \cup {driver[c].taken + 1}
        /\ \A d \in Cursors : d # c => direct'[d] = direct[d]
    BY <1>1
  <1>4. ASSUME NEW d \in Cursors, d # c
        PROVE  /\ driver[d].taken <= driver'[d].taken
               /\ direct'[d] = direct[d] \cup (driver[d].taken + 1 .. driver'[d].taken)
    <2>1. driver'[d].taken = driver[d].taken /\ direct'[d] = direct[d]
      BY <1>3, <1>4
    <2> QED
      BY <1>1, <2>1
  <1>5. driver[c].taken <= driver'[c].taken
        /\ direct'[c] = direct[c] \cup (driver[c].taken + 1 .. driver'[c].taken)
    BY <1>1, <1>2, <1>3
  <1> QED
    BY <1>3, <1>4, <1>5

\* The invariant, when no display or result has changed: documents may have
\* gone to the user's code, been dropped, or been cut off with an _it().
LEMMA NothingShownInv ==
  ASSUME CursorInv, TypeOK', DriverInv', UNCHANGED << result, display, again >>,
         early \subseteq early',
         \A d \in Cursors :
           /\ driver[d].taken <= driver'[d].taken
           /\ direct'[d] = direct[d] \cup (driver[d].taken + 1 .. driver'[d].taken)
           /\ cut[d] \subseteq cut'[d] /\ cut'[d] \subseteq cut[d] \cup InResult(d),
         \/ /\ op'.cursor = op.cursor /\ ~Idle
            /\ \A d \in Cursors : driver'[d].taken = driver[d].taken
         \/ Idle' /\ Idle
         \/ Idle' /\ ~Idle /\ cut'[op.cursor] = cut[op.cursor] \cup InResult(op.cursor)
  PROVE  CursorInv'
  <1>1. \A d \in Cursors : InResult(d)' = InResult(d)
    BY DEF InResult
  <1>2. ASSUME NEW d \in Cursors
        PROVE  /\ driver[d].taken \in Nat /\ driver'[d].taken \in Nat
               /\ 1 .. driver'[d].taken
                    = (1 .. driver[d].taken) \cup (driver[d].taken + 1 .. driver'[d].taken)
               /\ (driver[d].taken + 1 .. driver'[d].taken) \cap (display[d] \cup InResult(d)) = {}
    <2>1. driver[d].taken \in Nat /\ driver'[d].taken \in Nat
      BY DEF CursorInv, TypeOK
    <2>2. \A i \in driver[d].taken + 1 .. driver'[d].taken : i \in Nat /\ i > driver[d].taken
      BY <2>1
    <2>3. \A i \in driver[d].taken + 1 .. driver'[d].taken : i \notin display[d] \cup InResult(d)
      BY <2>2, NextIsNew
    <2>4. 1 .. driver'[d].taken
            = (1 .. driver[d].taken) \cup (driver[d].taken + 1 .. driver'[d].taken)
      BY <2>1
    <2> QED
      BY <2>1, <2>3, <2>4
  <1>3. FillInv'
    BY DEF CursorInv, DocumentsInv, FillInv, Idle
  <1>4. TakenInv'
    <2> SUFFICES ASSUME NEW d \in Cursors
                 PROVE  1 .. driver'[d].taken
                          = display[d] \cup direct'[d] \cup cut'[d] \cup InResult(d)
      BY <1>1 DEF TakenInv
    <2> DEFINE given == driver[d].taken + 1 .. driver'[d].taken
               before == 1 .. driver[d].taken
    <2>1. 1 .. driver'[d].taken = before \cup given /\ direct'[d] = direct[d] \cup given
      BY <1>2
    <2>2. before = display[d] \cup direct[d] \cup cut[d] \cup InResult(d)
      BY DEF CursorInv, DocumentsInv, TakenInv
    <2> HIDE DEF given, before
    <2> QED
      BY <2>1, <2>2
  <1>5. ApartInv'
    <2> SUFFICES ASSUME NEW d \in Cursors
                 PROVE  (display[d] \cup InResult(d)) \cap direct'[d] = {}
      BY <1>1 DEF ApartInv
    <2> DEFINE given == driver[d].taken + 1 .. driver'[d].taken
    <2>1. given \cap (display[d] \cup InResult(d)) = {} /\ direct'[d] = direct[d] \cup given
      BY <1>2
    <2>2. (display[d] \cup InResult(d)) \cap direct[d] = {}
      BY DEF CursorInv, DocumentsInv, ApartInv
    <2> HIDE DEF given
    <2> QED
      BY <2>1, <2>2
  <1>6. ShownInv'
    <2> SUFFICES ASSUME NEW d \in Cursors, Idle' \/ d # op'.cursor
                 PROVE  InResult(d) \subseteq display[d] \cup cut'[d]
      BY <1>1 DEF ShownInv
    <2>1. CASE Idle \/ d # op.cursor
      BY <2>1 DEF CursorInv, DocumentsInv, ShownInv
    <2>2. CASE ~Idle /\ d = op.cursor
      <3>1. op'.cursor = op.cursor => ~Idle'
        BY <2>2, CursorAssumption DEF Idle, NoOp
      <3>2. cut'[op.cursor] = cut[op.cursor] \cup InResult(op.cursor)
        BY <2>2, <3>1
      <3> QED
        BY <2>2, <3>2
    <2> QED
      BY <2>1, <2>2
  <1>7. NewInv'
    <2>1. \A d \in Cursors : again'[d] = {}
      BY DEF CursorInv, DocumentsInv, NewInv
    <2>2. ASSUME ~Idle'
          PROVE  InResult(op.cursor)' \cap display[op.cursor] = {} /\ op'.cursor = op.cursor
      <3>1. ~Idle /\ op'.cursor = op.cursor /\ op.cursor \in Cursors
        BY <2>2 DEF CursorInv, DocumentsInv, FillInv
      <3>2. result'[op'.cursor] = result[op.cursor] /\ result'[op.cursor] = result[op.cursor]
        BY <3>1
      <3> QED
        BY <3>1, <3>2 DEF CursorInv, DocumentsInv, NewInv, InResult
    <2> QED
      BY <2>1, <2>2 DEF NewInv, InResult
  <1>8. SeenInv'
    <2>1. \A d \in Cursors : direct[d] \subseteq direct'[d] /\ cut[d] \subseteq cut'[d]
      OBVIOUS
    <2> QED
      BY <2>1 DEF CursorInv, DocumentsInv, SeenInv
  <1> QED
    BY <1>3, <1>4, <1>5, <1>6, <1>7, <1>8 DEF CursorInv, DocumentsInv

\* _it() starts: the result that its own replaces has been displayed.
LEMMA ItStartsInv ==
  ASSUME CursorInv, NEW c \in Cursors, Idle, ItStarts(c),
         UNCHANGED << made, driver, currentCursor, documents, early, last >>
  PROVE  CursorInv'
  <1> DEFINE r == [kept |-> TRUE, lo |-> driver[c].taken, hi |-> driver[c].taken, more |-> TRUE]
  <1>1. driver[c].taken \in Nat /\ UNCHANGED << display, direct, again, cut >>
    BY DEF CursorInv, TypeOK, documents
  <1>2. /\ result' = [result EXCEPT ![c] = r]
        /\ op' \in [cursor : {c}, left : {0, BatchSize}]
    BY DEF ItStarts, Filling
  <1>3. result'[c] = r /\ \A d \in Cursors : d # c => result'[d] = result[d]
    BY <1>2 DEF CursorInv, TypeOK
  <1>4. InResult(c)' = {} /\ \A d \in Cursors : d # c => InResult(d)' = InResult(d)
    BY <1>1, <1>3 DEF InResult
  <1>5. \A d \in Cursors : InResult(d) \subseteq display[d] \cup cut[d]
    BY DEF CursorInv, DocumentsInv, ShownInv
  <1>6. TypeOK'
    <2>1. result' \in [Cursors -> [kept : BOOLEAN, lo : Nat, hi : Nat, more : BOOLEAN]]
      BY <1>1, <1>2 DEF CursorInv, TypeOK
    <2>2. op' \in [cursor : Cursors \cup {NoCursor}, left : 0 .. BatchSize]
      BY <1>2, CursorAssumption
    <2> QED
      BY <1>1, <2>1, <2>2 DEF CursorInv, TypeOK
  <1>7. DriverInv'
    BY DEF CursorInv, DriverInv
  <1>8. FillInv'
    BY <1>1, <1>2, <1>3 DEF FillInv
  <1>9. TakenInv'
    BY <1>1, <1>4, <1>5 DEF CursorInv, DocumentsInv, TakenInv
  <1>10. ApartInv'
    BY <1>1, <1>4 DEF CursorInv, DocumentsInv, ApartInv
  <1>11. ShownInv'
    BY <1>1, <1>4, <1>5 DEF ShownInv
  <1>12. NewInv'
    <2>1. op'.cursor = c /\ \A d \in Cursors : again[d] = {}
      BY <1>2 DEF CursorInv, DocumentsInv, NewInv
    <2>2. InResult(op.cursor)' = InResult(c)'
      BY <2>1 DEF InResult
    <2> QED
      BY <1>1, <1>4, <2>1, <2>2 DEF NewInv
  <1>13. SeenInv'
    BY <1>1, <1>3 DEF CursorInv, DocumentsInv, SeenInv
  <1> QED
    BY <1>6, <1>7, <1>8, <1>9, <1>10, <1>11, <1>12, <1>13 DEF CursorInv, DocumentsInv

\* A document goes into the result, or a reply arrives.
LEMMA TryNextInv ==
  ASSUME CursorInv, TryNext
  PROVE  CursorInv'
  <1>1. PICK c \in Cursors : c = op.cursor /\ ~Idle /\ op.left > 0
    BY DEF TryNext, CursorInv, DocumentsInv, FillInv
  <1>2. UNCHANGED << made, currentCursor, display, direct, again, cut, early, last >>
    BY DEF TryNext, documents
  <1>3. CASE GetMore(c) /\ UNCHANGED << result, op >>
    <2>1. /\ driver' \in [Cursors -> [sent : Nat, taken : Nat, gone : BOOLEAN]] /\ DriverInv'
          /\ \A d \in Cursors : driver'[d].taken = driver[d].taken
      BY <1>2, <1>3, GetMoreIs
    <2>2. TypeOK'
      BY <1>2, <1>3, <2>1 DEF CursorInv, TypeOK
    <2>3. \A d \in Cursors : driver[d].taken \in Nat
                             /\ driver[d].taken + 1 .. driver[d].taken = {}
      BY DEF CursorInv, TypeOK
    <2> QED
      BY <1>1, <1>2, <1>3, <2>1, <2>2, <2>3, NothingShownInv
  <1>4. ASSUME Buffered(c) > 0,
               driver' = [driver EXCEPT ![c].taken = @ + 1],
               result' = [result EXCEPT ![c].hi = driver[c].taken + 1],
               op' = [op EXCEPT !.left = @ - 1]
        PROVE  CursorInv'
    <2> USE <1>1
    <2>1. /\ driver' \in [Cursors -> [sent : Nat, taken : Nat, gone : BOOLEAN]] /\ DriverInv'
          /\ driver'[c].taken = driver[c].taken + 1
          /\ \A d \in Cursors : d # c => driver'[d] = driver[d]
      BY <1>2, <1>4, TakesOneIs
    <2>2. /\ driver[c].taken \in Nat
          /\ result[c] \in [kept : BOOLEAN, lo : Nat, hi : Nat, more : BOOLEAN]
          /\ op \in [cursor : Cursors \cup {NoCursor}, left : 0 .. BatchSize]
          /\ result[c].hi = driver[c].taken /\ result[c].lo <= result[c].hi
      BY DEF CursorInv, TypeOK, DocumentsInv, FillInv
    <2>3. /\ result'[c] = [kept |-> result[c].kept, lo |-> result[c].lo,
                           hi |-> driver[c].taken + 1, more |-> result[c].more]
          /\ \A d \in Cursors : d # c => result'[d] = result[d]
          /\ op' = [cursor |-> c, left |-> op.left - 1]
      BY <1>4, <2>2 DEF CursorInv, TypeOK
    <2>4. /\ InResult(c)' = InResult(c) \cup {driver[c].taken + 1}
          /\ \A d \in Cursors : d # c => InResult(d)' = InResult(d)
      BY <2>2, <2>3, SMTT(60) DEF InResult
    <2>5. 1 .. driver'[c].taken = (1 .. driver[c].taken) \cup {driver[c].taken + 1}
      BY <2>1, <2>2
    <2>6. driver[c].taken + 1 \notin display[c] \cup direct[c] \cup cut[c] \cup InResult(c)
      BY <2>2, NextIsNew
    <2>7. TypeOK'
      <3>1. op' \in [cursor : Cursors \cup {NoCursor}, left : 0 .. BatchSize]
        BY <2>2, <2>3, CursorAssumption
      <3>2. result' \in [Cursors -> [kept : BOOLEAN, lo : Nat, hi : Nat, more : BOOLEAN]]
        BY <1>4, <2>2, <2>3 DEF CursorInv, TypeOK
      <3> QED
        BY <1>2, <2>1, <3>1, <3>2 DEF CursorInv, TypeOK
    <2>8. FillInv'
      BY <2>1, <2>2, <2>3 DEF FillInv
    <2>9. TakenInv'
      <3> DEFINE new == driver[c].taken + 1
                 before == 1 .. driver[c].taken
      <3>1. before = display[c] \cup direct[c] \cup cut[c] \cup InResult(c)
        BY DEF CursorInv, DocumentsInv, TakenInv
      <3>2. 1 .. driver'[c].taken = before \cup {new} /\ InResult(c)' = InResult(c) \cup {new}
        BY <2>4, <2>5
      <3> HIDE DEF new, before
      <3>3. 1 .. driver'[c].taken = display[c] \cup direct[c] \cup cut[c] \cup InResult(c)'
        BY <3>1, <3>2
      <3>4. \A d \in Cursors : d # c =>
              1 .. driver'[d].taken = display[d] \cup direct[d] \cup cut[d] \cup InResult(d)'
        BY <2>1, <2>4 DEF CursorInv, DocumentsInv, TakenInv
      <3> QED
        BY <1>2, <3>3, <3>4 DEF TakenInv
    <2>10. ApartInv'
      <3> DEFINE new == driver[c].taken + 1
      <3>1. /\ (display[c] \cup InResult(c)) \cap direct[c] = {}
            /\ new \notin direct[c] /\ InResult(c)' = InResult(c) \cup {new}
        BY <2>4, <2>6 DEF CursorInv, DocumentsInv, ApartInv
      <3> HIDE DEF new
      <3>2. (display[c] \cup InResult(c)') \cap direct[c] = {}
        BY <3>1
      <3>3. \A d \in Cursors : d # c => (display[d] \cup InResult(d)') \cap direct[d] = {}
        BY <2>4 DEF CursorInv, DocumentsInv, ApartInv
      <3> QED
        BY <1>2, <3>2, <3>3 DEF ApartInv
    <2>11. ~Idle' /\ op'.cursor = c
      BY <2>3, CursorAssumption DEF Idle, NoOp
    <2>12. ShownInv'
      BY <1>2, <2>4, <2>11 DEF CursorInv, DocumentsInv, ShownInv
    <2>13. NewInv'
      <3>1. InResult(c)' \cap display[c] = {} /\ \A d \in Cursors : again[d] = {}
        BY <2>4, <2>6 DEF CursorInv, DocumentsInv, NewInv
      <3>2. InResult(op.cursor)' = InResult(c)'
        BY <2>11 DEF InResult
      <3> QED
        BY <1>2, <2>11, <3>1, <3>2 DEF NewInv
    <2>14. SeenInv'
      BY <1>2, <2>3 DEF CursorInv, DocumentsInv, SeenInv
    <2> QED
      BY <2>1, <2>7, <2>8, <2>9, <2>10, <2>12, <2>13, <2>14 DEF CursorInv, DocumentsInv
  <1> QED
    BY <1>1, <1>3, <1>4 DEF TryNext

\* tryNext() has no more.
LEMMA NoMoreInv ==
  ASSUME CursorInv, NoMore
  PROVE  CursorInv'
  <1>1. /\ ~Idle /\ op.cursor \in Cursors
        /\ op \in [cursor : Cursors \cup {NoCursor}, left : 0 .. BatchSize]
        /\ UNCHANGED << made, driver, result, currentCursor, display, direct, again, cut,
                        early, last >>
    BY DEF NoMore, documents, CursorInv, TypeOK, DocumentsInv, FillInv
  <1>2. op' = [cursor |-> op.cursor, left |-> 0]
    BY <1>1 DEF NoMore
  <1>3. TypeOK'
    BY <1>1, <1>2, CursorAssumption DEF CursorInv, TypeOK
  <1>4. DriverInv'
    BY <1>1 DEF CursorInv, DriverInv
  <1>5. \A d \in Cursors : driver[d].taken \in Nat
                           /\ driver[d].taken + 1 .. driver[d].taken = {}
    BY DEF CursorInv, TypeOK
  <1> QED
    BY <1>1, <1>2, <1>3, <1>4, <1>5, NothingShownInv

\* _it() displays what it has read: all of it is new, and when no more are
\* offered it was the last of a cursor that the server has sent completely.
LEMMA ItEndsInv ==
  ASSUME CursorInv, ItEnds
  PROVE  CursorInv'
  <1>1. PICK c \in Cursors : c = op.cursor /\ ~Idle
    BY DEF ItEnds, CursorInv, DocumentsInv, FillInv
  <1>2. /\ result[c] \in [kept : BOOLEAN, lo : Nat, hi : Nat, more : BOOLEAN]
        /\ driver[c] \in [sent : Nat, taken : Nat, gone : BOOLEAN]
        /\ HasMore(c) \in BOOLEAN /\ InResult(c) \in SUBSET Nat
    BY <1>1 DEF CursorInv, TypeOK, HasMore, isExhausted, isClosed, InResult
  <1>3. InResult(c) \cap display[c] = {} /\ \A d \in Cursors : again[d] = {}
    BY <1>1 DEF CursorInv, DocumentsInv, NewInv
  <1>4. /\ result' = [result EXCEPT ![c].more = HasMore(c)]
        /\ display' = [display EXCEPT ![c] = display[c] \cup InResult(c)]
        /\ op' = NoOp /\ last' = c
        /\ UNCHANGED << made, driver, currentCursor, direct, cut, early >>
    BY <1>1 DEF ItEnds, CursorInv, TypeOK
  <1>5. again' = again
    <2>1. again' = [again EXCEPT ![c] = again[c] \cup (InResult(c) \cap display[c])]
      BY <1>1 DEF ItEnds, CursorInv, TypeOK
    <2>2. again[c] \cup (InResult(c) \cap display[c]) = again[c]
      BY <1>3
    <2> QED
      BY <2>1, <2>2 DEF CursorInv, TypeOK
  <1>6. /\ result'[c] = [kept |-> result[c].kept, lo |-> result[c].lo, hi |-> result[c].hi,
                         more |-> HasMore(c)]
        /\ \A d \in Cursors : d # c => result'[d] = result[d]
    BY <1>2, <1>4 DEF CursorInv, TypeOK
  <1>7. \A d \in Cursors : InResult(d)' = InResult(d)
    BY <1>6 DEF InResult
  <1>8. /\ display'[c] = display[c] \cup InResult(c)
        /\ \A d \in Cursors : d # c => display'[d] = display[d]
    BY <1>4 DEF CursorInv, TypeOK
  <1>9. Idle'
    BY <1>4 DEF Idle
  <1>10. TypeOK'
    <2>1. display' \in [Cursors -> SUBSET Nat]
      BY <1>2, <1>4 DEF CursorInv, TypeOK
    <2>2. result' \in [Cursors -> [kept : BOOLEAN, lo : Nat, hi : Nat, more : BOOLEAN]]
      BY <1>2, <1>4, <1>6 DEF CursorInv, TypeOK
    <2>3. op' \in [cursor : Cursors \cup {NoCursor}, left : 0 .. BatchSize]
      BY <1>4, CursorAssumption DEF NoOp
    <2> QED
      BY <1>1, <1>4, <1>5, <2>1, <2>2, <2>3 DEF CursorInv, TypeOK
  <1>11. DriverInv' /\ FillInv'
    BY <1>4, <1>9 DEF CursorInv, DriverInv, FillInv
  <1>12. TakenInv' /\ ApartInv'
    BY <1>4, <1>7, <1>8 DEF CursorInv, DocumentsInv, TakenInv, ApartInv
  <1>13. ShownInv'
    BY <1>1, <1>4, <1>7, <1>8 DEF CursorInv, DocumentsInv, ShownInv
  <1>14. NewInv'
    BY <1>3, <1>5, <1>9 DEF NewInv
  <1>15. SeenInv'
    <2>1. ASSUME c \notin early, ~HasMore(c)
          PROVE  1 .. Docs[c] \subseteq display'[c] \cup direct[c] \cup cut[c]
      <3>1. driver[c].gone /\ driver[c].taken = driver[c].sent
        BY <1>2, <2>1 DEF HasMore, isExhausted, isClosed, Buffered
      <3>2. driver[c].taken = Docs[c]
        BY <2>1, <3>1 DEF CursorInv, DriverInv
      <3>3. 1 .. driver[c].taken = display[c] \cup direct[c] \cup cut[c] \cup InResult(c)
        BY DEF CursorInv, DocumentsInv, TakenInv
      <3> QED
        BY <1>8, <3>2, <3>3
    <2>2. ASSUME NEW d \in Cursors, d # c, d \notin early, ~result[d].more
          PROVE  1 .. Docs[d] \subseteq display'[d] \cup direct[d] \cup cut[d]
      BY <1>8, <2>2 DEF CursorInv, DocumentsInv, SeenInv
    <2>3. result'[c].more = HasMore(c)
      BY <1>6
    <2> QED
      BY <1>4, <1>6, <2>1, <2>2, <2>3 DEF SeenInv
  <1> QED
    BY <1>10, <1>11, <1>12, <1>13, <1>14, <1>15 DEF CursorInv, DocumentsInv

\* _it() ends early, with the driver's cursor as it was or closed, or with a
\* document gone: what it has read is cut off.
LEMMA AbandonedInv ==
  ASSUME CursorInv, NEW c \in Cursors, c = op.cursor, ~Idle, Abandoned(c),
         currentCursor' \in Cursors \cup {NoCursor},
         driver' \in [Cursors -> [sent : Nat, taken : Nat, gone : BOOLEAN]], DriverInv',
         \A d \in Cursors :
           /\ driver[d].taken <= driver'[d].taken
           /\ direct'[d] = direct[d] \cup (driver[d].taken + 1 .. driver'[d].taken),
         direct' \in [Cursors -> SUBSET Nat], early \subseteq early', early' \subseteq Cursors
  PROVE  CursorInv'
  <1>1. InResult(c) \in SUBSET Nat
    BY DEF CursorInv, TypeOK, InResult
  <1>2. /\ cut' = [cut EXCEPT ![c] = cut[c] \cup InResult(c)]
        /\ op' = NoOp /\ last' = NoCursor /\ UNCHANGED << made, result, display, again >>
    BY DEF Abandoned, CursorInv, TypeOK
  <1>3. /\ cut' \in [Cursors -> SUBSET Nat] /\ cut'[c] = cut[c] \cup InResult(c)
        /\ \A d \in Cursors : d # c => cut'[d] = cut[d]
    BY <1>1, <1>2 DEF CursorInv, TypeOK
  <1>4. TypeOK'
    BY <1>2, <1>3, CursorAssumption DEF CursorInv, TypeOK, NoOp
  <1>5. \A d \in Cursors : cut[d] \subseteq cut'[d] /\ cut'[d] \subseteq cut[d] \cup InResult(d)
    BY <1>3
  <1>6. Idle' /\ cut'[op.cursor] = cut[op.cursor] \cup InResult(op.cursor)
    BY <1>2, <1>3 DEF Idle
  <1> QED
    BY <1>2, <1>4, <1>5, <1>6, NothingShownInv

\* An error or Ctrl+C.
LEMMA ItFailsInv ==
  ASSUME CursorInv, ItFails \/ Interrupt
  PROVE  CursorInv'
  <1>1. PICK c \in Cursors : c = op.cursor /\ ~Idle /\ Abandoned(c)
    BY DEF ItFails, Interrupt, CursorInv, DocumentsInv, FillInv
  <1>2. currentCursor' \in Cursors \cup {NoCursor}
    BY DEF ItFails, Interrupt, CursorInv, TypeOK
  <1>3. /\ early \subseteq Cursors /\ direct \in [Cursors -> SUBSET Nat]
        /\ driver \in [Cursors -> [sent : Nat, taken : Nat, gone : BOOLEAN]]
    BY DEF CursorInv, TypeOK
  <1>4. \A d \in Cursors : driver[d].taken \in Nat
                           /\ driver[d].taken + 1 .. driver[d].taken = {}
    BY <1>3
  <1>5. CASE UNCHANGED << driver, direct, early >>
    <2>1. DriverInv'
      BY <1>5 DEF CursorInv, DriverInv
    <2> QED
      BY <1>1, <1>2, <1>3, <1>4, <1>5, <2>1, AbandonedInv
  <1>6. CASE Unanswered(c) /\ UNCHANGED direct
    <2>1. /\ driver' \in [Cursors -> [sent : Nat, taken : Nat, gone : BOOLEAN]] /\ DriverInv'
          /\ \A d \in Cursors : driver'[d].taken = driver[d].taken
          /\ early' = early \cup {c}
      BY <1>6, UnansweredIs
    <2> QED
      BY <1>1, <1>2, <1>3, <1>4, <1>6, <2>1, AbandonedInv
  <1>7. ASSUME Buffered(c) > 0,
               driver' = [driver EXCEPT ![c].taken = @ + 1],
               direct' = [direct EXCEPT ![c] = @ \cup {driver[c].taken + 1}],
               UNCHANGED early
        PROVE  CursorInv'
    <2>1. /\ driver' \in [Cursors -> [sent : Nat, taken : Nat, gone : BOOLEAN]] /\ DriverInv'
          /\ driver'[c].taken = driver[c].taken + 1
          /\ \A d \in Cursors : d # c => driver'[d] = driver[d]
      BY <1>7, TakesOneIs
    <2>2. /\ direct' \in [Cursors -> SUBSET Nat]
          /\ \A d \in Cursors : /\ driver[d].taken <= driver'[d].taken
                                /\ direct'[d] = direct[d] \cup (driver[d].taken + 1 .. driver'[d].taken)
      BY <1>7, <2>1, GivesOneIs
    <2> QED
      BY <1>1, <1>2, <1>3, <1>7, <2>1, <2>2, AbandonedInv
  <1> QED
    BY <1>1, <1>5, <1>6, <1>7 DEF ItFails, Interrupt

\* The line's value is the cursor.
LEMMA ShowInv ==
  ASSUME CursorInv, NEW c \in Cursors, Show(c)
  PROVE  CursorInv'
  <1>1. CASE ~result[c].kept
    BY <1>1, ItStartsInv DEF Show, documents
  <1>2. CASE result[c].kept
    <2>1. /\ display' = [display EXCEPT ![c] = display[c] \cup InResult(c)] /\ last' = c
          /\ Idle /\ UNCHANGED << made, driver, result, currentCursor, op, direct, again, cut, early >>
      BY <1>2 DEF Show
    <2>2. /\ display'[c] = display[c] \cup InResult(c)
          /\ \A d \in Cursors : d # c => display'[d] = display[d]
      BY <2>1 DEF CursorInv, TypeOK
    <2>3. InResult(c) \in SUBSET Nat
      BY DEF InResult, CursorInv, TypeOK
    <2>4. TypeOK'
      BY <2>1, <2>3 DEF CursorInv, TypeOK
    <2>5. \A d \in Cursors : InResult(d)' = InResult(d)
      BY <2>1 DEF InResult
    <2>6. TakenInv' /\ ApartInv'
      BY <2>1, <2>2, <2>5 DEF CursorInv, DocumentsInv, TakenInv, ApartInv
    <2>7. Idle'
      BY <2>1 DEF Idle
    <2>8. DriverInv' /\ FillInv'
      BY <2>1, <2>7 DEF CursorInv, DriverInv, FillInv
    <2>9. ShownInv'
      BY <2>1, <2>2, <2>5 DEF CursorInv, DocumentsInv, ShownInv
    <2>10. NewInv'
      BY <2>1, <2>7 DEF CursorInv, DocumentsInv, NewInv
    <2>11. SeenInv'
      BY <2>1, <2>2 DEF CursorInv, DocumentsInv, SeenInv
    <2> QED
      BY <2>4, <2>6, <2>8, <2>9, <2>10, <2>11 DEF CursorInv, DocumentsInv
  <1> QED
    BY <1>1, <1>2

\* The user's code reads the cursor.
LEMMA Next1Inv ==
  ASSUME CursorInv, NEW c \in Cursors, Next1(c)
  PROVE  CursorInv'
  <1>1. /\ Idle /\ last' = NoCursor
        /\ UNCHANGED << made, result, currentCursor, op, display, again, cut >>
    BY DEF Next1
  <1>2. /\ early \subseteq Cursors /\ direct \in [Cursors -> SUBSET Nat]
        /\ driver \in [Cursors -> [sent : Nat, taken : Nat, gone : BOOLEAN]]
    BY DEF CursorInv, TypeOK
  <1>3. \A d \in Cursors : driver[d].taken \in Nat
                           /\ driver[d].taken + 1 .. driver[d].taken = {}
    BY <1>2
  <1>4. Idle' /\ \A d \in Cursors : cut[d] \subseteq cut'[d] /\ cut'[d] \subseteq cut[d] \cup InResult(d)
    BY <1>1 DEF Idle
  <1>5. ASSUME driver' \in [Cursors -> [sent : Nat, taken : Nat, gone : BOOLEAN]],
               direct' \in [Cursors -> SUBSET Nat], early' \subseteq Cursors
        PROVE  TypeOK'
    BY <1>1, <1>5 DEF CursorInv, TypeOK
  <1>6. CASE GetMore(c) /\ UNCHANGED << direct, early >>
    <2>1. /\ driver' \in [Cursors -> [sent : Nat, taken : Nat, gone : BOOLEAN]] /\ DriverInv'
          /\ \A d \in Cursors : driver'[d].taken = driver[d].taken
      BY <1>6, GetMoreIs
    <2>2. TypeOK'
      BY <1>2, <1>5, <1>6, <2>1
    <2> QED
      BY <1>1, <1>3, <1>4, <1>6, <2>1, <2>2, NothingShownInv
  <1>7. CASE Unanswered(c) /\ UNCHANGED direct
    <2>1. /\ driver' \in [Cursors -> [sent : Nat, taken : Nat, gone : BOOLEAN]] /\ DriverInv'
          /\ \A d \in Cursors : driver'[d].taken = driver[d].taken
          /\ early' = early \cup {c}
      BY <1>7, UnansweredIs
    <2>2. TypeOK'
      BY <1>2, <1>5, <1>7, <2>1
    <2> QED
      BY <1>1, <1>3, <1>4, <1>7, <2>1, <2>2, NothingShownInv
  <1>8. ASSUME Buffered(c) > 0,
               driver' = [driver EXCEPT ![c].taken = @ + 1],
               direct' = [direct EXCEPT ![c] = @ \cup {driver[c].taken + 1}],
               UNCHANGED early
        PROVE  CursorInv'
    <2>1. /\ driver' \in [Cursors -> [sent : Nat, taken : Nat, gone : BOOLEAN]] /\ DriverInv'
          /\ driver'[c].taken = driver[c].taken + 1
          /\ \A d \in Cursors : d # c => driver'[d] = driver[d]
      BY <1>8, TakesOneIs
    <2>2. /\ direct' \in [Cursors -> SUBSET Nat]
          /\ \A d \in Cursors : /\ driver[d].taken <= driver'[d].taken
                                /\ direct'[d] = direct[d] \cup (driver[d].taken + 1 .. driver'[d].taken)
      BY <1>8, <2>1, GivesOneIs
    <2>3. TypeOK'
      BY <1>2, <1>5, <1>8, <2>1, <2>2
    <2> QED
      BY <1>1, <1>4, <1>8, <2>1, <2>2, <2>3, NothingShownInv
  <1> QED
    BY <1>6, <1>7, <1>8 DEF Next1

\* The cursor is closed: what was in its buffer is not displayed any more.
LEMMA CloseInv ==
  ASSUME CursorInv, NEW c \in Cursors, Close(c)
  PROVE  CursorInv'
  <1>1. /\ Idle /\ last' = NoCursor
        /\ direct' = [direct EXCEPT ![c] = direct[c] \cup (driver[c].taken + 1 .. driver[c].sent)]
        /\ driver' = [driver EXCEPT ![c].taken = driver[c].sent, ![c].gone = TRUE]
        /\ early' = early \cup {c}
        /\ UNCHANGED << made, result, currentCursor, op, display, again, cut >>
    BY DEF Close, CursorInv, TypeOK
  <1>2. /\ driver[c] \in [sent : Nat, taken : Nat, gone : BOOLEAN]
        /\ driver[c].taken <= driver[c].sent /\ driver[c].sent <= Docs[c]
    BY DEF CursorInv, TypeOK, DriverInv
  <1>3. driver' = [driver EXCEPT ![c] =
          [sent |-> driver[c].sent, taken |-> driver[c].sent, gone |-> TRUE]]
    <2>1. driver' = [driver EXCEPT ![c] = [driver[c] EXCEPT !.taken = driver[c].sent, !.gone = TRUE]]
      BY <1>1 DEF CursorInv, TypeOK
    <2>2. [driver[c] EXCEPT !.taken = driver[c].sent, !.gone = TRUE]
            = [sent |-> driver[c].sent, taken |-> driver[c].sent, gone |-> TRUE]
      BY <1>2, ClosedFields
    <2> QED
      BY <2>1, <2>2
  <1>4. /\ driver' \in [Cursors -> [sent : Nat, taken : Nat, gone : BOOLEAN]] /\ DriverInv'
        /\ driver'[c].taken = driver[c].sent
        /\ \A d \in Cursors : d # c => driver'[d] = driver[d]
    <2>1. driver[c].sent \in Nat /\ driver[c].sent <= driver[c].sent
          /\ early \subseteq early' /\ c \in early'
      BY <1>1, <1>2
    <2> QED
      BY <1>2, <1>3, <2>1, DriverStep
  <1>5. driver[c].taken + 1 .. driver[c].sent \in SUBSET Nat
    BY <1>2
  <1>6. /\ direct' \in [Cursors -> SUBSET Nat]
        /\ direct'[c] = direct[c] \cup (driver[c].taken + 1 .. driver[c].sent)
        /\ \A d \in Cursors : d # c => direct'[d] = direct[d]
    BY <1>1, <1>5 DEF CursorInv, TypeOK
  <1>7. TypeOK'
    BY <1>1, <1>4, <1>6 DEF CursorInv, TypeOK
  <1>8. \A d \in Cursors : driver[d].taken \in Nat
                           /\ driver[d].taken + 1 .. driver[d].taken = {}
    BY DEF CursorInv, TypeOK
  <1>9. \A d \in Cursors : /\ driver[d].taken <= driver'[d].taken
                           /\ direct'[d] = direct[d] \cup (driver[d].taken + 1 .. driver'[d].taken)
    <2>1. ASSUME NEW d \in Cursors, d # c
          PROVE  /\ driver[d].taken <= driver'[d].taken
                 /\ direct'[d] = direct[d] \cup (driver[d].taken + 1 .. driver'[d].taken)
      BY <1>4, <1>6, <1>8, <2>1
    <2> QED
      BY <1>2, <1>4, <1>6, <2>1
  <1>10. Idle' /\ \A d \in Cursors : cut[d] \subseteq cut'[d] /\ cut'[d] \subseteq cut[d] \cup InResult(d)
    BY <1>1 DEF Idle
  <1> QED
    BY <1>1, <1>4, <1>7, <1>9, <1>10, NothingShownInv

\* A cursor is made, displayed, continued, read by the user's code, closed or
\* forgotten.
LEMMA CommandInv ==
  ASSUME CursorInv,
         \/ \E c \in Cursors : Make(c) \/ Show(c) \/ Next1(c) \/ Close(c)
         \/ It \/ Forget
  PROVE  CursorInv'
  <1>1. ASSUME Idle, op' = op,
               UNCHANGED << driver, result, documents, early >>, TypeOK'
        PROVE  CursorInv'
    <2>1. UNCHANGED << display, direct, again, cut >> /\ Idle'
      BY <1>1 DEF documents, Idle
    <2>2. DriverInv'
      BY <1>1 DEF CursorInv, DriverInv
    <2>3. \A d \in Cursors : driver[d].taken \in Nat
                             /\ driver[d].taken + 1 .. driver[d].taken = {}
      BY DEF CursorInv, TypeOK
    <2> QED
      BY <1>1, <2>1, <2>2, <2>3, NothingShownInv
  <1>2. ASSUME NEW c \in Cursors, Make(c) PROVE CursorInv'
    <2>1. TypeOK'
      BY <1>2 DEF Make, documents, CursorInv, TypeOK
    <2> QED
      BY <1>1, <1>2, <2>1 DEF Make
  <1>3. CASE It
    <2>1. currentCursor \in Cursors
      BY <1>3 DEF It, CursorInv, TypeOK
    <2> QED
      BY <1>3, <2>1, ItStartsInv DEF It
  <1>4. CASE Forget
    <2>1. TypeOK'
      BY <1>4 DEF Forget, documents, CursorInv, TypeOK
    <2> QED
      BY <1>1, <1>4, <2>1 DEF Forget
  <1> QED
    BY <1>2, <1>3, <1>4, ShowInv, Next1Inv, CloseInv

\* Every step preserves the inductive invariant.
LEMMA CursorNext == CursorInv /\ [Next]_vars => CursorInv'
  <1> SUFFICES ASSUME CursorInv, [Next]_vars PROVE CursorInv'
    OBVIOUS
  <1>1. CASE UNCHANGED vars
    <2>1. TypeOK' /\ DriverInv'
      BY <1>1 DEF vars, CursorInv, TypeOK, DriverInv
    <2>2. FillInv' /\ TakenInv' /\ ApartInv'
      BY <1>1 DEF vars, CursorInv, DocumentsInv, FillInv, TakenInv, ApartInv, InResult, Idle
    <2>3. ShownInv' /\ NewInv' /\ SeenInv'
      BY <1>1 DEF vars, CursorInv, DocumentsInv, ShownInv, NewInv, SeenInv, InResult, Idle
    <2> QED
      BY <2>1, <2>2, <2>3 DEF CursorInv, DocumentsInv
  <1>2. CASE Next
    BY <1>2, TryNextInv, NoMoreInv, ItEndsInv, ItFailsInv, CommandInv DEF Next, ItSteps
  <1> QED
    BY <1>1, <1>2

\* The inductive invariant holds in every reachable state.
LEMMA CursorInvCorrect == Spec => []CursorInv
  BY CursorInit, CursorNext, PTL DEF Spec

\* The variables of CursorIteration have their types.
THEOREM CursorTypeCorrect == Spec => []TypeOK
  <1>1. CursorInv => TypeOK
    BY DEF CursorInv
  <1> QED
    BY <1>1, CursorInvCorrect, PTL

\* What displays show of a cursor, across `it`, next(), close(), failures,
\* Ctrl+C and repeated displays: no document that was taken is lost, but for
\* those an `it` had read when it failed or was interrupted; no `it` displays
\* one that was displayed before or was given to the user's code; and who is
\* not offered more has seen all documents, unless the cursor was closed early;
\* for any number of documents and any sizes of replies and batches
\* (abstract-cursor.ts:218-230).
THEOREM DisplaySoundCorrect == Spec => []DisplaySound
  <1>1. CursorInv => NothingLost
    BY DEF CursorInv, DocumentsInv, TakenInv, NothingLost
  <1>2. CursorInv => NoneTwice
    BY DEF CursorInv, DocumentsInv, ApartInv, NewInv, NoneTwice
  <1>3. CursorInv => AllSeen
    BY DEF CursorInv, DocumentsInv, SeenInv, AllSeen
  <1>4. CursorInv => DisplaySound
    BY <1>1, <1>2, <1>3 DEF DisplaySound
  <1> QED
    BY <1>4, CursorInvCorrect, PTL

-----------------------------------------------------------------------------
(* The connection: its cached info, and the names completion offers.       *)

\* A listing that is under way is of a connection.
ListInv == \A l \in Lists : list[l].at # "idle" => list[l].conn \in Conns

\* The inductive invariant of ConnectionInfo.
InfoInv == Info!TypeOK /\ ListInv /\ Info!CacheOfCurrent

\* What a listing is that is not under way.
LEMMA IdleIs ==
  ASSUME Info!ConnectionAssumption
  PROVE  /\ Info!Idle \in [at : {"idle", "asked", "served"}, conn : Conns \cup {Info!NoConn},
                           ver : 0 .. MaxVersion]
         /\ Info!Idle.at = "idle"
  BY DEF Info!Idle, Info!ConnectionAssumption

\* A session starts with nothing cached.
LEMMA InfoInit == Info!ConnectionAssumption /\ Info!Init => InfoInv
  <1> SUFFICES ASSUME Info!ConnectionAssumption, Info!Init PROVE InfoInv
    OBVIOUS
  <1> USE IdleIs DEF Info!ConnectionAssumption, Info!Init
  <1>1. Info!TypeOK
    <2>1. names \in [Conns -> 0 .. MaxVersion] /\ catalog \in [Conns -> 0 .. MaxVersion]
      OBVIOUS
    <2>2. list \in [Lists -> [at : {"idle", "asked", "served"},
                             conn : Conns \cup {Info!NoConn}, ver : 0 .. MaxVersion]]
      OBVIOUS
    <2>3. cache \in [for : Conns, info : Conns \cup Fetches \cup {Info!NoInfo}]
      OBVIOUS
    <2>4. fetch \in [Fetches -> Conns \cup {Info!NoConn}]
      OBVIOUS
    <2> QED
      BY <2>1, <2>2, <2>3, <2>4 DEF Info!TypeOK
  <1>2. ListInv
    BY DEF ListInv
  <1>3. Info!CacheOfCurrent
    BY DEF Info!CacheOfCurrent, Info!cachedConnectionInfo
  <1> QED
    BY <1>1, <1>2, <1>3 DEF InfoInv

\* Whoever asks for the info of the connection the shell is on, or turns to,
\* leaves a cache of that connection.
LEMMA FetchInfoInv ==
  ASSUME Info!ConnectionAssumption, InfoInv, NEW c \in Conns, Info!FetchInfo(c), current' = c
  PROVE  /\ cache' \in [for : Conns, info : Conns \cup Fetches \cup {Info!NoInfo}]
         /\ fetch' \in [Fetches -> Conns \cup {Info!NoConn}] /\ crossed' \in BOOLEAN
         /\ Info!CacheOfCurrent'
  <1> USE DEF Info!ConnectionAssumption
  <1>1. CASE Info!Known(c)
    BY <1>1 DEF Info!FetchInfo, Info!Known, Info!infoVars, InfoInv, Info!TypeOK,
       Info!CacheOfCurrent, Info!cachedConnectionInfo
  <1>2. CASE ~Info!Known(c)
    <2>1. PICK f \in Fetches :
            /\ fetch' = [fetch EXCEPT ![f] = c] /\ cache' = [for |-> c, info |-> f]
            /\ crossed' = crossed
      BY <1>2 DEF Info!FetchInfo
    <2>2. fetch' \in [Fetches -> Conns \cup {Info!NoConn}] /\ fetch'[f] = c
      BY <2>1 DEF InfoInv, Info!TypeOK
    <2>3. f \notin Conns
      BY DEF Info!ConnectionAssumption
    <2> QED
      BY <2>1, <2>2, <2>3
      DEF InfoInv, Info!TypeOK, Info!CacheOfCurrent, Info!cachedConnectionInfo
  <1> QED
    BY <1>1, <1>2

\* A fetch ends, for whichever connection it was.
LEMMA SettledInv ==
  ASSUME Info!ConnectionAssumption, InfoInv, NEW f \in Fetches,
         Info!Fetched(f) \/ Info!FetchFails(f)
  PROVE  InfoInv'
  <1>1. PICK info \in Conns \cup {Info!NoInfo} :
          /\ info \in {fetch[f], Info!NoInfo}
          /\ cache' = IF cache.info = f THEN [cache EXCEPT !.info = info] ELSE cache
          /\ fetch' = [fetch EXCEPT ![f] = Info!NoConn]
          /\ UNCHANGED << current, catalog, names, list >> /\ crossed' \in BOOLEAN
    <2>1. fetch[f] \in Conns
      BY DEF Info!Fetched, Info!FetchFails, InfoInv, Info!TypeOK
    <2>2. CASE Info!Fetched(f)
      BY <2>1, <2>2 DEF Info!Fetched, Info!Kept, Info!listVars, InfoInv, Info!TypeOK
    <2>3. CASE Info!FetchFails(f)
      BY <2>3 DEF Info!FetchFails, Info!Kept, Info!listVars, InfoInv, Info!TypeOK
    <2> QED
      BY <2>2, <2>3
  <1>2. cache \in [for : Conns, info : Conns \cup Fetches \cup {Info!NoInfo}]
    BY DEF InfoInv, Info!TypeOK
  <1>3. cache' = IF cache.info = f THEN [for |-> cache.for, info |-> info] ELSE cache
    BY <1>1, <1>2
  <1>4. fetch' \in [Fetches -> Conns \cup {Info!NoConn}]
        /\ \A g \in Fetches : g # f => fetch'[g] = fetch[g]
    BY <1>1 DEF InfoInv, Info!TypeOK
  <1>5. Info!TypeOK'
    BY <1>1, <1>2, <1>3, <1>4 DEF InfoInv, Info!TypeOK
  <1>6. ListInv'
    BY <1>1 DEF InfoInv, ListInv
  <1>7. Info!CacheOfCurrent'
    BY <1>1, <1>2, <1>3, <1>4
    DEF InfoInv, Info!CacheOfCurrent, Info!cachedConnectionInfo, Info!ConnectionAssumption
  <1> QED
    BY <1>5, <1>6, <1>7 DEF InfoInv

\* A listing is asked for, answered, arrives or fails.
LEMMA ListingInv ==
  ASSUME Info!ConnectionAssumption, InfoInv, NEW l \in Lists,
         Info!Complete(l) \/ Info!Serve(l) \/ Info!Arrive(l) \/ Info!ListFails(l)
  PROVE  InfoInv'
  <1>1. list[l] \in [at : {"idle", "asked", "served"}, conn : Conns \cup {Info!NoConn},
                     ver : 0 .. MaxVersion]
    BY DEF InfoInv, Info!TypeOK
  <1>2. UNCHANGED << current, cache, fetch, crossed, catalog >>
    BY DEF Info!Complete, Info!Serve, Info!Arrive, Info!ListFails, Info!infoVars
  <1>3. names' \in [Conns -> 0 .. MaxVersion]
    BY <1>1 DEF InfoInv, Info!TypeOK, Info!Complete, Info!Serve, Info!Arrive, Info!ListFails,
       Info!Remembered
  <1>4. PICK r \in [at : {"idle", "asked", "served"}, conn : Conns \cup {Info!NoConn},
                    ver : 0 .. MaxVersion] :
          list' = [list EXCEPT ![l] = r] /\ (r.at # "idle" => r.conn \in Conns)
    <2>1. CASE Info!Complete(l)
      <3> DEFINE r == [at |-> "asked", conn |-> current, ver |-> 0]
      <3>1. list' = [list EXCEPT ![l] = r] /\ current \in Conns
        BY <2>1 DEF Info!Complete, Info!Listing, InfoInv, Info!TypeOK
      <3>2. r \in [at : {"idle", "asked", "served"}, conn : Conns \cup {Info!NoConn},
                   ver : 0 .. MaxVersion]
            /\ r.conn \in Conns
        BY <3>1 DEF Info!ConnectionAssumption
      <3> HIDE DEF r
      <3> QED
        BY <3>1, <3>2
    <2>2. CASE Info!Serve(l)
      <3>1. list[l].conn \in Conns /\ catalog[list[l].conn] \in 0 .. MaxVersion
        BY <2>2 DEF Info!Serve, InfoInv, ListInv, Info!TypeOK
      <3> DEFINE r == [at |-> "served", conn |-> list[l].conn, ver |-> catalog[list[l].conn]]
      <3>2. list' = [list EXCEPT ![l] = r]
        <4> DEFINE q == [list[l] EXCEPT !.at = "served"]
        <4>1. q = [at |-> "served", conn |-> list[l].conn, ver |-> list[l].ver]
          BY <1>1
        <4>2. list' = [list EXCEPT ![l] = [q EXCEPT !.ver = catalog[list[l].conn]]]
          BY <2>2 DEF Info!Serve, InfoInv, Info!TypeOK
        <4>3. [[at |-> "served", conn |-> list[l].conn, ver |-> list[l].ver]
                 EXCEPT !.ver = catalog[list[l].conn]] = r
          OBVIOUS
        <4> QED
          BY <4>1, <4>2, <4>3
      <3>3. r \in [at : {"idle", "asked", "served"}, conn : Conns \cup {Info!NoConn},
                   ver : 0 .. MaxVersion]
            /\ r.conn \in Conns
        BY <3>1
      <3> HIDE DEF r
      <3> QED
        BY <3>2, <3>3
    <2>3. CASE Info!Arrive(l) \/ Info!ListFails(l)
      BY <2>3, IdleIs DEF Info!Arrive, Info!ListFails
    <2> QED
      BY <2>1, <2>2, <2>3
  <1>5. Info!TypeOK'
    BY <1>2, <1>3, <1>4 DEF InfoInv, Info!TypeOK
  <1>6. ListInv'
    BY <1>4 DEF InfoInv, ListInv, Info!TypeOK
  <1>7. Info!CacheOfCurrent'
    BY <1>2 DEF InfoInv, Info!CacheOfCurrent, Info!cachedConnectionInfo
  <1> QED
    BY <1>5, <1>6, <1>7 DEF InfoInv

\* The user asks, switches to another connection; another client creates a
\* collection.
LEMMA SwitchInv ==
  ASSUME Info!ConnectionAssumption, InfoInv,
         Info!Ask \/ \E c \in Conns : Info!SetDb(c) \/ Info!Create(c)
  PROVE  InfoInv'
  <1>1. CASE Info!Ask
    <2>1. current \in Conns /\ Info!FetchInfo(current)
          /\ UNCHANGED << current, catalog, names, list >>
      BY <1>1 DEF Info!Ask, Info!listVars, InfoInv, Info!TypeOK
    <2> QED
      BY <2>1, FetchInfoInv DEF InfoInv, Info!TypeOK, ListInv
  <1>2. ASSUME NEW c \in Conns, Info!SetDb(c) PROVE InfoInv'
    <2>1. current' = c /\ Info!FetchInfo(c) /\ UNCHANGED << catalog, names >>
      BY <1>2 DEF Info!SetDb
    <2>2. PICK l \in Lists :
            list' = [list EXCEPT ![l] = [at |-> "asked", conn |-> c, ver |-> 0]]
      BY <1>2 DEF Info!SetDb, Info!Listing
    <2>3. list' \in [Lists -> [at : {"idle", "asked", "served"}, conn : Conns \cup {Info!NoConn},
                               ver : 0 .. MaxVersion]]
          /\ ListInv'
      BY <2>2 DEF InfoInv, Info!TypeOK, ListInv, Info!ConnectionAssumption
    <2> QED
      BY <2>1, <2>3, FetchInfoInv DEF InfoInv, Info!TypeOK
  <1>3. ASSUME NEW c \in Conns, Info!Create(c) PROVE InfoInv'
    <2>1. catalog' \in [Conns -> 0 .. MaxVersion]
      BY <1>3 DEF Info!Create, InfoInv, Info!TypeOK, Info!ConnectionAssumption
    <2> QED
      BY <1>3, <2>1 DEF Info!Create, Info!infoVars, InfoInv, Info!TypeOK, ListInv,
         Info!CacheOfCurrent, Info!cachedConnectionInfo
  <1> QED
    BY <1>1, <1>2, <1>3

\* Every step preserves the inductive invariant.
LEMMA InfoNext ==
  Info!ConnectionAssumption /\ InfoInv /\ [Info!Next]_Info!vars => InfoInv'
  <1> SUFFICES ASSUME Info!ConnectionAssumption, InfoInv, [Info!Next]_Info!vars PROVE InfoInv'
    OBVIOUS
  <1>1. CASE UNCHANGED Info!vars
    BY <1>1 DEF Info!vars, InfoInv, Info!TypeOK, ListInv, Info!CacheOfCurrent,
       Info!cachedConnectionInfo
  <1>2. CASE Info!Next
    BY <1>2, SettledInv, ListingInv, SwitchInv DEF Info!Next
  <1> QED
    BY <1>1, <1>2

\* Names only change by a listing that arrives, for what it was asked for.
LEMMA NamesStep ==
  ASSUME InfoInv, [Info!Next]_Info!vars
  PROVE  \A c \in Conns : names'[c] # names[c] =>
           \E l \in Lists : list[l].at = "served" /\ list[l].conn = c /\ names'[c] = list[l].ver
  <1>1. CASE \E l \in Lists : Info!Arrive(l)
    BY <1>1 DEF Info!Arrive, Info!Remembered, InfoInv, Info!TypeOK
  <1>2. CASE ~ \E l \in Lists : Info!Arrive(l)
    <2>1. names' = names
      BY <1>2 DEF Info!Next, Info!vars, Info!Ask, Info!SetDb, Info!Create, Info!Fetched,
         Info!FetchFails, Info!Complete, Info!Serve, Info!ListFails, Info!listVars
    <2> QED
      BY <2>1
  <1> QED
    BY <1>1, <1>2

\* The inductive invariant holds in every reachable state.
LEMMA InfoInvCorrect ==
  ASSUME Info!ConnectionAssumption
  PROVE  Info!Spec => []InfoInv
  <1>1. Info!Init => InfoInv
    BY InfoInit
  <1>2. InfoInv /\ [Info!Next]_Info!vars => InfoInv'
    BY InfoNext
  <1> QED
    BY <1>1, <1>2, PTL DEF Info!Spec

\* The variables of ConnectionInfo have their types.
THEOREM ConnectionTypeCorrect ==
  ASSUME Info!ConnectionAssumption
  PROVE  Info!Spec => []Info!TypeOK
  <1>1. InfoInv => Info!TypeOK
    BY DEF InfoInv
  <1> QED
    BY <1>1, InfoInvCorrect, PTL

\* The cached info is of the connection the shell is on, and names are only
\* remembered for the database they were listed for, in whatever order the
\* fetches and listings of any number of connections end
\* (shell-instance-state.ts:291-312, 329-335; database.ts:281-292, 313-335).
THEOREM CachesOfOwnCorrect ==
  ASSUME Info!ConnectionAssumption
  PROVE  Info!Spec => CachesOfOwn
  <1>1. InfoInv => Info!CacheOfCurrent
    BY DEF InfoInv
  <1>2. InfoInv /\ [Info!Next]_Info!vars =>
          [\A c \in Conns : names'[c] # names[c] =>
             \E l \in Lists : list[l].at = "served" /\ list[l].conn = c
                              /\ names'[c] = list[l].ver]_Info!vars
    BY NamesStep
  <1>3. Info!Spec => []InfoInv /\ [][Info!Next]_Info!vars
    BY InfoInvCorrect, PTL DEF Info!Spec
  <1> QED
    BY <1>1, <1>2, <1>3, PTL DEF CachesOfOwn, Info!CachesOfOwn, Info!NamesOfOwn
=============================================================================
