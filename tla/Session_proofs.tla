----------------------- MODULE Session_proofs -------------------------------
(***************************************************************************)
(* Proofs about what a session is made of.  For all chunks, calls, events  *)
(* and evaluations, and sessions of any length:                            *)
(*                                                                         *)
(*  - a line from the queue never reaches a REPL that evaluates another    *)
(*    one, but in two cases that have to do with .editor, and the input    *)
(*    stream implements LineGate, which says that the                      *)
(*    characters arrive in order, each once, and nothing after the end of  *)
(*    a line until the reader asks (LineByLineInput);                      *)
(*  - a call leaves the flag of interrupts, its wrapper and its override   *)
(*    as it found them, however it ends (InterruptFlag);                   *)
(*  - the log and the telemetry are what was pushed to the bus, in order,  *)
(*    apart from what is still in the buffers (LoggingAndTelemetry);       *)
(*  - evaluations that nest put every listener back once (AsyncRepl).      *)
(*                                                                         *)
(* Queues, buffers and lists of listeners are filtered, and a queue of     *)
(* chunks is flattened.  Both are folds, which are defined with recursive  *)
(* functions; what holds of all values of such a function is shown by      *)
(* looking at the least number for which it does not.                      *)
(***************************************************************************)
EXTENDS Session, SequenceTheorems, FiniteSetTheorems, WellFoundedInduction, TLAPS

-----------------------------------------------------------------------------
(* Sequences of sequences, one after the other.                            *)

\* A set of natural numbers has a least element.
LEMMA Least ==
  ASSUME NEW T, T \subseteq Nat, T # {}
  PROVE  \E x \in T : \A y \in T : ~(y < x)
  <1>1. \E x \in T : \A y \in T : ~(<< y, x >> \in OpToRel(<, Nat))
    BY NatLessThanWellFounded, WFMin
  <1> QED
    BY <1>1 DEF OpToRel

\* What FlattenSeq computes for the first i sequences.
Flattened(g, f, n) ==
  f = [i \in 1 .. n |-> IF i = 1 THEN g[i] ELSE f[i - 1] \o g[i]]

\* It can be computed for any number of them.
LEMMA FlattenedExists ==
  ASSUME NEW Q, NEW g \in Seq(Q), NEW n \in 1 .. Len(g)
  PROVE  \E f : Flattened(g, f, n)
  <1> DEFINE T == { m \in 1 .. Len(g) : ~ \E f : Flattened(g, f, m) }
  <1> SUFFICES ASSUME T # {} PROVE FALSE
    OBVIOUS
  <1>1. Len(g) \in Nat /\ T \subseteq Nat
    BY LenProperties
  <1>2. PICK m \in T : \A k \in T : ~(k < m)
    BY <1>1, Least
  <1> HIDE DEF T
  <1>3. m \in 1 .. Len(g) /\ ~ \E f : Flattened(g, f, m)
    BY <1>2 DEF T
  <1>4. CASE m = 1
    <2>1. Flattened(g, [i \in 1 .. 1 |-> g[i]], 1)
      BY DEF Flattened
    <2> QED
      BY <1>3, <1>4, <2>1
  <1>5. CASE m # 1
    <2>1. m - 1 \in 1 .. Len(g) /\ m - 1 < m
      BY <1>1, <1>3, <1>5
    <2>2. PICK f : Flattened(g, f, m - 1)
      BY <1>2, <2>1 DEF T
    <2> DEFINE h == [i \in 1 .. m |-> IF i = m THEN f[m - 1] \o g[m] ELSE f[i]]
    <2>3. \A i \in 1 .. m : h[i] = IF i = 1 THEN g[i] ELSE h[i - 1] \o g[i]
      <3> SUFFICES ASSUME NEW i \in 1 .. m
                   PROVE  h[i] = IF i = 1 THEN g[i] ELSE h[i - 1] \o g[i]
        OBVIOUS
      <3>1. CASE i = m
        <4>1. m - 1 \in 1 .. m /\ m - 1 # m
          BY <1>1, <2>1
        <4>2. h[m] = f[m - 1] \o g[m] /\ h[m - 1] = f[m - 1]
          BY <3>1, <4>1
        <4> QED
          BY <1>5, <3>1, <4>2
      <3>2. CASE i # m
        <4>1. i \in 1 .. m - 1 /\ (i # 1 => i - 1 \in 1 .. m /\ i - 1 # m)
          BY <1>1, <1>3, <3>2
        <4>2. f[i] = IF i = 1 THEN g[i] ELSE f[i - 1] \o g[i]
          BY <2>2, <4>1 DEF Flattened
        <4> QED
          BY <3>2, <4>1, <4>2
      <3> QED
        BY <3>1, <3>2
    <2>4. h = [i \in 1 .. m |-> h[i]]
      OBVIOUS
    <2> HIDE DEF h
    <2>5. Flattened(g, h, m)
      BY <2>3, <2>4 DEF Flattened
    <2> QED
      BY <1>3, <2>5
  <1> QED
    BY <1>4, <1>5

\* FlattenSeq is the last of what it computes.
LEMMA FlattenIs ==
  ASSUME NEW Q, NEW g \in Seq(Q), g # << >>
  PROVE  \E f : Flattened(g, f, Len(g)) /\ FlattenSeq(g) = f[Len(g)]
  <1>1. Len(g) \in Nat /\ Len(g) # 0 /\ Len(g) \in 1 .. Len(g)
    BY LenProperties, EmptySeq
  <1> DEFINE F == CHOOSE f : f = [i \in 1 .. Len(g) |-> IF i = 1 THEN g[i] ELSE f[i - 1] \o g[i]]
  <1>2. \E f : f = [i \in 1 .. Len(g) |-> IF i = 1 THEN g[i] ELSE f[i - 1] \o g[i]]
    <2>1. PICK f : Flattened(g, f, Len(g))
      BY ONLY <1>1, FlattenedExists, ZenonT(60)
    <2>2. f = [i \in 1 .. Len(g) |-> IF i = 1 THEN g[i] ELSE f[i - 1] \o g[i]]
      BY ONLY <2>1 DEF Flattened
    <2> QED
      BY ONLY <2>2
  <1>3. F = [i \in 1 .. Len(g) |-> IF i = 1 THEN g[i] ELSE F[i - 1] \o g[i]]
    BY ONLY <1>2, Zenon
  <1>4. FlattenSeq(g) = F[Len(g)]
    BY <1>1 DEF FlattenSeq
  <1> HIDE DEF F
  <1> QED
    BY <1>3, <1>4 DEF Flattened

\* The members of Q are sequences of members of S.
AreSequences(Q, S) == Q \subseteq Seq(S)

\* So each of them is one.
LEMMA IsSequence ==
  ASSUME NEW S, NEW Q, AreSequences(Q, S), NEW x \in Q
  PROVE  x \in Seq(S)
  BY DEF AreSequences

\* Each is what was computed for the one before, and its sequence.
LEMMA FlattenedStep ==
  ASSUME NEW g, NEW f, NEW n \in Nat, Flattened(g, f, n), NEW i \in 1 .. n
  PROVE  f[i] = IF i = 1 THEN g[i] ELSE f[i - 1] \o g[i]
  BY DEF Flattened

\* But for the first.
LEMMA FlattenedNext ==
  ASSUME NEW g, NEW f, NEW n \in Nat, Flattened(g, f, n), NEW i \in 1 .. n, i # 1
  PROVE  f[i] = f[i - 1] \o g[i]
  BY FlattenedStep

\* It depends on the sequences up to the i-th only.
LEMMA FlattenedAgree ==
  ASSUME NEW g, NEW h, NEW f, NEW e, NEW m \in Nat, NEW n \in Nat,
         Flattened(g, f, m), Flattened(h, e, n),
         NEW k \in Nat, k <= m, k <= n, \A i \in 1 .. k : g[i] = h[i]
  PROVE  \A i \in 1 .. k : f[i] = e[i]
  <1> DEFINE T == { i \in 1 .. k : f[i] # e[i] }
  <1> SUFFICES ASSUME T # {} PROVE FALSE
    OBVIOUS
  <1>0. T \subseteq Nat
    OBVIOUS
  <1>1. \E i \in T : \A j \in T : ~(j < i)
    <2> HIDE DEF T
    <2> QED
      BY <1>0, Least
  <1>5. PICK i \in T : \A j \in T : ~(j < i)
    BY <1>1
  <1>2. i \in 1 .. k /\ i \in 1 .. m /\ i \in 1 .. n /\ f[i] # e[i]
    OBVIOUS
  <1>3. CASE i = 1
    BY <1>2, <1>3 DEF Flattened
  <1>4. CASE i # 1
    <2>1. i - 1 \in 1 .. k /\ i - 1 < i
      BY <1>2, <1>4
    <2>2. f[i - 1] = e[i - 1]
      BY <1>5, <2>1, SMTT(60)
    <2>3. f[i] = f[i - 1] \o g[i] /\ e[i] = e[i - 1] \o h[i]
      BY <1>2, <1>4, Zenon DEF Flattened
    <2> QED
      BY <1>2, <2>2, <2>3
  <1> QED
    BY <1>3, <1>4

\* It is a sequence.
LEMMA FlattenedType ==
  ASSUME NEW S, NEW Q, AreSequences(Q, S), NEW g \in Seq(Q), NEW f, Flattened(g, f, Len(g))
  PROVE  \A i \in 1 .. Len(g) : f[i] \in Seq(S)
  <1> DEFINE T == { i \in 1 .. Len(g) : f[i] \notin Seq(S) }
  <1> SUFFICES ASSUME T # {} PROVE FALSE
    OBVIOUS
  <1>0. Len(g) \in Nat /\ \A i \in 1 .. Len(g) : g[i] \in Seq(S)
    <2>1. Len(g) \in Nat /\ \A i \in 1 .. Len(g) : g[i] \in Q
      BY ElementOfSeq, LenProperties
    <2> QED
      BY <2>1, IsSequence
  <1>5. T \subseteq Nat
    BY <1>0
  <1>6. \E i \in T : \A j \in T : ~(j < i)
    <2> HIDE DEF T
    <2> QED
      BY <1>5, Least
  <1>1. PICK i \in T : \A j \in T : ~(j < i)
    BY <1>6
  <1>2. i \in 1 .. Len(g) /\ f[i] \notin Seq(S)
    OBVIOUS
  <1>3. CASE i = 1
    BY <1>0, <1>2, <1>3 DEF Flattened
  <1>4. CASE i # 1
    <2>1. i - 1 \in 1 .. Len(g) /\ i - 1 < i
      BY <1>0, <1>2, <1>4
    <2>2. f[i - 1] \in Seq(S)
      BY <1>1, <2>1
    <2>3. f[i] = f[i - 1] \o g[i]
      BY <1>2, <1>4 DEF Flattened
    <2> QED
      BY <1>0, <1>2, <2>2, <2>3, ConcatProperties
  <1> QED
    BY <1>3, <1>4

\* Nothing, one after the other, is nothing.
LEMMA FlattenNone == FlattenSeq(<< >>) = << >>
  BY DEF FlattenSeq

\* Sequences, one after the other, are a sequence.
LEMMA FlattenType ==
  ASSUME NEW S, NEW Q, AreSequences(Q, S), NEW g \in Seq(Q)
  PROVE  FlattenSeq(g) \in Seq(S)
  <1>1. CASE g = << >>
    <2>1. << >> \in Seq(S)
      BY EmptySeq
    <2> QED
      BY <1>1, <2>1, FlattenNone
  <1>2. CASE g # << >>
    <2>1. PICK f : Flattened(g, f, Len(g)) /\ FlattenSeq(g) = f[Len(g)]
      BY <1>2, FlattenIs
    <2>2. Len(g) \in 1 .. Len(g)
      BY <1>2, LenProperties, EmptySeq
    <2> QED
      BY <2>1, <2>2, FlattenedType
  <1> QED
    BY <1>1, <1>2

\* One sequence more comes last.
LEMMA FlattenAppend ==
  ASSUME NEW S, NEW Q, AreSequences(Q, S), NEW g \in Seq(Q), NEW x \in Q
  PROVE  FlattenSeq(Append(g, x)) = FlattenSeq(g) \o x
  <1>0. PICK h : h = Append(g, x)
    OBVIOUS
  <1>9. SUFFICES FlattenSeq(h) = FlattenSeq(g) \o x
    BY <1>0
  <1>1. /\ h \in Seq(Q) /\ h # << >> /\ Len(g) \in Nat /\ Len(h) = Len(g) + 1
        /\ \A i \in 1 .. Len(g) : h[i] = g[i]
        /\ h[Len(g) + 1] = x
    BY <1>0, AppendProperties
  <1>2. PICK e : Flattened(h, e, Len(h)) /\ FlattenSeq(h) = e[Len(h)]
    BY <1>1, FlattenIs
  <1>3. CASE g = << >>
    <2>1. Len(h) = 1 /\ h[1] = x
      BY <1>1, <1>3
    <2>2. FlattenSeq(h) = x
      BY <1>2, <2>1 DEF Flattened
    <2>3. << >> \o x = x
      BY IsSequence, ConcatEmptySeq
    <2> QED
      BY <1>3, <2>2, <2>3, FlattenNone
  <1>4. CASE g # << >>
    <2>1. PICK f : Flattened(g, f, Len(g)) /\ FlattenSeq(g) = f[Len(g)]
      BY <1>4, FlattenIs
    <2>2. Len(g) \in 1 .. Len(g)
      BY <1>4, LenProperties, EmptySeq
    <2>8. PICK n : n = Len(g)
      OBVIOUS
    <2>9. PICK m : m = Len(h)
      OBVIOUS
    <2>5. n \in Nat /\ m \in Nat /\ n <= m /\ n <= n
      BY <1>1, <2>8, <2>9
    <2>10. PICK a : a = g
      OBVIOUS
    <2>6. Flattened(h, e, m) /\ Flattened(a, f, n) /\ \A i \in 1 .. n : h[i] = a[i]
      BY <1>1, <1>2, <2>1, <2>8, <2>9, <2>10
    <2>7. \A i \in 1 .. n : e[i] = f[i]
      BY <2>5, <2>6, FlattenedAgree, SMTT(60)
    <2>3. e[Len(g)] = f[Len(g)]
      BY <2>2, <2>7, <2>8
    <2>4. e[Len(h)] = e[Len(g)] \o x
      <3>1. Len(h) \in 1 .. Len(h) /\ Len(h) # 1 /\ Len(h) - 1 = Len(g)
        BY <1>1, <2>2
      <3>2. m \in 1 .. m /\ m # 1
        BY <2>9, <3>1
      <3>3. e[m] = e[m - 1] \o h[m]
        BY ONLY <2>5, <2>6, <3>2, FlattenedNext
      <3>4. e[Len(h)] = e[Len(h) - 1] \o h[Len(h)]
        BY ONLY <2>9, <3>3
      <3> QED
        BY <1>1, <3>1, <3>4
    <2> QED
      BY <1>2, <2>1, <2>3, <2>4
  <1> QED
    BY <1>3, <1>4

\* The first sequence comes first.
LEMMA FlattenHead ==
  ASSUME NEW S, NEW Q, AreSequences(Q, S), NEW g \in Seq(Q), g # << >>
  PROVE  FlattenSeq(g) = Head(g) \o FlattenSeq(Tail(g))
  <1>0. PICK h : h = Tail(g)
    OBVIOUS
  <1>9. SUFFICES FlattenSeq(g) = Head(g) \o FlattenSeq(h)
    BY <1>0
  <1>1. /\ h \in Seq(Q) /\ Len(h) \in Nat /\ Len(g) = Len(h) + 1
        /\ \A i \in 1 .. Len(h) : h[i] = g[i + 1]
        /\ Head(g) = g[1] /\ g[1] \in Seq(S)
    <2>1. /\ h \in Seq(Q) /\ Len(h) \in Nat /\ Len(g) = Len(h) + 1
          /\ \A i \in 1 .. Len(h) : h[i] = g[i + 1]
          /\ Head(g) = g[1] /\ g[1] \in Q
      BY <1>0, HeadTailProperties, ElementOfSeq
    <2> QED
      BY <2>1, IsSequence
  <1>2. PICK f : Flattened(g, f, Len(g)) /\ FlattenSeq(g) = f[Len(g)]
    BY FlattenIs
  <1>3. f[1] = Head(g)
    BY <1>1, <1>2 DEF Flattened
  <1>4. CASE h = << >>
    <2>1. Len(g) = 1
      <3>1. Len(<< >>) = 0
        OBVIOUS
      <3> QED
        BY <1>1, <1>4, <3>1
    <2>2. FlattenSeq(g) = Head(g)
      BY <1>2, <1>3, <2>1
    <2>3. FlattenSeq(h) = << >>
      BY <1>4, FlattenNone
    <2>4. Head(g) \o << >> = Head(g)
      BY <1>1, ConcatEmptySeq
    <2> QED
      BY <2>2, <2>3, <2>4
  <1>5. CASE h # << >>
    <2>1. PICK e : Flattened(h, e, Len(h)) /\ FlattenSeq(h) = e[Len(h)]
      BY <1>1, <1>5, FlattenIs
    <2>2. Len(h) \in 1 .. Len(h)
      BY <1>1, <1>5, EmptySeq
    <2>5. PICK n : n = Len(h)
      OBVIOUS
    <2>6. PICK w : w = Head(g)
      OBVIOUS
    <2> DEFINE T == { i \in 1 .. n : f[i + 1] # w \o e[i] }
    <2>7. n \in Nat /\ Len(g) = n + 1
      BY <1>1, <2>5
    <2>3. T = {}
      <3> SUFFICES ASSUME T # {} PROVE FALSE
        OBVIOUS
      <3>6. T \subseteq Nat
        BY <2>7
      <3>7. \E i \in T : \A j \in T : ~(j < i)
        <4> HIDE DEF T
        <4> QED
          BY <3>6, Least
      <3>1. PICK i \in T : \A j \in T : ~(j < i)
        BY <3>7
      <3>2. i \in 1 .. n /\ f[i + 1] # w \o e[i]
        OBVIOUS
      <3>9. \A j \in 1 .. n : j \in T \/ f[j + 1] = w \o e[j]
        OBVIOUS
      <3> HIDE DEF T
      <3>3. f[i + 1] = f[i] \o h[i] /\ h[i] \in Seq(S)
        <4>3. i + 1 \in 1 .. Len(g) /\ i + 1 # 1 /\ Len(g) \in Nat /\ (i + 1) - 1 = i
          BY <2>7, <3>2
        <4>4. PICK j : j = i + 1
          OBVIOUS
        <4>5. PICK m : m = Len(g)
          OBVIOUS
        <4>6. j \in 1 .. m /\ j # 1 /\ m \in Nat /\ j - 1 = i /\ Flattened(g, f, m)
          BY <1>2, <4>3, <4>4, <4>5
        <4>1. f[j] = f[j - 1] \o g[j]
          BY ONLY <4>6, FlattenedNext
        <4>2. h[i] = g[j] /\ h[i] \in Q
          BY <1>1, <2>5, <3>2, <4>4, ElementOfSeq
        <4>7. h[i] \in Seq(S)
          BY <4>2, IsSequence
        <4> QED
          BY <4>1, <4>2, <4>4, <4>6, <4>7
      <3>4. CASE i = 1
        <4>1. e[1] = h[1]
          BY <2>1, <2>2, <2>5, <2>7, <3>2, <3>4, FlattenedStep
        <4> QED
          BY <1>3, <2>6, <3>2, <3>3, <3>4, <4>1
      <3>5. CASE i # 1
        <4>1. i - 1 \in 1 .. n /\ i - 1 < i /\ (i - 1) + 1 = i
          BY <2>7, <3>2, <3>5
        <4>2. f[i] = w \o e[i - 1]
          BY <3>1, <3>9, <4>1
        <4>3. e[i] = e[i - 1] \o h[i]
          BY ONLY <2>1, <2>5, <2>7, <3>2, <3>5, FlattenedNext
        <4>4. e[i - 1] \in Seq(S)
          BY <1>1, <2>1, <2>5, <4>1, FlattenedType
        <4>5. (w \o e[i - 1]) \o h[i] = w \o (e[i - 1] \o h[i])
          <5>1. w \in Seq(S)
            BY <1>1, <2>6
          <5>2. PICK y, z : y = e[i - 1] /\ z = h[i]
            OBVIOUS
          <5>3. y \in Seq(S) /\ z \in Seq(S)
            BY <3>3, <4>4, <5>2
          <5>4. (w \o y) \o z = w \o (y \o z)
            BY <5>1, <5>3, ConcatAssociative, SMTT(60)
          <5> QED
            BY <5>2, <5>4
        <4> QED
          BY <3>2, <3>3, <4>2, <4>3, <4>5
      <3> QED
        BY <3>4, <3>5
    <2>4. f[Len(h) + 1] = Head(g) \o e[Len(h)]
      BY <2>2, <2>3, <2>5, <2>6
    <2> QED
      BY <1>1, <1>2, <2>1, <2>4
  <1> QED
    BY <1>4, <1>5

\* More at the end of the last sequence is more at the end.
LEMMA FlattenLast ==
  ASSUME NEW S, NEW Q, AreSequences(Q, S), NEW g \in Seq(Q), g # << >>, NEW c \in S
  PROVE  FlattenSeq([g EXCEPT ![Len(g)] = Append(@, c)]) = FlattenSeq(g) \o << c >>
  <1>0. PICK h : h = [g EXCEPT ![Len(g)] = Append(@, c)]
    OBVIOUS
  <1>9. SUFFICES FlattenSeq(h) = FlattenSeq(g) \o << c >>
    BY <1>0
  <1>1. Len(g) \in Nat /\ Len(g) \in 1 .. Len(g) /\ \A i \in 1 .. Len(g) : g[i] \in Seq(S)
    <2>1. Len(g) \in Nat /\ Len(g) \in 1 .. Len(g) /\ \A i \in 1 .. Len(g) : g[i] \in Q
      BY ElementOfSeq, LenProperties, EmptySeq
    <2> QED
      BY <2>1, IsSequence
  <1>8. PICK R : R = Q \cup { Append(g[Len(g)], c) }
    OBVIOUS
  <1>2. Append(g[Len(g)], c) = g[Len(g)] \o << c >> /\ Append(g[Len(g)], c) \in Seq(S)
        /\ << c >> \in Seq(S)
    BY <1>1, AppendIsConcat, AppendProperties
  <1>3. /\ h \in Seq(R) /\ h # << >> /\ Len(h) = Len(g)
        /\ \A i \in 1 .. Len(g) : h[i] = IF i = Len(g) THEN g[i] \o << c >> ELSE g[i]
    <2>1. h = [g EXCEPT ![Len(g)] = Append(g[Len(g)], c)]
      BY <1>0
    <2>2. h \in Seq(R) /\ Len(h) = Len(g)
      <3>1. g \in Seq(R)
        BY <1>1, <1>8, SeqDef
      <3>2. Append(g[Len(g)], c) \in R
        BY <1>8
      <3> QED
        BY <1>1, <2>1, <3>1, <3>2, ExceptSeq
    <2>3. \A i \in 1 .. Len(g) : h[i] = IF i = Len(g) THEN g[i] \o << c >> ELSE g[i]
      BY <1>1, <1>2, <2>1
    <2> QED
      BY <1>1, <2>2, <2>3, EmptySeq
  <1>4. PICK f : Flattened(g, f, Len(g)) /\ FlattenSeq(g) = f[Len(g)]
    BY FlattenIs
  <1>5. PICK e : Flattened(h, e, Len(h)) /\ FlattenSeq(h) = e[Len(h)]
    BY <1>3, FlattenIs
  <1>6. CASE Len(g) = 1
    BY <1>1, <1>3, <1>4, <1>5, <1>6, SMTT(60) DEF Flattened
  <1>7. CASE Len(g) # 1
    <2>7. PICK k : k = Len(g) - 1
      OBVIOUS
    <2>1. k \in Nat /\ k \in 1 .. k /\ k \in 1 .. Len(g) /\ k <= Len(g)
          /\ \A i \in 1 .. k : i \in 1 .. Len(g) /\ i # Len(g)
      BY <1>1, <1>7, <2>7
    <2>2. \A i \in 1 .. k : h[i] = g[i]
      BY <1>3, <2>1
    <2>3. e[k] = f[k]
      <3>4. PICK n : n = Len(g)
        OBVIOUS
      <3>1. n \in Nat /\ k \in Nat /\ k <= n
        BY <1>1, <2>1, <3>4
      <3>5. PICK a : a = g
        OBVIOUS
      <3>2. Flattened(h, e, n) /\ Flattened(a, f, n) /\ \A i \in 1 .. k : h[i] = a[i]
        BY <1>3, <1>4, <1>5, <2>2, <3>4, <3>5
      <3>3. \A i \in 1 .. k : e[i] = f[i]
        BY <3>1, <3>2, FlattenedAgree, SMTT(60)
      <3> QED
        BY <2>1, <3>3
    <2>4. e[Len(g)] = e[k] \o (g[Len(g)] \o << c >>) /\ f[Len(g)] = f[k] \o g[Len(g)]
      <3>1. Flattened(h, e, Len(g)) /\ h[Len(g)] = g[Len(g)] \o << c >>
        BY <1>1, <1>3, <1>5
      <3>2. e[Len(g)] = e[Len(g) - 1] \o h[Len(g)]
        BY ONLY <1>1, <1>7, <3>1, FlattenedNext
      <3>3. f[Len(g)] = f[Len(g) - 1] \o g[Len(g)]
        BY ONLY <1>1, <1>4, <1>7, FlattenedNext
      <3> QED
        BY <2>7, <3>1, <3>2, <3>3
    <2>5. f[k] \in Seq(S)
      BY <1>4, <2>1, FlattenedType
    <2>6. f[k] \o (g[Len(g)] \o << c >>) = (f[k] \o g[Len(g)]) \o << c >>
      <3>1. g[Len(g)] \in Seq(S) /\ << c >> \in Seq(S)
        BY <1>1, <1>2
      <3>2. PICK x, y, z : x = f[k] /\ y = g[Len(g)] /\ z = << c >>
        OBVIOUS
      <3>3. x \in Seq(S) /\ y \in Seq(S) /\ z \in Seq(S)
        BY <2>5, <3>1, <3>2
      <3>4. x \o (y \o z) = (x \o y) \o z
        BY <3>3, ConcatAssociative, SMTT(60)
      <3> QED
        BY <3>2, <3>4
    <2> QED
      BY <1>3, <1>4, <1>5, <2>3, <2>4, <2>6
  <1> QED
    BY <1>6, <1>7

\* What comes first is a prefix.
LEMMA FirstIsPrefix ==
  ASSUME NEW S, NEW s \in Seq(S), NEW t \in Seq(S)
  PROVE  IsPrefix(s, s \o t) /\ SubSeq(s \o t, Len(s) + 1, Len(s \o t)) = t
  <1>1. Len(s) \in Nat /\ Len(t) \in Nat /\ Len(s \o t) = Len(s) + Len(t)
    BY LenProperties, ConcatProperties
  <1>2. SubSeq(s \o t, 1, Len(s)) = s /\ SubSeq(s \o t, Len(s) + 1, Len(s) + Len(t)) = t
    BY SubSeqOfConcat1, SubSeqOfConcat2
  <1>3. SubSeq(s, 1, Len(s)) = s
    BY SubSeqFull
  <1> QED
    BY <1>1, <1>2, <1>3 DEF IsPrefix


-----------------------------------------------------------------------------
(* The elements of a sequence that are in a set.                           *)

\* What holds of no elements, and of one element more, holds of every
\* sequence.
LEMMA ByAppending ==
  ASSUME NEW S, NEW P, << >> \in P,
         \A s \in Seq(S) : \A x \in S : s \in P => Append(s, x) \in P
  PROVE  Seq(S) \subseteq P
  <1> DEFINE T == { n \in Nat : \E s \in Seq(S) : s \notin P /\ Len(s) = n }
  <1>1. T = {}
    <2> SUFFICES ASSUME T # {} PROVE FALSE
      OBVIOUS
    <2>1. T \subseteq Nat
      OBVIOUS
    <2>2. \E n \in T : \A m \in T : ~(m < n)
      <3> HIDE DEF T
      <3> QED
        BY <2>1, Least
    <2>3. PICK n \in T : \A m \in T : ~(m < n)
      BY <2>2
    <2>4. PICK s \in Seq(S) : s \notin P /\ Len(s) = n
      OBVIOUS
    <2>5. s # << >>
      BY <2>4
    <2>6. PICK t \in Seq(S), x \in S : s = Append(t, x)
      BY <2>5, SequenceEmptyOrAppend
    <2>7. Len(t) \in Nat /\ Len(s) = Len(t) + 1
      BY <2>6, LenProperties, AppendProperties
    <2>8. t \notin P
      BY <2>4, <2>6
    <2>9. Len(t) \in T
      BY <2>7, <2>8
    <2>10. Len(t) < n
      BY <2>4, <2>7
    <2> QED
      BY <2>3, <2>9, <2>10
  <1>2. \A s \in Seq(S) : Len(s) \in Nat
    BY LenProperties
  <1> QED
    BY <1>1, <1>2

\* What may be kept of an element.
KeptSets(S) == { << >> } \cup { << x >> : x \in S }

\* They are sequences.
LEMMA KeptAreSequences ==
  ASSUME NEW S
  PROVE  AreSequences(KeptSets(S), S)
  <1>1. \A x \in S : << x >> \in Seq(S)
    OBVIOUS
  <1>2. << >> \in Seq(S)
    BY EmptySeq
  <1> QED
    BY <1>1, <1>2 DEF AreSequences, KeptSets

\* What is kept of an element is one of them.
LEMMA KeptType ==
  ASSUME NEW S, NEW T, NEW x \in S
  PROVE  KeptOf(x, T) \in KeptSets(S) /\ KeptOf(x, T) \in Seq(S)
  <1>1. KeptOf(x, T) \in KeptSets(S)
    BY DEF KeptSets, KeptOf
  <1> QED
    BY <1>1, KeptAreSequences, IsSequence

\* What Among computes for the first i elements.
Kept(s, T, f) ==
  f = [i \in 0 .. Len(s) |-> IF i = 0 THEN << >> ELSE f[i - 1] \o KeptOf(s[i], T)]

\* What is kept of the elements, one after the other.
LEMMA AmongFlat ==
  ASSUME NEW S, NEW T, NEW s \in Seq(S)
  PROVE  Among(s, T) = FlattenSeq([i \in DOMAIN s |-> KeptOf(s[i], T)])
  <1>1. PICK g : g = [i \in DOMAIN s |-> KeptOf(s[i], T)]
    OBVIOUS
  <1>2. PICK K : K = KeptSets(S)
    OBVIOUS
  <1>3. Len(s) \in Nat /\ DOMAIN s = 1 .. Len(s)
    BY LenProperties
  <1>4. \A i \in 1 .. Len(s) : KeptOf(s[i], T) \in K /\ KeptOf(s[i], T) \in Seq(S)
    BY <1>2, ElementOfSeq, KeptType
  <1>5. g \in Seq(K) /\ Len(g) = Len(s) /\ \A i \in 1 .. Len(s) : g[i] = KeptOf(s[i], T)
    BY <1>1, <1>3, <1>4
  <1> DEFINE F == CHOOSE f : Kept(s, T, f)
  <1>6. Among(s, T) = F[Len(s)]
    BY DEF Among, Kept
  <1>7. CASE s = << >>
    <2>1. Kept(s, T, [i \in 0 .. Len(s) |-> << >>])
      BY <1>7 DEF Kept
    <2>2. Kept(s, T, F)
      BY <2>1
    <2> HIDE DEF F
    <2>3. F[Len(s)] = << >>
      BY <1>7, <2>2 DEF Kept
    <2>4. g = << >>
      BY <1>1, <1>7
    <2> QED
      BY <1>1, <1>6, <2>3, <2>4, FlattenNone
  <1>8. CASE s # << >>
    <2>1. Len(s) # 0 /\ g # << >>
      BY <1>5, <1>8, EmptySeq
    <2>2. PICK e : Flattened(g, e, Len(g)) /\ FlattenSeq(g) = e[Len(g)]
      BY <1>5, <2>1, FlattenIs
    <2>3. PICK n : n = Len(s)
      OBVIOUS
    <2>4. n \in Nat /\ n # 0 /\ Flattened(g, e, n)
      BY <1>3, <1>5, <2>1, <2>2, <2>3
    <2>5. \A i \in 1 .. n : e[i] = IF i = 1 THEN KeptOf(s[i], T) ELSE e[i - 1] \o KeptOf(s[i], T)
      BY <1>5, <2>3, <2>4, FlattenedStep
    <2> DEFINE k == [i \in 0 .. n |-> IF i = 0 THEN << >> ELSE e[i]]
    <2>6. \A i \in 0 .. n : k[i] = IF i = 0 THEN << >> ELSE k[i - 1] \o KeptOf(s[i], T)
      <3> SUFFICES ASSUME NEW i \in 0 .. n, i # 0
                   PROVE  k[i] = k[i - 1] \o KeptOf(s[i], T)
        OBVIOUS
      <3>1. i \in 1 .. n /\ i - 1 \in 0 .. n /\ k[i] = e[i]
        BY <2>4
      <3>2. CASE i = 1
        <4>1. k[i - 1] = << >>
          BY <2>4, <3>2
        <4>2. << >> \o KeptOf(s[i], T) = KeptOf(s[i], T)
          BY <1>4, <2>3, <3>1, ConcatEmptySeq
        <4> QED
          BY <2>5, <3>1, <3>2, <4>1, <4>2
      <3>3. CASE i # 1
        <4>1. k[i - 1] = e[i - 1]
          BY <3>1, <3>3
        <4> QED
          BY <2>5, <3>1, <3>3, <4>1
      <3> QED
        BY <3>2, <3>3
    <2>7. k = [i \in 0 .. n |-> k[i]]
      OBVIOUS
    <2>8. k[n] = e[n]
      BY <2>4
    <2> HIDE DEF k
    <2>9. Kept(s, T, k)
      BY <2>3, <2>6, <2>7 DEF Kept
    <2>10. Kept(s, T, F)
      BY <2>9
    <2> HIDE DEF F
    <2>11. \A i \in 0 .. n : F[i] = IF i = 0 THEN << >> ELSE F[i - 1] \o KeptOf(s[i], T)
      BY <2>3, <2>10 DEF Kept
    <2> DEFINE D == { i \in 0 .. n : F[i] # k[i] }
    <2>12. D = {}
      <3> SUFFICES ASSUME D # {} PROVE FALSE
        OBVIOUS
      <3>1. D \subseteq Nat
        BY <2>4
      <3>2. \E i \in D : \A j \in D : ~(j < i)
        <4> HIDE DEF D
        <4> QED
          BY <3>1, Least
      <3>3. PICK i \in D : \A j \in D : ~(j < i)
        BY <3>2
      <3>4. i \in 0 .. n /\ F[i] # k[i]
        OBVIOUS
      <3>5. i # 0
        BY <2>6, <2>11, <3>4
      <3>6. i - 1 \in 0 .. n /\ i - 1 < i
        BY <2>4, <3>4, <3>5
      <3>7. F[i - 1] = k[i - 1]
        BY <3>3, <3>6
      <3> QED
        BY <2>6, <2>11, <3>4, <3>5, <3>7
    <2>13. F[n] = k[n]
      BY <2>4, <2>12
    <2> QED
      BY <1>1, <1>5, <1>6, <2>2, <2>3, <2>8, <2>13
  <1> QED
    BY <1>7, <1>8

\* Of nothing nothing is kept.
LEMMA AmongNone ==
  ASSUME NEW T
  PROVE  Among(<< >>, T) = << >>
  <1>1. Among(<< >>, T) = FlattenSeq([i \in DOMAIN << >> |-> KeptOf(<< >>[i], T)])
    BY EmptySeq, AmongFlat
  <1>2. [i \in DOMAIN << >> |-> KeptOf(<< >>[i], T)] = << >>
    OBVIOUS
  <1> QED
    BY <1>1, <1>2, FlattenNone
\* What is kept of a sequence is a sequence.
LEMMA AmongType ==
  ASSUME NEW S, NEW T, NEW s \in Seq(S)
  PROVE  Among(s, T) \in Seq(S)
  <1>1. [i \in DOMAIN s |-> KeptOf(s[i], T)] \in Seq(KeptSets(S))
    <2>1. Len(s) \in Nat /\ DOMAIN s = 1 .. Len(s)
      BY LenProperties
    <2>2. \A i \in 1 .. Len(s) : KeptOf(s[i], T) \in KeptSets(S)
      BY ElementOfSeq, KeptType
    <2> QED
      BY <2>1, <2>2, SeqDef
  <1> QED
    BY <1>1, KeptAreSequences, FlattenType, AmongFlat

\* The first is kept first.
LEMMA AmongHead ==
  ASSUME NEW S, NEW T, NEW s \in Seq(S), s # << >>
  PROVE  Among(s, T) = KeptOf(Head(s), T) \o Among(Tail(s), T)
  <1>1. PICK t : t = Tail(s)
    OBVIOUS
  <1>2. /\ t \in Seq(S) /\ Len(s) \in Nat /\ Len(s) # 0 /\ Len(t) = Len(s) - 1
        /\ DOMAIN s = 1 .. Len(s) /\ DOMAIN t = 1 .. Len(t)
        /\ \A i \in 1 .. Len(t) : t[i] = s[i + 1]
        /\ Head(s) = s[1]
    BY <1>1, HeadTailProperties, LenProperties, EmptySeq
  <1>3. PICK g : g = [i \in DOMAIN s |-> KeptOf(s[i], T)]
    OBVIOUS
  <1>4. PICK h : h = [i \in DOMAIN t |-> KeptOf(t[i], T)]
    OBVIOUS
  <1>10. PICK K : K = KeptSets(S)
    OBVIOUS
  <1>5. g \in Seq(K) /\ g # << >> /\ Len(g) = Len(s)
    <2>1. \A i \in 1 .. Len(s) : KeptOf(s[i], T) \in K
      BY <1>10, ElementOfSeq, KeptType
    <2>2. g \in Seq(K) /\ Len(g) = Len(s)
      BY <1>2, <1>3, <2>1
    <2> QED
      BY <1>2, <2>2, EmptySeq
  <1>6. Head(g) = KeptOf(Head(s), T)
    BY <1>2, <1>3, <1>5, HeadTailProperties
  <1>7. Tail(g) = h
    <2>1. /\ Tail(g) \in Seq(K) /\ Len(Tail(g)) = Len(t)
          /\ \A i \in 1 .. Len(t) : Tail(g)[i] = g[i + 1]
      BY <1>2, <1>5, HeadTailProperties
    <2>2. \A i \in 1 .. Len(t) : KeptOf(t[i], T) \in K
      BY <1>2, <1>10, ElementOfSeq, KeptType
    <2>3. h \in Seq(K) /\ Len(h) = Len(t)
      BY <1>2, <1>4, <2>2
    <2>4. \A i \in 1 .. Len(t) : Tail(g)[i] = h[i]
      BY <1>2, <1>3, <1>4, <2>1
    <2> QED
      BY <2>1, <2>3, <2>4, SeqEqual
  <1>8. FlattenSeq(g) = Head(g) \o FlattenSeq(Tail(g))
    BY <1>5, <1>10, KeptAreSequences, FlattenHead
  <1>9. Among(s, T) = FlattenSeq(g) /\ Among(t, T) = FlattenSeq(h)
    BY <1>2, <1>3, <1>4, AmongFlat, ZenonT(60)
  <1> QED
    BY <1>1, <1>6, <1>7, <1>8, <1>9

\* The last is kept last.
LEMMA AmongAppend ==
  ASSUME NEW S, NEW T, NEW s \in Seq(S), NEW x \in S
  PROVE  Among(Append(s, x), T) = Among(s, T) \o KeptOf(x, T)
  <1>1. PICK t : t = Append(s, x)
    OBVIOUS
  <1>2. /\ t \in Seq(S) /\ Len(s) \in Nat /\ Len(t) = Len(s) + 1
        /\ DOMAIN s = 1 .. Len(s) /\ DOMAIN t = 1 .. Len(t)
        /\ \A i \in 1 .. Len(s) : t[i] = s[i]
        /\ t[Len(s) + 1] = x
    BY <1>1, AppendProperties, LenProperties
  <1>3. PICK g : g = [i \in DOMAIN s |-> KeptOf(s[i], T)]
    OBVIOUS
  <1>4. PICK h : h = [i \in DOMAIN t |-> KeptOf(t[i], T)]
    OBVIOUS
  <1>5. PICK K : K = KeptSets(S)
    OBVIOUS
  <1>6. KeptOf(x, T) \in K /\ \A i \in 1 .. Len(s) : KeptOf(s[i], T) \in K
    BY <1>5, ElementOfSeq, KeptType
  <1>7. g \in Seq(K) /\ Len(g) = Len(s)
    BY <1>2, <1>3, <1>6
  <1>8. h = Append(g, KeptOf(x, T))
    <2>1. PICK u : u = Append(g, KeptOf(x, T))
      OBVIOUS
    <2>2. /\ u \in Seq(K) /\ Len(u) = Len(t) /\ \A i \in 1 .. Len(s) : u[i] = g[i]
          /\ u[Len(s) + 1] = KeptOf(x, T)
      BY <1>2, <1>6, <1>7, <2>1, AppendProperties
    <2>3. \A i \in 1 .. Len(t) : i \in 1 .. Len(s) \/ i = Len(s) + 1
      BY <1>2
    <2>4. \A i \in 1 .. Len(t) : KeptOf(t[i], T) \in K
      BY <1>2, <1>6, <2>3
    <2>5. h \in Seq(K) /\ Len(h) = Len(t)
      BY <1>2, <1>4, <2>4
    <2>6. \A i \in 1 .. Len(t) : u[i] = h[i]
      BY <1>2, <1>3, <1>4, <2>2, <2>3
    <2> QED
      BY <2>1, <2>2, <2>5, <2>6, SeqEqual
  <1>9. FlattenSeq(h) = FlattenSeq(g) \o KeptOf(x, T)
    BY <1>5, <1>6, <1>7, <1>8, KeptAreSequences, FlattenAppend
  <1>10. Among(s, T) = FlattenSeq(g) /\ Among(t, T) = FlattenSeq(h)
    BY <1>2, <1>3, <1>4, AmongFlat, ZenonT(60)
  <1> QED
    BY <1>1, <1>9, <1>10

\* The elements of a sequence are those of its parts.
LEMMA MembersOfAppend ==
  ASSUME NEW S, NEW s \in Seq(S), NEW x \in S
  PROVE  ToSet(Append(s, x)) = ToSet(s) \cup { x }
  <1>1. PICK t : t = Append(s, x)
    OBVIOUS
  <1>2. /\ Len(s) \in Nat /\ Len(t) = Len(s) + 1
        /\ DOMAIN s = 1 .. Len(s) /\ DOMAIN t = 1 .. Len(s) + 1
        /\ \A i \in 1 .. Len(s) : t[i] = s[i]
        /\ t[Len(s) + 1] = x
    BY <1>1, AppendProperties, LenProperties
  <1>3. \A i \in 1 .. Len(s) + 1 : i \in 1 .. Len(s) \/ i = Len(s) + 1
    BY <1>2
  <1>4. Len(s) + 1 \in 1 .. Len(s) + 1 /\ \A i \in 1 .. Len(s) : i \in 1 .. Len(s) + 1
    BY <1>2
  <1>5. ToSet(t) = ToSet(s) \cup { x }
    BY <1>2, <1>3, <1>4 DEF ToSet
  <1> QED
    BY <1>1, <1>5

\* What two sequences hold together is what either holds.
LEMMA MembersOfConcat ==
  ASSUME NEW S, NEW s \in Seq(S), NEW t \in Seq(S)
  PROVE  ToSet(s \o t) = ToSet(s) \cup ToSet(t)
  <1>1. PICK u : u = s \o t
    OBVIOUS
  <1>2. /\ Len(s) \in Nat /\ Len(t) \in Nat
        /\ DOMAIN s = 1 .. Len(s) /\ DOMAIN t = 1 .. Len(t) /\ DOMAIN u = 1 .. Len(s) + Len(t)
        /\ \A i \in 1 .. Len(s) + Len(t) : u[i] = IF i <= Len(s) THEN s[i] ELSE t[i - Len(s)]
    BY <1>1, ConcatProperties, LenProperties
  <1>3. \A i \in 1 .. Len(s) : i \in 1 .. Len(s) + Len(t) /\ u[i] = s[i]
    BY <1>2
  <1>4. \A i \in 1 .. Len(t) : i + Len(s) \in 1 .. Len(s) + Len(t) /\ u[i + Len(s)] = t[i]
    BY <1>2
  <1>5. \A i \in 1 .. Len(s) + Len(t) :
          \/ i \in 1 .. Len(s) /\ u[i] = s[i]
          \/ i - Len(s) \in 1 .. Len(t) /\ u[i] = t[i - Len(s)]
    BY <1>2
  <1>6. ToSet(u) \subseteq ToSet(s) \cup ToSet(t)
    BY <1>2, <1>5 DEF ToSet
  <1>7. ToSet(s) \cup ToSet(t) \subseteq ToSet(u)
    BY <1>2, <1>3, <1>4, SMTT(60) DEF ToSet
  <1> QED
    BY <1>1, <1>6, <1>7

\* A sequence holds its first element and what its tail holds.
LEMMA MembersOfTail ==
  ASSUME NEW S, NEW s \in Seq(S), s # << >>
  PROVE  ToSet(s) = { Head(s) } \cup ToSet(Tail(s))
  <1>1. PICK t : t = Tail(s)
    OBVIOUS
  <1>2. /\ Len(s) \in Nat /\ Len(s) # 0 /\ Len(t) = Len(s) - 1
        /\ DOMAIN s = 1 .. Len(s) /\ DOMAIN t = 1 .. Len(s) - 1
        /\ \A i \in 1 .. Len(s) - 1 : t[i] = s[i + 1]
        /\ Head(s) = s[1]
    BY <1>1, HeadTailProperties, LenProperties, EmptySeq
  <1>3. \A i \in 1 .. Len(s) - 1 : i + 1 \in 1 .. Len(s)
    BY <1>2
  <1>4. \A i \in 1 .. Len(s) : i = 1 \/ (i - 1 \in 1 .. Len(s) - 1 /\ s[i] = t[i - 1])
    BY <1>2
  <1>5. 1 \in 1 .. Len(s)
    BY <1>2
  <1>6. ToSet(s) \subseteq { Head(s) } \cup ToSet(t)
    BY <1>2, <1>4 DEF ToSet
  <1>7. { Head(s) } \cup ToSet(t) \subseteq ToSet(s)
    BY <1>2, <1>3, <1>5, SMTT(60) DEF ToSet
  <1> QED
    BY <1>1, <1>6, <1>7

\* Its elements are those of the sequence that are in the set.
LEMMA AmongMembers ==
  ASSUME NEW S, NEW T, NEW s \in Seq(S)
  PROVE  ToSet(Among(s, T)) = ToSet(s) \cap T
  <1> DEFINE P == { t \in Seq(S) : ToSet(Among(t, T)) = ToSet(t) \cap T }
  <1>1. << >> \in P
    <2>1. ToSet(<< >>) = {}
      BY DEF ToSet
    <2>2. << >> \in Seq(S)
      BY EmptySeq
    <2> QED
      BY <2>1, <2>2, AmongNone
  <1>2. ASSUME NEW t \in Seq(S), NEW x \in S, t \in P
        PROVE  Append(t, x) \in P
    <2>1. Append(t, x) \in Seq(S)
      BY AppendProperties
    <2>2. ToSet(Append(t, x)) = ToSet(t) \cup { x }
      BY MembersOfAppend
    <2>3. Among(Append(t, x), T) = Among(t, T) \o KeptOf(x, T)
      BY AmongAppend
    <2>4. Among(t, T) \in Seq(S) /\ KeptOf(x, T) \in Seq(S)
      BY AmongType, KeptType
    <2>5. ToSet(Among(Append(t, x), T)) = ToSet(Among(t, T)) \cup ToSet(KeptOf(x, T))
      BY <2>3, <2>4, MembersOfConcat
    <2>6. ToSet(KeptOf(x, T)) = { x } \cap T
      BY DEF KeptOf, ToSet
    <2>7. ToSet(Among(t, T)) = ToSet(t) \cap T
      BY <1>2
    <2>8. ToSet(Among(Append(t, x), T)) = ToSet(Append(t, x)) \cap T
      BY <2>2, <2>5, <2>6, <2>7
    <2> QED
      BY <2>1, <2>8
  <1>3. Seq(S) \subseteq P
    <2> HIDE DEF P
    <2> QED
      BY <1>1, <1>2, ByAppending
  <1> QED
    BY <1>3

-----------------------------------------------------------------------------
(* The characters of a chunk.                                              *)

Uncontrolled == Chars \ Control

\* The characters that are kept of a chunk are characters.
LEMMA PlainType ==
  ASSUME NEW s \in Seq(Chars)
  PROVE  Plain(s) \in Seq(Chars)
  BY AmongType DEF Plain

\* The first is kept first.
LEMMA PlainHead ==
  ASSUME NEW s \in Seq(Chars), s # << >>
  PROVE  Plain(s) = KeptOf(Head(s), Uncontrolled) \o Plain(Tail(s))
  BY AmongHead DEF Plain, Uncontrolled

\* Nothing is kept of nothing.
LEMMA PlainNone == Plain(<< >>) = << >>
  BY AmongNone DEF Plain
-----------------------------------------------------------------------------
(* Types.                                                                  *)

\* What the queue holds are sequences of characters.
LEMMA EntriesAreSequences == AreSequences(Entries, Chars)
  BY DEF AreSequences, Entries

\* A character that is not control is an entry, and so is the entry it
\* extends.
LEMMA EntryOfChar ==
  ASSUME NEW c \in Chars, c \notin Control
  PROVE  << c >> \in Entries
  <1>1. << c >> \in Seq(Chars)
    OBVIOUS
  <1>2. c = Text => ToSet(<< c >>) = { Text }
    BY DEF ToSet
  <1>3. c # Text => << c >> \in Newlines \cup { << End >> }
    BY DEF Chars, Control, Newlines
  <1> QED
    BY <1>1, <1>2, <1>3 DEF Entries

\* An entry stays one when a line feed follows its carriage return, or text its
\* text.
LEMMA EntryExtended ==
  ASSUME NEW e \in Entries, NEW c \in Chars,
         (c = LF /\ Last(e) = CR) \/ (c = Text /\ Last(e) = Text)
  PROVE  Append(e, c) \in Entries
  <1>1. e \in Seq(Chars) /\ Append(e, c) \in Seq(Chars) /\ Len(e) \in Nat
    BY AppendProperties, LenProperties DEF Entries
  <1>2. CASE c = LF /\ Last(e) = CR
    <2>1. e \notin { << LF >>, << CR, LF >>, << End >> }
      <3>1. Last(<< LF >>) = LF
        BY DEF Last
      <3>2. Last(<< CR, LF >>) = LF
        BY DEF Last
      <3>3. Last(<< End >>) = End
        BY DEF Last
      <3> QED
        BY <1>2, <3>1, <3>2, <3>3 DEF CR, LF, End
    <2>2. ToSet(e) # { Text }
      <3> SUFFICES ASSUME ToSet(e) = { Text } PROVE FALSE
        OBVIOUS
      <3>1. Len(e) \in DOMAIN e
        <4>1. e # << >>
          BY DEF ToSet
        <4> QED
          BY <1>1, <4>1, EmptySeq, LenProperties
      <3>2. e[Len(e)] \in { Text }
        BY <3>1 DEF ToSet
      <3> QED
        BY <1>2, <3>2 DEF Last, CR, Text
    <2>3. e = << CR >>
      BY <2>1, <2>2 DEF Entries, Newlines
    <2>4. Append(e, c) = << CR, LF >>
      <3>1. Append(<< CR >>, LF) = << CR, LF >>
        <4>1. << CR >> \in Seq(Chars) /\ LF \in Chars /\ << CR, LF >> \in Seq(Chars)
          BY DEF Chars
        <4>2. Len(<< CR >>) = 1 /\ Len(<< CR, LF >>) = 2
          OBVIOUS
        <4>3. /\ Append(<< CR >>, LF) \in Seq(Chars) /\ Len(Append(<< CR >>, LF)) = 2
              /\ Append(<< CR >>, LF)[1] = CR /\ Append(<< CR >>, LF)[2] = LF
          BY <4>1, <4>2, AppendProperties
        <4>4. \A i \in 1 .. 2 : i = 1 \/ i = 2
          OBVIOUS
        <4>5. \A i \in 1 .. 2 : Append(<< CR >>, LF)[i] = << CR, LF >>[i]
          BY <4>3, <4>4
        <4> QED
          BY <4>1, <4>2, <4>3, <4>5, SeqEqual
      <3> QED
        BY <1>2, <2>3, <3>1
    <2> QED
      BY <1>1, <2>4 DEF Entries, Newlines
  <1>3. CASE c = Text /\ Last(e) = Text
    <2>1. e \notin Newlines \cup { << End >> }
      BY <1>3 DEF Last, CR, LF, End, Text, Newlines
    <2>2. ToSet(e) = { Text }
      BY <2>1 DEF Entries
    <2>3. \A i \in 1 .. Len(e) + 1 : Append(e, c)[i] = IF i <= Len(e) THEN e[i] ELSE c
      BY <1>1, AppendProperties
    <2>4. DOMAIN Append(e, c) = 1 .. Len(e) + 1 /\ DOMAIN e = 1 .. Len(e)
      BY <1>1, AppendProperties, LenProperties
    <2>5. \A i \in 1 .. Len(e) : e[i] = Text
      BY <2>2, <2>4 DEF ToSet
    <2>6. \A i \in 1 .. Len(e) + 1 : Append(e, c)[i] = Text
      BY <1>1, <1>3, <2>3, <2>5
    <2>7. Len(e) + 1 \in 1 .. Len(e) + 1
      BY <1>1
    <2>8. ToSet(Append(e, c)) = { Text }
      BY <2>4, <2>6, <2>7 DEF ToSet
    <2> QED
      BY <1>1, <2>8 DEF Entries
  <1> QED
    BY <1>2, <1>3

\* An entry is not empty, and if it does not end a line it holds no
\* character that does.
LEMMA EntryNotEmpty ==
  ASSUME NEW e \in Entries
  PROVE  e # << >>
  <1> SUFFICES ASSUME e = << >> PROVE FALSE
    OBVIOUS
  <1>1. ToSet(e) = {}
    BY DEF ToSet
  <1>2. Len(e) = 0 /\ Len(<< CR >>) = 1 /\ Len(<< LF >>) = 1 /\ Len(<< CR, LF >>) = 2
        /\ Len(<< End >>) = 1
    OBVIOUS
  <1>3. e \notin Newlines \cup { << End >> }
    BY <1>2 DEF Newlines
  <1> QED
    BY <1>1, <1>3 DEF Entries

\* An entry that does not end a line is text, or the end of the input.
LEMMA EntryPlain ==
  ASSUME NEW e \in Entries, e \notin Newlines
  PROVE  \A i \in 1 .. Len(e) : e[i] \in { Text, End }
  <1>1. CASE e = << End >>
    BY <1>1
  <1>2. CASE ToSet(e) = { Text }
    <2>1. DOMAIN e = 1 .. Len(e)
      BY LenProperties DEF Entries
    <2> QED
      BY <1>2, <2>1 DEF ToSet
  <1> QED
    BY <1>1, <1>2 DEF Entries

\* No character of it ends a line by itself.
LEMMA EntryApart ==
  ASSUME NEW e \in Entries, e \notin Newlines
  PROVE  \A i \in 1 .. Len(e) : << e[i] >> \notin Newlines
  <1>1. \A c \in { Text, End } : << c >> \notin Newlines
    BY DEF Newlines, Text, End, CR, LF
  <1> QED
    BY <1>1, EntryPlain

\* The queue after a character has been put into it.
Queued(c) ==
  IF c \in Control THEN queue
  ELSE IF Grouped(c) THEN [queue EXCEPT ![Len(queue)] = Append(@, c)]
  ELSE Append(queue, << c >>)

\* The queue holds entries when a character has been put into it.
LEMMA QueuedType ==
  ASSUME queue \in Seq(Entries), NEW c \in Chars
  PROVE  Queued(c) \in Seq(Entries)
  <1>1. CASE c \in Control
    BY <1>1 DEF Queued
  <1>2. CASE c \notin Control /\ Grouped(c)
    <2>1. Len(queue) \in 1 .. Len(queue) /\ Last(queue) = queue[Len(queue)]
      BY <1>2, LenProperties, EmptySeq DEF Grouped, Last
    <2>2. queue[Len(queue)] \in Entries
      BY <2>1, ElementOfSeq
    <2>3. Append(queue[Len(queue)], c) \in Entries
      BY <1>2, <2>1, <2>2, EntryExtended DEF Grouped
    <2>4. [queue EXCEPT ![Len(queue)] = Append(queue[Len(queue)], c)] \in Seq(Entries)
      BY <2>1, <2>3, ExceptSeq
    <2> QED
      BY <1>2, <2>4 DEF Queued
  <1>3. CASE c \notin Control /\ ~Grouped(c)
    BY <1>3, EntryOfChar, AppendProperties DEF Queued
  <1> QED
    BY <1>1, <1>2, <1>3

\* The types hold initially.
LEMMA InitType == Init => TypeOK
  <1>1. << >> \in Seq(Entries) /\ << >> \in Seq(Chars) /\ 0 \in Nat
    BY EmptySeq
  <1> QED
    BY <1>1 DEF Init, TypeOK, BusyStates, ReaderStates

\* What the REPL does with a character keeps the types.
LEMMA ReadType ==
  ASSUME TypeOK, NEW c \in Chars, Read(c)
  PROVE  /\ forwarding' \in BOOLEAN /\ blocking' \in BOOLEAN
         /\ reader' \in ReaderStates /\ running' \in Nat /\ sawReturn' \in BOOLEAN
         /\ aborted' \in BOOLEAN /\ spilled' \in BOOLEAN /\ swallowed' \in BOOLEAN
         /\ overrun' \in BOOLEAN
  <1>1. /\ forwarding \in BOOLEAN /\ blocking \in BOOLEAN
        /\ reader \in ReaderStates /\ running \in Nat /\ running + 1 \in Nat
    BY DEF TypeOK
  <1> DEFINE Modes == /\ forwarding' \in BOOLEAN /\ blocking' \in BOOLEAN
                      /\ reader' \in ReaderStates /\ running' \in Nat
  <1>2. ASSUME Line PROVE Modes
    BY <1>1, <1>2 DEF Line, ReaderStates
  <1>3. ASSUME AtPrompt(c) PROVE Modes
    BY <1>1, <1>3 DEF AtPrompt, ReaderStates, gate
  <1>4. ASSUME InEditor(c) PROVE Modes
    BY <1>1, <1>4 DEF InEditor, ReaderStates
  <1>5. ASSUME NoLine(c) PROVE Modes
    BY <1>1, <1>5 DEF NoLine, ReaderStates, gate
  <1>6. Modes
    BY <1>2, <1>3, <1>4, <1>5 DEF Read
  <1>7. sawReturn' \in BOOLEAN
    BY DEF Read, TypeOK
  <1>8. /\ aborted' \in BOOLEAN /\ spilled' \in BOOLEAN /\ swallowed' \in BOOLEAN
        /\ overrun' \in BOOLEAN
    BY ZenonT(60) DEF Read
  <1> QED
    BY <1>6, <1>7, <1>8

\* Every step keeps the types.
LEMMA NextType ==
  ASSUME TypeOK, [Next]_vars
  PROVE  TypeOK'
  <1> USE DEF BusyStates, gate, repl, history
  <1>1. ASSUME NEW c \in Chunks, Data(c)
        PROVE  TypeOK'
    <2>1. c \in Seq(Chars)
      BY ChunksAssumption
    <2>2. received \o Plain(c) \in Seq(Chars)
      BY <2>1, PlainType, ConcatProperties DEF TypeOK
    <2> QED
      BY <1>1, <2>1, <2>2 DEF Data, TypeOK
  <1>2. CASE Take
    <2>1. Head(chunk) \in Chars /\ Tail(chunk) \in Seq(Chars)
      BY <1>2, HeadTailProperties DEF Take, TypeOK
    <2>2. queue' = Queued(Head(chunk))
      BY <1>2 DEF Take, Queued
    <2>3. queue' \in Seq(Entries)
      BY <2>1, <2>2, QueuedType DEF TypeOK
    <2>4. CASE Head(chunk) \in Control
      <3>1. Read(Head(chunk))
        BY <1>2, <2>4 DEF Take
      <3> QED
        BY <1>2, <2>1, <2>3, <3>1, ReadType DEF Take, TypeOK
    <2>5. CASE Head(chunk) \notin Control
      BY <1>2, <2>1, <2>3, <2>5 DEF Take, TypeOK
    <2> QED
      BY <2>4, <2>5
  <1>3. CASE Pass
    <2>1. forwarded \o Plain(chunk) \in Seq(Chars)
      BY PlainType, ConcatProperties DEF TypeOK
    <2> QED
      BY <1>3, <2>1 DEF Pass, TypeOK
  <1>4. CASE React
    <2>1. Head(chunk) \in Chars /\ Tail(chunk) \in Seq(Chars) /\ Read(Head(chunk))
      BY <1>4, HeadTailProperties DEF React, TypeOK
    <2> QED
      BY <1>4, <2>1, ReadType DEF React, TypeOK
  <1>5. CASE StartFlush \/ PauseInput \/ ResumeInput \/ DelayPasses
    BY <1>5 DEF StartFlush, PauseInput, ResumeInput, DelayPasses, TypeOK
  <1>6. CASE FlushEnds
    BY <1>6 DEF FlushEnds, TypeOK
  <1>7. CASE Flush
    <2>1. Head(queue) \in Entries /\ Tail(queue) \in Seq(Entries)
      BY <1>7, HeadTailProperties DEF Flush, TypeOK
    <2>2. Head(queue) \in Seq(Chars)
      BY <2>1 DEF Entries
    <2>3. forwarded \o Head(queue) \in Seq(Chars)
      BY <2>2, ConcatProperties DEF TypeOK
    <2> QED
      BY <1>7, <2>1, <2>2, <2>3 DEF Flush, TypeOK
  <1>8. CASE EvalEnds
    BY <1>8 DEF EvalEnds, TypeOK
  <1>9. CASE Quiet \/ UNCHANGED vars
    BY <1>9 DEF Quiet, vars, TypeOK
  <1> QED
    BY <1>1, <1>2, <1>3, <1>4, <1>5, <1>6, <1>7, <1>8, <1>9 DEF Next

\* The types hold in every reachable state.
THEOREM LineTypeCorrect == Spec => []TypeOK
  <1>1. Init => TypeOK
    BY InitType
  <1>2. TypeOK /\ [Next]_vars => TypeOK'
    BY NextType
  <1> QED
    BY <1>1, <1>2, PTL DEF Spec

-----------------------------------------------------------------------------
(* Lines and evaluations.                                                  *)

\* What the two cases have in common in which a line is read too early.
Excused == aborted \/ spilled

\* The rest of a CR LF whose CR has been read.
SecondHalf == chunk = << LF >> /\ sawReturn

\* While a line is evaluated, blocking is on and the gate is closed; it was
\* closed when the line's end was pushed, or has been since .editor began.
\* Pass-through mode at the prompt is what a Ctrl+C in .editor leaves.
GateInv ==
  /\ reader = "editor" => ~blocking
  /\ ~blocking => reader # "prompt" \/ aborted
  /\ busy = "taking" => blocking
  /\ busy = "passing" => ~blocking
  /\ busy = "passed" => ~blocking \/ Excused
  /\ ~Excused =>
       /\ running \in { 0, 1 }
       /\ reader = "editor" => running = 0 /\ ~forwarding
       /\ running = 1 => blocking /\ ~forwarding /\ (busy = "pushed" => SecondHalf)

\* What is pushed is the end of a line, the second half of one, or holds none.
PushedInv ==
  busy = "pushed" =>
    \/ chunk \in Newlines /\ ~forwarding
    \/ SecondHalf
    \/ \A i \in 1 .. Len(chunk) : chunk[i] \in { Text, End }

IInv == NoOverrun /\ GateInv /\ PushedInv

\* The first character of what is pushed, and what is left of it.
LEMMA PushedFirst ==
  ASSUME TypeOK, PushedInv, busy = "pushed", chunk # << >>
  PROVE  \/ /\ Head(chunk) = CR /\ ~forwarding
            /\ Len(chunk) > 1 => Tail(chunk) = << LF >>
         \/ Head(chunk) = LF /\ ~forwarding /\ Len(chunk) = 1
         \/ Head(chunk) = LF /\ sawReturn /\ Len(chunk) = 1
         \/ /\ Head(chunk) \in { Text, End }
            /\ \A i \in 1 .. Len(Tail(chunk)) : Tail(chunk)[i] \in { Text, End }
  <1>1. /\ Head(<< CR >>) = CR /\ Len(<< CR >>) = 1
        /\ Head(<< LF >>) = LF /\ Len(<< LF >>) = 1
        /\ Head(<< CR, LF >>) = CR /\ Tail(<< CR, LF >>) = << LF >>
    OBVIOUS
  <1>2. CASE chunk \in Newlines /\ ~forwarding
    <2>1. CASE chunk = << CR >>
      BY <1>1, <1>2, <2>1
    <2>2. CASE chunk = << LF >>
      BY <1>1, <1>2, <2>2
    <2>3. CASE chunk = << CR, LF >>
      BY <1>1, <1>2, <2>3
    <2> QED
      BY <1>2, <2>1, <2>2, <2>3 DEF Newlines
  <1>3. CASE SecondHalf
    BY <1>1, <1>3 DEF SecondHalf
  <1>4. CASE \A i \in 1 .. Len(chunk) : chunk[i] \in { Text, End }
    <2>1. /\ Head(chunk) = chunk[1] /\ Len(chunk) \in Nat /\ Len(chunk) # 0
          /\ Len(Tail(chunk)) = Len(chunk) - 1
          /\ \A i \in 1 .. Len(Tail(chunk)) : Tail(chunk)[i] = chunk[i + 1]
      BY HeadTailProperties, LenProperties, EmptySeq DEF TypeOK
    <2> QED
      BY <1>4, <2>1
  <1> QED
    BY <1>2, <1>3, <1>4 DEF PushedInv

\* The characters are different from each other.
LEMMA CharsApart ==
  /\ CR \notin Control /\ LF \notin Control /\ Text \notin Control /\ End \notin Control
  /\ CR # LF /\ CR # Text /\ CR # End /\ LF # Text /\ LF # End /\ CtrlC # CtrlD
  BY DEF CR, LF, Text, End, CtrlC, CtrlD, Control

\* A line is not read while another is evaluated, but in the two cases; and it
\* is only read from the queue when the gate has been closed behind it.
LEMMA LineReadInTime ==
  ASSUME TypeOK, IInv, chunk # << >>, busy \in { "taking", "pushed", "passed" },
         busy = "taking" => Head(chunk) \in Control, EndsInput(Head(chunk)), ~Excused
  PROVE  running = 0 /\ busy = "pushed" /\ ~forwarding
  <1>1. Head(chunk) \in { CR, LF } /\ reader = "prompt"
    BY DEF EndsInput
  <1>2. busy # "taking"
    BY <1>1, CharsApart
  <1>3. busy # "passed"
    BY <1>1 DEF IInv, GateInv, Excused
  <1>4. busy = "pushed"
    BY <1>2, <1>3
  <1>5. ~(Head(chunk) = LF /\ sawReturn)
    BY DEF EndsInput, Ignored
  <1>6. ~forwarding
    BY <1>1, <1>4, <1>5, PushedFirst, CharsApart DEF IInv
  <1>7. running # 1
    <2>1. Head(<< LF >>) = LF
      OBVIOUS
    <2> QED
      BY <1>4, <1>5, <2>1 DEF IInv, GateInv, SecondHalf
  <1> QED
    BY <1>4, <1>6, <1>7 DEF IInv, GateInv

\* Reading a character keeps the gate closed while it has to be.
LEMMA ReadGate ==
  ASSUME TypeOK, IInv, chunk # << >>, busy \in { "taking", "pushed", "passed" },
         busy = "taking" => Head(chunk) \in Control, Read(Head(chunk)),
         chunk' = Tail(chunk),
         busy' = IF busy = "taking" \/ Len(chunk) > 1 THEN busy
                 ELSE IF busy = "pushed" THEN "flushing" ELSE "idle"
  PROVE  NoOverrun' /\ GateInv'
  <1> DEFINE c == Head(chunk)
  <1>1. /\ c \in Chars /\ running \in Nat /\ forwarding \in BOOLEAN /\ blocking \in BOOLEAN
        /\ aborted \in BOOLEAN /\ spilled \in BOOLEAN /\ Len(chunk) \in Nat
    BY HeadTailProperties, LenProperties DEF TypeOK
  <1>2. /\ aborted' = (aborted \/ (reader = "editor" /\ c = CtrlC))
        /\ spilled' = (spilled \/ (busy = "passed" /\ running' > running /\ Len(chunk) > 1))
        /\ overrun' = (overrun \/ (EndsInput(c) /\ running > 0))
        /\ sawReturn' = IF c \in Control THEN sawReturn \/ (reader = "editor" /\ c = CtrlD)
                        ELSE c = CR
        /\ (EndsInput(c) /\ Line) \/ AtPrompt(c) \/ InEditor(c) \/ NoLine(c)
    BY DEF Read
  <1>3. EndsInput(c) /\ ~Excused => running = 0 /\ busy = "pushed" /\ ~forwarding
    BY LineReadInTime
  <1>4. c = CR /\ busy = "pushed" /\ Len(chunk) > 1 => chunk' = << LF >> /\ sawReturn'
    BY <1>2, PushedFirst, CharsApart DEF IInv
  <1>5. busy = "pushed" => c \notin Control
    BY PushedFirst, CharsApart DEF IInv
  <1>6. busy = "pushed" /\ Len(chunk) > 1 => c # LF
    BY PushedFirst, CharsApart DEF IInv
  <1>7. Excused => Excused'
    BY <1>2 DEF Excused
  <1>8. NoOverrun'
    BY <1>1, <1>2, <1>3, <1>7 DEF IInv, NoOverrun, Excused
  <1>9. /\ reader = "editor" => ~blocking
        /\ ~blocking => reader # "prompt" \/ aborted
        /\ busy = "taking" => blocking
        /\ busy = "passed" => ~blocking \/ Excused
        /\ ~Excused =>
             /\ running \in { 0, 1 }
             /\ reader = "editor" => running = 0 /\ ~forwarding
             /\ running = 1 => blocking /\ ~forwarding /\ (busy = "pushed" => SecondHalf)
    BY DEF IInv, GateInv
  <1>10. SecondHalf => Len(chunk) = 1
    BY DEF SecondHalf
  <1> HIDE DEF c
  <1>11. CASE EndsInput(c) /\ Line
    <2>1. c \in { CR, LF } /\ reader = "prompt"
      BY <1>11 DEF EndsInput
    <2>2. busy' = "taking" => blocking'
      BY <1>9, <2>1, <1>11, CharsApart DEF Line, c
    <2>3. busy' = "passed" => ~blocking' \/ Excused'
      BY <1>3, <1>7, <1>11
    <2>4. reader' = "editor" => ~blocking'
      BY <1>11, <2>1 DEF Line
    <2>5. ~blocking' => reader' # "prompt" \/ aborted'
      <3>1. reader' = "prompt" /\ ~blocking' => ~blocking /\ aborted
        BY <1>9, <1>11, <2>1 DEF Line
      <3>2. aborted => aborted'
        BY <1>2
      <3> QED
        BY <3>1, <3>2
    <2>6. ASSUME ~Excused'
          PROVE  /\ running' \in { 0, 1 }
                 /\ reader' = "editor" => running' = 0 /\ ~forwarding'
                 /\ running' = 1 => blocking' /\ ~forwarding' /\ (busy' = "pushed" => SecondHalf')
      <3>1. running = 0 /\ busy = "pushed" /\ ~forwarding
        BY <1>3, <1>7, <1>11, <2>6
      <3>2. busy' = "pushed" => SecondHalf'
        BY <1>1, <1>4, <1>6, <2>1, <3>1 DEF SecondHalf
      <3> QED
        BY <1>11, <2>1, <3>1, <3>2 DEF Line
    <2> QED
      BY <1>8, <2>2, <2>3, <2>4, <2>5, <2>6 DEF GateInv
  <1>12. CASE AtPrompt(c)
    <2>1. busy # "pushed" /\ busy' # "pushed"
      BY <1>5, <1>12 DEF AtPrompt
    <2>2. /\ reader = "prompt" /\ reader' # "editor" /\ running' = running /\ blocking' = blocking
          /\ running # 0 => forwarding' = forwarding
      BY <1>12 DEF AtPrompt, gate
    <2>3. aborted' = aborted /\ spilled' = spilled
      BY <1>1, <1>2, <2>2
    <2> QED
      BY <1>8, <1>9, <2>1, <2>2, <2>3 DEF GateInv, Excused
  <1>13. CASE InEditor(c)
    <2>1. /\ busy = "passed" /\ reader = "editor" /\ reader' = "prompt"
          /\ c \in { CtrlC, CtrlD }
      BY <1>5, <1>9, <1>13 DEF InEditor, Control
    <2>2. CASE c = CtrlC
      <3>1. Excused' /\ aborted'
        BY <1>2, <2>1, <2>2 DEF Excused
      <3> QED
        BY <1>8, <2>1, <3>1 DEF GateInv
    <2>3. CASE c = CtrlD
      <3>1. running' = running + 1 /\ blocking' = TRUE /\ forwarding' = forwarding
        BY <1>13, <2>3, CharsApart DEF InEditor
      <3>2. Len(chunk) > 1 => Excused'
        <4>1. running' > running
          BY <1>1, <3>1
        <4>2. Len(chunk) > 1 => spilled'
          BY <1>2, <2>1, <4>1
        <4> QED
          BY <4>2 DEF Excused
      <3>3. busy' = IF Len(chunk) > 1 THEN "passed" ELSE "idle"
        BY <2>1
      <3> QED
        BY <1>1, <1>7, <1>8, <1>9, <2>1, <3>1, <3>2, <3>3 DEF GateInv
    <2> QED
      BY <2>1, <2>2, <2>3
  <1>14. CASE NoLine(c)
    <2>1. /\ running' = running /\ forwarding' = forwarding /\ blocking' = blocking
          /\ reader' = reader \/ reader' = "closed"
      BY <1>14 DEF NoLine, gate
    <2>2. spilled' = spilled /\ (~aborted' => ~aborted)
      BY <1>1, <1>2, <2>1
    <2>3. busy' = "pushed" => busy = "pushed" /\ Len(chunk) > 1
      OBVIOUS
    <2>4. ~Excused' => ~Excused
      BY <1>7
    <2>5. busy' = "passed" => ~blocking' \/ Excused'
      BY <1>7, <1>9, <2>1
    <2>6. ~blocking' => reader' # "prompt" \/ aborted'
      <3>1. aborted => aborted'
        BY <1>2
      <3> QED
        BY <1>9, <2>1, <3>1
    <2>7. (reader' = "editor" => ~blocking') /\ (busy' = "taking" => blocking')
          /\ busy' # "passing"
      BY <1>9, <2>1
    <2>8. ASSUME ~Excused'
          PROVE  /\ running' \in { 0, 1 }
                 /\ reader' = "editor" => running' = 0 /\ ~forwarding'
                 /\ running' = 1 => blocking' /\ ~forwarding' /\ (busy' = "pushed" => SecondHalf')
      <3>1. busy' = "pushed" /\ running = 1 => FALSE
        BY <1>1, <1>9, <1>10, <2>3, <2>4, <2>8
      <3> QED
        BY <1>9, <2>1, <2>4, <2>8, <3>1
    <2> QED
      BY <1>8, <2>5, <2>6, <2>7, <2>8 DEF GateInv
  <1> QED
    BY <1>2, <1>11, <1>12, <1>13, <1>14

\* Every step keeps the gate closed while it has to be.
LEMMA NextIInv ==
  ASSUME TypeOK, IInv, [Next]_vars
  PROVE  IInv'
  <1> USE DEF gate, repl, history
  <1>1. ASSUME NEW d \in Chunks, Data(d)
        PROVE  IInv'
    BY <1>1 DEF Data, IInv, NoOverrun, GateInv, PushedInv, Excused, SecondHalf, TypeOK
  <1>2. CASE Take
    <2>1. CASE Head(chunk) \in Control
      <3>1. /\ chunk # << >> /\ busy = "taking" /\ busy' = "taking" /\ chunk' = Tail(chunk)
            /\ Read(Head(chunk))
        BY <1>2, <2>1 DEF Take
      <3>2. NoOverrun' /\ GateInv'
        BY <2>1, <3>1, ReadGate
      <3> QED
        BY <3>1, <3>2 DEF IInv, PushedInv
    <2>2. CASE Head(chunk) \notin Control
      BY <1>2, <2>2 DEF Take, IInv, NoOverrun, GateInv, PushedInv, Excused
    <2> QED
      BY <2>1, <2>2
  <1>3. CASE Pass
    BY <1>3 DEF Pass, IInv, NoOverrun, GateInv, PushedInv, Excused
  <1>4. CASE React
    <2>1. NoOverrun' /\ GateInv'
      BY <1>4, ReadGate DEF React
    <2>2. PushedInv'
      <3> SUFFICES ASSUME busy' = "pushed"
                   PROVE  SecondHalf' \/ \A i \in 1 .. Len(chunk') : chunk'[i] \in { Text, End }
        BY DEF PushedInv
      <3>1. busy = "pushed" /\ Len(chunk) > 1 /\ chunk # << >> /\ chunk' = Tail(chunk)
            /\ Read(Head(chunk))
        BY <1>4 DEF React
      <3>2. CASE Head(chunk) = CR
        BY <3>1, <3>2, PushedFirst, CharsApart DEF IInv, SecondHalf, Read
      <3>3. CASE Head(chunk) # CR
        BY <3>1, <3>3, PushedFirst, CharsApart DEF IInv
      <3> QED
        BY <3>2, <3>3
    <2> QED
      BY <2>1, <2>2 DEF IInv
  <1>5. CASE StartFlush \/ FlushEnds \/ DelayPasses \/ PauseInput \/ ResumeInput
    BY <1>5 DEF StartFlush, FlushEnds, DelayPasses, PauseInput, ResumeInput, IInv,
       NoOverrun, GateInv, PushedInv, Excused
  <1>6. CASE Flush
    <2>1. Head(queue) \in Entries
      BY <1>6, HeadTailProperties DEF Flush, TypeOK
    <2>2. /\ chunk' = Head(queue) /\ busy' = "pushed" /\ busy = "flushing"
          /\ forwarding' = (forwarding /\ Head(queue) \notin Newlines)
          /\ blocking' = blocking /\ (~blocking \/ forwarding)
          /\ reader' = reader /\ running' = running /\ aborted' = aborted
          /\ spilled' = spilled /\ overrun' = overrun
      BY <1>6 DEF Flush, EndsLine, ShouldForward
    <2>3. PushedInv'
      <3>1. CASE Head(queue) \in Newlines
        BY <2>2, <3>1 DEF PushedInv
      <3>2. CASE Head(queue) \notin Newlines
        <4>1. \A i \in 1 .. Len(Head(queue)) : Head(queue)[i] \in { Text, End }
          BY <2>1, <3>2, EntryPlain
        <4> QED
          BY <2>2, <4>1 DEF PushedInv
      <3> QED
        BY <3>1, <3>2
    <2>4. NoOverrun' /\ GateInv'
      BY <2>2 DEF IInv, NoOverrun, GateInv, Excused
    <2> QED
      BY <2>3, <2>4 DEF IInv
  <1>7. CASE EvalEnds
    <2>1. /\ running \in Nat /\ running > 0 /\ running' = running - 1 /\ busy' = "flushing"
          /\ blocking' = blocking /\ reader' = reader /\ aborted' = aborted
          /\ spilled' = spilled /\ overrun' = overrun
      BY <1>7 DEF EvalEnds, TypeOK
    <2> QED
      BY <2>1 DEF IInv, NoOverrun, GateInv, PushedInv, Excused
  <1>8. CASE Quiet \/ UNCHANGED vars
    BY <1>8 DEF Quiet, vars, IInv, NoOverrun, GateInv, PushedInv, Excused, SecondHalf
  <1> QED
    BY <1>1, <1>2, <1>3, <1>4, <1>5, <1>6, <1>7, <1>8 DEF Next

\* A line that was typed or pasted ahead never reaches the REPL while it
\* evaluates another one, unless .editor was left with Ctrl+C, or the line is
\* in the rest of a chunk that was passed through to .editor.
THEOREM NoOverrunCorrect == Spec => []NoOverrun
  <1>1. Init => IInv
    BY DEF Init, IInv, NoOverrun, GateInv, PushedInv, Excused
  <1>2. TypeOK /\ IInv /\ [Next]_vars => IInv'
    BY NextIInv
  <1>3. IInv => NoOverrun
    BY DEF IInv
  <1> QED
    BY <1>1, <1>2, <1>3, LineTypeCorrect, PTL DEF Spec

-----------------------------------------------------------------------------
(* The order of the characters.                                            *)

\* What the data event in progress has still to look at.
Rest == IF busy \in { "taking", "passing" } THEN Plain(chunk) ELSE << >>

\* What has been received are the characters the reader has, those in the
\* queue and those the data event has not looked at, in this order; in
\* pass-through mode the queue is empty when a data event comes, because a
\* flush that began in it, or led to it, was not held back.
OrderInv ==
  /\ received = (forwarded \o FlattenSeq(queue)) \o Rest
  /\ busy = "passing" => ~blocking
  /\ busy = "taking" => blocking
  /\ reader = "editor" => ~blocking
  /\ busy \in { "passing", "passed" } => queue = << >>
  /\ ~blocking /\ busy = "idle" => queue = << >>
  /\ busy = "pushed" => ~paused
  /\ ~blocking /\ busy = "flushing" => ~paused \/ queue = << >>

\* The queue and the rest are sequences of characters, one after the other.
LEMMA PartsType ==
  ASSUME TypeOK
  PROVE  /\ queue \in Seq(Entries) /\ FlattenSeq(queue) \in Seq(Chars)
         /\ Rest \in Seq(Chars) /\ Plain(chunk) \in Seq(Chars)
         /\ forwarded \in Seq(Chars) /\ received \in Seq(Chars) /\ chunk \in Seq(Chars)
  <1>1. queue \in Seq(Entries) /\ forwarded \in Seq(Chars) /\ received \in Seq(Chars)
        /\ chunk \in Seq(Chars)
    BY DEF TypeOK
  <1>2. FlattenSeq(queue) \in Seq(Chars)
    BY <1>1, EntriesAreSequences, FlattenType
  <1>3. Plain(chunk) \in Seq(Chars)
    BY <1>1, PlainType
  <1>4. Rest \in Seq(Chars)
    BY <1>3, EmptySeq DEF Rest
  <1> QED
    BY <1>1, <1>2, <1>3, <1>4

\* Looking at a character moves it from the rest to the end of the queue.
LEMMA QueuedLast ==
  ASSUME TypeOK, chunk # << >>
  PROVE  /\ Head(chunk) \in Chars /\ KeptOf(Head(chunk), Uncontrolled) \in Seq(Chars)
         /\ FlattenSeq(Queued(Head(chunk))) = FlattenSeq(queue) \o KeptOf(Head(chunk), Uncontrolled)
  <1>0. PICK c : c = Head(chunk)
    OBVIOUS
  <1>1. c \in Chars
    BY <1>0, HeadTailProperties DEF TypeOK
  <1>2. queue \in Seq(Entries) /\ FlattenSeq(queue) \in Seq(Chars)
    BY PartsType
  <1>3. KeptOf(c, Uncontrolled) \in Seq(Chars)
    BY <1>1, KeptType
  <1>8. SUFFICES FlattenSeq(Queued(c)) = FlattenSeq(queue) \o KeptOf(c, Uncontrolled)
    BY <1>0, <1>1, <1>3
  <1>4. CASE c \in Control
    <2>1. FlattenSeq(queue) \o << >> = FlattenSeq(queue)
      BY <1>2, ConcatEmptySeq
    <2> QED
      BY <1>4, <2>1 DEF Queued, KeptOf, Uncontrolled
  <1>5. CASE c \notin Control /\ Grouped(c)
    <2>1. queue # << >>
      BY <1>5 DEF Grouped
    <2>2. FlattenSeq([queue EXCEPT ![Len(queue)] = Append(@, c)]) = FlattenSeq(queue) \o << c >>
      BY <1>1, <1>2, <2>1, EntriesAreSequences, FlattenLast, ZenonT(60)
    <2> QED
      BY <1>1, <1>3, <1>5, <2>2 DEF Queued, KeptOf, Uncontrolled
  <1>6. CASE c \notin Control /\ ~Grouped(c)
    <2>1. << c >> \in Entries
      BY <1>1, <1>6, EntryOfChar
    <2>2. FlattenSeq(Append(queue, << c >>)) = FlattenSeq(queue) \o << c >>
      BY <1>2, <2>1, EntriesAreSequences, FlattenAppend, ZenonT(60)
    <2> QED
      BY <1>1, <1>3, <1>6, <2>2 DEF Queued, KeptOf, Uncontrolled
  <1> QED
    BY <1>4, <1>5, <1>6

\* Pushing an entry moves it from the head of the queue to the reader.
LEMMA FlushedFirst ==
  ASSUME TypeOK, OrderInv, Flush
  PROVE  /\ Head(queue) \in Entries /\ Head(queue) \in Seq(Chars)
         /\ FlattenSeq(queue') \in Seq(Chars) /\ forwarded' \in Seq(Chars)
         /\ received = forwarded' \o FlattenSeq(queue')
  <1>0. PICK h, t : h = Head(queue) /\ t = FlattenSeq(Tail(queue))
    OBVIOUS
  <1>1. queue # << >> /\ queue' = Tail(queue) /\ forwarded' = forwarded \o h /\ busy = "flushing"
    BY <1>0 DEF Flush
  <1>2. h \in Entries /\ Tail(queue) \in Seq(Entries)
    BY <1>0, <1>1, PartsType, HeadTailProperties
  <1>3. h \in Seq(Chars)
    BY <1>2 DEF Entries
  <1>4. t \in Seq(Chars)
    BY <1>0, <1>2, EntriesAreSequences, FlattenType
  <1>5. FlattenSeq(queue) = h \o t
    BY <1>0, <1>1, PartsType, EntriesAreSequences, FlattenHead
  <1>6. received = (forwarded \o (h \o t)) \o << >>
    BY <1>1, <1>5 DEF OrderInv, Rest
  <1>7. forwarded \in Seq(Chars) /\ << >> \in Seq(Chars)
    BY PartsType, EmptySeq
  <1>8. forwarded \o h \in Seq(Chars) /\ h \o t \in Seq(Chars)
    BY <1>3, <1>4, <1>7, ConcatProperties
  <1>9. forwarded \o (h \o t) \in Seq(Chars)
    BY <1>7, <1>8, ConcatProperties
  <1>10. received = forwarded \o (h \o t)
    BY <1>6, <1>9, ConcatEmptySeq
  <1>11. forwarded \o (h \o t) = (forwarded \o h) \o t
    BY <1>3, <1>4, <1>7, ConcatAssociative, SMTT(60)
  <1> QED
    BY <1>0, <1>1, <1>2, <1>3, <1>4, <1>8, <1>10, <1>11

\* .editor is in pass-through mode after every character the REPL reads.
LEMMA ReadEditor ==
  ASSUME reader = "editor" => ~blocking, NEW c, Read(c)
  PROVE  reader' = "editor" => ~blocking'
  <1>1. CASE EndsInput(c) /\ Line
    BY <1>1 DEF EndsInput, Line
  <1>2. CASE AtPrompt(c)
    BY <1>2 DEF AtPrompt
  <1>3. CASE InEditor(c)
    BY <1>3 DEF InEditor
  <1>4. CASE NoLine(c)
    BY <1>4 DEF NoLine, gate
  <1> QED
    BY <1>1, <1>2, <1>3, <1>4 DEF Read

\* A data event that is put into the queue does not leave blocking.
LEMMA TakeBlocks ==
  ASSUME Take, busy = "taking" => blocking, reader = "editor" => ~blocking
  PROVE  blocking' /\ reader' # "editor"
  <1>1. blocking /\ reader # "editor"
    BY DEF Take
  <1>2. CASE Head(chunk) \notin Control
    BY <1>1, <1>2 DEF Take, gate, repl
  <1>3. CASE Head(chunk) \in Control
    <2>1. Read(Head(chunk)) /\ Head(chunk) \notin { CR, LF }
      BY <1>3, CharsApart DEF Take
    <2>2. AtPrompt(Head(chunk)) \/ NoLine(Head(chunk))
      BY <1>1, <2>1 DEF Read, EndsInput, InEditor
    <2> QED
      BY <1>1, <2>2 DEF AtPrompt, NoLine, gate
  <1> QED
    BY <1>2, <1>3

\* Every step keeps the characters in order.
LEMMA NextOrder ==
  ASSUME TypeOK, OrderInv, [Next]_vars
  PROVE  OrderInv'
  <1>1. ASSUME NEW c \in Chunks, Data(c)
        PROVE  OrderInv'
    <2>1. busy = "idle" /\ Rest = << >> /\ queue' = queue /\ forwarded' = forwarded
          /\ received' = received \o Plain(c) /\ Rest' = Plain(c)
          /\ blocking' = blocking /\ reader' = reader
          /\ busy' = IF blocking THEN "taking" ELSE "passing"
      BY <1>1 DEF Data, Rest, gate, repl
    <2>2. PICK p : p = forwarded \o FlattenSeq(queue)
      OBVIOUS
    <2>3. p \in Seq(Chars)
      BY <2>2, PartsType, ConcatProperties
    <2>4. received = p
      BY <2>1, <2>2, <2>3, ConcatEmptySeq DEF OrderInv
    <2>5. received' = (forwarded' \o FlattenSeq(queue')) \o Rest'
      BY <2>1, <2>2, <2>4
    <2> QED
      BY <2>1, <2>5 DEF OrderInv, TypeOK
  <1>2. CASE Take
    <2>1. /\ busy = "taking" /\ chunk # << >> /\ busy' = busy /\ chunk' = Tail(chunk)
          /\ queue' = Queued(Head(chunk)) /\ forwarded' = forwarded /\ received' = received
      BY <1>2 DEF Take, Queued
    <2>2. PICK k, r : k = KeptOf(Head(chunk), Uncontrolled) /\ r = Plain(Tail(chunk))
      OBVIOUS
    <2>3. k \in Seq(Chars) /\ FlattenSeq(queue') = FlattenSeq(queue) \o k
      BY <2>1, <2>2, QueuedLast
    <2>4. Rest = k \o r /\ Rest' = r
      BY <2>1, <2>2, PartsType, PlainHead DEF Rest
    <2>5. r \in Seq(Chars)
      BY <2>1, <2>2, PartsType, PlainType, HeadTailProperties
    <2>6. PICK a, b : a = forwarded /\ b = FlattenSeq(queue)
      OBVIOUS
    <2>7. a \in Seq(Chars) /\ b \in Seq(Chars)
      BY <2>6, PartsType
    <2>8. (a \o (b \o k)) \o r = ((a \o b) \o k) \o r /\ ((a \o b) \o k) \o r = (a \o b) \o (k \o r)
      <3>1. a \in Seq(Chars) /\ b \in Seq(Chars) /\ k \in Seq(Chars) /\ r \in Seq(Chars)
        BY <2>3, <2>5, <2>7
      <3>2. (a \o (b \o k)) \o r = ((a \o b) \o k) \o r
        BY <3>1, ConcatAssociative, SMTT(60)
      <3>3. ((a \o b) \o k) \o r = (a \o b) \o (k \o r)
        <4>1. PICK p : p = a \o b
          OBVIOUS
        <4>2. p \in Seq(Chars)
          BY <3>1, <4>1, ConcatProperties
        <4>3. (p \o k) \o r = p \o (k \o r)
          BY <3>1, <4>2, ConcatAssociative, SMTT(60)
        <4> QED
          BY <4>1, <4>3
      <3> QED
        BY <3>2, <3>3
    <2>9. received = (a \o b) \o (k \o r)
      BY <2>4, <2>6 DEF OrderInv
    <2>10. received' = (forwarded' \o FlattenSeq(queue')) \o Rest'
      BY <2>1, <2>3, <2>4, <2>6, <2>8, <2>9
    <2>11. blocking' /\ reader' # "editor"
      BY <1>2, TakeBlocks DEF OrderInv
    <2> QED
      BY <2>1, <2>10, <2>11 DEF OrderInv
  <1>3. CASE Pass
    <2>1. /\ busy = "passing" /\ busy' = "passed" /\ queue' = queue /\ received' = received
          /\ forwarded' = forwarded \o Plain(chunk) /\ blocking' = blocking
          /\ Rest = Plain(chunk) /\ Rest' = << >> /\ reader' = reader
      BY <1>3 DEF Pass, Rest, gate, repl
    <2>2. ~blocking /\ queue = << >> /\ FlattenSeq(queue) = << >>
      BY <2>1, FlattenNone DEF OrderInv
    <2>3. forwarded \o << >> = forwarded
      BY PartsType, ConcatEmptySeq
    <2>4. received = forwarded'
      BY <2>1, <2>2, <2>3 DEF OrderInv
    <2>5. forwarded' \in Seq(Chars)
      BY <2>4, PartsType
    <2>6. (forwarded' \o << >>) \o << >> = forwarded'
      BY <2>5, ConcatEmptySeq
    <2> QED
      BY <2>1, <2>2, <2>4, <2>6 DEF OrderInv
  <1>4. CASE React
    <2>1. /\ Rest = << >> /\ Rest' = << >> /\ queue' = queue /\ forwarded' = forwarded
          /\ received' = received /\ paused' = paused
      BY <1>4 DEF React, Rest
    <2>2. received' = (forwarded' \o FlattenSeq(queue')) \o Rest'
      BY <2>1 DEF OrderInv
    <2>3. reader' = "editor" => ~blocking'
      BY <1>4, ReadEditor DEF React, OrderInv
    <2>4. \/ busy = "pushed" /\ busy' \in { "pushed", "flushing" }
          \/ busy = "passed" /\ busy' \in { "passed", "idle" }
      BY <1>4 DEF React
    <2> QED
      BY <2>1, <2>2, <2>3, <2>4 DEF OrderInv
  <1>5. CASE StartFlush
    <2>1. Rest = << >> /\ Rest' = << >>
      BY <1>5, PlainNone DEF StartFlush, Rest
    <2> QED
      BY <1>5, <2>1 DEF StartFlush, OrderInv, gate, repl
  <1>6. CASE FlushEnds
    <2>1. Rest = << >> /\ Rest' = << >>
      BY <1>6 DEF FlushEnds, Rest
    <2> QED
      BY <1>6, <2>1 DEF FlushEnds, OrderInv, ShouldForward, gate, repl
  <1>7. CASE Flush
    <2>1. /\ FlattenSeq(queue') \in Seq(Chars) /\ forwarded' \in Seq(Chars)
          /\ received = forwarded' \o FlattenSeq(queue')
      BY <1>7, FlushedFirst
    <2>2. received' = received /\ busy' = "pushed" /\ Rest' = << >> /\ ~paused'
          /\ reader' = reader /\ blocking' = blocking
      BY <1>7 DEF Flush, Rest, repl
    <2>3. received \o << >> = received
      BY PartsType, ConcatEmptySeq
    <2> QED
      BY <2>1, <2>2, <2>3 DEF OrderInv
  <1>8. CASE EvalEnds
    <2>1. Rest = << >> /\ Rest' = << >>
      BY <1>8 DEF EvalEnds, Rest
    <2> QED
      BY <1>8, <2>1 DEF EvalEnds, OrderInv
  <1>9. CASE DelayPasses \/ PauseInput \/ ResumeInput \/ Quiet \/ UNCHANGED vars
    <2>1. Rest' = Rest
      BY <1>9 DEF DelayPasses, PauseInput, ResumeInput, Quiet, vars, Rest
    <2>2. /\ received' = received /\ forwarded' = forwarded /\ queue' = queue
          /\ busy' = busy /\ blocking' = blocking /\ reader' = reader
          /\ paused' # paused => busy = "idle"
      BY <1>9 DEF DelayPasses, PauseInput, ResumeInput, Quiet, vars, gate, repl
    <2>3. received' = (forwarded' \o FlattenSeq(queue')) \o Rest'
      BY <2>1, <2>2 DEF OrderInv
    <2> QED
      BY <2>2, <2>3 DEF OrderInv
  <1> QED
    BY <1>1, <1>2, <1>3, <1>4, <1>5, <1>6, <1>7, <1>8, <1>9 DEF Next

\* The characters are in order in every reachable state.
LEMMA OrderCorrect == Spec => [](TypeOK /\ OrderInv)
  <1>1. Init => TypeOK /\ OrderInv
    <2> SUFFICES ASSUME Init PROVE TypeOK /\ OrderInv
      OBVIOUS
    <2>1. TypeOK
      BY InitType
    <2>2. Rest = << >> /\ FlattenSeq(queue) = << >> /\ forwarded = << >> /\ received = << >>
      BY FlattenNone DEF Init, Rest
    <2>3. (<< >> \o << >>) \o << >> = << >>
      <3>1. << >> \in Seq(Chars)
        BY EmptySeq
      <3> QED
        BY <3>1, ConcatEmptySeq
    <2> QED
      BY <2>1, <2>2, <2>3 DEF Init, OrderInv
  <1>2. TypeOK /\ OrderInv /\ [Next]_vars => (TypeOK /\ OrderInv)'
    BY NextType, NextOrder
  <1> QED
    BY <1>1, <1>2, PTL DEF Spec

-----------------------------------------------------------------------------
(* The refinement.                                                         *)

\* The abstract reader's prefixes are those of this module.
LEMMA SamePrefix ==
  \A s, t : Gate!IsPrefix(s, t) = IsPrefix(s, t) /\ Gate!IsStrictPrefix(s, t) = IsStrictPrefix(s, t)
  BY DEF IsPrefix, IsStrictPrefix, Gate!IsPrefix, Gate!IsStrictPrefix

\* A step of the reader that changes neither what was received nor what it
\* has is a request, or none.
LEMMA AskSteps ==
  ASSUME received' = received, forwarded' = forwarded
  PROVE  Gate!Ask
  BY DEF Gate!Ask

\* Every step is one of the abstract reader, or none.
LEMMA NextGate ==
  ASSUME TypeOK, OrderInv, (TypeOK /\ OrderInv)', [Next]_vars
  PROVE  [Gate!Next]_(Gate!vars)
  <1> USE DEF Gate!Next
  <1>1. ASSUME NEW c \in Chunks, Data(c)
        PROVE  [Gate!Next]_(Gate!vars)
    <2>1. received' = received \o Plain(c) /\ forwarded' = forwarded
          /\ blocking' = blocking /\ forwarding' = forwarding
      BY <1>1 DEF Data, gate
    <2>2. c \in Seq(Chars)
      BY ChunksAssumption
    <2>3. Plain(c) \in Seq(Chars) /\ received \in Seq(Chars)
      BY <2>2, PlainType, PartsType
    <2>4. IsPrefix(received, received')
      BY <2>1, <2>3, FirstIsPrefix
    <2>5. CASE received' = received
      BY <2>1, <2>5 DEF Gate!vars
    <2>6. CASE received' # received
      BY <2>1, <2>4, <2>6, SamePrefix DEF Gate!Send, IsStrictPrefix
    <2> QED
      BY <2>5, <2>6
  <1>2. CASE \/ Take \/ StartFlush \/ FlushEnds \/ React \/ EvalEnds \/ DelayPasses
             \/ PauseInput \/ ResumeInput
    <2>1. received' = received /\ forwarded' = forwarded
      BY <1>2 DEF Take, StartFlush, FlushEnds, React, EvalEnds, DelayPasses, PauseInput,
         ResumeInput
    <2> QED
      BY <2>1, AskSteps
  <1>3. CASE Pass
    <2>1. /\ busy = "passing" /\ forwarded' = forwarded \o Plain(chunk)
          /\ blocking' = blocking /\ forwarding' = forwarding /\ received' = received
          /\ busy' = "passed" /\ queue' = queue
      BY <1>3 DEF Pass, gate
    <2>2. ~blocking /\ queue = << >> /\ FlattenSeq(queue') = << >> /\ Rest' = << >>
      BY <2>1, FlattenNone DEF OrderInv, Rest
    <2>3. forwarded' \in Seq(Chars)
      BY <2>1, PartsType, ConcatProperties
    <2>4. received' = forwarded'
      BY <2>2, <2>3, ConcatEmptySeq DEF OrderInv
    <2>5. IsPrefix(forwarded, forwarded')
      BY <2>1, PartsType, FirstIsPrefix
    <2>6. IsPrefix(forwarded', forwarded')
      BY <2>3 DEF IsPrefix
    <2>7. CASE forwarded' = forwarded
      BY <2>1, <2>7 DEF Gate!vars
    <2>8. CASE forwarded' # forwarded
      BY <2>1, <2>2, <2>4, <2>5, <2>6, <2>8, SamePrefix DEF Gate!DeliverAll, IsStrictPrefix
    <2> QED
      BY <2>7, <2>8
  <1>4. CASE Flush
    <2>0. PICK h : h = Head(queue)
      OBVIOUS
    <2>1. /\ forwarded' = forwarded \o h /\ received' = received /\ blocking' = blocking
          /\ forwarding' = (forwarding /\ h \notin Newlines)
          /\ (~blocking \/ forwarding)
      BY <1>4, <2>0 DEF Flush, EndsLine, ShouldForward
    <2>2. h \in Entries /\ h \in Seq(Chars)
      BY <1>4, <2>0, FlushedFirst
    <2>3. IsPrefix(forwarded, forwarded')
          /\ SubSeq(forwarded', Len(forwarded) + 1, Len(forwarded')) = h
      BY <2>1, <2>2, PartsType, FirstIsPrefix
    <2>4. forwarded' # forwarded
      <3>1. h # << >>
        BY <2>2, EntryNotEmpty
      <3> QED
        BY <2>1, <2>2, <3>1, PartsType, ConcatEqualIffEmpty
    <2>5. IsPrefix(forwarded', received)
      BY <1>4, FlushedFirst, FirstIsPrefix, ZenonT(60)
    <2>6. CASE ~blocking
      BY <2>1, <2>3, <2>4, <2>5, <2>6, SamePrefix DEF Gate!DeliverAll, IsStrictPrefix
    <2>7. CASE blocking
      <3>1. forwarding /\ blocking' /\ forwarding' = (h \notin Newlines)
        BY <2>1, <2>7 DEF TypeOK
      <3>2. h \notin Newlines => \A i \in 1 .. Len(h) : << h[i] >> \notin Newlines
        BY <2>2, EntryApart
      <3>3. Gate!New = h
        BY <2>3 DEF Gate!New
      <3> QED
        BY <2>1, <2>3, <2>4, <2>5, <2>7, <3>1, <3>2, <3>3, SamePrefix DEF Gate!DeliverLine,
           IsStrictPrefix
    <2> QED
      BY <2>6, <2>7
  <1>5. CASE Quiet \/ UNCHANGED vars
    BY <1>5 DEF Quiet, vars, Gate!vars
  <1> QED
    BY <1>1, <1>2, <1>3, <1>4, <1>5 DEF Next

\* LineByLineInput implements LineGate: the reader gets the characters in
\* order, each once, and nothing after the end of a line until it asks.
THEOREM GateSpecCorrect == Spec => GateSpec
  <1>1. Init => Gate!Init
    BY DEF Init, Gate!Init
  <1>2. TypeOK /\ OrderInv /\ (TypeOK /\ OrderInv)' /\ [Next]_vars => [Gate!Next]_(Gate!vars)
    BY NextGate
  <1>3. Spec => Init /\ [][Next]_vars
    BY PTL DEF Spec
  <1> QED
    BY <1>1, <1>2, <1>3, OrderCorrect, PTL DEF GateSpec, Gate!Spec

-----------------------------------------------------------------------------
(* InterruptFlag.                                                          *)

Kinds == { "call", "watch", "cleanup" }

\* The component's Among is that of this module.
LEMMA FlagAmong == \A s, T : Flag!Among(s, T) = Among(s, T)
  <1>1. \A x, T : Flag!KeptOf(x, T) = KeptOf(x, T)
    BY DEF KeptOf, Flag!KeptOf
  <1> QED
    BY <1>1 DEF Among, Flag!Among

\* A sequence of listeners has one of a call.
Holds(s, c, k) == << c, k >> \in ToSet(s)

\* Adding a listener adds just this one.
LEMMA HoldsAppend ==
  ASSUME NEW s \in Seq(Flag!Listener), NEW c \in Calls, NEW k \in Kinds
  PROVE  /\ Append(s, << c, k >>) \in Seq(Flag!Listener)
         /\ \A d, j : Holds(Append(s, << c, k >>), d, j) <=> Holds(s, d, j) \/ (d = c /\ j = k)
  <1>1. << c, k >> \in Flag!Listener
    BY DEF Flag!Listener, Kinds
  <1>2. ToSet(Append(s, << c, k >>)) = ToSet(s) \cup { << c, k >> }
    BY <1>1, MembersOfAppend
  <1>3. \A d, j : << d, j >> = << c, k >> <=> d = c /\ j = k
    OBVIOUS
  <1>4. \A d, j : Holds(Append(s, << c, k >>), d, j) <=> Holds(s, d, j) \/ (d = c /\ j = k)
    BY <1>2, <1>3 DEF Holds
  <1> QED
    BY <1>1, <1>4, AppendProperties

\* Adding two adds these two.
LEMMA HoldsConcat ==
  ASSUME NEW s \in Seq(Flag!Listener), NEW c \in Calls
  PROVE  /\ s \o << << c, "watch" >>, << c, "cleanup" >> >> \in Seq(Flag!Listener)
         /\ \A d, j : Holds(s \o << << c, "watch" >>, << c, "cleanup" >> >>, d, j)
                        <=> Holds(s, d, j) \/ (d = c /\ j \in { "watch", "cleanup" })
  <1>1. PICK t : t = << << c, "watch" >>, << c, "cleanup" >> >>
    OBVIOUS
  <1>2. t \in Seq(Flag!Listener)
    BY <1>1 DEF Flag!Listener
  <1>3. ToSet(t) = { << c, "watch" >>, << c, "cleanup" >> }
    <2>1. DOMAIN t = 1 .. 2 /\ t[1] = << c, "watch" >> /\ t[2] = << c, "cleanup" >>
      BY <1>1
    <2>2. 1 .. 2 = { 1, 2 }
      OBVIOUS
    <2> QED
      BY <2>1, <2>2 DEF ToSet
  <1>4. ToSet(s \o t) = ToSet(s) \cup ToSet(t)
    BY <1>2, MembersOfConcat
  <1>5. \A d, j : /\ << d, j >> = << c, "watch" >> <=> d = c /\ j = "watch"
                  /\ << d, j >> = << c, "cleanup" >> <=> d = c /\ j = "cleanup"
    OBVIOUS
  <1>6. \A d, j : Holds(s \o t, d, j) <=> Holds(s, d, j) \/ (d = c /\ j \in { "watch", "cleanup" })
    BY <1>3, <1>4, <1>5 DEF Holds
  <1>7. s \o t \in Seq(Flag!Listener)
    BY <1>2, ConcatProperties
  <1> QED
    BY <1>1, <1>6, <1>7

\* Deleting listeners of a call deletes just these.
LEMMA HoldsWithout ==
  ASSUME listeners \in Seq(Flag!Listener), NEW c \in Calls, NEW kinds
  PROVE  /\ Flag!Without(c, kinds) \in Seq(Flag!Listener)
         /\ \A d \in Calls, j \in Kinds :
              Holds(Flag!Without(c, kinds), d, j) <=> Holds(listeners, d, j) /\ (d # c \/ j \notin kinds)
  <1>1. PICK T : T = { l \in Flag!Listener : l[1] # c \/ l[2] \notin kinds }
    OBVIOUS
  <1>2. Flag!Without(c, kinds) = Among(listeners, T)
    BY <1>1, FlagAmong DEF Flag!Without
  <1>3. ToSet(Among(listeners, T)) = ToSet(listeners) \cap T
    BY AmongMembers
  <1>4. \A d \in Calls, j \in Kinds : << d, j >> \in T <=> d # c \/ j \notin kinds
    BY <1>1 DEF Flag!Listener, Kinds
  <1>5. \A d \in Calls, j \in Kinds :
          Holds(Among(listeners, T), d, j) <=> Holds(listeners, d, j) /\ (d # c \/ j \notin kinds)
    BY <1>3, <1>4 DEF Holds
  <1>6. Among(listeners, T) \in Seq(Flag!Listener)
    BY AmongType
  <1> QED
    BY <1>2, <1>5, <1>6

\* The first listener is one, and the others are the rest.
LEMMA HoldsTail ==
  ASSUME NEW s \in Seq(Flag!Listener), s # << >>
  PROVE  /\ Tail(s) \in Seq(Flag!Listener)
         /\ Head(s)[1] \in Calls /\ Head(s)[2] \in Kinds
         /\ Holds(s, Head(s)[1], Head(s)[2])
         /\ \A d, j : Holds(s, d, j) => Holds(Tail(s), d, j) \/ (d = Head(s)[1] /\ j = Head(s)[2])
         /\ \A d, j : Holds(Tail(s), d, j) => Holds(s, d, j)
  <1>1. PICK h, t : h = Head(s) /\ t = Tail(s)
    OBVIOUS
  <1>2. /\ h \in Flag!Listener /\ t \in Seq(Flag!Listener)
        /\ ToSet(s) = { h } \cup ToSet(t)
    BY <1>1, HeadTailProperties, MembersOfTail
  <1>3. h[1] \in Calls /\ h[2] \in Kinds /\ h = << h[1], h[2] >>
    BY <1>2 DEF Flag!Listener, Kinds
  <1>4. \A d, j : << d, j >> = h => d = h[1] /\ j = h[2]
    OBVIOUS
  <1>5. Holds(s, h[1], h[2])
    BY <1>2, <1>3 DEF Holds
  <1>6. \A d, j : Holds(s, d, j) => Holds(t, d, j) \/ (d = h[1] /\ j = h[2])
    BY <1>2, <1>4 DEF Holds
  <1>7. \A d, j : Holds(t, d, j) => Holds(s, d, j)
    BY <1>2 DEF Holds
  <1> QED
    BY <1>1, <1>2, <1>3, <1>5, <1>6, <1>7

\* The states of a body that withOverrideInterruptBehavior() is at work in.
Overriding == { "sampling", "sampled", "broken", "cut", "waiting", "barred" }

\* A body belongs to a call that has begun, and the methods with a cleanup
\* are those that use the override.
BodyInv ==
  \A c \in Calls :
    /\ body[c] \in Overriding => c \in Processes
    /\ wrapper[c] = "none" => body[c] = "none"
    /\ \A k \in { "watch", "cleanup" } :
         Holds(listeners, c, k) \/ Holds(told, c, k) => c \in Processes

\* The listeners are those of the calls in flight and of their overrides.
ListenInv ==
  \A c \in Calls :
    /\ Holds(listeners, c, "call") <=> Flag!InFlight(c)
    /\ \A k \in { "watch", "cleanup" } : Holds(listeners, c, k) => body[c] \in Overriding
    /\ body[c] \in Overriding => Holds(listeners, c, "cleanup")

\* A call that was in flight has no value and is still to be rejected, or
\* has been, before the connections are severed.
HitInv ==
  \A c \in hit :
    /\ c \in Calls /\ (Flag!InFlight(c) \/ wrapper[c] \in { "error", "interrupted" })
    /\ phase = "none" => ~Flag!InFlight(c)
    /\ wrapper[c] = "pending" => phase \in { "telling", "cleaning" } /\ Holds(told, c, "call")

\* The cleanup of an override that was at work is still to be started, is
\* being awaited, or done before the connections are severed.
InsideInv ==
  /\ \A c \in inside :
       /\ phase = "telling" => cleanup[c] = "done" \/ Holds(told, c, "cleanup")
       /\ phase = "cleaning" => cleanup[c] \in { "running", "done" } \/ Holds(told, c, "cleanup")
       /\ phase = "severed" => cleanup[c] = "done"
  /\ \A c \in Processes : cleanup[c] = "running" =>
       phase = "cleaning" /\ \A d \in Processes : cleanup[d] = "running" => d = c

\* The inductive invariant of InterruptFlag.
FlagInv ==
  /\ Flag!TypeOK /\ BodyInv /\ ListenInv /\ HitInv /\ InsideInv
  /\ flag <=> phase # "none"

\* The invariant gives the property.
LEMMA FlagInvClean ==
  ASSUME FlagInv
  PROVE  Flag!InterruptsClean
  <1>1. Flag!InterruptedCallFails
    BY DEF FlagInv, HitInv, Flag!InterruptedCallFails, Flag!InFlight
  <1>2. Flag!CleanBeforeSevered
    BY DEF FlagInv, HitInv, InsideInv, Flag!CleanBeforeSevered
  <1>3. Flag!NoStaleListener
    <2> SUFFICES ASSUME NEW i \in 1 .. Len(listeners)
                 PROVE  LET c == listeners[i][1] kind == listeners[i][2] IN
                          IF kind = "call" THEN Flag!InFlight(c) ELSE body[c] # "ended"
      BY DEF Flag!NoStaleListener
    <2>1. listeners \in Seq(Flag!Listener)
      BY DEF FlagInv, Flag!TypeOK
    <2>2. PICK l : l = listeners[i]
      OBVIOUS
    <2>3. l \in Flag!Listener /\ l \in ToSet(listeners)
      <3>1. i \in DOMAIN listeners
        BY <2>1, LenProperties
      <3>2. l \in Flag!Listener
        BY <2>1, <2>2, ElementOfSeq
      <3> QED
        BY <2>2, <3>1, <3>2 DEF ToSet
    <2>4. l[1] \in Calls /\ l[2] \in Kinds /\ l = << l[1], l[2] >>
      BY <2>3 DEF Flag!Listener, Kinds
    <2>5. Holds(listeners, l[1], l[2])
      BY <2>3, <2>4 DEF Holds
    <2>6. IF l[2] = "call" THEN Flag!InFlight(l[1]) ELSE body[l[1]] # "ended"
      BY <2>4, <2>5 DEF FlagInv, ListenInv, Kinds, Overriding
    <2> QED
      BY <2>2, <2>6
  <1> QED
    BY <1>1, <1>2, <1>3 DEF Flag!InterruptsClean

\* Nothing is in the empty sequence.
LEMMA HoldsNone == \A d, j : ~Holds(<< >>, d, j)
  <1>1. ToSet(<< >>) = {}
    BY DEF ToSet
  <1> QED
    BY <1>1 DEF Holds

\* The invariant holds before anything is called.
LEMMA FlagInit ==
  ASSUME Flag!CallsAssumption, Flag!Init
  PROVE  FlagInv
  <1>1. Flag!TypeOK
    <2>1. listeners \in Seq(Flag!Listener) /\ told \in Seq(Flag!Listener)
      BY EmptySeq DEF Flag!Init
    <2>2. /\ wrapper \in [Calls -> Flag!Wrappers] /\ body \in [Calls -> Flag!Bodies]
          /\ cleanup \in [Processes -> { "none", "running", "done" }]
      BY DEF Flag!Init, Flag!Wrappers, Flag!Bodies
    <2>3. /\ flag \in BOOLEAN /\ phase \in { "none", "telling", "cleaning", "severed" }
          /\ hit \subseteq Calls /\ inside \subseteq Processes /\ interrupts \in 0 .. MaxInterrupts
      <3>1. flag \in BOOLEAN
        BY DEF Flag!Init
      <3>2. 0 \in 0 .. MaxInterrupts
        BY DEF Flag!CallsAssumption
      <3>3. phase = "none" /\ hit = {} /\ inside = {} /\ interrupts = 0
        BY DEF Flag!Init
      <3> QED
        BY <3>1, <3>2, <3>3
    <2> QED
      BY <2>1, <2>2, <2>3 DEF Flag!TypeOK
  <1>2. BodyInv /\ ListenInv /\ HitInv /\ InsideInv
    BY HoldsNone DEF Flag!CallsAssumption, Flag!Init, BodyInv, ListenInv, HitInv, InsideInv,
       Flag!InFlight, Overriding
  <1> QED
    BY <1>1, <1>2 DEF FlagInv, Flag!Init

\* The wrapper of a call begins.
LEMMA FlagCall ==
  ASSUME Flag!CallsAssumption, FlagInv, NEW c \in Calls, Flag!Call(c)
  PROVE  FlagInv'
  <1>1. listeners \in Seq(Flag!Listener) /\ told \in Seq(Flag!Listener)
    BY DEF FlagInv, Flag!TypeOK
  <1>2. "call" \in Kinds
    BY DEF Kinds
  <1>3. /\ Append(listeners, << c, "call" >>) \in Seq(Flag!Listener)
        /\ \A d, j : Holds(Append(listeners, << c, "call" >>), d, j)
                       <=> Holds(listeners, d, j) \/ (d = c /\ j = "call")
    BY <1>1, <1>2, HoldsAppend
  <1>21. Flag!TypeOK'
    BY <1>1, <1>3 DEF FlagInv, Flag!Call, Flag!history, Flag!interrupt, Flag!CallsAssumption,
       Flag!TypeOK, Flag!Wrappers, Flag!Bodies
  <1>22. BodyInv'
    BY <1>1, <1>3, ZenonT(60) DEF FlagInv, Flag!Call, Flag!history, Flag!interrupt,
       Flag!TypeOK, BodyInv, ListenInv, Overriding, Kinds
  <1>23. ListenInv'
    <2> SUFFICES ASSUME NEW e \in Calls
                 PROVE  /\ Holds(listeners', e, "call") <=> Flag!InFlight(e)'
                        /\ \A k \in { "watch", "cleanup" } : Holds(listeners', e, k) => body'[e] \in Overriding
                        /\ body'[e] \in Overriding => Holds(listeners', e, "cleanup")
      BY DEF ListenInv
    <2>1. Holds(listeners', e, "call") <=> Flag!InFlight(e)'
      <3>1. Holds(listeners, e, "call") <=> Flag!InFlight(e)
        BY DEF FlagInv, ListenInv
      <3>2. Holds(listeners', e, "call") <=> Holds(listeners, e, "call") \/ (~flag /\ e = c)
        BY <1>1, <1>3, ZenonT(60) DEF Flag!Call
      <3>3. Flag!InFlight(e)' <=> Flag!InFlight(e) \/ (~flag /\ e = c)
        BY DEF Flag!Call, FlagInv, Flag!TypeOK, Flag!InFlight, Flag!interrupt, Flag!history
      <3> QED
        BY <3>1, <3>2, <3>3
    <2>2. \A k \in { "watch", "cleanup" } : Holds(listeners', e, k) => body'[e] \in Overriding
      BY <1>1, <1>3, ZenonT(60) DEF Flag!Call, FlagInv, Flag!TypeOK, BodyInv, ListenInv,
         Overriding
    <2>3. body'[e] \in Overriding => Holds(listeners', e, "cleanup")
      BY <1>1, <1>3, ZenonT(60) DEF Flag!Call, FlagInv, Flag!TypeOK, ListenInv, Overriding
    <2> QED
      BY <2>1, <2>2, <2>3
  <1>24. HitInv'
    BY <1>1, <1>3 DEF FlagInv, Flag!Call, Flag!history, Flag!interrupt, Flag!TypeOK, HitInv,
       Flag!InFlight
  <1>25. InsideInv'
    BY <1>1, <1>3 DEF FlagInv, Flag!Call, Flag!history, Flag!interrupt, Flag!TypeOK, InsideInv
  <1> QED
    BY <1>21, <1>22, <1>23, <1>24, <1>25 DEF FlagInv, Flag!Call, Flag!interrupt, Flag!history

\* The body of a method without an override, or before it, ends.
LEMMA FlagBodyEnds ==
  ASSUME Flag!CallsAssumption, FlagInv, NEW c \in Calls, Flag!BodyEnds(c)
  PROVE  FlagInv'
  <1>21. Flag!TypeOK'
    BY DEF FlagInv, Flag!BodyEnds, Flag!End, Flag!history, Flag!interrupt,
       Flag!CallsAssumption, Flag!TypeOK, Flag!Wrappers, Flag!Bodies
  <1>22. BodyInv'
    BY DEF FlagInv, Flag!BodyEnds, Flag!End, Flag!history, Flag!interrupt, Flag!TypeOK,
       BodyInv, ListenInv, Overriding, Kinds
  <1>23. ListenInv'
    BY DEF FlagInv, Flag!BodyEnds, Flag!End, Flag!history, Flag!interrupt, Flag!TypeOK,
       BodyInv, ListenInv, Overriding, Kinds, Flag!InFlight
  <1>24. HitInv'
    BY DEF FlagInv, Flag!BodyEnds, Flag!End, Flag!history, Flag!interrupt, Flag!TypeOK,
       HitInv, Flag!InFlight
  <1>25. InsideInv'
    BY DEF FlagInv, Flag!BodyEnds, Flag!End, Flag!history, Flag!interrupt, Flag!TypeOK,
       InsideInv
  <1> QED
    BY <1>21, <1>22, <1>23, <1>24, <1>25 DEF FlagInv, Flag!BodyEnds, Flag!End,
       Flag!interrupt, Flag!history

\* The wrapper goes on after its race.
LEMMA FlagReturn ==
  ASSUME Flag!CallsAssumption, FlagInv, NEW c \in Calls, Flag!Return(c)
  PROVE  FlagInv'
  <1>1. listeners \in Seq(Flag!Listener) /\ told \in Seq(Flag!Listener)
    BY DEF FlagInv, Flag!TypeOK
  <1>3. /\ Flag!Without(c, { "call" }) \in Seq(Flag!Listener)
        /\ \A d \in Calls, j \in Kinds :
             Holds(Flag!Without(c, { "call" }), d, j)
               <=> Holds(listeners, d, j) /\ (d # c \/ j \notin { "call" })
    BY <1>1, HoldsWithout
  <1>21. Flag!TypeOK'
    BY <1>1, <1>3 DEF FlagInv, Flag!Return, Flag!Outcome, Flag!history, Flag!interrupt,
       Flag!CallsAssumption, Flag!TypeOK, Flag!Wrappers, Flag!Bodies
  <1>22. BodyInv'
    BY <1>1, <1>3 DEF FlagInv, Flag!Return, Flag!Outcome, Flag!history, Flag!interrupt,
       Flag!TypeOK, BodyInv, ListenInv, Overriding, Kinds
  <1>23. ListenInv'
    BY <1>1, <1>3 DEF FlagInv, Flag!Return, Flag!Outcome, Flag!history, Flag!interrupt,
       Flag!TypeOK, BodyInv, ListenInv, Overriding, Kinds, Flag!InFlight
  <1>24. HitInv'
    BY <1>1, <1>3 DEF FlagInv, Flag!Return, Flag!Outcome, Flag!history, Flag!interrupt,
       Flag!TypeOK, HitInv, Flag!InFlight
  <1>25. InsideInv'
    BY <1>1, <1>3 DEF FlagInv, Flag!Return, Flag!Outcome, Flag!history, Flag!interrupt,
       Flag!TypeOK, InsideInv
  <1> QED
    BY <1>21, <1>22, <1>23, <1>24, <1>25 DEF FlagInv, Flag!Return, Flag!Outcome,
       Flag!interrupt, Flag!history

\* The override begins, or meets an interrupt in progress.
LEMMA FlagOverride ==
  ASSUME Flag!CallsAssumption, FlagInv, NEW c \in Calls, Flag!Override(c)
  PROVE  FlagInv'
  <1>1. listeners \in Seq(Flag!Listener) /\ told \in Seq(Flag!Listener)
    BY DEF FlagInv, Flag!TypeOK
  <1>2. "cleanup" \in Kinds
    BY DEF Kinds
  <1>3. /\ Append(listeners, << c, "cleanup" >>) \in Seq(Flag!Listener)
        /\ \A d, j : Holds(Append(listeners, << c, "cleanup" >>), d, j)
                       <=> Holds(listeners, d, j) \/ (d = c /\ j = "cleanup")
    BY <1>1, <1>2, HoldsAppend
  <1>4. PICK s : s = listeners \o << << c, "watch" >>, << c, "cleanup" >> >>
    OBVIOUS
  <1>5. /\ s \in Seq(Flag!Listener)
        /\ \A d, j : Holds(s, d, j) <=> Holds(listeners, d, j) \/ (d = c /\ j \in { "watch", "cleanup" })
    BY <1>1, <1>4, HoldsConcat
  <1>21. Flag!TypeOK'
    BY <1>1, <1>3, <1>4, <1>5 DEF FlagInv, Flag!Override, Flag!UsesOverride, Flag!history,
       Flag!interrupt, Flag!CallsAssumption, Flag!TypeOK, Flag!Wrappers, Flag!Bodies
  <1>22. BodyInv'
    BY <1>1, <1>3, <1>4, <1>5, ZenonT(60) DEF FlagInv, Flag!Override, Flag!UsesOverride,
       Flag!history, Flag!interrupt, Flag!TypeOK, BodyInv, ListenInv, Overriding, Kinds
  <1>23. ListenInv'
    <2> SUFFICES ASSUME NEW e \in Calls
                 PROVE  /\ Holds(listeners', e, "call") <=> Flag!InFlight(e)'
                        /\ \A k \in { "watch", "cleanup" } : Holds(listeners', e, k) => body'[e] \in Overriding
                        /\ body'[e] \in Overriding => Holds(listeners', e, "cleanup")
      BY DEF ListenInv
    <2>1. Holds(listeners', e, "call") <=> Flag!InFlight(e)'
      <3>1. Holds(listeners, e, "call") <=> Flag!InFlight(e)
        BY DEF FlagInv, ListenInv
      <3>2. Holds(listeners', e, "call") <=> Holds(listeners, e, "call")
        BY <1>1, <1>3, <1>4, <1>5, ZenonT(60) DEF Flag!Override, Flag!UsesOverride
      <3>3. Flag!InFlight(e)' <=> Flag!InFlight(e)
        BY DEF Flag!Override, FlagInv, Flag!TypeOK, Flag!InFlight, Flag!interrupt, Flag!history
      <3> QED
        BY <3>1, <3>2, <3>3
    <2>2. \A k \in { "watch", "cleanup" } : Holds(listeners', e, k) => body'[e] \in Overriding
      BY <1>1, <1>3, <1>4, <1>5, ZenonT(60) DEF Flag!Override, Flag!UsesOverride, FlagInv,
         Flag!TypeOK, BodyInv, ListenInv, Overriding
    <2>3. body'[e] \in Overriding => Holds(listeners', e, "cleanup")
      BY <1>1, <1>3, <1>4, <1>5, ZenonT(60) DEF Flag!Override, Flag!UsesOverride, FlagInv,
         Flag!TypeOK, ListenInv, Overriding
    <2> QED
      BY <2>1, <2>2, <2>3
  <1>24. HitInv'
    BY <1>1, <1>3, <1>4, <1>5 DEF FlagInv, Flag!Override, Flag!UsesOverride, Flag!history,
       Flag!interrupt, Flag!TypeOK, HitInv, Flag!InFlight
  <1>25. InsideInv'
    BY <1>1, <1>3, <1>4, <1>5 DEF FlagInv, Flag!Override, Flag!UsesOverride, Flag!history,
       Flag!interrupt, Flag!TypeOK, InsideInv
  <1> QED
    BY <1>21, <1>22, <1>23, <1>24, <1>25 DEF FlagInv, Flag!Override, Flag!UsesOverride,
       Flag!interrupt, Flag!history

\* fn returns or throws.
LEMMA FlagSampleEnds ==
  ASSUME Flag!CallsAssumption, FlagInv, NEW c \in Calls, Flag!SampleEnds(c)
  PROVE  FlagInv'
  <1>21. Flag!TypeOK'
    BY DEF FlagInv, Flag!SampleEnds, Flag!history, Flag!interrupt, Flag!CallsAssumption,
       Flag!TypeOK, Flag!Wrappers, Flag!Bodies
  <1>22. BodyInv'
    BY DEF FlagInv, Flag!SampleEnds, Flag!history, Flag!interrupt, Flag!TypeOK, BodyInv,
       ListenInv, Overriding, Kinds
  <1>23. ListenInv'
    BY DEF FlagInv, Flag!SampleEnds, Flag!history, Flag!interrupt, Flag!TypeOK, BodyInv,
       ListenInv, Overriding, Kinds, Flag!InFlight
  <1>24. HitInv'
    BY DEF FlagInv, Flag!SampleEnds, Flag!history, Flag!interrupt, Flag!TypeOK, HitInv,
       Flag!InFlight
  <1>25. InsideInv'
    BY DEF FlagInv, Flag!SampleEnds, Flag!history, Flag!interrupt, Flag!TypeOK, InsideInv
  <1> QED
    BY <1>21, <1>22, <1>23, <1>24, <1>25 DEF FlagInv, Flag!SampleEnds, Flag!interrupt,
       Flag!history

\* The catch block waits for the cleanup.
LEMMA FlagCatchOverride ==
  ASSUME Flag!CallsAssumption, FlagInv, NEW c \in Calls, Flag!CatchOverride(c)
  PROVE  FlagInv'
  <1>21. Flag!TypeOK'
    BY DEF FlagInv, Flag!CatchOverride, Flag!history, Flag!interrupt, Flag!CallsAssumption,
       Flag!TypeOK, Flag!Wrappers, Flag!Bodies
  <1>22. BodyInv'
    BY DEF FlagInv, Flag!CatchOverride, Flag!history, Flag!interrupt, Flag!TypeOK, BodyInv,
       ListenInv, Overriding, Kinds
  <1>23. ListenInv'
    BY DEF FlagInv, Flag!CatchOverride, Flag!history, Flag!interrupt, Flag!TypeOK, BodyInv,
       ListenInv, Overriding, Kinds, Flag!InFlight
  <1>24. HitInv'
    BY DEF FlagInv, Flag!CatchOverride, Flag!history, Flag!interrupt, Flag!TypeOK, HitInv,
       Flag!InFlight
  <1>25. InsideInv'
    BY DEF FlagInv, Flag!CatchOverride, Flag!history, Flag!interrupt, Flag!TypeOK, InsideInv
  <1> QED
    BY <1>21, <1>22, <1>23, <1>24, <1>25 DEF FlagInv, Flag!CatchOverride, Flag!interrupt,
       Flag!history

\* The finally block deletes the listeners of the override.
LEMMA FlagFinallyOverride ==
  ASSUME Flag!CallsAssumption, FlagInv, NEW c \in Calls, Flag!FinallyOverride(c)
  PROVE  FlagInv'
  <1>1. listeners \in Seq(Flag!Listener) /\ told \in Seq(Flag!Listener)
    BY DEF FlagInv, Flag!TypeOK
  <1>3. /\ Flag!Without(c, { "watch", "cleanup" }) \in Seq(Flag!Listener)
        /\ \A d \in Calls, j \in Kinds :
             Holds(Flag!Without(c, { "watch", "cleanup" }), d, j)
               <=> Holds(listeners, d, j) /\ (d # c \/ j \notin { "watch", "cleanup" })
    BY <1>1, HoldsWithout
  <1>21. Flag!TypeOK'
    BY <1>1, <1>3, ZenonT(60) DEF FlagInv, Flag!FinallyOverride, Flag!End, Flag!history,
       Flag!interrupt, Flag!CallsAssumption, Flag!TypeOK, Flag!Wrappers, Flag!Bodies
  <1>22. BodyInv'
    BY <1>1, <1>3 DEF FlagInv, Flag!FinallyOverride, Flag!End, Flag!history, Flag!interrupt,
       Flag!TypeOK, BodyInv, ListenInv, Overriding, Kinds
  <1>23. ListenInv'
    BY <1>1, <1>3 DEF FlagInv, Flag!FinallyOverride, Flag!End, Flag!history, Flag!interrupt,
       Flag!TypeOK, BodyInv, ListenInv, Overriding, Kinds, Flag!InFlight
  <1>24. HitInv'
    BY <1>1, <1>3 DEF FlagInv, Flag!FinallyOverride, Flag!End, Flag!history, Flag!interrupt,
       Flag!TypeOK, HitInv, Flag!InFlight
  <1>25. InsideInv'
    BY <1>1, <1>3 DEF FlagInv, Flag!FinallyOverride, Flag!End, Flag!history, Flag!interrupt,
       Flag!TypeOK, InsideInv
  <1> QED
    BY <1>21, <1>22, <1>23, <1>24, <1>25 DEF FlagInv, Flag!FinallyOverride, Flag!End,
       Flag!interrupt, Flag!history

\* The interrupt begins.
LEMMA FlagSet ==
  ASSUME Flag!CallsAssumption, FlagInv, Flag!Set
  PROVE  FlagInv'
  <1>1. listeners \in Seq(Flag!Listener) /\ told \in Seq(Flag!Listener)
    BY DEF FlagInv, Flag!TypeOK
  <1>21. Flag!TypeOK'
    BY <1>1 DEF FlagInv, Flag!Set, Flag!Snapshot, Flag!history, Flag!interrupt,
       Flag!CallsAssumption, Flag!TypeOK, Flag!Wrappers, Flag!Bodies, BodyInv, ListenInv,
       Overriding
  <1>22. BodyInv'
    BY <1>1 DEF FlagInv, Flag!Set, Flag!Snapshot, Flag!history, Flag!interrupt, Flag!TypeOK,
       BodyInv, ListenInv, Overriding, Kinds
  <1>23. ListenInv'
    BY <1>1 DEF FlagInv, Flag!Set, Flag!Snapshot, Flag!history, Flag!interrupt, Flag!TypeOK,
       BodyInv, ListenInv, Overriding, Kinds, Flag!InFlight
  <1>24. HitInv'
    BY <1>1 DEF FlagInv, Flag!Set, Flag!Snapshot, Flag!history, Flag!interrupt, Flag!TypeOK,
       HitInv, Flag!InFlight, BodyInv, ListenInv, Overriding
  <1>25. InsideInv'
    BY <1>1 DEF FlagInv, Flag!Set, Flag!Snapshot, Flag!history, Flag!interrupt, Flag!TypeOK,
       InsideInv, BodyInv, ListenInv, Overriding
  <1> QED
    BY <1>21, <1>22, <1>23, <1>24, <1>25 DEF FlagInv, Flag!Set, Flag!Snapshot,
       Flag!interrupt, Flag!history

\* The next listener is called.
LEMMA FlagTell ==
  ASSUME Flag!CallsAssumption, FlagInv, Flag!Tell
  PROVE  FlagInv'
  <1>1. listeners \in Seq(Flag!Listener) /\ told \in Seq(Flag!Listener)
    BY DEF FlagInv, Flag!TypeOK
  <1>3. PICK d, k, t : d = Head(told)[1] /\ k = Head(told)[2] /\ t = Tail(told)
    OBVIOUS
  <1>4. /\ t \in Seq(Flag!Listener) /\ d \in Calls /\ k \in Kinds /\ Holds(told, d, k)
        /\ \A e, j : Holds(told, e, j) => Holds(t, e, j) \/ (e = d /\ j = k)
        /\ \A e, j : Holds(t, e, j) => Holds(told, e, j)
    BY <1>1, <1>3, HoldsTail DEF Flag!Tell
  <1>5. k = "cleanup" => d \in Processes
    BY <1>4 DEF FlagInv, BodyInv
  <1>21. Flag!TypeOK'
    BY <1>1, <1>3, <1>4, <1>5 DEF FlagInv, Flag!Tell, Flag!AfterTelling, Flag!history,
       Flag!interrupt, Flag!CallsAssumption, Flag!TypeOK, Flag!Wrappers, Flag!Bodies
  <1>22. BodyInv'
    BY <1>1, <1>3, <1>4, <1>5 DEF FlagInv, Flag!Tell, Flag!AfterTelling, Flag!history,
       Flag!interrupt, Flag!TypeOK, BodyInv, ListenInv, Overriding, Kinds
  <1>23. ListenInv'
    BY <1>1, <1>3, <1>4, <1>5 DEF FlagInv, Flag!Tell, Flag!AfterTelling, Flag!history,
       Flag!interrupt, Flag!TypeOK, BodyInv, ListenInv, Overriding, Kinds, Flag!InFlight
  <1>24. HitInv'
    BY <1>1, <1>3, <1>4, <1>5 DEF FlagInv, Flag!Tell, Flag!AfterTelling, Flag!history,
       Flag!interrupt, Flag!TypeOK, HitInv, Flag!InFlight
  <1>25. InsideInv'
    BY <1>1, <1>3, <1>4, <1>5 DEF FlagInv, Flag!Tell, Flag!AfterTelling, Flag!history,
       Flag!interrupt, Flag!TypeOK, InsideInv
  <1> QED
    BY <1>21, <1>22, <1>23, <1>24, <1>25 DEF FlagInv, Flag!Tell, Flag!AfterTelling,
       Flag!interrupt, Flag!history

\* A cleanup is done.
LEMMA FlagCleanupDone ==
  ASSUME Flag!CallsAssumption, FlagInv, NEW c \in Calls, Flag!CleanupDone(c)
  PROVE  FlagInv'
  <1>21. Flag!TypeOK'
    BY DEF FlagInv, Flag!CleanupDone, Flag!history, Flag!interrupt, Flag!CallsAssumption,
       Flag!TypeOK, Flag!Wrappers, Flag!Bodies
  <1>22. BodyInv'
    BY DEF FlagInv, Flag!CleanupDone, Flag!history, Flag!interrupt, Flag!TypeOK, BodyInv,
       ListenInv, Overriding, Kinds
  <1>23. ListenInv'
    BY DEF FlagInv, Flag!CleanupDone, Flag!history, Flag!interrupt, Flag!TypeOK, BodyInv,
       ListenInv, Overriding, Kinds, Flag!InFlight
  <1>24. HitInv'
    BY DEF FlagInv, Flag!CleanupDone, Flag!history, Flag!interrupt, Flag!TypeOK, HitInv,
       Flag!InFlight
  <1>25. InsideInv'
    BY DEF FlagInv, Flag!CleanupDone, Flag!history, Flag!interrupt, Flag!TypeOK, InsideInv
  <1> QED
    BY <1>21, <1>22, <1>23, <1>24, <1>25 DEF FlagInv, Flag!CleanupDone, Flag!interrupt,
       Flag!history

\* The connections are severed.
LEMMA FlagSever ==
  ASSUME Flag!CallsAssumption, FlagInv, Flag!Sever
  PROVE  FlagInv'
  <1>1. \A d, j : ~Holds(<< >>, d, j)
    BY HoldsNone
  <1>21. Flag!TypeOK'
    BY <1>1 DEF FlagInv, Flag!Sever, Flag!history, Flag!interrupt, Flag!CallsAssumption,
       Flag!TypeOK, Flag!Wrappers, Flag!Bodies
  <1>22. BodyInv'
    BY <1>1 DEF FlagInv, Flag!Sever, Flag!history, Flag!interrupt, Flag!TypeOK, BodyInv,
       ListenInv, Overriding, Kinds
  <1>23. ListenInv'
    BY <1>1 DEF FlagInv, Flag!Sever, Flag!history, Flag!interrupt, Flag!TypeOK, BodyInv,
       ListenInv, Overriding, Kinds, Flag!InFlight
  <1>24. HitInv'
    BY <1>1 DEF FlagInv, Flag!Sever, Flag!history, Flag!interrupt, Flag!TypeOK, HitInv,
       Flag!InFlight
  <1>25. InsideInv'
    BY <1>1 DEF FlagInv, Flag!Sever, Flag!history, Flag!interrupt, Flag!TypeOK, InsideInv
  <1> QED
    BY <1>21, <1>22, <1>23, <1>24, <1>25 DEF FlagInv, Flag!Sever, Flag!interrupt, Flag!history

\* The interrupt is over.
LEMMA FlagReset ==
  ASSUME Flag!CallsAssumption, FlagInv, Flag!Reset
  PROVE  FlagInv'
  <1>21. Flag!TypeOK'
    BY DEF FlagInv, Flag!Reset, Flag!Drained, Flag!history, Flag!interrupt,
       Flag!CallsAssumption, Flag!TypeOK, Flag!Wrappers, Flag!Bodies
  <1>22. BodyInv'
    BY DEF FlagInv, Flag!Reset, Flag!Drained, Flag!history, Flag!interrupt, Flag!TypeOK,
       BodyInv, ListenInv, Overriding, Kinds
  <1>23. ListenInv'
    BY DEF FlagInv, Flag!Reset, Flag!Drained, Flag!history, Flag!interrupt, Flag!TypeOK,
       BodyInv, ListenInv, Overriding, Kinds, Flag!InFlight
  <1>24. HitInv'
    BY DEF FlagInv, Flag!Reset, Flag!Drained, Flag!history, Flag!interrupt, Flag!TypeOK,
       HitInv, Flag!InFlight
  <1>25. InsideInv'
    BY DEF FlagInv, Flag!Reset, Flag!Drained, Flag!history, Flag!interrupt, Flag!TypeOK,
       InsideInv
  <1> QED
    BY <1>21, <1>22, <1>23, <1>24, <1>25 DEF FlagInv, Flag!Reset, Flag!Drained,
       Flag!interrupt, Flag!history

\* Every step keeps the invariant.
LEMMA FlagNext ==
  ASSUME Flag!CallsAssumption, FlagInv, [Flag!Next]_Flag!vars
  PROVE  FlagInv'
  <1>1. ASSUME NEW c \in Calls,
               \/ Flag!Call(c) \/ Flag!BodyEnds(c) \/ Flag!Return(c) \/ Flag!Override(c)
               \/ Flag!SampleEnds(c) \/ Flag!CatchOverride(c) \/ Flag!FinallyOverride(c)
               \/ Flag!CleanupDone(c)
        PROVE  FlagInv'
    BY <1>1, FlagCall, FlagBodyEnds, FlagReturn, FlagOverride, FlagSampleEnds,
       FlagCatchOverride, FlagFinallyOverride, FlagCleanupDone
  <1>2. CASE Flag!Set \/ Flag!Tell \/ Flag!Sever \/ Flag!Reset
    BY <1>2, FlagSet, FlagTell, FlagSever, FlagReset
  <1>3. CASE Flag!Idle \/ UNCHANGED Flag!vars
    BY <1>3 DEF Flag!Idle, Flag!vars, FlagInv, Flag!TypeOK, BodyInv, ListenInv, HitInv,
       InsideInv, Flag!InFlight
  <1> QED
    BY <1>1, <1>2, <1>3 DEF Flag!Next

\* The invariant holds whenever calls and interrupts meet.
LEMMA FlagInvCorrect == ASSUME Flag!CallsAssumption PROVE Flag!Spec => []FlagInv
  <1>1. Flag!Init => FlagInv
    BY FlagInit
  <1>2. FlagInv /\ [Flag!Next]_Flag!vars => FlagInv'
    BY FlagNext
  <1> QED
    BY <1>1, <1>2, PTL DEF Flag!Spec

\* The types of the interrupt flag, its listeners and the calls, whatever calls
\* a session makes.
THEOREM FlagTypeCorrect == ASSUME Flag!CallsAssumption PROVE Flag!Spec => []Flag!TypeOK
  <1>1. FlagInv => Flag!TypeOK
    BY DEF FlagInv
  <1> QED
    BY <1>1, FlagInvCorrect, PTL

\* For any calls and any number of interrupts: a call in flight when Ctrl+C is
\* pressed gives its caller no value, the cleanup of every override at work is
\* done before the connections are severed, and no listener outlives what it
\* belongs to (interruptor.ts:97-160).
THEOREM InterruptsCleanCorrect ==
  ASSUME Flag!CallsAssumption PROVE Flag!Spec => []InterruptsClean
  <1>1. FlagInv => InterruptsClean
    BY FlagInvClean DEF InterruptsClean
  <1> QED
    BY <1>1, FlagInvCorrect, PTL

-----------------------------------------------------------------------------
(* LoggingAndTelemetry.                                                    *)

\* The component's Among is that of this module.
LEMMA LogAmong == \A s, T : Log!Among(s, T) = Among(s, T)
  <1>1. \A x, T : Log!KeptOf(x, T) = KeptOf(x, T)
    BY DEF KeptOf, Log!KeptOf
  <1> QED
    BY <1>1 DEF Among, Log!Among

\* What is kept of two sequences.
LEMMA AmongConcat ==
  ASSUME NEW S, NEW T, NEW s \in Seq(S), NEW t \in Seq(S)
  PROVE  Among(s \o t, T) = Among(s, T) \o Among(t, T)
  <1> DEFINE P == { u \in Seq(S) : Among(s \o u, T) = Among(s, T) \o Among(u, T) }
  <1>1. << >> \in P
    <2>1. s \o << >> = s /\ << >> \in Seq(S)
      BY ConcatEmptySeq, EmptySeq
    <2>2. Among(s, T) \o << >> = Among(s, T)
      BY AmongType, ConcatEmptySeq
    <2> QED
      BY <2>1, <2>2, AmongNone
  <1>2. ASSUME NEW u \in Seq(S), NEW x \in S, u \in P
        PROVE  Append(u, x) \in P
    <2>1. s \o Append(u, x) = Append(s \o u, x) /\ s \o u \in Seq(S) /\ Append(u, x) \in Seq(S)
      <3>1. s \o u \in Seq(S) /\ Append(u, x) \in Seq(S)
        BY ConcatProperties, AppendProperties
      <3>2. << x >> \in Seq(S)
        OBVIOUS
      <3>3. Append(u, x) = u \o << x >> /\ Append(s \o u, x) = (s \o u) \o << x >>
        BY <3>1, AppendIsConcat
      <3>4. (s \o u) \o << x >> = s \o (u \o << x >>)
        BY <3>2, ConcatAssociative
      <3> QED
        BY <3>1, <3>3, <3>4
    <2>2. Among(Append(s \o u, x), T) = Among(s \o u, T) \o KeptOf(x, T)
      BY <2>1, AmongAppend
    <2>3. Among(Append(u, x), T) = Among(u, T) \o KeptOf(x, T)
      BY AmongAppend
    <2>4. PICK a, b, k : a = Among(s, T) /\ b = Among(u, T) /\ k = KeptOf(x, T)
      OBVIOUS
    <2>5. a \in Seq(S) /\ b \in Seq(S) /\ k \in Seq(S)
      BY <2>4, AmongType, KeptType
    <2>6. (a \o b) \o k = a \o (b \o k)
      BY <2>5, ConcatAssociative, SMTT(60)
    <2>7. Among(s \o u, T) = a \o b
      BY <1>2, <2>4
    <2> QED
      BY <2>1, <2>2, <2>3, <2>4, <2>6, <2>7
  <1>3. Seq(S) \subseteq P
    <2> HIDE DEF P
    <2> QED
      BY <1>1, <1>2, ByAppending
  <1> QED
    BY <1>3

\* All is kept of a sequence over the set.
LEMMA AmongAll ==
  ASSUME NEW T, NEW s \in Seq(T)
  PROVE  Among(s, T) = s
  <1> DEFINE P == { u \in Seq(T) : Among(u, T) = u }
  <1>1. << >> \in P
    BY EmptySeq, AmongNone
  <1>2. ASSUME NEW u \in Seq(T), NEW x \in T, u \in P
        PROVE  Append(u, x) \in P
    <2>1. Among(Append(u, x), T) = Among(u, T) \o KeptOf(x, T)
      BY AmongAppend
    <2>2. KeptOf(x, T) = << x >>
      BY DEF KeptOf
    <2>3. Append(u, x) = u \o << x >> /\ Append(u, x) \in Seq(T)
      BY AppendIsConcat, AppendProperties
    <2> QED
      BY <1>2, <2>1, <2>2, <2>3
  <1>3. Seq(T) \subseteq P
    <2> HIDE DEF P
    <2> QED
      BY <1>1, <1>2, ByAppending
  <1> QED
    BY <1>3

\* The kinds of calls, and the calls of a kind.
CallKinds == { "listener", "track" }
CallsOf(k) == {k} \X Log!Telemetry

\* A buffered call is of a kind and has an event.
LEMMA CallParts ==
  ASSUME NEW c \in Log!HeldCalls
  PROVE  /\ c[1] \in CallKinds /\ c[2] \in Log!Telemetry /\ c = << c[1], c[2] >>
         /\ c[1] = "listener" => c[2] \in Log!BusEvents
         /\ \A k \in CallKinds : c \in CallsOf(k) <=> c[1] = k
  BY DEF Log!HeldCalls, Log!Telemetry, CallKinds, CallsOf

\* The events of no calls.
LEMMA OfNone == \A k \in CallKinds : Log!Of(k, << >>) = << >>
  <1> SUFFICES ASSUME NEW k \in CallKinds PROVE Log!Of(k, << >>) = << >>
    OBVIOUS
  <1>1. Log!Among(<< >>, CallsOf(k)) = << >>
    BY LogAmong, AmongNone
  <1>2. [i \in DOMAIN << >> |-> << >>[i][2]] = << >>
    OBVIOUS
  <1> QED
    BY <1>1, <1>2 DEF Log!Of, CallsOf

\* They are telemetry events.
LEMMA OfType ==
  ASSUME NEW k \in CallKinds, NEW s \in Seq(Log!HeldCalls)
  PROVE  Log!Of(k, s) \in Seq(Log!Telemetry)
  <1>1. PICK a : a = Among(s, CallsOf(k))
    OBVIOUS
  <1>2. a \in Seq(Log!HeldCalls)
    BY <1>1, AmongType
  <1>3. Len(a) \in Nat /\ DOMAIN a = 1 .. Len(a)
    BY <1>2, LenProperties
  <1>4. \A i \in 1 .. Len(a) : a[i][2] \in Log!Telemetry
    BY <1>2, ElementOfSeq, CallParts
  <1>5. [i \in DOMAIN a |-> a[i][2]] \in Seq(Log!Telemetry)
    BY <1>3, <1>4, SeqDef
  <1> QED
    BY <1>1, <1>5, LogAmong DEF Log!Of, CallsOf

\* A call more is an event more if it is of the kind.
LEMMA OfAppend ==
  ASSUME NEW k \in CallKinds, NEW s \in Seq(Log!HeldCalls), NEW c \in Log!HeldCalls
  PROVE  Log!Of(k, Append(s, c)) = IF c[1] = k THEN Append(Log!Of(k, s), c[2]) ELSE Log!Of(k, s)
  <1>1. PICK T : T = CallsOf(k)
    OBVIOUS
  <1>2. PICK a : a = Among(s, T)
    OBVIOUS
  <1>3. a \in Seq(Log!HeldCalls)
    BY <1>2, AmongType
  <1>4. Among(Append(s, c), T) = a \o KeptOf(c, T)
    BY <1>2, AmongAppend
  <1>5. Log!Of(k, s) = [i \in DOMAIN a |-> a[i][2]]
    BY <1>1, <1>2, LogAmong DEF Log!Of, CallsOf
  <1>6. CASE c[1] = k
    <2>1. KeptOf(c, T) = << c >>
      BY <1>1, <1>6, CallParts DEF KeptOf
    <2>2. PICK b : b = Append(a, c)
      OBVIOUS
    <2>3. Among(Append(s, c), T) = b
      BY <1>3, <1>4, <2>1, <2>2, AppendIsConcat
    <2>4. Log!Of(k, Append(s, c)) = [i \in DOMAIN b |-> b[i][2]]
      BY <1>1, <2>3, LogAmong DEF Log!Of, CallsOf
    <2>5. /\ b \in Seq(Log!HeldCalls) /\ Len(a) \in Nat /\ Len(b) = Len(a) + 1
          /\ DOMAIN a = 1 .. Len(a) /\ DOMAIN b = 1 .. Len(b)
          /\ \A i \in 1 .. Len(a) : b[i] = a[i]
          /\ b[Len(a) + 1] = c
      BY <1>3, <2>2, AppendProperties, LenProperties
    <2>6. PICK o : o = Log!Of(k, s)
      OBVIOUS
    <2>7. PICK p : p = Append(o, c[2])
      OBVIOUS
    <2>8. o \in Seq(Log!Telemetry) /\ c[2] \in Log!Telemetry
      BY <2>6, OfType, CallParts
    <2>9. Len(o) = Len(a) /\ \A i \in 1 .. Len(a) : o[i] = a[i][2]
      <3>1. o = [i \in 1 .. Len(a) |-> a[i][2]]
        BY <1>5, <2>5, <2>6
      <3>2. DOMAIN o = 1 .. Len(a) /\ \A i \in 1 .. Len(a) : o[i] = a[i][2]
        BY <3>1
      <3>3. DOMAIN o = 1 .. Len(o) /\ Len(o) \in Nat
        BY <2>8, LenProperties
      <3> QED
        BY <2>5, <3>2, <3>3
    <2>10. /\ p \in Seq(Log!Telemetry) /\ Len(p) = Len(a) + 1
           /\ \A i \in 1 .. Len(a) : p[i] = o[i]
           /\ p[Len(a) + 1] = c[2]
      BY <2>7, <2>8, <2>9, AppendProperties
    <2>11. \A i \in 1 .. Len(b) : p[i] = b[i][2]
      <3>1. \A i \in 1 .. Len(b) : i \in 1 .. Len(a) \/ i = Len(a) + 1
        BY <2>5
      <3> QED
        BY <2>5, <2>9, <2>10, <3>1
    <2>12. p = [i \in 1 .. Len(b) |-> p[i]]
      <3>1. DOMAIN p = 1 .. Len(p)
        BY <2>10, LenProperties
      <3>2. p = [i \in DOMAIN p |-> p[i]]
        BY <2>10
      <3> QED
        BY <2>5, <2>10, <3>1, <3>2
    <2>13. p = [i \in DOMAIN b |-> b[i][2]]
      BY <2>5, <2>11, <2>12
    <2> QED
      BY <1>6, <2>4, <2>6, <2>7, <2>13
  <1>7. CASE c[1] # k
    <2>1. KeptOf(c, T) = << >>
      BY <1>1, <1>7, CallParts DEF KeptOf
    <2>2. Among(Append(s, c), T) = a
      BY <1>3, <1>4, <2>1, ConcatEmptySeq
    <2>3. Log!Of(k, Append(s, c)) = [i \in DOMAIN a |-> a[i][2]]
      BY <1>1, <2>2, LogAmong DEF Log!Of, CallsOf
    <2> QED
      BY <1>5, <1>7, <2>3
  <1> QED
    BY <1>6, <1>7

\* The events up to one, and the next.
LEMMA UpToNext ==
  ASSUME NEW n \in Nat
  PROVE  Log!UpTo(n + 1) = Append(Log!UpTo(n), n + 1) /\ Log!UpTo(n) \in Seq(1 .. n)
  <1>1. PICK a, b : a = Log!UpTo(n) /\ b = Log!UpTo(n + 1)
    OBVIOUS
  <1>2. a \in Seq(Nat) /\ Len(a) = n /\ \A i \in 1 .. n : a[i] = i
    <2>1. a = [i \in 1 .. n |-> i]
      BY <1>1 DEF Log!UpTo
    <2>2. \A i \in 1 .. n : i \in Nat
      OBVIOUS
    <2> QED
      BY <2>1, <2>2
  <1>3. b \in Seq(Nat) /\ Len(b) = n + 1 /\ \A i \in 1 .. n + 1 : b[i] = i
    <2>1. b = [i \in 1 .. n + 1 |-> i]
      BY <1>1 DEF Log!UpTo
    <2>2. \A i \in 1 .. n + 1 : i \in Nat
      OBVIOUS
    <2> QED
      BY <2>1, <2>2
  <1>4. PICK c : c = Append(a, n + 1)
    OBVIOUS
  <1>5. /\ c \in Seq(Nat) /\ Len(c) = n + 1 /\ \A i \in 1 .. n : c[i] = a[i]
        /\ c[n + 1] = n + 1
    BY <1>2, <1>4, AppendProperties
  <1>6. \A i \in 1 .. n + 1 : i \in 1 .. n \/ i = n + 1
    OBVIOUS
  <1>7. \A i \in 1 .. Len(b) : b[i] = c[i]
    BY <1>2, <1>3, <1>5, <1>6
  <1>8. b = c
    BY <1>3, <1>5, <1>7, SeqEqual
  <1>9. a \in Seq(1 .. n)
    <2>1. a = [i \in 1 .. n |-> i]
      BY <1>1 DEF Log!UpTo
    <2> QED
      BY <2>1
  <1> QED
    BY <1>1, <1>4, <1>8, <1>9

\* No event is in two of its parts.
LEMMA UpToParts ==
  ASSUME NEW n \in Nat, NEW S, NEW s \in Seq(S), NEW t \in Seq(S), s \o t = Log!UpTo(n)
  PROVE  ToSet(s) \cap ToSet(t) = {}
  <1>1. PICK u : u = s \o t
    OBVIOUS
  <1>2. /\ Len(s) \in Nat /\ Len(t) \in Nat
        /\ DOMAIN s = 1 .. Len(s) /\ DOMAIN t = 1 .. Len(t) /\ DOMAIN u = 1 .. Len(s) + Len(t)
        /\ \A i \in 1 .. Len(s) + Len(t) : u[i] = IF i <= Len(s) THEN s[i] ELSE t[i - Len(s)]
    BY <1>1, ConcatProperties, LenProperties
  <1>3. DOMAIN u = 1 .. n /\ \A i \in 1 .. n : u[i] = i
    BY <1>1 DEF Log!UpTo
  <1>4. \A i \in 1 .. Len(s) : s[i] = i
    <2>1. \A i \in 1 .. Len(s) : i \in 1 .. Len(s) + Len(t) /\ i <= Len(s)
      BY <1>2
    <2> QED
      BY <1>2, <1>3, <2>1
  <1>5. \A i \in 1 .. Len(t) : t[i] = i + Len(s)
    <2>1. \A i \in 1 .. Len(t) : /\ i + Len(s) \in 1 .. Len(s) + Len(t) /\ ~(i + Len(s) <= Len(s))
                                 /\ (i + Len(s)) - Len(s) = i
      BY <1>2
    <2> QED
      BY <1>2, <1>3, <2>1
  <1> QED
    BY <1>2, <1>4, <1>5 DEF ToSet

\* The bus events among some telemetry events.
Bus(s) == Among(s, Log!BusEvents)

\* Before the buffer of bus events is emptied it has all of them, and nothing
\* has gone further.
Buffered ==
  /\ Log!Of("listener", pendingBus) = Log!UpTo(emitted)
  /\ Bus(Log!Of("track", pendingBus)) = << >> /\ Bus(tracked) = << >>
  /\ pendingTel = << >> /\ logged = << >> /\ log = "dummy" /\ ~flushed

\* Then it is not used any more: all events have been tracked, or are in the
\* other buffer, after those that have.
PastBuffer ==
  /\ pendingBus = << >>
  /\ Bus(tracked) \o Bus(Log!Of("track", pendingTel)) = Log!UpTo(emitted)
  /\ ~flushed => log = "file" /\ logged = Log!UpTo(emitted)

\* A bus event that was tracked is in one place.
PlacesInv ==
  \A n \in Log!BusEvents :
    /\ n \in ToSet(analyticsQueue) => n \notin ToSet(sent) /\ n \notin discarded
    /\ n \in ToSet(sent) => n \notin discarded
    /\ n \in ToSet(analyticsQueue) \/ n \in ToSet(sent) \/ n \in discarded
         => n \in ToSet(tracked)

\* The inductive invariant of LoggingAndTelemetry.
LogInv ==
  /\ Log!TypeOK
  /\ bufferingBus => Buffered
  /\ ~bufferingBus => PastBuffer
  /\ ~bufferingTel => pendingTel = << >>
  /\ PlacesInv

\* The component's ToSet is that of this module.
LEMMA LogToSet == \A s : Log!ToSet(s) = ToSet(s)
  BY DEF Log!ToSet, ToSet

\* The invariant gives the property.
LEMMA LogInvFaithful ==
  ASSUME Log!BoundsAssumption, LogInv
  PROVE  Log!BuffersFaithful
  <1>1. Log!LogComplete
    BY DEF LogInv, Buffered, PastBuffer, Log!TypeOK, Log!LogComplete
  <1>2. Log!TrackedInOrder
    <2>1. tracked \in Seq(Log!Telemetry) /\ emitted \in Nat /\ pendingTel \in Seq({ "track" } \X Log!Telemetry)
      BY DEF LogInv, Log!TypeOK, Log!BoundsAssumption
    <2>2. Bus(tracked) \in Seq(Log!Telemetry)
      BY <2>1, AmongType DEF Bus
    <2>3. PICK b : b = Bus(tracked)
      OBVIOUS
    <2>4. \E t \in Seq(Log!Telemetry) : b \o t = Log!UpTo(emitted)
      <3>1. CASE bufferingBus
        <4>1. b = << >>
          BY <2>3, <3>1 DEF LogInv, Buffered
        <4>2. Log!UpTo(emitted) \in Seq(Log!Telemetry)
          <5>1. Log!UpTo(emitted) \in Seq(1 .. emitted)
            BY <2>1, UpToNext
          <5>2. 1 .. emitted \subseteq Log!Telemetry
            BY DEF LogInv, Log!TypeOK, Log!BoundsAssumption, Log!Telemetry, Log!BusEvents
          <5> QED
            BY <5>1, <5>2, SeqMonotonic
        <4> QED
          BY <4>1, <4>2, ConcatEmptySeq
      <3>2. CASE ~bufferingBus
        <4>1. PICK t : t = Bus(Log!Of("track", pendingTel))
          OBVIOUS
        <4>2. t \in Seq(Log!Telemetry)
          <5>1. pendingTel \in Seq(Log!HeldCalls)
            <6>1. { "track" } \X Log!Telemetry \subseteq Log!HeldCalls
              BY DEF Log!HeldCalls
            <6> QED
              BY <2>1, <6>1, SeqMonotonic
          <5>2. Log!Of("track", pendingTel) \in Seq(Log!Telemetry)
            BY <5>1, OfType DEF CallKinds
          <5> QED
            BY <4>1, <5>2, AmongType DEF Bus
        <4>3. b \o t = Log!UpTo(emitted)
          BY <2>3, <3>2, <4>1 DEF LogInv, PastBuffer
        <4> QED
          BY <4>2, <4>3
      <3> QED
        BY <3>1, <3>2
    <2>5. PICK t \in Seq(Log!Telemetry) : b \o t = Log!UpTo(emitted)
      BY <2>4
    <2>6. IsPrefix(b, b \o t)
      BY <2>2, <2>3, FirstIsPrefix
    <2>7. IsPrefix(b, Log!UpTo(emitted))
      BY <2>5, <2>6
    <2>8. \A s, u : Log!IsPrefix(s, u) <=> IsPrefix(s, u)
      BY DEF Log!IsPrefix, IsPrefix
    <2> QED
      BY <2>3, <2>7, <2>8, LogAmong DEF Log!TrackedInOrder, Bus
  <1>3. Log!DiscardedForGood
    BY LogToSet DEF LogInv, PlacesInv, Log!DiscardedForGood
  <1> QED
    BY <1>1, <1>2, <1>3 DEF Log!BuffersFaithful

\* No bus event has the number of another telemetry event.
LEMMA TelemetryKinds ==
  ASSUME Log!BoundsAssumption
  PROVE  /\ Log!Identify \in Log!Telemetry /\ Log!Identify \notin Log!BusEvents
         /\ Log!SessionEnded \in Log!Telemetry /\ Log!SessionEnded \notin Log!BusEvents
         /\ Log!BusEvents \subseteq Log!Telemetry
         /\ \A c \in Log!Telemetry : << "track", c >> \in Log!HeldCalls
         /\ \A c \in Log!BusEvents : << "listener", c >> \in Log!HeldCalls
  BY DEF Log!BoundsAssumption, Log!Identify, Log!SessionEnded, Log!BusEvents, Log!Telemetry,
     Log!HeldCalls

\* The bus events of no events, of one event more, of two sequences of them.
LEMMA BusNone == Bus(<< >>) = << >>
  BY AmongNone DEF Bus

\* What went over the bus is a sequence of what happened.
LEMMA BusType ==
  ASSUME NEW s \in Seq(Log!Telemetry)
  PROVE  Bus(s) \in Seq(Log!Telemetry)
  BY AmongType DEF Bus

\* An event is seen on the bus if it is one of those that go over it.
LEMMA BusAppend ==
  ASSUME NEW s \in Seq(Log!Telemetry), NEW e \in Log!Telemetry
  PROVE  /\ e \in Log!BusEvents => Bus(Append(s, e)) = Append(Bus(s), e)
         /\ e \notin Log!BusEvents => Bus(Append(s, e)) = Bus(s)
  <1>1. Bus(Append(s, e)) = Bus(s) \o KeptOf(e, Log!BusEvents)
    BY AmongAppend DEF Bus
  <1>2. Bus(s) \in Seq(Log!Telemetry)
    BY BusType
  <1>3. e \in Log!BusEvents => KeptOf(e, Log!BusEvents) = << e >>
    BY DEF KeptOf
  <1>4. e \notin Log!BusEvents => KeptOf(e, Log!BusEvents) = << >>
    BY DEF KeptOf
  <1>5. Bus(s) \o << e >> = Append(Bus(s), e) /\ Bus(s) \o << >> = Bus(s)
    BY <1>2, AppendIsConcat, ConcatEmptySeq
  <1> QED
    BY <1>1, <1>3, <1>4, <1>5

\* The bus sees what comes first, first.
LEMMA BusConcat ==
  ASSUME NEW s \in Seq(Log!Telemetry), NEW t \in Seq(Log!Telemetry)
  PROVE  Bus(s \o t) = Bus(s) \o Bus(t)
  BY AmongConcat DEF Bus

\* A bus event is in a sequence if it is among its bus events.
LEMMA BusMembers ==
  ASSUME NEW s \in Seq(Log!Telemetry), NEW n \in Log!BusEvents
  PROVE  n \in ToSet(s) <=> n \in ToSet(Bus(s))
  <1>1. ToSet(Bus(s)) = ToSet(s) \cap Log!BusEvents
    BY AmongMembers DEF Bus
  <1> QED
    BY <1>1

\* If the events that were tracked and the new ones are events of the bus in
\* order, no bus event is tracked twice.
LEMMA TrackedApart ==
  ASSUME NEW s \in Seq(Log!Telemetry), NEW t \in Seq(Log!Telemetry), NEW m \in Nat,
         \/ Bus(s) \o Bus(t) = Log!UpTo(m)
         \/ Bus(s) = << >>
         \/ Bus(t) = << >>
  PROVE  \A n \in Log!BusEvents : n \in ToSet(t) => n \notin ToSet(s)
  <1>1. ToSet(<< >>) = {}
    BY DEF ToSet
  <1>2. ToSet(Bus(s)) \cap ToSet(Bus(t)) = {}
    <2>1. CASE Bus(s) \o Bus(t) = Log!UpTo(m)
      BY <2>1, BusType, UpToParts
    <2> QED
      BY <1>1, <2>1
  <1> QED
    BY <1>2, BusMembers

\* New events get to one place.
LEMMA Handed ==
  ASSUME Log!BoundsAssumption, Log!TypeOK, PlacesInv,
         NEW events \in Seq(Log!Telemetry), Log!Hand(events),
         NEW m \in Nat,
         \/ Bus(tracked) \o Bus(events) = Log!UpTo(m)
         \/ Bus(tracked) = << >>
         \/ Bus(events) = << >>
  PROVE  /\ tracked' \in Seq(Log!Telemetry) /\ analyticsQueue' \in Seq(Log!Telemetry)
         /\ sent' \in Seq(Log!Telemetry) /\ discarded' \subseteq Log!Telemetry
         /\ Bus(tracked') = Bus(tracked) \o Bus(events)
         /\ PlacesInv'
  <1>1. /\ tracked \in Seq(Log!Telemetry) /\ analyticsQueue \in Seq(Log!Telemetry)
        /\ sent \in Seq(Log!Telemetry) /\ discarded \subseteq Log!Telemetry
        /\ analytics \in { "paused", "enabled", "disabled" }
    BY DEF Log!TypeOK
  <1>2. /\ tracked' = tracked \o events
        /\ analyticsQueue' = IF analytics = "paused" THEN analyticsQueue \o events ELSE analyticsQueue
        /\ sent' = IF analytics = "enabled" THEN sent \o events ELSE sent
        /\ discarded' = IF analytics = "disabled" THEN discarded \cup ToSet(events) ELSE discarded
    BY LogToSet DEF Log!Hand
  <1>3. /\ tracked \o events \in Seq(Log!Telemetry) /\ ToSet(tracked \o events) = ToSet(tracked) \cup ToSet(events)
        /\ analyticsQueue \o events \in Seq(Log!Telemetry)
        /\ ToSet(analyticsQueue \o events) = ToSet(analyticsQueue) \cup ToSet(events)
        /\ sent \o events \in Seq(Log!Telemetry) /\ ToSet(sent \o events) = ToSet(sent) \cup ToSet(events)
    BY <1>1, ConcatProperties, MembersOfConcat
  <1>4. ToSet(events) \subseteq Log!Telemetry
    <2>1. DOMAIN events = 1 .. Len(events)
      BY LenProperties
    <2> QED
      BY <2>1, ElementOfSeq DEF ToSet
  <1>5. \A n \in Log!BusEvents : n \in ToSet(events) => n \notin ToSet(tracked)
    BY <1>1, TrackedApart
  <1>6. PlacesInv'
    <2>1. /\ ToSet(tracked') = ToSet(tracked) \cup ToSet(events)
          /\ ToSet(analyticsQueue') = ToSet(analyticsQueue) \cup (IF analytics = "paused" THEN ToSet(events) ELSE {})
          /\ ToSet(sent') = ToSet(sent) \cup (IF analytics = "enabled" THEN ToSet(events) ELSE {})
          /\ discarded' = discarded \cup (IF analytics = "disabled" THEN ToSet(events) ELSE {})
      BY <1>2, <1>3
    <2> SUFFICES ASSUME NEW n \in Log!BusEvents
                 PROVE  /\ n \in ToSet(analyticsQueue') => n \notin ToSet(sent') /\ n \notin discarded'
                        /\ n \in ToSet(sent') => n \notin discarded'
                        /\ n \in ToSet(analyticsQueue') \/ n \in ToSet(sent') \/ n \in discarded'
                             => n \in ToSet(tracked')
      BY DEF PlacesInv
    <2> QED
      BY <2>1, <1>1, <1>5 DEF PlacesInv
  <1> QED
    BY <1>1, <1>2, <1>3, <1>4, <1>6, BusConcat

\* Handing over nothing.
LEMMA HandedNone ==
  ASSUME Log!BoundsAssumption, Log!TypeOK, PlacesInv, Log!Hand(<< >>)
  PROVE  /\ tracked' \in Seq(Log!Telemetry) /\ analyticsQueue' \in Seq(Log!Telemetry)
         /\ sent' \in Seq(Log!Telemetry) /\ discarded' \subseteq Log!Telemetry
         /\ Bus(tracked') = Bus(tracked)
         /\ PlacesInv'
  <1>1. << >> \in Seq(Log!Telemetry) /\ 0 \in Nat
    BY EmptySeq
  <1>2. Bus(tracked) \in Seq(Log!Telemetry)
    BY BusType DEF Log!TypeOK
  <1>3. Bus(tracked) \o << >> = Bus(tracked)
    BY <1>2, ConcatEmptySeq
  <1>4. PICK e : e = << >>
    OBVIOUS
  <1>5. e \in Seq(Log!Telemetry) /\ Log!Hand(e) /\ Bus(e) = << >>
    BY <1>1, <1>4, BusNone
  <1>6. /\ tracked' \in Seq(Log!Telemetry) /\ analyticsQueue' \in Seq(Log!Telemetry)
        /\ sent' \in Seq(Log!Telemetry) /\ discarded' \subseteq Log!Telemetry
        /\ Bus(tracked') = Bus(tracked) \o Bus(e) /\ PlacesInv'
    BY <1>1, <1>5, Handed
  <1> QED
    BY <1>3, <1>5, <1>6

\* Handing over one event, which is the next of the bus or none of it.
LEMMA HandedOne ==
  ASSUME Log!BoundsAssumption, Log!TypeOK, PlacesInv,
         NEW e \in Log!Telemetry, Log!Hand(<< e >>),
         NEW m \in Nat, e \in Log!BusEvents => Bus(tracked) \o << e >> = Log!UpTo(m)
  PROVE  /\ tracked' \in Seq(Log!Telemetry) /\ analyticsQueue' \in Seq(Log!Telemetry)
         /\ sent' \in Seq(Log!Telemetry) /\ discarded' \subseteq Log!Telemetry
         /\ Bus(tracked') = IF e \in Log!BusEvents THEN Bus(tracked) \o << e >> ELSE Bus(tracked)
         /\ PlacesInv'
  <1>1. << e >> = Append(<< >>, e) /\ << >> \in Seq(Log!Telemetry)
    BY EmptySeq
  <1>2. Bus(<< e >>) = IF e \in Log!BusEvents THEN << e >> ELSE << >>
    BY <1>1, BusAppend, BusNone, ZenonT(60)
  <1>3. PICK s : s = << e >>
    OBVIOUS
  <1>4. s \in Seq(Log!Telemetry) /\ Log!Hand(s)
    BY <1>3
  <1>5. Bus(tracked) \in Seq(Log!Telemetry)
    BY BusType DEF Log!TypeOK
  <1>6. Bus(tracked) \o << >> = Bus(tracked)
    BY <1>5, ConcatEmptySeq
  <1>7. \/ Bus(tracked) \o Bus(s) = Log!UpTo(m)
        \/ Bus(s) = << >>
    BY <1>2, <1>3
  <1>8. /\ tracked' \in Seq(Log!Telemetry) /\ analyticsQueue' \in Seq(Log!Telemetry)
        /\ sent' \in Seq(Log!Telemetry) /\ discarded' \subseteq Log!Telemetry
        /\ Bus(tracked') = Bus(tracked) \o Bus(s) /\ PlacesInv'
    BY <1>4, <1>7, Handed
  <1> QED
    BY <1>2, <1>3, <1>6, <1>8

\* The calls that are buffered for telemetry are calls.
LEMMA PendingCalls ==
  ASSUME Log!TypeOK
  PROVE  /\ pendingTel \in Seq(Log!HeldCalls) /\ pendingBus \in Seq(Log!HeldCalls)
         /\ Log!Of("track", pendingTel) \in Seq(Log!Telemetry)
         /\ Bus(Log!Of("track", pendingTel)) \in Seq(Log!Telemetry)
         /\ tracked \in Seq(Log!Telemetry) /\ Bus(tracked) \in Seq(Log!Telemetry)
  <1>1. { "track" } \X Log!Telemetry \subseteq Log!HeldCalls
    BY DEF Log!HeldCalls
  <1>2. /\ pendingTel \in Seq({ "track" } \X Log!Telemetry) /\ pendingBus \in Seq(Log!HeldCalls)
        /\ tracked \in Seq(Log!Telemetry)
    BY DEF Log!TypeOK
  <1>3. pendingTel \in Seq(Log!HeldCalls)
    BY <1>1, <1>2, SeqMonotonic
  <1>4. Log!Of("track", pendingTel) \in Seq(Log!Telemetry)
    BY <1>3, OfType DEF CallKinds
  <1> QED
    BY <1>2, <1>3, <1>4, BusType

\* The buffer of bus events is emptied.
LEMMA Emptied ==
  ASSUME Log!BoundsAssumption, LogInv, NEW calls \in Seq(Log!HeldCalls), NEW newLog,
         Log!Drain(calls, newLog),
         bufferingBus => /\ Log!Of("listener", calls) = Log!UpTo(emitted)
                         /\ Bus(Log!Of("track", calls)) = << >>,
         ~bufferingBus => calls = << >>
  PROVE  /\ tracked' \in Seq(Log!Telemetry) /\ analyticsQueue' \in Seq(Log!Telemetry)
         /\ sent' \in Seq(Log!Telemetry) /\ discarded' \subseteq Log!Telemetry
         /\ bufferingBus' = FALSE /\ pendingBus' = << >>
         /\ pendingTel' = pendingTel /\ bufferingTel' = bufferingTel
         /\ logged' \in Seq(Log!BusEvents)
         /\ Bus(tracked') \o Bus(Log!Of("track", pendingTel)) = Log!UpTo(emitted)
         /\ newLog = "file" /\ log = "dummy" /\ ~flushed => logged' = Log!UpTo(emitted)
         /\ PlacesInv'
  <1>1. Log!TypeOK /\ PlacesInv /\ emitted \in Nat
    BY DEF LogInv, Log!TypeOK, Log!BoundsAssumption
  <1>2. PICK l, t : l = Log!Of("listener", calls) /\ t = Log!Of("track", calls)
    OBVIOUS
  <1>3. l \in Seq(Log!Telemetry) /\ t \in Seq(Log!Telemetry)
    BY <1>2, OfType DEF CallKinds
  <1>4. /\ logged' = IF newLog = "file" THEN logged \o l ELSE logged
        /\ Log!Hand(t \o l)
        /\ bufferingBus' = FALSE /\ pendingBus' = << >>
        /\ pendingTel' = pendingTel /\ bufferingTel' = bufferingTel
    BY <1>2 DEF Log!Drain
  <1>5. t \o l \in Seq(Log!Telemetry) /\ Bus(t \o l) = Bus(t) \o Bus(l)
    BY <1>3, ConcatProperties, BusConcat
  <1>6. Log!UpTo(emitted) \in Seq(Log!BusEvents)
    <2>1. Log!UpTo(emitted) \in Seq(1 .. emitted)
      BY <1>1, UpToNext
    <2>2. 1 .. emitted \subseteq Log!BusEvents
      BY DEF LogInv, Log!TypeOK, Log!BoundsAssumption, Log!BusEvents
    <2> QED
      BY <2>1, <2>2, SeqMonotonic
  <1>7. CASE bufferingBus
    <2>1. l = Log!UpTo(emitted) /\ Bus(t) = << >>
      BY <1>2, <1>7
    <2>2. Bus(l) = l
      BY <1>6, <2>1, AmongAll DEF Bus
    <2>3. /\ Bus(tracked) = << >> /\ pendingTel = << >> /\ logged = << >>
      BY <1>7 DEF LogInv, Buffered
    <2>4. << >> \o l = l /\ l \o << >> = l
      BY <1>3, ConcatEmptySeq
    <2>5. Bus(t \o l) = l
      BY <1>5, <2>1, <2>2, <2>4
    <2>6. /\ tracked' \in Seq(Log!Telemetry) /\ analyticsQueue' \in Seq(Log!Telemetry)
          /\ sent' \in Seq(Log!Telemetry) /\ discarded' \subseteq Log!Telemetry
          /\ Bus(tracked') = Bus(tracked) \o Bus(t \o l) /\ PlacesInv'
      BY <1>1, <1>4, <1>5, <2>3, Handed
    <2>7. Bus(Log!Of("track", pendingTel)) = << >>
      BY <2>3, OfNone, BusNone DEF CallKinds
    <2>8. Bus(tracked') \o Bus(Log!Of("track", pendingTel)) = Log!UpTo(emitted)
      BY <2>1, <2>3, <2>4, <2>5, <2>6, <2>7
    <2>9. logged' \in Seq(Log!BusEvents) /\ (newLog = "file" => logged' = Log!UpTo(emitted))
      BY <1>4, <1>6, <2>1, <2>3, <2>4, EmptySeq
    <2> QED
      BY <1>4, <2>6, <2>8, <2>9
  <1>8. CASE ~bufferingBus
    <2>1. l = << >> /\ t = << >>
      BY <1>2, <1>8, OfNone DEF CallKinds
    <2>2. t \o l = << >>
      BY <1>3, <2>1, ConcatEmptySeq
    <2>3. /\ tracked' \in Seq(Log!Telemetry) /\ analyticsQueue' \in Seq(Log!Telemetry)
          /\ sent' \in Seq(Log!Telemetry) /\ discarded' \subseteq Log!Telemetry
          /\ Bus(tracked') = Bus(tracked) /\ PlacesInv'
      BY <1>1, <1>4, <2>2, HandedNone
    <2>4. Bus(tracked) \o Bus(Log!Of("track", pendingTel)) = Log!UpTo(emitted)
      BY <1>8 DEF LogInv, PastBuffer
    <2>5. logged \in Seq(Log!BusEvents)
      BY <1>1 DEF Log!TypeOK
    <2>6. logged' = logged
      BY <1>4, <2>1, <2>5, ConcatEmptySeq
    <2>7. ~flushed => log = "file"
      BY <1>8 DEF LogInv, PastBuffer
    <2> QED
      BY <1>4, <2>3, <2>4, <2>5, <2>6, <2>7
  <1> QED
    BY <1>7, <1>8

\* At the start nothing has been emitted.
LEMMA LogInit ==
  ASSUME Log!BoundsAssumption, Log!Init
  PROVE  LogInv
  <1>1. Log!TypeOK
    <2>1. /\ emitted = 0 /\ toggles = 0 /\ pendingBus = << >> /\ pendingTel = << >>
          /\ logged = << >> /\ analyticsQueue = << >> /\ tracked = << >> /\ sent = << >>
          /\ discarded = {} /\ log = "dummy" /\ device = "pending" /\ analytics = "paused"
      BY DEF Log!Init
    <2>2. 0 \in 0 .. MaxEvents /\ 0 \in 0 .. MaxToggles
      BY DEF Log!BoundsAssumption
    <2>3. \A S : << >> \in Seq(S)
      BY EmptySeq
    <2>4. /\ bufferingBus \in BOOLEAN /\ bufferingTel \in BOOLEAN
          /\ flushed \in BOOLEAN /\ closed \in BOOLEAN
      BY DEF Log!Init
    <2> QED
      BY <2>1, <2>2, <2>3, <2>4 DEF Log!TypeOK
  <1>2. Buffered
    <2>1. Log!UpTo(0) = << >>
      BY DEF Log!UpTo
    <2>2. /\ Log!Of("listener", << >>) = << >> /\ Log!Of("track", << >>) = << >>
      BY OfNone DEF CallKinds
    <2>3. /\ emitted = 0 /\ pendingBus = << >> /\ pendingTel = << >>
          /\ logged = << >> /\ tracked = << >> /\ log = "dummy" /\ ~flushed
      BY DEF Log!Init
    <2> QED
      BY <2>1, <2>2, <2>3, BusNone DEF Buffered
  <1>3. PlacesInv
    <2>1. ToSet(<< >>) = {}
      BY DEF ToSet
    <2> QED
      BY <2>1 DEF PlacesInv, Log!Init
  <1> QED
    BY <1>1, <1>2, <1>3 DEF LogInv, Log!Init

\* An event on the bus.
LEMMA LogEmit ==
  ASSUME Log!BoundsAssumption, LogInv, Log!Emit
  PROVE  LogInv'
  <1> DEFINE e == emitted + 1
  <1>1. /\ Log!TypeOK /\ PlacesInv /\ emitted \in Nat /\ e \in Log!BusEvents /\ e \in Log!Telemetry
        /\ << "listener", e >> \in Log!HeldCalls /\ << "track", e >> \in Log!HeldCalls
        /\ << "track", e >> \in { "track" } \X Log!Telemetry
    BY TelemetryKinds DEF LogInv, Log!TypeOK, Log!BoundsAssumption, Log!Emit, Log!BusEvents
  <1>2. /\ emitted' = e /\ e \in 0 .. MaxEvents
        /\ UNCHANGED << bufferingBus, bufferingTel, log, device, analytics, toggles, flushed, closed >>
    BY DEF Log!Emit, LogInv, Log!TypeOK, Log!BoundsAssumption
  <1>3. Log!UpTo(e) = Append(Log!UpTo(emitted), e)
    BY <1>1, UpToNext
  <1>4. PICK u : u = Log!UpTo(emitted)
    OBVIOUS
  <1>5. u \in Seq(Log!BusEvents) /\ u \in Seq(Log!Telemetry)
    <2>1. Log!UpTo(emitted) \in Seq(1 .. emitted)
      BY <1>1, UpToNext
    <2>2. 1 .. emitted \subseteq Log!BusEvents
      BY DEF LogInv, Log!TypeOK, Log!BoundsAssumption, Log!BusEvents
    <2>3. u \in Seq(Log!BusEvents)
      BY <1>4, <2>1, <2>2, SeqMonotonic
    <2> QED
      BY <2>3, TelemetryKinds, SeqMonotonic
  <1>6. CASE bufferingBus
    <2>1. /\ pendingBus' = Append(pendingBus, << "listener", e >>)
          /\ UNCHANGED << pendingTel, logged, analyticsQueue, tracked, sent, discarded >>
      BY <1>2, <1>6 DEF Log!Emit, Log!target
    <2>2. /\ Log!Of("listener", pendingBus) = u /\ Bus(Log!Of("track", pendingBus)) = << >>
          /\ Bus(tracked) = << >> /\ pendingTel = << >> /\ logged = << >> /\ log = "dummy" /\ ~flushed
      BY <1>4, <1>6 DEF LogInv, Buffered
    <2>3. PICK c : c = << "listener", e >>
      OBVIOUS
    <2>4. c \in Log!HeldCalls /\ c[1] = "listener" /\ c[2] = e /\ pendingBus \in Seq(Log!HeldCalls)
      BY <1>1, <2>3 DEF Log!TypeOK
    <2>5. /\ Log!Of("listener", pendingBus') = Append(u, e)
          /\ Log!Of("track", pendingBus') = Log!Of("track", pendingBus)
      BY <2>1, <2>2, <2>3, <2>4, OfAppend DEF CallKinds
    <2>6. pendingBus' \in Seq(Log!HeldCalls)
      BY <2>1, <2>3, <2>4, AppendProperties
    <2>7. Buffered'
      BY <1>2, <1>3, <1>4, <2>1, <2>2, <2>5 DEF Buffered, Bus
    <2>8. Log!TypeOK'
      BY <1>1, <1>2, <2>1, <2>6 DEF Log!TypeOK
    <2>9. PlacesInv'
      BY <1>1, <2>1 DEF PlacesInv
    <2> QED
      BY <1>2, <1>6, <2>1, <2>2, <2>7, <2>8, <2>9 DEF LogInv
  <1>7. CASE ~bufferingBus
    <2>1. /\ logged' = IF log = "file" THEN Append(logged, e) ELSE logged
          /\ pendingBus' = pendingBus /\ Log!TrackNow(e)
      BY <1>2, <1>7 DEF Log!Emit
    <2>2. PICK a, b : a = Bus(tracked) /\ b = Bus(Log!Of("track", pendingTel))
      OBVIOUS
    <2>3. /\ pendingBus = << >> /\ a \o b = u
          /\ ~flushed => log = "file" /\ logged = u
      BY <1>4, <1>7, <2>2 DEF LogInv, PastBuffer
    <2>4. /\ a \in Seq(Log!Telemetry) /\ b \in Seq(Log!Telemetry)
          /\ Log!Of("track", pendingTel) \in Seq(Log!Telemetry)
          /\ pendingTel \in Seq(Log!HeldCalls)
      BY <1>1, <2>2, PendingCalls
    <2>5. logged' \in Seq(Log!BusEvents) /\ (~flushed' => log' = "file" /\ logged' = Log!UpTo(e))
      <3>1. logged \in Seq(Log!BusEvents)
        BY <1>1 DEF Log!TypeOK
      <3>2. Append(logged, e) \in Seq(Log!BusEvents)
        BY <1>1, <3>1, AppendProperties
      <3>3. logged' \in Seq(Log!BusEvents)
        BY <2>1, <3>1, <3>2
      <3>4. ASSUME ~flushed PROVE log' = "file" /\ logged' = Log!UpTo(e)
        <4>1. log = "file" /\ logged = u
          BY <2>3, <3>4
        <4>2. logged' = Append(u, e) /\ log' = "file"
          BY <1>2, <2>1, <4>1
        <4> QED
          BY <1>3, <1>4, <4>2
      <3>5. flushed' = flushed
        BY <1>2
      <3>6. ~flushed' => log' = "file" /\ logged' = Log!UpTo(e)
        BY <3>4, <3>5, Zenon
      <3> QED
        BY <3>3, <3>6, Zenon
    <2>6. PICK o : o = << e >>
      OBVIOUS
    <2>7. o \in Seq(Log!Telemetry) /\ Append(u, e) = u \o o /\ (a \o b) \o o = a \o (b \o o)
          /\ Append(b, e) = b \o o
      <3>1. o \in Seq(Log!Telemetry)
        BY <1>1, <2>6
      <3>2. Append(u, e) = u \o o /\ Append(b, e) = b \o o
        BY <1>1, <1>5, <2>4, <2>6, AppendIsConcat
      <3>3. a \in Seq(Log!Telemetry) /\ b \in Seq(Log!Telemetry)
        BY <2>4
      <3>4. (a \o b) \o o = a \o (b \o o)
        BY <3>1, <3>3, ConcatAssociative
      <3> QED
        BY <3>1, <3>2, <3>4
    <2>8. CASE bufferingTel
      <3>1. /\ pendingTel' = Append(pendingTel, << "track", e >>)
            /\ UNCHANGED << analyticsQueue, tracked, sent, discarded >>
        BY <2>1, <2>8 DEF Log!TrackNow, Log!target
      <3>2. PICK c : c = << "track", e >>
        OBVIOUS
      <3>3. c \in Log!HeldCalls /\ c \in { "track" } \X Log!Telemetry /\ c[1] = "track" /\ c[2] = e
        BY <1>1, <3>2
      <3>4. Log!Of("track", pendingTel') = Append(Log!Of("track", pendingTel), e)
        BY <2>4, <3>1, <3>2, <3>3, OfAppend DEF CallKinds
      <3>5. Bus(Log!Of("track", pendingTel')) = Append(b, e)
        BY <1>1, <2>2, <2>4, <3>4, BusAppend, ZenonT(60)
      <3>6. PastBuffer'
        <4>1. Bus(tracked') = a
          BY <2>2, <3>1
        <4>2. Bus(tracked') \o Bus(Log!Of("track", pendingTel')) = Log!UpTo(e)
          BY <1>3, <1>4, <2>3, <2>7, <3>5, <4>1
        <4> QED
          BY <1>2, <2>1, <2>3, <2>5, <4>2 DEF PastBuffer, Bus
      <3>7. pendingTel' \in Seq({ "track" } \X Log!Telemetry)
        <4>1. pendingTel \in Seq({ "track" } \X Log!Telemetry)
          BY <1>1 DEF Log!TypeOK
        <4> QED
          BY <3>1, <3>2, <3>3, <4>1, AppendProperties
      <3>8. Log!TypeOK'
        BY <1>1, <1>2, <2>1, <2>5, <3>1, <3>7 DEF Log!TypeOK
      <3>9. PlacesInv'
        BY <1>1, <3>1 DEF PlacesInv
      <3> QED
        BY <1>2, <1>7, <2>8, <3>6, <3>8, <3>9 DEF LogInv
    <2>9. CASE ~bufferingTel
      <3>1. Log!Hand(<< e >>) /\ pendingTel' = pendingTel
        BY <2>1, <2>9 DEF Log!TrackNow
      <3>2. pendingTel = << >> /\ b = << >>
        <4>1. pendingTel = << >>
          BY <2>9 DEF LogInv
        <4> QED
          BY <2>2, <4>1, OfNone, BusNone DEF CallKinds
      <3>3. a = u /\ a \o b = a /\ (a \o o) \o b = a \o o
        <4>1. a \o o \in Seq(Log!Telemetry)
          BY <2>4, <2>7, ConcatProperties
        <4> QED
          BY <2>3, <2>4, <3>2, <4>1, ConcatEmptySeq
      <3>4. Bus(tracked) \o << e >> = Log!UpTo(e) /\ e \in Nat
        <4>1. Bus(tracked) \o << e >> = u \o o
          BY <2>2, <2>6, <3>3
        <4>2. e \in Nat
          BY <1>1
        <4> QED
          BY <1>3, <1>4, <2>7, <4>1, <4>2
      <3>5. /\ tracked' \in Seq(Log!Telemetry) /\ analyticsQueue' \in Seq(Log!Telemetry)
            /\ sent' \in Seq(Log!Telemetry) /\ discarded' \subseteq Log!Telemetry
            /\ Bus(tracked') = Bus(tracked) \o << e >>
            /\ PlacesInv'
        <4> HIDE DEF e
        <4> QED
          BY <1>1, <3>1, <3>4, HandedOne
      <3>6. PastBuffer'
        <4>1. Bus(tracked') \o Bus(Log!Of("track", pendingTel')) = Log!UpTo(e)
          BY <2>2, <2>6, <3>1, <3>3, <3>4, <3>5
        <4> QED
          BY <1>2, <2>1, <2>3, <2>5, <4>1 DEF PastBuffer, Bus
      <3>7. Log!TypeOK'
        BY <1>1, <1>2, <2>1, <2>5, <3>1, <3>5 DEF Log!TypeOK
      <3> QED
        BY <1>2, <1>7, <3>1, <3>2, <3>5, <3>6, <3>7 DEF LogInv
    <2> QED
      BY <2>8, <2>9
  <1> QED
    BY <1>6, <1>7

\* The device ID becomes known.
LEMMA LogDevice ==
  ASSUME Log!BoundsAssumption, LogInv, Log!DeviceIdKnown
  PROVE  LogInv'
  <1> DEFINE id == Log!Identify
  <1>1. /\ Log!TypeOK /\ PlacesInv /\ emitted \in Nat /\ id \in Log!Telemetry /\ id \notin Log!BusEvents
        /\ << "track", id >> \in Log!HeldCalls
    BY TelemetryKinds DEF LogInv, Log!TypeOK, Log!BoundsAssumption
  <1>2. /\ device' = "known" /\ bufferingTel' = FALSE /\ pendingTel' = << >>
        /\ UNCHANGED << emitted, bufferingBus, log, logged, analytics, toggles, flushed, closed >>
    BY DEF Log!DeviceIdKnown
  <1>3. PICK t : t = Log!Of("track", pendingTel)
    OBVIOUS
  <1>4. /\ t \in Seq(Log!Telemetry) /\ Bus(t) \in Seq(Log!Telemetry) /\ Bus(tracked) \in Seq(Log!Telemetry)
        /\ pendingBus \in Seq(Log!HeldCalls)
    BY <1>1, <1>3, PendingCalls
  <1>5. << >> \in Seq({ "track" } \X Log!Telemetry)
    BY EmptySeq
  <1> HIDE DEF id
  <1>6. CASE bufferingBus
    <2>1. pendingBus' = Append(pendingBus, << "track", id >>) /\ Log!Hand(t)
      BY <1>3, <1>6 DEF Log!DeviceIdKnown, id
    <2>2. /\ Log!Of("listener", pendingBus) = Log!UpTo(emitted) /\ Bus(Log!Of("track", pendingBus)) = << >>
          /\ Bus(tracked) = << >> /\ pendingTel = << >> /\ logged = << >> /\ log = "dummy" /\ ~flushed
      BY <1>6 DEF LogInv, Buffered
    <2>3. t = << >>
      BY <1>3, <2>2, OfNone DEF CallKinds
    <2>4. /\ tracked' \in Seq(Log!Telemetry) /\ analyticsQueue' \in Seq(Log!Telemetry)
          /\ sent' \in Seq(Log!Telemetry) /\ discarded' \subseteq Log!Telemetry
          /\ Bus(tracked') = Bus(tracked) /\ PlacesInv'
      BY <1>1, <2>1, <2>3, HandedNone
    <2>5. PICK c : c = << "track", id >>
      OBVIOUS
    <2>6. c \in Log!HeldCalls /\ c[1] = "track" /\ c[2] = id
      BY <1>1, <2>5
    <2>7. /\ pendingBus' \in Seq(Log!HeldCalls)
          /\ Log!Of("listener", pendingBus') = Log!Of("listener", pendingBus)
          /\ Log!Of("track", pendingBus') = Append(Log!Of("track", pendingBus), id)
      BY <1>4, <2>1, <2>5, <2>6, OfAppend, AppendProperties DEF CallKinds
    <2>8. Bus(Log!Of("track", pendingBus')) = << >>
      <3>1. Log!Of("track", pendingBus) \in Seq(Log!Telemetry)
        BY <1>4, OfType DEF CallKinds
      <3>2. PICK o : o = Log!Of("track", pendingBus)
        OBVIOUS
      <3>3. Bus(Append(o, id)) = Bus(o)
        BY <1>1, <3>1, <3>2, BusAppend
      <3> QED
        BY <2>2, <2>7, <3>2, <3>3
    <2>9. Buffered'
      BY <1>2, <2>2, <2>4, <2>7, <2>8 DEF Buffered, Bus
    <2>10. Log!TypeOK'
      BY <1>1, <1>2, <1>5, <2>4, <2>7 DEF Log!TypeOK
    <2> QED
      BY <1>2, <1>6, <2>4, <2>9, <2>10 DEF LogInv
  <1>7. CASE ~bufferingBus
    <2>1. pendingBus' = pendingBus /\ Log!Hand(Append(t, id))
      BY <1>3, <1>7 DEF Log!DeviceIdKnown, id
    <2>2. /\ pendingBus = << >> /\ Bus(tracked) \o Bus(t) = Log!UpTo(emitted)
          /\ ~flushed => log = "file" /\ logged = Log!UpTo(emitted)
      BY <1>3, <1>7 DEF LogInv, PastBuffer
    <2>3. PICK s : s = Append(t, id)
      OBVIOUS
    <2>4. s \in Seq(Log!Telemetry) /\ Bus(s) = Bus(t)
      BY <1>1, <1>4, <2>3, BusAppend, AppendProperties
    <2>5. /\ tracked' \in Seq(Log!Telemetry) /\ analyticsQueue' \in Seq(Log!Telemetry)
          /\ sent' \in Seq(Log!Telemetry) /\ discarded' \subseteq Log!Telemetry
          /\ Bus(tracked') = Bus(tracked) \o Bus(s) /\ PlacesInv'
      <3>1. Log!Hand(s) /\ Bus(tracked) \o Bus(s) = Log!UpTo(emitted)
        BY <2>1, <2>2, <2>3, <2>4
      <3> QED
        BY <1>1, <2>4, <3>1, Handed
    <2>6. Bus(Log!Of("track", << >>)) = << >>
      BY OfNone, BusNone DEF CallKinds
    <2>7. (Bus(tracked) \o Bus(t)) \o << >> = Bus(tracked) \o Bus(t)
      <3>1. Bus(tracked) \o Bus(t) \in Seq(Log!Telemetry)
        BY <1>4, ConcatProperties
      <3> QED
        BY <3>1, ConcatEmptySeq
    <2>8. PastBuffer'
      <3>1. Bus(tracked') \o Bus(Log!Of("track", pendingTel')) = Log!UpTo(emitted')
        BY <1>2, <2>2, <2>4, <2>5, <2>6, <2>7
      <3> QED
        BY <1>2, <2>1, <2>2, <3>1 DEF PastBuffer, Bus
    <2>9. Log!TypeOK'
      BY <1>1, <1>2, <1>5, <2>1, <2>5 DEF Log!TypeOK
    <2> QED
      BY <1>2, <1>7, <2>5, <2>8, <2>9 DEF LogInv
  <1> QED
    BY <1>6, <1>7

\* The log file is attached.
LEMMA LogStart ==
  ASSUME Log!BoundsAssumption, LogInv, Log!StartLogging
  PROVE  LogInv'
  <1>1. /\ Log!TypeOK /\ PlacesInv /\ pendingBus \in Seq(Log!HeldCalls)
    BY DEF LogInv, Log!TypeOK
  <1>2. /\ log = "dummy" /\ log' = "file" /\ toggles' \in 0 .. MaxToggles
        /\ Log!Drain(pendingBus, "file")
        /\ UNCHANGED << emitted, device, analytics, flushed, closed >>
    BY DEF Log!StartLogging, LogInv, Log!TypeOK, Log!BoundsAssumption
  <1>3. /\ bufferingBus => /\ Log!Of("listener", pendingBus) = Log!UpTo(emitted)
                           /\ Bus(Log!Of("track", pendingBus)) = << >>
        /\ ~bufferingBus => pendingBus = << >>
    BY DEF LogInv, Buffered, PastBuffer
  <1>4. /\ tracked' \in Seq(Log!Telemetry) /\ analyticsQueue' \in Seq(Log!Telemetry)
        /\ sent' \in Seq(Log!Telemetry) /\ discarded' \subseteq Log!Telemetry
        /\ bufferingBus' = FALSE /\ pendingBus' = << >>
        /\ pendingTel' = pendingTel /\ bufferingTel' = bufferingTel
        /\ logged' \in Seq(Log!BusEvents)
        /\ Bus(tracked') \o Bus(Log!Of("track", pendingTel)) = Log!UpTo(emitted)
        /\ ~flushed => logged' = Log!UpTo(emitted)
        /\ PlacesInv'
    BY <1>1, <1>2, <1>3, Emptied
  <1>5. << >> \in Seq(Log!HeldCalls)
    BY EmptySeq
  <1>6. Log!TypeOK'
    BY <1>1, <1>2, <1>4, <1>5 DEF Log!TypeOK
  <1>7. PastBuffer'
    BY <1>2, <1>4 DEF PastBuffer, Bus
  <1> QED
    BY <1>4, <1>6, <1>7 DEF LogInv

\* The buffers are flushed, with or without the log file.
LEMMA LogFlush ==
  ASSUME Log!BoundsAssumption, LogInv, Log!Flush,
         log' \in { "dummy", "file" }, toggles' \in 0 .. MaxToggles, closed' \in BOOLEAN,
         UNCHANGED << emitted, device, analytics >>
  PROVE  LogInv'
  <1> DEFINE se == Log!SessionEnded
  <1>1. /\ Log!TypeOK /\ PlacesInv /\ emitted \in Nat
        /\ se \in Log!Telemetry /\ se \notin Log!BusEvents
        /\ << "track", se >> \in Log!HeldCalls /\ << "track", se >> \in { "track" } \X Log!Telemetry
    BY TelemetryKinds DEF LogInv, Log!TypeOK, Log!BoundsAssumption
  <1>2. /\ flushed' = TRUE /\ pendingBus \in Seq(Log!HeldCalls)
        /\ pendingTel \in Seq({ "track" } \X Log!Telemetry) /\ pendingTel \in Seq(Log!HeldCalls)
    BY <1>1, PendingCalls DEF Log!Flush, Log!TypeOK
  <1>3. CASE bufferingBus
    <2>1. PICK c : c = << "track", se >>
      OBVIOUS
    <2>2. c \in Log!HeldCalls /\ c[1] = "track" /\ c[2] = se
      BY <1>1, <2>1
    <2>3. PICK calls : calls = Append(pendingBus, c)
      OBVIOUS
    <2>4. Log!Drain(calls, log')
      BY <1>3, <2>1, <2>3 DEF Log!Flush
    <2>5. /\ calls \in Seq(Log!HeldCalls)
          /\ Log!Of("listener", calls) = Log!Of("listener", pendingBus)
          /\ Log!Of("track", calls) = Append(Log!Of("track", pendingBus), se)
      <3> HIDE DEF se
      <3> QED
        BY <1>2, <2>2, <2>3, OfAppend, AppendProperties DEF CallKinds
    <2>6. /\ Log!Of("listener", calls) = Log!UpTo(emitted)
          /\ Bus(Log!Of("track", calls)) = << >>
      <3>1. /\ Log!Of("listener", pendingBus) = Log!UpTo(emitted) /\ Bus(Log!Of("track", pendingBus)) = << >>
        BY <1>3 DEF LogInv, Buffered
      <3>2. Log!Of("track", pendingBus) \in Seq(Log!Telemetry)
        BY <1>2, OfType DEF CallKinds
      <3>3. PICK o : o = Log!Of("track", pendingBus)
        OBVIOUS
      <3>4. Bus(Append(o, se)) = Bus(o)
        BY <1>1, <3>2, <3>3, BusAppend
      <3> QED
        BY <2>5, <3>1, <3>3, <3>4
    <2>7. /\ tracked' \in Seq(Log!Telemetry) /\ analyticsQueue' \in Seq(Log!Telemetry)
          /\ sent' \in Seq(Log!Telemetry) /\ discarded' \subseteq Log!Telemetry
          /\ bufferingBus' = FALSE /\ pendingBus' = << >>
          /\ pendingTel' = pendingTel /\ bufferingTel' = bufferingTel
          /\ logged' \in Seq(Log!BusEvents)
          /\ Bus(tracked') \o Bus(Log!Of("track", pendingTel)) = Log!UpTo(emitted)
          /\ PlacesInv'
      BY <1>3, <2>4, <2>5, <2>6, Emptied
    <2>8. << >> \in Seq(Log!HeldCalls)
      BY EmptySeq
    <2>9. Log!TypeOK'
      BY <1>1, <1>2, <2>7, <2>8 DEF Log!TypeOK
    <2>10. PastBuffer'
      BY <1>2, <2>7 DEF PastBuffer, Bus
    <2> QED
      BY <2>7, <2>9, <2>10 DEF LogInv
  <1>4. CASE ~bufferingBus
    <2>1. /\ Log!TrackNow(se)
          /\ UNCHANGED << bufferingBus, bufferingTel, pendingBus, logged >>
      BY <1>4 DEF Log!Flush
    <2>2. PICK b : b = Bus(Log!Of("track", pendingTel))
      OBVIOUS
    <2>3. pendingBus = << >> /\ Bus(tracked) \o b = Log!UpTo(emitted)
      BY <1>4, <2>2 DEF LogInv, PastBuffer
    <2>4. CASE bufferingTel
      <3>1. /\ pendingTel' = Append(pendingTel, << "track", se >>)
            /\ UNCHANGED << analyticsQueue, tracked, sent, discarded >>
        BY <2>1, <2>4 DEF Log!TrackNow, Log!target
      <3>2. PICK c : c = << "track", se >>
        OBVIOUS
      <3>3. c \in Log!HeldCalls /\ c \in { "track" } \X Log!Telemetry /\ c[1] = "track" /\ c[2] = se
        BY <1>1, <3>2
      <3>4. /\ pendingTel' \in Seq({ "track" } \X Log!Telemetry)
            /\ Log!Of("track", pendingTel') = Append(Log!Of("track", pendingTel), se)
        <4> HIDE DEF se
        <4> QED
          BY <1>2, <3>1, <3>2, <3>3, OfAppend, AppendProperties DEF CallKinds
      <3>5. Bus(Log!Of("track", pendingTel')) = b
        <4>1. Log!Of("track", pendingTel) \in Seq(Log!Telemetry)
          BY <1>2, OfType DEF CallKinds
        <4>2. PICK o : o = Log!Of("track", pendingTel)
          OBVIOUS
        <4>3. Bus(Append(o, se)) = Bus(o)
          BY <1>1, <4>1, <4>2, BusAppend
        <4> QED
          BY <2>2, <3>4, <4>2, <4>3
      <3>6. PastBuffer'
        <4>1. Bus(tracked') \o Bus(Log!Of("track", pendingTel')) = Log!UpTo(emitted)
          BY <2>3, <3>1, <3>5
        <4> QED
          BY <1>2, <2>1, <2>3, <4>1 DEF PastBuffer, Bus
      <3>7. Log!TypeOK'
        BY <1>1, <1>2, <2>1, <3>1, <3>4 DEF Log!TypeOK
      <3>8. PlacesInv'
        BY <1>1, <3>1 DEF PlacesInv
      <3> QED
        BY <1>4, <2>1, <2>4, <3>6, <3>7, <3>8 DEF LogInv
    <2>5. CASE ~bufferingTel
      <3>1. Log!Hand(<< se >>) /\ pendingTel' = pendingTel
        BY <2>1, <2>5 DEF Log!TrackNow
      <3>2. /\ tracked' \in Seq(Log!Telemetry) /\ analyticsQueue' \in Seq(Log!Telemetry)
            /\ sent' \in Seq(Log!Telemetry) /\ discarded' \subseteq Log!Telemetry
            /\ Bus(tracked') = Bus(tracked) /\ PlacesInv'
        <4> HIDE DEF se
        <4> QED
          BY <1>1, <3>1, HandedOne
      <3>3. PastBuffer'
        <4>1. Bus(tracked') \o Bus(Log!Of("track", pendingTel')) = Log!UpTo(emitted)
          BY <2>2, <2>3, <3>1, <3>2
        <4> QED
          BY <1>2, <2>1, <2>3, <4>1 DEF PastBuffer, Bus
      <3>4. Log!TypeOK'
        BY <1>1, <1>2, <2>1, <3>1, <3>2 DEF Log!TypeOK
      <3> QED
        BY <1>4, <2>1, <2>5, <3>1, <3>2, <3>3, <3>4 DEF LogInv
    <2> QED
      BY <2>4, <2>5
  <1> QED
    BY <1>3, <1>4

\* The settings are loaded or changed.
LEMMA LogToggle ==
  ASSUME Log!BoundsAssumption, LogInv, Log!EnableTelemetry \/ Log!DisableTelemetry
  PROVE  LogInv'
  <1>1. /\ Log!TypeOK /\ PlacesInv /\ analyticsQueue \in Seq(Log!Telemetry) /\ sent \in Seq(Log!Telemetry)
        /\ discarded \subseteq Log!Telemetry
    BY DEF LogInv, Log!TypeOK
  <1>2. /\ analytics' \in { "enabled", "disabled" } /\ analyticsQueue' = << >>
        /\ UNCHANGED << emitted, bufferingBus, bufferingTel, pendingBus, pendingTel, log, logged,
                        device, tracked, toggles, flushed, closed >>
    BY DEF Log!EnableTelemetry, Log!DisableTelemetry, Log!buffers
  <1>3. \/ sent' = sent \o analyticsQueue /\ discarded' = discarded
        \/ sent' = sent /\ discarded' = discarded \cup ToSet(analyticsQueue)
    BY LogToSet DEF Log!EnableTelemetry, Log!DisableTelemetry
  <1>4. /\ sent \o analyticsQueue \in Seq(Log!Telemetry)
        /\ ToSet(sent \o analyticsQueue) = ToSet(sent) \cup ToSet(analyticsQueue)
    BY <1>1, ConcatProperties, MembersOfConcat
  <1>5. ToSet(analyticsQueue) \subseteq Log!Telemetry
    <2>1. DOMAIN analyticsQueue = 1 .. Len(analyticsQueue)
      BY <1>1, LenProperties
    <2> QED
      BY <1>1, <2>1, ElementOfSeq DEF ToSet
  <1>6. ToSet(<< >>) = {} /\ << >> \in Seq(Log!Telemetry)
    BY EmptySeq DEF ToSet
  <1>7. Log!TypeOK'
    BY <1>1, <1>2, <1>3, <1>4, <1>5, <1>6 DEF Log!TypeOK
  <1>8. PlacesInv'
    <2> SUFFICES ASSUME NEW n \in Log!BusEvents
                 PROVE  /\ n \in ToSet(analyticsQueue') => n \notin ToSet(sent') /\ n \notin discarded'
                        /\ n \in ToSet(sent') => n \notin discarded'
                        /\ n \in ToSet(analyticsQueue') \/ n \in ToSet(sent') \/ n \in discarded'
                             => n \in ToSet(tracked')
      BY DEF PlacesInv
    <2>1. n \notin ToSet(analyticsQueue') /\ tracked' = tracked
      BY <1>2, <1>6
    <2>2. /\ n \in ToSet(analyticsQueue) => n \notin ToSet(sent) /\ n \notin discarded
          /\ n \in ToSet(sent) => n \notin discarded
          /\ n \in ToSet(analyticsQueue) \/ n \in ToSet(sent) \/ n \in discarded => n \in ToSet(tracked)
      BY <1>1 DEF PlacesInv
    <2>3. \/ /\ n \in ToSet(sent') <=> n \in ToSet(sent) \/ n \in ToSet(analyticsQueue)
             /\ n \in discarded' <=> n \in discarded
          \/ /\ n \in ToSet(sent') <=> n \in ToSet(sent)
             /\ n \in discarded' <=> n \in discarded \/ n \in ToSet(analyticsQueue)
      BY <1>3, <1>4
    <2> QED
      BY <2>1, <2>2, <2>3
  <1> QED
    BY <1>2, <1>7, <1>8 DEF LogInv, Buffered, PastBuffer

\* Every step keeps the invariant.
LEMMA LogNext ==
  ASSUME Log!BoundsAssumption, LogInv, [Log!Next]_Log!vars
  PROVE  LogInv'
  <1>1. CASE Log!Emit
    BY <1>1, LogEmit
  <1>2. CASE Log!DeviceIdKnown
    BY <1>2, LogDevice
  <1>3. CASE Log!StartLogging
    BY <1>3, LogStart
  <1>4. CASE Log!StopLogging
    <2>1. /\ Log!Flush /\ log' \in { "dummy", "file" } /\ toggles' \in 0 .. MaxToggles
          /\ closed' \in BOOLEAN /\ UNCHANGED << emitted, device, analytics >>
      BY <1>4 DEF Log!StopLogging, LogInv, Log!TypeOK, Log!BoundsAssumption
    <2> QED
      BY <2>1, LogFlush
  <1>5. CASE Log!Close
    <2>1. /\ Log!Flush /\ log' \in { "dummy", "file" } /\ toggles' \in 0 .. MaxToggles
          /\ closed' \in BOOLEAN /\ UNCHANGED << emitted, device, analytics >>
      BY <1>5 DEF Log!Close, LogInv, Log!TypeOK, Log!BoundsAssumption
    <2> QED
      BY <2>1, LogFlush
  <1>6. CASE Log!EnableTelemetry \/ Log!DisableTelemetry
    BY <1>6, LogToggle
  <1>7. CASE UNCHANGED Log!vars
    BY <1>7 DEF Log!vars, LogInv, Log!TypeOK, Buffered, PastBuffer, PlacesInv, Bus
  <1> QED
    BY <1>1, <1>2, <1>3, <1>4, <1>5, <1>6, <1>7 DEF Log!Next

\* The invariant holds throughout a session.
LEMMA LogInvCorrect == ASSUME Log!BoundsAssumption PROVE Log!Spec => []LogInv
  <1>1. Log!Init => LogInv
    BY LogInit
  <1>2. LogInv /\ [Log!Next]_Log!vars => LogInv'
    BY LogNext
  <1> QED
    BY <1>1, <1>2, PTL DEF Log!Spec

\* The types of the buffers, the log and the telemetry queue, however many
\* events a session has and however often its settings change.
THEOREM LogTypeCorrect == ASSUME Log!BoundsAssumption PROVE Log!Spec => []Log!TypeOK
  <1>1. LogInv => Log!TypeOK
    BY DEF LogInv
  <1> QED
    BY <1>1, LogInvCorrect, PTL

\* For any number of events and changes of the settings: the log file has every
\* event in order unless the buffer was flushed without it, telemetry events
\* are tracked in order, each once, and what ToggleableAnalytics dropped because
\* telemetry was disabled is never sent (logging-and-telemetry.ts:205-335,
\* analytics-helpers.ts:42).
THEOREM BuffersFaithfulCorrect ==
  ASSUME Log!BoundsAssumption PROVE Log!Spec => []BuffersFaithful
  <1>1. Log!BoundsAssumption /\ LogInv => BuffersFaithful
    BY LogInvFaithful DEF BuffersFaithful
  <1> QED
    BY <1>1, LogInvCorrect, PTL

-----------------------------------------------------------------------------
(* AsyncRepl.                                                              *)

\* The component's operators on sequences are those of this module.
LEMMA ReplSequences ==
  /\ \A s, T : Repl!Among(s, T) = Among(s, T)
  /\ \A s : Repl!ToSet(s) = ToSet(s)
  <1>1. \A x, T : Repl!KeptOf(x, T) = KeptOf(x, T)
    BY DEF KeptOf, Repl!KeptOf
  <1>2. \A s, T : Repl!Among(s, T) = Among(s, T)
    BY <1>1 DEF Among, Repl!Among
  <1>3. \A s : Repl!ToSet(s) = ToSet(s)
    BY DEF ToSet, Repl!ToSet
  <1> QED
    BY <1>2, <1>3

\* A listener is in a list, and is there once.
Has(s, t)  == t \in ToSet(s)
Once(s, t) == \E i \in DOMAIN s : s[i] = t /\ \A j \in DOMAIN s : s[j] = t => j = i

\* What is there once is there.
LEMMA OnceHas == \A s, t : Once(s, t) => Has(s, t)
  BY DEF Once, Has, ToSet

\* What is there once in one of two lists is there once in both together.
LEMMA OnceConcat ==
  ASSUME NEW S, NEW s \in Seq(S), NEW t \in Seq(S), NEW x,
         \/ Once(s, x) /\ ~Has(t, x)
         \/ ~Has(s, x) /\ Once(t, x)
  PROVE  Once(s \o t, x)
  <1>1. PICK u : u = s \o t
    OBVIOUS
  <1>2. /\ Len(s) \in Nat /\ Len(t) \in Nat
        /\ DOMAIN s = 1 .. Len(s) /\ DOMAIN t = 1 .. Len(t) /\ DOMAIN u = 1 .. Len(s) + Len(t)
        /\ \A i \in 1 .. Len(s) + Len(t) : u[i] = IF i <= Len(s) THEN s[i] ELSE t[i - Len(s)]
    BY <1>1, ConcatProperties, LenProperties
  <1>3. \A i \in 1 .. Len(s) : i \in 1 .. Len(s) + Len(t) /\ u[i] = s[i]
    BY <1>2
  <1>4. \A i \in 1 .. Len(t) : i + Len(s) \in 1 .. Len(s) + Len(t) /\ u[i + Len(s)] = t[i]
    BY <1>2, SMTT(60)
  <1>5. \A i \in 1 .. Len(s) + Len(t) :
          \/ i \in 1 .. Len(s) /\ u[i] = s[i]
          \/ i - Len(s) \in 1 .. Len(t) /\ u[i] = t[i - Len(s)]
    BY <1>2
  <1>6. CASE Once(s, x) /\ ~Has(t, x)
    <2>1. PICK i \in 1 .. Len(s) : s[i] = x /\ \A j \in 1 .. Len(s) : s[j] = x => j = i
      BY <1>2, <1>6 DEF Once
    <2>2. \A j \in 1 .. Len(t) : t[j] # x
      BY <1>2, <1>6 DEF Has, ToSet
    <2>3. i \in DOMAIN u /\ u[i] = x
      BY <1>2, <1>3, <2>1
    <2>4. \A j \in DOMAIN u : u[j] = x => j = i
      BY <1>2, <1>5, <2>1, <2>2
    <2> QED
      BY <1>1, <2>3, <2>4 DEF Once
  <1>7. CASE ~Has(s, x) /\ Once(t, x)
    <2>1. PICK i \in 1 .. Len(t) : t[i] = x /\ \A j \in 1 .. Len(t) : t[j] = x => j = i
      BY <1>2, <1>7 DEF Once
    <2>2. \A j \in 1 .. Len(s) : s[j] # x
      BY <1>2, <1>7 DEF Has, ToSet
    <2>3. i + Len(s) \in DOMAIN u /\ u[i + Len(s)] = x
      BY <1>2, <1>4, <2>1
    <2>4. \A j \in DOMAIN u : u[j] = x => j = i + Len(s)
      <3> SUFFICES ASSUME NEW j \in 1 .. Len(s) + Len(t), u[j] = x PROVE j = i + Len(s)
        BY <1>2
      <3>1. j - Len(s) \in 1 .. Len(t) /\ t[j - Len(s)] = x
        BY <1>5, <2>2
      <3>2. j - Len(s) = i
        BY <2>1, <3>1
      <3> QED
        BY <1>2, <3>2
    <2> QED
      BY <1>1, <2>3, <2>4 DEF Once
  <1> QED
    BY <1>6, <1>7

\* What is there once in a list, and not last, is there once before it.
LEMMA OnceBefore ==
  ASSUME NEW S, NEW s \in Seq(S), NEW y \in S, NEW x, Once(Append(s, y), x)
  PROVE  IF y = x THEN ~Has(s, x) ELSE Once(s, x)
  <1>1. PICK u : u = Append(s, y)
    OBVIOUS
  <1>2. /\ Len(s) \in Nat /\ Len(u) = Len(s) + 1
        /\ DOMAIN s = 1 .. Len(s) /\ DOMAIN u = 1 .. Len(s) + 1
        /\ \A i \in 1 .. Len(s) : u[i] = s[i]
        /\ u[Len(s) + 1] = y
    BY <1>1, AppendProperties, LenProperties
  <1>3. PICK i \in 1 .. Len(s) + 1 : u[i] = x /\ \A j \in 1 .. Len(s) + 1 : u[j] = x => j = i
    BY <1>1, <1>2 DEF Once
  <1>4. \A j \in 1 .. Len(s) : j \in 1 .. Len(s) + 1 /\ j # Len(s) + 1
    BY <1>2
  <1>5. Len(s) + 1 \in 1 .. Len(s) + 1 /\ (i \in 1 .. Len(s) \/ i = Len(s) + 1)
    BY <1>2
  <1>6. CASE y = x
    <2>1. \A j \in 1 .. Len(s) : s[j] # x
      BY <1>2, <1>3, <1>4, <1>5, <1>6
    <2> QED
      BY <1>2, <1>6, <2>1 DEF Has, ToSet
  <1>7. CASE y # x
    <2>1. i \in 1 .. Len(s) /\ s[i] = x
      BY <1>2, <1>3, <1>5, <1>7
    <2>2. \A j \in 1 .. Len(s) : s[j] = x => j = i
      BY <1>2, <1>3, <1>4
    <2> QED
      BY <1>2, <1>7, <2>1, <2>2 DEF Once
  <1> QED
    BY <1>6, <1>7

\* What is there once and is kept is kept once.
LEMMA OnceKept ==
  ASSUME NEW S, NEW T, NEW x \in T, NEW s \in Seq(S), Once(s, x)
  PROVE  Once(Among(s, T), x)
  <1> DEFINE P == { u \in Seq(S) : Once(u, x) => Once(Among(u, T), x) }
  <1>1. << >> \in P
    <2>1. ~Once(<< >>, x) /\ << >> \in Seq(S)
      BY EmptySeq DEF Once
    <2> QED
      BY <2>1
  <1>2. ASSUME NEW u \in Seq(S), NEW y \in S, u \in P
        PROVE  Append(u, y) \in P
    <2> SUFFICES ASSUME Once(Append(u, y), x)
                 PROVE  Once(Among(Append(u, y), T), x)
      BY AppendProperties
    <2>1. Among(Append(u, y), T) = Among(u, T) \o KeptOf(y, T)
      BY AmongAppend
    <2>2. Among(u, T) \in Seq(S) /\ KeptOf(y, T) \in Seq(S)
      BY AmongType, KeptType
    <2>3. ToSet(Among(u, T)) = ToSet(u) \cap T
      BY AmongMembers
    <2>4. CASE y = x
      <3>1. ~Has(Among(u, T), x)
        BY <2>3, <2>4, OnceBefore DEF Has
      <3>2. KeptOf(y, T) = << x >>
        BY <2>4 DEF KeptOf
      <3>3. Once(<< x >>, x)
        BY DEF Once
      <3> QED
        BY <2>1, <2>2, <3>1, <3>2, <3>3, OnceConcat, ZenonT(60)
    <2>5. CASE y # x
      <3>1. Once(Among(u, T), x)
        BY <1>2, <2>5, OnceBefore
      <3>2. ~Has(KeptOf(y, T), x)
        BY <2>5 DEF KeptOf, Has, ToSet
      <3> QED
        BY <2>1, <2>2, <3>1, <3>2, OnceConcat
    <2> QED
      BY <2>4, <2>5
  <1>3. Seq(S) \subseteq P
    <2> HIDE DEF P
    <2> QED
      BY <1>1, <1>2, ByAppending
  <1> QED
    BY <1>3

\* Nothing is kept where nothing of the set is.
LEMMA AmongApart ==
  ASSUME NEW S, NEW T, NEW s \in Seq(S), ToSet(s) \cap T = {}
  PROVE  Among(s, T) = << >>
  <1>1. PICK a : a = Among(s, T)
    OBVIOUS
  <1>2. a \in Seq(S) /\ ToSet(a) = {}
    BY <1>1, AmongType, AmongMembers
  <1>3. DOMAIN a = {}
    BY <1>2 DEF ToSet
  <1>4. Len(a) \in Nat /\ DOMAIN a = 1 .. Len(a)
    BY <1>2, LenProperties
  <1>5. Len(a) = 0
    <2>1. Len(a) # 0 => 1 \in 1 .. Len(a)
      BY <1>4
    <2> QED
      BY <1>3, <1>4, <2>1
  <1> QED
    BY <1>1, <1>2, <1>5, EmptySeq

\* A listener is in one place: live, or with a pending evaluation.
Single(ev, t) ==
  \/ Once(live[ev], t) /\ \A e \in Repl!Pending : ~Has(saved[e][ev], t)
  \/ /\ ~Has(live[ev], t)
     /\ \E e \in Repl!Pending : /\ Once(saved[e][ev], t)
                                /\ \A d \in Repl!Pending : Has(saved[d][ev], t) => d = e

\* So are the REPL's own, and those of pending evaluations that have not run.
CopiesInv ==
  /\ \A ev \in { "repl", "exit" } : Single(ev, Repl!Own)
  /\ \A e \in Repl!Pending, ev \in Repl!Events : << ev, e >> \notin fired => Single(ev, e)

\* Evaluations start in their order.
OrderedInv ==
  \A e \in Repl!Evals : state[e] = "new" => \A d \in Repl!Evals : d > e => state[d] = "new"

\* Nothing is known of an evaluation that has not started.
NewInv ==
  \A ev \in Repl!Events, e \in Repl!Evals : state[e] = "new" =>
    /\ << ev, e >> \notin fired /\ ~Has(live[ev], e)
    /\ \A d \in Repl!Pending : ~Has(saved[d][ev], e)

\* An evaluation takes listeners of earlier ones only.
SavedInv ==
  \A e \in Repl!Pending, ev \in Repl!Events : \A t \in ToSet(saved[e][ev]) : t < e

\* A pending evaluation whose Ctrl+C listener has run has a handler at work,
\* and the REPL waits for a pending one.
HandlerInv ==
  /\ \A e \in Repl!Pending, ev \in { "repl", "process" } :
       << ev, e >> \in fired => \E first \in BOOLEAN : << e, first >> \in handlers
  /\ top = Repl!NoEval \/ top \in Repl!Pending

\* While evaluations have been properly nested, the last one has its own
\* listeners to put away, each has taken those of the one before, and the
\* first those of the prompt.
StackInv ==
  /\ Repl!Pending = {} /\ Repl!Present => live = Repl!AtStart /\ raw /\ prompt = Repl!Shown
  /\ \A e \in Repl!Pending : (\A d \in Repl!Pending : d <= e) =>
       \A ev \in Repl!Events : ToSet(live[ev]) \subseteq {e}
  /\ \A e \in Repl!Pending :
       \/ /\ \A d \in Repl!Pending : e <= d
          /\ saved[e] = Repl!AtStart /\ rawBefore[e] /\ promptBefore[e] = Repl!Shown
       \/ \E p \in Repl!Pending :
            /\ p < e /\ \A d \in Repl!Pending : d < e => d <= p
            /\ \A ev \in Repl!Events : ToSet(saved[e][ev]) \subseteq {p}

\* The inductive invariant of AsyncRepl.
ReplInv ==
  /\ Repl!TypeOK /\ OrderedInv /\ NewInv /\ CopiesInv /\ SavedInv /\ HandlerInv
  /\ nested => StackInv

\* The places of a listener in a list, and how many there are.
PlacesIn(s, t) == { i \in DOMAIN s : s[i] = t }

\* A listener that is not in a list has no place in it.
LEMMA CountNone ==
  ASSUME NEW s, NEW t, ~Has(s, t)
  PROVE  PlacesIn(s, t) = {}
  BY DEF Has, ToSet, PlacesIn

\* A listener that is once in a list has one place in it.
LEMMA CountOnce ==
  ASSUME NEW s, NEW t, Once(s, t)
  PROVE  \E i : PlacesIn(s, t) = { i }
  BY DEF Once, PlacesIn

\* The component's Cardinality is that of the library.
LEMMA ReplCardinality == \A S : Repl!Cardinality(S) = Cardinality(S)
  BY DEF Repl!Cardinality, Cardinality

\* A listener in one place has one copy.
LEMMA SingleCopy ==
  ASSUME NEW ev, NEW t, Single(ev, t)
  PROVE  Repl!Copies(ev, t) = 1
  <1> DEFINE In(e) == { << e, i >> : i \in { j \in DOMAIN saved[e][ev] : saved[e][ev][j] = t } }
  <1>1. Repl!Copies(ev, t) = Cardinality(PlacesIn(live[ev], t)) + Cardinality(UNION { In(e) : e \in Repl!Pending })
    BY ReplCardinality DEF Repl!Copies, PlacesIn
  <1>2. Cardinality({}) = 0 /\ \A x : Cardinality({ x }) = 1
    BY FS_EmptySet, FS_Singleton
  <1>3. \A e : In(e) = { << e, i >> : i \in PlacesIn(saved[e][ev], t) }
    BY DEF PlacesIn
  <1> HIDE DEF In
  <1>4. CASE Once(live[ev], t) /\ \A e \in Repl!Pending : ~Has(saved[e][ev], t)
    <2>1. PICK i : PlacesIn(live[ev], t) = { i }
      BY <1>4, CountOnce
    <2>2. \A e \in Repl!Pending : In(e) = {}
      BY <1>3, <1>4, CountNone
    <2>3. UNION { In(e) : e \in Repl!Pending } = {}
      BY <2>2
    <2>4. Repl!Copies(ev, t) = 1 + 0
      BY <1>1, <1>2, <2>1, <2>3, Zenon
    <2> QED
      BY <2>4
  <1>5. CASE /\ ~Has(live[ev], t)
             /\ \E e \in Repl!Pending : /\ Once(saved[e][ev], t)
                                        /\ \A d \in Repl!Pending : Has(saved[d][ev], t) => d = e
    <2>1. PlacesIn(live[ev], t) = {}
      BY <1>5, CountNone
    <2>2. PICK e \in Repl!Pending : /\ Once(saved[e][ev], t)
                                    /\ \A d \in Repl!Pending : Has(saved[d][ev], t) => d = e
      BY <1>5
    <2>3. PICK i : PlacesIn(saved[e][ev], t) = { i }
      BY <2>2, CountOnce
    <2>4. In(e) = { << e, i >> }
      BY <1>3, <2>3
    <2>5. \A d \in Repl!Pending : d # e => In(d) = {}
      BY <1>3, <2>2, CountNone
    <2>6. UNION { In(d) : d \in Repl!Pending } = { << e, i >> }
      BY <2>4, <2>5
    <2>7. Repl!Copies(ev, t) = 0 + 1
      BY <1>1, <1>2, <2>1, <2>6, Zenon
    <2> QED
      BY <2>7
  <1> QED
    BY <1>4, <1>5 DEF Single

\* There is a last pending evaluation if there is any.
LEMMA LastPending ==
  ASSUME Repl!MaxEvalsAssumption, Repl!Pending # {}
  PROVE  \E e \in Repl!Pending : \A d \in Repl!Pending : d <= e
  <1> DEFINE T == { MaxEvals - e : e \in Repl!Pending }
  <1>1. MaxEvals \in Nat /\ \A e \in Repl!Pending : e \in 1 .. MaxEvals
    BY DEF Repl!MaxEvalsAssumption, Repl!Pending, Repl!Evals
  <1>2. T \subseteq Nat /\ T # {}
    BY <1>1
  <1>3. \E n \in T : \A m \in T : ~(m < n)
    <2> HIDE DEF T
    <2> QED
      BY <1>2, Least
  <1>4. PICK n \in T : \A m \in T : ~(m < n)
    BY <1>3
  <1>5. PICK e \in Repl!Pending : n = MaxEvals - e
    BY <1>4
  <1>6. \A d \in Repl!Pending : ~(MaxEvals - d < MaxEvals - e)
    BY <1>4, <1>5
  <1> QED
    BY <1>1, <1>5, <1>6

\* The invariant gives the property.
LEMMA ReplInvSafe ==
  ASSUME Repl!MaxEvalsAssumption, ReplInv
  PROVE  Repl!ListenersSafe
  <1>1. Repl!ListenersConserved
    BY SingleCopy DEF ReplInv, CopiesInv, Repl!ListenersConserved
  <1>2. Repl!NestedRestored
    BY DEF ReplInv, StackInv, Repl!NestedRestored
  <1>3. Repl!CtrlCHeard
    <2> SUFFICES ASSUME top # Repl!NoEval, handlers = {}, Repl!Present
                 PROVE  \E t \in Repl!ToSet(Repl!Armed(Repl!CtrlCEvent)) : t \in Repl!Pending
      BY DEF Repl!CtrlCHeard
    <2>1. PICK ev : ev = Repl!CtrlCEvent
      OBVIOUS
    <2>2. ev \in { "repl", "process" } /\ ev \in Repl!Events
      BY <2>1 DEF Repl!CtrlCEvent, Repl!Events
    <2>3. Repl!Pending # {}
      BY DEF ReplInv, HandlerInv
    <2>4. PICK m \in Repl!Pending : \A d \in Repl!Pending : d <= m
      BY <2>3, LastPending
    <2>5. m \in Repl!Evals /\ \A d \in Repl!Pending : d \in 1 .. MaxEvals
      BY DEF Repl!Pending, Repl!Evals
    <2>6. << ev, m >> \notin fired
      BY <2>2 DEF ReplInv, HandlerInv
    <2>7. Single(ev, m)
      BY <2>2, <2>6 DEF ReplInv, CopiesInv
    <2>8. \A d \in Repl!Pending : ~Has(saved[d][ev], m)
      <3> SUFFICES ASSUME NEW d \in Repl!Pending, Has(saved[d][ev], m) PROVE FALSE
        OBVIOUS
      <3>1. m < d
        BY <2>2 DEF ReplInv, SavedInv, Has
      <3>2. d <= m /\ m \in 1 .. MaxEvals /\ d \in 1 .. MaxEvals /\ MaxEvals \in Nat
        BY <2>4, <2>5 DEF Repl!MaxEvalsAssumption, Repl!Evals
      <3> QED
        BY <3>1, <3>2
    <2>9. Has(live[ev], m)
      BY <2>7, <2>8, OnceHas DEF Single
    <2>10. live[ev] \in Seq(Repl!Listeners)
      BY <2>2 DEF ReplInv, Repl!TypeOK
    <2>11. PICK T : T = { t \in Repl!Evals : << ev, t >> \notin fired }
      OBVIOUS
    <2>12. m \in ToSet(Among(live[ev], T))
      <3>1. ToSet(Among(live[ev], T)) = ToSet(live[ev]) \cap T
        BY <2>10, AmongMembers
      <3> QED
        BY <2>5, <2>6, <2>9, <2>11, <3>1 DEF Has
    <2>13. Repl!ToSet(Repl!Armed(ev)) = ToSet(Among(live[ev], T))
      BY <2>11, ReplSequences DEF Repl!Armed
    <2> QED
      BY <2>1, <2>12, <2>13
  <1> QED
    BY <1>1, <1>2, <1>3 DEF Repl!ListenersSafe

\* The lists that the types speak of.
Lists == Seq(Repl!Listeners)

\* The lists of listeners, those that are live and those an evaluation has saved,
\* are sequences of listeners.
LEMMA ReplLists ==
  ASSUME Repl!TypeOK
  PROVE  /\ live \in [Repl!Events -> Lists] /\ \A ev \in Repl!Events : live[ev] \in Lists
         /\ saved \in [Repl!Evals -> [Repl!Events -> Lists]]
         /\ \A e \in Repl!Evals, ev \in Repl!Events : saved[e][ev] \in Lists
  BY DEF Repl!TypeOK, Lists

\* A list of one.
LEMMA HasOne == \A x, t : (Has(<< x >>, t) <=> t = x) /\ Once(<< x >>, x) /\ ~Has(<< >>, t)
  BY DEF Has, Once, ToSet

\* The lists at the prompt.
LEMMA AtStartLists ==
  /\ Repl!AtStart \in [Repl!Events -> Lists] /\ Repl!Nothing \in [Repl!Events -> Lists]
  /\ \A ev \in Repl!Events : /\ Repl!AtStart[ev] = IF ev = "process" THEN << >> ELSE << Repl!Own >>
                             /\ Repl!Nothing[ev] = << >>
  <1>1. << >> \in Lists /\ << Repl!Own >> \in Lists
    BY EmptySeq DEF Lists, Repl!Listeners
  <1> QED
    BY <1>1 DEF Repl!AtStart, Repl!Nothing

\* The invariant holds at the prompt.
LEMMA ReplInit ==
  ASSUME Repl!MaxEvalsAssumption, Repl!Init
  PROVE  ReplInv
  <1>1. Repl!Pending = {}
    BY DEF Repl!Init, Repl!Pending
  <1>2. Repl!TypeOK
    <2>1. live \in [Repl!Events -> Seq(Repl!Listeners)] /\ saved \in [Repl!Evals -> [Repl!Events -> Seq(Repl!Listeners)]]
      <3>1. live \in [Repl!Events -> Lists] /\ saved \in [Repl!Evals -> [Repl!Events -> Lists]]
        BY AtStartLists DEF Repl!Init
      <3> QED
        BY <3>1 DEF Lists
    <2>2. /\ raw \in BOOLEAN /\ asked \in BOOLEAN /\ nested \in BOOLEAN
      BY DEF Repl!Init
    <2>3. /\ state \in [Repl!Evals -> { "new", "pending", "ended" }]
          /\ code \in [Repl!Evals -> { "none", "running", "done" }]
          /\ rawBefore \in [Repl!Evals -> BOOLEAN]
          /\ promptBefore \in [Repl!Evals -> { Repl!Shown, Repl!Hidden }]
          /\ deferred \in [Repl!Evals -> BOOLEAN]
      BY DEF Repl!Init
    <2>4. /\ top \in Repl!Evals \cup {Repl!NoEval} /\ fired \subseteq Repl!Events \X Repl!Evals
          /\ handlers \subseteq Repl!Evals \X BOOLEAN
          /\ prompt \in { Repl!Shown, Repl!Hidden } /\ ticks \in Nat /\ gone \in { "no", "exited", "killed" }
      BY DEF Repl!Init
    <2> QED
      BY <2>1, <2>2, <2>3, <2>4 DEF Repl!TypeOK
  <1>3. OrderedInv /\ HandlerInv /\ SavedInv
    BY <1>1 DEF OrderedInv, HandlerInv, SavedInv, Repl!Init
  <1>4. live = Repl!AtStart /\ raw /\ prompt = Repl!Shown /\ fired = {} /\ \A e \in Repl!Evals : state[e] = "new"
    BY DEF Repl!Init
  <1>5. NewInv
    <2>1. \A ev \in Repl!Events, e \in Repl!Evals : ~Has(Repl!AtStart[ev], e)
      <3>1. \A e \in Repl!Evals : e # Repl!Own
        BY DEF Repl!Evals, Repl!Own
      <3> QED
        BY <3>1, AtStartLists, HasOne
    <2> QED
      BY <1>1, <1>4, <2>1 DEF NewInv
  <1>6. CopiesInv
    <2>1. \A ev \in { "repl", "exit" } : ev \in Repl!Events /\ ev # "process"
      BY DEF Repl!Events
    <2> QED
      BY <1>1, <1>4, <2>1, AtStartLists, HasOne DEF CopiesInv, Single
  <1>7. StackInv
    BY <1>1, <1>4 DEF StackInv
  <1> QED
    BY <1>2, <1>3, <1>5, <1>6, <1>7 DEF ReplInv

\* An evaluation starts.
LEMMA ReplBegin ==
  ASSUME Repl!MaxEvalsAssumption, ReplInv, NEW e \in Repl!Evals, Repl!Begin(e),
         top' = top \/ top' = e
  PROVE  ReplInv'
  <1>1. /\ Repl!TypeOK /\ OrderedInv /\ NewInv /\ CopiesInv /\ SavedInv /\ HandlerInv
        /\ nested => StackInv
    BY DEF ReplInv
  <1>2. /\ Repl!Present /\ state[e] = "new" /\ \A d \in Repl!Evals : d < e => state[d] # "new"
        /\ state' = [state EXCEPT ![e] = "pending"]
        /\ code' = [code EXCEPT ![e] = "running"]
        /\ rawBefore' = [rawBefore EXCEPT ![e] = raw] /\ raw' = FALSE
        /\ promptBefore' = [promptBefore EXCEPT ![e] = prompt] /\ prompt' = Repl!Hidden
        /\ saved' = [saved EXCEPT ![e] = live]
        /\ live' = [ev \in Repl!Events |-> << e >>]
        /\ UNCHANGED << fired, handlers, deferred, ticks, asked, gone, nested >>
    BY DEF Repl!Begin, Repl!Takes, Repl!ending
  <1>3. MaxEvals \in Nat /\ \A d \in Repl!Evals : d \in Nat /\ d # Repl!Own /\ Repl!Own < d
    BY DEF Repl!MaxEvalsAssumption, Repl!Evals, Repl!Own
  <1>4. /\ Repl!Pending \subseteq Repl!Evals /\ Repl!Pending' = Repl!Pending \cup {e} /\ e \notin Repl!Pending
        /\ \A d \in Repl!Evals : state'[d] = IF d = e THEN "pending" ELSE state[d]
    BY <1>1, <1>2 DEF Repl!Pending, Repl!TypeOK
  <1>5. \A d \in Repl!Evals : state[d] # "new" => d < e
    <2> SUFFICES ASSUME NEW d \in Repl!Evals, state[d] # "new" PROVE d < e
      OBVIOUS
    <2>1. ~(d > e)
      BY <1>1, <1>2 DEF OrderedInv
    <2>2. d # e
      BY <1>2
    <2> QED
      BY <1>3, <2>1, <2>2
  <1>6. \A d \in Repl!Pending : d < e
    BY <1>4, <1>5 DEF Repl!Pending
  <1>7. /\ \A ev \in Repl!Events : live'[ev] = << e >>
        /\ \A ev \in Repl!Events : saved'[e][ev] = live[ev]
        /\ saved'[e] = live
        /\ \A d \in Repl!Evals : d # e => saved'[d] = saved[d]
    BY <1>1, <1>2, ReplLists
  <1>8. Repl!TypeOK'
    <2>1. << e >> \in Lists
      BY DEF Lists, Repl!Listeners
    <2>2. live' \in [Repl!Events -> Lists] /\ saved' \in [Repl!Evals -> [Repl!Events -> Lists]]
      BY <1>1, <1>2, <2>1, ReplLists
    <2>3. /\ code' \in [Repl!Evals -> { "none", "running", "done" }]
          /\ state' \in [Repl!Evals -> { "new", "pending", "ended" }]
          /\ rawBefore' \in [Repl!Evals -> BOOLEAN] /\ raw' \in BOOLEAN
          /\ promptBefore' \in [Repl!Evals -> { Repl!Shown, Repl!Hidden }]
          /\ prompt' \in { Repl!Shown, Repl!Hidden }
      BY <1>1, <1>2 DEF Repl!TypeOK
    <2>4. top' \in Repl!Evals \cup {Repl!NoEval}
      BY <1>1 DEF Repl!TypeOK
    <2> QED
      BY <1>1, <1>2, <2>2, <2>3, <2>4 DEF Repl!TypeOK, Lists
  <1>9. OrderedInv'
    <2> SUFFICES ASSUME NEW c \in Repl!Evals, state'[c] = "new", NEW d \in Repl!Evals, d > c
                 PROVE  state'[d] = "new"
      BY DEF OrderedInv
    <2>1. state[c] = "new" /\ c # e
      BY <1>4
    <2>2. state[d] = "new"
      BY <1>1, <2>1 DEF OrderedInv
    <2>3. d # e
      <3>1. ~(c < e)
        BY <1>2, <2>1
      <3> QED
        BY <1>3, <3>1
    <2> QED
      BY <1>4, <2>2, <2>3
  <1>10. NewInv'
    <2> SUFFICES ASSUME NEW ev \in Repl!Events, NEW d \in Repl!Evals, state'[d] = "new"
                 PROVE  /\ << ev, d >> \notin fired' /\ ~Has(live'[ev], d)
                        /\ \A c \in Repl!Pending' : ~Has(saved'[c][ev], d)
      BY DEF NewInv
    <2>1. d # e /\ state[d] = "new"
      BY <1>4
    <2>2. << ev, d >> \notin fired /\ ~Has(live[ev], d) /\ \A c \in Repl!Pending : ~Has(saved[c][ev], d)
      BY <1>1, <2>1 DEF NewInv
    <2> QED
      BY <1>2, <1>4, <1>7, <2>1, <2>2, HasOne
  <1>11. CopiesInv'
    <2>1. ASSUME NEW ev \in Repl!Events, NEW t, t # e, Single(ev, t)
          PROVE  Single(ev, t)'
      <3>1. ~Has(live'[ev], t)
        <4>1. live'[ev] = << e >>
          BY <1>7
        <4>2. t # e
          BY <2>1
        <4>3. Has(<< e >>, t) <=> t = e
          BY HasOne
        <4> QED
          BY <4>1, <4>2, <4>3
      <3>2. CASE Once(live[ev], t) /\ \A d \in Repl!Pending : ~Has(saved[d][ev], t)
        <4>1. Once(saved'[e][ev], t) /\ \A d \in Repl!Pending' : Has(saved'[d][ev], t) => d = e
          BY <1>4, <1>7, <3>2
        <4> QED
          BY <1>4, <3>1, <4>1 DEF Single
      <3>3. CASE /\ ~Has(live[ev], t)
                 /\ \E d \in Repl!Pending : /\ Once(saved[d][ev], t)
                                            /\ \A c \in Repl!Pending : Has(saved[c][ev], t) => c = d
        <4>1. PICK d \in Repl!Pending : /\ Once(saved[d][ev], t)
                                        /\ \A c \in Repl!Pending : Has(saved[c][ev], t) => c = d
          BY <3>3
        <4>2. Once(saved'[d][ev], t) /\ \A c \in Repl!Pending' : Has(saved'[c][ev], t) => c = d
          BY <1>4, <1>7, <3>3, <4>1
        <4> QED
          BY <1>4, <3>1, <4>2 DEF Single
      <3> QED
        BY <2>1, <3>2, <3>3 DEF Single
    <2>2. ASSUME NEW ev \in Repl!Events
          PROVE  Single(ev, e)'
      <3>1. ~Has(live[ev], e) /\ \A d \in Repl!Pending : ~Has(saved[d][ev], e)
        BY <1>1, <1>2 DEF NewInv
      <3>2. Once(live'[ev], e) /\ \A d \in Repl!Pending' : ~Has(saved'[d][ev], e)
        BY <1>4, <1>7, <3>1, HasOne
      <3> QED
        BY <3>2 DEF Single
    <2>3. \A ev \in { "repl", "exit" } : ev \in Repl!Events /\ Repl!Own # e
      BY <1>3 DEF Repl!Events
    <2>4. \A ev \in { "repl", "exit" } : Single(ev, Repl!Own)'
      BY <1>1, <2>1, <2>3 DEF CopiesInv
    <2>5. ASSUME NEW d \in Repl!Pending', NEW ev \in Repl!Events, << ev, d >> \notin fired'
          PROVE  Single(ev, d)'
      <3>1. CASE d = e
        BY <2>2, <3>1
      <3>2. CASE d # e
        <4>1. d \in Repl!Pending /\ << ev, d >> \notin fired
          BY <1>2, <1>4, <2>5, <3>2
        <4> QED
          BY <1>1, <2>1, <3>2, <4>1 DEF CopiesInv
      <3> QED
        BY <3>1, <3>2
    <2> QED
      BY <2>4, <2>5 DEF CopiesInv
  <1>12. SavedInv'
    <2> SUFFICES ASSUME NEW d \in Repl!Pending', NEW ev \in Repl!Events, NEW t \in ToSet(saved'[d][ev])
                 PROVE  t < d
      BY DEF SavedInv
    <2>1. CASE d = e
      <3>1. t \in ToSet(live[ev]) /\ Has(live[ev], t)
        BY <1>7, <2>1 DEF Has
      <3>2. t \in Repl!Listeners
        <4>1. live[ev] \in Seq(Repl!Listeners)
          BY <1>1, ReplLists DEF Lists
        <4>2. DOMAIN live[ev] = 1 .. Len(live[ev])
          BY <4>1, LenProperties
        <4> QED
          BY <3>1, <4>1, <4>2, ElementOfSeq DEF ToSet
      <3>3. t \in Repl!Evals => state[t] # "new"
        BY <1>1, <3>1 DEF NewInv
      <3> QED
        BY <1>3, <1>5, <2>1, <3>2, <3>3 DEF Repl!Listeners
    <2>2. CASE d # e
      BY <1>1, <1>4, <1>7, <2>2 DEF SavedInv
    <2> QED
      BY <2>1, <2>2
  <1>13. HandlerInv'
    <2>1. ASSUME NEW d \in Repl!Pending', NEW ev \in { "repl", "process" }, << ev, d >> \in fired'
          PROVE  \E first \in BOOLEAN : << d, first >> \in handlers'
      <3>1. ev \in Repl!Events /\ << ev, d >> \in fired
        BY <1>2, <2>1 DEF Repl!Events
      <3>2. d # e
        BY <1>1, <1>2, <3>1 DEF NewInv
      <3> QED
        BY <1>1, <1>2, <1>4, <3>1, <3>2 DEF HandlerInv
    <2>2. top' = Repl!NoEval \/ top' \in Repl!Pending'
      BY <1>1, <1>4 DEF HandlerInv
    <2> QED
      BY <2>1, <2>2 DEF HandlerInv
  <1>14. nested' => StackInv'
    <2> SUFFICES ASSUME StackInv PROVE StackInv'
      BY <1>1, <1>2
    <2>1. Repl!Pending' # {}
      BY <1>4
    <2>2. \A d \in Repl!Pending' : (\A c \in Repl!Pending' : c <= d) =>
            \A ev \in Repl!Events : ToSet(live'[ev]) \subseteq {d}
      <3> SUFFICES ASSUME NEW d \in Repl!Pending', \A c \in Repl!Pending' : c <= d
                   PROVE  \A ev \in Repl!Events : ToSet(live'[ev]) \subseteq {d}
        OBVIOUS
      <3>1. d = e
        <4>1. e <= d /\ d \in Nat /\ e \in Nat
          BY <1>3, <1>4
        <4>2. d # e => d < e
          BY <1>4, <1>6
        <4> QED
          BY <4>1, <4>2
      <3>2. ToSet(<< e >>) = { e }
        BY DEF ToSet
      <3> QED
        BY <1>7, <3>1, <3>2
    <2>3. ASSUME NEW d \in Repl!Pending', d # e
          PROVE  \/ /\ \A c \in Repl!Pending' : d <= c
                    /\ saved'[d] = Repl!AtStart /\ rawBefore'[d] /\ promptBefore'[d] = Repl!Shown
                 \/ \E p \in Repl!Pending' :
                      /\ p < d /\ \A c \in Repl!Pending' : c < d => c <= p
                      /\ \A ev \in Repl!Events : ToSet(saved'[d][ev]) \subseteq {p}
      <3>1. /\ d \in Repl!Pending /\ d < e /\ d \in Nat /\ e \in Nat /\ saved'[d] = saved[d]
            /\ rawBefore'[d] = rawBefore[d] /\ promptBefore'[d] = promptBefore[d]
        BY <1>1, <1>2, <1>3, <1>4, <1>6, <1>7, <2>3 DEF Repl!TypeOK
      <3>2. d <= e /\ ~(e < d)
        BY <3>1
      <3>3. CASE /\ \A c \in Repl!Pending : d <= c
                 /\ saved[d] = Repl!AtStart /\ rawBefore[d] /\ promptBefore[d] = Repl!Shown
        BY <1>4, <3>1, <3>2, <3>3
      <3>4. CASE \E p \in Repl!Pending :
                   /\ p < d /\ \A c \in Repl!Pending : c < d => c <= p
                   /\ \A ev \in Repl!Events : ToSet(saved[d][ev]) \subseteq {p}
        BY <1>4, <3>1, <3>2, <3>4
      <3> QED
        BY <3>1, <3>3, <3>4 DEF StackInv
    <2>5. \/ /\ \A c \in Repl!Pending' : e <= c
             /\ saved'[e] = Repl!AtStart /\ rawBefore'[e] /\ promptBefore'[e] = Repl!Shown
          \/ \E p \in Repl!Pending' :
               /\ p < e /\ \A c \in Repl!Pending' : c < e => c <= p
               /\ \A ev \in Repl!Events : ToSet(saved'[e][ev]) \subseteq {p}
      <3>1. CASE Repl!Pending = {}
        <4>1. live = Repl!AtStart /\ raw /\ prompt = Repl!Shown
          BY <1>2, <3>1 DEF StackInv
        <4>2. \A c \in Repl!Pending' : e <= c
          BY <1>3, <1>4, <3>1
        <4>3. saved'[e] = live /\ rawBefore'[e] = raw /\ promptBefore'[e] = prompt
          BY <1>1, <1>2, <1>7 DEF Repl!TypeOK
        <4> QED
          BY <4>1, <4>2, <4>3
      <3>2. CASE Repl!Pending # {}
        <4>1. PICK p \in Repl!Pending : \A c \in Repl!Pending : c <= p
          BY <3>2, LastPending
        <4>2. \A ev \in Repl!Events : ToSet(saved'[e][ev]) \subseteq {p}
          BY <1>7, <4>1 DEF StackInv
        <4>3. p \in Repl!Pending' /\ p < e /\ ~(e < e)
          BY <1>3, <1>4, <1>6
        <4>4. \A c \in Repl!Pending' : c < e => c <= p
          BY <1>4, <4>1, <4>3
        <4> QED
          BY <4>2, <4>3, <4>4
      <3> QED
        BY <3>1, <3>2
    <2>6. \A d \in Repl!Pending' :
            \/ /\ \A c \in Repl!Pending' : d <= c
               /\ saved'[d] = Repl!AtStart /\ rawBefore'[d] /\ promptBefore'[d] = Repl!Shown
            \/ \E p \in Repl!Pending' :
                 /\ p < d /\ \A c \in Repl!Pending' : c < d => c <= p
                 /\ \A ev \in Repl!Events : ToSet(saved'[d][ev]) \subseteq {p}
      <3> SUFFICES ASSUME NEW d \in Repl!Pending'
                   PROVE  \/ /\ \A c \in Repl!Pending' : d <= c
                             /\ saved'[d] = Repl!AtStart /\ rawBefore'[d] /\ promptBefore'[d] = Repl!Shown
                          \/ \E p \in Repl!Pending' :
                               /\ p < d /\ \A c \in Repl!Pending' : c < d => c <= p
                               /\ \A ev \in Repl!Events : ToSet(saved'[d][ev]) \subseteq {p}
        OBVIOUS
      <3>1. CASE d = e
        BY <2>5, <3>1, Zenon
      <3>2. CASE d # e
        BY <2>3, <3>2
      <3> QED
        BY <3>1, <3>2
    <2> QED
      BY <2>1, <2>2, <2>6 DEF StackInv
  <1> QED
    BY <1>8, <1>9, <1>10, <1>11, <1>12, <1>13, <1>14 DEF ReplInv

\* The listeners when an evaluation has ended: the others that were live, and
\* those it had taken.
LEMMA RestoredLists ==
  ASSUME Repl!TypeOK, NEW e \in Repl!Evals, NEW ev \in Repl!Events
  PROVE  /\ Repl!Restored(e)[ev] = Among(live[ev], Repl!Listeners \ {e}) \o saved[e][ev]
         /\ Among(live[ev], Repl!Listeners \ {e}) \in Lists /\ Repl!Restored(e)[ev] \in Lists
         /\ ToSet(Among(live[ev], Repl!Listeners \ {e})) = ToSet(live[ev]) \cap (Repl!Listeners \ {e})
         /\ \A t : Has(Repl!Restored(e)[ev], t) <=> (Has(live[ev], t) /\ t \in Repl!Listeners /\ t # e) \/ Has(saved[e][ev], t)
  <1>1. PICK a : a = Among(live[ev], Repl!Listeners \ {e})
    OBVIOUS
  <1>2. live[ev] \in Seq(Repl!Listeners) /\ saved[e][ev] \in Seq(Repl!Listeners)
    BY ReplLists DEF Lists
  <1>3. a \in Seq(Repl!Listeners) /\ ToSet(a) = ToSet(live[ev]) \cap (Repl!Listeners \ {e})
    BY <1>1, <1>2, AmongType, AmongMembers
  <1>4. a \o saved[e][ev] \in Seq(Repl!Listeners)
    BY <1>2, <1>3, ConcatProperties
  <1>5. ToSet(a \o saved[e][ev]) = ToSet(a) \cup ToSet(saved[e][ev])
    BY <1>2, <1>3, MembersOfConcat
  <1>6. Repl!Restored(e)[ev] = a \o saved[e][ev]
    BY <1>1, ReplSequences DEF Repl!Restored
  <1>7. \A t : t \in ToSet(Repl!Restored(e)[ev])
                 <=> (t \in ToSet(live[ev]) /\ t \in Repl!Listeners /\ t # e) \/ t \in ToSet(saved[e][ev])
    BY <1>3, <1>5, <1>6
  <1> QED
    BY <1>1, <1>3, <1>4, <1>6, <1>7 DEF Lists, Has

\* Once an evaluation has ended, what was in one place still is.
LEMMA RestoredSingle ==
  ASSUME Repl!TypeOK, NEW e \in Repl!Pending, e \in Repl!Evals,
         live' = Repl!Restored(e), saved' = [saved EXCEPT ![e] = Repl!Nothing],
         Repl!Pending' = Repl!Pending \ {e}, Repl!Pending \subseteq Repl!Evals,
         NEW ev \in Repl!Events, NEW t \in Repl!Listeners, t # e, Single(ev, t)
  PROVE  Single(ev, t)'
  <1>1. PICK a : a = Among(live[ev], Repl!Listeners \ {e})
    OBVIOUS
  <1>2. /\ live'[ev] = a \o saved[e][ev]
        /\ a \in Seq(Repl!Listeners) /\ saved[e][ev] \in Seq(Repl!Listeners) /\ live[ev] \in Seq(Repl!Listeners)
        /\ ToSet(a) = ToSet(live[ev]) \cap (Repl!Listeners \ {e})
    BY <1>1, RestoredLists, ReplLists DEF Lists
  <1>3. \A d \in Repl!Pending' : d \in Repl!Pending /\ d # e /\ saved'[d] = saved[d]
    BY ReplLists
  <1>4. CASE Once(live[ev], t) /\ \A d \in Repl!Pending : ~Has(saved[d][ev], t)
    <2>1. PICK T : T = Repl!Listeners \ {e}
      OBVIOUS
    <2>2. Once(Among(live[ev], T), t)
      BY <1>2, <1>4, <2>1, OnceKept, SMTT(60)
    <2>3. Once(a, t) /\ ~Has(saved[e][ev], t)
      BY <1>1, <1>4, <2>1, <2>2
    <2>4. Once(live'[ev], t)
      BY <1>2, <2>3, OnceConcat
    <2> QED
      BY <1>3, <1>4, <2>4 DEF Single
  <1>5. CASE /\ ~Has(live[ev], t)
             /\ \E d \in Repl!Pending : /\ Once(saved[d][ev], t)
                                        /\ \A c \in Repl!Pending : Has(saved[c][ev], t) => c = d
    <2>1. PICK d \in Repl!Pending : /\ Once(saved[d][ev], t)
                                    /\ \A c \in Repl!Pending : Has(saved[c][ev], t) => c = d
      BY <1>5
    <2>2. ~Has(a, t)
      BY <1>2, <1>5 DEF Has
    <2>3. CASE d = e
      <3>1. Once(live'[ev], t)
        BY <1>2, <2>1, <2>2, <2>3, OnceConcat
      <3>2. \A c \in Repl!Pending' : ~Has(saved'[c][ev], t)
        BY <1>3, <2>1, <2>3
      <3> QED
        BY <3>1, <3>2 DEF Single
    <2>4. CASE d # e
      <3>1. ~Has(saved[e][ev], t)
        BY <2>1, <2>4
      <3>2. ~Has(live'[ev], t)
        <4>1. Has(live'[ev], t) <=> (Has(live[ev], t) /\ t \in Repl!Listeners /\ t # e) \/ Has(saved[e][ev], t)
          BY RestoredLists
        <4> QED
          BY <1>5, <3>1, <4>1
      <3>3. d \in Repl!Pending' /\ Once(saved'[d][ev], t)
        BY <1>3, <2>1, <2>4
      <3>4. \A c \in Repl!Pending' : Has(saved'[c][ev], t) => c = d
        BY <1>3, <2>1
      <3> QED
        BY <3>2, <3>3, <3>4 DEF Single
    <2> QED
      BY <2>3, <2>4
  <1> QED
    BY <1>4, <1>5 DEF Single

\* The last evaluation ends: what it had taken is what the one before it needs.
LEMMA ReplUnstacked ==
  ASSUME Repl!MaxEvalsAssumption, Repl!TypeOK, StackInv, NEW e \in Repl!Pending,
         \A d \in Repl!Pending : d <= e,
         NEW shown \in { Repl!Shown, Repl!Hidden },
         live' = Repl!Restored(e), saved' = [saved EXCEPT ![e] = Repl!Nothing],
         raw' = rawBefore[e], prompt' = IF shown = Repl!Hidden THEN promptBefore[e] ELSE shown,
         UNCHANGED << rawBefore, promptBefore >>,
         Repl!Pending' = Repl!Pending \ {e}
  PROVE  StackInv'
  <1>1. /\ Repl!Pending \subseteq Repl!Evals /\ MaxEvals \in Nat
        /\ \A d \in Repl!Pending : d \in Nat
    BY DEF Repl!Pending, Repl!Evals, Repl!MaxEvalsAssumption
  <1>2. \A ev \in Repl!Events : live'[ev] = saved[e][ev]
    <2> SUFFICES ASSUME NEW ev \in Repl!Events PROVE live'[ev] = saved[e][ev]
      OBVIOUS
    <2>1. PICK T : T = Repl!Listeners \ {e}
      OBVIOUS
    <2>2. live[ev] \in Seq(Repl!Listeners) /\ saved[e][ev] \in Seq(Repl!Listeners)
      BY <1>1, ReplLists DEF Lists
    <2>3. ToSet(live[ev]) \cap T = {}
      BY <2>1 DEF StackInv
    <2>4. Among(live[ev], T) = << >>
      BY <2>2, <2>3, AmongApart
    <2>5. live'[ev] = << >> \o saved[e][ev]
      BY <1>1, <2>1, <2>4, RestoredLists
    <2> QED
      BY <2>2, <2>5, ConcatEmptySeq
  <1>3. \A d \in Repl!Pending' : d \in Repl!Pending /\ d # e /\ d < e /\ saved'[d] = saved[d]
    <2>1. \A d \in Repl!Pending : d # e => d < e
      BY <1>1
    <2> QED
      BY <1>1, <2>1, ReplLists
  <1>4. CASE /\ \A d \in Repl!Pending : e <= d
             /\ saved[e] = Repl!AtStart /\ rawBefore[e] /\ promptBefore[e] = Repl!Shown
    <2>1. Repl!Pending' = {}
      <3>1. \A d \in Repl!Pending' : e <= d /\ d < e /\ d \in Nat /\ e \in Nat
        BY <1>1, <1>3, <1>4
      <3> QED
        BY <3>1
    <2>2. live' = Repl!AtStart
      <3>1. live' \in [Repl!Events -> Lists]
        <4>1. \A ev \in Repl!Events : Repl!Restored(e)[ev] \in Lists
          BY <1>1, RestoredLists
        <4> QED
          BY <4>1 DEF Repl!Restored
      <3>2. \A ev \in Repl!Events : live'[ev] = Repl!AtStart[ev]
        BY <1>2, <1>4
      <3> QED
        BY <3>1, <3>2, AtStartLists
    <2>3. raw' /\ prompt' = Repl!Shown
      BY <1>4
    <2> QED
      BY <2>1, <2>2, <2>3 DEF StackInv
  <1>5. CASE \E p \in Repl!Pending :
               /\ p < e /\ \A d \in Repl!Pending : d < e => d <= p
               /\ \A ev \in Repl!Events : ToSet(saved[e][ev]) \subseteq {p}
    <2>1. PICK p \in Repl!Pending :
               /\ p < e /\ \A d \in Repl!Pending : d < e => d <= p
               /\ \A ev \in Repl!Events : ToSet(saved[e][ev]) \subseteq {p}
      BY <1>5
    <2>2. p \in Repl!Pending' /\ p \in Nat /\ Repl!Pending' # {}
      <3>1. p # e
        BY <1>1, <2>1
      <3> QED
        BY <1>1, <3>1
    <2>3. ASSUME NEW d \in Repl!Pending', \A c \in Repl!Pending' : c <= d
          PROVE  \A ev \in Repl!Events : ToSet(live'[ev]) \subseteq {d}
      <3>1. p <= d /\ d <= p /\ d \in Nat
        BY <1>1, <1>3, <2>1, <2>2, <2>3
      <3>2. p = d
        BY <2>2, <3>1
      <3> QED
        BY <1>2, <2>1, <3>2
    <2>4. ASSUME NEW d \in Repl!Pending'
          PROVE  \/ /\ \A c \in Repl!Pending' : d <= c
                    /\ saved'[d] = Repl!AtStart /\ rawBefore'[d] /\ promptBefore'[d] = Repl!Shown
                 \/ \E q \in Repl!Pending' :
                      /\ q < d /\ \A c \in Repl!Pending' : c < d => c <= q
                      /\ \A ev \in Repl!Events : ToSet(saved'[d][ev]) \subseteq {q}
      <3>1. /\ d \in Repl!Pending /\ d < e /\ d \in Nat /\ e \in Nat /\ saved'[d] = saved[d]
            /\ rawBefore'[d] = rawBefore[d] /\ promptBefore'[d] = promptBefore[d]
        BY <1>1, <1>3
      <3>2. ~(e < d)
        BY <3>1
      <3>3. CASE /\ \A c \in Repl!Pending : d <= c
                 /\ saved[d] = Repl!AtStart /\ rawBefore[d] /\ promptBefore[d] = Repl!Shown
        BY <1>3, <3>1, <3>3
      <3>4. CASE \E q \in Repl!Pending :
                   /\ q < d /\ \A c \in Repl!Pending : c < d => c <= q
                   /\ \A ev \in Repl!Events : ToSet(saved[d][ev]) \subseteq {q}
        <4>1. PICK q \in Repl!Pending :
                   /\ q < d /\ \A c \in Repl!Pending : c < d => c <= q
                   /\ \A ev \in Repl!Events : ToSet(saved[d][ev]) \subseteq {q}
          BY <3>4
        <4>2. q \in Repl!Pending'
          BY <3>2, <4>1
        <4> QED
          BY <1>3, <3>1, <4>1, <4>2
      <3> QED
        BY <3>1, <3>3, <3>4 DEF StackInv
    <2> QED
      BY <2>2, <2>3, <2>4 DEF StackInv
  <1> QED
    BY <1>4, <1>5 DEF StackInv

\* An evaluation ends.
LEMMA ReplEnds ==
  ASSUME Repl!MaxEvalsAssumption, ReplInv, NEW e \in Repl!Pending, NEW shown \in { Repl!Shown, Repl!Hidden },
         Repl!Finally(e, shown), UNCHANGED << fired, deferred, asked, gone >>,
         code' \in [Repl!Evals -> { "none", "running", "done" }],
         handlers' \subseteq Repl!Evals \X BOOLEAN,
         \A d \in Repl!Pending \ {e}, first \in BOOLEAN :
           << d, first >> \in handlers => << d, first >> \in handlers'
  PROVE  ReplInv'
  <1>1. /\ Repl!TypeOK /\ OrderedInv /\ NewInv /\ CopiesInv /\ SavedInv /\ HandlerInv
        /\ nested => StackInv
    BY DEF ReplInv
  <1>2. /\ state' = [state EXCEPT ![e] = "ended"]
        /\ top' = IF top = e THEN Repl!NoEval ELSE top
        /\ raw' = rawBefore[e]
        /\ live' = Repl!Restored(e) /\ saved' = [saved EXCEPT ![e] = Repl!Nothing]
        /\ prompt' = IF shown = Repl!Hidden THEN promptBefore[e] ELSE shown
        /\ ticks' = ticks + (IF deferred[e] THEN 1 ELSE 0)
        /\ nested' = (nested /\ \A d \in Repl!Pending : d <= e)
        /\ UNCHANGED << rawBefore, promptBefore, fired, deferred, asked, gone >>
    BY DEF Repl!Finally
  <1>3. e \in Repl!Evals /\ Repl!Pending \subseteq Repl!Evals /\ state[e] = "pending"
    BY DEF Repl!Pending
  <1>4. /\ Repl!Pending' = Repl!Pending \ {e}
        /\ \A d \in Repl!Evals : state'[d] = IF d = e THEN "ended" ELSE state[d]
    BY <1>1, <1>2 DEF Repl!Pending, Repl!TypeOK
  <1>5. \A d \in Repl!Pending' : d \in Repl!Pending /\ d # e /\ saved'[d] = saved[d]
    BY <1>1, <1>2, <1>3, <1>4, ReplLists
  <1>6. Repl!TypeOK'
    <2>1. live' \in [Repl!Events -> Lists]
      <3>1. \A ev \in Repl!Events : Repl!Restored(e)[ev] \in Lists
        BY <1>1, <1>3, RestoredLists
      <3> QED
        BY <1>2, <3>1 DEF Repl!Restored
    <2>2. saved' \in [Repl!Evals -> [Repl!Events -> Lists]]
      BY <1>1, <1>2, ReplLists, AtStartLists
    <2>3. state' \in [Repl!Evals -> { "new", "pending", "ended" }] /\ raw' \in BOOLEAN
      BY <1>1, <1>2, <1>3 DEF Repl!TypeOK
    <2>4. top' \in Repl!Evals \cup {Repl!NoEval} /\ prompt' \in { Repl!Shown, Repl!Hidden } /\ ticks' \in Nat
      BY <1>1, <1>2, <1>3 DEF Repl!TypeOK
    <2>5. nested' \in BOOLEAN
      BY <1>2
    <2>6. /\ fired' \subseteq Repl!Events \X Repl!Evals
          /\ rawBefore' \in [Repl!Evals -> BOOLEAN] /\ promptBefore' \in [Repl!Evals -> { Repl!Shown, Repl!Hidden }]
          /\ deferred' \in [Repl!Evals -> BOOLEAN] /\ asked' \in BOOLEAN /\ gone' \in { "no", "exited", "killed" }
      BY <1>1, <1>2 DEF Repl!TypeOK
    <2> QED
      BY <2>1, <2>2, <2>3, <2>4, <2>5, <2>6 DEF Repl!TypeOK, Lists
  <1>7. OrderedInv'
    <2> SUFFICES ASSUME NEW c \in Repl!Evals, state'[c] = "new", NEW d \in Repl!Evals, d > c
                 PROVE  state'[d] = "new"
      BY DEF OrderedInv
    <2>1. state[c] = "new" /\ c # e
      BY <1>4
    <2>2. state[d] = "new"
      BY <1>1, <2>1 DEF OrderedInv
    <2> QED
      BY <1>3, <1>4, <2>2
  <1>8. NewInv'
    <2> SUFFICES ASSUME NEW ev \in Repl!Events, NEW d \in Repl!Evals, state'[d] = "new"
                 PROVE  /\ << ev, d >> \notin fired' /\ ~Has(live'[ev], d)
                        /\ \A c \in Repl!Pending' : ~Has(saved'[c][ev], d)
      BY DEF NewInv
    <2>1. d # e /\ state[d] = "new"
      BY <1>4
    <2>2. << ev, d >> \notin fired /\ ~Has(live[ev], d) /\ \A c \in Repl!Pending : ~Has(saved[c][ev], d)
      BY <1>1, <2>1 DEF NewInv
    <2>3. Has(Repl!Restored(e)[ev], d) <=> (Has(live[ev], d) /\ d \in Repl!Listeners /\ d # e) \/ Has(saved[e][ev], d)
      BY <1>1, <1>3, RestoredLists
    <2>4. ~Has(live'[ev], d)
      BY <1>2, <2>2, <2>3
    <2> QED
      BY <1>2, <1>5, <2>2, <2>4
  <1>9. CopiesInv'
    <2>1. ASSUME NEW ev \in Repl!Events, NEW t \in Repl!Listeners, t # e, Single(ev, t)
          PROVE  Single(ev, t)'
      BY <1>1, <1>2, <1>3, <1>4, <2>1, RestoredSingle
    <2>2. \A ev \in { "repl", "exit" } : ev \in Repl!Events /\ Repl!Own # e /\ Repl!Own \in Repl!Listeners
      BY <1>3 DEF Repl!Events, Repl!Own, Repl!Evals, Repl!Listeners
    <2>3. \A ev \in { "repl", "exit" } : Single(ev, Repl!Own)'
      BY <1>1, <2>1, <2>2 DEF CopiesInv
    <2>4. ASSUME NEW d \in Repl!Pending', NEW ev \in Repl!Events, << ev, d >> \notin fired'
          PROVE  Single(ev, d)'
      <3>1. d \in Repl!Pending /\ d # e /\ << ev, d >> \notin fired /\ d \in Repl!Listeners
        BY <1>2, <1>3, <1>5, <2>4 DEF Repl!Listeners
      <3>2. Single(ev, d)
        BY <1>1, <3>1 DEF CopiesInv
      <3> QED
        BY <2>1, <3>1, <3>2
    <2> QED
      BY <2>3, <2>4 DEF CopiesInv
  <1>10. SavedInv'
    BY <1>1, <1>5 DEF SavedInv
  <1>11. HandlerInv'
    <2>1. ASSUME NEW d \in Repl!Pending', NEW ev \in { "repl", "process" }, << ev, d >> \in fired'
          PROVE  \E first \in BOOLEAN : << d, first >> \in handlers'
      <3>1. d \in Repl!Pending \ {e} /\ << ev, d >> \in fired
        BY <1>2, <1>5, <2>1
      <3> QED
        BY <1>1, <3>1 DEF HandlerInv
    <2>2. top' = Repl!NoEval \/ top' \in Repl!Pending'
      BY <1>1, <1>2, <1>4 DEF HandlerInv
    <2> QED
      BY <2>1, <2>2 DEF HandlerInv
  <1>12. nested' => StackInv'
    <2> SUFFICES ASSUME nested, \A d \in Repl!Pending : d <= e PROVE StackInv'
      BY <1>2
    <2> QED
      BY <1>1, <1>2, <1>4, ReplUnstacked
  <1> QED
    BY <1>6, <1>7, <1>8, <1>9, <1>10, <1>11, <1>12 DEF ReplInv

\* Code or a handler ends whose evaluation has ended before.
LEMMA ReplAnswers ==
  ASSUME Repl!MaxEvalsAssumption, ReplInv, prompt' \in { prompt, Repl!Shown },
         UNCHANGED << state, top, live, saved, raw, rawBefore, promptBefore, ticks, nested,
                      fired, deferred, asked, gone >>,
         code' \in [Repl!Evals -> { "none", "running", "done" }],
         handlers' \subseteq Repl!Evals \X BOOLEAN,
         \A d \in Repl!Pending, first \in BOOLEAN :
           << d, first >> \in handlers => << d, first >> \in handlers'
  PROVE  ReplInv'
  <1>1. /\ Repl!TypeOK /\ OrderedInv /\ NewInv /\ CopiesInv /\ SavedInv /\ HandlerInv
        /\ nested => StackInv
    BY DEF ReplInv
  <1>2. Repl!Pending' = Repl!Pending /\ (Repl!Present' <=> Repl!Present)
    BY DEF Repl!Pending, Repl!Present
  <1>3. Repl!TypeOK'
    <2>1. prompt' \in { Repl!Shown, Repl!Hidden }
      BY <1>1 DEF Repl!TypeOK
    <2> QED
      BY <1>1, <2>1 DEF Repl!TypeOK
  <1>4. OrderedInv' /\ NewInv' /\ SavedInv'
    BY <1>1, <1>2 DEF OrderedInv, NewInv, SavedInv
  <1>5. \A ev, t : Single(ev, t) <=> Single(ev, t)'
    BY <1>2 DEF Single
  <1>6. CopiesInv'
    BY <1>1, <1>2, <1>5 DEF CopiesInv
  <1>7. HandlerInv'
    BY <1>1, <1>2 DEF HandlerInv
  <1>8. nested' => StackInv'
    BY <1>1, <1>2, ZenonT(60) DEF StackInv
  <1> QED
    BY <1>3, <1>4, <1>6, <1>7, <1>8 DEF ReplInv

\* The listeners of an evaluation that run for an event.
LEMMA ArmedMembers ==
  ASSUME Repl!TypeOK, NEW ev \in Repl!Events
  PROVE  /\ Repl!ToSet(Repl!Armed(ev)) = { t \in Repl!Evals : << ev, t >> \notin fired /\ Has(live[ev], t) }
         /\ \A i \in 1 .. Len(Repl!Armed(ev)) : Repl!Armed(ev)[i] \in Repl!ToSet(Repl!Armed(ev))
         /\ \A t \in Repl!ToSet(Repl!Armed(ev)) : \E i \in 1 .. Len(Repl!Armed(ev)) : Repl!Armed(ev)[i] = t
  <1>1. PICK T : T = { t \in Repl!Evals : << ev, t >> \notin fired }
    OBVIOUS
  <1>2. PICK a : a = Among(live[ev], T)
    OBVIOUS
  <1>3. live[ev] \in Seq(Repl!Listeners)
    BY ReplLists DEF Lists
  <1>4. a \in Seq(Repl!Listeners) /\ ToSet(a) = ToSet(live[ev]) \cap T
    BY <1>2, <1>3, AmongType, AmongMembers
  <1>5. DOMAIN a = 1 .. Len(a)
    BY <1>4, LenProperties
  <1>6. Repl!Armed(ev) = a
    BY <1>1, <1>2, ReplSequences DEF Repl!Armed
  <1>7. ToSet(a) = { t \in Repl!Evals : << ev, t >> \notin fired /\ Has(live[ev], t) }
    BY <1>1, <1>4 DEF Has
  <1>8. /\ \A i \in 1 .. Len(a) : a[i] \in ToSet(a)
        /\ \A t \in ToSet(a) : \E i \in 1 .. Len(a) : a[i] = t
    BY <1>5 DEF ToSet
  <1> QED
    BY <1>6, <1>7, <1>8, ReplSequences

\* After an event the REPL's own listeners for it are left.
LEMMA EmittedLists ==
  ASSUME Repl!TypeOK, NEW ev \in Repl!Events, Repl!Emit(ev)
  PROVE  /\ live'[ev] = Among(live[ev], { Repl!Own })
         /\ \A x \in Repl!Events : x # ev => live'[x] = live[x]
         /\ live' \in [Repl!Events -> Lists]
         /\ \A t : Has(live'[ev], t) <=> Has(live[ev], t) /\ t = Repl!Own
  <1>1. PICK a : a = Among(live[ev], { Repl!Own })
    OBVIOUS
  <1>2. live[ev] \in Seq(Repl!Listeners) /\ live \in [Repl!Events -> Lists]
    BY ReplLists DEF Lists
  <1>3. a \in Seq(Repl!Listeners) /\ ToSet(a) = ToSet(live[ev]) \cap { Repl!Own }
    BY <1>1, <1>2, AmongType, AmongMembers
  <1>4. live' = [live EXCEPT ![ev] = a]
    BY <1>1, ReplSequences DEF Repl!Emit
  <1>5. live'[ev] = a /\ \A x \in Repl!Events : x # ev => live'[x] = live[x]
    BY <1>2, <1>4
  <1>6. live' \in [Repl!Events -> Lists]
    <2>1. a \in Lists
      BY <1>3 DEF Lists
    <2> QED
      BY <1>2, <1>4, <2>1
  <1>7. \A t : t \in ToSet(live'[ev]) <=> t \in ToSet(live[ev]) /\ t = Repl!Own
    BY <1>3, <1>5
  <1> QED
    BY <1>1, <1>5, <1>6, <1>7 DEF Has

\* The REPL's own listeners are the only ones at the prompt, and stay.
LEMMA EmittedAtStart ==
  ASSUME Repl!TypeOK, NEW ev \in Repl!Events, Repl!Emit(ev), live = Repl!AtStart
  PROVE  live' = Repl!AtStart
  <1>1. Among(<< >>, { Repl!Own }) = << >>
    BY AmongNone
  <1>2. Among(<< Repl!Own >>, { Repl!Own }) = << Repl!Own >>
    <2>1. << >> \in Seq({ Repl!Own }) /\ Append(<< >>, Repl!Own) = << Repl!Own >>
      BY EmptySeq
    <2>2. KeptOf(Repl!Own, { Repl!Own }) = << Repl!Own >>
      BY DEF KeptOf
    <2>3. Among(Append(<< >>, Repl!Own), { Repl!Own }) = Among(<< >>, { Repl!Own }) \o KeptOf(Repl!Own, { Repl!Own })
      BY <2>1, AmongAppend
    <2>4. << >> \o << Repl!Own >> = << Repl!Own >>
      OBVIOUS
    <2> QED
      BY <1>1, <2>1, <2>2, <2>3, <2>4
  <1>3. live'[ev] = Repl!AtStart[ev]
    BY <1>1, <1>2, AtStartLists, EmittedLists
  <1>4. \A x \in Repl!Events : live'[x] = Repl!AtStart[x]
    BY <1>3, EmittedLists
  <1> QED
    BY <1>4, AtStartLists, EmittedLists

\* An event is emitted, and who listened has a handler at work if it was Ctrl+C.
LEMMA ReplEmits ==
  ASSUME Repl!MaxEvalsAssumption, ReplInv, NEW ev \in Repl!Events, Repl!Present, Repl!Emit(ev),
         UNCHANGED << state, code, top, saved, raw, rawBefore, prompt, promptBefore, nested >>,
         handlers \subseteq handlers', handlers' \subseteq Repl!Evals \X BOOLEAN,
         ev = "exit" \/ \A t \in Repl!ToSet(Repl!Armed(ev)) : \E first \in BOOLEAN : << t, first >> \in handlers',
         deferred' \in [Repl!Evals -> BOOLEAN], ticks' \in Nat, asked' \in BOOLEAN,
         gone' \in { "no", "exited", "killed" }
  PROVE  ReplInv'
  <1>1. /\ Repl!TypeOK /\ OrderedInv /\ NewInv /\ CopiesInv /\ SavedInv /\ HandlerInv
        /\ nested => StackInv
    BY DEF ReplInv
  <1>2. Repl!Pending' = Repl!Pending /\ Repl!Pending \subseteq Repl!Evals
    BY DEF Repl!Pending
  <1>3. PICK A : A = Repl!ToSet(Repl!Armed(ev))
    OBVIOUS
  <1>4. A = { t \in Repl!Evals : << ev, t >> \notin fired /\ Has(live[ev], t) }
    BY <1>1, <1>3, ArmedMembers
  <1>5. fired' = fired \cup { << ev, t >> : t \in A }
    BY <1>3 DEF Repl!Emit
  <1>6. \A x \in Repl!Events : \A t : Has(live'[x], t) => Has(live[x], t)
    BY <1>1, EmittedLists
  <1>7. Repl!TypeOK'
    <2>1. live' \in [Repl!Events -> Seq(Repl!Listeners)]
      BY <1>1, EmittedLists DEF Lists
    <2>2. fired' \subseteq Repl!Events \X Repl!Evals
      <3>1. fired \subseteq Repl!Events \X Repl!Evals
        BY <1>1 DEF Repl!TypeOK
      <3>2. ASSUME NEW t \in A PROVE << ev, t >> \in Repl!Events \X Repl!Evals
        BY <1>4
      <3> QED
        BY <1>5, <3>1, <3>2
    <2> QED
      BY <1>1, <2>1, <2>2 DEF Repl!TypeOK
  <1>8. OrderedInv' /\ SavedInv'
    BY <1>1, <1>2 DEF OrderedInv, SavedInv
  <1>9. NewInv'
    <2> SUFFICES ASSUME NEW x \in Repl!Events, NEW d \in Repl!Evals, state[d] = "new"
                 PROVE  /\ << x, d >> \notin fired' /\ ~Has(live'[x], d)
                        /\ \A c \in Repl!Pending : ~Has(saved[c][x], d)
      BY <1>2 DEF NewInv
    <2>1. << x, d >> \notin fired /\ ~Has(live[x], d) /\ \A c \in Repl!Pending : ~Has(saved[c][x], d)
      BY <1>1 DEF NewInv
    <2>2. << x, d >> \notin fired'
      BY <1>4, <1>5, <2>1
    <2> QED
      BY <1>6, <2>1, <2>2
  <1>10. CopiesInv'
    <2>1. ASSUME NEW x \in Repl!Events, NEW t, Single(x, t), x # ev \/ ~Has(live[x], t)
          PROVE  Single(x, t)'
      <3>1. CASE x # ev
        <4>1. live'[x] = live[x]
          BY <1>1, <3>1, EmittedLists
        <4> QED
          BY <1>2, <2>1, <4>1 DEF Single
      <3>2. CASE ~Has(live[x], t)
        <4>1. ~Has(live'[x], t)
          BY <1>6, <3>2
        <4>2. ~Once(live[x], t)
          BY <3>2, OnceHas
        <4> QED
          BY <1>2, <2>1, <4>1, <4>2 DEF Single
      <3> QED
        BY <2>1, <3>1, <3>2
    <2>2. Once(live[ev], Repl!Own) => Once(live'[ev], Repl!Own)
      <3> SUFFICES ASSUME Once(live[ev], Repl!Own) PROVE Once(live'[ev], Repl!Own)
        OBVIOUS
      <3>1. PICK T : T = { Repl!Own }
        OBVIOUS
      <3>2. live[ev] \in Seq(Repl!Listeners) /\ Repl!Own \in T
        BY <1>1, <3>1, ReplLists DEF Lists
      <3>3. Once(Among(live[ev], T), Repl!Own)
        BY <3>2, OnceKept
      <3> QED
        BY <1>1, <3>1, <3>3, EmittedLists
    <2>3. ASSUME NEW x \in { "repl", "exit" }
          PROVE  Single(x, Repl!Own)'
      <3>1. x \in Repl!Events /\ Single(x, Repl!Own)
        BY <1>1 DEF CopiesInv, Repl!Events
      <3>2. CASE x # ev \/ ~Has(live[x], Repl!Own)
        BY <2>1, <3>1, <3>2
      <3>3. CASE x = ev /\ Has(live[x], Repl!Own)
        <4>1. Once(live[x], Repl!Own) /\ \A d \in Repl!Pending : ~Has(saved[d][x], Repl!Own)
          BY <3>1, <3>3 DEF Single
        <4> QED
          BY <1>2, <2>2, <3>3, <4>1 DEF Single
      <3> QED
        BY <3>2, <3>3
    <2>4. ASSUME NEW d \in Repl!Pending, NEW x \in Repl!Events, << x, d >> \notin fired'
          PROVE  Single(x, d)'
      <3>1. << x, d >> \notin fired /\ Single(x, d)
        BY <1>1, <1>5, <2>4 DEF CopiesInv
      <3>2. x = ev => ~Has(live[x], d)
        BY <1>2, <1>4, <1>5, <2>4, <3>1
      <3> QED
        BY <2>1, <3>1, <3>2
    <2> QED
      BY <1>2, <2>3, <2>4 DEF CopiesInv
  <1>11. HandlerInv'
    <2>1. ASSUME NEW d \in Repl!Pending, NEW x \in { "repl", "process" }, << x, d >> \in fired'
          PROVE  \E first \in BOOLEAN : << d, first >> \in handlers'
      <3>1. CASE << x, d >> \in fired
        BY <1>1, <3>1 DEF HandlerInv
      <3>2. CASE << x, d >> \notin fired
        <4>1. x = ev /\ d \in A
          BY <1>5, <2>1, <3>2
        <4> QED
          BY <1>3, <4>1
      <3> QED
        BY <3>1, <3>2
    <2> QED
      BY <1>1, <1>2, <2>1 DEF HandlerInv
  <1>12. nested' => StackInv'
    <2> SUFFICES ASSUME StackInv PROVE StackInv'
      BY <1>1
    <2>1. Repl!Pending = {} => live' = Repl!AtStart /\ raw /\ prompt = Repl!Shown
      BY <1>1, EmittedAtStart DEF StackInv
    <2>2. ASSUME NEW e \in Repl!Pending, \A d \in Repl!Pending : d <= e
          PROVE  \A x \in Repl!Events : ToSet(live'[x]) \subseteq {e}
      <3>1. \A x \in Repl!Events : ToSet(live[x]) \subseteq {e}
        BY <2>2 DEF StackInv
      <3>2. \A x \in Repl!Events : \A t : t \in ToSet(live'[x]) => t \in ToSet(live[x])
        BY <1>6 DEF Has
      <3> QED
        BY <3>1, <3>2
    <2> QED
      BY <1>2, <2>1, <2>2, ZenonT(60) DEF StackInv
  <1> QED
    BY <1>7, <1>8, <1>9, <1>10, <1>11, <1>12 DEF ReplInv

\* Every step keeps the invariant.
LEMMA ReplNext ==
  ASSUME Repl!MaxEvalsAssumption, ReplInv, [Repl!Next]_(Repl!vars)
  PROVE  ReplInv'
  <1>1. Repl!TypeOK
    BY DEF ReplInv
  <1>2. ASSUME NEW e \in Repl!Evals, Repl!EvalLine(e)
        PROVE  ReplInv'
    BY <1>2, ReplBegin DEF Repl!EvalLine
  <1>3. ASSUME NEW e \in Repl!Evals, Repl!EvalNested(e)
        PROVE  ReplInv'
    BY <1>3, ReplBegin DEF Repl!EvalNested
  <1>4. ASSUME NEW e \in Repl!Evals, Repl!CodeEnds(e)
        PROVE  ReplInv'
    <2>1. /\ code' \in [Repl!Evals -> { "none", "running", "done" }]
          /\ handlers' = handlers /\ handlers \subseteq Repl!Evals \X BOOLEAN
          /\ prompt \in { Repl!Shown, Repl!Hidden }
      BY <1>1, <1>4 DEF Repl!CodeEnds, Repl!TypeOK
    <2>2. UNCHANGED << fired, deferred, asked, gone >>
      BY <1>4 DEF Repl!CodeEnds
    <2>3. PICK shown \in { prompt, Repl!Shown } :
            IF state[e] = "pending"
            THEN Repl!Finally(e, shown)
            ELSE /\ prompt' = shown
                 /\ UNCHANGED << state, top, Repl!lists, raw, rawBefore, promptBefore, ticks, nested >>
      BY <1>4 DEF Repl!CodeEnds
    <2>4. CASE state[e] = "pending"
      <3>1. e \in Repl!Pending /\ Repl!Finally(e, shown) /\ shown \in { Repl!Shown, Repl!Hidden }
        BY <2>1, <2>3, <2>4 DEF Repl!Pending
      <3> QED
        BY <2>1, <2>2, <3>1, ReplEnds
    <2>5. CASE state[e] # "pending"
      <3>1. /\ prompt' \in { prompt, Repl!Shown }
            /\ UNCHANGED << state, top, live, saved, raw, rawBefore, promptBefore, ticks, nested >>
        BY <2>3, <2>5 DEF Repl!lists
      <3> QED
        BY <2>1, <2>2, <3>1, ReplAnswers
    <2> QED
      BY <2>4, <2>5
  <1>5. ASSUME NEW e \in Repl!Evals, NEW first \in BOOLEAN, Repl!HandlerEnds(e, first)
        PROVE  ReplInv'
    <2>1. PICK shown : shown = IF first THEN Repl!Shown ELSE prompt
      OBVIOUS
    <2>2. /\ shown \in { prompt, Repl!Shown } /\ shown \in { Repl!Shown, Repl!Hidden }
          /\ handlers' = handlers \ { << e, first >> } /\ handlers \subseteq Repl!Evals \X BOOLEAN
          /\ code' \in [Repl!Evals -> { "none", "running", "done" }]
      BY <1>1, <1>5, <2>1 DEF Repl!HandlerEnds, Repl!TypeOK
    <2>3. UNCHANGED << fired, deferred, asked, gone >>
      BY <1>5 DEF Repl!HandlerEnds
    <2>4. IF state[e] = "pending"
          THEN Repl!Finally(e, shown)
          ELSE /\ prompt' = shown
               /\ UNCHANGED << state, top, Repl!lists, raw, rawBefore, promptBefore, ticks, nested >>
      BY <1>5, <2>1 DEF Repl!HandlerEnds
    <2>5. /\ handlers' \subseteq Repl!Evals \X BOOLEAN
          /\ \A d, f : d # e /\ << d, f >> \in handlers => << d, f >> \in handlers'
      BY <2>2
    <2>6. CASE state[e] = "pending"
      <3>1. e \in Repl!Pending /\ Repl!Finally(e, shown)
        BY <2>4, <2>6 DEF Repl!Pending
      <3> QED
        BY <2>2, <2>3, <2>5, <3>1, ReplEnds
    <2>7. CASE state[e] # "pending"
      <3>1. /\ prompt' \in { prompt, Repl!Shown } /\ \A d \in Repl!Pending : d # e
            /\ UNCHANGED << state, top, live, saved, raw, rawBefore, promptBefore, ticks, nested >>
        BY <2>2, <2>4, <2>7 DEF Repl!lists, Repl!Pending
      <3> QED
        BY <2>2, <2>3, <2>5, <3>1, ReplAnswers
    <2> QED
      BY <2>6, <2>7
  <1>6. CASE Repl!CtrlC
    <2>1. PICK ev : ev = Repl!CtrlCEvent
      OBVIOUS
    <2>2. ev \in Repl!Events
      BY <2>1 DEF Repl!CtrlCEvent, Repl!Events
    <2>3. UNCHANGED << state, code, top, saved, raw, rawBefore, prompt, promptBefore, deferred, ticks, asked, nested >>
      BY <1>6 DEF Repl!CtrlC, Repl!terminal
    <2>4. CASE live[ev] = << >>
      <3>1. gone' = "killed" /\ UNCHANGED << live, fired, handlers >>
        BY <1>6, <2>1, <2>4 DEF Repl!CtrlC
      <3>2. Repl!Pending' = Repl!Pending /\ ~Repl!Present'
        BY <2>3, <3>1 DEF Repl!Pending, Repl!Present
      <3>3. Repl!TypeOK'
        BY <1>1, <2>3, <3>1 DEF Repl!TypeOK
      <3>4. OrderedInv' /\ NewInv' /\ SavedInv' /\ HandlerInv'
        BY <2>3, <3>1, <3>2 DEF ReplInv, OrderedInv, NewInv, SavedInv, HandlerInv
      <3>5. \A x, t : Single(x, t) <=> Single(x, t)'
        BY <2>3, <3>1, <3>2 DEF Single
      <3>6. CopiesInv'
        BY <3>1, <3>2, <3>5 DEF ReplInv, CopiesInv
      <3>7. nested' => StackInv'
        BY <2>3, <3>1, <3>2, ZenonT(60) DEF ReplInv, StackInv
      <3> QED
        BY <3>3, <3>4, <3>6, <3>7 DEF ReplInv
    <2>5. CASE live[ev] # << >>
      <3>1. /\ Repl!Present /\ Repl!Emit(ev) /\ UNCHANGED gone
            /\ handlers' = handlers \cup { << Repl!Armed(ev)[i], i = 1 /\ ~Repl!Interrupting >> :
                                             i \in 1 .. Len(Repl!Armed(ev)) }
        BY <1>6, <2>1, <2>5 DEF Repl!CtrlC
      <3>2. /\ \A i \in 1 .. Len(Repl!Armed(ev)) : Repl!Armed(ev)[i] \in Repl!Evals
            /\ \A t \in Repl!ToSet(Repl!Armed(ev)) : \E i \in 1 .. Len(Repl!Armed(ev)) : Repl!Armed(ev)[i] = t
        BY <1>1, <2>2, ArmedMembers
      <3>3. PICK F : F = [i \in 1 .. Len(Repl!Armed(ev)) |-> (i = 1 /\ ~Repl!Interrupting)]
        OBVIOUS
      <3>4. /\ \A i \in 1 .. Len(Repl!Armed(ev)) : F[i] \in BOOLEAN
            /\ handlers' = handlers \cup { << Repl!Armed(ev)[i], F[i] >> : i \in 1 .. Len(Repl!Armed(ev)) }
        BY <3>1, <3>3
      <3>5. handlers \subseteq Repl!Evals \X BOOLEAN
        BY <1>1 DEF Repl!TypeOK
      <3>6. handlers \subseteq handlers' /\ handlers' \subseteq Repl!Evals \X BOOLEAN
        BY <3>2, <3>4, <3>5
      <3>7. ASSUME NEW t \in Repl!ToSet(Repl!Armed(ev))
            PROVE  \E f \in BOOLEAN : << t, f >> \in handlers'
        <4>1. PICK i \in 1 .. Len(Repl!Armed(ev)) : Repl!Armed(ev)[i] = t
          BY <3>2
        <4>2. << t, F[i] >> \in handlers' /\ F[i] \in BOOLEAN
          BY <3>4, <4>1
        <4> QED
          BY <4>2
      <3>8. /\ deferred' \in [Repl!Evals -> BOOLEAN] /\ ticks' \in Nat /\ asked' \in BOOLEAN
            /\ gone' \in { "no", "exited", "killed" }
        BY <1>1, <2>3, <3>1 DEF Repl!TypeOK
      <3> QED
        BY <2>2, <2>3, <3>1, <3>6, <3>7, <3>8, ReplEmits
    <2> QED
      BY <2>4, <2>5
  <1>7. CASE Repl!EndOfInput \/ Repl!EmitDeferred
    <2>1. Repl!Present /\ Repl!EmitExit /\ asked' \in BOOLEAN /\ ticks' \in Nat
      <3>1. ticks' = ticks \/ (ticks > 0 /\ ticks' = ticks - 1)
        BY <1>7 DEF Repl!EndOfInput, Repl!EmitDeferred
      <3>2. ticks' \in Nat
        BY <1>1, <3>1 DEF Repl!TypeOK
      <3>3. asked' = TRUE \/ asked' = asked
        BY <1>7 DEF Repl!EndOfInput, Repl!EmitDeferred
      <3>4. asked' \in BOOLEAN
        BY <1>1, <3>3 DEF Repl!TypeOK
      <3>5. Repl!Present /\ Repl!EmitExit
        BY <1>7 DEF Repl!EndOfInput, Repl!EmitDeferred
      <3> QED
        BY <3>2, <3>4, <3>5
    <2>2. /\ Repl!Emit("exit") /\ "exit" \in Repl!Events
          /\ UNCHANGED << state, code, top, saved, handlers, raw, rawBefore, prompt, promptBefore, nested >>
      BY <2>1 DEF Repl!EmitExit, Repl!Events, Repl!terminal
    <2>3. deferred' \in [Repl!Evals -> BOOLEAN] /\ gone' \in { "no", "exited", "killed" }
      <3>1. \A e \in Repl!Evals : (deferred[e] \/ e \in Repl!ToSet(Repl!Armed("exit"))) \in BOOLEAN
        OBVIOUS
      <3> QED
        BY <1>1, <2>1, <3>1 DEF Repl!EmitExit, Repl!TypeOK
    <2>4. handlers \subseteq Repl!Evals \X BOOLEAN
      BY <1>1 DEF Repl!TypeOK
    <2> QED
      BY <2>1, <2>2, <2>3, <2>4, ReplEmits
  <1>8. CASE Repl!Left \/ UNCHANGED Repl!vars
    <2>1. UNCHANGED << state, code, top, live, saved, fired, handlers, raw, rawBefore, prompt, promptBefore,
                       deferred, ticks, asked, gone, nested >>
      BY <1>8 DEF Repl!Left, Repl!vars
    <2>2. code \in [Repl!Evals -> { "none", "running", "done" }] /\ handlers \subseteq Repl!Evals \X BOOLEAN
      BY <1>1 DEF Repl!TypeOK
    <2> QED
      BY <2>1, <2>2, ReplAnswers
  <1> QED
    BY <1>2, <1>3, <1>4, <1>5, <1>6, <1>7, <1>8 DEF Repl!Next

\* The invariant of the evaluations.
LEMMA ReplInvCorrect ==
  ASSUME Repl!MaxEvalsAssumption
  PROVE  Repl!Spec => []ReplInv
  <1>1. Repl!Init => ReplInv
    BY ReplInit
  <1>2. ReplInv /\ [Repl!Next]_(Repl!vars) => ReplInv'
    BY ReplNext
  <1> QED
    BY <1>1, <1>2, PTL DEF Repl!Spec

\* The variables of the evaluations keep their types: the listeners that
\* _eval() takes and puts back are lists of those of the REPL and of
\* evaluations.
THEOREM ReplTypeCorrect ==
  ASSUME Repl!MaxEvalsAssumption
  PROVE  Repl!Spec => []Repl!TypeOK
  <1>1. ReplInv => Repl!TypeOK
    BY DEF ReplInv
  <1> QED
    BY <1>1, ReplInvCorrect, PTL

\* Taking listeners away and putting them back (async-repl.ts:52-65): however
\* many evaluations nest, overlap and are abandoned, no listener is lost or
\* doubled, nested evaluations leave the terminal as it was, and Ctrl+C is
\* heard while the REPL waits.
THEOREM ListenersSafeCorrect ==
  ASSUME Repl!MaxEvalsAssumption
  PROVE  Repl!Spec => []ListenersSafe
  <1>1. ReplInv => ListenersSafe
    BY ReplInvSafe DEF ListenersSafe
  <1> QED
    BY <1>1, ReplInvCorrect, PTL

=============================================================================
