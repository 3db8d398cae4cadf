--------------------------- MODULE Snippets_proofs ---------------------------
(***************************************************************************)
(* Proofs about SnippetIndex and SnippetPackages: for any number of        *)
(* commands and fetches the index is fetched once at a time and never goes *)
(* back, and package.json names what is installed.                         *)
(***************************************************************************)
EXTENDS Snippets, TLAPS

-----------------------------------------------------------------------------
(* The index.                                                              *)

\* A fetch has begun after what it asks for was published.  What it brings is of
\* its sources and, until it is saved, as new as anything that has been saved, and
\* published.
FlightOK(call) ==
  /\ call.since <= server
  /\ call.at \in {"reading", "fetching", "truncating", "saving", "tail"} => call.src \in Sources
  /\ call.at \in {"truncating", "saving", "tail"} =>
       /\ call.data \in Indexes /\ call.data.src = call.src
       /\ call.mode = "force-refresh" => call.data.ver >= call.since
  /\ call.at \in {"truncating", "saving"} =>
       call.data.ver <= server /\ call.data.ver >= newest[call.src]

\* Nothing newer has been saved than there is.
NewestInv == \A s \in Sources : newest[s] <= server

\* The inductive invariant of SnippetIndex.
IInv ==
  /\ TypeOK /\ OneFetch /\ CacheNewest /\ NewestInv
  /\ \A f \in Flights : FlightOK(fetch[f])

FetchingStates == {"begun", "reading", "fetching", "truncating", "saving"}

\* Fetches and tasks that are not under way.
LEMMA Nones ==
  /\ NoIndex \notin Indexes /\ NoIndex.ver = 0
  /\ NoFetch \in FetchStates /\ NoFetch.at = "free" /\ NoFetch.since = 0
  /\ NoTask \in TaskStates
  /\ First \in Flights
  BY IndexAssumption DEF NoIndex, Indexes, NoFetch, FetchStates, NoTask, TaskStates, Modes,
     First

\* A fetch begins.
LEMMA BegunIs ==
  ASSUME IInv, NEW mode \in Modes
  PROVE  /\ Begun(mode) \in FetchStates /\ Begun(mode).at = "begun"
         /\ Begun(mode).since <= server
  <1>1. server \in 0 .. MaxVersion /\ 0 \in 0 .. MaxVersion /\ server \in Nat
    BY IndexAssumption DEF IInv, TypeOK
  <1>2. PICK since \in 0 .. MaxVersion :
          since = (IF mode = "force-refresh" THEN server ELSE 0) /\ since <= server
    BY <1>1
  <1>3. PICK r : r = [NoFetch EXCEPT !.at = "begun", !.mode = mode, !.since = since]
    OBVIOUS
  <1>4. r \in FetchStates /\ r.at = "begun" /\ r.since = since
    BY <1>3, Nones DEF FetchStates
  <1>5. r = Begun(mode)
    BY <1>2, <1>3 DEF Begun
  <1> QED
    BY <1>2, <1>4, <1>5

\* The first fetch of a session.
LEMMA OneBegunIs ==
  /\ OneBegun \in [Flights -> FetchStates]
  /\ \A f \in Flights : OneBegun[f].since = 0 /\ OneBegun[f].at \in {"free", "begun"}
                        /\ (OneBegun[f].at = "begun" => f = First)
  <1>1. PICK r : r = [NoFetch EXCEPT !.at = "begun"]
    OBVIOUS
  <1>2. r \in FetchStates /\ r.at = "begun" /\ r.since = 0
    BY <1>1, Nones DEF FetchStates
  <1>3. OneBegun = [f \in Flights |-> IF f = First THEN r ELSE NoFetch]
    BY <1>1 DEF OneBegun
  <1> QED
    BY <1>2, <1>3, Nones

\* The inductive invariant holds initially.
LEMMA InitIInv == Init => IInv
  <1> SUFFICES ASSUME Init PROVE IInv
    OBVIOUS
  <1>1. 0 \in 0 .. MaxVersion
    BY IndexAssumption
  <1>2. TypeOK
    BY <1>1, Nones, OneBegunIs DEF Init, TypeOK
  <1>3. OneFetch /\ CacheNewest /\ NewestInv
    BY OneBegunIs DEF Init, OneFetch, Fetching, CacheNewest, NewestInv
  <1>4. \A f \in Flights : FlightOK(fetch[f])
    BY OneBegunIs DEF Init, FlightOK
  <1> QED
    BY <1>2, <1>3, <1>4 DEF IInv

\* After a step of one fetch there is one fetch at a time, if it is the one that
\* everybody joins or gives it up; and the others are as they were.
LEMMA FlightStep ==
  ASSUME IInv, NEW f \in Flights, NEW r \in FetchStates, fetch' = [fetch EXCEPT ![f] = r],
         server' = server, FlightOK(r)',
         inflight' = inflight \/ inflight \in {f, NoFlight},
         r.at \in FetchingStates => inflight' = f,
         newest' = newest \/ inflight = f
  PROVE  /\ fetch' \in [Flights -> FetchStates] /\ OneFetch'
         /\ \A g \in Flights : FlightOK(fetch[g])'
  <1>1. fetch' \in [Flights -> FetchStates] /\ fetch'[f] = r
        /\ \A g \in Flights \ {f} : fetch'[g] = fetch[g]
    BY DEF IInv, TypeOK
  <1>2. OneFetch'
    BY <1>1, IndexAssumption DEF IInv, OneFetch, Fetching, FetchingStates
  <1>3. ASSUME NEW g \in Flights
        PROVE  FlightOK(fetch[g])'
    <2>1. CASE g = f
      BY <1>1, <2>1 DEF FlightOK
    <2>2. CASE g # f
      <3>1. fetch'[g] = fetch[g] /\ FlightOK(fetch[g])
        BY <1>1, <2>2 DEF IInv
      <3>2. newest' = newest \/ fetch[g].at \notin FetchingStates
        BY <2>2 DEF IInv, OneFetch, Fetching, FetchingStates
      <3> QED
        BY <3>1, <3>2 DEF FlightOK, FetchingStates
    <2> QED
      BY <2>1, <2>2
  <1> QED
    BY <1>1, <1>2, <1>3

\* What becomes of the tasks that wait for a fetch.
LEMMA ReleasedIs ==
  ASSUME TypeOK, NEW f \in Flights, NEW data \in Indexes \cup {NoIndex}
  PROVE  Released(f, data) \in [Tasks -> TaskStates]
  <1> SUFFICES ASSUME NEW t \in Tasks PROVE Released(f, data)[t] \in TaskStates
    BY DEF Released
  <1>1. PICK old1 : old1 = task[t]
    OBVIOUS
  <1>2. old1 \in TaskStates
    BY <1>1 DEF TypeOK
  <1>3. [old1 EXCEPT !.waits = NoFlight, !.got = data] \in TaskStates
    BY <1>2 DEF TaskStates
  <1> QED
    BY <1>1, <1>2, <1>3, Nones DEF Released

\* A fetch is in one of its states, as it should be.
LEMMA FetchIs ==
  ASSUME IInv, NEW f \in Flights, NEW call, call = fetch[f]
  PROVE  /\ call \in FetchStates /\ FlightOK(call)
         /\ call.at \in FetchingStates => inflight = f
         /\ server \in 0 .. MaxVersion /\ server \in Nat
         /\ call.since \in Nat /\ call.data.ver \in Nat
         /\ newest \in [Sources -> 0 .. MaxVersion] /\ \A s \in Sources : newest[s] \in Nat
  <1>1. call \in FetchStates
    BY DEF IInv, TypeOK
  <1>2. FlightOK(call)
    BY DEF IInv, FlightOK
  <1>3. call.at \in FetchingStates => inflight = f
    BY DEF IInv, OneFetch, Fetching, FetchingStates
  <1>4. 0 .. MaxVersion \subseteq Nat
    BY IndexAssumption
  <1>5. call.data.ver \in 0 .. MaxVersion /\ call.since \in 0 .. MaxVersion
    BY <1>1, IndexAssumption DEF FetchStates, Indexes, NoIndex
  <1>6. server \in 0 .. MaxVersion /\ newest \in [Sources -> 0 .. MaxVersion]
    BY DEF IInv, TypeOK
  <1> QED
    BY <1>1, <1>2, <1>3, <1>4, <1>5, <1>6

\* A step that is neither seen on the disk nor by the tasks.
LEMMA QuietStep ==
  ASSUME IInv, NEW f \in Flights, NEW r \in FetchStates, fetch' = [fetch EXCEPT ![f] = r],
         FlightOK(r), r.at \in FetchingStates => inflight' = f,
         inflight' \in {inflight, NoFlight}, inflight' # inflight => inflight = f,
         UNCHANGED << world, disk, repos, npm, task, due >>
  PROVE  IInv'
  <1>1. server' = server /\ newest' = newest /\ cache' = cache
    BY DEF world, disk
  <1>2. FlightOK(r)'
    BY <1>1 DEF FlightOK
  <1>3. /\ fetch' \in [Flights -> FetchStates] /\ OneFetch'
        /\ \A g \in Flights : FlightOK(fetch[g])'
    BY <1>1, <1>2, FlightStep
  <1>4. TypeOK'
    BY <1>3 DEF IInv, TypeOK, world, disk
  <1> QED
    BY <1>1, <1>3, <1>4 DEF IInv, CacheNewest, NewestInv

\* The fetch is configured, the cache is read, or the network has answered.
LEMMA FetchConfigIInv ==
  ASSUME IInv, NEW f \in Flights, FetchConfig(f)
  PROVE  IInv'
  <1>1. PICK call : call = fetch[f]
    OBVIOUS
  <1>2. call \in FetchStates /\ FlightOK(call) /\ call.at = "begun" /\ inflight = f
    BY <1>1, FetchIs DEF FetchConfig, FetchingStates
  <1>3. PICK r : r = [call EXCEPT !.at = "reading", !.src = source]
    OBVIOUS
  <1>4. source \in Sources
    BY DEF IInv, TypeOK
  <1>5. r \in FetchStates /\ r.at = "reading" /\ r.src = source /\ r.since = call.since
    BY ONLY <1>2, <1>3, <1>4 DEF FetchStates
  <1>6. FlightOK(r)
    BY <1>2, <1>4, <1>5 DEF FlightOK
  <1>7. fetch' = [fetch EXCEPT ![f] = r]
    BY <1>1, <1>3 DEF FetchConfig, IInv, TypeOK
  <1> QED
    BY <1>2, <1>5, <1>6, <1>7, QuietStep DEF FetchConfig

\* The cache is read, and used or not.
LEMMA ReadCacheIInv ==
  ASSUME IInv, NEW f \in Flights, ReadCache(f)
  PROVE  IInv'
  <1>1. PICK call : call = fetch[f]
    OBVIOUS
  <1>2. call \in FetchStates /\ FlightOK(call) /\ call.at = "reading" /\ inflight = f
    BY <1>1, FetchIs DEF ReadCache, FetchingStates
  <1>3. CASE Usable(f)
    <2>1. PICK index : index = cache
      OBVIOUS
    <2>2. index \in Indexes /\ index.src = call.src /\ call.mode = "allow-cached"
      BY <1>1, <1>3, <2>1 DEF Usable, IInv, TypeOK
    <2>3. PICK r : r = [call EXCEPT !.at = "tail", !.data = index]
      OBVIOUS
    <2>4. /\ r \in FetchStates /\ r.at = "tail" /\ r.src = call.src /\ r.since = call.since
          /\ r.data = index /\ r.mode = call.mode
      BY ONLY <1>2, <2>2, <2>3 DEF FetchStates
    <2>5. FlightOK(r)
      BY <1>2, <2>2, <2>4 DEF FlightOK
    <2>6. fetch' = [fetch EXCEPT ![f] = r] /\ inflight' = NoFlight
      BY <1>1, <1>3, <2>1, <2>3 DEF ReadCache, IInv, TypeOK
    <2> QED
      BY <1>2, <2>4, <2>5, <2>6, QuietStep DEF ReadCache, FetchingStates
  <1>4. CASE ~ Usable(f)
    <2>1. PICK r : r = [call EXCEPT !.at = "fetching"]
      OBVIOUS
    <2>2. r \in FetchStates /\ r.at = "fetching" /\ r.src = call.src /\ r.since = call.since
      BY ONLY <1>2, <2>1 DEF FetchStates
    <2>3. FlightOK(r)
      BY <1>2, <2>2 DEF FlightOK
    <2>4. fetch' = [fetch EXCEPT ![f] = r] /\ inflight' = inflight
      BY <1>1, <1>4, <2>1 DEF ReadCache
    <2> QED
      BY <1>2, <2>2, <2>3, <2>4, QuietStep DEF ReadCache
  <1> QED
    BY <1>3, <1>4

\* The network has answered.
LEMMA FetchedIInv ==
  ASSUME IInv, NEW f \in Flights, Fetched(f)
  PROVE  IInv'
  <1>1. PICK call : call = fetch[f]
    OBVIOUS
  <1>2. call \in FetchStates /\ FlightOK(call) /\ call.at = "fetching" /\ inflight = f
    BY <1>1, FetchIs DEF Fetched, FetchingStates
  <1>3. PICK index : index = [src |-> call.src, ver |-> server]
    OBVIOUS
  <1>4. /\ index \in Indexes /\ index.src = call.src /\ index.ver = server
        /\ index.ver >= call.since /\ index.ver >= newest[call.src] /\ index.ver <= server
    BY <1>1, <1>2, <1>3, FetchIs DEF FlightOK, Indexes, IInv, NewestInv
  <1>5. PICK r : r = [call EXCEPT !.at = "truncating", !.data = index]
    OBVIOUS
  <1>6. /\ r \in FetchStates /\ r.at = "truncating" /\ r.src = call.src /\ r.since = call.since
        /\ r.data = index /\ r.mode = call.mode
    BY ONLY <1>2, <1>4, <1>5 DEF FetchStates
  <1>7. FlightOK(r)
    BY <1>2, <1>4, <1>6 DEF FlightOK
  <1>8. fetch' = [fetch EXCEPT ![f] = r] /\ inflight' = inflight
    BY <1>1, <1>3, <1>5 DEF Fetched, IInv, TypeOK
  <1> QED
    BY <1>2, <1>6, <1>7, <1>8, QuietStep DEF Fetched

\* The network has failed.
LEMMA FetchFailsIInv ==
  ASSUME IInv, NEW f \in Flights, FetchFails(f)
  PROVE  IInv'
  <1>1. PICK r : r = [NoFetch EXCEPT !.at = "failed"]
    OBVIOUS
  <1>2. r \in FetchStates /\ r.at = "failed" /\ r.since = 0
    BY <1>1, Nones DEF FetchStates
  <1>3. server \in Nat
    BY FetchIs
  <1>4. /\ fetch' = [fetch EXCEPT ![f] = r] /\ UNCHANGED << source, server, cache, old, newest >>
        /\ inflight' = inflight /\ repos' = repos /\ npm' = npm /\ due' = due
    BY <1>1 DEF FetchFails, world, disk
  <1>5. FlightOK(r)'
    BY <1>2, <1>3, <1>4 DEF FlightOK
  <1>6. /\ fetch' \in [Flights -> FetchStates] /\ OneFetch'
        /\ \A g \in Flights : FlightOK(fetch[g])'
    BY <1>2, <1>4, <1>5, FlightStep DEF FetchingStates
  <1>7. task' \in [Tasks -> TaskStates]
    BY ReleasedIs DEF FetchFails, IInv
  <1>8. TypeOK'
    BY <1>4, <1>6, <1>7 DEF IInv, TypeOK
  <1> QED
    BY <1>4, <1>6, <1>8 DEF IInv, CacheNewest, NewestInv

\* The cache is truncated.
LEMMA SaveStartsIInv ==
  ASSUME IInv, NEW f \in Flights, SaveStarts(f)
  PROVE  IInv'
  <1>1. PICK call : call = fetch[f]
    OBVIOUS
  <1>2. call \in FetchStates /\ FlightOK(call) /\ call.at = "truncating" /\ inflight = f
    BY <1>1, FetchIs DEF SaveStarts, FetchingStates
  <1>3. PICK r : r = [call EXCEPT !.at = "saving"]
    OBVIOUS
  <1>4. /\ r \in FetchStates /\ r.at = "saving" /\ r.src = call.src /\ r.since = call.since
        /\ r.data = call.data /\ r.mode = call.mode
    BY ONLY <1>2, <1>3 DEF FetchStates
  <1>5. /\ fetch' = [fetch EXCEPT ![f] = r] /\ cache' = NoIndex /\ old' = FALSE
        /\ UNCHANGED << source, server, newest, inflight, repos, npm, task, due >>
    BY <1>1, <1>3 DEF SaveStarts, world
  <1>6. FlightOK(r)'
    BY <1>2, <1>4, <1>5 DEF FlightOK
  <1>7. /\ fetch' \in [Flights -> FetchStates] /\ OneFetch'
        /\ \A g \in Flights : FlightOK(fetch[g])'
    BY <1>2, <1>4, <1>5, <1>6, FlightStep
  <1>8. TypeOK'
    BY <1>5, <1>7 DEF IInv, TypeOK
  <1> QED
    BY <1>5, <1>7, <1>8 DEF IInv, CacheNewest, NewestInv

\* The cache is written, with what is as new as anything saved before; or not.
LEMMA SaveEndsIInv ==
  ASSUME IInv, NEW f \in Flights, SaveEnds(f)
  PROVE  IInv'
  <1>1. PICK call : call = fetch[f]
    OBVIOUS
  <1>2. /\ call \in FetchStates /\ FlightOK(call) /\ call.at = "saving" /\ inflight = f
        /\ call.src \in Sources /\ call.data \in Indexes /\ call.data.src = call.src
        /\ call.data.ver \in Nat /\ call.data.ver >= newest[call.src]
        /\ call.data.ver <= server
        /\ newest \in [Sources -> 0 .. MaxVersion] /\ \A s \in Sources : newest[s] \in Nat
        /\ server \in Nat
    BY <1>1, FetchIs DEF SaveEnds, FetchingStates, FlightOK
  <1>3. /\ fetch' = [fetch EXCEPT ![f] = NoFetch] /\ inflight' = NoFlight
        /\ due' \in {due, FALSE} /\ UNCHANGED << source, server, npm >>
        /\ repos' = call.data /\ task' = Released(f, call.data)
    BY <1>1 DEF SaveEnds, Settles, world
  <1>4. FlightOK(NoFetch)'
    BY <1>2, <1>3, Nones DEF FlightOK
  <1>5. /\ fetch' \in [Flights -> FetchStates] /\ OneFetch'
        /\ \A g \in Flights : FlightOK(fetch[g])'
    BY <1>2, <1>3, <1>4, Nones, FlightStep DEF FetchingStates
  <1>6. /\ cache' \in Indexes \cup {NoIndex} /\ old' \in BOOLEAN
        /\ newest' \in [Sources -> 0 .. MaxVersion] /\ CacheNewest' /\ NewestInv'
    <2>1. CASE UNCHANGED disk
      BY <1>3, <2>1 DEF disk, IInv, TypeOK, CacheNewest, NewestInv
    <2>2. CASE /\ cache' = fetch[f].data /\ old' = FALSE
               /\ newest' = [newest EXCEPT ![fetch[f].src] =
                      IF newest[fetch[f].src] < fetch[f].data.ver THEN fetch[f].data.ver
                      ELSE newest[fetch[f].src]]
      <3>1. PICK version : version = IF newest[call.src] < call.data.ver THEN call.data.ver
                                     ELSE newest[call.src]
        OBVIOUS
      <3>2. version = call.data.ver /\ version \in 0 .. MaxVersion
        BY <1>2, <3>1 DEF Indexes
      <3>3. cache' = call.data /\ old' = FALSE /\ newest' = [newest EXCEPT ![call.src] = version]
        BY <1>1, <2>2, <3>1
      <3>4. newest' \in [Sources -> 0 .. MaxVersion]
        BY ONLY <1>2, <3>2, <3>3
      <3>5. CacheNewest'
        BY <1>2, <3>2, <3>3 DEF CacheNewest
      <3>6. NewestInv'
        BY <1>2, <1>3, <3>2, <3>3 DEF NewestInv, IInv
      <3> QED
        BY <1>2, <3>3, <3>4, <3>5, <3>6
    <2> QED
      BY <2>1, <2>2 DEF SaveEnds
  <1>7. task' \in [Tasks -> TaskStates]
    BY <1>2, <1>3, ReleasedIs DEF IInv
  <1>8. TypeOK'
    BY <1>2, <1>3, <1>5, <1>6, <1>7 DEF IInv, TypeOK
  <1> QED
    BY <1>5, <1>6, <1>8 DEF IInv

\* A cache that was used has been returned, and is perhaps fetched anew.
LEMMA TailIInv ==
  ASSUME IInv, NEW f \in Flights, Tail(f)
  PROVE  IInv'
  <1>1. PICK call : call = fetch[f]
    OBVIOUS
  <1>2. /\ call \in FetchStates /\ FlightOK(call) /\ call.at = "tail" /\ server \in Nat
        /\ call.data \in Indexes
    BY <1>1, FetchIs DEF Tail, FlightOK
  <1>3. /\ UNCHANGED << source, server, cache, old, newest, npm >>
        /\ repos' = call.data /\ task' = Released(f, call.data) /\ due' = (due \/ old)
    BY <1>1 DEF Tail, Settles, world, disk
  <1>4. PICK r \in FetchStates :
          /\ fetch' = [fetch EXCEPT ![f] = r] /\ r.since <= server
          /\ \/ r.at = "begun" /\ inflight = NoFlight /\ inflight' = f
             \/ r.at = "free" /\ inflight' = inflight
    <2>1. CASE old /\ Joined("force-refresh") = NoFlight
      <3>1. PICK r : r = Begun("force-refresh")
        OBVIOUS
      <3>2. r \in FetchStates /\ r.at = "begun" /\ r.since <= server
        BY <3>1, BegunIs DEF Modes
      <3> QED
        BY <2>1, <3>1, <3>2 DEF Tail, Joined
    <2>2. CASE ~ (old /\ Joined("force-refresh") = NoFlight)
      <3>1. PICK r : r = NoFetch
        OBVIOUS
      <3> QED
        BY <1>2, <2>2, <3>1, Nones DEF Tail
    <2> QED
      BY <2>1, <2>2
  <1>5. FlightOK(r)'
    BY <1>3, <1>4 DEF FlightOK
  <1>6. /\ fetch' \in [Flights -> FetchStates] /\ OneFetch'
        /\ \A g \in Flights : FlightOK(fetch[g])'
    BY <1>3, <1>4, <1>5, FlightStep DEF FetchingStates
  <1>7. task' \in [Tasks -> TaskStates]
    BY <1>2, <1>3, ReleasedIs DEF IInv
  <1>8. TypeOK'
    BY <1>2, <1>3, <1>4, <1>6, <1>7 DEF IInv, TypeOK
  <1> QED
    BY <1>3, <1>6, <1>8 DEF IInv, CacheNewest, NewestInv

\* A call of prepareIndex() joins the fetch there is, or begins one when there
\* is none.
LEMMA CallIs ==
  ASSUME IInv, NEW t \in Tasks, NEW mode \in Modes, NEW waiting \in TaskStates,
         Call(t, mode, waiting), UNCHANGED << world, disk, npm, due, repos >>
  PROVE  IInv'
  <1>1. UNCHANGED << source, server, cache, old, newest, npm, due, repos >>
    BY DEF world, disk
  <1>2. \A f \in Flights \cup {NoFlight} : [waiting EXCEPT !.waits = f] \in TaskStates
    BY DEF TaskStates
  <1>3. task \in [Tasks -> TaskStates] /\ inflight \in Flights \cup {NoFlight}
    BY DEF IInv, TypeOK
  <1>4. CASE Joined(mode) = NoFlight
    <2> DEFINE free == {f \in Flights : fetch[f].at = "free"}
    <2>1. PICK f \in free :
            /\ fetch' = [fetch EXCEPT ![f] = Begun(mode)] /\ inflight' = f
            /\ task' = [task EXCEPT ![t] = [waiting EXCEPT !.waits = f]]
      BY <1>4 DEF Call
    <2>2. PICK r : r = Begun(mode)
      OBVIOUS
    <2>3. r \in FetchStates /\ r.at = "begun" /\ r.since <= server
      BY <2>2, BegunIs
    <2>4. inflight = NoFlight
      BY <1>4 DEF Joined
    <2>5. FlightOK(r)'
      BY <1>1, <2>3 DEF FlightOK
    <2>6. /\ fetch' \in [Flights -> FetchStates] /\ OneFetch'
          /\ \A g \in Flights : FlightOK(fetch[g])'
      BY <1>1, <2>1, <2>2, <2>3, <2>4, <2>5, FlightStep
    <2>7. task' \in [Tasks -> TaskStates]
      BY <1>2, <1>3, <2>1
    <2>8. TypeOK'
      BY <1>1, <2>1, <2>6, <2>7 DEF IInv, TypeOK
    <2> QED
      BY <1>1, <2>6, <2>8 DEF IInv, CacheNewest, NewestInv
  <1>5. CASE Joined(mode) # NoFlight
    <2>1. UNCHANGED << fetch, inflight >>
      BY <1>5 DEF Call
    <2>2. task' \in [Tasks -> TaskStates]
      <3>1. PICK w \in TaskStates : task' = [task EXCEPT ![t] = w]
        <4>1. Joined(mode) \in Flights \cup {NoFlight}
          BY <1>3 DEF Joined
        <4> QED
          BY <1>2, <1>5, <4>1, Nones DEF Call
      <3> QED
        BY <1>3, <3>1
    <2>3. TypeOK'
      BY <1>1, <2>1, <2>2 DEF IInv, TypeOK
    <2> QED
      BY <1>1, <2>1, <2>3 DEF IInv, OneFetch, Fetching, FlightOK, CacheNewest, NewestInv
  <1> QED
    BY <1>4, <1>5

\* A command starts.
LEMMA StartIInv ==
  ASSUME IInv, NEW t \in Tasks, Start(t)
  PROVE  IInv'
  <1>1. /\ [NoTask EXCEPT !.at = "info"] \in TaskStates
        /\ [NoTask EXCEPT !.at = "refresh"] \in TaskStates
        /\ [NoTask EXCEPT !.at = "setup", !.npm = "looking"] \in TaskStates
    BY Nones DEF TaskStates
  <1>2. \E mode \in Modes, waiting \in TaskStates : Call(t, mode, waiting)
    BY <1>1 DEF Start, AskIndex, EnsureSetup, Modes
  <1>3. UNCHANGED << world, disk, npm, due, repos >>
    BY DEF Start, AskIndex, EnsureSetup
  <1> QED
    BY <1>2, <1>3, CallIs

\* What does not touch the fetches and the cache.
LEMMA OtherStep ==
  ASSUME IInv, TypeOK', UNCHANGED << fetch, inflight, cache, newest >>,
         server' \in Nat, server <= server'
  PROVE  IInv'
  <1>1. server \in Nat /\ \A s \in Sources : newest[s] \in Nat
    BY IndexAssumption DEF IInv, TypeOK
  <1>2. OneFetch' /\ CacheNewest'
    BY DEF IInv, OneFetch, Fetching, CacheNewest
  <1>3. NewestInv'
    BY <1>1 DEF IInv, NewestInv
  <1>4. ASSUME NEW f \in Flights
        PROVE  FlightOK(fetch[f])'
    <2>1. PICK call : call = fetch[f]
      OBVIOUS
    <2>2. call.since \in Nat /\ call.data.ver \in Nat /\ FlightOK(call)
      BY <2>1, FetchIs
    <2>3. FlightOK(call)'
      BY <1>1, <2>2 DEF FlightOK
    <2> QED
      BY <2>1, <2>3 DEF FlightOK
  <1> QED
    BY <1>2, <1>3, <1>4 DEF IInv

\* The rest of a command, and of the world.
LEMMA OthersIInv ==
  ASSUME IInv,
         \/ \E t \in Tasks : PrepareNpm(t) \/ SetUp(t)
         \/ Configure \/ Publish \/ Age
  PROVE  IInv'
  <1>1. server \in 0 .. MaxVersion /\ server \in Nat /\ MaxVersion \in Nat
    BY IndexAssumption DEF IInv, TypeOK
  <1>2. CASE Configure \/ Age
    <2>1. TypeOK'
      BY <1>2 DEF Configure, Age, world, disk, IInv, TypeOK
    <2> QED
      BY <1>1, <1>2, <2>1, OtherStep DEF Configure, Age, world, disk
  <1>3. CASE Publish
    <2>1. server' \in 0 .. MaxVersion /\ server <= server' /\ server' \in Nat
      BY <1>1, <1>3 DEF Publish
    <2>2. TypeOK'
      BY <1>3, <2>1 DEF Publish, disk, IInv, TypeOK
    <2> QED
      BY <1>3, <2>1, <2>2, OtherStep DEF Publish, disk
  <1>4. ASSUME NEW t \in Tasks, PrepareNpm(t) \/ SetUp(t)
        PROVE  IInv'
    <2>1. PICK old1 : old1 = task[t]
      OBVIOUS
    <2>2. old1 \in TaskStates
      BY <2>1 DEF IInv, TypeOK
    <2>3. [old1 EXCEPT !.npm = "ready"] \in TaskStates
      BY <2>2 DEF TaskStates
    <2>4. task' \in [Tasks -> TaskStates]
      <3>1. \/ task' = [task EXCEPT ![t] = [old1 EXCEPT !.npm = "ready"]]
            \/ task' = [task EXCEPT ![t] = NoTask]
        BY <1>4, <2>1 DEF PrepareNpm, SetUp
      <3> QED
        BY <2>3, <3>1, Nones DEF IInv, TypeOK
    <2>5. repos' \in Indexes \cup {NoIndex} /\ npm' \in BOOLEAN
      BY <1>4, <2>1, <2>2 DEF PrepareNpm, SetUp, TaskStates, IInv, TypeOK
    <2>6. TypeOK'
      BY <1>4, <2>4, <2>5 DEF PrepareNpm, SetUp, world, disk, IInv, TypeOK
    <2> QED
      BY <1>1, <1>4, <2>6, OtherStep DEF PrepareNpm, SetUp, world, disk
  <1> QED
    BY <1>2, <1>3, <1>4

\* Another session: only the cache is left.
LEMMA RestartIInv ==
  ASSUME IInv, Restart
  PROVE  IInv'
  <1>1. /\ UNCHANGED << source, server, cache, old, newest >> /\ inflight' = First
        /\ fetch' = OneBegun /\ repos' = NoIndex /\ npm' = FALSE /\ due' = FALSE
        /\ task' = [t \in Tasks |-> NoTask]
    BY DEF Restart, world, disk
  <1>2. TypeOK'
    BY <1>1, Nones, OneBegunIs DEF IInv, TypeOK
  <1>3. OneFetch'
    BY <1>1, OneBegunIs DEF OneFetch, Fetching
  <1>4. server \in Nat
    BY IndexAssumption DEF IInv, TypeOK
  <1>5. \A f \in Flights : FlightOK(fetch[f])'
    BY <1>1, <1>4, OneBegunIs DEF FlightOK
  <1> QED
    BY <1>1, <1>2, <1>3, <1>5 DEF IInv, CacheNewest, NewestInv

\* Every step preserves the inductive invariant.
LEMMA NextIInv == IInv /\ [Next]_vars => IInv'
  <1> SUFFICES ASSUME IInv, [Next]_vars PROVE IInv'
    OBVIOUS
  <1>1. CASE UNCHANGED vars
    BY <1>1 DEF vars, IInv, TypeOK, OneFetch, Fetching, CacheNewest, NewestInv, FlightOK
  <1>2. CASE \E f \in Flights : FetchStep(f)
    BY <1>2, FetchConfigIInv, ReadCacheIInv, FetchedIInv, FetchFailsIInv, SaveStartsIInv,
       SaveEndsIInv, TailIInv DEF FetchStep
  <1> QED
    BY <1>1, <1>2, StartIInv, OthersIInv, RestartIInv DEF Next

\* It holds in every reachable state.
LEMMA IInvCorrect == Spec => []IInv
  BY InitIInv, NextIInv, PTL DEF Spec

\* Type correctness of SnippetIndex.
THEOREM SnippetIndexTypeCorrect == Spec => []TypeOK
  <1>1. IInv => TypeOK
    BY DEF IInv
  <1> QED
    BY <1>1, IInvCorrect, PTL

\* The index is fetched once at a time, what is answered is of the sources that
\* were configured and, if forced, not older than the call, and the cache does
\* not go back.
THEOREM IndexSoundCorrect == Spec => []IndexSound
  <1>1. IInv => IndexSound
    BY DEF IInv, FlightOK, IndexSound, Answered
  <1> QED
    BY <1>1, IInvCorrect, PTL

-----------------------------------------------------------------------------
(* The packages.                                                           *)

Busy(t) == at[t] # "idle"

\* Where the editors of package.json can be.
EditInv ==
  /\ edit[Packages!Starting] # "none" => boot = "read"
  /\ \A t \in Commands :
       /\ edit[t] # "none" => at[t] \in {"download", "change", "ensure"}
       /\ Busy(t) => boot = "ready"
       /\ at[t] = "change" => kind[t] # "ls"
       /\ at[t] \in {"change", "ensure"} /\ kind[t] # "ls" => setUp

\* Commands follow one another.
AloneInv == ~disturbed => \A t, u \in Commands : Busy(t) /\ Busy(u) => t = u

\* The file is only torn while somebody writes it.
TornInv == ~disturbed /\ pkg = Packages!Torn => \E e \in Packages!Editors : edit[e] = "write"

\* package.json has been changed for a command whose npm has not run.
Ahead(t) == at[t] \in {"ensure", "npm"} /\ kind[t] # "ls"

\* But for such a command package.json names what is installed; and so does
\* what is written into it, unless it is the change.
RecordInv ==
  ~disturbed /\ (\A t \in Commands : ~Ahead(t)) =>
    /\ pkg # Packages!Torn => modules = (IF pkg = Packages!Absent THEN {} ELSE pkg \ {"npm"})
    /\ \A e \in Packages!Editors :
         edit[e] \in {"truncate", "write"} =>
           \/ copy[e] \ {"npm"} = modules
           \/ e \in Commands /\ at[e] = "change"

\* The inductive invariant of SnippetPackages.
PackagesInv == Packages!TypeOK /\ EditInv /\ AloneInv /\ TornInv /\ RecordInv

\* package.json, when it is neither absent nor torn, is a set of names.
LEMMA NamesApart ==
  ASSUME Packages!PackagesAssumption
  PROVE  /\ Packages!Absent \notin SUBSET Packages!Names /\ Packages!Torn \notin SUBSET Packages!Names
         /\ Packages!Absent # Packages!Torn /\ Packages!SomeName \in Snippets
         /\ Packages!Starting \in Packages!Editors /\ Packages!Starting \notin Commands
         /\ \A t \in Commands : t \in Packages!Editors /\ t # Packages!Starting
         /\ \A e \in Packages!Editors : e # Packages!Starting => e \in Commands
  BY DEF Packages!PackagesAssumption, Packages!Absent, Packages!Torn, Packages!Names,
     Packages!SomeName, Packages!Starting, Packages!Editors

\* The inductive invariant holds initially.
LEMMA PackagesInit == Packages!PackagesAssumption /\ Packages!Init => PackagesInv
  <1> SUFFICES ASSUME Packages!PackagesAssumption, Packages!Init PROVE PackagesInv
    OBVIOUS
  <1> USE NamesApart DEF Packages!Init, Packages!Alone
  <1>1. Packages!TypeOK
    BY DEF Packages!TypeOK, Packages!Kinds
  <1>2. EditInv /\ AloneInv /\ TornInv
    BY DEF EditInv, AloneInv, TornInv, Busy
  <1>3. RecordInv
    BY DEF RecordInv, Ahead
  <1> QED
    BY <1>1, <1>2, <1>3 DEF PackagesInv

\* Somebody edits package.json: of several commands that is one, and the start
\* of the session is over then.
LEMMA OneEdits ==
  ASSUME Packages!PackagesAssumption, PackagesInv, ~disturbed,
         NEW e \in Packages!Editors, NEW d \in Packages!Editors,
         edit[e] # "none", edit[d] # "none"
  PROVE  d = e
  BY NamesApart DEF PackagesInv, EditInv, AloneInv, Busy

\* package.json is read.
LEMMA EditReadInv ==
  ASSUME Packages!PackagesAssumption, PackagesInv, NEW e \in Packages!Editors,
         Packages!EditRead(e)
  PROVE  PackagesInv'
  <1> USE NamesApart
  <1>1. pkg \in {Packages!Absent, Packages!Torn} \cup SUBSET Packages!Names
    BY DEF PackagesInv, Packages!TypeOK
  <1>2. /\ edit[e] = "read" /\ UNCHANGED << pkg, modules, setUp, disturbed >>
    BY DEF Packages!EditRead, Packages!files
  <1>3. CASE pkg = Packages!Torn
    <2>1. disturbed
      BY <1>2, <1>3, OneEdits DEF PackagesInv, TornInv
    <2> USE <1>2, <1>3 DEF Packages!EditRead, Packages!EditFails, Packages!Edits, Packages!Done,
         Packages!Goto, PackagesInv
    <2>2. Packages!TypeOK'
      BY DEF Packages!TypeOK, Packages!Kinds
    <2>3. EditInv'
      BY DEF EditInv, Packages!TypeOK, Busy
    <2> QED
      BY <2>1, <2>2, <2>3 DEF AloneInv, TornInv, RecordInv
  <1>4. CASE pkg # Packages!Torn
    <2>1. PICK deps \in SUBSET Packages!Names : deps = IF pkg = Packages!Absent THEN {} ELSE pkg
      BY <1>1, <1>4
    <2>2. PICK changed : changed = Packages!Changed(e, deps)
      OBVIOUS
    <2>3. /\ edit' = [edit EXCEPT ![e] = "truncate"] /\ copy' = [copy EXCEPT ![e] = changed]
          /\ UNCHANGED << boot, at, kind, name >>
      BY <1>2, <1>4, <2>1, <2>2 DEF Packages!EditRead, Packages!Edits
    <2>4. /\ changed \in SUBSET Packages!Names
          /\ ~ (e \in Commands /\ at[e] = "change") => changed \ {"npm"} = deps \ {"npm"}
      BY <2>1, <2>2 DEF Packages!Changed, Packages!Names, PackagesInv, Packages!TypeOK
    <2>5. Packages!TypeOK'
      BY <1>2, <2>3, <2>4 DEF PackagesInv, Packages!TypeOK
    <2>6. EditInv' /\ AloneInv' /\ TornInv'
      BY <1>2, <1>4, <2>3 DEF PackagesInv, Packages!TypeOK, EditInv, AloneInv, TornInv, Busy
    <2>7. RecordInv'
      BY <1>2, <1>4, <2>1, <2>3, <2>4 DEF PackagesInv, Packages!TypeOK, RecordInv, Ahead
    <2> QED
      BY <2>5, <2>6, <2>7 DEF PackagesInv
  <1> QED
    BY <1>3, <1>4

\* It is truncated, or cannot be opened.
LEMMA EditTruncateInv ==
  ASSUME Packages!PackagesAssumption, PackagesInv, NEW e \in Packages!Editors,
         Packages!EditTruncate(e)
  PROVE  PackagesInv'
  <1> USE NamesApart
  <1>1. edit[e] = "truncate" /\ UNCHANGED << modules, setUp >>
    BY DEF Packages!EditTruncate
  <1>2. CASE /\ Packages!Edits(e, "write") /\ pkg' = Packages!Torn
             /\ UNCHANGED << boot, at, kind, name, copy, disturbed >>
    <2> USE <1>1, <1>2 DEF Packages!Edits, PackagesInv
    <2>1. Packages!TypeOK'
      BY DEF Packages!TypeOK
    <2>2. EditInv' /\ AloneInv' /\ TornInv'
      BY DEF Packages!TypeOK, EditInv, AloneInv, TornInv, Busy
    <2>3. RecordInv'
      BY DEF Packages!TypeOK, RecordInv, Ahead
    <2> QED
      BY <2>1, <2>2, <2>3
  <1>3. CASE /\ Packages!EditFails(e) /\ disturbed' = (disturbed \/ e # Packages!Starting)
             /\ UNCHANGED pkg
    <2> USE <1>1, <1>3 DEF Packages!EditFails, Packages!Edits, Packages!Done, Packages!Goto,
         PackagesInv
    <2>1. Packages!TypeOK'
      BY DEF Packages!TypeOK, Packages!Kinds
    <2>2. EditInv' /\ AloneInv'
      BY DEF Packages!TypeOK, EditInv, AloneInv, Busy
    <2>3. TornInv'
      BY DEF Packages!TypeOK, TornInv
    <2>4. RecordInv'
      BY DEF Packages!TypeOK, RecordInv, Ahead
    <2> QED
      BY <2>1, <2>2, <2>3, <2>4
  <1> QED
    BY <1>2, <1>3 DEF Packages!EditTruncate

\* It is written.
LEMMA EditWriteInv ==
  ASSUME Packages!PackagesAssumption, PackagesInv, NEW e \in Packages!Editors,
         Packages!EditWrite(e)
  PROVE  PackagesInv'
  <1> USE NamesApart
  <1>1. /\ edit[e] = "write" /\ pkg' = copy[e] /\ copy[e] \in SUBSET Packages!Names
        /\ UNCHANGED << modules, setUp, kind, name, disturbed >>
    BY DEF Packages!EditWrite, Packages!Written, PackagesInv, Packages!TypeOK
  <1>2. CASE e = Packages!Starting
    <2>1. /\ boot' = "load" /\ edit' = [edit EXCEPT ![e] = "none"] /\ at' = at /\ copy' = copy
          /\ boot = "read"
      BY <1>1, <1>2 DEF Packages!EditWrite, Packages!Edits, PackagesInv, EditInv,
         Packages!TypeOK
    <2>2. \A t \in Commands : ~ Busy(t) /\ edit[t] = "none"
      BY <2>1 DEF PackagesInv, EditInv, Busy
    <2>3. Packages!TypeOK'
      BY <1>1, <2>1 DEF PackagesInv, Packages!TypeOK
    <2>4. EditInv' /\ AloneInv' /\ TornInv'
      BY <1>1, <1>2, <2>1, <2>2 DEF PackagesInv, Packages!TypeOK, EditInv, AloneInv, TornInv,
         Busy
    <2>5. RecordInv'
      BY <1>1, <1>2, <2>1, <2>2 DEF PackagesInv, Packages!TypeOK, RecordInv, Ahead, Busy
    <2> QED
      BY <2>3, <2>4, <2>5 DEF PackagesInv
  <1>3. CASE e # Packages!Starting
    <2>1. /\ e \in Commands /\ at[e] \in {"download", "change", "ensure"}
          /\ at[e] = "change" => kind[e] # "ls"
          /\ at[e] \in {"change", "ensure"} /\ kind[e] # "ls" => setUp
      BY <1>1, <1>3 DEF PackagesInv, EditInv
    <2>2. PICK where : where = CASE at[e] = "download" -> "prepared"
                                 [] at[e] = "change" -> "ensure"
                                 [] at[e] = "ensure" -> IF setUp THEN "npm" ELSE "setup"
      OBVIOUS
    <2>3. /\ at[e] = "download" => where = "prepared"
          /\ at[e] = "change" => where = "ensure"
          /\ at[e] = "ensure" => where = IF setUp THEN "npm" ELSE "setup"
          /\ where \in {"prepared", "ensure", "npm", "setup"}
      BY <2>1, <2>2
    <2>4. /\ boot' = boot /\ at' = [at EXCEPT ![e] = where] /\ copy' = [copy EXCEPT ![e] = {}]
          /\ edit' = [edit EXCEPT ![e] = IF where = "ensure" THEN "read" ELSE "none"]
      <3>1. at' = [at EXCEPT ![e] = where] /\ at'[e] = where
        BY <1>3, <2>2 DEF Packages!EditWrite, Packages!Goto, PackagesInv, Packages!TypeOK
      <3> QED
        BY <1>3, <2>3, <3>1 DEF Packages!EditWrite, Packages!Edits
    <2>5. Packages!TypeOK'
      BY <1>1, <2>3, <2>4 DEF PackagesInv, Packages!TypeOK
    <2>6. EditInv' /\ AloneInv'
      BY <1>1, <1>3, <2>1, <2>3, <2>4 DEF PackagesInv, Packages!TypeOK, EditInv, AloneInv, Busy
    <2>7. TornInv'
      BY <1>1 DEF TornInv
    <2>8. RecordInv'
      <3> SUFFICES ASSUME ~disturbed, ~ Ahead(e)', \A t \in Commands : ~ Ahead(t)'
                   PROVE  /\ modules = copy[e] \ {"npm"}
                          /\ \A d \in Packages!Editors : edit'[d] \notin {"truncate", "write"}
        BY <1>1, <2>1 DEF RecordInv
      <3>1. at[e] # "change" /\ ~ (at[e] = "ensure" /\ kind[e] # "ls")
        BY <1>1, <2>1, <2>3, <2>4 DEF Ahead, PackagesInv, Packages!TypeOK
      <3>2. \A t \in Commands : t # e => ~ Busy(t)
        BY <2>1 DEF PackagesInv, AloneInv, Busy
      <3>3. \A t \in Commands : ~ Ahead(t)
        BY <2>1, <3>1, <3>2 DEF Ahead, Busy
      <3>4. modules = copy[e] \ {"npm"}
        BY <1>1, <3>1, <3>3 DEF PackagesInv, RecordInv
      <3>5. \A d \in Packages!Editors : d # e => edit[d] = "none"
        BY <1>1, OneEdits
      <3> QED
        BY <2>3, <2>4, <3>4, <3>5 DEF PackagesInv, Packages!TypeOK
    <2> QED
      BY <2>5, <2>6, <2>7, <2>8 DEF PackagesInv
  <1> QED
    BY <1>2, <1>3

\* The snippets are loaded when the session starts.
LEMMA AutoloadInv ==
  ASSUME Packages!PackagesAssumption, PackagesInv, Packages!Autoload
  PROVE  PackagesInv'
  <1> USE NamesApart DEF Packages!Autoload, Packages!files, PackagesInv
  <1>1. Packages!TypeOK'
    BY DEF Packages!TypeOK
  <1>2. EditInv' /\ AloneInv' /\ TornInv'
    BY DEF Packages!TypeOK, EditInv, AloneInv, TornInv, Busy
  <1>3. RecordInv'
    BY DEF Packages!TypeOK, EditInv, RecordInv, Ahead
  <1> QED
    BY <1>1, <1>2, <1>3

\* A command starts.
LEMMA StartInv ==
  ASSUME Packages!PackagesAssumption, PackagesInv, NEW t \in Commands, Packages!Start(t)
  PROVE  PackagesInv'
  <1> USE NamesApart
  <1>1. /\ boot = "ready" /\ at[t] = "idle" /\ edit[t] = "none"
        /\ UNCHANGED << pkg, modules, boot, setUp, copy >>
        /\ disturbed' = (disturbed \/ \E u \in Commands \ {t} : at[u] # "idle")
    BY DEF Packages!Start, Packages!files, PackagesInv, EditInv, Packages!TypeOK
  <1>2. PICK k \in Packages!Kinds, n \in Snippets :
          /\ IF k = "ls" THEN Packages!Goto(t, "ensure") /\ Packages!Edits(t, "read")
             ELSE IF setUp THEN Packages!LookUp(t)
             ELSE Packages!Goto(t, "setup") /\ UNCHANGED edit
          /\ kind' = [kind EXCEPT ![t] = IF at'[t] = "idle" THEN kind[t] ELSE k]
          /\ name' = [name EXCEPT ![t] = IF at'[t] = "idle" THEN name[t] ELSE n]
    BY DEF Packages!Start
  <1>3. PICK where, how :
          /\ at' = [at EXCEPT ![t] = where] /\ edit' = [edit EXCEPT ![t] = how]
          /\ \/ k = "ls" /\ where = "ensure" /\ how = "read"
             \/ k # "ls" /\ setUp /\ where = "change" /\ how = "read"
             \/ k # "ls" /\ where \in {"idle", "setup"} /\ how = "none"
    <2>1. CASE UNCHANGED edit
      <3>1. edit' = [edit EXCEPT ![t] = "none"]
        BY <1>1, <2>1 DEF PackagesInv, Packages!TypeOK
      <3> QED
        BY <1>2, <2>1, <3>1 DEF Packages!LookUp, Packages!Goto, Packages!Edits
    <2>2. CASE Packages!Edits(t, "read") /\ k = "ls"
      BY <1>2, <2>2 DEF Packages!Goto, Packages!Edits
    <2>3. CASE Packages!Edits(t, "read") /\ k # "ls" /\ Packages!Goto(t, "change") /\ setUp
      BY <2>3 DEF Packages!Goto, Packages!Edits
    <2> QED
      BY <1>2, <2>1, <2>2, <2>3 DEF Packages!LookUp
  <1>4. PICK l \in Packages!Kinds :
          /\ kind' = [kind EXCEPT ![t] = l] /\ (where # "idle" => l = k)
    BY <1>1, <1>2, <1>3 DEF PackagesInv, Packages!TypeOK
  <1>5. Packages!TypeOK'
    <2>1. name' \in [Commands -> Snippets]
      BY <1>2 DEF PackagesInv, Packages!TypeOK
    <2>2. where \in {"idle", "setup", "change", "ensure"} /\ how \in {"none", "read"}
      BY <1>3
    <2>3. at' \in [Commands -> {"idle", "setup", "download", "prepared", "change", "ensure", "npm", "load"}]
      BY <1>3, <2>2 DEF PackagesInv, Packages!TypeOK
    <2>4. edit' \in [Packages!Editors -> {"none", "read", "truncate", "write"}]
      BY <1>3, <2>2 DEF PackagesInv, Packages!TypeOK
    <2>5. kind' \in [Commands -> Packages!Kinds]
      BY <1>4 DEF PackagesInv, Packages!TypeOK
    <2>6. disturbed' \in BOOLEAN
      BY <1>1 DEF PackagesInv, Packages!TypeOK
    <2> QED
      BY <1>1, <2>1, <2>3, <2>4, <2>5, <2>6 DEF PackagesInv, Packages!TypeOK
  <1>6. EditInv'
    <2>1. t \in Packages!Editors
      BY DEF Packages!Editors
    <2>2. at'[t] = where /\ edit'[t] = how /\ kind'[t] = l /\ (where # "idle" => l = k)
      BY <1>3, <1>4, <2>1 DEF PackagesInv, Packages!TypeOK
    <2>3. \A u \in Commands : u # t => at'[u] = at[u] /\ edit'[u] = edit[u] /\ kind'[u] = kind[u]
      BY <1>3, <1>4 DEF PackagesInv, Packages!TypeOK, Packages!Editors
    <2>4. edit'[Packages!Starting] = edit[Packages!Starting]
      BY <1>3 DEF PackagesInv, Packages!TypeOK, Packages!Editors
    <2> QED
      BY <1>1, <1>3, <2>2, <2>3, <2>4 DEF PackagesInv, EditInv, Busy
  <1>7. AloneInv' /\ TornInv'
    BY <1>1, <1>3 DEF PackagesInv, Packages!TypeOK, AloneInv, TornInv, Busy
  <1>8. RecordInv'
    BY <1>1, <1>3, <1>4 DEF PackagesInv, Packages!TypeOK, EditInv, AloneInv, RecordInv,
       Ahead, Busy
  <1> QED
    BY <1>5, <1>6, <1>7, <1>8 DEF PackagesInv

\* npm and the index are set up.
LEMMA SetUpInv ==
  ASSUME Packages!PackagesAssumption, PackagesInv, NEW t \in Commands, Packages!SetUp(t)
  PROVE  PackagesInv'
  <1> USE NamesApart
  <1>1. /\ at[t] \in {"setup", "prepared"} /\ edit[t] = "none" /\ boot = "ready"
        /\ UNCHANGED << pkg, modules, boot, copy, disturbed >> /\ setUp' \in BOOLEAN
        /\ setUp => setUp'
    <2>1. /\ at[t] \in {"setup", "prepared"}
          /\ UNCHANGED << pkg, modules, boot, copy, disturbed >>
      BY DEF Packages!SetUp, Packages!files
    <2>2. edit[t] = "none" /\ boot = "ready"
      BY <2>1 DEF PackagesInv, EditInv, Busy
    <2>3. setUp' = TRUE \/ setUp' = setUp
      BY DEF Packages!SetUp
    <2>4. setUp' \in BOOLEAN /\ (setUp => setUp')
      BY <2>3 DEF PackagesInv, Packages!TypeOK
    <2> QED
      BY <2>1, <2>2, <2>4
  <1>2. PICK where, how :
          /\ at' = [at EXCEPT ![t] = where] /\ edit' = [edit EXCEPT ![t] = how]
          /\ \/ kind[t] = "ls" /\ where = "npm" /\ how = "none" /\ kind' = kind /\ name' = name
             \/ /\ kind[t] # "ls" /\ setUp' /\ where = "change" /\ how = "read"
                /\ kind' = kind /\ name' = name
             \/ where = "download" /\ how = "read" /\ kind' = kind /\ name' = name
             \/ /\ where = "idle" /\ how = "none"
                /\ \/ kind' = kind /\ name' = name
                   \/ /\ kind' = [kind EXCEPT ![t] = "ls"]
                      /\ name' = [name EXCEPT ![t] = Packages!SomeName]
    <2>1. edit = [edit EXCEPT ![t] = "none"]
      BY <1>1 DEF PackagesInv, Packages!TypeOK
    <2>2. CASE Packages!Done(t) /\ UNCHANGED << setUp, edit >>
      BY <2>1, <2>2 DEF Packages!Done, Packages!Goto
    <2>3. CASE /\ at[t] = "setup" /\ Packages!Goto(t, "download") /\ Packages!Edits(t, "read")
               /\ UNCHANGED << setUp, kind, name >>
      BY <2>3 DEF Packages!Goto, Packages!Edits
    <2>4. CASE /\ setUp' = TRUE /\ UNCHANGED << kind, name >>
               /\ IF kind[t] = "ls" THEN Packages!Goto(t, "npm") /\ UNCHANGED edit
                  ELSE Packages!LookUp(t)
      <3>1. CASE kind[t] = "ls" \/ (Packages!Goto(t, "idle") /\ UNCHANGED edit)
        BY <2>1, <2>4, <3>1 DEF Packages!Goto, Packages!LookUp
      <3>2. CASE kind[t] # "ls" /\ Packages!Goto(t, "change") /\ Packages!Edits(t, "read")
        BY <2>4, <3>2 DEF Packages!Goto, Packages!Edits
      <3> QED
        BY <2>4, <3>1, <3>2 DEF Packages!LookUp
    <2> QED
      BY <2>2, <2>3, <2>4 DEF Packages!SetUp
  <1>3. Packages!TypeOK'
    BY <1>1, <1>2 DEF PackagesInv, Packages!TypeOK, Packages!Kinds
  <1>4. EditInv'
    BY <1>1, <1>2 DEF PackagesInv, Packages!TypeOK, EditInv, Busy
  <1>5. AloneInv' /\ TornInv'
    BY <1>1, <1>2 DEF PackagesInv, Packages!TypeOK, AloneInv, TornInv, Busy
  <1>6. RecordInv'
    BY <1>1, <1>2 DEF PackagesInv, Packages!TypeOK, EditInv, AloneInv, RecordInv, Ahead, Busy
  <1> QED
    BY <1>3, <1>4, <1>5, <1>6 DEF PackagesInv

\* npm runs, and what it leaves is loaded or not; or it fails.
LEMMA NpmInv ==
  ASSUME Packages!PackagesAssumption, PackagesInv, NEW t \in Commands,
         Packages!NpmRuns(t) \/ Packages!NpmFails(t) \/ Packages!Load(t)
  PROVE  PackagesInv'
  <1> USE NamesApart
  <1>1. CASE Packages!NpmFails(t) \/ Packages!Load(t)
    <2> USE <1>1 DEF Packages!NpmFails, Packages!Load, Packages!Done, Packages!Goto, Packages!files,
         PackagesInv
    <2>1. Packages!TypeOK'
      BY ZenonT(60) DEF Packages!TypeOK, Packages!Kinds
    <2>2. EditInv' /\ AloneInv'
      BY DEF Packages!TypeOK, EditInv, AloneInv, Busy
    <2>3. TornInv' /\ RecordInv'
      BY DEF Packages!TypeOK, EditInv, TornInv, RecordInv, Ahead
    <2> QED
      BY <2>1, <2>2, <2>3
  <1>2. CASE Packages!NpmRuns(t)
    <2>1. /\ at[t] = "npm" /\ edit[t] = "none" /\ pkg \in SUBSET Packages!Names
          /\ boot = "ready" /\ UNCHANGED << boot, setUp, edit, copy, disturbed >>
      BY <1>2 DEF Packages!NpmRuns, PackagesInv, EditInv, Packages!TypeOK, Busy
    <2>2. \/ kind[t] \in {"install", "update"} /\ pkg' = pkg \cup {name[t]}
          \/ kind[t] = "uninstall" /\ pkg' = pkg \ {name[t]}
          \/ kind[t] = "ls" /\ pkg' = pkg
      BY <1>2 DEF Packages!NpmRuns, PackagesInv, Packages!TypeOK, Packages!Kinds
    <2>3. pkg' \in SUBSET Packages!Names
      BY <2>1, <2>2 DEF PackagesInv, Packages!TypeOK, Packages!Names
    <2>4. modules' = IF kind[t] = "ls" THEN modules ELSE pkg' \ {"npm"}
      BY <1>2 DEF Packages!NpmRuns
    <2>5. \/ /\ kind[t] = "install" /\ at' = [at EXCEPT ![t] = "load"]
             /\ UNCHANGED << kind, name >>
          \/ /\ at' = [at EXCEPT ![t] = "idle"] /\ kind' = [kind EXCEPT ![t] = "ls"]
             /\ name' = [name EXCEPT ![t] = Packages!SomeName]
      BY <1>2 DEF Packages!NpmRuns, Packages!Done, Packages!Goto
    <2>6. Packages!TypeOK'
      BY <2>1, <2>3, <2>4, <2>5 DEF PackagesInv, Packages!TypeOK, Packages!Kinds,
         Packages!Names
    <2>7. EditInv' /\ AloneInv'
      BY <2>1, <2>5 DEF PackagesInv, Packages!TypeOK, EditInv, AloneInv, Busy
    <2>8. TornInv'
      BY <2>3 DEF TornInv
    <2>9. RecordInv'
      <3> SUFFICES ASSUME ~disturbed
                   PROVE  /\ modules' = pkg' \ {"npm"}
                          /\ \A e \in Packages!Editors : edit[e] = "none"
        BY <2>1, <2>3 DEF RecordInv
      <3>1. \A u \in Commands : u # t => ~ Busy(u)
        BY <2>1 DEF PackagesInv, AloneInv, Busy
      <3>2. \A e \in Packages!Editors : edit[e] = "none"
        BY <2>1, <3>1 DEF PackagesInv, EditInv, Busy
      <3>3. CASE kind[t] = "ls"
        <4>1. \A u \in Commands : ~ Ahead(u)
          BY <3>1, <3>3 DEF Ahead, Busy
        <4> QED
          BY <2>1, <2>2, <2>4, <3>2, <3>3, <4>1 DEF PackagesInv, RecordInv
      <3>4. CASE kind[t] # "ls"
        BY <2>4, <3>2, <3>4
      <3> QED
        BY <3>2, <3>3, <3>4
    <2> QED
      BY <2>6, <2>7, <2>8, <2>9 DEF PackagesInv
  <1> QED
    BY <1>1, <1>2

\* Another session: only the files are left.
LEMMA RestartInv ==
  ASSUME Packages!PackagesAssumption, PackagesInv, Packages!Restart
  PROVE  PackagesInv'
  <1> USE NamesApart DEF Packages!Restart, Packages!files, Packages!Alone
  <1>1. Packages!TypeOK'
    BY DEF PackagesInv, Packages!TypeOK, Packages!Kinds
  <1>2. EditInv' /\ AloneInv'
    BY DEF EditInv, AloneInv, Busy
  <1>3. TornInv'
    BY DEF PackagesInv, TornInv
  <1>4. RecordInv'
    BY DEF PackagesInv, TornInv, RecordInv, Ahead
  <1> QED
    BY <1>1, <1>2, <1>3, <1>4 DEF PackagesInv

\* Every step preserves the inductive invariant.
LEMMA PackagesNext ==
  Packages!PackagesAssumption /\ PackagesInv /\ [Packages!Next]_(Packages!vars) => PackagesInv'
  <1> SUFFICES ASSUME Packages!PackagesAssumption, PackagesInv, [Packages!Next]_(Packages!vars)
               PROVE  PackagesInv'
    OBVIOUS
  <1>1. CASE UNCHANGED Packages!vars
    BY <1>1 DEF Packages!vars, PackagesInv, Packages!TypeOK, EditInv, AloneInv, TornInv,
       RecordInv, Ahead, Busy
  <1>2. CASE \E e \in Packages!Editors :
               Packages!EditRead(e) \/ Packages!EditTruncate(e) \/ Packages!EditWrite(e)
    BY <1>2, EditReadInv, EditTruncateInv, EditWriteInv
  <1>3. CASE \E t \in Commands :
               \/ Packages!Start(t) \/ Packages!SetUp(t) \/ Packages!NpmRuns(t)
               \/ Packages!NpmFails(t) \/ Packages!Load(t)
    BY <1>3, StartInv, SetUpInv, NpmInv
  <1> QED
    BY <1>1, <1>2, <1>3, AutoloadInv, RestartInv DEF Packages!Next

\* It holds in every reachable state.
LEMMA PackagesInvCorrect ==
  ASSUME Packages!PackagesAssumption
  PROVE  Packages!Spec => []PackagesInv
  <1>1. Packages!Init => PackagesInv
    BY PackagesInit
  <1>2. PackagesInv /\ [Packages!Next]_(Packages!vars) => PackagesInv'
    BY PackagesNext
  <1> QED
    BY <1>1, <1>2, PTL DEF Packages!Spec

\* Type correctness of SnippetPackages.
THEOREM SnippetPackagesTypeCorrect ==
  ASSUME Packages!PackagesAssumption
  PROVE  Packages!Spec => []Packages!TypeOK
  <1>1. PackagesInv => Packages!TypeOK
    BY DEF PackagesInv
  <1> QED
    BY <1>1, PackagesInvCorrect, PTL

\* As long as commands follow one another to their end, package.json names what
\* is installed: a command is ahead of node_modules only until its npm has run.
THEOREM RecordedIsInstalledCorrect ==
  ASSUME Packages!PackagesAssumption
  PROVE  Packages!Spec => []RecordedIsInstalled
  <1>1. PackagesInv => RecordedIsInstalled
    BY DEF PackagesInv, TornInv, RecordInv, Ahead, RecordedIsInstalled,
       Packages!RecordedIsInstalled, Packages!Quiet
  <1> QED
    BY <1>1, PackagesInvCorrect, PTL
=============================================================================
