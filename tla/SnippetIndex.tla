---------------------------- MODULE SnippetIndex ----------------------------
(***************************************************************************)
(* The index of snippets: prepareIndex() and ensureSetup() of the snippet  *)
(* manager.                                                                *)
(*                                                                         *)
(* prepareIndex() shares one promise, `inflight`, between its callers.  The*)
(* fetch behind it reads the cache on disk, or the network, and may go on  *)
(* for a while after it has given the promise up.  Commands overlap: the   *)
(* shell does not wait for one that was interrupted.  A session may end at *)
(* any time; the cache survives it.                                        *)
(***************************************************************************)
EXTENDS Integers, FiniteSets

CONSTANTS
  Tasks,      \* commands that can be under way at the same time
  Sources,    \* values of the snippetIndexSourceURLs setting
  MaxVersion, \* bound on the versions of the index that are published
  Flights     \* names of the fetches that are not settled: bounds them

VARIABLES
  source,    \* the setting
  server,    \* the version of the index on the network
  cache,     \* index.bson.br: an index, or NoIndex when missing or torn
  old,       \* the cache was written more than an hour ago
  inflight,  \* inflightFetchIndexPromise: a fetch, or NoFlight
  fetch,     \* the calls of prepareIndex's inner function
  repos,     \* this.repos
  npm,       \* this.npmArgv is set
  task,      \* the commands
  newest,    \* history: the newest version saved, per source
  due        \* history: an old cache was used and has not been replaced

vars == << source, server, cache, old, inflight, fetch, repos, npm, task, newest,
           due >>
world == << source, server >>
disk  == << cache, old, newest >>

Indexes  == [src : Sources, ver : 0 .. MaxVersion]
NoIndex  == [src |-> "none", ver |-> 0]
NoFlight == "no flight"
Modes    == {"allow-cached", "force-refresh"}

ASSUME IndexAssumption ==
  /\ IsFiniteSet(Flights) /\ Flights # {} /\ MaxVersion \in Nat
  /\ NoFlight \notin Flights /\ NoIndex.src \notin Sources

FetchStates ==
  [at : {"free", "begun", "reading", "fetching", "truncating", "saving", "tail", "failed"},
   mode : Modes, src : Sources \cup {"none"}, since : 0 .. MaxVersion,
   data : Indexes \cup {NoIndex}]
TaskStates ==
  [at : {"idle", "info", "refresh", "setup"}, waits : Flights \cup {NoFlight},
   got : Indexes \cup {NoIndex}, npm : {"none", "looking", "ready"}]

TypeOK ==
  /\ source \in Sources /\ server \in 0 .. MaxVersion
  /\ cache \in Indexes \cup {NoIndex} /\ old \in BOOLEAN
  /\ inflight \in Flights \cup {NoFlight}
  /\ fetch \in [Flights -> FetchStates]
  /\ repos \in Indexes \cup {NoIndex} /\ npm \in BOOLEAN
  /\ task \in [Tasks -> TaskStates]
  /\ newest \in [Sources -> 0 .. MaxVersion] /\ due \in BOOLEAN

NoFetch == [at |-> "free", mode |-> "allow-cached", src |-> "none", since |-> 0,
            data |-> NoIndex]
NoTask  == [at |-> "idle", waits |-> NoFlight, got |-> NoIndex, npm |-> "none"]

Begun(mode) ==
  [NoFetch EXCEPT !.at = "begun", !.mode = mode,
                  !.since = IF mode = "force-refresh" THEN server ELSE 0]

\* The constructor of an interactive session fetches the index.
First == CHOOSE f \in Flights : TRUE
OneBegun == [f \in Flights |-> IF f = First THEN [NoFetch EXCEPT !.at = "begun"] ELSE NoFetch]

Init ==
  /\ source \in Sources /\ server = 0
  /\ cache = NoIndex /\ old = FALSE
  /\ inflight = First /\ fetch = OneBegun
  /\ repos = NoIndex /\ npm = FALSE
  /\ task = [t \in Tasks |-> NoTask]
  /\ newest = [s \in Sources |-> 0] /\ due = FALSE

-----------------------------------------------------------------------------
(* prepareIndex(): joining, and the steps of the fetch.                    *)

\* Faulty Joined: a refresh does not wait for the fetch that is under way.
JoinedUnlessForced(mode) == IF mode = "force-refresh" THEN NoFlight ELSE inflight

\* The fetch a call of prepareIndex() joins; NoFlight when it starts one.
Joined(mode) == inflight

\* A call of prepareIndex() on behalf of task t, which becomes `waiting`.  The
\* promise of a failed fetch is never replaced: the call fails at once.
Call(t, mode, waiting) ==
  IF Joined(mode) = NoFlight
  THEN LET free == {f \in Flights : fetch[f].at = "free"}
           f == CHOOSE g \in free : TRUE
       IN /\ free # {}
          /\ fetch' = [fetch EXCEPT ![f] = Begun(mode)]
          /\ inflight' = f
          /\ task' = [task EXCEPT ![t] = [waiting EXCEPT !.waits = f]]
  ELSE /\ UNCHANGED << fetch, inflight >>
       /\ task' = [task EXCEPT ![t] =
            IF fetch[Joined(mode)].at = "failed"
            THEN NoTask ELSE [waiting EXCEPT !.waits = Joined(mode)]]

\* What the callers that wait for f become when it ends: all but those in
\* ensureSetup() are done with it; without data they fail.
Released(f, data) ==
  [t \in Tasks |->
     IF task[t].waits # f THEN task[t]
     ELSE IF task[t].at = "setup" /\ data # NoIndex
     THEN [task[t] EXCEPT !.waits = NoFlight, !.got = data]
     ELSE NoTask]

\* f is fulfilled: every call assigns the data, and there is at least one.
Settles(f) == repos' = fetch[f].data /\ task' = Released(f, fetch[f].data)

\* The directory is made and the setting read.
FetchConfig(f) ==
  /\ fetch[f].at = "begun"
  /\ fetch' = [fetch EXCEPT ![f].at = "reading", ![f].src = source]
  /\ UNCHANGED << world, disk, inflight, repos, npm, task, due >>

\* Faulty Usable: a cache of other sources is used.
UsableAlways(f) == cache # NoIndex /\ fetch[f].mode = "allow-cached"

\* The cache is there, of the sources that are configured, and good enough.
Usable(f) ==
  /\ cache # NoIndex /\ cache.src = fetch[f].src
  /\ fetch[f].mode = "allow-cached"

\* The cache is read.  When it is used, `inflight` is reset at once.
ReadCache(f) ==
  /\ fetch[f].at = "reading"
  /\ IF Usable(f)
     THEN /\ fetch' = [fetch EXCEPT ![f].at = "tail", ![f].data = cache]
          /\ inflight' = NoFlight
     ELSE /\ fetch' = [fetch EXCEPT ![f].at = "fetching"]
          /\ UNCHANGED inflight
  /\ UNCHANGED << world, disk, repos, npm, task, due >>

\* The network answers with what is published now.
Fetched(f) ==
  /\ fetch[f].at = "fetching"
  /\ fetch' = [fetch EXCEPT ![f].at = "truncating",
                            ![f].data = [src |-> fetch[f].src, ver |-> server]]
  /\ UNCHANGED << world, disk, inflight, repos, npm, task, due >>

\* The network fails, or what it answers is unusable: the promise stays,
\* rejected.
FetchFails(f) ==
  /\ fetch[f].at = "fetching"
  /\ fetch' = [fetch EXCEPT ![f] = [NoFetch EXCEPT !.at = "failed"]]
  /\ task' = Released(f, NoIndex)
  /\ UNCHANGED << world, disk, inflight, repos, npm, due >>

\* writeFile() truncates the cache ...
SaveStarts(f) ==
  /\ fetch[f].at = "truncating"
  /\ fetch' = [fetch EXCEPT ![f].at = "saving"]
  /\ cache' = NoIndex /\ old' = FALSE
  /\ UNCHANGED << world, newest, inflight, repos, npm, task, due >>

\* ... and writes it, or fails, which only loses the cache.
SaveEnds(f) ==
  /\ fetch[f].at = "saving"
  /\ \/ /\ cache' = fetch[f].data /\ old' = FALSE /\ due' = FALSE
        /\ newest' = [newest EXCEPT ![fetch[f].src] =
                        IF @ < fetch[f].data.ver THEN fetch[f].data.ver ELSE @]
     \/ UNCHANGED << disk, due >>
  /\ inflight' = NoFlight
  /\ Settles(f)
  /\ fetch' = [fetch EXCEPT ![f] = NoFetch]
  /\ UNCHANGED << world, npm >>

\* Faulty Tail: the refresh in the background is left to the next command.
TailLazy(f) ==
  /\ fetch[f].at = "tail"
  /\ Settles(f) /\ due' = (due \/ old)
  /\ fetch' = [fetch EXCEPT ![f] = NoFetch] /\ UNCHANGED inflight
  /\ UNCHANGED << world, disk, npm >>

\* A cache that is used is looked at once more: when it is old, it is fetched
\* anew in the background, unless a fetch is under way again.
Tail(f) ==
  /\ fetch[f].at = "tail"
  /\ Settles(f)
  /\ IF old /\ Joined("force-refresh") = NoFlight
     THEN /\ fetch' = [fetch EXCEPT ![f] = Begun("force-refresh")]
          /\ inflight' = f
     ELSE fetch' = [fetch EXCEPT ![f] = NoFetch] /\ UNCHANGED inflight
  /\ due' = (due \/ old)
  /\ UNCHANGED << world, disk, npm >>

-----------------------------------------------------------------------------
(* Commands.                                                               *)

\* snippet('help', name) and snippet('info'), and snippet('refresh').
AskIndex(t) ==
  /\ \/ Call(t, "allow-cached", [NoTask EXCEPT !.at = "info"])
     \/ Call(t, "force-refresh", [NoTask EXCEPT !.at = "refresh"])
  /\ UNCHANGED repos

\* ensureSetup(), of most commands: npm and the index are prepared at the same
\* time, unless there are both.
EnsureSetup(t) ==
  /\ ~(npm /\ repos # NoIndex)
  /\ Call(t, "allow-cached", [NoTask EXCEPT !.at = "setup", !.npm = "looking"])
  /\ UNCHANGED repos

Start(t) ==
  /\ task[t].at = "idle"
  /\ AskIndex(t) \/ EnsureSetup(t)
  /\ UNCHANGED << world, disk, npm, due >>

\* prepareNpm() finds or downloads npm; or it is declined, interrupted or
\* fails, and so does Promise.all(), though the fetch of the index goes on.
PrepareNpm(t) ==
  /\ task[t].npm = "looking"
  /\ \/ task' = [task EXCEPT ![t].npm = "ready"]
     \/ task' = [task EXCEPT ![t] = NoTask]
  /\ UNCHANGED << world, disk, inflight, fetch, repos, npm, due >>

\* Promise.all() is fulfilled: its index is assigned once more.
SetUp(t) ==
  /\ task[t].at = "setup" /\ task[t].npm = "ready" /\ task[t].got # NoIndex
  /\ npm' = TRUE /\ repos' = task[t].got
  /\ task' = [task EXCEPT ![t] = NoTask]
  /\ UNCHANGED << world, disk, inflight, fetch, due >>

-----------------------------------------------------------------------------
(* The rest of the world.                                                  *)

\* config.set('snippetIndexSourceURLs', ...).
Configure ==
  /\ \E s \in Sources \ {source} : source' = s
  /\ UNCHANGED << server, disk, inflight, fetch, repos, npm, task, due >>

Publish ==
  /\ server < MaxVersion /\ server' = server + 1
  /\ UNCHANGED << source, disk, inflight, fetch, repos, npm, task, due >>

\* More than an hour has passed since the cache was written.
Age ==
  /\ cache # NoIndex /\ ~old /\ old' = TRUE
  /\ UNCHANGED << world, cache, newest, inflight, fetch, repos, npm, task, due >>

\* The session ends, whatever it is doing, and another one is started.
Restart ==
  /\ inflight' = First
  /\ fetch' = OneBegun
  /\ repos' = NoIndex /\ npm' = FALSE
  /\ task' = [t \in Tasks |-> NoTask]
  /\ due' = FALSE
  /\ UNCHANGED << world, disk >>

FetchStep(f) ==
  \/ FetchConfig(f) \/ ReadCache(f) \/ Fetched(f) \/ FetchFails(f)
  \/ SaveStarts(f) \/ SaveEnds(f) \/ Tail(f)

Next ==
  \/ \E f \in Flights : FetchStep(f)
  \/ \E t \in Tasks : Start(t) \/ PrepareNpm(t) \/ SetUp(t)
  \/ Configure \/ Publish \/ Age \/ Restart

\* The file system and the network answer, or fail, in the end.
Spec == Init /\ [][Next]_vars /\ \A f \in Flights : WF_vars(FetchStep(f))

-----------------------------------------------------------------------------
(* Properties.                                                             *)

Fetching(f) == fetch[f].at \in {"begun", "reading", "fetching", "truncating", "saving"}

\* "ensure that only one such operation is happening at any given time": only
\* the fetch everybody would join is anywhere between its start and the
\* writing of the cache, however many callers, refreshes and tails there are.
OneFetch == \A f \in Flights : Fetching(f) => inflight = f

\* Whatever a call gets is of the sources that were configured when its fetch
\* started, and a forced fetch brings nothing older than its start.
Answered ==
  \A f \in Flights :
    fetch[f].at \in {"truncating", "saving", "tail"} =>
      /\ fetch[f].data.src = fetch[f].src
      /\ fetch[f].mode = "force-refresh" => fetch[f].data.ver >= fetch[f].since

\* The cache never goes back to an index that is older than one that has been
\* saved before, through tails, background fetches, failures and restarts.
CacheNewest == cache # NoIndex => cache.ver >= newest[cache.src]

\* One fetch at a time, and what is answered and what is cached is right, across
\* the fetches that write this.repos and the cache file one after another
\* (snippet-manager.ts:295-411).
IndexSound == OneFetch /\ Answered /\ CacheNewest

FetchFailed == inflight # NoFlight /\ fetch[inflight].at = "failed"

\* The write of a cache has failed, after it had emptied the file.
CacheGone == inflight = NoFlight /\ cache = NoIndex

\* An old cache that was used is replaced, once the user has stopped giving
\* commands, unless a fetch fails, when no other is made in that session, or the
\* write fails, when the old one is gone as well.
OldCacheRefreshed ==
  <>[][\A t \in Tasks : ~Start(t)]_vars => (due ~> ~due \/ FetchFailed \/ CacheGone)

\* "Clear and refresh the snippet metadata cache": while a refresh is waiting,
\* it waits for a fetch that goes to the network.
RefreshIsFresh ==
  \A t \in Tasks :
    task[t].at = "refresh" => fetch[task[t].waits].mode = "force-refresh"
=============================================================================
