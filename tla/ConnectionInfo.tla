--------------------------- MODULE ConnectionInfo ---------------------------
(***************************************************************************)
(* What ShellInstanceState and Mongo keep of the connection the shell is   *)
(* on: the cached connection info, behind one promise, and the names of    *)
(* databases and collections that completion offers when the server does   *)
(* not answer within 200 ms.                                               *)
(*                                                                         *)
(* `use`, an assignment to `db` and the tab key all start requests whose   *)
(* answers arrive in any order, when the shell may be on another database. *)
(* A value of connection info is represented by its connection, a listing  *)
(* by the version of the catalog it shows.                                 *)
(***************************************************************************)
EXTENDS Integers

CONSTANTS
  Conns,     \* service providers, one for each Mongo
  Default,   \* the one the shell was started with
  Fetches,   \* names of the calls of getConnectionInfo(): bounds those at once
  Lists,     \* names of the listings: bounds those at once
  MaxVersion \* bound on the versions of a catalog

VARIABLES
  current,  \* the connection of currentDb
  cache,    \* connectionInfoCache: forSp, and a promise, a value or nothing
  fetch,    \* the connection each pending getConnectionInfo() is for
  catalog,  \* what each server has
  names,    \* _cachedCollectionNames, or _cachedDatabaseNames, of each
  list,     \* the listings
  crossed   \* history: a mongosh:connect event named another connection

vars == << current, cache, fetch, catalog, names, list, crossed >>
infoVars == << cache, fetch, crossed >>
listVars == << catalog, names, list >>

NoInfo == "no info"
NoConn == "no connection"

\* Assumed by the modules that use this one: names are told apart.
ConnectionAssumption ==
  /\ Default \in Conns /\ MaxVersion \in Nat
  /\ Conns \cap Fetches = {} /\ NoInfo \notin Conns \cup Fetches /\ NoConn \notin Conns

Idle == [at |-> "idle", conn |-> NoConn, ver |-> 0]

TypeOK ==
  /\ current \in Conns
  /\ cache \in [for : Conns, info : Conns \cup Fetches \cup {NoInfo}]
  /\ fetch \in [Fetches -> Conns \cup {NoConn}]
  /\ catalog \in [Conns -> 0 .. MaxVersion] /\ names \in [Conns -> 0 .. MaxVersion]
  /\ list \in [Lists ->
       [at : {"idle", "asked", "served"}, conn : Conns \cup {NoConn},
        ver : 0 .. MaxVersion]]
  /\ crossed \in BOOLEAN

\* The constructor; fetchConnectionInfo() is called by initialize() later.
Init ==
  /\ current = Default
  /\ cache = [for |-> Default, info |-> NoInfo]
  /\ fetch = [f \in Fetches |-> NoConn]
  /\ catalog = [c \in Conns |-> 0] /\ names = [c \in Conns |-> 0]
  /\ list = [l \in Lists |-> Idle]
  /\ crossed = FALSE
-----------------------------------------------------------------------------
(* fetchConnectionInfo().                                                  *)

\* Cached for connection c, or being fetched.
Known(c) == cache.for = c /\ cache.info # NoInfo

\* The synchronous part of fetchConnectionInfo() when the shell is on c.
FetchInfo(c) ==
  IF Known(c) THEN UNCHANGED infoVars
  ELSE \E f \in Fetches :
         /\ fetch[f] = NoConn
         /\ \A g \in Fetches : cache.info = g => g # f
         /\ fetch' = [fetch EXCEPT ![f] = c]
         /\ cache' = [for |-> c, info |-> f]
         /\ UNCHANGED crossed

\* Callers that only want the info: the greeting, show(), sh.
Ask ==
  /\ FetchInfo(current)
  /\ UNCHANGED << current, listVars >>

\* Faulty Kept: the answer is kept, whichever promise the cache has.
KeptAlways(f, info) == [cache EXCEPT !.info = info]

\* The cache when f is settled: its value replaces the promise, unless there
\* is another one meanwhile.  A rejection makes room for a new attempt.
Kept(f, info) == IF cache.info = f THEN [cache EXCEPT !.info = info] ELSE cache

\* getConnectionInfo() is fulfilled.  The event names the connection the shell
\* is on by now.
Fetched(f) ==
  /\ fetch[f] # NoConn
  /\ cache' = Kept(f, fetch[f])
  /\ crossed' = (crossed \/ fetch[f] # current)
  /\ fetch' = [fetch EXCEPT ![f] = NoConn]
  /\ UNCHANGED << current, listVars >>

FetchFails(f) ==
  /\ fetch[f] # NoConn
  /\ cache' = Kept(f, NoInfo)
  /\ fetch' = [fetch EXCEPT ![f] = NoConn]
  /\ UNCHANGED << current, listVars, crossed >>

\* cachedConnectionInfo(): what completion and the prompt see.
cachedConnectionInfo == IF cache.info \in Conns THEN cache.info ELSE NoInfo
-----------------------------------------------------------------------------
(* Names for completion.                                                   *)

\* _getCollectionNamesForCompletion(): asks the server.
Listing(l, c) ==
  /\ list[l].at = "idle"
  /\ list' = [list EXCEPT ![l] = [at |-> "asked", conn |-> c, ver |-> 0]]

\* The tab key, in the current database.  What is offered after 200 ms without
\* an answer are the names known by then; the listing goes on.
Complete(l) ==
  /\ Listing(l, current)
  /\ UNCHANGED << current, infoVars, catalog, names >>

\* The server answers ...
Serve(l) ==
  /\ list[l].at = "asked"
  /\ list' = [list EXCEPT ![l].at = "served", ![l].ver = catalog[list[l].conn]]
  /\ UNCHANGED << current, infoVars, catalog, names >>

\* Faulty Remembered: the names are kept for the database the shell is on.
RememberedForCurrent(l) == [names EXCEPT ![current] = list[l].ver]

\* The names a listing leaves for later completions.
Remembered(l) == [names EXCEPT ![list[l].conn] = list[l].ver]

\* ... and its answer arrives, also when nobody waits for it any more.
Arrive(l) ==
  /\ list[l].at = "served"
  /\ names' = Remembered(l)
  /\ list' = [list EXCEPT ![l] = Idle]
  /\ UNCHANGED << current, infoVars, catalog >>

\* The listing fails; completion then offers nothing.
ListFails(l) ==
  /\ list[l].at # "idle"
  /\ list' = [list EXCEPT ![l] = Idle]
  /\ UNCHANGED << current, infoVars, catalog, names >>

-----------------------------------------------------------------------------

\* setDbFunc(): `use`, or an assignment to db, of another connection perhaps.
\* The info and the names of the new one are fetched ahead.
SetDb(c) ==
  /\ current' = c
  /\ FetchInfo(c)
  /\ \E l \in Lists : Listing(l, c)
  /\ UNCHANGED << catalog, names >>

\* Another client creates a collection.
Create(c) ==
  /\ catalog[c] < MaxVersion /\ catalog' = [catalog EXCEPT ![c] = @ + 1]
  /\ UNCHANGED << current, infoVars, names, list >>

Next ==
  \/ Ask
  \/ \E c \in Conns : SetDb(c) \/ Create(c)
  \/ \E f \in Fetches : Fetched(f) \/ FetchFails(f)
  \/ \E l \in Lists : Complete(l) \/ Serve(l) \/ Arrive(l) \/ ListFails(l)

\* Servers need not answer.
Spec == Init /\ [][Next]_vars
-----------------------------------------------------------------------------
(* Properties.                                                             *)

\* The cache is about the connection the shell is on, whatever fetches for
\* others are still pending or end later, in whatever order: completion never
\* sees the server version of another server
\* (shell-instance-state.ts:291-312, 329-335).
CacheOfCurrent ==
  /\ cache.for = current
  /\ cache.info \in Fetches => fetch[cache.info] = current
  /\ cachedConnectionInfo \in {NoInfo, current}

\* Names are remembered for the database they were listed for, and never ones
\* the server did not have yet: an answer that comes after `use` does not end
\* up in the completions of the new database (database.ts:281-292, 313-335).
NamesOfOwn ==
  [][\A c \in Conns : names'[c] # names[c] =>
       \E l \in Lists : list[l].at = "served" /\ list[l].conn = c
                        /\ names'[c] = list[l].ver]_vars

\* What is cached is of the connection, or database, it is used for.
CachesOfOwn == []CacheOfCurrent /\ NamesOfOwn

\* Not so, and checked by no run: the event "mongosh:connect" pairs the info of
\* one connection with the connection_id, and the API version, of another, when
\* the user has switched between fetch and answer.
EventConsistent == ~crossed

\* Not so, and checked by no run: of two listings that overlap the older may
\* arrive last, and takes names back that were offered before.
NamesGrow == [][\A c \in Conns : names'[c] >= names[c]]_vars
=============================================================================
