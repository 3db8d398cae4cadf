------------------------- MODULE UpdateNotification -------------------------
(***************************************************************************)
(* UpdateNotificationManager: what a shell that starts learns of newer     *)
(* versions, from a file that all shells of a user share and from a feed on*)
(* the network that is asked at most once a day.                           *)
(*                                                                         *)
(* Shells overlap, end at any time, and write the file without a lock.     *)
(* The n-th contents of a feed have the etag n, of whatever URL, so an etag*)
(* kept from one URL would be taken for a valid one by another.            *)
(***************************************************************************)
EXTENDS Integers, Sequences, FiniteSets, FiniteSetsExt

CONSTANTS
  Shells,      \* shells that can run at the same time
  Versions,    \* versions of mongosh
  Prereleases, \* those of them that are no releases
  URLs,        \* values of the updateURL setting
  Feeds        \* Feeds[u][n]: the n-th contents of the feed at u; their number
               \* bounds the changes of the feed

None == 0      \* no version and no call to action

Contents == [listed : {listed \in SUBSET Versions : IsFiniteSet(listed)},
             cta : [Versions -> Nat], default : Nat]

\* Assumed by the modules that use this one.
UpdateAssumption ==
  /\ Versions \subseteq Nat \ {None} /\ Prereleases \subseteq Versions
  /\ \A u \in URLs : Feeds[u] \in Seq(Contents) /\ Feeds[u] # <<>>

VARIABLES
  file,      \* the local file: a record, Absent or Torn
  published, \* the etag of each feed now
  installed, \* the version a shell that starts has
  url,       \* the updateURL setting
  shell      \* the shells

vars == << file, published, installed, url, shell >>

Records == [url : URLs, etag : Nat \ {0}, fresh : BOOLEAN,
            latest : Versions \cup {None}, cta : [Versions -> Nat]]
Absent == [url |-> "absent"]
Torn   == [url |-> "torn"]   \* truncated or garbled: no JSON
Nothing == [url |-> "nothing"]

Stages == {"off", "reading", "asking", "truncating", "writing", "over"}
Memory == [at : Stages, ver : Versions \cup {None}, url : URLs \cup {"none"},
           contents : Records \cup {Nothing}, latest : Versions \cup {None}, cta : Nat]

TypeOK ==
  /\ file \in Records \cup {Absent, Torn}
  /\ published \in [URLs -> Nat \ {0}]
  /\ \A u \in URLs : published[u] <= Len(Feeds[u])
  /\ installed \in Versions /\ url \in URLs
  /\ shell \in [Shells -> Memory]

Off == [at |-> "off", ver |-> None, url |-> "none", contents |-> Nothing,
        latest |-> None, cta |-> None]

Init ==
  /\ file = Absent /\ published = [u \in URLs |-> 1]
  /\ installed \in Versions /\ url \in URLs
  /\ shell = [s \in Shells |-> Off]

\* The latest release a feed lists.
Latest(feed) ==
  IF feed.listed \subseteq Prereleases THEN None
  ELSE Max(feed.listed \ Prereleases)

\* The call to action of a feed for version v: its own, or that of all.
CtaOf(feed, v) ==
  IF v \in feed.listed /\ feed.cta[v] # None THEN feed.cta[v] ELSE feed.default

FeedNow(u) == Feeds[u][published[u]]
-----------------------------------------------------------------------------
(* fetchUpdateMetadata().                                                  *)

\* A shell starts.
Start(s) ==
  /\ shell[s].at = "off"
  /\ shell' = [shell EXCEPT ![s] =
       [Off EXCEPT !.at = "reading", !.ver = installed, !.url = url]]
  /\ UNCHANGED << file, published, installed, url >>

\* Faulty Local: the file is used whatever feed it is of.
LocalOfAnyURL(s) == IF file \in {Absent, Torn} THEN Nothing ELSE file

\* What shell s takes from the file: nothing of another feed, and nothing if
\* there is no file or no JSON in it.
Local(s) ==
  IF file \in {Absent, Torn} \/ file.url # shell[s].url THEN Nothing ELSE file

\* fetchUpdateMetadata() is over: only what it has learnt is left.
Over(memory) == [memory EXCEPT !.at = "over", !.contents = Nothing]

\* The file is read, and may be used without asking for a day.
ReadFile(s) ==
  /\ shell[s].at = "reading"
  /\ LET local == Local(s)
         learnt == [shell[s] EXCEPT !.contents = local,
                      !.latest = IF local = Nothing THEN None ELSE local.latest,
                      !.cta = IF local = Nothing THEN None ELSE local.cta[shell[s].ver]]
     IN shell' = [shell EXCEPT ![s] =
          IF local # Nothing /\ local.fresh THEN Over(learnt)
          ELSE [learnt EXCEPT !.at = "asking"]]
  /\ UNCHANGED << file, published, installed, url >>

\* Reading fails, and the file is there.
ReadFails(s) ==
  /\ shell[s].at = "reading" /\ file # Absent
  /\ shell' = [shell EXCEPT ![s] = Over(shell[s])]
  /\ UNCHANGED << file, published, installed, url >>

Matches(s) ==
  shell[s].contents # Nothing /\ shell[s].contents.etag = published[shell[s].url]

\* 304: the etag matched.  Only lastChecked is new.
NotModified(s) ==
  /\ shell[s].at = "asking" /\ Matches(s)
  /\ shell' = [shell EXCEPT ![s].at = "truncating", ![s].contents.fresh = TRUE]
  /\ UNCHANGED << file, published, installed, url >>

\* Faulty Entry: the new contents are merged into the old.
EntryMerged(s) ==
  LET feed == FeedNow(shell[s].url)
      v    == shell[s].ver
  IN [url |-> shell[s].url, fresh |-> TRUE, latest |-> Latest(feed),
      etag |-> IF shell[s].contents = Nothing THEN published[shell[s].url]
               ELSE shell[s].contents.etag,
      cta |-> [w \in Versions |-> IF w \in {v, Latest(feed)} THEN CtaOf(feed, w) ELSE None]]

\* Faulty Entry: the call to action of the latest version is not kept.
EntryOwn(s) ==
  LET feed == FeedNow(shell[s].url)
      v    == shell[s].ver
  IN [url |-> shell[s].url, etag |-> published[shell[s].url], fresh |-> TRUE,
      latest |-> Latest(feed),
      cta |-> [w \in Versions |-> IF w = v THEN CtaOf(feed, w) ELSE None]]

\* What is kept of a feed: its latest version, and the calls to action for
\* this version and for the latest.
Entry(s) ==
  LET feed == FeedNow(shell[s].url)
      v    == shell[s].ver
  IN [url |-> shell[s].url, etag |-> published[shell[s].url], fresh |-> TRUE,
      latest |-> Latest(feed),
      cta |-> [w \in Versions |-> IF w \in {v, Latest(feed)} THEN CtaOf(feed, w) ELSE None]]

\* The feed answers with its contents.
Answered(s) ==
  /\ shell[s].at = "asking" /\ ~Matches(s)
  /\ LET feed == FeedNow(shell[s].url)
     IN shell' = [shell EXCEPT ![s].at = "truncating",
          ![s].latest = Latest(feed), ![s].cta = CtaOf(feed, shell[s].ver),
          ![s].contents = Entry(s)]
  /\ UNCHANGED << file, published, installed, url >>

\* The network fails, or answers something else.
AskFails(s) ==
  /\ shell[s].at = "asking"
  /\ shell' = [shell EXCEPT ![s] = Over(shell[s])]
  /\ UNCHANGED << file, published, installed, url >>

\* writeFile() truncates the file ...
WriteStarts(s) ==
  /\ shell[s].at = "truncating"
  /\ file' = Torn
  /\ shell' = [shell EXCEPT ![s].at = "writing"]
  /\ UNCHANGED << published, installed, url >>

\* ... and writes at its start.  Whatever another shell has written meanwhile
\* may stick out behind it.
WriteEnds(s) ==
  /\ shell[s].at = "writing"
  /\ \/ file' = shell[s].contents
     \/ file # Torn /\ file' = Torn
  /\ shell' = [shell EXCEPT ![s] = Over(shell[s])]
  /\ UNCHANGED << published, installed, url >>

Fetch(s) ==
  ReadFile(s) \/ NotModified(s) \/ Answered(s) \/ WriteStarts(s) \/ WriteEnds(s)

\* The greeting waits for the file but not for the network.  A prerelease is
\* not told of releases.
getLatestVersionIfMoreRecent(s) ==
  LET mem == shell[s]
  IN IF mem.at \in {"off", "reading"} \/ mem.latest <= mem.ver \/ mem.ver \in Prereleases
     THEN None ELSE mem.latest

getGreetingCTAForCurrentVersion(s) ==
  IF shell[s].at \in {"off", "reading"} THEN None ELSE shell[s].cta
-----------------------------------------------------------------------------
(* The rest of the world.                                                  *)

\* A shell ends, whatever it is doing.
Exit(s) ==
  /\ shell[s].at # "off"
  /\ shell' = [shell EXCEPT ![s] = Off]
  /\ UNCHANGED << file, published, installed, url >>

Publish(u) ==
  /\ published[u] < Len(Feeds[u]) /\ published' = [published EXCEPT ![u] = @ + 1]
  /\ UNCHANGED << file, installed, url, shell >>

Install ==
  /\ installed' \in Versions \ {installed}
  /\ UNCHANGED << file, published, url, shell >>

Configure ==
  /\ url' \in URLs \ {url}
  /\ UNCHANGED << file, published, installed, shell >>

Stale(contents) ==
  IF contents \in Records THEN [contents EXCEPT !.fresh = FALSE] ELSE contents

\* A day has passed since every lastChecked there is.
Day ==
  /\ file' = Stale(file)
  /\ shell' = [s \in Shells |-> [shell[s] EXCEPT !.contents = Stale(@)]]
  /\ UNCHANGED << published, installed, url >>

Next ==
  \/ \E s \in Shells : Start(s) \/ Fetch(s) \/ ReadFails(s) \/ AskFails(s) \/ Exit(s)
  \/ \E u \in URLs : Publish(u)
  \/ Install \/ Configure \/ Day

Spec == Init /\ [][Next]_vars
-----------------------------------------------------------------------------
(* Properties.                                                             *)

\* The file always says what its feed once said under the etag the file has:
\* of the latest version, and of every call to action that is in it.  So the
\* etag may stand for the contents when the feed is asked
\* (update-notification-manager.ts:183-197), through overlapping writers, 304
\* answers and shells of other versions.
CacheTrue ==
  file \in Records =>
    LET feed == Feeds[file.url][file.etag]
    IN /\ file.etag <= published[file.url]
       /\ file.latest = Latest(feed)
       /\ \A v \in Versions : file.cta[v] \in {None, CtaOf(feed, v)}

\* The version and the call to action that a shell announces have been said by
\* the feed it is configured to use, at one and the same moment.
GreetingPublished ==
  \A s \in Shells :
    LET new == getLatestVersionIfMoreRecent(s)
        cta == getGreetingCTAForCurrentVersion(s)
    IN new # None \/ cta # None =>
         \E n \in 1 .. published[shell[s].url] :
           LET feed == Feeds[shell[s].url][n]
           IN /\ new \in {None, Latest(feed)} \ Prereleases
              /\ cta \in {None, CtaOf(feed, shell[s].ver)}

\* "This could be used next time we start mongosh if the user has updated to
\* latest" (update-notification-manager.ts:229-230): a shell of the latest
\* version greets with the call to action for it, though it has only the file
\* that a shell of another version wrote, and even when the feed answers 304.
UpgradeGreeted ==
  \A s \in Shells :
    shell[s].latest # None /\ shell[s].latest = shell[s].ver =>
      \E n \in 1 .. published[shell[s].url] :
        LET feed == Feeds[shell[s].url][n]
        IN shell[s].latest = Latest(feed) /\ shell[s].cta = CtaOf(feed, shell[s].ver)

\* Greetings are right, from the network and from the file
\* (getLatestVersionIfMoreRecent and getGreetingCTAForCurrentVersion).
GreetingSound == GreetingPublished /\ UpgradeGreeted

\* What the file says of its feed, and what shells tell their users from it.
UpdatesTrue == CacheTrue /\ GreetingSound
=============================================================================
