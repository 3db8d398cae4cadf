------------------------- MODULE ThrottledAnalytics -------------------------
(***************************************************************************)
(* The rate limit on telemetry that all mongosh processes of a device      *)
(* share: ThrottledAnalytics and lockfile() of analytics-helpers.ts.       *)
(*                                                                         *)
(* A process takes a lock, which is a directory, when it starts, reads     *)
(* the throttle state the last one left in a file, and sends events as far *)
(* as that state allows.  flush() at the end writes the state back and     *)
(* removes the lock.  A process that does not get the lock sends nothing.  *)
(* Every file system call is a step of its own; a process may die at any   *)
(* time and leave its lock behind, which is stale after a while, unless    *)
(* its interval has refreshed it: the new mtime is then far in the future. *)
(***************************************************************************)
EXTENDS Integers, FiniteSets

CONSTANTS
  Procs,       \* processes that run at the same time
  MaxStarts,   \* bound on the sessions, of all processes
  MaxEvents,   \* bound on the events of a session
  MaxTime,     \* bound on the time
  Rate,        \* throttle.rate: events allowed per timeframe
  Timeframe,   \* throttle.timeframe
  StaleAfter   \* throttle.lockfileStaleDuration

\* Assumed by the modules that use this one.
ThrottleAssumption ==
  /\ MaxStarts \in Nat /\ MaxEvents \in Nat /\ MaxTime \in Nat
  /\ Rate \in Nat \ {0} /\ Timeframe \in Nat \ {0}
  /\ StaleAfter \in Nat /\ StaleAfter >= 2 * Timeframe

VARIABLES
  now,
  lock,      \* the lock directory: its mtime, or none
  file,      \* the throttle state on disk
  pc,        \* where each process is
  holds,     \* the processes that have got the lock and not removed it
  beat,      \* when an owner's interval was started or last fired
  open,      \* trackQueue is enabled
  state,     \* throttleState
  queue,     \* events waiting for restorePromise
  tracked,   \* events of the session so far
  starts,
  sent,      \* history: how many events were sent before each time
  crashed,   \* history: a process has died
  raced,     \* history: two processes took the same lock for stale
  late,      \* history: the first refresh of an owner did not come in time
  astray     \* history: a session that never had the lock wrote the state, or
             \* a session sent events after it had written the state

vars == << now, lock, file, pc, holds, beat, open, state, queue, tracked,
           starts, sent, crashed, raced, late, astray >>
disk    == << lock, file >>
locking == << holds, beat >>
events  == << open, state, queue, tracked, sent >>

Times   == 0 .. MaxTime
Ends    == 0 .. MaxTime + 1
NoLock  == MaxTime + 1
States  == [count : 0 .. Rate, timestamp : Times]
NoFile  == [count |-> 0, timestamp |-> MaxTime + 1]
Torn    == [count |-> 0, timestamp |-> MaxTime + 2]  \* truncated, not written yet

\* utimes() takes seconds and is given milliseconds: the mtime it sets is
\* tens of thousands of years ahead.
Future  == MaxTime + 2

Restoring == { "mkdir", "stat", "rmdir", "read" }
Closing   == { "writing", "unlocking", "flushing" }
Alive(p)  == pc[p] # "off"

TypeOK ==
  /\ now \in Times /\ lock \in 0 .. Future
  /\ file \in States \cup { NoFile, Torn }
  /\ pc \in [Procs -> Restoring \cup Closing \cup { "off", "ready" }]
  /\ holds \subseteq Procs /\ beat \in [Procs -> Times]
  /\ open \subseteq Procs /\ state \in [Procs -> States]
  /\ queue \in [Procs -> 0 .. MaxEvents] /\ tracked \in [Procs -> 0 .. MaxEvents]
  /\ starts \in 0 .. MaxStarts /\ sent \in [Ends -> Nat]
  /\ crashed \in BOOLEAN /\ raced \in BOOLEAN /\ late \in BOOLEAN /\ astray \in BOOLEAN

Init ==
  /\ now = 0 /\ lock = NoLock /\ file = NoFile
  /\ pc = [p \in Procs |-> "off"]
  /\ holds = {} /\ beat = [p \in Procs |-> 0]
  /\ open = {} /\ state = [p \in Procs |-> [count |-> 0, timestamp |-> 0]]
  /\ queue = [p \in Procs |-> 0] /\ tracked = [p \in Procs |-> 0]
  /\ starts = 0 /\ sent = [t \in Ends |-> 0]
  /\ crashed = FALSE /\ raced = FALSE /\ late = FALSE /\ astray = FALSE

Goto(p, where) == pc' = [pc EXCEPT ![p] = where]

-----------------------------------------------------------------------------
(* Starting: lockfile() and restoreThrottleState().                        *)

\* The constructor begins to restore the state at once.
Start(p) ==
  /\ pc[p] = "off" /\ starts < MaxStarts /\ starts' = starts + 1
  /\ Goto(p, "mkdir")
  /\ state' = [state EXCEPT ![p] = [count |-> 0, timestamp |-> now]]
  /\ queue' = [queue EXCEPT ![p] = 0] /\ tracked' = [tracked EXCEPT ![p] = 0]
  /\ open' = open \ {p}
  /\ UNCHANGED << now, disk, locking, sent, crashed, raced, astray, late >>

\* mkdir() succeeds for one of those who try.
Mkdir(p) ==
  /\ pc[p] = "mkdir"
  /\ IF lock = NoLock
     THEN /\ lock' = now /\ holds' = holds \cup {p}
          /\ beat' = [beat EXCEPT ![p] = now] /\ Goto(p, "read")
     ELSE Goto(p, "stat") /\ UNCHANGED << lock, locking >>
  /\ UNCHANGED << now, file, events, starts, crashed, raced, astray, late >>

\* Faulty Stale: a lock counts as stale when its next refresh is due.
StaleEarly(mtime) == now - mtime > 0

\* Nobody has refreshed the lock for a while.
Stale(mtime) == now - mtime > StaleAfter

\* restorePromise is fulfilled with `false`: what was queued is dropped.
GiveUp(p) ==
  /\ Goto(p, "ready")
  /\ queue' = [queue EXCEPT ![p] = 0]
  /\ UNCHANGED << open, state, tracked, sent >>

\* The lock exists: it is in use, unless it is stale.  stat() fails if it has
\* just been removed.
Stat(p) ==
  /\ pc[p] = "stat"
  /\ IF lock # NoLock /\ Stale(lock)
     THEN /\ Goto(p, "rmdir") /\ UNCHANGED events
          /\ raced' = (raced \/ \E q \in Procs \ {p} : pc[q] = "rmdir")
     ELSE GiveUp(p) /\ UNCHANGED raced
  /\ UNCHANGED << now, disk, locking, starts, crashed, astray, late >>

\* The stale lock is removed, whichever lock is there by now, and lockfile()
\* starts anew; rmdir() fails if there is none.
Rmdir(p) ==
  /\ pc[p] = "rmdir"
  /\ IF lock # NoLock THEN Goto(p, "mkdir") /\ lock' = NoLock /\ UNCHANGED events
                      ELSE GiveUp(p) /\ UNCHANGED lock
  /\ UNCHANGED << now, file, locking, starts, crashed, raced, astray, late >>

-----------------------------------------------------------------------------
(* Sending.                                                                *)

Expired(s) == now - s.timestamp > Timeframe

\* shouldEmitAnalyticsEvent() for n events in a row: a new timeframe starts
\* with the first one if the old one is over.
Window(s) == IF Expired(s) THEN [count |-> 0, timestamp |-> now] ELSE s
Granted(s, n) ==
  LET room == Rate - Window(s).count IN IF n <= room THEN n ELSE room

\* n events reach trackQueue's handler in state s.
Send(p, s, n) ==
  /\ state' = [state EXCEPT ![p] =
                 IF n = 0 THEN s
                 ELSE [Window(s) EXCEPT !.count = @ + Granted(s, n)]]
  /\ sent' = [t \in Ends |-> sent[t] + IF t > now THEN Granted(s, n) ELSE 0]

\* Faulty Restored: the state of the last session is only taken over while its
\* limit has not been reached.
RestoredBelowLimit(p) ==
  IF file \in States /\ file.count < Rate THEN file ELSE state[p]

\* The throttle state a process goes on with.
Restored(p) == IF file = NoFile THEN state[p] ELSE file

\* The lock's owner reads the state and its queue is let through; a state that
\* cannot be parsed turns telemetry off and keeps the lock.
Read(p) ==
  /\ pc[p] = "read"
  /\ IF file = Torn
     THEN GiveUp(p)
     ELSE /\ Goto(p, "ready") /\ open' = open \cup {p}
          /\ Send(p, Restored(p), queue[p])
          /\ queue' = [queue EXCEPT ![p] = 0]
          /\ UNCHANGED tracked
  /\ UNCHANGED << now, disk, locking, starts, crashed, raced, astray, late >>

\* track(): queued while the state is being restored, dropped if that failed.
Track(p) ==
  /\ Alive(p) /\ tracked[p] < MaxEvents
  /\ tracked' = [tracked EXCEPT ![p] = @ + 1]
  /\ IF p \in open
     THEN /\ Send(p, state[p], 1) /\ UNCHANGED queue
          /\ astray' = (astray \/ pc[p] \in Closing)
     ELSE /\ queue' = [queue EXCEPT ![p] = IF pc[p] \in Restoring THEN @ + 1 ELSE @]
          /\ UNCHANGED << state, sent, astray >>
  /\ UNCHANGED << now, disk, pc, locking, open, starts, crashed, raced, late >>

-----------------------------------------------------------------------------
(* Ending: flush().                                                        *)

\* writeFile() truncates the file ...
FlushStarts(p) ==
  /\ pc[p] = "ready" /\ Goto(p, "writing")
  /\ file' = Torn
  /\ astray' = (astray \/ p \notin holds)
  /\ UNCHANGED << now, lock, locking, events, starts, crashed, raced, late >>

\* Faulty FlushWritten: only sessions that have sent events unlock.
FlushWrittenIfOpen(p) ==
  /\ pc[p] = "writing" /\ Goto(p, IF p \in open THEN "unlocking" ELSE "flushing")
  /\ file' = state[p]
  /\ UNCHANGED << now, lock, locking, events, starts, crashed, raced, astray, late >>

\* ... and writes the state, with or without the lock.
FlushWritten(p) ==
  /\ pc[p] = "writing" /\ Goto(p, "unlocking")
  /\ file' = state[p]
  /\ UNCHANGED << now, lock, locking, events, starts, crashed, raced, astray, late >>

\* unlock() stops the interval and removes the lock directory; without the
\* lock it does nothing.
Unlock(p) ==
  /\ pc[p] = "unlocking" /\ Goto(p, "flushing")
  /\ holds' = holds \ {p} /\ beat' = [beat EXCEPT ![p] = 0]
  /\ lock' = IF p \in holds THEN NoLock ELSE lock
  /\ UNCHANGED << now, file, events, starts, crashed, raced, astray, late >>

\* The requests are answered or given up, and the process ends.
Flushed(p) ==
  /\ pc[p] = "flushing" /\ Goto(p, "off") /\ open' = open \ {p}
  /\ UNCHANGED << now, disk, locking, state, queue, tracked, starts, sent,
                  crashed, raced, astray, late >>

Crash(p) ==
  /\ Alive(p) /\ Goto(p, "off")
  /\ holds' = holds \ {p} /\ beat' = [beat EXCEPT ![p] = 0]
  /\ open' = open \ {p} /\ crashed' = TRUE
  /\ UNCHANGED << now, disk, state, queue, tracked, starts, sent, raced,
                  astray, late >>

-----------------------------------------------------------------------------
(* Time.                                                                   *)

\* The interval of an owner is half of StaleAfter long, and the next tick is
\* too late.
Due(p) == 2 * (now + 1 - beat[p]) > StaleAfter

\* The interval touches the lock directory, whosever it is.
Refresh(p) ==
  /\ p \in holds /\ Due(p) /\ beat[p] < now
  /\ beat' = [beat EXCEPT ![p] = now]
  /\ lock' = IF lock = NoLock THEN lock ELSE Future
  /\ UNCHANGED << now, file, pc, holds, events, starts, crashed, raced, late, astray >>

\* An event loop that is busy, or a device that sleeps, keeps an interval from
\* firing, and until its first refresh a lock ages.
Tick ==
  /\ now < MaxTime /\ now' = now + 1
  /\ late' = (late \/ \E p \in holds : Due(p) /\ lock # Future)
  /\ UNCHANGED << disk, pc, locking, events, starts, crashed, raced, astray >>

Next ==
  \/ \E p \in Procs :
       \/ Start(p) \/ Mkdir(p) \/ Stat(p) \/ Rmdir(p) \/ Read(p) \/ Track(p)
       \/ FlushStarts(p) \/ FlushWritten(p) \/ Unlock(p) \/ Flushed(p)
       \/ Crash(p) \/ Refresh(p)
  \/ Tick

Spec == Init /\ [][Next]_vars

-----------------------------------------------------------------------------
(* Properties.                                                             *)

\* The events sent from t to u.
SentBetween(t, u) == sent[u + 1] - sent[t]

\* One session at a time has the lock and the lock is there, through crashes,
\* stale locks and refused sessions, as long as no two processes find the
\* same lock stale at the same time (mkdir, stat and rmdir are not atomic) and
\* no owner is so busy that its lock becomes stale under it.
OneOwner ==
  ~raced /\ ~late => /\ \A p, q \in holds : p = q
                     /\ holds # {} => lock # NoLock

\* The limit across sessions: in no stretch of time as long as a timeframe are
\* more events sent than two adjoining timeframes allow, whatever sessions
\* start, end or die in it.  Excepted are double owners (see OneOwner) and
\* states written by sessions without the lock, or before the session's last
\* event.
RateLimit ==
  ~raced /\ ~late /\ ~astray =>
    \A t, u \in Times : u - t <= Timeframe => SentBetween(t, u) <= 2 * Rate

\* Sessions that end by themselves take their lock with them, even those
\* that could not read the throttle state, and those whose lock another
\* session has taken.
LockFreed == ~crashed /\ (\A p \in Procs : ~Alive(p)) => lock = NoLock

\* The lock directory from the first mkdir to the last rmdir
\* (analytics-helpers.ts:137-202).
LockSound == OneOwner /\ LockFreed

\* "Allowed events per timeframe number": the limit without the exceptions.
RateLimitAlways ==
  ~raced /\ ~late /\ ~crashed =>
    \A t, u \in Times : u - t <= Timeframe => SentBetween(t, u) <= 2 * Rate

\* "To make sure that the lockfile is not just a leftover from an unclean
\* process exit, we check whether or not it is stale"
\* (analytics-helpers.ts:152-153): every leftover becomes stale in time.
LeftoverStale == holds = {} /\ lock # NoLock => lock <= now
=============================================================================
