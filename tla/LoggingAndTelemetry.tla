------------------------- MODULE LoggingAndTelemetry -------------------------
(***************************************************************************)
(* LoggingAndTelemetry turns the events of the message bus into lines of   *)
(* the log file and telemetry events.  It starts before the log file is    *)
(* open and before the device ID is known, so it buffers both; telemetry   *)
(* events then go through ToggleableAnalytics, which buffers them until    *)
(* the user's settings are known.                                          *)
(*                                                                         *)
(* CliRepl attaches and detaches the log (at startup, and whenever the     *)
(* user changes disableLogging), enables and disables telemetry, and       *)
(* flushes everything when the shell closes.                               *)
(***************************************************************************)
EXTENDS Naturals, Sequences, SequencesExt, Selection

CONSTANTS
  MaxEvents,  \* bound on the bus events of a session
  MaxToggles  \* bound on the changes of disableLogging

\* Assumed by the modules that use this one.
BoundsAssumption == MaxEvents \in Nat /\ MaxToggles \in Nat

\* Telemetry events: one for each bus event, and two of the session.
BusEvents    == 1 .. MaxEvents
Identify     == 0
SessionEnded == MaxEvents + 1
Telemetry    == BusEvents \cup { Identify, SessionEnded }

\* A buffered call: of the listener of a bus event, or of track()'s callback.
HeldCalls == ({ "listener" } \X BusEvents) \cup ({ "track" } \X Telemetry)

VARIABLES
  emitted,          \* how many events were emitted on the bus
  bufferingBus,     \* isBufferingBusEvents
  bufferingTel,     \* isBufferingTelemetryEvents
  pendingBus,       \* pendingBusEvents
  pendingTel,       \* pendingTelemetryEvents
  log,              \* this.log: the dummy, or the log file
  logged,           \* the bus events in the log file
  device,           \* whether the device ID is known
  analytics,        \* the state of ToggleableAnalytics' queue
  queue,            \* its queue
  tracked,          \* history: what was handed to it
  sent,             \* what it handed to its target
  discarded,        \* history: what it dropped because telemetry was disabled
  toggles,
  flushed,          \* history: flush() was called
  closed            \* closingPromise is set

vars == << emitted, bufferingBus, bufferingTel, pendingBus, pendingTel, log,
           logged, device, analytics, queue, tracked, sent, discarded, toggles, flushed,
           closed >>
buffers == << bufferingBus, bufferingTel, pendingBus, pendingTel >>
target  == << queue, tracked, sent, discarded >>

\* setup() has been called.
Init ==
  /\ emitted = 0
  /\ bufferingBus = TRUE /\ bufferingTel = TRUE
  /\ pendingBus = << >> /\ pendingTel = << >>
  /\ log = "dummy" /\ logged = << >>
  /\ device = "pending"
  /\ analytics = "paused" /\ queue = << >> /\ tracked = << >> /\ sent = << >>
  /\ discarded = {} /\ toggles = 0 /\ flushed = FALSE /\ closed = FALSE

-----------------------------------------------------------------------------
(* Where events go.                                                        *)

\* ToggleableAnalytics.track() of some telemetry events.
Hand(events) ==
  /\ tracked' = tracked \o events
  /\ queue' = IF analytics = "paused" THEN queue \o events ELSE queue
  /\ sent' = IF analytics = "enabled" THEN sent \o events ELSE sent
  /\ discarded' = IF analytics = "disabled" THEN discarded \cup ToSet(events)
                                            ELSE discarded

\* The events of the calls of a kind in a buffer.
Of(kind, calls) ==
  LET chosen == Among(calls, {kind} \X Telemetry) IN
  [i \in DOMAIN chosen |-> chosen[i][2]]

\* Faulty Drain: the calls that are added while it runs are left out.
DrainOnce(calls, newLog) ==
  /\ logged' = IF newLog = "file" THEN logged \o Of("listener", calls) ELSE logged
  /\ Hand(Of("track", calls))
  /\ bufferingBus' = FALSE /\ pendingBus' = << >>
  /\ UNCHANGED << bufferingTel, pendingTel >>

\* runAndClearPendingBusEvents(): the listeners write to the current log.
\* What they track goes to the end of the same buffer, as the flag is only
\* cleared when the buffer is empty, and from there to the analytics, even
\* if the device ID is not known yet.
Drain(calls, newLog) ==
  /\ logged' = IF newLog = "file" THEN logged \o Of("listener", calls) ELSE logged
  /\ Hand(Of("track", calls) \o Of("listener", calls))
  /\ bufferingBus' = FALSE /\ pendingBus' = << >>
  /\ UNCHANGED << bufferingTel, pendingTel >>

\* track() while bus events are not buffered.
TrackNow(event) ==
  IF bufferingTel
  THEN /\ pendingTel' = Append(pendingTel, << "track", event >>)
       /\ UNCHANGED target
  ELSE Hand(<< event >>) /\ UNCHANGED pendingTel

-----------------------------------------------------------------------------

\* An event on the bus, whose listener writes to the log and tracks.
Emit ==
  /\ emitted < MaxEvents /\ emitted' = emitted + 1
  /\ IF bufferingBus
     THEN /\ pendingBus' = Append(pendingBus, << "listener", emitted' >>)
          /\ UNCHANGED << pendingTel, logged, target >>
     ELSE /\ logged' = IF log = "file" THEN Append(logged, emitted') ELSE logged
          /\ TrackNow(emitted')
          /\ UNCHANGED pendingBus
  /\ UNCHANGED << bufferingBus, bufferingTel, log, device, analytics, toggles,
                  flushed, closed >>

\* Faulty DeviceIdKnown: the flag is cleared, the buffer forgotten.
DeviceIdKnownForgetful ==
  /\ device = "pending" /\ device' = "known"
  /\ bufferingTel' = FALSE
  /\ IF bufferingBus
     THEN /\ pendingBus' = Append(pendingBus, << "track", Identify >>)
          /\ UNCHANGED target
     ELSE Hand(<< Identify >>) /\ UNCHANGED pendingBus
  /\ pendingTel' = << >>
  /\ UNCHANGED << emitted, bufferingBus, log, logged, analytics, toggles,
                  flushed, closed >>

\* setupTelemetry() after its await: Identify is tracked, which puts it into
\* one of the buffers, and the buffer of telemetry events is emptied.
DeviceIdKnown ==
  /\ device = "pending" /\ device' = "known"
  /\ bufferingTel' = FALSE
  /\ IF bufferingBus
     THEN /\ pendingBus' = Append(pendingBus, << "track", Identify >>)
          /\ Hand(Of("track", pendingTel))
     ELSE /\ Hand(Append(Of("track", pendingTel), Identify))
          /\ UNCHANGED pendingBus
  /\ pendingTel' = << >>
  /\ UNCHANGED << emitted, bufferingBus, log, logged, analytics, toggles,
                  flushed, closed >>

\* Faulty StartLogging: events emitted before are not written.
StartLoggingLate ==
  /\ log = "dummy" /\ toggles < MaxToggles /\ toggles' = toggles + 1
  /\ log' = "file"
  /\ Drain(pendingBus, "dummy")
  /\ UNCHANGED << emitted, device, analytics, flushed, closed >>

\* startLogging() and attachLogger(), which throws if a log is attached.
StartLogging ==
  /\ log = "dummy" /\ toggles < MaxToggles /\ toggles' = toggles + 1
  /\ log' = "file"
  /\ Drain(pendingBus, "file")
  /\ UNCHANGED << emitted, device, analytics, flushed, closed >>

\* flush(): track the end of the session, run the pending bus events.
Flush ==
  /\ IF bufferingBus
     THEN Drain(Append(pendingBus, << "track", SessionEnded >>), log')
     ELSE /\ TrackNow(SessionEnded)
          /\ UNCHANGED << bufferingBus, bufferingTel, pendingBus, logged >>
  /\ flushed' = TRUE

\* detachLogger(): at startup, or whenever disableLogging is set to true.
StopLogging ==
  /\ toggles < MaxToggles /\ toggles' = toggles + 1
  /\ log' = "dummy"
  /\ Flush
  /\ UNCHANGED << emitted, device, analytics, closed >>

\* setTelemetryEnabled(): the settings are loaded or changed.
EnableTelemetry ==
  /\ analytics # "enabled" /\ analytics' = "enabled"
  /\ sent' = sent \o queue /\ queue' = << >>
  /\ UNCHANGED << emitted, buffers, log, logged, device, tracked, discarded,
                  toggles, flushed, closed >>

\* Faulty DisableTelemetry: the queue is kept.
DisableTelemetryPausing ==
  /\ analytics # "disabled" /\ analytics' = "disabled"
  /\ discarded' = discarded \cup ToSet(queue)
  /\ UNCHANGED << emitted, buffers, log, logged, device, queue, tracked, sent,
                  toggles, flushed, closed >>

DisableTelemetry ==
  /\ analytics # "disabled" /\ analytics' = "disabled"
  /\ queue' = << >> /\ discarded' = discarded \cup ToSet(queue)
  /\ UNCHANGED << emitted, buffers, log, logged, device, tracked, sent,
                  toggles, flushed, closed >>

\* CliRepl.close(): the last flush.
Close ==
  /\ ~closed /\ closed' = TRUE
  /\ log' = log /\ Flush
  /\ UNCHANGED << emitted, device, analytics, toggles >>

Next ==
  \/ Emit \/ DeviceIdKnown \/ StartLogging \/ StopLogging
  \/ EnableTelemetry \/ DisableTelemetry \/ Close

(***************************************************************************)
(* Fairness: the promise of the device ID is resolved (it is given an      *)
(* abort signal that CliRepl.close() triggers), and startup attaches or    *)
(* detaches the log.                                                       *)
(***************************************************************************)
Fairness == WF_vars(DeviceIdKnown) /\ WF_vars(StartLogging \/ StopLogging)

Spec == Init /\ [][Next]_vars /\ Fairness

-----------------------------------------------------------------------------

\* The types of the variables, and what the buffers may hold.
TypeOK ==
  /\ emitted \in 0 .. MaxEvents /\ toggles \in 0 .. MaxToggles
  /\ bufferingBus \in BOOLEAN /\ bufferingTel \in BOOLEAN
  /\ flushed \in BOOLEAN /\ closed \in BOOLEAN
  /\ pendingBus \in Seq(HeldCalls) /\ pendingTel \in Seq({ "track" } \X Telemetry)
  /\ log \in { "dummy", "file" } /\ logged \in Seq(BusEvents)
  /\ device \in { "pending", "known" }
  /\ analytics \in { "paused", "enabled", "disabled" }
  /\ { queue, tracked, sent } \subseteq Seq(Telemetry) /\ discarded \subseteq Telemetry

UpTo(n) == [i \in 1 .. n |-> i]

\* However late the log file is attached, it has every event of the session,
\* once and in order, unless the buffer was flushed without it.
LogComplete == log = "file" /\ ~flushed => logged = UpTo(emitted)

\* Two buffers with conditions of their own, one of which may be emptied
\* first, never lose, repeat or swap the telemetry of bus events.
TrackedInOrder ==
  IsPrefix(Among(tracked, BusEvents), UpTo(emitted))

\* What ToggleableAnalytics dropped, because it was queued there when telemetry
\* was disabled or arrived while it was, is gone: it is not sent when telemetry
\* is enabled later.  An event that still waits in one of the two buffers while
\* telemetry is disabled is not dropped: it is sent when telemetry is enabled
\* before the buffer is run.
DiscardedForGood ==
  \A e \in discarded \cap BusEvents : e \notin ToSet(sent)

\* Neither buffer loses, repeats or swaps an event, and none is sent that the
\* switch of the telemetry has dropped (logging-and-telemetry.ts:205-335,
\* analytics-helpers.ts:42).
BuffersFaithful == LogComplete /\ TrackedInOrder /\ DiscardedForGood

\* No event is stuck in a buffer.
EventsTracked ==
  \A n \in BusEvents : emitted >= n ~> n \in ToSet(tracked)

\* What the comment in flush() says: "Session Ended" is emitted once per
\* session.
SessionEndedOnce ==
  LET calls == pendingBus \o pendingTel
      ends  == Of("track", calls) \o tracked IN
  Len(SelectSeq(ends, LAMBDA e : e = SessionEnded)) <= 1

=============================================================================
