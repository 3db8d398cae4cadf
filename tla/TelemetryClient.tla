--------------------------- MODULE TelemetryClient ---------------------------
(***************************************************************************)
(* TelemetryClient: requests nobody waits for, and flush(), which waits for*)
(* them for a while and then aborts whatever is left, also what is started *)
(* later.  Each event is one request.  Flushes may overlap: the shell ends *)
(* while a setting that detaches the telemetry is still being applied.     *)
(***************************************************************************)
EXTENDS FiniteSets

CONSTANTS Events, Flushes

VARIABLES
  event,   \* how far doTrack() of each event is
  pending, \* this.pending, the events whose promise is in it
  aborted, \* the controller's signal
  flush,   \* the calls of flush(), with the promises each has collected
  earlier  \* history: the events tracked before each flush

vars == << event, pending, aborted, flush, earlier >>

TypeOK ==
  /\ event \in [Events -> {"new", "compressing", "requested", "ended", "settled"}]
  /\ pending \subseteq Events /\ aborted \in BOOLEAN
  /\ flush \in [Flushes -> [at : {"idle", "waiting", "done", "timed out"},
                            waits : SUBSET Events]]
  /\ earlier \in [Flushes -> SUBSET Events]

Init ==
  /\ event = [e \in Events |-> "new"] /\ pending = {} /\ aborted = FALSE
  /\ flush = [f \in Flushes |-> [at |-> "idle", waits |-> {}]]
  /\ earlier = [f \in Flushes |-> {}]

\* track(): doTrack() starts to compress the event.
Track(e) ==
  /\ event[e] = "new"
  /\ event' = [event EXCEPT ![e] = "compressing"]
  /\ pending' = pending \cup {e}
  /\ UNCHANGED << aborted, flush, earlier >>

\* Faulty Compressed: the request is bounded by its own timeout only.
CompressedUnsignalled(e) ==
  /\ event[e] = "compressing"
  /\ event' = [event EXCEPT ![e] = "requested"]
  /\ UNCHANGED << pending, aborted, flush, earlier >>

\* The event is compressed and sent, unless the signal is aborted already.
Compressed(e) ==
  /\ event[e] = "compressing"
  /\ event' = [event EXCEPT ![e] = IF aborted THEN "ended" ELSE "requested"]
  /\ UNCHANGED << pending, aborted, flush, earlier >>

\* fetch() is settled: by an answer, a failure, or the request's timeout.
Ends(e) ==
  /\ event[e] = "requested"
  /\ event' = [event EXCEPT ![e] = "ended"]
  /\ UNCHANGED << pending, aborted, flush, earlier >>

\* The promise of track() is settled, and removes itself.
Settle(e) ==
  /\ event[e] = "ended"
  /\ event' = [event EXCEPT ![e] = "settled"]
  /\ pending' = pending \ {e}
  /\ UNCHANGED << aborted, flush, earlier >>

\* Faulty Collected: what is still being compressed is not waited for.
CollectedRequests == {e \in pending : event[e] # "compressing"}

\* The promises flush() waits for.
Collected == pending

\* flush(): waits, or has nothing to wait for and aborts at once.
Flush(f) ==
  /\ flush[f].at = "idle"
  /\ earlier' = [earlier EXCEPT ![f] = {e \in Events : event[e] # "new"}]
  /\ flush' = [flush EXCEPT ![f] =
       [at |-> IF Collected = {} THEN "done" ELSE "waiting", waits |-> Collected]]
  /\ aborted' = (aborted \/ Collected = {})
  /\ UNCHANGED << event, pending >>

\* The race is over, won by the promises or by the clock: the rest is aborted.
FlushEnds(f) ==
  /\ flush[f].at = "waiting"
  /\ \/ /\ \A e \in flush[f].waits : event[e] = "settled"
        /\ flush' = [flush EXCEPT ![f].at = "done"]
     \/ flush' = [flush EXCEPT ![f].at = "timed out"]
  /\ aborted' = TRUE
  /\ UNCHANGED << event, pending, earlier >>

Next ==
  \/ \E e \in Events : Track(e) \/ Compressed(e) \/ Ends(e) \/ Settle(e)
  \/ \E f \in Flushes : Flush(f) \/ FlushEnds(f)

Spec == Init /\ [][Next]_vars
-----------------------------------------------------------------------------
(* Properties.                                                             *)

\* A flush that did not time out leaves nothing behind of what was tracked
\* before it, be it compressing, in flight, or collected by another flush
\* (telemetry-client.ts:91-99).
FlushComplete ==
  \A f \in Flushes :
    flush[f].at = "done" => \A e \in earlier[f] : event[e] = "settled"

\* Once a flush is over, no request is started: a straggler that finishes
\* compressing later is dropped (telemetry-client.ts:75-85).  What is sent
\* after the shell was told that telemetry is flushed would keep it from
\* ending.
QuietAfterFlush ==
  [][(\E f \in Flushes : flush[f].at \in {"done", "timed out"}) =>
       \A e \in Events : event'[e] = "requested" => event[e] = "requested"]_vars

\* What flush() promises to the shell that is about to end
\* (telemetry-client.ts:88-102).
FlushFinal == []FlushComplete /\ QuietAfterFlush
=============================================================================
