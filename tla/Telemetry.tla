----------------------------- MODULE Telemetry ------------------------------
(***************************************************************************)
(* The chain that telemetry passes on a device: the choice whether there   *)
(* is any (CliConfig), the limit on it (ThrottledAnalytics), which all     *)
(* shells share, and the client that sends it (TelemetryClient). They are  *)
(* next to each other here, with names of their own for what they have     *)
(* under the same one.                                                     *)
(***************************************************************************)

EXTENDS CliConfig

CONSTANTS MaxTime, Rate, Timeframe, StaleAfter, Events, Flushes

VARIABLES now, lock, throttleFile, place, holds, beat, open, state, waiting, tracked,
          sessions, emitted, crashed, raced, late, astray,
          event, pending, aborted, flush, earlier

Throttle == INSTANCE ThrottledAnalytics
  WITH file <- throttleFile, pc <- place, queue <- waiting, starts <- sessions, sent <- emitted
Client == INSTANCE TelemetryClient

\* The lock on the throttle has one owner, who takes it along when it ends by
\* itself (analytics-helpers.ts:119-167).
LockSound == Throttle!LockSound

\* In no stretch of time as long as a timeframe are more events sent than two
\* timeframes allow, whatever sessions do (analytics-helpers.ts:261-277).
RateLimit == Throttle!RateLimit

\* A flush that did not time out leaves nothing behind, and after a flush no
\* request is started (telemetry-client.ts:75-99).
FlushFinal == Client!FlushFinal
=============================================================================
