------------------------------ MODULE CliConfig ------------------------------
(***************************************************************************)
(* The configuration of the shell and what it decides: ConfigManager, the  *)
(* start of CliRepl, setConfig(), and ToggleableAnalytics.                 *)
(*                                                                         *)
(* Every shell reads the config file when it starts and keeps the whole    *)
(* configuration in memory; every setting that is changed writes all of it *)
(* back, in two steps.  Shells overlap, and may die at any time.  Telemetry*)
(* events are held back until both the user's and the administrator's      *)
(* configuration are known.                                                *)
(***************************************************************************)
EXTENDS Integers

CONSTANTS
  Procs,      \* shells that run at the same time
  MaxStarts,  \* bound on the sessions
  MaxEvents   \* bound on the events that are held back

ASSUME ConfigAssumption == MaxStarts \in Nat /\ MaxEvents \in Nat

VARIABLES
  file,      \* the config file: a configuration, Absent or Torn
  forced,    \* forceDisableTelemetry in the global configuration
  pc,        \* where each shell is
  config,    \* this.config
  global,    \* the shells that have loaded the global configuration
  unread,    \* of them, those that could not read or parse it
  kind,      \* what kind of session it is
  writing,   \* where writeConfigFile() is
  logging,   \* the shells with a logger attached
  queue,     \* state of ToggleableAnalytics' queue
  held,      \* events it holds back
  update,    \* the shells that are about to ask for updates
  starts,
  sent,      \* history: the last thing that was sent: by whom, under which choice
  choice,    \* history: what the user was told last about telemetry
  overlap,   \* history: two shells ran at the same time
  broken     \* history: a file access failed, or a shell ended while writing

vars == << file, forced, pc, config, global, unread, kind, writing, logging, queue,
           held, update, starts, sent, choice, overlap, broken >>
session   == << kind, global, unread, logging >>
analytics == << queue, held, update, sent >>

Config  == [telemetry : BOOLEAN, nolog : BOOLEAN, greeted : {"yes", "no"}]
Default == [telemetry |-> TRUE, nolog |-> FALSE, greeted |-> "no"]
Absent  == [telemetry |-> TRUE, nolog |-> FALSE, greeted |-> "absent"]  \* no file
Torn    == [telemetry |-> TRUE, nolog |-> FALSE, greeted |-> "torn"]    \* truncated, not written yet

\* Sessions are interactive, scripts, or scripts run by an AI agent.
Kinds == {"interactive", "script", "agent"}

TypeOK ==
  /\ file \in Config \cup {Absent, Torn} /\ forced \in BOOLEAN
  /\ pc \in [Procs -> {"off", "open", "create", "read", "global", "greet",
                       "scripts", "running"}]
  /\ config \in [Procs -> Config] /\ global \subseteq Procs /\ unread \subseteq Procs
  /\ kind \in [Procs -> Kinds]
  /\ writing \in [Procs -> {"no", "open", "write"}]
  /\ logging \subseteq Procs
  /\ queue \in [Procs -> {"paused", "enabled", "disabled"}]
  /\ held \in [Procs -> 0 .. MaxEvents] /\ update \subseteq Procs
  /\ starts \in 0 .. MaxStarts
  /\ sent \in {"nothing", "allowed", "after opting out", "although forbidden"}
  /\ choice \in BOOLEAN /\ overlap \in BOOLEAN /\ broken \in BOOLEAN

Init ==
  /\ file = Absent /\ forced \in BOOLEAN
  /\ pc = [p \in Procs |-> "off"]
  /\ config = [p \in Procs |-> Default] /\ global = {} /\ unread = {}
  /\ kind = [p \in Procs |-> "script"]
  /\ writing = [p \in Procs |-> "no"] /\ logging = {}
  /\ queue = [p \in Procs |-> "paused"] /\ held = [p \in Procs |-> 0]
  /\ update = {} /\ starts = 0 /\ sent = "nothing"
  /\ choice = TRUE /\ overlap = FALSE /\ broken = FALSE

Goto(p, where) == pc' = [pc EXCEPT ![p] = where]
Alive(p) == pc[p] # "off"

-----------------------------------------------------------------------------
(* Telemetry.                                                              *)

Tracked(p) == kind[p] \in {"interactive", "agent"}

\* The administrator forbids it to a shell, unless the shell has failed to read
\* the global configuration, which counts as an empty one.
Forced(p) == forced /\ p \notin unread

\* isTelemetryEnabled().
Enabled(p, conf) == ~Forced(p) /\ conf.telemetry

\* What is said about something that leaves a shell now.
Leaving(p, chosen) ==
  IF Forced(p) THEN "although forbidden"
  ELSE IF chosen THEN "allowed" ELSE "after opting out"

\* Faulty Decided: the shell does not wait for the global configuration.
DecidedAtOnce(p, conf) ==
  IF conf.telemetry /\ (p \in global => ~Forced(p)) /\ Tracked(p)
  THEN "enabled" ELSE "disabled"

\* setTelemetryEnabled(): what becomes of the queue, as long as the global
\* configuration has been loaded.
Decided(p, conf) ==
  IF p \notin global THEN queue[p]
  ELSE IF Enabled(p, conf) /\ Tracked(p) THEN "enabled" ELSE "disabled"

\* Enabling sends what is held back, disabling drops it.
SetTelemetry(p, conf, chosen) ==
  /\ queue' = [queue EXCEPT ![p] = Decided(p, conf)]
  /\ held' = [held EXCEPT ![p] = IF queue'[p] = "paused" THEN @ ELSE 0]
  /\ sent' = IF queue'[p] = "enabled" /\ held[p] > 0 THEN Leaving(p, chosen) ELSE sent

Track(p) ==
  /\ pc[p] \in {"greet", "scripts", "running"}
  /\ CASE queue[p] = "enabled" -> sent' = Leaving(p, choice) /\ UNCHANGED held
       [] queue[p] = "paused" -> /\ held[p] < MaxEvents /\ UNCHANGED sent
                                 /\ held' = [held EXCEPT ![p] = @ + 1]
       [] queue[p] = "disabled" -> UNCHANGED << sent, held >>
  /\ UNCHANGED << file, forced, pc, config, session, writing, queue, update,
                  starts, choice, overlap, broken >>

\* The request for updates carries the device's ID while telemetry is enabled.
AskForUpdates(p) ==
  /\ p \in update /\ update' = update \ {p}
  /\ sent' = IF Enabled(p, config[p]) THEN Leaving(p, choice) ELSE sent
  /\ UNCHANGED << file, forced, pc, config, session, writing, queue, held,
                  starts, choice, overlap, broken >>

-----------------------------------------------------------------------------
(* Starting.                                                               *)

Start(p) ==
  /\ pc[p] = "off" /\ starts < MaxStarts /\ starts' = starts + 1
  /\ Goto(p, "open")
  /\ \E k \in Kinds : kind' = [kind EXCEPT ![p] = k]
  /\ config' = [config EXCEPT ![p] = Default]
  /\ queue' = [queue EXCEPT ![p] = "paused"] /\ held' = [held EXCEPT ![p] = 0]
  /\ overlap' = (overlap \/ \E q \in Procs : Alive(q))
  /\ UNCHANGED << file, forced, global, unread, logging, writing, update, sent, choice, broken >>

\* generateOrReadConfig() opens the file; there may be none, or it fails.
Open(p) ==
  /\ pc[p] = "open"
  /\ \/ /\ Goto(p, IF file = Absent THEN "create" ELSE "read")
        /\ writing' = [writing EXCEPT ![p] = IF file = Absent THEN "open" ELSE "no"]
        /\ UNCHANGED broken
     \/ Goto(p, "global") /\ broken' = TRUE /\ UNCHANGED writing
  /\ UNCHANGED << file, forced, config, session, analytics, starts, choice, overlap >>

\* Faulty Merged: the defaults win over what was read.
MergedOver(read) == [Default EXCEPT !.nolog = read.nolog, !.greeted = read.greeted]

\* What was read is put over the defaults.
Merged(read) == read

\* The file is read; the defaults are used if it cannot be parsed.  Telemetry
\* is to be decided upon, but the global configuration has not been loaded.
Read(p) ==
  /\ pc[p] = "read" /\ Goto(p, "global")
  /\ config' = [config EXCEPT ![p] = IF file = Torn THEN Default ELSE Merged(file)]
  /\ IF file = Torn THEN UNCHANGED << queue, held, sent >> ELSE SetTelemetry(p, config'[p], choice)
  /\ UNCHANGED << file, forced, session, writing, update, starts, choice, overlap,
                  broken >>

\* loadGlobalConfigFile(), which may fail with no more than a warning: this is
\* noted if the file forbids telemetry.
GlobalFile(p) ==
  /\ global' = global \cup {p}
  /\ \/ UNCHANGED unread
     \/ forced /\ unread' = unread \cup {p}

\* The global configuration is there: telemetry and logging are set up, and
\* updates are asked for in the background.
LoadGlobal(p) ==
  /\ pc[p] = "global" /\ Goto(p, "greet")
  /\ GlobalFile(p)
  /\ logging' = IF config[p].nolog THEN logging ELSE logging \cup {p}
  /\ update' = update \cup {p}
  /\ UNCHANGED << file, forced, config, kind, writing, queue, held, sent, starts,
                  choice, overlap, broken >>

\* greet(): an interactive shell that is the first says that telemetry can be
\* turned off, and remembers that it has.
Greet(p) ==
  /\ pc[p] = "greet" /\ writing[p] = "no" /\ Goto(p, "scripts")
  /\ IF kind[p] = "interactive" /\ config[p].greeted = "no"
     THEN /\ config' = [config EXCEPT ![p].greeted = "yes"]
          /\ writing' = [writing EXCEPT ![p] = "open"]
     ELSE UNCHANGED << config, writing >>
  /\ UNCHANGED << file, forced, session, analytics, starts, choice, overlap, broken >>

\* The scripts and the rc file are done with: telemetry is decided upon.
Ready(p) ==
  /\ pc[p] = "scripts" /\ writing[p] = "no" /\ Goto(p, "running")
  /\ SetTelemetry(p, config[p], choice)
  /\ UNCHANGED << file, forced, config, session, writing, update, starts, choice,
                  overlap, broken >>

-----------------------------------------------------------------------------
(* setConfig().                                                            *)

Settable(p) == pc[p] \in {"scripts", "running"} /\ writing[p] = "no"

\* enableTelemetry(), disableTelemetry(); refused if the administrator says so.
SetEnableTelemetry(p, value) ==
  /\ Settable(p) /\ ~Forced(p)
  /\ config' = [config EXCEPT ![p].telemetry = value]
  /\ SetTelemetry(p, config'[p], value)
  /\ writing' = [writing EXCEPT ![p] = "open"]
  /\ choice' = value
  /\ UNCHANGED << file, forced, pc, session, update, starts, overlap, broken >>

\* config.set('disableLogging', value): attaching a second logger throws, and
\* the setting is not written, though it has been changed.
SetDisableLogging(p, value) ==
  /\ Settable(p)
  /\ config' = [config EXCEPT ![p].nolog = value]
  /\ logging' = IF value THEN logging \ {p} ELSE logging \cup {p}
  /\ writing' = [writing EXCEPT ![p] = IF ~value /\ p \in logging THEN "no" ELSE "open"]
  /\ UNCHANGED << file, forced, pc, kind, global, unread, analytics, starts, choice, overlap,
                  broken >>

\* writeConfigFile() opens and truncates the file; a failure is only warned
\* about.
WriteOpens(p) ==
  /\ writing[p] = "open"
  /\ \/ /\ file' = Torn /\ writing' = [writing EXCEPT ![p] = "write"]
        /\ UNCHANGED << pc, broken >>
     \/ /\ writing' = [writing EXCEPT ![p] = "no"] /\ broken' = TRUE
        /\ pc' = [pc EXCEPT ![p] = IF @ = "create" THEN "global" ELSE @]
        /\ UNCHANGED file
  /\ UNCHANGED << forced, config, session, analytics, starts, choice, overlap >>

\* The whole configuration is written.
Written(p) ==
  /\ writing[p] = "write" /\ writing' = [writing EXCEPT ![p] = "no"]
  /\ file' = config[p]
  /\ IF pc[p] = "create"
     THEN Goto(p, "global") /\ SetTelemetry(p, config[p], choice)
     ELSE UNCHANGED << pc, queue, held, sent >>
  /\ UNCHANGED << forced, config, session, update, starts, choice, overlap, broken >>

-----------------------------------------------------------------------------

\* The shell exits, or dies; it writes nothing.
End(p) ==
  /\ Alive(p) /\ Goto(p, "off")
  /\ broken' = (broken \/ writing[p] # "no")
  /\ writing' = [writing EXCEPT ![p] = "no"]
  /\ global' = global \ {p} /\ unread' = unread \ {p}
  /\ logging' = logging \ {p} /\ update' = update \ {p}
  /\ config' = [config EXCEPT ![p] = Default]
  /\ queue' = [queue EXCEPT ![p] = "paused"] /\ held' = [held EXCEPT ![p] = 0]
  /\ kind' = [kind EXCEPT ![p] = "script"]
  /\ UNCHANGED << file, forced, starts, sent, choice, overlap >>

Next ==
  \E p \in Procs :
    \/ Start(p) \/ Open(p) \/ Read(p) \/ LoadGlobal(p) \/ Greet(p) \/ Ready(p)
    \/ \E value \in BOOLEAN : SetEnableTelemetry(p, value) \/ SetDisableLogging(p, value)
    \/ WriteOpens(p) \/ Written(p) \/ Track(p) \/ AskForUpdates(p) \/ End(p)

Spec == Init /\ [][Next]_vars

-----------------------------------------------------------------------------
(* Properties.                                                             *)

\* When the administrator has forced telemetry off, nothing that tells who the
\* user is leaves a shell that can read so, whatever is held back, set or read,
\* and be it before or after the global configuration has been loaded.  A shell
\* that cannot read or parse that file goes on as if there were none.
NeverWhenForced == sent # "although forbidden"

\* Once the user has turned telemetry off, nothing is sent until it is turned
\* on again, in that shell and in all that follow; as long as shells follow
\* one another and the file can be read and written.
OptOutLasts == ~overlap /\ ~broken => sent # "after opting out"

\* "You can opt-out by running the disableTelemetry() command": the same when
\* shells overlap.
OptOutHolds == ~broken => sent # "after opting out"
=============================================================================
