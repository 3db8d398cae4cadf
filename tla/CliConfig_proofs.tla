--------------------------- MODULE CliConfig_proofs ---------------------------
(***************************************************************************)
(* Proofs about telemetry, which the shells of a device share: for any     *)
(* number of shells and sessions nothing is sent that the administrator    *)
(* has forbidden, by a shell that can read so, nor, while shells follow    *)
(* one another, what the user has opted out of; the lock on the throttle   *)
(* has one owner at a time, who returns it; no span of time as long as the *)
(* timeframe sees more events than two timeframes allow, across processes, *)
(* crashes and leftover locks; and once a shell has flushed its telemetry  *)
(* nothing is left to send.                                                *)
(***************************************************************************)
EXTENDS Telemetry, TLAPS

\* The global configuration is loaded before telemetry can be decided upon, so
\* that a queue is only enabled by a shell that has every reason to.
QueueInv ==
  \A p \in Procs :
    /\ p \in global <=> pc[p] \in {"greet", "scripts", "running"}
    /\ p \in update => p \in global
    /\ queue[p] = "enabled" => p \in global /\ config[p].telemetry /\ ~Forced(p)

\* The file is written by shells that run, or make it when they start; once it
\* is there it stays.
WriteInv ==
  \A p \in Procs :
    /\ writing[p] # "no" => pc[p] \in {"create", "scripts", "running"}
    /\ pc[p] = "create" => writing[p] # "no"
    /\ pc[p] = "read" => file # Absent

\* Shells follow one another until they overlap.
AloneInv ==
  ~overlap => \A p, q \in Procs : Alive(p) /\ Alive(q) => p = q

\* What the user has chosen is in the configuration of the shell that runs.
KnownInv ==
  ~overlap /\ ~broken =>
    \A p \in Procs :
      /\ pc[p] \in {"create", "global", "greet", "scripts", "running"} =>
           config[p].telemetry = choice
      /\ pc[p] = "open" => config[p].telemetry

\* And it is in the file, unless a shell is about to write it.
FileInv ==
  ~overlap /\ ~broken =>
    /\ file = Torn => \E p \in Procs : writing[p] = "write"
    /\ (\A p \in Procs : writing[p] = "no") => file.telemetry = choice

\* The inductive invariant.
IInv ==
  /\ TypeOK /\ QueueInv /\ WriteInv /\ AloneInv /\ KnownInv /\ FileInv
  /\ NeverWhenForced /\ OptOutLasts

-----------------------------------------------------------------------------

\* What is counted stays within its bound.
LEMMA Counting ==
  /\ 0 \in 0 .. MaxEvents /\ 0 \in 0 .. MaxStarts
  /\ \A n \in 0 .. MaxEvents : n < MaxEvents => n + 1 \in 0 .. MaxEvents
  /\ \A n \in 0 .. MaxStarts : n < MaxStarts => n + 1 \in 0 .. MaxStarts
  BY ConfigAssumption

\* The default configuration is one; a file that is absent or torn is not.
LEMMA DefaultConfiguration ==
  /\ Default \in Config /\ Default.telemetry /\ Absent.telemetry /\ Torn.telemetry
  /\ Absent # Torn /\ Absent \notin Config /\ Torn \notin Config
  BY DEF Config, Default, Absent, Torn

\* A configuration with a setting changed is a configuration.
LEMMA GreetedConfiguration ==
  ASSUME NEW c \in Config
  PROVE  /\ [c EXCEPT !.greeted = "yes"] \in Config
         /\ [c EXCEPT !.greeted = "yes"].telemetry = c.telemetry
  BY DEF Config

\* And so it is with the settings the user changes.
LEMMA ChangedConfiguration ==
  ASSUME NEW c \in Config, NEW v \in BOOLEAN
  PROVE  /\ [c EXCEPT !.telemetry = v] \in Config
         /\ [c EXCEPT !.telemetry = v].telemetry = v
         /\ [c EXCEPT !.nolog = v] \in Config
         /\ [c EXCEPT !.nolog = v].telemetry = c.telemetry
  BY DEF Config

\* The inductive invariant holds initially.
LEMMA InitIInv == Init => IInv
  <1> SUFFICES ASSUME Init PROVE IInv
    OBVIOUS
  <1>1. TypeOK
    BY Counting, DefaultConfiguration DEF Init, TypeOK, Kinds
  <1>2. QueueInv /\ WriteInv
    BY DEF Init, QueueInv, WriteInv
  <1>3. AloneInv /\ KnownInv /\ FileInv /\ NeverWhenForced /\ OptOutLasts
    BY DefaultConfiguration DEF Init, AloneInv, KnownInv, FileInv, NeverWhenForced,
       OptOutLasts, Alive
  <1> QED
    BY <1>1, <1>2, <1>3 DEF IInv

\* Start(p) preserves the inductive invariant.
LEMMA StartIInv ==
  ASSUME IInv, NEW p \in Procs, Start(p)
  PROVE  IInv'
  <1> USE DEF IInv, Forced, Start, Goto, session, analytics, Alive
  <1>1. TypeOK'
    <2>1. config' \in [Procs -> Config]
      BY DefaultConfiguration DEF TypeOK
    <2>2. file' \in Config \cup {Absent, Torn}
      BY DEF TypeOK
    <2>3. queue' \in [Procs -> {"paused", "enabled", "disabled"}]
      BY DEF TypeOK
    <2>4. held' \in [Procs -> 0 .. MaxEvents]
      BY Counting DEF TypeOK
    <2>5. sent' \in {"nothing", "allowed", "after opting out", "although forbidden"}
      BY DEF TypeOK
    <2>6. /\ pc' \in [Procs -> {"off", "open", "create", "read", "global", "greet",
                               "scripts", "running"}]
          /\ global' \subseteq Procs /\ kind' \in [Procs -> Kinds]
          /\ writing' \in [Procs -> {"no", "open", "write"}]
          /\ logging' \subseteq Procs /\ update' \subseteq Procs
          /\ forced' \in BOOLEAN /\ unread' \subseteq Procs
      BY DEF TypeOK, Kinds
    <2>7. starts' \in 0 .. MaxStarts /\ choice' \in BOOLEAN
      BY Counting DEF TypeOK
    <2>8. overlap' \in BOOLEAN /\ broken' \in BOOLEAN
      BY Zenon DEF TypeOK
    <2> QED
      BY ONLY <2>1, <2>2, <2>3, <2>4, <2>5, <2>6, <2>7, <2>8 DEF TypeOK
  <1>2. QueueInv'
    BY DEF TypeOK, QueueInv
  <1>3. WriteInv'
    BY DEF TypeOK, WriteInv
  <1>4. AloneInv'
    <2>1. overlap' <=> overlap \/ \E q \in Procs : Alive(q)
      BY DEF TypeOK
    <2>2. \A q \in Procs : q # p => Alive(q)' = Alive(q)
      BY DEF TypeOK
    <2> QED
      BY ONLY <2>1, <2>2 DEF AloneInv
  <1>5. KnownInv'
    <2>1. broken' = broken /\ (overlap' <=> overlap \/ \E q \in Procs : Alive(q))
      BY DEF TypeOK
    <2>2. pc'[p] = "open" /\ config'[p] = Default
      BY DEF TypeOK
    <2>3. \A q \in Procs : q # p => pc'[q] = pc[q]
      BY DEF TypeOK
    <2> QED
      BY ONLY <2>1, <2>2, <2>3, DefaultConfiguration DEF KnownInv, Alive
  <1>6. FileInv'
    BY DEF TypeOK, WriteInv, AloneInv, KnownInv, FileInv, Alive
  <1>7. NeverWhenForced'
    BY DEF TypeOK, QueueInv, NeverWhenForced
  <1>8. OptOutLasts'
    BY DEF TypeOK, QueueInv, KnownInv, OptOutLasts, NeverWhenForced
  <1> QED
    BY ONLY <1>1, <1>2, <1>3, <1>4, <1>5, <1>6, <1>7, <1>8 DEF IInv

\* Open(p) preserves the inductive invariant.
LEMMA OpenIInv ==
  ASSUME IInv, NEW p \in Procs, Open(p)
  PROVE  IInv'
  <1> USE DEF IInv, Forced, Open, Goto, session, analytics
  <1>1. TypeOK'
    <2>1. config' \in [Procs -> Config]
      BY DefaultConfiguration DEF TypeOK
    <2>2. file' \in Config \cup {Absent, Torn}
      BY DEF TypeOK
    <2>3. queue' \in [Procs -> {"paused", "enabled", "disabled"}]
      BY DEF TypeOK
    <2>4. held' \in [Procs -> 0 .. MaxEvents]
      BY Counting DEF TypeOK
    <2>5. sent' \in {"nothing", "allowed", "after opting out", "although forbidden"}
      BY DEF TypeOK
    <2>6. /\ pc' \in [Procs -> {"off", "open", "create", "read", "global", "greet",
                               "scripts", "running"}]
          /\ global' \subseteq Procs /\ kind' \in [Procs -> Kinds]
          /\ writing' \in [Procs -> {"no", "open", "write"}]
          /\ logging' \subseteq Procs /\ update' \subseteq Procs
          /\ forced' \in BOOLEAN /\ unread' \subseteq Procs
      BY DEF TypeOK, Kinds
    <2>7. starts' \in 0 .. MaxStarts /\ choice' \in BOOLEAN
      BY Counting DEF TypeOK
    <2>8. overlap' \in BOOLEAN /\ broken' \in BOOLEAN
      BY Zenon DEF TypeOK
    <2> QED
      BY ONLY <2>1, <2>2, <2>3, <2>4, <2>5, <2>6, <2>7, <2>8 DEF TypeOK
  <1>2. QueueInv'
    <2>1. \E s \in {"create", "read", "global"} : pc' = [pc EXCEPT ![p] = s]
      OBVIOUS
    <2>2. pc[p] = "open" /\ UNCHANGED << global, update, queue, config, forced, unread >>
      OBVIOUS
    <2>3. pc \in [Procs -> {"off", "open", "create", "read", "global", "greet",
                            "scripts", "running"}]
      BY ONLY TypeOK DEF TypeOK
    <2>4. /\ \A q \in Procs : q # p => pc'[q] = pc[q]
          /\ pc'[p] \in {"create", "read", "global"}
      BY ONLY <2>1, <2>3
    <2> QED
      BY ONLY QueueInv, <2>2, <2>4 DEF QueueInv, Forced
  <1>3. WriteInv'
    BY ZenonT(60) DEF TypeOK, WriteInv
  <1>4. AloneInv'
    <2>1. \A q \in Procs : Alive(q)' <=> Alive(q)
      BY DEF TypeOK, Alive
    <2> QED
      BY <2>1 DEF AloneInv
  <1>5. KnownInv'
    <2>1. CASE overlap \/ broken'
      BY <2>1 DEF KnownInv
    <2>2. CASE ~overlap /\ ~broken'
      <3>1. \A q \in Procs : q # p => ~Alive(q)
        BY <2>2 DEF AloneInv, Alive
      <3>2. \A q \in Procs : writing[q] = "no"
        BY <3>1 DEF WriteInv, Alive
      <3>3. config[p].telemetry /\ ~broken
        BY <2>2 DEF KnownInv, TypeOK
      <3>4. file = Absent => config[p].telemetry = choice
        BY <2>2, <3>2, <3>3, DefaultConfiguration DEF FileInv, TypeOK
      <3>5. pc' = [pc EXCEPT ![p] = IF file = Absent THEN "create" ELSE "read"]
        BY <2>2
      <3>6. \A q \in Procs : q # p => pc'[q] = "off"
        BY <3>1, <3>5 DEF TypeOK, Alive
      <3> QED
        BY <3>4, <3>5, <3>6 DEF KnownInv, TypeOK
    <2> QED
      BY <2>1, <2>2 DEF TypeOK
  <1>6. FileInv'
    BY ZenonT(60) DEF TypeOK, WriteInv, AloneInv, KnownInv, FileInv, Alive
  <1>7. NeverWhenForced'
    BY DEF TypeOK, QueueInv, NeverWhenForced
  <1>8. OptOutLasts'
    BY DEF TypeOK, QueueInv, KnownInv, OptOutLasts, NeverWhenForced
  <1> QED
    BY ONLY <1>1, <1>2, <1>3, <1>4, <1>5, <1>6, <1>7, <1>8 DEF IInv

\* Read(p) preserves the inductive invariant.
LEMMA ReadIInv ==
  ASSUME IInv, NEW p \in Procs, Read(p)
  PROVE  IInv'
  <1> USE DEF IInv, Forced, Read, Goto, session, analytics, SetTelemetry, Decided, Enabled,
      Leaving, Tracked, Merged
  <1>1. TypeOK'
    <2>1. config' \in [Procs -> Config]
      <3>1. file # Torn => Merged(file) \in Config
        BY DEF TypeOK, WriteInv
      <3> QED
        BY <3>1, DefaultConfiguration DEF TypeOK
    <2>2. file' \in Config \cup {Absent, Torn}
      BY DEF TypeOK
    <2>3. queue' \in [Procs -> {"paused", "enabled", "disabled"}]
      BY DEF TypeOK
    <2>4. held' \in [Procs -> 0 .. MaxEvents]
      BY Counting, ZenonT(60) DEF TypeOK
    <2>5. sent' \in {"nothing", "allowed", "after opting out", "although forbidden"}
      BY DEF TypeOK
    <2>6. /\ pc' \in [Procs -> {"off", "open", "create", "read", "global", "greet",
                               "scripts", "running"}]
          /\ global' \subseteq Procs /\ kind' \in [Procs -> Kinds]
          /\ writing' \in [Procs -> {"no", "open", "write"}]
          /\ logging' \subseteq Procs /\ update' \subseteq Procs
          /\ forced' \in BOOLEAN /\ unread' \subseteq Procs
      BY DEF TypeOK, Kinds
    <2>7. starts' \in 0 .. MaxStarts /\ choice' \in BOOLEAN
      BY Counting DEF TypeOK
    <2>8. overlap' \in BOOLEAN /\ broken' \in BOOLEAN
      BY Zenon DEF TypeOK
    <2> QED
      BY ONLY <2>1, <2>2, <2>3, <2>4, <2>5, <2>6, <2>7, <2>8 DEF TypeOK
  <1>2. QueueInv'
    BY DEF TypeOK, QueueInv
  <1>3. WriteInv'
    BY DEF TypeOK, WriteInv
  <1>4. AloneInv'
    BY ZenonT(60) DEF TypeOK, AloneInv, Alive
  <1>5. KnownInv'
    <2>1. SUFFICES ASSUME ~overlap, ~broken
                   PROVE  KnownInv'
      BY DEF KnownInv
    <2>2. pc[p] = "read" /\ pc' = [pc EXCEPT ![p] = "global"]
      OBVIOUS
    <2>3. \A q \in Procs : q # p => pc'[q] = "off"
      BY <2>1, <2>2, ZenonT(60) DEF TypeOK, AloneInv, Alive
    <2>4. pc'[p] = "global"
      BY <2>2 DEF TypeOK
    <2>5. \A q \in Procs : writing[q] = "no"
      BY <2>1, <2>2, <2>3 DEF TypeOK, WriteInv
    <2>6. file # Torn /\ file.telemetry = choice
      BY <2>1, <2>5 DEF FileInv
    <2>7. config'[p].telemetry = choice'
      BY <2>6 DEF TypeOK
    <2> QED
      BY ONLY <2>3, <2>4, <2>7 DEF KnownInv
  <1>6. FileInv'
    BY DEF TypeOK, WriteInv, AloneInv, KnownInv, FileInv, Alive
  <1>7. NeverWhenForced'
    BY DEF TypeOK, QueueInv, NeverWhenForced
  <1>8. OptOutLasts'
    BY DEF TypeOK, QueueInv, KnownInv, OptOutLasts, NeverWhenForced
  <1> QED
    BY ONLY <1>1, <1>2, <1>3, <1>4, <1>5, <1>6, <1>7, <1>8 DEF IInv

\* LoadGlobal(p) preserves the inductive invariant.
LEMMA LoadGlobalIInv ==
  ASSUME IInv, NEW p \in Procs, LoadGlobal(p)
  PROVE  IInv'
  <1> USE DEF IInv, Forced, LoadGlobal, GlobalFile, Goto, session, analytics
  <1>1. TypeOK'
    <2>1. config' \in [Procs -> Config]
      BY DefaultConfiguration DEF TypeOK
    <2>2. file' \in Config \cup {Absent, Torn}
      BY DEF TypeOK
    <2>3. queue' \in [Procs -> {"paused", "enabled", "disabled"}]
      BY DEF TypeOK
    <2>4. held' \in [Procs -> 0 .. MaxEvents]
      BY Counting DEF TypeOK
    <2>5. sent' \in {"nothing", "allowed", "after opting out", "although forbidden"}
      BY DEF TypeOK
    <2>6. /\ pc' \in [Procs -> {"off", "open", "create", "read", "global", "greet",
                               "scripts", "running"}]
          /\ global' \subseteq Procs /\ kind' \in [Procs -> Kinds]
          /\ writing' \in [Procs -> {"no", "open", "write"}]
          /\ logging' \subseteq Procs /\ update' \subseteq Procs
          /\ forced' \in BOOLEAN /\ unread' \subseteq Procs
      BY DEF TypeOK, Kinds
    <2>7. starts' \in 0 .. MaxStarts /\ choice' \in BOOLEAN
      BY Counting DEF TypeOK
    <2>8. overlap' \in BOOLEAN /\ broken' \in BOOLEAN
      BY Zenon DEF TypeOK
    <2> QED
      BY ONLY <2>1, <2>2, <2>3, <2>4, <2>5, <2>6, <2>7, <2>8 DEF TypeOK
  <1>2. QueueInv'
    BY DEF TypeOK, QueueInv
  <1>3. WriteInv'
    BY DEF TypeOK, WriteInv
  <1>4. AloneInv'
    BY ZenonT(60) DEF TypeOK, AloneInv, Alive
  <1>5. KnownInv'
    BY ZenonT(60) DEF TypeOK, WriteInv, AloneInv, KnownInv, FileInv, Alive
  <1>6. FileInv'
    BY DEF TypeOK, WriteInv, AloneInv, KnownInv, FileInv, Alive
  <1>7. NeverWhenForced'
    BY DEF TypeOK, QueueInv, NeverWhenForced
  <1>8. OptOutLasts'
    BY DEF TypeOK, QueueInv, KnownInv, OptOutLasts, NeverWhenForced
  <1> QED
    BY ONLY <1>1, <1>2, <1>3, <1>4, <1>5, <1>6, <1>7, <1>8 DEF IInv

\* Greet(p) preserves the inductive invariant.
LEMMA GreetIInv ==
  ASSUME IInv, NEW p \in Procs, Greet(p)
  PROVE  IInv'
  <1> USE DEF IInv, Forced, Greet, Goto, session, analytics
  <1>1. TypeOK'
    <2>1. config' \in [Procs -> Config]
      <3>1. config[p] \in Config
        BY DEF TypeOK
      <3>2. [config[p] EXCEPT !.greeted = "yes"] \in Config
        BY ONLY <3>1, GreetedConfiguration
      <3>3. config' \in {[config EXCEPT ![p] = [config[p] EXCEPT !.greeted = "yes"]], config}
        OBVIOUS
      <3> QED
        BY ONLY <3>2, <3>3, TypeOK DEF TypeOK
    <2>2. file' \in Config \cup {Absent, Torn}
      BY DEF TypeOK
    <2>3. queue' \in [Procs -> {"paused", "enabled", "disabled"}]
      BY DEF TypeOK
    <2>4. held' \in [Procs -> 0 .. MaxEvents]
      BY Counting DEF TypeOK
    <2>5. sent' \in {"nothing", "allowed", "after opting out", "although forbidden"}
      BY DEF TypeOK
    <2>6. /\ pc' \in [Procs -> {"off", "open", "create", "read", "global", "greet",
                               "scripts", "running"}]
          /\ global' \subseteq Procs /\ kind' \in [Procs -> Kinds]
          /\ writing' \in [Procs -> {"no", "open", "write"}]
          /\ logging' \subseteq Procs /\ update' \subseteq Procs
          /\ forced' \in BOOLEAN /\ unread' \subseteq Procs
      BY DEF TypeOK, Kinds
    <2>7. starts' \in 0 .. MaxStarts /\ choice' \in BOOLEAN
      BY Counting DEF TypeOK
    <2>8. overlap' \in BOOLEAN /\ broken' \in BOOLEAN
      BY Zenon DEF TypeOK
    <2> QED
      BY ONLY <2>1, <2>2, <2>3, <2>4, <2>5, <2>6, <2>7, <2>8 DEF TypeOK
  <1>2. QueueInv'
    <2>1. /\ config[p] \in Config
          /\ config'[p] \in {[config[p] EXCEPT !.greeted = "yes"], config[p]}
      BY DEF TypeOK
    <2>2. config'[p].telemetry = config[p].telemetry
      <3>1. CASE config'[p] = config[p]
        BY <3>1
      <3>2. CASE config'[p] = [config[p] EXCEPT !.greeted = "yes"]
        BY ONLY <2>1, <3>2, GreetedConfiguration
      <3> QED
        BY ONLY <2>1, <3>1, <3>2
    <2>3. \A q \in Procs : config'[q].telemetry = config[q].telemetry
      BY <2>2 DEF TypeOK
    <2> QED
      BY <2>3 DEF TypeOK, QueueInv
  <1>3. WriteInv'
    BY DEF TypeOK, WriteInv
  <1>4. AloneInv'
    BY DEF TypeOK, AloneInv, Alive
  <1>5. KnownInv'
    <2>1. /\ config[p] \in Config
          /\ config'[p] \in {[config[p] EXCEPT !.greeted = "yes"], config[p]}
      BY DEF TypeOK
    <2>2. config'[p].telemetry = config[p].telemetry
      <3>1. CASE config'[p] = config[p]
        BY <3>1
      <3>2. CASE config'[p] = [config[p] EXCEPT !.greeted = "yes"]
        BY ONLY <2>1, <3>2, GreetedConfiguration
      <3> QED
        BY ONLY <2>1, <3>1, <3>2
    <2>3. \A q \in Procs : config'[q].telemetry = config[q].telemetry
      BY <2>2 DEF TypeOK
    <2> QED
      BY <2>3 DEF TypeOK, KnownInv
  <1>6. FileInv'
    BY ZenonT(60) DEF TypeOK, WriteInv, AloneInv, KnownInv, FileInv, Alive
  <1>7. NeverWhenForced'
    BY DEF TypeOK, QueueInv, NeverWhenForced
  <1>8. OptOutLasts'
    BY DEF TypeOK, QueueInv, KnownInv, OptOutLasts, NeverWhenForced
  <1> QED
    BY ONLY <1>1, <1>2, <1>3, <1>4, <1>5, <1>6, <1>7, <1>8 DEF IInv

\* Ready(p) preserves the inductive invariant.
LEMMA ReadyIInv ==
  ASSUME IInv, NEW p \in Procs, Ready(p)
  PROVE  IInv'
  <1> USE DEF IInv, Forced, Ready, Goto, session, analytics, SetTelemetry, Decided, Enabled,
      Leaving, Tracked
  <1>1. TypeOK'
    <2>1. config' \in [Procs -> Config]
      BY DefaultConfiguration DEF TypeOK
    <2>2. file' \in Config \cup {Absent, Torn}
      BY DEF TypeOK
    <2>3. queue' \in [Procs -> {"paused", "enabled", "disabled"}]
      BY DEF TypeOK
    <2>4. held' \in [Procs -> 0 .. MaxEvents]
      BY Counting DEF TypeOK
    <2>5. sent' \in {"nothing", "allowed", "after opting out", "although forbidden"}
      BY DEF TypeOK
    <2>6. /\ pc' \in [Procs -> {"off", "open", "create", "read", "global", "greet",
                               "scripts", "running"}]
          /\ global' \subseteq Procs /\ kind' \in [Procs -> Kinds]
          /\ writing' \in [Procs -> {"no", "open", "write"}]
          /\ logging' \subseteq Procs /\ update' \subseteq Procs
          /\ forced' \in BOOLEAN /\ unread' \subseteq Procs
      BY DEF TypeOK, Kinds
    <2>7. starts' \in 0 .. MaxStarts /\ choice' \in BOOLEAN
      BY Counting DEF TypeOK
    <2>8. overlap' \in BOOLEAN /\ broken' \in BOOLEAN
      BY Zenon DEF TypeOK
    <2> QED
      BY ONLY <2>1, <2>2, <2>3, <2>4, <2>5, <2>6, <2>7, <2>8 DEF TypeOK
  <1>2. QueueInv'
    BY DEF TypeOK, QueueInv
  <1>3. WriteInv'
    BY DEF TypeOK, WriteInv
  <1>4. AloneInv'
    BY DEF TypeOK, AloneInv, Alive
  <1>5. KnownInv'
    BY ZenonT(60) DEF TypeOK, WriteInv, AloneInv, KnownInv, FileInv, Alive
  <1>6. FileInv'
    BY DEF TypeOK, WriteInv, AloneInv, KnownInv, FileInv, Alive
  <1>7. NeverWhenForced'
    BY DEF TypeOK, QueueInv, NeverWhenForced
  <1>8. OptOutLasts'
    BY DEF TypeOK, QueueInv, KnownInv, OptOutLasts, NeverWhenForced
  <1> QED
    BY ONLY <1>1, <1>2, <1>3, <1>4, <1>5, <1>6, <1>7, <1>8 DEF IInv

\* SetEnableTelemetry(p, value) preserves the inductive invariant.
LEMMA SetEnableTelemetryIInv ==
  ASSUME IInv, NEW p \in Procs, NEW value \in BOOLEAN, SetEnableTelemetry(p, value)
  PROVE  IInv'
  <1> USE DEF IInv, Forced, SetEnableTelemetry, Goto, session, analytics, SetTelemetry,
      Decided, Enabled, Leaving, Tracked, Settable
  <1>1. TypeOK'
    <2>1. config' \in [Procs -> Config]
      <3>1. config[p] \in Config
        BY DEF TypeOK
      <3>2. [config[p] EXCEPT !.telemetry = value] \in Config
        BY ONLY <3>1, value \in BOOLEAN, ChangedConfiguration
      <3>3. config' = [config EXCEPT ![p] = [config[p] EXCEPT !.telemetry = value]]
        OBVIOUS
      <3> QED
        BY ONLY <3>2, <3>3, TypeOK DEF TypeOK
    <2>2. file' \in Config \cup {Absent, Torn}
      BY DEF TypeOK
    <2>3. queue' \in [Procs -> {"paused", "enabled", "disabled"}]
      BY DEF TypeOK
    <2>4. held' \in [Procs -> 0 .. MaxEvents]
      BY Counting DEF TypeOK
    <2>5. sent' \in {"nothing", "allowed", "after opting out", "although forbidden"}
      BY DEF TypeOK
    <2>6. /\ pc' \in [Procs -> {"off", "open", "create", "read", "global", "greet",
                               "scripts", "running"}]
          /\ global' \subseteq Procs /\ kind' \in [Procs -> Kinds]
          /\ writing' \in [Procs -> {"no", "open", "write"}]
          /\ logging' \subseteq Procs /\ update' \subseteq Procs
          /\ forced' \in BOOLEAN /\ unread' \subseteq Procs
      BY DEF TypeOK, Kinds
    <2>7. starts' \in 0 .. MaxStarts /\ choice' \in BOOLEAN
      BY Counting DEF TypeOK
    <2>8. overlap' \in BOOLEAN /\ broken' \in BOOLEAN
      BY Zenon DEF TypeOK
    <2> QED
      BY ONLY <2>1, <2>2, <2>3, <2>4, <2>5, <2>6, <2>7, <2>8 DEF TypeOK
  <1>2. QueueInv'
    BY DEF TypeOK, QueueInv
  <1>3. WriteInv'
    BY DEF TypeOK, WriteInv
  <1>4. AloneInv'
    BY DEF TypeOK, AloneInv, Alive
  <1>5. KnownInv'
    <2>1. config[p] \in Config /\ config'[p] = [config[p] EXCEPT !.telemetry = value]
      BY DEF TypeOK
    <2>2. config'[p].telemetry = value
      BY ONLY <2>1, value \in BOOLEAN, ChangedConfiguration
    <2>3. \A q \in Procs : q # p /\ ~overlap => pc[q] = "off"
      BY DEF AloneInv, Alive
    <2> QED
      BY <2>2, <2>3 DEF TypeOK, KnownInv
  <1>6. FileInv'
    BY ZenonT(60) DEF TypeOK, WriteInv, AloneInv, KnownInv, FileInv, Alive
  <1>7. NeverWhenForced'
    BY DEF TypeOK, QueueInv, NeverWhenForced
  <1>8. OptOutLasts'
    <2>1. config[p] \in Config /\ config'[p] = [config[p] EXCEPT !.telemetry = value]
      BY DEF TypeOK
    <2>2. config'[p].telemetry = value
      BY ONLY <2>1, value \in BOOLEAN, ChangedConfiguration
    <2>3. queue'[p] = IF p \notin global THEN queue[p]
                     ELSE IF value /\ Tracked(p) THEN "enabled" ELSE "disabled"
      BY <2>2 DEF TypeOK
    <2>4. queue'[p] = "enabled" => value
      BY <2>3 DEF QueueInv, TypeOK
    <2> QED
      BY <2>4 DEF TypeOK, OptOutLasts
  <1> QED
    BY ONLY <1>1, <1>2, <1>3, <1>4, <1>5, <1>6, <1>7, <1>8 DEF IInv

\* SetDisableLogging(p, value) preserves the inductive invariant.
LEMMA SetDisableLoggingIInv ==
  ASSUME IInv, NEW p \in Procs, NEW value \in BOOLEAN, SetDisableLogging(p, value)
  PROVE  IInv'
  <1> USE DEF IInv, Forced, SetDisableLogging, Goto, session, analytics, Settable
  <1>1. TypeOK'
    <2>1. config' \in [Procs -> Config]
      <3>1. config[p] \in Config
        BY DEF TypeOK
      <3>2. [config[p] EXCEPT !.nolog = value] \in Config
        BY ONLY <3>1, value \in BOOLEAN, ChangedConfiguration
      <3>3. config' = [config EXCEPT ![p] = [config[p] EXCEPT !.nolog = value]]
        OBVIOUS
      <3> QED
        BY ONLY <3>2, <3>3, TypeOK DEF TypeOK
    <2>2. file' \in Config \cup {Absent, Torn}
      BY DEF TypeOK
    <2>3. queue' \in [Procs -> {"paused", "enabled", "disabled"}]
      BY DEF TypeOK
    <2>4. held' \in [Procs -> 0 .. MaxEvents]
      BY Counting DEF TypeOK
    <2>5. sent' \in {"nothing", "allowed", "after opting out", "although forbidden"}
      BY DEF TypeOK
    <2>6. /\ pc' \in [Procs -> {"off", "open", "create", "read", "global", "greet",
                               "scripts", "running"}]
          /\ global' \subseteq Procs /\ kind' \in [Procs -> Kinds]
          /\ writing' \in [Procs -> {"no", "open", "write"}]
          /\ logging' \subseteq Procs /\ update' \subseteq Procs
          /\ forced' \in BOOLEAN /\ unread' \subseteq Procs
      BY DEF TypeOK, Kinds
    <2>7. starts' \in 0 .. MaxStarts /\ choice' \in BOOLEAN
      BY Counting DEF TypeOK
    <2>8. overlap' \in BOOLEAN /\ broken' \in BOOLEAN
      BY Zenon DEF TypeOK
    <2> QED
      BY ONLY <2>1, <2>2, <2>3, <2>4, <2>5, <2>6, <2>7, <2>8 DEF TypeOK
  <1>2. QueueInv'
    <2>1. config[p] \in Config /\ config'[p] = [config[p] EXCEPT !.nolog = value]
      BY DEF TypeOK
    <2>2. config'[p].telemetry = config[p].telemetry
      BY ONLY <2>1, value \in BOOLEAN, ChangedConfiguration
    <2>3. \A q \in Procs : config'[q].telemetry = config[q].telemetry
      BY <2>2 DEF TypeOK
    <2> QED
      BY <2>3 DEF TypeOK, QueueInv
  <1>3. WriteInv'
    BY DEF TypeOK, WriteInv
  <1>4. AloneInv'
    BY DEF TypeOK, AloneInv, Alive
  <1>5. KnownInv'
    <2>1. config[p] \in Config /\ config'[p] = [config[p] EXCEPT !.nolog = value]
      BY DEF TypeOK
    <2>2. config'[p].telemetry = config[p].telemetry
      BY ONLY <2>1, value \in BOOLEAN, ChangedConfiguration
    <2>3. \A q \in Procs : config'[q].telemetry = config[q].telemetry
      BY <2>2 DEF TypeOK
    <2> QED
      BY <2>3 DEF TypeOK, KnownInv
  <1>6. FileInv'
    BY ZenonT(60) DEF TypeOK, WriteInv, AloneInv, KnownInv, FileInv, Alive
  <1>7. NeverWhenForced'
    BY DEF TypeOK, QueueInv, NeverWhenForced
  <1>8. OptOutLasts'
    BY DEF TypeOK, QueueInv, KnownInv, OptOutLasts, NeverWhenForced
  <1> QED
    BY ONLY <1>1, <1>2, <1>3, <1>4, <1>5, <1>6, <1>7, <1>8 DEF IInv

\* WriteOpens(p) preserves the inductive invariant.
LEMMA WriteOpensIInv ==
  ASSUME IInv, NEW p \in Procs, WriteOpens(p)
  PROVE  IInv'
  <1> USE DEF IInv, Forced, WriteOpens, Goto, session, analytics
  <1>1. TypeOK'
    <2>1. config' \in [Procs -> Config]
      BY DefaultConfiguration DEF TypeOK
    <2>2. file' \in Config \cup {Absent, Torn}
      BY DEF TypeOK
    <2>3. queue' \in [Procs -> {"paused", "enabled", "disabled"}]
      BY DEF TypeOK
    <2>4. held' \in [Procs -> 0 .. MaxEvents]
      BY Counting DEF TypeOK
    <2>5. sent' \in {"nothing", "allowed", "after opting out", "although forbidden"}
      BY DEF TypeOK
    <2>6. /\ pc' \in [Procs -> {"off", "open", "create", "read", "global", "greet",
                               "scripts", "running"}]
          /\ global' \subseteq Procs /\ kind' \in [Procs -> Kinds]
          /\ writing' \in [Procs -> {"no", "open", "write"}]
          /\ logging' \subseteq Procs /\ update' \subseteq Procs
          /\ forced' \in BOOLEAN /\ unread' \subseteq Procs
      BY DEF TypeOK, Kinds
    <2>7. starts' \in 0 .. MaxStarts /\ choice' \in BOOLEAN
      BY Counting DEF TypeOK
    <2>8. overlap' \in BOOLEAN /\ broken' \in BOOLEAN
      BY Zenon DEF TypeOK
    <2> QED
      BY ONLY <2>1, <2>2, <2>3, <2>4, <2>5, <2>6, <2>7, <2>8 DEF TypeOK
  <1>2. QueueInv'
    <2>1. \/ pc'[p] = pc[p]
          \/ pc[p] = "create" /\ pc'[p] = "global"
      BY DEF TypeOK
    <2>2. \A q \in Procs : q # p => pc'[q] = pc[q]
      BY DEF TypeOK
    <2> QED
      BY <2>1, <2>2 DEF QueueInv
  <1>3. WriteInv'
    <2>1. file' # Absent \/ file' = file
      BY DefaultConfiguration
    <2>2. \/ pc'[p] = pc[p] /\ pc[p] # "create"
          \/ pc'[p] = pc[p] /\ writing'[p] = "write"
          \/ pc'[p] = "global" /\ writing'[p] = "no"
      BY DEF TypeOK
    <2>3. \A q \in Procs : q # p => pc'[q] = pc[q] /\ writing'[q] = writing[q]
      BY DEF TypeOK
    <2>4. writing'[p] \in {"no", "write"} /\ writing[p] # "no"
      BY DEF TypeOK
    <2> QED
      BY <2>1, <2>2, <2>3, <2>4 DEF WriteInv
  <1>4. AloneInv'
    <2>1. \A q \in Procs : Alive(q)' <=> Alive(q)
      BY ZenonT(60) DEF TypeOK, Alive
    <2> QED
      BY <2>1 DEF AloneInv
  <1>5. KnownInv'
    BY DEF TypeOK, WriteInv, AloneInv, KnownInv, FileInv, Alive
  <1>6. FileInv'
    BY ZenonT(60) DEF TypeOK, WriteInv, AloneInv, KnownInv, FileInv, Alive
  <1>7. NeverWhenForced'
    BY DEF TypeOK, QueueInv, NeverWhenForced
  <1>8. OptOutLasts'
    BY DEF TypeOK, QueueInv, KnownInv, OptOutLasts, NeverWhenForced
  <1> QED
    BY ONLY <1>1, <1>2, <1>3, <1>4, <1>5, <1>6, <1>7, <1>8 DEF IInv

\* Written(p) preserves the inductive invariant.
LEMMA WrittenIInv ==
  ASSUME IInv, NEW p \in Procs, Written(p)
  PROVE  IInv'
  <1> USE DEF IInv, Forced, Written, Goto, session, analytics, SetTelemetry, Decided,
      Enabled, Leaving, Tracked
  <1>1. TypeOK'
    <2>1. config' \in [Procs -> Config]
      BY DefaultConfiguration DEF TypeOK
    <2>2. file' \in Config \cup {Absent, Torn}
      BY DEF TypeOK
    <2>3. queue' \in [Procs -> {"paused", "enabled", "disabled"}]
      BY DEF TypeOK
    <2>4. held' \in [Procs -> 0 .. MaxEvents]
      <3>1. held' = held \/ held' = [held EXCEPT ![p] = held[p]] \/ held' = [held EXCEPT ![p] = 0]
        OBVIOUS
      <3>2. held \in [Procs -> 0 .. MaxEvents]
        BY ONLY TypeOK DEF TypeOK
      <3> QED
        BY ONLY <3>1, <3>2, Counting
    <2>5. sent' \in {"nothing", "allowed", "after opting out", "although forbidden"}
      BY DEF TypeOK
    <2>6. /\ pc' \in [Procs -> {"off", "open", "create", "read", "global", "greet",
                               "scripts", "running"}]
          /\ global' \subseteq Procs /\ kind' \in [Procs -> Kinds]
          /\ writing' \in [Procs -> {"no", "open", "write"}]
          /\ logging' \subseteq Procs /\ update' \subseteq Procs
          /\ forced' \in BOOLEAN /\ unread' \subseteq Procs
      BY DEF TypeOK, Kinds
    <2>7. starts' \in 0 .. MaxStarts /\ choice' \in BOOLEAN
      BY Counting DEF TypeOK
    <2>8. overlap' \in BOOLEAN /\ broken' \in BOOLEAN
      BY Zenon DEF TypeOK
    <2> QED
      BY ONLY <2>1, <2>2, <2>3, <2>4, <2>5, <2>6, <2>7, <2>8 DEF TypeOK
  <1>2. QueueInv'
    <2>1. \/ pc[p] # "create" /\ pc' = pc /\ queue' = queue
          \/ /\ pc[p] = "create" /\ pc' = [pc EXCEPT ![p] = "global"]
             /\ queue' = [queue EXCEPT ![p] = Decided(p, config[p])]
      OBVIOUS
    <2>2. /\ global' = global /\ update' = update /\ config' = config
          /\ forced' = forced /\ unread' = unread
      OBVIOUS
    <2>3. CASE pc' = pc /\ queue' = queue
      BY ONLY QueueInv, <2>2, <2>3 DEF QueueInv
    <2>4. CASE /\ pc[p] = "create" /\ pc' = [pc EXCEPT ![p] = "global"]
               /\ queue' = [queue EXCEPT ![p] = Decided(p, config[p])]
      <3>1. p \notin global
        BY ONLY <2>4, QueueInv DEF QueueInv
      <3>2. Decided(p, config[p]) = queue[p]
        BY ONLY <3>1 DEF Decided
      <3>3. pc \in [Procs -> {"off", "open", "create", "read", "global", "greet",
                              "scripts", "running"}]
            /\ queue \in [Procs -> {"paused", "enabled", "disabled"}]
        BY ONLY TypeOK DEF TypeOK
      <3>4. \A q \in Procs : queue'[q] = queue[q] /\ (q # p => pc'[q] = pc[q])
        BY ONLY <2>4, <3>2, <3>3
      <3>5. pc'[p] = "global"
        BY ONLY <2>4, <3>3
      <3> QED
        BY ONLY QueueInv, <2>2, <3>1, <3>4, <3>5 DEF QueueInv
    <2> QED
      BY ONLY <2>1, <2>3, <2>4
  <1>3. WriteInv'
    <2>1. file' = config[p] /\ config[p] \in Config
      BY DEF TypeOK
    <2>2. file' # Absent
      BY ONLY <2>1, DefaultConfiguration
    <2>3. \/ pc' = pc /\ pc[p] # "create"
          \/ pc' = [pc EXCEPT ![p] = "global"]
      OBVIOUS
    <2>4. writing' = [writing EXCEPT ![p] = "no"]
      OBVIOUS
    <2>5. pc \in [Procs -> {"off", "open", "create", "read", "global", "greet",
                            "scripts", "running"}]
          /\ writing \in [Procs -> {"no", "open", "write"}]
      BY ONLY TypeOK DEF TypeOK
    <2> QED
      BY ONLY <2>2, <2>3, <2>4, <2>5, WriteInv DEF WriteInv
  <1>4. AloneInv'
    <2>1. \/ pc' = pc
          \/ pc[p] = "create" /\ pc' = [pc EXCEPT ![p] = "global"]
      OBVIOUS
    <2>2. pc \in [Procs -> {"off", "open", "create", "read", "global", "greet",
                            "scripts", "running"}]
      BY ONLY TypeOK DEF TypeOK
    <2>3. \A q \in Procs : Alive(q)' <=> Alive(q)
      BY ONLY <2>1, <2>2 DEF Alive
    <2>4. overlap' = overlap
      OBVIOUS
    <2> QED
      BY ONLY <2>3, <2>4, AloneInv DEF AloneInv
  <1>5. KnownInv'
    <2>1. \/ pc'[p] = pc[p]
          \/ pc[p] = "create" /\ pc'[p] = "global"
      BY DEF TypeOK
    <2>2. \A q \in Procs : q # p => pc'[q] = pc[q]
      BY DEF TypeOK
    <2> QED
      BY <2>1, <2>2 DEF KnownInv
  <1>6. FileInv'
    <2>1. file' # Torn
      BY DefaultConfiguration, ZenonT(60) DEF TypeOK
    <2>2. pc[p] \in {"create", "scripts", "running"}
      BY DEF WriteInv
    <2>3. ~overlap /\ ~broken => config[p].telemetry = choice
      BY <2>2 DEF KnownInv
    <2> QED
      BY <2>1, <2>3 DEF FileInv
  <1>7. NeverWhenForced'
    BY DEF TypeOK, QueueInv, NeverWhenForced
  <1>8. OptOutLasts'
    BY DEF TypeOK, QueueInv, KnownInv, OptOutLasts, NeverWhenForced
  <1> QED
    BY ONLY <1>1, <1>2, <1>3, <1>4, <1>5, <1>6, <1>7, <1>8 DEF IInv

\* Track(p) preserves the inductive invariant.
LEMMA TrackIInv ==
  ASSUME IInv, NEW p \in Procs, Track(p)
  PROVE  IInv'
  <1> USE DEF IInv, Forced, Track, Goto, session, analytics, Leaving
  <1>1. TypeOK'
    <2>1. CASE queue[p] = "paused"
      <3>1. held' = [held EXCEPT ![p] = held[p] + 1] /\ held[p] < MaxEvents
        BY <2>1
      <3>2. held' \in [Procs -> 0 .. MaxEvents]
        BY <3>1, Counting DEF TypeOK
      <3> QED
        BY <2>1, <3>2 DEF TypeOK
    <2>2. CASE queue[p] # "paused"
      BY <2>2 DEF TypeOK
    <2> QED
      BY <2>1, <2>2
  <1>2. QueueInv'
    BY DEF TypeOK, QueueInv
  <1>3. WriteInv'
    BY DEF TypeOK, WriteInv
  <1>4. AloneInv'
    BY DEF TypeOK, AloneInv, Alive
  <1>5. KnownInv'
    BY DEF TypeOK, WriteInv, AloneInv, KnownInv, FileInv, Alive
  <1>6. FileInv'
    BY DEF TypeOK, WriteInv, AloneInv, KnownInv, FileInv, Alive
  <1>7. NeverWhenForced'
    BY DEF TypeOK, QueueInv, NeverWhenForced
  <1>8. OptOutLasts'
    BY DEF TypeOK, QueueInv, KnownInv, OptOutLasts, NeverWhenForced
  <1> QED
    BY ONLY <1>1, <1>2, <1>3, <1>4, <1>5, <1>6, <1>7, <1>8 DEF IInv

\* AskForUpdates(p) preserves the inductive invariant.
LEMMA AskForUpdatesIInv ==
  ASSUME IInv, NEW p \in Procs, AskForUpdates(p)
  PROVE  IInv'
  <1> USE DEF IInv, Forced, AskForUpdates, Goto, session, analytics, Enabled, Leaving
  <1>1. TypeOK'
    <2>1. config' \in [Procs -> Config]
      BY DefaultConfiguration DEF TypeOK
    <2>2. file' \in Config \cup {Absent, Torn}
      BY DEF TypeOK
    <2>3. queue' \in [Procs -> {"paused", "enabled", "disabled"}]
      BY DEF TypeOK
    <2>4. held' \in [Procs -> 0 .. MaxEvents]
      BY Counting DEF TypeOK
    <2>5. sent' \in {"nothing", "allowed", "after opting out", "although forbidden"}
      BY DEF TypeOK
    <2>6. /\ pc' \in [Procs -> {"off", "open", "create", "read", "global", "greet",
                               "scripts", "running"}]
          /\ global' \subseteq Procs /\ kind' \in [Procs -> Kinds]
          /\ writing' \in [Procs -> {"no", "open", "write"}]
          /\ logging' \subseteq Procs /\ update' \subseteq Procs
          /\ forced' \in BOOLEAN /\ unread' \subseteq Procs
      BY DEF TypeOK, Kinds
    <2>7. starts' \in 0 .. MaxStarts /\ choice' \in BOOLEAN
      BY Counting DEF TypeOK
    <2>8. overlap' \in BOOLEAN /\ broken' \in BOOLEAN
      BY Zenon DEF TypeOK
    <2> QED
      BY ONLY <2>1, <2>2, <2>3, <2>4, <2>5, <2>6, <2>7, <2>8 DEF TypeOK
  <1>2. QueueInv'
    BY DEF TypeOK, QueueInv
  <1>3. WriteInv'
    BY DEF TypeOK, WriteInv
  <1>4. AloneInv'
    BY DEF TypeOK, AloneInv, Alive
  <1>5. KnownInv'
    BY DEF TypeOK, WriteInv, AloneInv, KnownInv, FileInv, Alive
  <1>6. FileInv'
    BY DEF TypeOK, WriteInv, AloneInv, KnownInv, FileInv, Alive
  <1>7. NeverWhenForced'
    BY DEF TypeOK, QueueInv, NeverWhenForced
  <1>8. OptOutLasts'
    BY DEF TypeOK, QueueInv, KnownInv, OptOutLasts, NeverWhenForced
  <1> QED
    BY ONLY <1>1, <1>2, <1>3, <1>4, <1>5, <1>6, <1>7, <1>8 DEF IInv

\* End(p) preserves the inductive invariant.
LEMMA EndIInv ==
  ASSUME IInv, NEW p \in Procs, End(p)
  PROVE  IInv'
  <1> USE DEF IInv, Forced, End, Goto, session, analytics, Alive
  <1>1. TypeOK'
    <2>1. config' \in [Procs -> Config]
      BY DefaultConfiguration DEF TypeOK
    <2>2. file' \in Config \cup {Absent, Torn}
      BY DEF TypeOK
    <2>3. queue' \in [Procs -> {"paused", "enabled", "disabled"}]
      BY DEF TypeOK
    <2>4. held' \in [Procs -> 0 .. MaxEvents]
      BY Counting DEF TypeOK
    <2>5. sent' \in {"nothing", "allowed", "after opting out", "although forbidden"}
      BY DEF TypeOK
    <2>6. /\ pc' \in [Procs -> {"off", "open", "create", "read", "global", "greet",
                               "scripts", "running"}]
          /\ global' \subseteq Procs /\ kind' \in [Procs -> Kinds]
          /\ writing' \in [Procs -> {"no", "open", "write"}]
          /\ logging' \subseteq Procs /\ update' \subseteq Procs
          /\ forced' \in BOOLEAN /\ unread' \subseteq Procs
      BY DEF TypeOK, Kinds
    <2>7. starts' \in 0 .. MaxStarts /\ choice' \in BOOLEAN
      BY Counting DEF TypeOK
    <2>8. overlap' \in BOOLEAN /\ broken' \in BOOLEAN
      BY Zenon DEF TypeOK
    <2> QED
      BY ONLY <2>1, <2>2, <2>3, <2>4, <2>5, <2>6, <2>7, <2>8 DEF TypeOK
  <1>2. QueueInv'
    BY DEF TypeOK, QueueInv
  <1>3. WriteInv'
    BY DEF TypeOK, WriteInv
  <1>4. AloneInv'
    BY DEF TypeOK, AloneInv, Alive
  <1>5. KnownInv'
    BY ZenonT(60) DEF TypeOK, WriteInv, AloneInv, KnownInv, FileInv, Alive
  <1>6. FileInv'
    BY DEF TypeOK, WriteInv, AloneInv, KnownInv, FileInv, Alive
  <1>7. NeverWhenForced'
    BY DEF TypeOK, QueueInv, NeverWhenForced
  <1>8. OptOutLasts'
    BY DEF TypeOK, QueueInv, KnownInv, OptOutLasts, NeverWhenForced
  <1> QED
    BY ONLY <1>1, <1>2, <1>3, <1>4, <1>5, <1>6, <1>7, <1>8 DEF IInv

\* Every step preserves the inductive invariant.
LEMMA NextIInv == IInv /\ [Next]_vars => IInv'
  <1> SUFFICES ASSUME IInv, [Next]_vars PROVE IInv'
    OBVIOUS
  <1>1. CASE UNCHANGED vars
    BY <1>1, ZenonT(60) DEF vars, IInv, TypeOK, QueueInv, WriteInv, AloneInv, KnownInv,
       FileInv, NeverWhenForced, OptOutLasts, Alive, Forced
  <1>2. ASSUME NEW p \in Procs, Start(p) \/ Open(p) \/ Read(p) \/ LoadGlobal(p) \/ Greet(p) \/ Ready(p)
        PROVE  IInv'
    BY <1>2, StartIInv, OpenIInv, ReadIInv, LoadGlobalIInv, GreetIInv, ReadyIInv
  <1>3. ASSUME NEW p \in Procs, NEW value \in BOOLEAN,
               SetEnableTelemetry(p, value) \/ SetDisableLogging(p, value)
        PROVE  IInv'
    BY <1>3, SetEnableTelemetryIInv, SetDisableLoggingIInv
  <1>4. ASSUME NEW p \in Procs,
               WriteOpens(p) \/ Written(p) \/ Track(p) \/ AskForUpdates(p) \/ End(p)
        PROVE  IInv'
    BY <1>4, WriteOpensIInv, WrittenIInv, TrackIInv, AskForUpdatesIInv, EndIInv
  <1> QED
    BY <1>1, <1>2, <1>3, <1>4 DEF Next

\* The inductive invariant holds in every reachable state.
LEMMA IInvCorrect == Spec => []IInv
  BY InitIInv, NextIInv, PTL DEF Spec

\* Type correctness.
THEOREM ConfigTypeCorrect == Spec => []TypeOK
  <1>1. IInv => TypeOK
    BY DEF IInv
  <1> QED
    BY <1>1, IInvCorrect, PTL

\* While the administrator forbids telemetry, a shell that can read the global
\* configuration sends nothing: not from the queue when it is decided upon, not
\* by an event, not with a request for updates (cli-repl.ts:749).  One that
\* cannot read or parse it goes on without (cli-repl.ts:912-953).
THEOREM NeverWhenForcedCorrect == Spec => []NeverWhenForced
  <1>1. IInv => NeverWhenForced
    BY DEF IInv
  <1> QED
    BY <1>1, IInvCorrect, PTL

\* A user who has opted out stays so, through the file and all sessions that
\* follow, of any number of shells that do not overlap.
THEOREM OptOutLastsCorrect == Spec => []OptOutLasts
  <1>1. IInv => OptOutLasts
    BY DEF IInv
  <1> QED
    BY <1>1, IInvCorrect, PTL

-----------------------------------------------------------------------------
(* The throttle of the events that are sent, which the shells share too.   *)

\* Who has the lock is between taking it and returning it; what waits to be
\* sent was tracked.
HolderInv ==
  /\ \A p \in holds :
       place[p] \in {"read", "ready", "writing", "unlocking"} /\ beat[p] <= now
  /\ \A p \in Procs : waiting[p] <= tracked[p]

\* The lock has been refreshed, or it is as fresh as its owner's interval; so
\* who is about to remove a stale one is alone, and removes nobody's.
StaleInv ==
  ~raced /\ ~late =>
    /\ \A p \in holds : \/ lock = Throttle!Future
                        \/ lock >= beat[p] /\ 2 * (now - beat[p]) <= StaleAfter
    /\ \A p \in Procs : place[p] = "rmdir" =>
         /\ holds = {} /\ lock # Throttle!NoLock
         /\ \A q \in Procs : place[q] = "rmdir" => q = p

\* Without a crash every lock has its owner, and none is found stale whose
\* owner is in time.
OwnedInv ==
  ~crashed =>
    /\ ~late => ~raced /\ \A p \in Procs : place[p] # "rmdir"
    /\ lock # Throttle!NoLock => holds # {}

\* The inductive invariant of ThrottledAnalytics.
ThrottleInv == Throttle!TypeOK /\ HolderInv /\ StaleInv /\ OwnedInv /\ Throttle!OneOwner

\* A device where no shell has run yet.
LEMMA ThrottleInit == Throttle!ThrottleAssumption /\ Throttle!Init => ThrottleInv
  <1> SUFFICES ASSUME Throttle!ThrottleAssumption, Throttle!Init PROVE ThrottleInv
    OBVIOUS
  <1> USE DEF Throttle!ThrottleAssumption, Throttle!Init, Throttle!NoLock, Throttle!Future,
             Throttle!Times
  <1>1. Throttle!TypeOK
    <2>1. now \in Throttle!Times /\ lock \in 0 .. Throttle!Future
      OBVIOUS
    <2>2. state \in [Procs -> Throttle!States]
      BY DEF Throttle!States
    <2>3. /\ waiting \in [Procs -> 0 .. MaxEvents] /\ tracked \in [Procs -> 0 .. MaxEvents]
          /\ beat \in [Procs -> Throttle!Times] /\ sessions \in 0 .. MaxStarts
      OBVIOUS
    <2>4. emitted \in [Throttle!Ends -> Nat]
      OBVIOUS
    <2>5. place \in [Procs -> Throttle!Restoring \cup Throttle!Closing \cup { "off", "ready" }]
      OBVIOUS
    <2> QED
      BY <2>1, <2>2, <2>3, <2>4, <2>5 DEF Throttle!TypeOK
  <1>2. HolderInv /\ StaleInv /\ OwnedInv /\ Throttle!OneOwner
    BY DEF HolderInv, StaleInv, OwnedInv, Throttle!OneOwner
  <1> QED
    BY <1>1, <1>2 DEF ThrottleInv

\* As long as its owner is in time nobody finds the lock stale.
LEMMA FreshLock ==
  ASSUME Throttle!ThrottleAssumption, ThrottleInv, ~raced, ~late, holds # {}
  PROVE  lock # Throttle!NoLock /\ ~Throttle!Stale(lock)
  <1>1. PICK p \in Procs : p \in holds
    BY DEF ThrottleInv, Throttle!TypeOK
  <1>2. /\ lock # Throttle!NoLock /\ beat[p] <= now
        /\ \/ lock = Throttle!Future
           \/ lock >= beat[p] /\ 2 * (now - beat[p]) <= StaleAfter
    BY <1>1 DEF ThrottleInv, StaleInv, HolderInv, Throttle!OneOwner
  <1>3. lock \in Nat /\ beat[p] \in Nat /\ now \in Nat /\ StaleAfter \in Nat
        /\ now < Throttle!Future
    BY DEF ThrottleInv, Throttle!TypeOK, Throttle!Times, Throttle!NoLock, Throttle!Future,
       Throttle!ThrottleAssumption
  <1> QED
    BY <1>2, <1>3 DEF Throttle!Stale

\* What is sent in a state of the throttle leaves a state of the throttle.
LEMMA SendIs ==
  ASSUME Throttle!ThrottleAssumption, Throttle!TypeOK, NEW p \in Procs,
         NEW s \in Throttle!States, NEW n \in Nat, Throttle!Send(p, s, n)
  PROVE  state' \in [Procs -> Throttle!States] /\ emitted' \in [Throttle!Ends -> Nat]
  <1> DEFINE w == Throttle!Window(s)
             g == Throttle!Granted(s, n)
  <1>1. now \in Throttle!Times /\ w \in Throttle!States
    BY DEF Throttle!TypeOK, Throttle!Window, Throttle!States, Throttle!ThrottleAssumption
  <1>2. w.count \in 0 .. Rate /\ w.timestamp \in Throttle!Times
    BY <1>1 DEF Throttle!States
  <1>3. g \in Nat /\ w.count + g \in 0 .. Rate
    BY <1>2 DEF Throttle!Granted, Throttle!ThrottleAssumption
  <1> HIDE DEF w, g
  <1>4. [w EXCEPT !.count = @ + g] = [count |-> w.count + g, timestamp |-> w.timestamp]
    BY <1>1 DEF Throttle!States
  <1>5. [w EXCEPT !.count = @ + g] \in Throttle!States
    BY <1>2, <1>3, <1>4 DEF Throttle!States
  <1>6. state' \in [Procs -> Throttle!States]
    <2>1. CASE n = 0
      BY <2>1 DEF Throttle!Send, Throttle!TypeOK
    <2>2. CASE n # 0
      <3>1. state' = [state EXCEPT ![p] = [w EXCEPT !.count = @ + g]]
        BY <2>2 DEF Throttle!Send, w, g
      <3> QED
        BY <1>5, <3>1 DEF Throttle!TypeOK
    <2> QED
      BY <2>1, <2>2
  <1>7. emitted' \in [Throttle!Ends -> Nat]
    <2>1. emitted' = [t \in Throttle!Ends |-> emitted[t] + IF t > now THEN g ELSE 0]
      BY DEF Throttle!Send, g
    <2>2. \A t \in Throttle!Ends : emitted[t] \in Nat
      BY DEF Throttle!TypeOK
    <2> QED
      BY <1>3, <2>1, <2>2
  <1> QED
    BY <1>6, <1>7

\* The files of a session that goes elsewhere, and neither takes nor returns
\* the lock.
LEMMA ElsewhereInv ==
  ASSUME Throttle!ThrottleAssumption, ThrottleInv, NEW p \in Procs, NEW where,
         place' = [place EXCEPT ![p] = where],
         where \in Throttle!Restoring \cup Throttle!Closing \cup { "off", "ready" },
         where = "rmdir" /\ ~raced' /\ ~late =>
           holds = {} /\ lock # Throttle!NoLock /\ \A q \in Procs \ {p} : place[q] # "rmdir",
         where = "rmdir" => crashed \/ late,
         p \in holds => where \in {"read", "ready", "writing", "unlocking"},
         UNCHANGED << now, lock, holds, beat, crashed, late >>, raced => raced',
         raced' => crashed \/ late,
         waiting' \in [Procs -> 0 .. MaxEvents], tracked' \in [Procs -> 0 .. MaxEvents],
         \A q \in Procs : waiting'[q] <= tracked'[q],
         raced' \in BOOLEAN
  PROVE  HolderInv' /\ StaleInv' /\ OwnedInv' /\ Throttle!OneOwner'
  <1>1. /\ place'[p] = where /\ \A q \in Procs : q # p => place'[q] = place[q]
        /\ holds \subseteq Procs
    BY DEF ThrottleInv, Throttle!TypeOK
  <1>2. HolderInv'
    BY <1>1 DEF ThrottleInv, HolderInv
  <1>3. StaleInv'
    BY <1>1 DEF ThrottleInv, StaleInv, Throttle!NoLock, Throttle!Future
  <1>4. OwnedInv'
    BY <1>1 DEF ThrottleInv, OwnedInv, Throttle!NoLock, Throttle!Future
  <1>5. Throttle!OneOwner'
    BY DEF ThrottleInv, Throttle!OneOwner, Throttle!NoLock, Throttle!Future
  <1> QED
    BY <1>2, <1>3, <1>4, <1>5

\* A shell starts, gives up, reads the state, tracks an event, writes the
\* state or ends.
LEMMA SessionInv ==
  ASSUME Throttle!ThrottleAssumption, ThrottleInv, NEW p \in Procs,
         \/ Throttle!Start(p) \/ Throttle!Read(p) \/ Throttle!Track(p)
         \/ Throttle!FlushStarts(p) \/ Throttle!FlushWritten(p) \/ Throttle!Flushed(p)
  PROVE  ThrottleInv'
  <1> DEFINE Where == Throttle!Restoring \cup Throttle!Closing \cup { "off", "ready" }
  <1> USE DEF Throttle!disk, Throttle!locking, Throttle!events
  <1>1. place[p] \in Where /\ waiting[p] \in 0 .. MaxEvents /\ tracked[p] \in 0 .. MaxEvents
        /\ waiting[p] <= tracked[p] /\ (raced => crashed \/ late) /\ state[p] \in Throttle!States
    BY DEF ThrottleInv, Throttle!TypeOK, HolderInv, OwnedInv
  <1>2. UNCHANGED << now, lock, holds, beat, crashed, raced, late >> /\ astray' \in BOOLEAN
    BY DEF Throttle!Start, Throttle!Read, Throttle!Track, Throttle!FlushStarts,
       Throttle!FlushWritten, Throttle!Flushed, Throttle!GiveUp, ThrottleInv, Throttle!TypeOK
  <1>3. PICK where \in Where :
          /\ place' = [place EXCEPT ![p] = where]
          /\ where # place[p] => where # "rmdir"
          /\ p \in holds => where \in {"read", "ready", "writing", "unlocking"}
    <2>1. p \in holds => place[p] \in {"read", "ready", "writing", "unlocking"}
      BY DEF ThrottleInv, HolderInv
    <2>2. CASE Throttle!Track(p)
      BY <1>1, <2>1, <2>2 DEF Throttle!Track, ThrottleInv, Throttle!TypeOK
    <2>3. CASE ~Throttle!Track(p)
      <3>1. \/ place[p] = "off" /\ place' = [place EXCEPT ![p] = "mkdir"]
            \/ place[p] = "read" /\ place' = [place EXCEPT ![p] = "ready"]
            \/ place[p] = "ready" /\ place' = [place EXCEPT ![p] = "writing"]
            \/ place[p] = "writing" /\ place' = [place EXCEPT ![p] = "unlocking"]
            \/ place[p] = "flushing" /\ place' = [place EXCEPT ![p] = "off"]
        BY <2>3 DEF Throttle!Start, Throttle!Read, Throttle!FlushStarts, Throttle!FlushWritten,
           Throttle!Flushed, Throttle!GiveUp, Throttle!Goto
      <3> QED
        BY <2>1, <3>1 DEF Throttle!Restoring, Throttle!Closing
    <2> QED
      BY <2>2, <2>3
  <1>4. /\ waiting' \in [Procs -> 0 .. MaxEvents] /\ tracked' \in [Procs -> 0 .. MaxEvents]
        /\ \A q \in Procs : waiting'[q] <= tracked'[q]
    <2>1. PICK w \in 0 .. MaxEvents, n \in 0 .. MaxEvents :
            /\ w <= n /\ waiting' = [waiting EXCEPT ![p] = w]
            /\ tracked' = [tracked EXCEPT ![p] = n]
      <3>1. waiting = [waiting EXCEPT ![p] = waiting[p]] /\ tracked = [tracked EXCEPT ![p] = tracked[p]]
        BY DEF ThrottleInv, Throttle!TypeOK
      <3>2. CASE Throttle!Start(p)
        <4>1. /\ waiting' = [waiting EXCEPT ![p] = 0] /\ tracked' = [tracked EXCEPT ![p] = 0]
              /\ 0 \in 0 .. MaxEvents
          BY <3>2 DEF Throttle!Start, Throttle!ThrottleAssumption
        <4>2. \E w \in 0 .. MaxEvents, n \in 0 .. MaxEvents : w = 0 /\ n = 0
          BY <4>1
        <4>3. 0 <= 0
          OBVIOUS
        <4> QED
          BY <4>1, <4>2, <4>3
      <3>3. CASE Throttle!Read(p)
        <4>1. /\ waiting' = [waiting EXCEPT ![p] = 0] /\ tracked' = [tracked EXCEPT ![p] = tracked[p]]
              /\ 0 \in 0 .. MaxEvents /\ 0 <= tracked[p]
          BY <1>1, <3>1, <3>3 DEF Throttle!Read, Throttle!GiveUp, Throttle!ThrottleAssumption
        <4> QED
          BY <1>1, <4>1
      <3>4. CASE Throttle!Track(p)
        <4>1. /\ tracked' = [tracked EXCEPT ![p] = tracked[p] + 1] /\ tracked[p] < MaxEvents
              /\ \/ waiting' = waiting
                 \/ waiting' = [waiting EXCEPT ![p] = waiting[p] + 1]
                 \/ waiting' = [waiting EXCEPT ![p] = waiting[p]]
          BY <3>4 DEF Throttle!Track
        <4>2. PICK w \in 0 .. MaxEvents :
                waiting' = [waiting EXCEPT ![p] = w] /\ w \in {waiting[p], waiting[p] + 1}
          <5>1. waiting[p] \in 0 .. MaxEvents /\ waiting[p] + 1 \in 0 .. MaxEvents
            BY <1>1, <4>1 DEF Throttle!ThrottleAssumption
          <5> QED
            BY <3>1, <4>1, <5>1
        <4>3. w <= tracked[p] + 1 /\ tracked[p] + 1 \in 0 .. MaxEvents
          BY <1>1, <4>1, <4>2 DEF Throttle!ThrottleAssumption
        <4> QED
          BY <4>1, <4>2, <4>3
      <3>5. CASE Throttle!FlushStarts(p) \/ Throttle!FlushWritten(p) \/ Throttle!Flushed(p)
        BY <1>1, <3>1, <3>5 DEF Throttle!FlushStarts, Throttle!FlushWritten, Throttle!Flushed
      <3> QED
        BY <3>2, <3>3, <3>4, <3>5
    <2> QED
      BY <2>1 DEF ThrottleInv, Throttle!TypeOK, HolderInv
  <1>5. throttleFile' \in Throttle!States \cup {Throttle!NoFile, Throttle!Torn}
    BY <1>1 DEF Throttle!Start, Throttle!Read, Throttle!Track, Throttle!FlushStarts,
       Throttle!FlushWritten, Throttle!Flushed, Throttle!GiveUp, ThrottleInv, Throttle!TypeOK
  <1>6. state' \in [Procs -> Throttle!States] /\ emitted' \in [Throttle!Ends -> Nat]
    <2>1. CASE state' = state /\ emitted' = emitted
      BY <2>1 DEF ThrottleInv, Throttle!TypeOK
    <2>2. CASE Throttle!Start(p)
      <3>1. [count |-> 0, timestamp |-> now] \in Throttle!States
        BY DEF ThrottleInv, Throttle!TypeOK, Throttle!States, Throttle!ThrottleAssumption
      <3> QED
        BY <2>2, <3>1 DEF Throttle!Start, ThrottleInv, Throttle!TypeOK
    <2>3. CASE Throttle!Read(p) /\ throttleFile # Throttle!Torn
      <3>1. Throttle!Restored(p) \in Throttle!States
        BY <1>1, <2>3 DEF Throttle!Restored, ThrottleInv, Throttle!TypeOK
      <3>2. Throttle!Send(p, Throttle!Restored(p), waiting[p]) /\ waiting[p] \in Nat
        BY <1>1, <2>3 DEF Throttle!Read, Throttle!ThrottleAssumption
      <3> QED
        BY <3>1, <3>2, SendIs DEF ThrottleInv
    <2>4. CASE Throttle!Track(p) /\ p \in open
      BY <1>1, <2>4, SendIs DEF Throttle!Track, ThrottleInv
    <2> QED
      BY <2>1, <2>2, <2>3, <2>4 DEF Throttle!Read, Throttle!Track, Throttle!FlushStarts,
         Throttle!FlushWritten, Throttle!Flushed, Throttle!GiveUp
  <1>7. open' \subseteq Procs /\ sessions' \in 0 .. MaxStarts
    <2>1. open' \subseteq Procs
      BY DEF Throttle!Start, Throttle!Read, Throttle!Track, Throttle!FlushStarts,
         Throttle!FlushWritten, Throttle!Flushed, Throttle!GiveUp, ThrottleInv, Throttle!TypeOK
    <2>2. sessions' = sessions \/ (sessions' = sessions + 1 /\ sessions < MaxStarts)
      BY DEF Throttle!Start, Throttle!Read, Throttle!Track, Throttle!FlushStarts,
         Throttle!FlushWritten, Throttle!Flushed
    <2> QED
      BY <2>1, <2>2 DEF ThrottleInv, Throttle!TypeOK, Throttle!ThrottleAssumption
  <1>8. place' \in [Procs -> Where]
    BY <1>3 DEF ThrottleInv, Throttle!TypeOK
  <1>9. Throttle!TypeOK'
    BY <1>2, <1>4, <1>5, <1>6, <1>7, <1>8 DEF ThrottleInv, Throttle!TypeOK
  <1>10. \/ where # "rmdir"
         \/ place[p] = "rmdir" /\ where = "rmdir"
    BY <1>3
  <1>11. /\ where = "rmdir" /\ ~raced /\ ~late =>
              holds = {} /\ lock # Throttle!NoLock /\ \A q \in Procs \ {p} : place[q] # "rmdir"
         /\ where = "rmdir" => crashed \/ late
    BY <1>10 DEF ThrottleInv, StaleInv, OwnedInv
  <1>12. HolderInv' /\ StaleInv' /\ OwnedInv' /\ Throttle!OneOwner'
    BY <1>1, <1>2, <1>3, <1>4, <1>11, ElsewhereInv DEF ThrottleInv, Throttle!TypeOK
  <1> QED
    BY <1>9, <1>12 DEF ThrottleInv

\* A shell that does not get the lock finds it in use or stale.
LEMMA StatInv ==
  ASSUME Throttle!ThrottleAssumption, ThrottleInv, NEW p \in Procs, Throttle!Stat(p)
  PROVE  ThrottleInv'
  <1> USE DEF Throttle!disk, Throttle!locking, Throttle!events
  <1>1. /\ UNCHANGED << now, lock, throttleFile, holds, beat, open, state, tracked, emitted,
                        sessions, crashed, late, astray >>
        /\ place[p] = "stat" /\ raced' \in BOOLEAN /\ p \notin holds
    BY DEF Throttle!Stat, Throttle!GiveUp, ThrottleInv, Throttle!TypeOK, HolderInv
  <1>2. PICK where \in {"rmdir", "ready"} :
          /\ place' = [place EXCEPT ![p] = where]
          /\ where = "rmdir" => lock # Throttle!NoLock /\ Throttle!Stale(lock)
    BY DEF Throttle!Stat, Throttle!GiveUp, Throttle!Goto
  <1>3. \/ raced' = raced /\ where = "ready"
        \/ where = "rmdir" /\ (raced' <=> raced \/ \E q \in Procs \ {p} : place[q] = "rmdir")
    BY <1>1, <1>2 DEF Throttle!Stat, Throttle!GiveUp, Throttle!Goto, ThrottleInv,
       Throttle!TypeOK
  <1>4. waiting' = waiting \/ waiting' = [waiting EXCEPT ![p] = 0]
    BY DEF Throttle!Stat, Throttle!GiveUp
  <1>5. /\ waiting' \in [Procs -> 0 .. MaxEvents]
        /\ \A q \in Procs : waiting'[q] <= tracked[q]
    BY <1>4 DEF ThrottleInv, Throttle!TypeOK, HolderInv, Throttle!ThrottleAssumption
  <1>6. place' \in [Procs -> Throttle!Restoring \cup Throttle!Closing \cup { "off", "ready" }]
    BY <1>2 DEF ThrottleInv, Throttle!TypeOK, Throttle!Restoring
  <1>7. Throttle!TypeOK'
    BY <1>1, <1>5, <1>6 DEF ThrottleInv, Throttle!TypeOK
  <1>8. where = "rmdir" /\ ~raced /\ ~late => holds = {}
    BY <1>2, FreshLock
  <1>9. where = "rmdir" => crashed \/ late
    BY <1>2, <1>8 DEF ThrottleInv, OwnedInv
  <1>10. /\ raced => raced'
         /\ raced' => crashed \/ late
         /\ where = "rmdir" /\ ~raced' /\ ~late =>
              holds = {} /\ lock # Throttle!NoLock /\ \A q \in Procs \ {p} : place[q] # "rmdir"
    <2>1. raced => crashed \/ late
      BY DEF ThrottleInv, OwnedInv
    <2> QED
      BY <1>1, <1>2, <1>3, <1>8, <1>9, <2>1
  <1>11. where \in Throttle!Restoring \cup Throttle!Closing \cup { "off", "ready" }
    BY DEF Throttle!Restoring
  <1>12. tracked' \in [Procs -> 0 .. MaxEvents]
    BY <1>1 DEF ThrottleInv, Throttle!TypeOK
  <1>13. HolderInv' /\ StaleInv' /\ OwnedInv' /\ Throttle!OneOwner'
    BY <1>1, <1>2, <1>5, <1>9, <1>10, <1>11, <1>12, ElsewhereInv
  <1> QED
    BY <1>7, <1>13 DEF ThrottleInv

\* A shell takes the lock, or finds that there is one.
LEMMA MkdirInv ==
  ASSUME Throttle!ThrottleAssumption, ThrottleInv, NEW p \in Procs, Throttle!Mkdir(p)
  PROVE  ThrottleInv'
  <1> USE DEF Throttle!locking, Throttle!events
  <1>1. /\ UNCHANGED << now, throttleFile, open, state, waiting, tracked, emitted,
                        sessions, crashed, raced, late, astray >>
        /\ place[p] = "mkdir" /\ p \notin holds
    BY DEF Throttle!Mkdir, ThrottleInv, HolderInv
  <1>2. now \in Throttle!Times /\ now \in Nat /\ now # Throttle!NoLock /\ now \in 0 .. Throttle!Future
        /\ StaleAfter \in Nat
    BY DEF ThrottleInv, Throttle!TypeOK, Throttle!Times, Throttle!NoLock, Throttle!Future,
       Throttle!ThrottleAssumption
  <1>3. CASE lock = Throttle!NoLock
    <2>1. /\ lock' = now /\ holds' = holds \cup {p} /\ beat' = [beat EXCEPT ![p] = now]
          /\ place' = [place EXCEPT ![p] = "read"]
      BY <1>3 DEF Throttle!Mkdir, Throttle!Goto
    <2>2. /\ beat'[p] = now /\ \A q \in Procs : q # p => beat'[q] = beat[q]
          /\ place'[p] = "read" /\ \A q \in Procs : q # p => place'[q] = place[q]
          /\ holds \subseteq Procs
      BY <2>1 DEF ThrottleInv, Throttle!TypeOK
    <2>3. Throttle!TypeOK'
      <3>1. beat' \in [Procs -> Throttle!Times]
        BY <1>2, <2>1 DEF ThrottleInv, Throttle!TypeOK
      <3>2. place' \in [Procs -> Throttle!Restoring \cup Throttle!Closing \cup { "off", "ready" }]
        BY <2>1 DEF ThrottleInv, Throttle!TypeOK, Throttle!Restoring
      <3> QED
        BY <1>1, <1>2, <2>1, <3>1, <3>2 DEF ThrottleInv, Throttle!TypeOK, Throttle!NoLock, Throttle!Future
    <2>4. ~raced /\ ~late => holds = {} /\ \A q \in Procs : place[q] # "rmdir"
      BY <1>3 DEF ThrottleInv, StaleInv, Throttle!OneOwner
    <2>5. HolderInv'
      BY <1>1, <1>2, <2>1, <2>2 DEF ThrottleInv, HolderInv
    <2>6. StaleInv' /\ OwnedInv' /\ Throttle!OneOwner'
      BY <1>1, <1>2, <2>1, <2>2, <2>4
      DEF ThrottleInv, StaleInv, OwnedInv, Throttle!OneOwner, Throttle!NoLock, Throttle!Future
    <2> QED
      BY <2>3, <2>5, <2>6 DEF ThrottleInv
  <1>4. CASE lock # Throttle!NoLock
    <2>1. place' = [place EXCEPT ![p] = "stat"] /\ UNCHANGED << lock, holds, beat >>
      BY <1>4 DEF Throttle!Mkdir, Throttle!Goto
    <2>2. "stat" \in Throttle!Restoring \cup Throttle!Closing \cup { "off", "ready" }
      BY DEF Throttle!Restoring
    <2>3. Throttle!TypeOK'
      BY <1>1, <2>1, <2>2 DEF ThrottleInv, Throttle!TypeOK, Throttle!NoLock, Throttle!Future,
       Throttle!Times
    <2>4. HolderInv' /\ StaleInv' /\ OwnedInv' /\ Throttle!OneOwner'
      <3>1. /\ waiting' \in [Procs -> 0 .. MaxEvents] /\ tracked' \in [Procs -> 0 .. MaxEvents]
            /\ \A q \in Procs : waiting'[q] <= tracked'[q]
            /\ raced' \in BOOLEAN /\ (raced' => crashed \/ late)
        BY <1>1 DEF ThrottleInv, Throttle!TypeOK, HolderInv, OwnedInv
      <3> QED
        BY <1>1, <2>1, <2>2, <3>1, ElsewhereInv
    <2> QED
      BY <2>3, <2>4 DEF ThrottleInv
  <1> QED
    BY <1>3, <1>4

\* A stale lock is removed, unless it is gone.
LEMMA RmdirInv ==
  ASSUME Throttle!ThrottleAssumption, ThrottleInv, NEW p \in Procs, Throttle!Rmdir(p)
  PROVE  ThrottleInv'
  <1> USE DEF Throttle!locking, Throttle!events
  <1>1. /\ UNCHANGED << now, throttleFile, holds, beat, open, state, tracked, emitted,
                        sessions, crashed, raced, late, astray >>
        /\ place[p] = "rmdir" /\ p \notin holds /\ (crashed \/ late)
    BY DEF Throttle!Rmdir, Throttle!GiveUp, ThrottleInv, HolderInv, OwnedInv
  <1>2. PICK where \in {"mkdir", "ready"} : place' = [place EXCEPT ![p] = where]
    BY DEF Throttle!Rmdir, Throttle!GiveUp, Throttle!Goto
  <1>3. /\ waiting' \in [Procs -> 0 .. MaxEvents]
        /\ \A q \in Procs : waiting'[q] <= tracked[q]
    <2>1. waiting' = waiting \/ waiting' = [waiting EXCEPT ![p] = 0]
      BY DEF Throttle!Rmdir, Throttle!GiveUp
    <2> QED
      BY <2>1 DEF ThrottleInv, Throttle!TypeOK, HolderInv, Throttle!ThrottleAssumption
  <1>4. lock' \in {lock, Throttle!NoLock} /\ lock' \in 0 .. Throttle!Future
    BY DEF Throttle!Rmdir, ThrottleInv, Throttle!TypeOK, Throttle!NoLock, Throttle!Future,
       Throttle!ThrottleAssumption
  <1>5. /\ place'[p] = where /\ \A q \in Procs : q # p => place'[q] = place[q]
        /\ place' \in [Procs -> Throttle!Restoring \cup Throttle!Closing \cup { "off", "ready" }]
    BY <1>2 DEF ThrottleInv, Throttle!TypeOK, Throttle!Restoring
  <1>6. Throttle!TypeOK'
    BY <1>1, <1>3, <1>4, <1>5 DEF ThrottleInv, Throttle!TypeOK, Throttle!NoLock, Throttle!Future
  <1>7. ~raced /\ ~late => holds = {} /\ \A q \in Procs : place[q] = "rmdir" => q = p
    BY <1>1 DEF ThrottleInv, StaleInv
  <1>8. HolderInv'
    BY <1>1, <1>3, <1>5 DEF ThrottleInv, HolderInv, Throttle!TypeOK
  <1>9. StaleInv' /\ OwnedInv' /\ Throttle!OneOwner'
    <2>1. StaleInv' /\ Throttle!OneOwner'
      BY <1>1, <1>2, <1>5, <1>7 DEF StaleInv, Throttle!OneOwner
    <2>2. OwnedInv'
      BY <1>1, <1>4 DEF ThrottleInv, OwnedInv, Throttle!NoLock
    <2> QED
      BY <2>1, <2>2
  <1> QED
    BY <1>6, <1>8, <1>9 DEF ThrottleInv

\* A session returns the lock, dies, or touches the lock.
LEMMA OwnerInv ==
  ASSUME Throttle!ThrottleAssumption, ThrottleInv, NEW p \in Procs,
         Throttle!Unlock(p) \/ Throttle!Crash(p) \/ Throttle!Refresh(p)
  PROVE  ThrottleInv'
  <1> USE DEF Throttle!events, Throttle!disk
  <1>1. /\ now \in Throttle!Times /\ now \in Nat /\ now # Throttle!NoLock
        /\ now \in 0 .. Throttle!Future /\ lock \in 0 .. Throttle!Future
        /\ Throttle!NoLock \in 0 .. Throttle!Future /\ StaleAfter \in Nat
        /\ holds \subseteq Procs /\ 0 \in Throttle!Times
    BY DEF ThrottleInv, Throttle!TypeOK, Throttle!Times, Throttle!NoLock, Throttle!Future,
       Throttle!ThrottleAssumption
  <1>2. CASE Throttle!Unlock(p)
    <2>1. /\ place[p] = "unlocking" /\ place' = [place EXCEPT ![p] = "flushing"]
          /\ holds' = holds \ {p} /\ lock' = IF p \in holds THEN Throttle!NoLock ELSE lock
          /\ beat' = [beat EXCEPT ![p] = 0]
          /\ UNCHANGED << now, throttleFile, open, state, waiting, tracked, emitted,
                          sessions, crashed, raced, late, astray >>
      BY <1>2 DEF Throttle!Unlock, Throttle!Goto
    <2>2. /\ place'[p] = "flushing"
          /\ \A q \in Procs : q # p => place'[q] = place[q] /\ beat'[q] = beat[q]
          /\ beat' \in [Procs -> Throttle!Times]
          /\ place' \in [Procs -> Throttle!Restoring \cup Throttle!Closing \cup { "off", "ready" }]
      BY <1>1, <2>1 DEF ThrottleInv, Throttle!TypeOK, Throttle!Closing
    <2>3. Throttle!TypeOK'
      BY <1>1, <2>1, <2>2 DEF ThrottleInv, Throttle!TypeOK, Throttle!NoLock, Throttle!Future
    <2>4. HolderInv'
      BY <1>1, <2>1, <2>2 DEF ThrottleInv, HolderInv
    <2>5. ~raced /\ ~late /\ p \in holds => holds' = {}
      BY <2>1 DEF ThrottleInv, Throttle!OneOwner
    <2>6. StaleInv' /\ OwnedInv' /\ Throttle!OneOwner'
      <3>1. CASE p \in holds
        <4>1. lock' = Throttle!NoLock /\ ~raced /\ ~late => \A q \in Procs : place[q] # "rmdir"
          BY <3>1 DEF ThrottleInv, StaleInv
        <4> QED
          BY <2>1, <2>2, <2>5, <3>1, <4>1
          DEF ThrottleInv, StaleInv, OwnedInv, Throttle!OneOwner, Throttle!NoLock, Throttle!Future
      <3>2. CASE p \notin holds
        <4>1. holds' = holds /\ lock' = lock
          BY <2>1, <3>2
        <4> QED
          BY <1>1, <2>1, <2>2, <4>1
          DEF ThrottleInv, StaleInv, OwnedInv, Throttle!OneOwner, Throttle!NoLock, Throttle!Future
      <3> QED
        BY <3>1, <3>2
    <2> QED
      BY <2>3, <2>4, <2>6 DEF ThrottleInv
  <1>3. CASE Throttle!Crash(p)
    <2>1. /\ place' = [place EXCEPT ![p] = "off"] /\ holds' = holds \ {p}
          /\ open' = open \ {p} /\ crashed' = TRUE
          /\ beat' = [beat EXCEPT ![p] = 0]
          /\ UNCHANGED << now, lock, throttleFile, state, waiting, tracked, emitted,
                          sessions, raced, late, astray >>
      BY <1>3 DEF Throttle!Crash, Throttle!Goto
    <2>2. /\ place'[p] = "off"
          /\ \A q \in Procs : q # p => place'[q] = place[q] /\ beat'[q] = beat[q]
          /\ beat' \in [Procs -> Throttle!Times]
          /\ place' \in [Procs -> Throttle!Restoring \cup Throttle!Closing \cup { "off", "ready" }]
      BY <1>1, <2>1 DEF ThrottleInv, Throttle!TypeOK
    <2>3. Throttle!TypeOK'
      BY <1>1, <2>1, <2>2 DEF ThrottleInv, Throttle!TypeOK, Throttle!NoLock, Throttle!Future
    <2>4. HolderInv'
      BY <1>1, <2>1, <2>2 DEF ThrottleInv, HolderInv
    <2>5. StaleInv' /\ OwnedInv' /\ Throttle!OneOwner'
      BY <1>1, <2>1, <2>2 DEF ThrottleInv, StaleInv, OwnedInv, Throttle!OneOwner,
         Throttle!NoLock, Throttle!Future
    <2> QED
      BY <2>3, <2>4, <2>5 DEF ThrottleInv
  <1>4. CASE Throttle!Refresh(p)
    <2>1. /\ p \in holds /\ beat' = [beat EXCEPT ![p] = now]
          /\ lock' = IF lock = Throttle!NoLock THEN lock ELSE Throttle!Future
          /\ UNCHANGED << now, throttleFile, place, holds, open, state, waiting, tracked, emitted,
                          sessions, crashed, raced, late, astray >>
      BY <1>4 DEF Throttle!Refresh
    <2>2. /\ beat'[p] = now /\ \A q \in Procs : q # p => beat'[q] = beat[q]
          /\ beat' \in [Procs -> Throttle!Times]
      BY <1>1, <2>1 DEF ThrottleInv, Throttle!TypeOK
    <2>3. Throttle!TypeOK'
      BY <1>1, <2>1, <2>2 DEF ThrottleInv, Throttle!TypeOK, Throttle!NoLock, Throttle!Future
    <2>4. HolderInv'
      BY <1>1, <2>1, <2>2 DEF ThrottleInv, HolderInv
    <2>5. ~raced /\ ~late => lock # Throttle!NoLock /\ \A q \in holds : q = p
      BY <2>1 DEF ThrottleInv, Throttle!OneOwner
    <2>6. StaleInv' /\ OwnedInv' /\ Throttle!OneOwner'
      <3>1. ~raced /\ ~late => lock' = Throttle!Future /\ \A q \in Procs : place[q] # "rmdir"
        BY <2>1, <2>5 DEF ThrottleInv, StaleInv
      <3>2. lock' # Throttle!NoLock => lock # Throttle!NoLock
        BY <2>1
      <3>3. StaleInv'
        BY <2>1, <3>1 DEF StaleInv, Throttle!Future
      <3>4. Throttle!OneOwner'
        <4>1. Throttle!Future # Throttle!NoLock
          BY <1>1 DEF Throttle!NoLock, Throttle!Future, Throttle!ThrottleAssumption
        <4> QED
          BY <2>1, <2>5, <3>1, <4>1 DEF Throttle!OneOwner, Throttle!NoLock
      <3>5. OwnedInv'
        BY <2>1, <3>2 DEF ThrottleInv, OwnedInv, Throttle!NoLock
      <3> QED
        BY <3>3, <3>4, <3>5
    <2> QED
      BY <2>3, <2>4, <2>6 DEF ThrottleInv
  <1> QED
    BY <1>2, <1>3, <1>4

\* Time passes, and an interval may be late.
LEMMA TickInv ==
  ASSUME Throttle!ThrottleAssumption, ThrottleInv, Throttle!Tick
  PROVE  ThrottleInv'
  <1> USE DEF Throttle!events, Throttle!disk, Throttle!locking
  <1>1. /\ now' = now + 1 /\ now < MaxTime
        /\ late' = (late \/ \E p \in holds : Throttle!Due(p) /\ lock # Throttle!Future)
        /\ UNCHANGED << lock, throttleFile, place, holds, beat, open, state, waiting, tracked,
                        emitted, sessions, crashed, raced, astray >>
    BY DEF Throttle!Tick
  <1>2. /\ now' \in Throttle!Times /\ now \in Nat /\ \A p \in holds : beat[p] \in Nat
        /\ late \in BOOLEAN /\ StaleAfter \in Nat
    BY <1>1 DEF ThrottleInv, Throttle!TypeOK, Throttle!Times, Throttle!ThrottleAssumption
  <1>3. Throttle!TypeOK'
    BY <1>1, <1>2 DEF ThrottleInv, Throttle!TypeOK, Throttle!NoLock, Throttle!Future,
       Throttle!Times
  <1>4. HolderInv'
    BY <1>1, <1>2 DEF ThrottleInv, HolderInv
  <1>5. ~late' =>
          ~late /\ \A p \in holds : lock # Throttle!Future => 2 * (now' - beat[p]) <= StaleAfter
    <2>1. \A p \in holds : ~Throttle!Due(p) => 2 * (now' - beat[p]) <= StaleAfter
      BY <1>1, <1>2 DEF Throttle!Due
    <2> QED
      BY <1>1, <1>2, <2>1
  <1>6. StaleInv'
    <2>1. UNCHANGED << lock, place, holds, beat, raced >>
      BY <1>1
    <2> QED
      BY <1>5, <2>1 DEF ThrottleInv, StaleInv, Throttle!NoLock, Throttle!Future
  <1>7. OwnedInv' /\ Throttle!OneOwner'
    BY <1>1, <1>5 DEF ThrottleInv, OwnedInv, Throttle!OneOwner, Throttle!NoLock
  <1> QED
    BY <1>3, <1>4, <1>6, <1>7 DEF ThrottleInv

\* Every step preserves the inductive invariant.
LEMMA ThrottleNext ==
  Throttle!ThrottleAssumption /\ ThrottleInv /\ [Throttle!Next]_Throttle!vars => ThrottleInv'
  <1> SUFFICES ASSUME Throttle!ThrottleAssumption, ThrottleInv, [Throttle!Next]_Throttle!vars
               PROVE  ThrottleInv'
    OBVIOUS
  <1>1. CASE UNCHANGED Throttle!vars
    BY <1>1 DEF Throttle!vars, ThrottleInv, Throttle!TypeOK, HolderInv, StaleInv, OwnedInv,
       Throttle!OneOwner, Throttle!NoLock, Throttle!Future, Throttle!Times
  <1>2. ASSUME NEW p \in Procs,
               \/ Throttle!Start(p) \/ Throttle!Mkdir(p) \/ Throttle!Stat(p) \/ Throttle!Rmdir(p)
               \/ Throttle!Read(p) \/ Throttle!Track(p) \/ Throttle!FlushStarts(p)
               \/ Throttle!FlushWritten(p) \/ Throttle!Unlock(p) \/ Throttle!Flushed(p)
               \/ Throttle!Crash(p) \/ Throttle!Refresh(p)
        PROVE  ThrottleInv'
    BY <1>2, SessionInv, StatInv, MkdirInv, RmdirInv, OwnerInv
  <1>3. CASE Throttle!Tick
    BY <1>3, TickInv
  <1> QED
    BY <1>1, <1>2, <1>3 DEF Throttle!Next

\* The inductive invariant holds in every reachable state.
LEMMA ThrottleInvCorrect ==
  ASSUME Throttle!ThrottleAssumption
  PROVE  Throttle!Spec => []ThrottleInv
  <1>1. Throttle!Init => ThrottleInv
    BY ThrottleInit
  <1>2. ThrottleInv /\ [Throttle!Next]_Throttle!vars => ThrottleInv'
    BY ThrottleNext
  <1> QED
    BY <1>1, <1>2, PTL DEF Throttle!Spec

\* The variables of ThrottledAnalytics have their types; what is granted stays
\* within the rate.
THEOREM ThrottleTypeCorrect ==
  ASSUME Throttle!ThrottleAssumption
  PROVE  Throttle!Spec => []Throttle!TypeOK
  <1>1. ThrottleInv => Throttle!TypeOK
    BY DEF ThrottleInv
  <1> QED
    BY <1>1, ThrottleInvCorrect, PTL

\* For any number of shells, in sessions of any length: one session at a time
\* has the lock directory and it is there, unless two found the same lock stale
\* at the same time or an owner's first refresh was late; and sessions that end
\* by themselves take it with them, late or not (analytics-helpers.ts:137-202).
\* A lock's mtime, once refreshed, lies in the future.
THEOREM LockSoundCorrect ==
  ASSUME Throttle!ThrottleAssumption
  PROVE  Throttle!Spec => []LockSound
  <1>1. ThrottleInv => Throttle!LockFreed
    <2> SUFFICES ASSUME ThrottleInv, ~crashed, \A p \in Procs : place[p] = "off"
                 PROVE  lock = Throttle!NoLock
      BY DEF Throttle!LockFreed, Throttle!Alive
    <2>1. holds = {}
      BY DEF ThrottleInv, HolderInv, Throttle!TypeOK
    <2> QED
      BY <2>1 DEF ThrottleInv, OwnedInv
  <1>2. ThrottleInv => LockSound
    BY <1>1 DEF ThrottleInv, LockSound, Throttle!LockSound
  <1> QED
    BY <1>2, ThrottleInvCorrect, PTL

-----------------------------------------------------------------------------
(* The limit across sessions.                                              *)

\* The limit across sessions.  emitted[t] is what was sent before t; so the
\* end of it is what was sent at all.
Total == emitted[MaxTime + 1]

\* What was sent at t may still count for what is sent now.
Recent(t) == now - t <= Timeframe

\* Nothing was sent that may still count.
Silent == \A t \in Throttle!Times : Recent(t) => emitted[t] = Total

\* What a throttle state says of the events that still count: the timeframe
\* that it opened has those it counts, nothing was sent after that timeframe,
\* and the one before had no more than the rate.
Within(since, count) ==
  /\ \A t \in Throttle!Times : Recent(t) /\ t - since > Timeframe => emitted[t] = Total
  /\ \A t \in Throttle!Times : Recent(t) /\ t >= since => Total - emitted[t] <= count
  /\ \A t \in Throttle!Times : Recent(t) => Total - emitted[t] <= count + Rate

Allows(s) == Within(s.timestamp, s.count)

\* What a session that gets the lock finds: a state that allows what it says,
\* or none and silence.
Found == IF throttleFile \in Throttle!States THEN Allows(throttleFile) ELSE Silent

\* Events are counted, up to now.
SumsOK ==
  /\ \A t, u \in Throttle!Ends : t <= u => emitted[t] <= emitted[u]
  /\ \A t \in Throttle!Ends : t > now => emitted[t] = Total

\* Who reads the state or sends has the lock, who writes the state has it too,
\* and who removes a lock has found it stale.
PlacesOK ==
  /\ \A p \in Procs : place[p] = "read" => p \in holds
  /\ \A p \in open : /\ place[p] \in { "ready", "writing", "unlocking", "flushing" }
                     /\ place[p] # "flushing" => p \in holds
  /\ ~astray => \A p \in Procs : place[p] \in { "writing", "unlocking" } => p \in holds
  /\ ~raced /\ ~late => \A p \in Procs : place[p] = "rmdir" => Throttle!Stale(lock)

\* No stretch as long as a timeframe has more events than two allow.
LimitOK ==
  \A t, u \in Throttle!Times : u - t <= Timeframe => Throttle!SentBetween(t, u) <= 2 * Rate

\* Nothing was sent when the lock was stale already.
LockOK ==
  lock # Throttle!NoLock => \A t \in Throttle!Times : 2 * (t - lock) > StaleAfter => emitted[t] = Total

\* Where the state is that the next event is counted in.
StateOK ==
  /\ holds = {} /\ lock = Throttle!NoLock => Found
  /\ \A p \in holds : /\ place[p] = "read" => Found
                      /\ place[p] \in { "ready", "writing" } => Allows(state[p])
                      /\ place[p] = "unlocking" => throttleFile \in Throttle!States /\ Allows(throttleFile)

\* The inductive invariant of the limit, together with that of the lock.
RateInv ==
  /\ ThrottleInv /\ SumsOK /\ PlacesOK
  /\ ~raced /\ ~late /\ ~astray => LimitOK /\ LockOK /\ StateOK

\* The numbers in the variables.
LEMMA ThrottleNumbers ==
  ASSUME Throttle!ThrottleAssumption, Throttle!TypeOK
  PROVE  /\ MaxTime \in Nat /\ Rate \in Nat /\ Timeframe \in Nat /\ StaleAfter \in Nat
         /\ StaleAfter >= 2 * Timeframe
         /\ Throttle!Times = 0 .. MaxTime /\ Throttle!Ends = 0 .. MaxTime + 1
         /\ Throttle!NoLock = MaxTime + 1 /\ Throttle!Future = MaxTime + 2
         /\ now \in Throttle!Times /\ now \in Nat /\ lock \in Nat /\ Total \in Nat
         /\ \A t \in Throttle!Ends : emitted[t] \in Nat
         /\ \A t \in Throttle!Times : t \in Nat /\ t \in Throttle!Ends /\ t + 1 \in Throttle!Ends
         /\ \A s \in Throttle!States : /\ s.count \in 0 .. Rate /\ s.timestamp \in Throttle!Times
                                       /\ s.count \in Nat /\ s.timestamp \in Nat
         /\ Throttle!Torn \notin Throttle!States /\ Throttle!NoFile \notin Throttle!States
         /\ Throttle!Torn # Throttle!NoFile
         /\ throttleFile \in Throttle!States \cup { Throttle!NoFile, Throttle!Torn }
         /\ \A p \in Procs : state[p] \in Throttle!States
         /\ holds \subseteq Procs /\ open \subseteq Procs
  <1>1. /\ MaxTime \in Nat /\ Rate \in Nat /\ Timeframe \in Nat /\ StaleAfter \in Nat
        /\ StaleAfter >= 2 * Timeframe
        /\ Throttle!Times = 0 .. MaxTime /\ Throttle!Ends = 0 .. MaxTime + 1
        /\ Throttle!NoLock = MaxTime + 1 /\ Throttle!Future = MaxTime + 2
    BY DEF Throttle!ThrottleAssumption, Throttle!Times, Throttle!Ends, Throttle!NoLock,
       Throttle!Future
  <1>2. /\ now \in Throttle!Times /\ lock \in 0 .. Throttle!Future
        /\ throttleFile \in Throttle!States \cup { Throttle!NoFile, Throttle!Torn }
        /\ \A p \in Procs : state[p] \in Throttle!States
        /\ holds \subseteq Procs /\ open \subseteq Procs
        /\ \A t \in Throttle!Ends : emitted[t] \in Nat
    BY DEF Throttle!TypeOK
  <1>3. now \in Nat /\ lock \in Nat
    BY <1>1, <1>2
  <1>4. \A t \in Throttle!Times : t \in Nat /\ t \in Throttle!Ends /\ t + 1 \in Throttle!Ends
    BY <1>1
  <1>5. Total \in Nat
    <2>1. MaxTime + 1 \in Throttle!Ends
      BY <1>1
    <2> QED
      BY <1>2, <2>1 DEF Total
  <1>6. \A s \in Throttle!States : /\ s.count \in 0 .. Rate /\ s.timestamp \in Throttle!Times
                                   /\ s.count \in Nat /\ s.timestamp \in Nat
    BY <1>1 DEF Throttle!States
  <1>7. MaxTime + 1 \notin Throttle!Times /\ MaxTime + 2 \notin Throttle!Times /\ MaxTime + 1 # MaxTime + 2
    BY <1>1
  <1>8. /\ Throttle!Torn \notin Throttle!States /\ Throttle!NoFile \notin Throttle!States
        /\ Throttle!Torn # Throttle!NoFile
    <2>1. Throttle!Torn.timestamp = MaxTime + 2 /\ Throttle!NoFile.timestamp = MaxTime + 1
      BY DEF Throttle!Torn, Throttle!NoFile
    <2> QED
      BY <1>6, <1>7, <2>1
  <1> QED
    BY <1>1, <1>2, <1>3, <1>4, <1>5, <1>6, <1>8

\* As long as nothing is sent, what was sent is the same.
LEMMA RateStill ==
  ASSUME UNCHANGED << now, emitted >>
  PROVE  /\ SumsOK' = SumsOK /\ LimitOK' = LimitOK /\ Silent' = Silent
         /\ \A since, count : Within(since, count)' = Within(since, count)
  BY DEF SumsOK, LimitOK, Silent, Within, Total, Recent, Throttle!SentBetween,
     Throttle!Times, Throttle!Ends

\* In silence every throttle state allows what it says.
LEMMA SilentWithin ==
  ASSUME Throttle!ThrottleAssumption, Throttle!TypeOK, Silent, NEW s \in Throttle!States
  PROVE  Allows(s)
  <1>1. /\ s.count \in Nat /\ Rate \in Nat /\ Total \in Nat
    BY ThrottleNumbers
  <1>2. Total - Total = 0 /\ 0 <= s.count /\ 0 <= s.count + Rate
    BY <1>1
  <1> QED
    BY <1>2 DEF Silent, Allows, Within

\* A timeframe that is over makes room for a new one.
LEMMA WindowWithin ==
  ASSUME Throttle!ThrottleAssumption, Throttle!TypeOK, SumsOK, NEW s \in Throttle!States, Allows(s)
  PROVE  /\ Throttle!Window(s) \in Throttle!States /\ Allows(Throttle!Window(s))
         /\ now - Throttle!Window(s).timestamp <= Timeframe
  <1>1. /\ MaxTime \in Nat /\ Rate \in Nat /\ Timeframe \in Nat
        /\ now \in Throttle!Times /\ now \in Nat /\ Total \in Nat
        /\ \A t \in Throttle!Times : t \in Nat /\ t \in Throttle!Ends
        /\ s.count \in 0 .. Rate /\ s.count \in Nat /\ s.timestamp \in Nat
    BY ThrottleNumbers
  <1>2. CASE ~Throttle!Expired(s)
    <2>1. Throttle!Window(s) = s
      BY <1>2 DEF Throttle!Window
    <2>2. now - s.timestamp <= Timeframe
      BY <1>1, <1>2 DEF Throttle!Expired
    <2> QED
      BY <2>1, <2>2
  <1>3. CASE Throttle!Expired(s)
    <2>1. Throttle!Window(s) = [count |-> 0, timestamp |-> now]
      BY <1>3 DEF Throttle!Window
    <2>2. now - s.timestamp > Timeframe
      BY <1>3 DEF Throttle!Expired
    <2>3. \A t \in Throttle!Times : t > now => emitted[t] = Total
      BY <1>1 DEF SumsOK
    <2>4. emitted[now] = Total
      BY <1>1, <2>2 DEF Allows, Within, Recent
    <2>5. \A t \in Throttle!Times : t >= now => emitted[t] = Total
      BY <1>1, <2>3, <2>4
    <2>6. Within(now, 0)
      <3>1. ASSUME NEW t \in Throttle!Times, Recent(t), t - now > Timeframe
            PROVE  emitted[t] = Total
        BY <1>1, <2>5, <3>1
      <3>2. ASSUME NEW t \in Throttle!Times, Recent(t), t >= now
            PROVE  Total - emitted[t] <= 0
        BY <1>1, <2>5, <3>2
      <3>3. ASSUME NEW t \in Throttle!Times, Recent(t)
            PROVE  Total - emitted[t] <= 0 + Rate
        <4>1. t >= s.timestamp /\ t \in Throttle!Ends
          BY <1>1, <2>2, <3>3 DEF Recent
        <4>2. Total - emitted[t] <= s.count /\ emitted[t] \in Nat
          BY <3>3, <4>1, ThrottleNumbers DEF Allows, Within
        <4> QED
          BY <1>1, <4>2
      <3> QED
        BY <3>1, <3>2, <3>3 DEF Within
    <2>7. Throttle!Window(s) \in Throttle!States
      BY <1>1, <2>1 DEF Throttle!States
    <2>8. Throttle!Window(s).timestamp = now /\ Throttle!Window(s).count = 0
      BY <2>1
    <2>9. now - now <= Timeframe
      BY <1>1
    <2> QED
      BY <2>6, <2>7, <2>8, <2>9 DEF Allows
  <1> QED
    BY <1>2, <1>3

\* What is granted in a timeframe is counted there, and the limit is kept.
LEMMA GrantedWithin ==
  ASSUME Throttle!ThrottleAssumption, Throttle!TypeOK, SumsOK,
         NEW since \in Nat, NEW count \in Nat, Within(since, count), now - since <= Timeframe,
         NEW g \in Nat, count + g <= Rate, LimitOK, now' = now,
         emitted' = [t \in Throttle!Ends |-> emitted[t] + IF t > now THEN g ELSE 0]
  PROVE  Within(since, count + g)' /\ LimitOK'
  <1>1. /\ MaxTime \in Nat /\ Rate \in Nat /\ Timeframe \in Nat
        /\ Throttle!Times = 0 .. MaxTime /\ Throttle!Ends = 0 .. MaxTime + 1
        /\ now \in Throttle!Times /\ now \in Nat /\ Total \in Nat
        /\ \A t \in Throttle!Ends : emitted[t] \in Nat
        /\ \A t \in Throttle!Times : t \in Nat /\ t \in Throttle!Ends /\ t + 1 \in Throttle!Ends
    BY ThrottleNumbers
  <1>2. Total' = Total + g
    <2>1. MaxTime + 1 \in Throttle!Ends /\ MaxTime + 1 > now
      BY <1>1
    <2> QED
      BY <2>1 DEF Total
  <1>3. /\ \A t \in Throttle!Ends : t > now => emitted[t] = Total
        /\ \A t \in Throttle!Ends : emitted'[t] = IF t > now THEN Total + g ELSE emitted[t]
    <2>1. \A t \in Throttle!Ends : t > now => emitted[t] = Total
      BY DEF SumsOK
    <2>2. \A t \in Throttle!Ends : emitted[t] + 0 = emitted[t]
      BY <1>1
    <2> QED
      BY <2>1, <2>2
  <1>4. \A t : Recent(t)' <=> Recent(t)
    BY DEF Recent
  <1>5. Within(since, count + g)'
    <2>1. ASSUME NEW t \in Throttle!Times, Recent(t), t - since > Timeframe
          PROVE  emitted'[t] = Total'
      <3>1. t > now /\ t \in Throttle!Ends
        BY <1>1, <2>1
      <3> QED
        BY <1>2, <1>3, <3>1
    <2>2. ASSUME NEW t \in Throttle!Times, Recent(t), t >= since
          PROVE  Total' - emitted'[t] <= count + g
      <3>1. Total - emitted[t] <= count /\ emitted[t] \in Nat /\ t \in Throttle!Ends
        BY <1>1, <2>2 DEF Within
      <3> QED
        BY <1>1, <1>2, <1>3, <3>1
    <2>3. ASSUME NEW t \in Throttle!Times, Recent(t)
          PROVE  Total' - emitted'[t] <= count + g + Rate
      <3>1. Total - emitted[t] <= count + Rate /\ emitted[t] \in Nat /\ t \in Throttle!Ends
        BY <1>1, <2>3 DEF Within
      <3> QED
        BY <1>1, <1>2, <1>3, <3>1, SMTT(60)
    <2> QED
      BY <1>4, <2>1, <2>2, <2>3 DEF Within, Throttle!Times
  <1>6. LimitOK'
    <2> SUFFICES ASSUME NEW t \in Throttle!Times, NEW u \in Throttle!Times, u - t <= Timeframe
                 PROVE  emitted'[u + 1] - emitted'[t] <= 2 * Rate
      BY DEF LimitOK, Throttle!SentBetween, Throttle!Times
    <2>1. /\ t \in Nat /\ u \in Nat /\ t \in Throttle!Ends /\ u + 1 \in Throttle!Ends
          /\ emitted[t] \in Nat /\ emitted[u + 1] \in Nat
          /\ emitted[u + 1] - emitted[t] <= 2 * Rate
      BY <1>1 DEF LimitOK, Throttle!SentBetween
    <2>2. /\ emitted'[t] = IF t > now THEN Total + g ELSE emitted[t]
          /\ emitted'[u + 1] = IF u + 1 > now THEN Total + g ELSE emitted[u + 1]
          /\ t > now => emitted[t] = Total
          /\ u + 1 > now => emitted[u + 1] = Total
      BY <1>3, <2>1
    <2>3. CASE u + 1 > now /\ ~(t > now)
      <3>1. Recent(t)
        BY <1>1, <2>1, <2>3 DEF Recent
      <3>2. Total - emitted[t] <= count + Rate
        BY <3>1 DEF Within
      <3>3. emitted'[u + 1] - emitted'[t] = Total + g - emitted[t]
        <4>1. emitted'[u + 1] = Total + g
          BY <2>2, <2>3
        <4>2. emitted'[t] = emitted[t]
          BY <2>2, <2>3
        <4> QED
          BY <1>1, <2>1, <4>1, <4>2
      <3>4. Total + g - emitted[t] <= count + g + Rate
        BY <1>1, <2>1, <3>2, SMTT(60)
      <3> QED
        BY <1>1, <2>1, <3>3, <3>4, SMTT(60)
    <2>4. CASE ~(u + 1 > now /\ ~(t > now))
      BY <1>1, <2>1, <2>2, <2>4, SMTT(60)
    <2> QED
      BY <2>3, <2>4
  <1> QED
    BY <1>5, <1>6

\* Events that a session sends in a throttle state.
LEMMA SendWithin ==
  ASSUME Throttle!ThrottleAssumption, Throttle!TypeOK, SumsOK, NEW p \in Procs,
         NEW s \in Throttle!States, NEW n \in Nat, Throttle!Send(p, s, n), now' = now
  PROVE  /\ SumsOK'
         /\ Allows(s) /\ LimitOK => Allows(state[p])' /\ LimitOK'
         /\ \A q \in Procs : q # p => state'[q] = state[q]
  <1>1. /\ MaxTime \in Nat /\ Rate \in Nat
        /\ Throttle!Ends = 0 .. MaxTime + 1
        /\ now \in Throttle!Times /\ now \in Nat /\ Total \in Nat
        /\ \A t \in Throttle!Ends : emitted[t] \in Nat
        /\ MaxTime + 1 \in Throttle!Ends /\ MaxTime + 1 > now
    BY ThrottleNumbers, SMTT(60)
  <1>2. PICK w : w = Throttle!Window(s)
    OBVIOUS
  <1>3. w \in Throttle!States
    BY <1>1, <1>2 DEF Throttle!Window, Throttle!States
  <1>4. w.count \in 0 .. Rate /\ w.timestamp \in Nat
    BY <1>3, ThrottleNumbers
  <1>5. PICK g : g = Throttle!Granted(s, n)
    OBVIOUS
  <1>6. g \in Nat /\ w.count + g <= Rate /\ (n = 0 => g = 0)
    BY <1>1, <1>2, <1>4, <1>5 DEF Throttle!Granted
  <1>7. /\ emitted' = [t \in Throttle!Ends |-> emitted[t] + IF t > now THEN g ELSE 0]
        /\ state' = [state EXCEPT ![p] = IF n = 0 THEN s ELSE [w EXCEPT !.count = @ + g]]
    BY <1>2, <1>5 DEF Throttle!Send
  <1>8. SumsOK'
    <2>1. \A t \in Throttle!Ends : emitted'[t] = emitted[t] + IF t > now THEN g ELSE 0
      BY <1>7
    <2>2. \A t, u \in Throttle!Ends : t <= u => emitted[t] <= emitted[u]
      BY DEF SumsOK
    <2>3. \A t \in Throttle!Ends : t > now => emitted[t] = Total
      BY DEF SumsOK
    <2>4. ASSUME NEW t \in Throttle!Ends, NEW u \in Throttle!Ends, t <= u
          PROVE  emitted'[t] <= emitted'[u]
      <3>1. emitted[t] \in Nat /\ emitted[u] \in Nat /\ emitted[t] <= emitted[u] /\ t \in Nat /\ u \in Nat
        BY <1>1, <2>2, <2>4
      <3>2. t > now => u > now
        BY <1>1, <2>4, <3>1
      <3> QED
        BY <1>6, <2>1, <3>1, <3>2
    <2>5. Total' = Total + g
      BY <1>1, <2>1, <2>3 DEF Total
    <2>6. \A t \in Throttle!Ends : t > now => emitted'[t] = Total'
      BY <2>1, <2>3, <2>5
    <2> QED
      BY <2>4, <2>6 DEF SumsOK, Throttle!Ends
  <1>9. /\ state'[p] = IF n = 0 THEN s ELSE [w EXCEPT !.count = @ + g]
        /\ \A q \in Procs : q # p => state'[q] = state[q]
    BY <1>7 DEF Throttle!TypeOK
  <1>10. ASSUME Allows(s), LimitOK
         PROVE  Allows(state[p])' /\ LimitOK'
    <2>1. CASE n = 0
      <3>1. emitted' = emitted
        <4>1. emitted \in [Throttle!Ends -> Nat]
          BY DEF Throttle!TypeOK
        <4>2. \A t \in Throttle!Ends : emitted[t] + 0 = emitted[t]
          BY <1>1
        <4> QED
          BY <1>6, <1>7, <2>1, <4>1, <4>2
      <3>2. state'[p] = s
        BY <1>9, <2>1
      <3> QED
        BY <1>10, <3>1, <3>2, RateStill DEF Allows
    <2>2. CASE n # 0
      <3>1. /\ Within(w.timestamp, w.count) /\ now - w.timestamp <= Timeframe
        BY <1>2, <1>10, WindowWithin DEF Allows
      <3>2. state'[p] = [w EXCEPT !.count = @ + g]
        BY <1>9, <2>2
      <3>3. state'[p].timestamp = w.timestamp /\ state'[p].count = w.count + g
        BY <1>3, <3>2 DEF Throttle!States
      <3>4. PICK c \in Nat : c = w.count
        BY <1>1, <1>4
      <3>5. PICK since \in Nat : since = w.timestamp
        BY <1>4
      <3>6. Within(since, c + g)' /\ LimitOK'
        BY <1>6, <1>7, <1>10, <3>1, <3>4, <3>5, GrantedWithin
      <3> QED
        BY <3>3, <3>4, <3>5, <3>6 DEF Allows
    <2> QED
      BY <2>1, <2>2
  <1> QED
    BY <1>8, <1>9, <1>10

\* While a session in time has the lock, the lock is fresh, and nobody else has it.
LEMMA OwnerFresh ==
  ASSUME Throttle!ThrottleAssumption, ThrottleInv, ~raced, ~late, NEW p \in holds
  PROVE  /\ holds = { p } /\ p \in Procs /\ lock # Throttle!NoLock /\ 2 * (now - lock) <= StaleAfter
         /\ \A q \in Procs : place[q] # "rmdir"
  <1>1. holds \subseteq Procs /\ p \in Procs
    BY ThrottleNumbers DEF ThrottleInv
  <1>2. \A q \in holds : p = q
    BY DEF ThrottleInv, Throttle!OneOwner
  <1>3. holds = { p }
    BY <1>2
  <1>4. lock # Throttle!NoLock
    BY <1>3 DEF ThrottleInv, Throttle!OneOwner
  <1>5. \/ lock = Throttle!Future
        \/ lock >= beat[p] /\ 2 * (now - beat[p]) <= StaleAfter
    BY DEF ThrottleInv, StaleInv
  <1>6. beat[p] \in Nat /\ lock \in Nat /\ now \in Nat /\ StaleAfter \in Nat
        /\ now < Throttle!Future
    <2>1. beat[p] \in Throttle!Times
      BY <1>1 DEF ThrottleInv, Throttle!TypeOK
    <2> QED
      BY <2>1, ThrottleNumbers DEF ThrottleInv, Throttle!Future
  <1>7. 2 * (now - lock) <= StaleAfter
    BY <1>5, <1>6
  <1>8. \A q \in Procs : place[q] # "rmdir"
    BY DEF ThrottleInv, StaleInv
  <1> QED
    BY <1>1, <1>3, <1>4, <1>7, <1>8

\* A lock as of now, or of the future: nothing was sent later.
LEMMA LockOfNow ==
  ASSUME Throttle!ThrottleAssumption, Throttle!TypeOK, SumsOK, UNCHANGED << now, emitted >>,
         lock' \in Nat, lock' >= now
  PROVE  LockOK'
  <1>0. PICK mtime \in Nat : mtime = lock' /\ mtime >= now
    OBVIOUS
  <1>1. ASSUME NEW t \in Throttle!Times, 2 * (t - mtime) > StaleAfter
        PROVE  emitted[t] = Total
    <2>1. now \in Nat /\ t \in Nat /\ t \in Throttle!Ends /\ StaleAfter \in Nat
      BY ThrottleNumbers
    <2>2. t > mtime
      BY <1>1, <2>1
    <2>3. mtime >= now
      BY <1>0
    <2>4. t > now
      BY <2>1, <2>2, <2>3
    <2> QED
      BY <2>1, <2>4 DEF SumsOK
  <1> QED
    BY <1>0, <1>1 DEF LockOK, Total, Throttle!Times, Throttle!NoLock

\* Once a lock has gone stale, nothing that was sent still counts.
LEMMA StaleSilent ==
  ASSUME Throttle!ThrottleAssumption, Throttle!TypeOK, SumsOK, LockOK,
         lock # Throttle!NoLock, Throttle!Stale(lock)
  PROVE  Silent
  <1>1. /\ now \in Nat /\ lock \in Nat /\ StaleAfter \in Nat /\ Timeframe \in Nat /\ StaleAfter >= 2 * Timeframe
        /\ now - lock > StaleAfter
    BY ThrottleNumbers DEF Throttle!Stale
  <1>2. ASSUME NEW t \in Throttle!Times, now - t <= Timeframe
        PROVE  emitted[t] = Total
    <2>1. t \in Nat
      BY ThrottleNumbers
    <2>2. 2 * (t - lock) > StaleAfter
      BY <1>1, <1>2, <2>1
    <2> QED
      BY <2>2 DEF LockOK
  <1> QED
    BY <1>2 DEF Silent, Recent

\* What is found is the same as long as nothing is sent and the file stays.
LEMMA StillFound ==
  ASSUME UNCHANGED << now, emitted, throttleFile >>
  PROVE  Found' = Found
  <1>1. \A s : Allows(s)' = Allows(s)
    BY RateStill DEF Allows
  <1>2. Silent' = Silent
    BY RateStill
  <1>3. Throttle!States' = Throttle!States
    BY DEF Throttle!States, Throttle!Times
  <1>4. Allows(throttleFile)' = Allows(throttleFile)
    BY RateStill DEF Allows
  <1> QED
    BY <1>2, <1>3, <1>4 DEF Found

\* A step of one session that sends nothing and leaves the lock alone.
LEMMA RateElsewhere ==
  ASSUME Throttle!ThrottleAssumption, RateInv, ThrottleInv', NEW p \in Procs, NEW where,
         place' = [place EXCEPT ![p] = where],
         UNCHANGED << now, emitted, lock, holds >>,
         raced => raced', late => late', astray => astray',
         open' \subseteq open,
         p \in open' => /\ where \in { "ready", "writing", "unlocking", "flushing" }
                        /\ where # "flushing" => p \in holds,
         where = "read" => p \in holds,
         where = "rmdir" => Throttle!Stale(lock),
         where \in { "writing", "unlocking" } /\ ~astray' => p \in holds,
         \A q \in Procs : q # p => state'[q] = state[q],
         p \notin holds => throttleFile' = throttleFile \/ astray',
         p \in holds /\ ~raced' /\ ~late' /\ ~astray' =>
           /\ where = "read" => Found'
           /\ where \in { "ready", "writing" } => Allows(state[p])'
           /\ where = "unlocking" => throttleFile' \in Throttle!States /\ Allows(throttleFile)'
  PROVE  RateInv'
  <1>1. /\ ThrottleInv /\ Throttle!TypeOK /\ SumsOK /\ PlacesOK
        /\ ~raced /\ ~late /\ ~astray => LimitOK /\ LockOK /\ StateOK
    BY DEF RateInv, ThrottleInv
  <1>2. /\ place'[p] = where /\ \A q \in Procs : q # p => place'[q] = place[q]
        /\ holds \subseteq Procs /\ open \subseteq Procs
    BY <1>1 DEF Throttle!TypeOK
  <1>3. SumsOK' /\ (LimitOK => LimitOK')
    BY <1>1, RateStill
  <1>4. Throttle!Stale(lock)' = Throttle!Stale(lock) /\ Throttle!NoLock' = Throttle!NoLock
    BY DEF Throttle!Stale, Throttle!NoLock
  <1>5. PlacesOK'
    <2>1. \A q \in Procs : place'[q] = "read" => q \in holds
      BY <1>1, <1>2 DEF PlacesOK
    <2>2. \A q \in open' : /\ place'[q] \in { "ready", "writing", "unlocking", "flushing" }
                           /\ place'[q] # "flushing" => q \in holds
      BY <1>1, <1>2 DEF PlacesOK
    <2>3. ~astray' => \A q \in Procs : place'[q] \in { "writing", "unlocking" } => q \in holds
      BY <1>1, <1>2 DEF PlacesOK
    <2>4. ~raced' /\ ~late' => \A q \in Procs : place'[q] = "rmdir" => Throttle!Stale(lock)
      BY <1>1, <1>2 DEF PlacesOK
    <2> QED
      BY <1>4, <2>1, <2>2, <2>3, <2>4 DEF PlacesOK
  <1>6. ASSUME ~raced', ~late', ~astray'
        PROVE  LimitOK' /\ LockOK' /\ StateOK'
    <2>1. LimitOK /\ LockOK /\ StateOK /\ ~raced /\ ~late
      BY <1>1, <1>6
    <2>2. LockOK'
      BY <2>1 DEF LockOK, Total, Throttle!Times, Throttle!NoLock
    <2>3. holds = {} /\ lock = Throttle!NoLock => Found'
      BY <1>6, <2>1, StillFound DEF StateOK
    <2>4. ASSUME NEW q \in holds
          PROVE  /\ place'[q] = "read" => Found'
                 /\ place'[q] \in { "ready", "writing" } => Allows(state[q])'
                 /\ place'[q] = "unlocking" => throttleFile' \in Throttle!States /\ Allows(throttleFile)'
      <3>1. CASE q = p
        BY <1>2, <1>6, <3>1
      <3>2. CASE q # p
        <4>1. q \in Procs /\ p \notin holds
          BY <1>1, <1>2, <2>1, <3>2, OwnerFresh
        <4>2. place'[q] = place[q] /\ state'[q] = state[q] /\ throttleFile' = throttleFile
          BY <1>2, <1>6, <3>2, <4>1
        <4>3. Found' = Found /\ Allows(state[q])' = Allows(state[q]) /\ Allows(throttleFile)' = Allows(throttleFile)
          BY <4>2, RateStill, StillFound DEF Allows
        <4> QED
          BY <2>1, <4>2, <4>3 DEF StateOK
      <3> QED
        BY <3>1, <3>2
    <2> QED
      BY <1>3, <1>4, <2>1, <2>2, <2>3, <2>4 DEF StateOK, Throttle!States, Throttle!Times
  <1> QED
    BY <1>3, <1>5, <1>6 DEF RateInv

\* A session starts, finds the lock in use or stale, writes the state, or ends.
LEMMA RateSession ==
  ASSUME Throttle!ThrottleAssumption, RateInv, ThrottleInv', NEW p \in Procs,
         \/ Throttle!Start(p) \/ Throttle!Stat(p) \/ Throttle!FlushStarts(p)
         \/ Throttle!FlushWritten(p) \/ Throttle!Flushed(p)
  PROVE  RateInv'
  <1>1. /\ ThrottleInv /\ Throttle!TypeOK /\ SumsOK /\ PlacesOK /\ HolderInv
        /\ ~raced /\ ~late /\ ~astray => StateOK
    BY DEF RateInv, ThrottleInv
  <1> USE DEF Throttle!disk, Throttle!locking, Throttle!events
  <1>2. UNCHANGED << now, emitted, lock, holds >> /\ (astray => astray') /\ open' \subseteq open
    <2>1. UNCHANGED << now, emitted, lock, holds >> /\ open' \subseteq open
      BY DEF Throttle!Start, Throttle!Stat, Throttle!GiveUp, Throttle!FlushStarts,
         Throttle!FlushWritten,
         Throttle!Flushed
    <2>2. astray => astray'
      BY <1>1 DEF Throttle!Start, Throttle!Stat, Throttle!GiveUp, Throttle!FlushStarts,
         Throttle!FlushWritten,
         Throttle!Flushed, Throttle!TypeOK
    <2> QED
      BY <2>1, <2>2
  <1>3. (raced => raced') /\ (late => late')
    <2>1. raced => raced'
      BY DEF Throttle!Start, Throttle!Stat, Throttle!FlushStarts, Throttle!FlushWritten,
         Throttle!Flushed
    <2>2. UNCHANGED late
      BY DEF Throttle!Start, Throttle!Stat, Throttle!FlushStarts, Throttle!FlushWritten,
         Throttle!Flushed
    <2> QED
      BY <2>1, <2>2
  <1>4. Allows(state[p])' = Allows(state'[p])
    BY <1>2, RateStill DEF Allows
  <1>5. CASE Throttle!Start(p)
    <2>1. p \notin holds /\ p \notin open'
      BY <1>1, <1>5 DEF Throttle!Start, HolderInv
    <2>2. place' = [place EXCEPT ![p] = "mkdir"] /\ throttleFile' = throttleFile
      BY <1>5 DEF Throttle!Start, Throttle!Goto
    <2>3. \A q \in Procs : q # p => state'[q] = state[q]
      BY <1>1, <1>5 DEF Throttle!Start, Throttle!TypeOK
    <2> QED
      BY <1>2, <1>3, <2>1, <2>2, <2>3, RateElsewhere
  <1>6. CASE Throttle!Stat(p)
    <2>1. p \notin holds /\ p \notin open'
      BY <1>1, <1>2, <1>6 DEF Throttle!Stat, HolderInv, PlacesOK
    <2>2. PICK where \in { "rmdir", "ready" } :
            place' = [place EXCEPT ![p] = where] /\ (where = "rmdir" => Throttle!Stale(lock))
      BY <1>6 DEF Throttle!Stat, Throttle!GiveUp, Throttle!Goto
    <2>3. throttleFile' = throttleFile /\ state' = state
      BY <1>6 DEF Throttle!Stat, Throttle!GiveUp
    <2> QED
      BY <1>2, <1>3, <2>1, <2>2, <2>3, RateElsewhere
  <1>7. CASE Throttle!FlushStarts(p)
    <2>1. /\ place[p] = "ready" /\ place' = [place EXCEPT ![p] = "writing"] /\ throttleFile' = Throttle!Torn
          /\ (astray' <=> astray \/ p \notin holds) /\ UNCHANGED << open, state >>
      BY <1>7, <1>1 DEF Throttle!FlushStarts, Throttle!Goto, Throttle!TypeOK
    <2>2. p \in open' => p \in holds
      BY <1>1, <2>1 DEF PlacesOK
    <2>3. p \in holds /\ ~raced' /\ ~late' /\ ~astray' => Allows(state[p])'
      <3>1. Allows(state[p])' = Allows(state[p])
        BY <1>2, <2>1, RateStill DEF Allows
      <3> QED
        BY <1>1, <1>2, <1>3, <2>1, <3>1 DEF StateOK
    <2> QED
      BY <1>2, <1>3, <2>1, <2>2, <2>3, RateElsewhere
  <1>8. CASE Throttle!FlushWritten(p)
    <2>1. /\ place[p] = "writing" /\ place' = [place EXCEPT ![p] = "unlocking"] /\ throttleFile' = state[p]
          /\ UNCHANGED << open, state, astray >>
      BY <1>8 DEF Throttle!FlushWritten, Throttle!Goto
    <2>2. (~astray' => p \in holds) /\ (p \in open' => p \in holds)
      BY <1>1, <2>1 DEF PlacesOK
    <2>3. p \in holds /\ ~raced' /\ ~late' /\ ~astray' => throttleFile' \in Throttle!States /\ Allows(throttleFile)'
      <3>1. Allows(throttleFile)' = Allows(state[p])
        BY <1>2, <2>1, RateStill DEF Allows
      <3>2. state[p] \in Throttle!States
        BY <1>1, ThrottleNumbers
      <3> QED
        BY <1>1, <1>2, <1>3, <2>1, <3>1, <3>2 DEF StateOK
    <2> QED
      BY <1>2, <1>3, <2>1, <2>2, <2>3, RateElsewhere
  <1>9. CASE Throttle!Flushed(p)
    <2>1. /\ place[p] = "flushing" /\ place' = [place EXCEPT ![p] = "off"] /\ open' = open \ {p}
          /\ UNCHANGED << throttleFile, state >>
      BY <1>9 DEF Throttle!Flushed, Throttle!Goto
    <2>2. p \notin holds
      BY <1>1, <2>1 DEF HolderInv
    <2> QED
      BY <1>2, <1>3, <2>1, <2>2, RateElsewhere
  <1> QED
    BY <1>5, <1>6, <1>7, <1>8, <1>9

\* A session reads the state and sends what waits, or tracks an event.
LEMMA RateSending ==
  ASSUME Throttle!ThrottleAssumption, RateInv, ThrottleInv', NEW p \in Procs,
         Throttle!Read(p) \/ Throttle!Track(p)
  PROVE  RateInv'
  <1>1. /\ ThrottleInv /\ Throttle!TypeOK /\ SumsOK /\ PlacesOK /\ HolderInv
        /\ ~raced /\ ~late /\ ~astray => LimitOK /\ LockOK /\ StateOK
    BY DEF RateInv, ThrottleInv
  <1> USE DEF Throttle!disk, Throttle!locking, Throttle!events
  <1>2. UNCHANGED << now, throttleFile, lock, holds, raced, late >> /\ (astray => astray')
    BY DEF Throttle!Read, Throttle!GiveUp, Throttle!Track
  <1>3. \A q \in Procs : waiting[q] \in Nat
    BY <1>1 DEF Throttle!TypeOK, Throttle!ThrottleAssumption
  <1>4. /\ state[p] \in Throttle!States /\ holds \subseteq Procs /\ open \subseteq Procs
        /\ throttleFile \in Throttle!States \cup { Throttle!NoFile, Throttle!Torn }
        /\ Throttle!Torn \notin Throttle!States /\ Throttle!NoFile \notin Throttle!States
    BY <1>1, ThrottleNumbers
  <1>5. ASSUME NEW s \in Throttle!States, NEW n \in Nat, Throttle!Send(p, s, n),
               \/ place' = place
               \/ place[p] = "read" /\ place' = [place EXCEPT ![p] = "ready"],
               open' = open \cup {p}, place'[p] \in { "ready", "writing", "unlocking", "flushing" },
               place'[p] # "flushing" => p \in holds,
               ~raced /\ ~late /\ ~astray' => p \in holds /\ place'[p] = "ready" /\ Allows(s)
        PROVE  RateInv'
    <2>1. /\ SumsOK'
          /\ Allows(s) /\ LimitOK => Allows(state[p])' /\ LimitOK'
      BY <1>1, <1>2, <1>5, SendWithin
    <2>2. \A q \in Procs : q # p => place'[q] = place[q]
      BY <1>1, <1>5 DEF Throttle!TypeOK
    <2>3. PlacesOK'
      <3>1. Throttle!Stale(lock)' = Throttle!Stale(lock)
        BY <1>2 DEF Throttle!Stale
      <3>2. \A q \in Procs : place'[q] = "read" => q \in holds
        BY <1>1, <1>5, <2>2 DEF PlacesOK
      <3>3. \A q \in open' : /\ place'[q] \in { "ready", "writing", "unlocking", "flushing" }
                             /\ place'[q] # "flushing" => q \in holds
        BY <1>1, <1>4, <1>5, <2>2 DEF PlacesOK
      <3>4. ~astray' => \A q \in Procs : place'[q] \in { "writing", "unlocking" } => q \in holds
        BY <1>1, <1>2, <1>5, <2>2 DEF PlacesOK
      <3>5. ~raced /\ ~late => \A q \in Procs : place'[q] = "rmdir" => Throttle!Stale(lock)
        BY <1>1, <1>5, <2>2 DEF PlacesOK
      <3> QED
        BY <1>2, <3>1, <3>2, <3>3, <3>4, <3>5 DEF PlacesOK
    <2>4. ASSUME ~raced, ~late, ~astray'
          PROVE  LimitOK' /\ LockOK' /\ StateOK'
      <3>1. /\ LimitOK /\ p \in holds /\ place'[p] = "ready" /\ Allows(s)
        BY <1>1, <1>2, <1>5, <2>4
      <3>2. holds = { p } /\ lock # Throttle!NoLock /\ 2 * (now - lock) <= StaleAfter
        BY <1>1, <2>4, <3>1, OwnerFresh
      <3>3. LockOK'
        <4>1. ASSUME NEW t \in Throttle!Times, 2 * (t - lock) > StaleAfter
              PROVE  emitted'[t] = Total'
          <5>1. t \in Nat /\ t \in Throttle!Ends /\ now \in Nat /\ lock \in Nat /\ StaleAfter \in Nat
            BY <1>1, ThrottleNumbers
          <5>2. t > now
            BY <3>2, <4>1, <5>1
          <5> QED
            BY <1>2, <2>1, <5>1, <5>2 DEF SumsOK, Throttle!Ends
        <4> QED
          BY <1>2, <4>1 DEF LockOK, Throttle!Times, Throttle!NoLock
      <3>4. Allows(state[p])' /\ LimitOK'
        BY <2>1, <3>1
      <3>5. StateOK'
        BY <1>2, <3>1, <3>2, <3>4 DEF StateOK
      <3> QED
        BY <3>3, <3>4, <3>5
    <2> QED
      BY <1>2, <2>1, <2>3, <2>4 DEF RateInv
  <1>6. CASE Throttle!Read(p) /\ throttleFile = Throttle!Torn
    <2>1. /\ place[p] = "read" /\ place' = [place EXCEPT ![p] = "ready"]
          /\ UNCHANGED << open, state, emitted, astray >>
      BY <1>6 DEF Throttle!Read, Throttle!GiveUp, Throttle!Goto
    <2>2. p \in holds /\ p \notin open'
      BY <1>1, <2>1 DEF PlacesOK
    <2>3. ~raced' /\ ~late' /\ ~astray' => Allows(state[p])'
      <3> SUFFICES ASSUME ~raced, ~late, ~astray PROVE Allows(state[p])'
        BY <1>2, <2>1
      <3>1. Silent
        BY <1>1, <1>4, <1>6, <2>1, <2>2 DEF StateOK, Found
      <3>2. Allows(state[p])
        BY <1>1, <1>4, <3>1, SilentWithin
      <3>3. Allows(state[p])' = Allows(state[p])
        BY <1>2, <2>1, RateStill DEF Allows
      <3> QED
        BY <3>2, <3>3
    <2> QED
      BY <1>2, <2>1, <2>2, <2>3, RateElsewhere
  <1>7. CASE Throttle!Read(p) /\ throttleFile # Throttle!Torn
    <2>1. /\ place[p] = "read" /\ place' = [place EXCEPT ![p] = "ready"]
          /\ open' = open \cup {p} /\ Throttle!Send(p, Throttle!Restored(p), waiting[p]) /\ astray' = astray
      BY <1>7 DEF Throttle!Read, Throttle!Goto
    <2>2. place'[p] = "ready" /\ p \in holds
      BY <1>1, <2>1 DEF PlacesOK, Throttle!TypeOK
    <2>3. PICK s : s = Throttle!Restored(p)
      OBVIOUS
    <2>4. s \in Throttle!States
      BY <1>4, <1>7, <2>3 DEF Throttle!Restored
    <2>5. ASSUME ~raced, ~late, ~astray'
          PROVE  Allows(s)
      <3>1. Found
        BY <1>1, <2>1, <2>2, <2>5 DEF StateOK
      <3>2. CASE throttleFile = Throttle!NoFile
        <4>1. Silent /\ s = state[p]
          BY <1>4, <2>3, <3>1, <3>2 DEF Found, Throttle!Restored
        <4> QED
          BY <1>1, <1>4, <4>1, SilentWithin
      <3>3. CASE throttleFile # Throttle!NoFile
        BY <1>4, <1>7, <2>3, <3>1, <3>3 DEF Found, Throttle!Restored
      <3> QED
        BY <3>2, <3>3
    <2> QED
      BY <1>3, <1>5, <2>1, <2>2, <2>3, <2>4, <2>5
  <1>8. CASE Throttle!Track(p) /\ p \in open
    <2>1. /\ Throttle!Send(p, state[p], 1) /\ UNCHANGED << place, open >>
          /\ ~astray' => place[p] \notin Throttle!Closing
      BY <1>1, <1>8 DEF Throttle!Track
    <2>2. /\ place[p] \in { "ready", "writing", "unlocking", "flushing" }
          /\ place[p] # "flushing" => p \in holds
      BY <1>1, <1>8 DEF PlacesOK
    <2>3. ~raced /\ ~late /\ ~astray' => p \in holds /\ place[p] = "ready" /\ Allows(state[p])
      <3>1. ~astray' => place[p] = "ready" /\ p \in holds /\ ~astray
        BY <1>2, <2>1, <2>2 DEF Throttle!Closing
      <3> QED
        BY <1>1, <3>1 DEF StateOK
    <2>4. open' = open \cup {p} /\ 1 \in Nat /\ place' = place
      BY <1>8, <2>1
    <2>5. PICK s \in Throttle!States : s = state[p]
      BY <1>4
    <2>6. Throttle!Send(p, s, 1) /\ (~raced /\ ~late /\ ~astray' => p \in holds /\ place'[p] = "ready" /\ Allows(s))
      BY <2>1, <2>3, <2>4, <2>5
    <2> QED
      BY <1>5, <2>2, <2>4, <2>6
  <1>9. CASE Throttle!Track(p) /\ p \notin open
    <2>1. UNCHANGED << place, open, state, emitted, astray >>
      BY <1>9 DEF Throttle!Track
    <2>2. /\ SumsOK' /\ (LimitOK => LimitOK') /\ Found' = Found
          /\ \A s : Allows(s)' = Allows(s)
      BY <1>1, <1>2, <2>1, RateStill, StillFound DEF Allows
    <2>3. PlacesOK' /\ (LockOK => LockOK')
      BY <1>1, <1>2, <2>1 DEF PlacesOK, LockOK, Throttle!Stale, Total, Throttle!Times,
         Throttle!NoLock
    <2>4. \A q : Allows(state[q])' = Allows(state[q])
      BY <1>2, <2>1, RateStill DEF Allows
    <2>5. Allows(throttleFile)' = Allows(throttleFile)
      BY <1>2, <2>1, RateStill DEF Allows
    <2>6. StateOK => StateOK'
      BY <1>2, <2>1, <2>2, <2>4, <2>5 DEF StateOK, Throttle!NoLock, Throttle!States,
         Throttle!Times
    <2> QED
      BY <1>1, <1>2, <2>1, <2>2, <2>3, <2>6 DEF RateInv
  <1> QED
    BY <1>6, <1>7, <1>8, <1>9

\* A session takes the lock, or a stale one is removed.
LEMMA RateLocking ==
  ASSUME Throttle!ThrottleAssumption, RateInv, ThrottleInv', NEW p \in Procs,
         Throttle!Mkdir(p) \/ Throttle!Rmdir(p)
  PROVE  RateInv'
  <1>1. /\ ThrottleInv /\ Throttle!TypeOK /\ SumsOK /\ PlacesOK /\ HolderInv
        /\ ~raced /\ ~late /\ ~astray => LimitOK /\ LockOK /\ StateOK
    BY DEF RateInv, ThrottleInv
  <1> USE DEF Throttle!disk, Throttle!locking, Throttle!events
  <1>2. UNCHANGED << now, throttleFile, emitted, open, state, raced, late, astray >>
    BY DEF Throttle!Mkdir, Throttle!Rmdir, Throttle!GiveUp
  <1>3. p \notin open /\ p \notin holds /\ holds \subseteq Procs /\ open \subseteq Procs
    <2>1. place[p] \in { "mkdir", "rmdir" }
      BY DEF Throttle!Mkdir, Throttle!Rmdir
    <2> QED
      BY <1>1, <2>1, ThrottleNumbers DEF PlacesOK, HolderInv
  <1>4. SumsOK' /\ LimitOK' = LimitOK /\ Found' = Found
    BY <1>1, <1>2, RateStill, StillFound
  <1>5. CASE Throttle!Mkdir(p) /\ lock = Throttle!NoLock
    <2>1. lock' = now /\ holds' = holds \cup {p} /\ place' = [place EXCEPT ![p] = "read"]
      BY <1>5 DEF Throttle!Mkdir, Throttle!Goto
    <2>2. place'[p] = "read" /\ \A q \in Procs : q # p => place'[q] = place[q]
      BY <1>1, <2>1 DEF Throttle!TypeOK
    <2>3. ~raced /\ ~late => holds = {} /\ \A q \in Procs : place[q] # "rmdir"
      BY <1>1, <1>5 DEF ThrottleInv, Throttle!OneOwner, StaleInv
    <2>4. PlacesOK'
      BY <1>1, <1>2, <1>3, <2>1, <2>2, <2>3 DEF PlacesOK
    <2>5. LockOK'
      <3>1. lock' \in Nat /\ lock' >= now
        <4>1. now \in Nat
          BY <1>1, ThrottleNumbers
        <4> QED
          BY <2>1, <4>1
      <3> QED
        BY <1>1, <1>2, <3>1, LockOfNow
    <2>6. ~raced /\ ~late /\ StateOK => StateOK'
      BY <1>4, <1>5, <2>1, <2>2, <2>3 DEF StateOK
    <2> QED
      BY <1>1, <1>2, <1>4, <2>4, <2>5, <2>6 DEF RateInv
  <1>6. CASE Throttle!Mkdir(p) /\ lock # Throttle!NoLock
    <2>1. UNCHANGED << lock, holds >> /\ place' = [place EXCEPT ![p] = "stat"]
      BY <1>6 DEF Throttle!Mkdir, Throttle!Goto
    <2> QED
      BY <1>2, <1>3, <2>1, RateElsewhere
  <1>7. CASE Throttle!Rmdir(p) /\ lock # Throttle!NoLock
    <2>1. lock' = Throttle!NoLock /\ holds' = holds /\ place[p] = "rmdir" /\ place' = [place EXCEPT ![p] = "mkdir"]
      BY <1>7 DEF Throttle!Rmdir, Throttle!Goto
    <2>2. place'[p] = "mkdir" /\ \A q \in Procs : q # p => place'[q] = place[q]
      BY <1>1, <2>1 DEF Throttle!TypeOK
    <2>3. ~raced /\ ~late => holds = {} /\ \A q \in Procs : place[q] = "rmdir" => q = p
      BY <1>1, <2>1 DEF ThrottleInv, StaleInv
    <2>4. PlacesOK'
      BY <1>1, <1>2, <1>3, <2>1, <2>2, <2>3 DEF PlacesOK
    <2>5. ASSUME ~raced, ~late, ~astray
          PROVE  Found'
      <3>1. Silent
        BY <1>1, <1>7, <2>1, <2>5, StaleSilent DEF PlacesOK
      <3> QED
        BY <1>1, <1>4, <3>1, SilentWithin DEF Found
    <2>6. LockOK' /\ (~raced /\ ~late /\ ~astray => StateOK')
      BY <2>1, <2>3, <2>5 DEF LockOK, StateOK, Throttle!NoLock
    <2> QED
      BY <1>1, <1>2, <1>4, <2>4, <2>6 DEF RateInv
  <1>8. CASE Throttle!Rmdir(p) /\ lock = Throttle!NoLock
    <2>1. UNCHANGED << lock, holds >> /\ place' = [place EXCEPT ![p] = "ready"]
      BY <1>8 DEF Throttle!Rmdir, Throttle!GiveUp, Throttle!Goto
    <2> QED
      BY <1>2, <1>3, <2>1, RateElsewhere
  <1> QED
    BY <1>5, <1>6, <1>7, <1>8

\* A session returns the lock, dies, or touches the lock.
LEMMA RateOwner ==
  ASSUME Throttle!ThrottleAssumption, RateInv, ThrottleInv', NEW p \in Procs,
         Throttle!Unlock(p) \/ Throttle!Crash(p) \/ Throttle!Refresh(p)
  PROVE  RateInv'
  <1>1. /\ ThrottleInv /\ Throttle!TypeOK /\ SumsOK /\ PlacesOK /\ HolderInv
        /\ ~raced /\ ~late /\ ~astray => LimitOK /\ LockOK /\ StateOK
        /\ holds \subseteq Procs /\ open \subseteq Procs
    BY ThrottleNumbers DEF RateInv, ThrottleInv
  <1> USE DEF Throttle!disk, Throttle!events
  <1>2. UNCHANGED << now, throttleFile, emitted, state, raced, late, astray >>
    BY DEF Throttle!Unlock, Throttle!Crash, Throttle!Refresh
  <1>3. /\ SumsOK' /\ LimitOK' = LimitOK /\ Found' = Found
        /\ \A q : Allows(state[q])' = Allows(state[q])
        /\ Allows(throttleFile)' = Allows(throttleFile)
        /\ Throttle!States' = Throttle!States /\ Throttle!NoLock' = Throttle!NoLock
    <2>1. SumsOK' /\ LimitOK' = LimitOK /\ Found' = Found
      BY <1>1, <1>2, RateStill, StillFound
    <2>2. \A q : Allows(state[q])' = Allows(state[q])
      BY <1>2, RateStill DEF Allows
    <2>3. Allows(throttleFile)' = Allows(throttleFile)
      BY <1>2, RateStill DEF Allows
    <2>4. Throttle!States' = Throttle!States /\ Throttle!NoLock' = Throttle!NoLock
      BY DEF Throttle!States, Throttle!NoLock, Throttle!Times
    <2> QED
      BY <2>1, <2>2, <2>3, <2>4
  <1>4. CASE Throttle!Unlock(p)
    <2>1. /\ place[p] = "unlocking" /\ place' = [place EXCEPT ![p] = "flushing"] /\ open' = open
          /\ holds' = holds \ {p} /\ lock' = IF p \in holds THEN Throttle!NoLock ELSE lock
      BY <1>4 DEF Throttle!Unlock, Throttle!Goto
    <2>2. place'[p] = "flushing" /\ \A q \in Procs : q # p => place'[q] = place[q]
      BY <1>1, <2>1 DEF Throttle!TypeOK
    <2>3. ~raced /\ ~late /\ p \in holds => holds = {p} /\ \A q \in Procs : place[q] # "rmdir"
      BY <1>1, OwnerFresh
    <2>4. PlacesOK'
      <3>1. \A q \in Procs : place'[q] = "read" => q \in holds'
        BY <1>1, <2>1, <2>2 DEF PlacesOK
      <3>2. \A q \in open' : /\ place'[q] \in { "ready", "writing", "unlocking", "flushing" }
                             /\ place'[q] # "flushing" => q \in holds'
        BY <1>1, <2>1, <2>2 DEF PlacesOK
      <3>3. ~astray => \A q \in Procs : place'[q] \in { "writing", "unlocking" } => q \in holds'
        BY <1>1, <2>1, <2>2 DEF PlacesOK
      <3>4. ASSUME ~raced, ~late, NEW q \in Procs, place'[q] = "rmdir"
            PROVE  Throttle!Stale(lock)'
        <4>1. place[q] = "rmdir"
          BY <2>2, <3>4
        <4>2. p \notin holds
          BY <2>3, <3>4, <4>1
        <4>3. lock' = lock
          BY <2>1, <4>2
        <4>4. Throttle!Stale(lock)
          BY <1>1, <3>4, <4>1 DEF PlacesOK
        <4> QED
          BY <1>2, <4>3, <4>4 DEF Throttle!Stale
      <3> QED
        BY <1>2, <3>1, <3>2, <3>3, <3>4 DEF PlacesOK
    <2>5. ASSUME ~raced, ~late, ~astray
          PROVE  LockOK' /\ StateOK'
      <3>1. p \in holds
        BY <1>1, <2>1, <2>5 DEF PlacesOK
      <3>2. holds' = {} /\ lock' = Throttle!NoLock
        BY <2>1, <2>3, <2>5, <3>1
      <3>3. throttleFile \in Throttle!States /\ Allows(throttleFile)
        BY <1>1, <2>1, <2>5, <3>1 DEF StateOK
      <3>4. Found'
        BY <1>3, <3>3 DEF Found
      <3> QED
        BY <1>3, <3>2, <3>4 DEF LockOK, StateOK
    <2> QED
      BY <1>1, <1>2, <1>3, <2>4, <2>5 DEF RateInv
  <1>5. CASE Throttle!Crash(p)
    <2>1. /\ place' = [place EXCEPT ![p] = "off"] /\ open' = open \ {p}
          /\ holds' = holds \ {p} /\ lock' = lock
      BY <1>5 DEF Throttle!Crash, Throttle!Goto
    <2>2. place'[p] = "off" /\ \A q \in Procs : q # p => place'[q] = place[q]
      BY <1>1, <2>1 DEF Throttle!TypeOK
    <2>3. PlacesOK'
      BY <1>1, <1>2, <2>1, <2>2 DEF PlacesOK, Throttle!Stale
    <2>4. LockOK => LockOK'
      BY <1>2, <2>1 DEF LockOK, Total, Throttle!Times, Throttle!NoLock
    <2>5. ASSUME ~raced, ~late, ~astray
          PROVE  StateOK'
      <3>1. StateOK
        BY <1>1, <2>5
      <3>2. holds' = {} /\ lock = Throttle!NoLock => holds = {}
        <4>1. holds # {} => lock # Throttle!NoLock
          BY <1>1, <2>5 DEF ThrottleInv, Throttle!OneOwner
        <4> QED
          BY <4>1
      <3>3. \A q \in holds' : q \in holds /\ place'[q] = place[q]
        BY <1>1, <2>1, <2>2
      <3>4. holds' = {} /\ lock' = Throttle!NoLock => Found'
        BY <1>3, <2>1, <3>1, <3>2 DEF StateOK
      <3>5. ASSUME NEW q \in holds'
            PROVE  /\ place'[q] = "read" => Found'
                   /\ place'[q] \in { "ready", "writing" } => Allows(state[q])'
                   /\ place'[q] = "unlocking" => throttleFile' \in Throttle!States /\ Allows(throttleFile)'
        BY <1>2, <1>3, <3>1, <3>3 DEF StateOK
      <3> QED
        BY <1>3, <3>4, <3>5 DEF StateOK
    <2> QED
      BY <1>1, <1>2, <1>3, <2>3, <2>4, <2>5 DEF RateInv
  <1>6. CASE Throttle!Refresh(p)
    <2>1. /\ UNCHANGED << place, open, holds >> /\ p \in holds
          /\ lock' = IF lock = Throttle!NoLock THEN lock ELSE Throttle!Future
      BY <1>6 DEF Throttle!Refresh
    <2>2. ~raced /\ ~late => lock # Throttle!NoLock /\ \A q \in Procs : place[q] # "rmdir"
      BY <1>1, <2>1, OwnerFresh
    <2>3. PlacesOK'
      BY <1>1, <1>2, <2>1, <2>2 DEF PlacesOK
    <2>4. ~raced /\ ~late => LockOK'
      <3> SUFFICES ASSUME ~raced, ~late PROVE LockOK'
        OBVIOUS
      <3>1. lock' = Throttle!Future
        BY <2>1, <2>2
      <3>2. lock' \in Nat /\ lock' >= now
        <4>1. Throttle!Future = MaxTime + 2 /\ MaxTime \in Nat /\ now \in 0 .. MaxTime
          BY <1>1, ThrottleNumbers
        <4> QED
          BY <3>1, <4>1
      <3> QED
        BY <1>1, <1>2, <3>2, LockOfNow
    <2>5. StateOK => StateOK'
      <3> SUFFICES ASSUME StateOK PROVE StateOK'
        OBVIOUS
      <3>1. ASSUME NEW q \in holds'
            PROVE  /\ place'[q] = "read" => Found'
                   /\ place'[q] \in { "ready", "writing" } => Allows(state[q])'
                   /\ place'[q] = "unlocking" => throttleFile' \in Throttle!States /\ Allows(throttleFile)'
        BY <1>2, <1>3, <2>1 DEF StateOK
      <3>2. holds' # {}
        BY <2>1
      <3> QED
        BY <1>3, <3>1, <3>2 DEF StateOK
    <2> QED
      BY <1>1, <1>2, <1>3, <2>3, <2>4, <2>5 DEF RateInv
  <1> QED
    BY <1>4, <1>5, <1>6

\* Time passes, and what was sent counts no more than before.
LEMMA RateTick ==
  ASSUME Throttle!ThrottleAssumption, RateInv, ThrottleInv', Throttle!Tick
  PROVE  RateInv'
  <1>1. /\ ThrottleInv /\ Throttle!TypeOK /\ SumsOK /\ PlacesOK
        /\ ~raced /\ ~late /\ ~astray => LimitOK /\ LockOK /\ StateOK
    BY DEF RateInv, ThrottleInv
  <1> USE DEF Throttle!disk, Throttle!events, Throttle!locking
  <1>2. /\ UNCHANGED << lock, throttleFile, place, holds, open, state, emitted, raced, astray >>
        /\ now' = now + 1 /\ (late => late')
    BY DEF Throttle!Tick
  <1>3. /\ now \in Nat /\ lock \in Nat /\ Timeframe \in Nat /\ StaleAfter \in Nat
        /\ \A t \in Throttle!Times : t \in Nat
        /\ \A t \in Throttle!Ends : t \in Nat
    <2>1. \A t \in Throttle!Ends : t \in Nat
      BY <1>1, ThrottleNumbers
    <2> QED
      BY <1>1, <2>1, ThrottleNumbers
  <1>4. Total' = Total /\ \A t \in Throttle!Times : Recent(t)' => Recent(t)
    BY <1>2, <1>3 DEF Total, Recent
  <1>5. SumsOK'
    <2>1. \A t \in Throttle!Ends : t > now + 1 => t > now
      BY <1>3
    <2> QED
      BY <1>1, <1>2, <1>4, <2>1 DEF SumsOK, Throttle!Ends
  <1>6. LimitOK => LimitOK'
    BY <1>2 DEF LimitOK, Throttle!SentBetween, Throttle!Times
  <1>7. \A since, count : Within(since, count) => Within(since, count)'
    BY <1>2, <1>4 DEF Within, Throttle!Times
  <1>8. Silent => Silent'
    BY <1>2, <1>4 DEF Silent, Throttle!Times
  <1>9. LockOK => LockOK'
    BY <1>2, <1>4 DEF LockOK, Throttle!Times, Throttle!NoLock
  <1>10. \A q : Allows(state[q]) => Allows(state[q])'
    BY <1>2, <1>7 DEF Allows
  <1>11. Allows(throttleFile) => Allows(throttleFile)'
    BY <1>2, <1>7 DEF Allows
  <1>12. Throttle!States' = Throttle!States /\ Throttle!NoLock' = Throttle!NoLock
    BY DEF Throttle!States, Throttle!NoLock, Throttle!Times
  <1>13. Found => Found'
    BY <1>2, <1>8, <1>11, <1>12 DEF Found
  <1>14. StateOK => StateOK'
    BY <1>2, <1>10, <1>11, <1>12, <1>13 DEF StateOK
  <1>15. PlacesOK'
    <2>1. Throttle!Stale(lock) => Throttle!Stale(lock)'
      BY <1>2, <1>3 DEF Throttle!Stale
    <2> QED
      BY <1>1, <1>2, <2>1 DEF PlacesOK
  <1> QED
    BY <1>1, <1>2, <1>5, <1>6, <1>9, <1>14, <1>15 DEF RateInv

\* Every step preserves the invariant of the limit.
LEMMA RateNext ==
  ASSUME Throttle!ThrottleAssumption, RateInv, [Throttle!Next]_Throttle!vars
  PROVE  RateInv'
  <1>1. ThrottleInv'
    BY ThrottleNext DEF RateInv
  <1>2. CASE UNCHANGED Throttle!vars
    <2>1. UNCHANGED << now, lock, throttleFile, place, holds, open, state, emitted, raced, late,
                     astray >>
      BY <1>2 DEF Throttle!vars
    <2>2. /\ SumsOK' = SumsOK /\ LimitOK' = LimitOK /\ Found' = Found
      BY <2>1, RateStill, StillFound
    <2>3. PlacesOK' = PlacesOK /\ LockOK' = LockOK
      BY <2>1 DEF PlacesOK, LockOK, Throttle!Stale, Total, Throttle!Times, Throttle!NoLock
    <2>4. \A q : Allows(state[q])' = Allows(state[q])
      BY <2>1, RateStill DEF Allows
    <2>5. Allows(throttleFile)' = Allows(throttleFile)
      BY <2>1, RateStill DEF Allows
    <2>6. StateOK => StateOK'
      BY <2>1, <2>2, <2>4, <2>5 DEF StateOK, Throttle!NoLock, Throttle!States, Throttle!Times
    <2> QED
      BY <1>1, <2>1, <2>2, <2>3, <2>6 DEF RateInv
  <1>3. ASSUME NEW p \in Procs,
               \/ Throttle!Start(p) \/ Throttle!Mkdir(p) \/ Throttle!Stat(p) \/ Throttle!Rmdir(p)
               \/ Throttle!Read(p) \/ Throttle!Track(p) \/ Throttle!FlushStarts(p)
               \/ Throttle!FlushWritten(p) \/ Throttle!Unlock(p) \/ Throttle!Flushed(p)
               \/ Throttle!Crash(p) \/ Throttle!Refresh(p)
        PROVE  RateInv'
    BY <1>1, <1>3, RateSession, RateSending, RateLocking, RateOwner
  <1>4. CASE Throttle!Tick
    BY <1>1, <1>4, RateTick
  <1> QED
    BY <1>2, <1>3, <1>4 DEF Throttle!Next

\* On a device where no shell has run yet nothing was sent.
LEMMA RateInit ==
  ASSUME Throttle!ThrottleAssumption, Throttle!Init
  PROVE  RateInv
  <1>1. ThrottleInv
    BY ThrottleInit
  <1>2. /\ throttleFile = Throttle!NoFile /\ holds = {} /\ open = {} /\ lock = Throttle!NoLock
        /\ \A p \in Procs : place[p] = "off"
    BY DEF Throttle!Init
  <1>3. /\ \A t \in Throttle!Ends : emitted[t] = 0
        /\ Rate \in Nat /\ Throttle!NoFile \notin Throttle!States
        /\ \A t \in Throttle!Times : t \in Throttle!Ends /\ t + 1 \in Throttle!Ends
    BY <1>1, ThrottleNumbers DEF Throttle!Init, ThrottleInv
  <1>4. Total = 0
    <2>1. MaxTime + 1 \in Throttle!Ends
      BY DEF Throttle!Ends, Throttle!ThrottleAssumption
    <2> QED
      BY <1>3, <2>1 DEF Total
  <1>5. SumsOK /\ Silent
    BY <1>3, <1>4 DEF SumsOK, Silent
  <1>6. LimitOK
    <2>1. 0 - 0 <= 2 * Rate
      BY <1>3
    <2> QED
      BY <1>3, <2>1 DEF LimitOK, Throttle!SentBetween
  <1>7. PlacesOK /\ LockOK /\ StateOK
    BY <1>2, <1>3, <1>5 DEF PlacesOK, LockOK, StateOK, Found
  <1> QED
    BY <1>1, <1>5, <1>6, <1>7 DEF RateInv

\* For any number of shells, sessions and events: in no stretch of time as
\* long as a timeframe are more events sent than two timeframes allow, whatever
\* sessions start, end or die in it, as long as no two shells found the same
\* lock stale, no owner's first refresh was late, and nobody wrote the state
\* without the lock or sent after it.
THEOREM RateLimitCorrect ==
  ASSUME Throttle!ThrottleAssumption
  PROVE  Throttle!Spec => []RateLimit
  <1>1. Throttle!Init => RateInv
    BY RateInit
  <1>2. RateInv /\ [Throttle!Next]_Throttle!vars => RateInv'
    BY RateNext
  <1>3. RateInv => RateLimit
    BY DEF RateInv, LimitOK, RateLimit, Throttle!RateLimit
  <1> QED
    BY <1>1, <1>2, <1>3, PTL DEF Throttle!Spec

-----------------------------------------------------------------------------
(* The client that sends what the throttle has let through.                *)

\* What was tracked and is not settled is pending.
PendingInv == \A e \in Events : e \in pending <=> event[e] \notin {"new", "settled"}

\* A flush has collected what was tracked before it, unless it was settled;
\* once it is over the signal is aborted.
FlushInv ==
  \A f \in Flushes :
    /\ flush[f].at = "waiting" =>
         \A e \in earlier[f] : e \in flush[f].waits \/ event[e] = "settled"
    /\ flush[f].at \in {"done", "timed out"} => aborted

\* The inductive invariant of TelemetryClient.
ClientInv == Client!TypeOK /\ PendingInv /\ FlushInv /\ Client!FlushComplete

\* Nothing was tracked yet.
LEMMA ClientInit == Client!Init => ClientInv
  <1> SUFFICES ASSUME Client!Init PROVE ClientInv
    OBVIOUS
  <1> USE DEF Client!Init
  <1>1. Client!TypeOK
    <2>1. flush \in [Flushes -> [at : {"idle", "waiting", "done", "timed out"},
                                waits : SUBSET Events]]
      OBVIOUS
    <2> QED
      BY <2>1 DEF Client!TypeOK
  <1>2. PendingInv
    BY DEF PendingInv
  <1>3. FlushInv /\ Client!FlushComplete
    BY DEF FlushInv, Client!FlushComplete
  <1> QED
    BY <1>1, <1>2, <1>3 DEF ClientInv

\* An event gets further.
LEMMA EventInv ==
  ASSUME ClientInv, NEW e \in Events,
         Client!Track(e) \/ Client!Compressed(e) \/ Client!Ends(e) \/ Client!Settle(e)
  PROVE  ClientInv'
  <1>1. UNCHANGED << aborted, flush, earlier >> /\ event[e] # "settled"
    BY DEF Client!Track, Client!Compressed, Client!Ends, Client!Settle
  <1>2. PICK how \in {"compressing", "requested", "ended", "settled"} :
          /\ event' = [event EXCEPT ![e] = how]
          /\ pending' = IF how = "settled" THEN pending \ {e} ELSE pending \cup {e}
    BY DEF Client!Track, Client!Compressed, Client!Ends, Client!Settle, ClientInv, PendingInv
  <1>3. event'[e] = how /\ \A d \in Events : d # e => event'[d] = event[d]
    BY <1>2 DEF ClientInv, Client!TypeOK
  <1>4. Client!TypeOK'
    BY <1>1, <1>2 DEF ClientInv, Client!TypeOK
  <1>5. PendingInv'
    BY <1>2, <1>3 DEF ClientInv, PendingInv
  <1>6. \A d \in Events : event[d] = "settled" => event'[d] = "settled"
    BY <1>1, <1>3
  <1>7. FlushInv' /\ Client!FlushComplete'
    BY <1>1, <1>6 DEF ClientInv, Client!TypeOK, FlushInv, Client!FlushComplete
  <1> QED
    BY <1>4, <1>5, <1>7 DEF ClientInv

\* A flush begins, or ends.
LEMMA FlushStepInv ==
  ASSUME ClientInv, NEW f \in Flushes, Client!Flush(f) \/ Client!FlushEnds(f)
  PROVE  ClientInv'
  <1>1. UNCHANGED << event, pending >> /\ (aborted => aborted') /\ aborted' \in BOOLEAN
    BY DEF Client!Flush, Client!FlushEnds, ClientInv, Client!TypeOK
  <1>2. CASE Client!Flush(f)
    <2> DEFINE before == {e \in Events : event[e] # "new"}
               how == IF pending = {} THEN "done" ELSE "waiting"
    <2>8. how \in {"done", "waiting"} /\ (how = "done" <=> pending = {})
      OBVIOUS
    <2>1. /\ earlier' = [earlier EXCEPT ![f] = before]
          /\ flush' = [flush EXCEPT ![f] = [at |-> how, waits |-> pending]]
          /\ aborted' = (aborted \/ pending = {})
      BY <1>2 DEF Client!Flush, Client!Collected
    <2> HIDE DEF how
    <2>2. /\ earlier'[f] = before /\ flush'[f].at = how /\ flush'[f].waits = pending
          /\ \A g \in Flushes : g # f => earlier'[g] = earlier[g] /\ flush'[g] = flush[g]
      BY <2>1 DEF ClientInv, Client!TypeOK
    <2>3. \A e \in before : e \in pending \/ event[e] = "settled"
      BY DEF ClientInv, PendingInv
    <2>4. Client!TypeOK'
      BY <1>1, <2>1, <2>8 DEF ClientInv, Client!TypeOK
    <2>5. /\ flush'[f].at \in {"done", "waiting"} /\ flush'[f].waits = pending
          /\ flush'[f].at = "done" => pending = {} /\ aborted'
      BY <2>1, <2>2, <2>8
    <2>6. FlushInv'
      BY <1>1, <2>2, <2>3, <2>5 DEF ClientInv, FlushInv
    <2>7. Client!FlushComplete'
      <3> SUFFICES ASSUME NEW g \in Flushes, flush'[g].at = "done", NEW e \in earlier'[g]
                   PROVE  event[e] = "settled"
        BY <1>1 DEF Client!FlushComplete
      <3>1. CASE g = f
        BY <2>2, <2>3, <2>5, <3>1
      <3>2. CASE g # f
        BY <2>2, <3>2 DEF ClientInv, Client!FlushComplete
      <3> QED
        BY <3>1, <3>2
    <2> QED
      BY <1>1, <2>4, <2>6, <2>7 DEF ClientInv, PendingInv
  <1>3. CASE Client!FlushEnds(f)
    <2>1. flush[f] \in [at : {"idle", "waiting", "done", "timed out"}, waits : SUBSET Events]
      BY DEF ClientInv, Client!TypeOK
    <2>2. PICK how \in {"done", "timed out"} :
            /\ flush' = [flush EXCEPT ![f].at = how] /\ earlier' = earlier /\ aborted'
            /\ how = "done" => \A e \in flush[f].waits : event[e] = "settled"
      BY <1>3 DEF Client!FlushEnds
    <2>3. /\ flush'[f].at = how /\ flush'[f].waits = flush[f].waits /\ flush[f].at = "waiting"
          /\ \A g \in Flushes : g # f => flush'[g] = flush[g]
      BY <1>3, <2>1, <2>2 DEF Client!FlushEnds, ClientInv, Client!TypeOK
    <2>4. flush' \in [Flushes -> [at : {"idle", "waiting", "done", "timed out"},
                                  waits : SUBSET Events]]
      BY <2>1, <2>2 DEF ClientInv, Client!TypeOK
    <2>5. Client!TypeOK'
      BY <1>1, <2>2, <2>4 DEF ClientInv, Client!TypeOK
    <2>6. FlushInv'
      <3>1. /\ flush'[f].at = how /\ how # "waiting"
            /\ \A g \in Flushes : g # f =>
                 flush'[g].at = flush[g].at /\ flush'[g].waits = flush[g].waits
        BY <2>2, <2>3
      <3> QED
        BY <1>1, <2>2, <3>1 DEF ClientInv, FlushInv
    <2>7. how = "done" => \A e \in earlier[f] : event[e] = "settled"
      BY <2>2, <2>3 DEF ClientInv, FlushInv
    <2>8. Client!FlushComplete'
      <3> SUFFICES ASSUME NEW g \in Flushes, flush'[g].at = "done", NEW e \in earlier[g]
                   PROVE  event[e] = "settled"
        BY <1>1, <2>2 DEF Client!FlushComplete
      <3>1. CASE g = f
        BY <2>3, <2>7, <3>1
      <3>2. CASE g # f
        BY <2>3, <3>2 DEF ClientInv, Client!FlushComplete
      <3> QED
        BY <3>1, <3>2
    <2> QED
      BY <1>1, <2>5, <2>6, <2>8 DEF ClientInv, PendingInv
  <1> QED
    BY <1>2, <1>3

\* Every step preserves the inductive invariant.
LEMMA ClientNext == ClientInv /\ [Client!Next]_Client!vars => ClientInv'
  <1> SUFFICES ASSUME ClientInv, [Client!Next]_Client!vars PROVE ClientInv'
    OBVIOUS
  <1>1. CASE UNCHANGED Client!vars
    BY <1>1 DEF Client!vars, ClientInv, Client!TypeOK, PendingInv, FlushInv,
       Client!FlushComplete
  <1>2. CASE Client!Next
    BY <1>2, EventInv, FlushStepInv DEF Client!Next
  <1> QED
    BY <1>1, <1>2

\* Once the signal is aborted no request is started.
LEMMA QuietStep ==
  ASSUME ClientInv, [Client!Next]_Client!vars,
         \E f \in Flushes : flush[f].at \in {"done", "timed out"}
  PROVE  \A e \in Events : event'[e] = "requested" => event[e] = "requested"
  <1>1. aborted
    BY DEF ClientInv, FlushInv
  <1>2. ASSUME NEW e \in Events,
               Client!Track(e) \/ Client!Compressed(e) \/ Client!Ends(e) \/ Client!Settle(e)
        PROVE  \A d \in Events : event'[d] = "requested" => event[d] = "requested"
    BY <1>1, <1>2 DEF Client!Track, Client!Compressed, Client!Ends, Client!Settle, ClientInv,
       Client!TypeOK
  <1>3. ASSUME UNCHANGED event
        PROVE  \A d \in Events : event'[d] = "requested" => event[d] = "requested"
    BY <1>3
  <1> QED
    BY <1>2, <1>3 DEF Client!Next, Client!vars, Client!Flush, Client!FlushEnds

\* The variables of TelemetryClient have their types.
THEOREM ClientTypeCorrect == Client!Spec => []Client!TypeOK
  <1>1. ClientInv => Client!TypeOK
    BY DEF ClientInv
  <1> QED
    BY <1>1, ClientInit, ClientNext, PTL DEF Client!Spec

\* What flush() promises to the shell that is about to end, for any number of
\* events and of flushes that overlap: if it did not time out, nothing is left
\* of what was tracked before; and no request is started after it
\* (telemetry-client.ts:75-102).
THEOREM FlushFinalCorrect == Client!Spec => FlushFinal
  <1>1. ClientInv => Client!FlushComplete
    BY DEF ClientInv
  <1>2. ClientInv /\ [Client!Next]_Client!vars =>
          [(\E f \in Flushes : flush[f].at \in {"done", "timed out"}) =>
             \A e \in Events : event'[e] = "requested" => event[e] = "requested"]_Client!vars
    BY QuietStep
  <1> QED
    BY <1>1, <1>2, ClientInit, ClientNext, PTL
    DEF Client!Spec, FlushFinal, Client!FlushFinal, Client!QuietAfterFlush
=============================================================================
