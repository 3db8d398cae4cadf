--------------------------- MODULE SnippetPackages ---------------------------
(***************************************************************************)
(* Installing snippets: editPackageJSON(), runNpm(), runInstallLikeCmd()   *)
(* and loadAllSnippets() of the snippet manager.                           *)
(*                                                                         *)
(* package.json is read, changed, truncated and written, in steps, by the  *)
(* starting shell, by prepareNpm(), twice by every command, and by npm.    *)
(* Commands overlap when the shell has given up waiting for one that was   *)
(* interrupted.  The files survive the session, which may end at any time. *)
(***************************************************************************)
EXTENDS FiniteSets

CONSTANTS
  Tasks,     \* commands that can be under way at the same time
  Snippets   \* names of snippets

VARIABLES
  pkg,      \* package.json: the names among its dependencies, Absent or Torn
  modules,  \* the snippets in node_modules
  boot,     \* where loadAllSnippets() at the start of the session is
  setUp,    \* ensureSetup() has npm and the index
  at,       \* where each command is
  kind,     \* what it does
  name,     \* to which snippet
  edit,     \* where each call of editPackageJSON() is
  copy,     \* the dependencies it is about to write
  disturbed \* history: npm or a write failed, a session ended amid a command,
            \* or two commands overlapped

vars == << pkg, modules, boot, setUp, at, kind, name, edit, copy, disturbed >>
files == << pkg, modules >>

Absent   == {"absent"}
Torn     == {"torn"}
Names    == Snippets \cup {"npm"}
Starting == "starting shell"
Editors  == Tasks \cup {Starting}
Kinds    == {"install", "uninstall", "update", "ls"}

\* Assumed by the modules that use this one: names are told apart.
PackagesAssumption ==
  /\ Snippets # {} /\ Starting \notin Tasks
  /\ "npm" \notin Snippets /\ {"absent", "torn"} \cap Snippets = {}

TypeOK ==
  /\ pkg \in {Absent, Torn} \cup SUBSET Names /\ modules \subseteq Snippets
  /\ boot \in {"read", "load", "ready", "failed"} /\ setUp \in BOOLEAN
  /\ at \in [Tasks -> {"idle", "setup", "download", "prepared", "change", "ensure", "npm", "load"}]
  /\ kind \in [Tasks -> Kinds] /\ name \in [Tasks -> Snippets]
  /\ edit \in [Editors -> {"none", "read", "truncate", "write"}]
  /\ copy \in [Editors -> SUBSET Names] /\ disturbed \in BOOLEAN

SomeName == CHOOSE n \in Snippets : TRUE
Alone(e) == [d \in Editors |-> IF d = e THEN "read" ELSE "none"]

Init ==
  /\ pkg = Absent /\ modules = {}
  /\ boot = "read" /\ setUp = FALSE
  /\ at = [t \in Tasks |-> "idle"]
  /\ kind = [t \in Tasks |-> "ls"] /\ name = [t \in Tasks |-> SomeName]
  /\ edit = Alone(Starting)
  /\ copy = [e \in Editors |-> {}] /\ disturbed = FALSE

Goto(t, where) == at' = [at EXCEPT ![t] = where]
Edits(e, where) == edit' = [edit EXCEPT ![e] = where]

\* A command is over, by itself or by an error.
Done(t) ==
  /\ Goto(t, "idle")
  /\ kind' = [kind EXCEPT ![t] = "ls"] /\ name' = [name EXCEPT ![t] = SomeName]

-----------------------------------------------------------------------------
(* editPackageJSON().                                                      *)

\* What the function passed to it makes of the dependencies: an uninstalled
\* snippet is removed, an installed or updated one added.
Changed(e, deps) ==
  CASE e = Starting -> deps
    [] e \in Tasks /\ at[e] = "download" -> deps \cup {"npm"}
    [] e \in Tasks /\ at[e] = "change" ->
         IF kind[e] = "uninstall" THEN deps \ {name[e]} ELSE deps \cup {name[e]}
    [] OTHER -> deps

\* An error in it fails a command, but not the start of the session.
EditFails(e) ==
  /\ Edits(e, "none") /\ copy' = [copy EXCEPT ![e] = {}]
  /\ IF e = Starting
     THEN boot' = "ready" /\ UNCHANGED << at, kind, name >>
     ELSE Done(e) /\ UNCHANGED boot

\* The file is read, and parsed if that is possible.
EditRead(e) ==
  /\ edit[e] = "read"
  /\ IF pkg = Torn
     THEN EditFails(e)
     ELSE /\ Edits(e, "truncate") /\ UNCHANGED << boot, at, kind, name >>
          /\ copy' = [copy EXCEPT ![e] = Changed(e, IF pkg = Absent THEN {} ELSE pkg)]
  /\ UNCHANGED << files, setUp, disturbed >>

\* The function's result is hardly ever equal to what was in the file, so the
\* file is written even when nothing has changed; unless it cannot be opened.
EditTruncate(e) ==
  /\ edit[e] = "truncate"
  /\ \/ Edits(e, "write") /\ pkg' = Torn
        /\ UNCHANGED << boot, at, kind, name, copy, disturbed >>
     \/ EditFails(e) /\ disturbed' = (disturbed \/ e # Starting) /\ UNCHANGED pkg
  /\ UNCHANGED << modules, setUp >>

\* Faulty Written: what the function has returned is written.
WrittenResult(e) ==
  IF e \in Tasks /\ at[e] = "ensure" THEN {} ELSE copy[e]

\* The changed object is written, whatever the function has returned.
Written(e) == copy[e]

\* The file is written, and the caller goes on.
EditWrite(e) ==
  /\ edit[e] = "write"
  /\ pkg' = Written(e)
  /\ IF e = Starting
     THEN boot' = "load" /\ Edits(e, "none") /\ UNCHANGED at
     ELSE /\ UNCHANGED boot
          /\ Goto(e, CASE at[e] = "download" -> "prepared"
                       [] at[e] = "change" -> "ensure"
                       [] at[e] = "ensure" -> IF setUp THEN "npm" ELSE "setup")
          /\ Edits(e, IF at'[e] \in {"change", "ensure"} THEN "read" ELSE "none")
  /\ copy' = [copy EXCEPT ![e] = IF e = Starting THEN @ ELSE {}]
  /\ UNCHANGED << modules, setUp, kind, name, disturbed >>

-----------------------------------------------------------------------------
(* The start of the session.                                               *)

\* loadAllSnippets(): every dependency but npm is resolved and loaded; what it
\* throws nobody catches, and the shell exits.
Autoload ==
  /\ boot = "load"
  /\ boot' = IF copy[Starting] \ {"npm"} \subseteq modules THEN "ready" ELSE "failed"
  /\ copy' = [copy EXCEPT ![Starting] = {}]
  /\ UNCHANGED << files, setUp, at, kind, name, edit, disturbed >>

-----------------------------------------------------------------------------
(* Commands.                                                               *)

\* The snippet is looked up in the index, which may not list it.
LookUp(t) ==
  \/ Goto(t, "change") /\ Edits(t, "read")
  \/ Goto(t, "idle") /\ UNCHANGED edit

\* install, uninstall and update set up npm and the index first; outdated and
\* ls make sure that there is a package.json before.
Start(t) ==
  /\ boot = "ready" /\ at[t] = "idle"
  /\ \E k \in Kinds, n \in Snippets :
       /\ k = "ls" => n = SomeName
       /\ IF k = "ls" THEN Goto(t, "ensure") /\ Edits(t, "read")
          ELSE IF setUp THEN LookUp(t)
          ELSE Goto(t, "setup") /\ UNCHANGED edit
       /\ kind' = [kind EXCEPT ![t] = IF at'[t] = "idle" THEN @ ELSE k]
       /\ name' = [name EXCEPT ![t] = IF at'[t] = "idle" THEN @ ELSE n]
  /\ disturbed' = (disturbed \/ \E u \in Tasks \ {t} : at[u] # "idle")
  /\ UNCHANGED << files, boot, setUp, copy >>

\* ensureSetup(): npm is found; or it has been downloaded and is put into
\* package.json; or there is no npm or no index, and the command fails.
SetUp(t) ==
  /\ at[t] \in {"setup", "prepared"}
  /\ \/ /\ setUp' = TRUE /\ UNCHANGED << kind, name >>
        /\ IF kind[t] = "ls" THEN Goto(t, "npm") /\ UNCHANGED edit ELSE LookUp(t)
     \/ /\ at[t] = "setup" /\ Goto(t, "download") /\ Edits(t, "read")
        /\ UNCHANGED << setUp, kind, name >>
     \/ Done(t) /\ UNCHANGED << setUp, edit >>
  /\ UNCHANGED << files, boot, copy, disturbed >>

\* npm reads package.json, and unless it only lists brings node_modules up to
\* date with it and writes it (--save).
NpmRuns(t) ==
  /\ at[t] = "npm" /\ pkg \notin {Absent, Torn}
  /\ pkg' = CASE kind[t] \in {"install", "update"} -> pkg \cup {name[t]}
              [] kind[t] = "uninstall" -> pkg \ {name[t]}
              [] kind[t] = "ls" -> pkg
  /\ modules' = IF kind[t] = "ls" THEN modules ELSE pkg' \ {"npm"}
  /\ IF kind[t] = "install" THEN Goto(t, "load") /\ UNCHANGED << kind, name >>
                            ELSE Done(t)
  /\ UNCHANGED << boot, setUp, edit, copy, disturbed >>

\* npm fails, or is killed since the command was interrupted.
NpmFails(t) ==
  /\ at[t] = "npm" /\ Done(t)
  /\ disturbed' = TRUE
  /\ UNCHANGED << files, boot, setUp, edit, copy >>

\* What was installed is loaded, unless the user declines or interrupts.
Load(t) ==
  /\ at[t] = "load" /\ Done(t)
  /\ UNCHANGED << files, boot, setUp, edit, copy, disturbed >>

\* The session ends or dies, whatever it is doing, and another one starts.
Restart ==
  /\ boot' = "read" /\ setUp' = FALSE
  /\ at' = [t \in Tasks |-> "idle"]
  /\ kind' = [t \in Tasks |-> "ls"] /\ name' = [t \in Tasks |-> SomeName]
  /\ edit' = Alone(Starting)
  /\ copy' = [e \in Editors |-> {}]
  /\ disturbed' = (disturbed \/ \E e \in Editors : edit[e] = "write"
                             \/ \E t \in Tasks : at[t] # "idle")
  /\ UNCHANGED files

Next ==
  \/ \E e \in Editors : EditRead(e) \/ EditTruncate(e) \/ EditWrite(e)
  \/ \E t \in Tasks : Start(t) \/ SetUp(t) \/ NpmRuns(t) \/ NpmFails(t) \/ Load(t)
  \/ Autoload \/ Restart

Spec == Init /\ [][Next]_vars

-----------------------------------------------------------------------------
(* Properties.                                                             *)

Quiet == (\A t \in Tasks : at[t] = "idle") /\ (\A e \in Editors : edit[e] = "none")

\* As long as commands do not overlap and none is cut off, package.json names
\* exactly what is installed whenever no command is running, in whatever order
\* snippets are installed, updated, uninstalled and sessions started.
RecordedIsInstalled ==
  Quiet /\ ~disturbed => modules = (IF pkg = Absent THEN {} ELSE pkg \ {"npm"})

\* A session that starts loads its snippets or does without them: "Could not
\* load snippets. The user will be aware of this soon enough, most likely."
StartSurvives == boot # "failed"
=============================================================================
