---------------------------- MODULE ShellState ------------------------------
(***************************************************************************)
(* What a session keeps between commands: the cursors it displays          *)
(* (CursorIteration), and the connection info with the names for           *)
(* completion (ConnectionInfo), next to each other.                        *)
(***************************************************************************)

EXTENDS CursorIteration

CONSTANTS Conns, Default, Fetches, Lists, MaxVersion

VARIABLES current, cache, fetch, catalog, names, list, crossed

Info == INSTANCE ConnectionInfo

\* What is cached is of the connection, or database, it is used for
\* (shell-instance-state.ts:291-335, database.ts:281-335).
CachesOfOwn == Info!CachesOfOwn
=============================================================================
