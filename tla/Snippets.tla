----------------------------- MODULE Snippets -------------------------------
(***************************************************************************)
(* The snippet manager: the index of snippets (SnippetIndex) and what is   *)
(* installed of them (SnippetPackages), next to each other.                *)
(***************************************************************************)

EXTENDS SnippetIndex

CONSTANTS Commands, Snippets

VARIABLES pkg, modules, boot, setUp, at, kind, name, edit, copy, disturbed

Packages == INSTANCE SnippetPackages WITH Tasks <- Commands

\* As long as commands do not overlap and none is cut off, package.json names
\* exactly what is installed (snippet-manager.ts:433-476).
RecordedIsInstalled == Packages!RecordedIsInstalled
=============================================================================
