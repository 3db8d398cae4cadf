----------------------------- MODULE MCCliConfig -----------------------------
(* TLC instance of CliConfig: three sessions of two shells.  A shell that   *)
(* cannot read the global configuration is explored among sessions that     *)
(* follow one another; the theorems have no such bound.                     *)
EXTENDS CliConfig, TLC

UnreadAlone == unread # {} => ~overlap

Symmetry == Permutations(Procs)
=============================================================================
