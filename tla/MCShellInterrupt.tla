-------------------------- MODULE MCShellInterrupt --------------------------
(* Instance of ShellInterrupt for TLC.                                     *)
EXTENDS ShellInterrupt

CONSTANTS m1, m2

MCMongos  == { m1, m2 }
MCDefault == { m1 }
=============================================================================
