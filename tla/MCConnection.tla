---------------------------- MODULE MCConnection ----------------------------
(* Instances of Connection for TLC. *)
EXTENDS Connection, TLC

CONSTANTS u1, u2     \* two threads of the user

\* All failures; whoever opens the connection closes it.
Faults == EnvEvents \ {"no_close"}
=============================================================================
