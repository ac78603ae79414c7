------------------------------- MODULE MCJobs -------------------------------
(* Instances of Jobs for TLC: a name that is not in lower case. *)
EXTENDS Jobs, TLC

CONSTANTS u1, u2, upper, lower

ToLower(n) == lower

\* A backup can be restored twice.
RunsOnce == [create |-> 1, restore |-> 2, export |-> 1]
=============================================================================
