---------------------------- MODULE MCAsyncBatch ----------------------------
(* Instances of AsyncBatch for TLC. *)
EXTENDS AsyncBatch, TLC

CONSTANTS o1, o2, r1    \* two objects, a reference

\* One reference from o1 to o2.
OneReference == r1 :> {o1, o2}
OneBeacon == r1 :> "o1/prop"

\* Tasks are not preempted; a generator that outlives its stream has the second
\* it needs to notice, the server fails before the user leaves, and it does not
\* run out of memory; a reconnect after a hangup raises no error that nobody
\* catches (the README says what may happen otherwise).
TaskEvents == EnvEvents \ {"preempt", "fast_reconnect", "late", "oom", "raises_hungup"}
=============================================================================
