--------------------------- MODULE MCStreamBatch ---------------------------
(* Instances of StreamBatch for TLC. *)
EXTENDS StreamBatch, TLC

CONSTANTS o1, o2, r1    \* two objects, a reference

\* One reference from o1 to o2.
OneReference == r1 :> {o1, o2}
OneBeacon == r1 :> "o1/prop"

NoReferences == << >>
Everything == EnvEvents
=============================================================================
