--------------------------- MODULE MCClientBatch ---------------------------
(* Instances of ClientBatch for TLC. *)
EXTENDS ClientBatch, TLC

CONSTANTS o1, o2, o3, r1, w1, w2   \* three objects, a reference, two threads

\* One reference from o1 to o2.
OneReference == r1 :> {o1, o2}
NoReferences == << >>

\* A load for each branch of __dynamic_batching: an empty queue, one that is worked
\* off in two seconds, in less, in more, and in so many that nothing may be sent.
AllLoads == {<<1, 0>>, <<2, 4>>, <<2, 3>>, <<1, 5>>, <<1, 20>>}

\* An empty queue, one that is far too long, and one that is not worked off at all.
ExtremeLoads == {<<1, 0>>, <<1, 20>>, <<0, 1>>}
NoLoads == {}
=============================================================================
