---------------------------- MODULE DynamicBatch ----------------------------
(***************************************************************************)
(* __dynamic_batching (collections/batch/base.py): how many objects the    *)
(* next requests hold, and how many of them may be under way at once, from *)
(* what the server says of its queue or from how long requests take.       *)
(*                                                                         *)
(* A pair <<num_objects, concurrent_requests>> is mapped to the pairs that *)
(* may follow it.  The numbers of the code are parameters, since an        *)
(* instance has a few objects, not thousands.  Quotients are exact here,   *)
(* and compared by cross-multiplication; the code's are floats.            *)
(***************************************************************************)
EXTENDS Naturals

CONSTANTS
    max_batch_size,          \* 1000
    ScaleUpStep,             \* 50, added when the server's queue is empty
    LowSize,                 \* 100, below which fewer requests are sent at once
    BaseRequests,            \* 2, the requests it starts with and falls back to
    MAX_CONCURRENT_REQUESTS, \* 10
    VectorizerRequests,      \* 3, the most for a slow vectorizer
    VECTORIZER_BATCHING_STEP_SIZE

ASSUME SizesOK ==
    /\ max_batch_size \in Nat \ {0} /\ ScaleUpStep \in Nat \ {0} /\ LowSize \in Nat
    /\ BaseRequests \in Nat \ {0} /\ MAX_CONCURRENT_REQUESTS \in Nat \ {0}
    /\ VectorizerRequests \in Nat /\ VECTORIZER_BATCHING_STEP_SIZE \in Nat \ {0}

Smaller(m, n) == IF m < n THEN m ELSE n
-----------------------------------------------------------------------------
\* The server's queue is empty.  One request more is sent at once if so many objects
\* wait, but not when the last time is less than a second ago.
ScaledByHalf(num) == Smaller((num * 3) \div 2, max_batch_size)  \* mutant: 0 stays 0
Scaled(num) == Smaller(num + ScaleUpStep, max_batch_size)

WhenEmpty(num, conc, waiting) ==
    LET more == Scaled(num) = max_batch_size /\ waiting > max_batch_size
                /\ conc < MAX_CONCURRENT_REQUESTS
    IN  {Scaled(num)} \X (IF more THEN {conc, conc + 1} ELSE {conc})

\* It holds length objects and works off rate of them a second: what it can take is
\* rate_per_worker * 2 / ratio.  A rate of 0 raises, and nothing changes.
Taken(conc, rate, length) == (2 * rate * rate) \div (conc * length)

WhenFilled(num, conc, rate, length) ==
    LET above(tenths) == 10 * length > tenths * rate       \* ratio > tenths / 10
        more == Smaller((num * 3) \div 2, Taken(conc, rate, length))
        less == Taken(conc, rate, length)
    IN  IF rate = 0 THEN <<num, conc>>
        ELSE IF ~above(19) THEN <<more, IF more = max_batch_size THEN conc + 1 ELSE conc>>
        ELSE IF 10 * length < 21 * rate THEN <<rate \div conc, conc>>
        ELSE IF length < 10 * rate THEN
             <<less, IF less < LowSize /\ conc > BaseRequests THEN conc - 1 ELSE conc>>
        ELSE <<0, BaseRequests>>

\* A slow vectorizer: larger requests that may take longer, but fewer at once.  took
\* is how long the slowest of the last ones took, against BATCH_TIME_TARGET: more than
\* double, above, less than three quarters, or in between.
Took == {"double", "above", "short", "between"}
WhenTook(num, conc, took) ==
    LET steps == num \div VECTORIZER_BATCHING_STEP_SIZE
    IN  CASE took = "double" -> <<VECTORIZER_BATCHING_STEP_SIZE, 1>>
          [] took = "above" /\ conc > 1 -> <<num, conc - 1>>
          [] took = "above" /\ conc <= 1 /\ steps > 1 ->
                <<VECTORIZER_BATCHING_STEP_SIZE * (steps - 1), conc>>
          [] took = "short" /\ conc < VectorizerRequests -> <<num, conc + 1>>
          [] took = "short" /\ conc >= VectorizerRequests ->
                <<VECTORIZER_BATCHING_STEP_SIZE * (steps + 1), conc>>
          [] OTHER -> <<num, conc>>       \* sending pauses, or all is well
=============================================================================
