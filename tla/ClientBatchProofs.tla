------------------------- MODULE ClientBatchProofs -------------------------
(***************************************************************************)
(* What holds of ClientBatch for all objects, references, workers, sizes   *)
(* and modes, and for every behaviour of the environment.                  *)
(***************************************************************************)
EXTENDS ClientBatch, FiniteSetTheorems, TLAPS

USE ConstantsOK, SizesOK DEF queueVars, mainVars, schedVars, workVars, objectVars, resultVars,
                             scaleVars, mainFrame, schedFrame, workFrame
-----------------------------------------------------------------------------
(* The inductive invariant, in parts *)

QueuesOK == batch_objects \subseteq Obj /\ batch_references \subseteq Ref /\ uuid_lookup \subseteq Obj
ScaleOK ==
    /\ num_objects \in Nat /\ concurrent_requests \in 1..Cardinality(Worker)
    /\ mode \in ModeType /\ stops \in 0..MaxStops
MainOK ==
    /\ pc_main \in {"ready", "blocked", "blocked_ref", "flush", "flush_objects",
                    "flush_references", "stop", "join", "done"}
    /\ added \subseteq Obj \cup Ref
FlagsOK == leaving \in BOOLEAN /\ raised \in BOOLEAN /\ stopped \in BOOLEAN
SchedOK ==
    /\ pc_sched \in {"top", "gather", "pop_refs", "exited"} /\ popped \subseteq Obj
    /\ active_requests \in Nat
WorkOK ==
    /\ pc_work \in [Worker -> {"idle", "objects", "lookup", "record", "references", "finish"}]
    /\ req \in [Worker -> Request]
ObjectsOK ==
    /\ retry_count \in [Obj -> Nat] /\ uuid_objects \subseteq Obj
    /\ throttles \in Nat /\ sends \in [Obj -> Nat]
ResultsOK ==
    /\ succeeded \in [Obj -> Nat] /\ failed_objects \in [Obj -> Nat]
    /\ failed_references \in [Ref -> Nat]

TypeInv == QueuesOK /\ ScaleOK /\ MainOK /\ FlagsOK /\ SchedOK /\ WorkOK /\ ObjectsOK /\ ResultsOK

\* What the scheduler and a request hold at each place of their methods.
HeldInv ==
    /\ pc_sched # "pop_refs" => popped = {}
    /\ \A w \in Worker :
          /\ pc_work[w] = "idle" => req[w] = NoRequest
          /\ pc_work[w] = "objects" => req[w].imported \cup req[w].failed = {}
          /\ pc_work[w] \in {"references", "finish"} => req[w].imported \cup req[w].failed = {}
          /\ req[w].imported \cap req[w].failed = {}

\* The counter is the number of requests under way, also once the scheduler has ended,
\* unless it ended because the executor refused a request: that one is never finished.
CountInv ==
    /\ RequestsCounted
    /\ ~Alive => active_requests >= Cardinality(Busy)
    /\ ~Alive /\ ~stopped => active_requests > Cardinality(Busy)

\* An object that was added is in one place, one that was not in none; an object gets
\* lost with the scheduler alone.
Due(o) == IF o \in added THEN 1 ELSE 0
PlaceInv ==
    /\ \A o \in Obj : Where(o) <= Due(o)
    /\ Alive => \A o \in Obj : Where(o) = Due(o)

IInv == TypeInv /\ HeldInv /\ CountInv /\ PlaceInv

\* Without preemption nothing is under way when flush has found the counter at 0.
Idle == active_requests = 0 /\ pc_sched \in {"top", "exited"}
ExitInv ==
    /\ stopped => pc_main \in {"join", "done"}
    /\ pc_main = "join" => stopped
    /\ pc_main \in {"flush_objects", "flush_references"} => Idle /\ Alive
    /\ pc_main = "flush_references" => batch_objects = {}
    /\ pc_main \in {"stop", "join", "done"} /\ ~raised =>
          /\ Idle /\ batch_objects = {} /\ batch_references = {}
          /\ \A o \in Obj \cap added : Outcomes(o) = 1

\* When no uuid is generated, the lookup lets go of objects that are settled.
Imported(o) == succeeded[o] > 0 \/ \E w \in Worker : o \in req[w].imported
Refused(o) == failed_objects[o] > 0 \/ \E w \in Worker : o \in req[w].failed
LookupInv ==
    /\ uuid_objects = {}
    /\ \A o \in Obj \cap added : o \notin uuid_lookup => Imported(o) \/ Refused(o)
    /\ \A w \in Worker : pc_work[w] = "lookup" =>
          Processed(req[w]) \subseteq req[w].imported \cup req[w].failed
    /\ \A r \in Ref \cap added : Endpoints[r] \subseteq added
    /\ batch_references \subseteq added
-----------------------------------------------------------------------------
(* The operators of the model *)

LEMMA PopsPart == ASSUME NEW S, NEW n, NEW p \in Pops(S, n) PROVE p \subseteq S
  BY DEF Pops

\* Sizes and numbers of requests stay numbers, and at least one request is allowed.
LEMMA ProductPositive == \A a, b \in Nat \ {0} : a * b \in Nat \ {0}
  OBVIOUS

LEMMA EmptySizes ==
    ASSUME NEW num \in Nat, NEW conc \in Nat \ {0}, NEW waiting \in Nat,
           NEW sizes \in WhenEmpty(num, conc, waiting)
    PROVE  sizes[1] \in Nat /\ sizes[2] \in Nat \ {0}
  BY DEF WhenEmpty, Scaled, Smaller

LEMMA TakenNat ==
    ASSUME NEW conc \in Nat \ {0}, NEW rate \in Nat, NEW length \in Nat \ {0}
    PROVE  Taken(conc, rate, length) \in Nat
  <1>1. conc * length \in Nat \ {0}
    BY ProductPositive
  <1>2. 2 * rate * rate \in Nat
    OBVIOUS
  <1>3. \A a \in Nat, b \in Nat \ {0} : a \div b \in Nat
    OBVIOUS
  <1> QED
    BY <1>1, <1>2, <1>3 DEF Taken

LEMMA FilledSizes ==
    ASSUME NEW num \in Nat, NEW conc \in Nat \ {0}, NEW rate \in Nat, NEW length \in Nat \ {0}
    PROVE  /\ WhenFilled(num, conc, rate, length)[1] \in Nat
           /\ WhenFilled(num, conc, rate, length)[2] \in Nat \ {0}
  <1> DEFINE taken == Taken(conc, rate, length)
  <1>1. taken \in Nat /\ Smaller((num * 3) \div 2, taken) \in Nat
    BY TakenNat DEF Smaller
  <1>2. rate \div conc \in Nat
    OBVIOUS
  <1> QED
    BY <1>1, <1>2 DEF WhenFilled

LEMMA TookSizes ==
    ASSUME NEW num \in Nat, NEW conc \in Nat \ {0}, NEW took \in Took
    PROVE  /\ WhenTook(num, conc, took)[1] \in Nat
           /\ WhenTook(num, conc, took)[2] \in Nat \ {0}
  <1> DEFINE steps == num \div VECTORIZER_BATCHING_STEP_SIZE
  <1>1. steps \in Nat
    OBVIOUS
  <1> HIDE DEF steps
  <1>2. /\ VECTORIZER_BATCHING_STEP_SIZE * (steps + 1) \in Nat
        /\ steps > 1 => VECTORIZER_BATCHING_STEP_SIZE * (steps - 1) \in Nat
    BY <1>1
  <1> QED
    BY <1>1, <1>2 DEF WhenTook, steps

LEMMA RescaleSizes == TypeInv /\ Rescale => ScaleOK'
  <1> SUFFICES ASSUME TypeInv, Rescale PROVE ScaleOK'
    OBVIOUS
  <1> USE DEF TypeInv, ScaleOK
  <1>1. Cardinality(Worker) \in Nat /\ Cardinality(Obj) \in Nat /\ Cardinality(batch_objects) \in Nat
    BY FS_CardinalityType, FS_Subset DEF QueuesOK
  <1>2. ASSUME NEW sizes, Sized(sizes), sizes[1] \in Nat, sizes[2] \in Nat \ {0}
        PROVE  /\ num_objects' \in Nat /\ concurrent_requests' \in 1..Cardinality(Worker)
               /\ stops' \in 0..MaxStops
    BY <1>1, <1>2 DEF Sized
  <1>3. ASSUME NEW load \in Loads, ByQueue(load[1], load[2]) PROVE ScaleOK'
    <2>1. load[1] \in Nat /\ load[2] \in Nat
      OBVIOUS
    <2>2. CASE load[2] = 0
      BY <1>1, <1>2, <1>3, <2>2, EmptySizes DEF ByQueue
    <2>3. CASE load[2] # 0
      <3> DEFINE sizes == WhenFilled(num_objects, concurrent_requests, load[1], load[2])
      <3>1. Sized(sizes) /\ mode' = mode
        BY <1>3, <2>3 DEF ByQueue
      <3>2. sizes[1] \in Nat /\ sizes[2] \in Nat \ {0}
        <4>1. num_objects \in Nat /\ concurrent_requests \in Nat \ {0} /\ load[2] \in Nat \ {0}
          BY <1>1, <2>1, <2>3
        <4> QED
          BY <2>1, <4>1, FilledSizes
      <3> QED
        BY <1>2, <3>1, <3>2
    <2> QED
      BY <2>2, <2>3
  <1>4. ASSUME NEW took \in Took, ByTime(took) PROVE ScaleOK'
    BY <1>1, <1>2, <1>4, TookSizes DEF ByTime
  <1>5. CASE SendALot
    BY <1>1, <1>2, <1>5 DEF SendALot, ModeType
  <1> QED
    BY <1>3, <1>4, <1>5 DEF Rescale
-----------------------------------------------------------------------------
(* Type correctness *)

\* Who is busy can be counted.
LEMMA BusyCard ==
    /\ IsFiniteSet(Busy) /\ Cardinality(Busy) \in Nat
    /\ \A w \in Busy : Cardinality(Busy) > 0
  <1>1. Busy \in SUBSET Worker
    BY DEF Busy
  <1> QED
    BY <1>1, FS_Subset, FS_CardinalityType, FS_EmptySet

\* What a request holds once its answer has come.
LEMMA Requeued ==
    ASSUME req \in [Worker -> Request], NEW w \in Worker, NEW ok \in SUBSET Obj, NEW again,
           NEW known \in SUBSET Obj, Requeue(w, ok, again, known)
    PROVE  /\ req' \in [Worker -> Request]
           /\ req'[w].objs = req[w].objs /\ req'[w].refs = req[w].refs
           /\ req'[w].imported = ok /\ req'[w].failed = Failed(w, ok, again)
           /\ req'[w].readded = known
           /\ \A v \in Worker \ {w} : req'[v] = req[v]
  <1> DEFINE f == Failed(w, ok, again)
  <1>1. f \in SUBSET Obj
    BY DEF Request, Failed
  <1>2. req' = [req EXCEPT ![w].imported = ok, ![w].failed = f, ![w].readded = known]
    BY DEF Requeue
  <1> HIDE DEF f
  <1>3. req' \in [Worker -> Request]
    <2> DEFINE q == [req[w] EXCEPT !.imported = ok, !.failed = f, !.readded = known]
    <2>1. q \in Request
      BY <1>1 DEF Request
    <2>2. req' = [req EXCEPT ![w] = q]
      BY <1>2
    <2> HIDE DEF q
    <2> QED
      BY <2>1, <2>2
  <1>4. \A v \in Worker \ {w} : req'[v] = req[v]
    BY <1>2
  <1>5. req'[w].objs = req[w].objs /\ req'[w].refs = req[w].refs
    BY <1>2 DEF Request
  <1>6. req'[w].imported = ok /\ req'[w].failed = f /\ req'[w].readded = known
    BY <1>2 DEF Request
  <1> QED
    BY <1>3, <1>4, <1>5, <1>6 DEF f

\* The steps that end a call for objects.
LEMMA AnsweredIs ==
    ASSUME TypeInv, NEW w \in Worker,
           ObjectsAnswered(w) \/ AllObjectsFailed(w) \/ CallFails(w)
    PROVE  \E ok, again, known \in SUBSET req[w].objs :
              /\ Requeue(w, ok, again, known) /\ ok \cap again = {}
              /\ known = again \ uuid_objects \/ known = again
              /\ pc_work[w] = "objects"
  <1>1. CASE ObjectsAnswered(w)
    <2>1. PICK ok \in SUBSET req[w].objs, bad \in SUBSET req[w].objs, slow \in SUBSET req[w].objs :
             /\ Answer(w, ok, bad, slow) /\ ok # {}
             /\ Requeue(w, ok, slow, slow \ uuid_objects)
      BY <1>1 DEF ObjectsAnswered
    <2>2. slow \ uuid_objects \in SUBSET req[w].objs /\ ok \cap slow = {}
      BY <2>1 DEF Answer
    <2>3. pc_work[w] = "objects"
      BY <1>1 DEF ObjectsAnswered
    <2> QED
      BY <2>1, <2>2, <2>3
  <1>2. CASE AllObjectsFailed(w)
    <2>1. PICK slow \in SUBSET req[w].objs :
             LET again == IF slow = {} THEN {} ELSE Retried(req[w].objs)
             IN  Requeue(w, {}, again, again)
      BY <1>2 DEF AllObjectsFailed
    <2> DEFINE again == IF slow = {} THEN {} ELSE Retried(req[w].objs)
    <2>2. again \in SUBSET req[w].objs /\ {} \in SUBSET req[w].objs
      BY DEF Retried
    <2>3. Requeue(w, {}, again, again) /\ pc_work[w] = "objects" /\ {} \cap again = {}
      BY <1>2, <2>1 DEF AllObjectsFailed
    <2> HIDE DEF again
    <2> QED
      BY <2>2, <2>3
  <1>3. CASE CallFails(w)
    <2>1. Requeue(w, {}, {}, {}) /\ pc_work[w] = "objects" /\ {} \in SUBSET req[w].objs
      BY <1>3 DEF CallFails
    <2> QED
      BY <2>1
  <1> QED
    BY <1>1, <1>2, <1>3

LEMMA TypeInit == Init => TypeInv
  <1> SUFFICES ASSUME Init PROVE TypeInv
    OBVIOUS
  <1>1. QueuesOK
    BY DEF Init, QueuesOK
  <1>2. ScaleOK
    BY FS_CardinalityType DEF Init, ScaleOK
  <1>3. MainOK
    BY DEF Init, MainOK
  <1>4. FlagsOK
    BY Zenon DEF Init, FlagsOK
  <1>5. SchedOK
    BY DEF Init, SchedOK
  <1>6. WorkOK
    BY DEF Init, WorkOK, NoRequest, Request
  <1>7. ObjectsOK
    BY DEF Init, ObjectsOK
  <1>8. ResultsOK
    BY DEF Init, ResultsOK
  <1> QED
    BY <1>1, <1>2, <1>3, <1>4, <1>5, <1>6, <1>7, <1>8 DEF TypeInv

LEMMA TypeMain == TypeInv /\ Main => TypeInv'
  <1> SUFFICES ASSUME TypeInv, Main PROVE TypeInv'
    OBVIOUS
  <1> USE DEF TypeInv, Main, AddObject, AddReference, Unblock, StartFlush, FlushActive,
              FlushObjects, FlushReferences, FlushReads, RaiseDead, Shutdown, Join
  <1>1. QueuesOK'
    BY DEF QueuesOK
  <1>2. UNCHANGED <<scaleVars, schedVars, active_requests, workVars, objectVars, resultVars>>
    OBVIOUS
  <1>3. MainOK'
    BY DEF MainOK
  <1>4. FlagsOK'
    BY Zenon DEF FlagsOK
  <1>5. ScaleOK' /\ SchedOK' /\ WorkOK'
    BY <1>2 DEF ScaleOK, SchedOK, WorkOK
  <1>6. ObjectsOK' /\ ResultsOK'
    BY <1>2 DEF ObjectsOK, ResultsOK
  <1> QED
    BY <1>1, <1>3, <1>4, <1>5, <1>6 DEF TypeInv

LEMMA TypeScheduler == TypeInv /\ Scheduler => TypeInv'
  <1> SUFFICES ASSUME TypeInv, Scheduler PROVE TypeInv'
    OBVIOUS
  <1>1. UNCHANGED <<schedFrame>>
    BY DEF Scheduler, SchedStart, SchedPopObjects, SchedSubmit, SchedFails, SchedExit
  <1>2. ScaleOK' /\ MainOK' /\ FlagsOK' /\ ResultsOK'
    BY <1>1 DEF TypeInv, ScaleOK, MainOK, FlagsOK, ResultsOK
  <1>3. CASE SchedStart \/ SchedExit
    BY <1>1, <1>2, <1>3 DEF SchedStart, SchedExit, TypeInv, QueuesOK, SchedOK, WorkOK, ObjectsOK, Counted
  <1>4. CASE SchedPopObjects
    <2>1. PICK p \in Pops(batch_objects, num_objects) : popped' = p /\ batch_objects' = batch_objects \ p
      BY <1>4 DEF SchedPopObjects
    <2>2. p \subseteq batch_objects
      BY PopsPart
    <2> QED
      BY <1>1, <1>2, <1>4, <2>1, <2>2 DEF SchedPopObjects, TypeInv, QueuesOK, SchedOK, WorkOK, ObjectsOK
  <1>5. CASE SchedFails
    BY <1>1, <1>2, <1>5 DEF SchedFails, TypeInv, QueuesOK, SchedOK, WorkOK, ObjectsOK
  <1>6. ASSUME NEW w \in Worker, SchedSubmit(w) PROVE TypeInv'
    <2>1. PICK p \in Pops(Eligible, NumRefs) :
             /\ batch_references' = batch_references \ p
             /\ req' = [req EXCEPT ![w] = [NoRequest EXCEPT !.objs = popped, !.refs = p]]
             /\ pc_work' = [pc_work EXCEPT ![w] = IF popped # {} THEN "objects" ELSE AfterObjects(p)]
      BY <1>6 DEF SchedSubmit
    <2>2. p \subseteq Ref /\ popped \subseteq Obj
      BY PopsPart DEF Eligible, TypeInv, QueuesOK, SchedOK
    <2>3. [NoRequest EXCEPT !.objs = popped, !.refs = p] \in Request
      BY <2>2 DEF NoRequest, Request
    <2>4. WorkOK'
      BY <2>1, <2>3 DEF TypeInv, WorkOK, AfterObjects
    <2>5. ObjectsOK'
      BY <1>1, <1>6 DEF SchedSubmit, TypeInv, ObjectsOK
    <2>6. QueuesOK' /\ SchedOK'
      BY <1>1, <1>6, <2>1 DEF SchedSubmit, TypeInv, QueuesOK, SchedOK
    <2> QED
      BY <1>2, <2>4, <2>5, <2>6 DEF TypeInv
  <1> QED
    BY <1>3, <1>4, <1>5, <1>6 DEF Scheduler

LEMMA TypeWork == ASSUME TypeInv, CountInv, NEW w \in Worker, Work(w) PROVE TypeInv'
  <1>0. /\ pc_work \in [Worker -> {"idle", "objects", "lookup", "record", "references", "finish"}]
        /\ req \in [Worker -> Request]
    BY DEF TypeInv, WorkOK
  <1>1. UNCHANGED workFrame
    BY DEF Work, ObjectsAnswered, AllObjectsFailed, CallFails, ReleaseLookup, RecordObjects,
           SendReferences, FinishRequest
  <1>2. ScaleOK' /\ MainOK' /\ FlagsOK'
    BY <1>1 DEF TypeInv, ScaleOK, MainOK, FlagsOK
  <1>3. CASE ObjectsAnswered(w) \/ AllObjectsFailed(w) \/ CallFails(w)
    <2>1. PICK ok \in SUBSET req[w].objs, again \in SUBSET req[w].objs, known \in SUBSET req[w].objs :
             Requeue(w, ok, again, known)
      BY <1>3, AnsweredIs
    <2>2. req[w].objs \subseteq Obj
      BY <1>0 DEF Request
    <2>3. QueuesOK'
      BY <1>1, <1>3, <2>1, <2>2 DEF ObjectsAnswered, AllObjectsFailed, CallFails, Requeue, TypeInv, QueuesOK
    <2>4. SchedOK' /\ ResultsOK'
      BY <1>1, <1>3 DEF ObjectsAnswered, AllObjectsFailed, CallFails, TypeInv, SchedOK, ResultsOK
    <2>5. pc_work' = [pc_work EXCEPT ![w] = "lookup"]
      BY <2>1 DEF Requeue
    <2>6. WorkOK'
      BY <1>0, <2>1, <2>2, <2>5, Requeued DEF WorkOK
    <2>7. retry_count' \in [Obj -> Nat] /\ throttles' \in Nat /\ uuid_objects' \subseteq Obj
      <3> USE DEF TypeInv, ObjectsOK
      <3>1. CASE ObjectsAnswered(w)
        BY <3>1 DEF ObjectsAnswered, Answer
      <3>2. CASE AllObjectsFailed(w)
        BY <3>2 DEF AllObjectsFailed, Answer
      <3>3. CASE CallFails(w)
        BY <3>3 DEF CallFails
      <3> QED
        BY <1>3, <3>1, <3>2, <3>3
    <2>8. UNCHANGED sends
      BY <1>1
    <2>9. ObjectsOK'
      BY <2>7, <2>8 DEF TypeInv, ObjectsOK
    <2> QED
      BY <1>2, <2>3, <2>4, <2>6, <2>9 DEF TypeInv
  <1>4. CASE ReleaseLookup(w)
    BY <1>0, <1>1, <1>2, <1>4 DEF ReleaseLookup, TypeInv, QueuesOK, SchedOK, WorkOK, ObjectsOK, ResultsOK
  <1>5. CASE RecordObjects(w)
    <2>1. ResultsOK'
      BY <1>5 DEF RecordObjects, TypeInv, ResultsOK
    <2>2. [NoRequest EXCEPT !.refs = req[w].refs] \in Request
      BY <1>0 DEF NoRequest, Request
    <2>3. WorkOK'
      BY <1>0, <1>5, <2>2 DEF RecordObjects, WorkOK, AfterObjects
    <2> QED
      BY <1>1, <1>2, <1>5, <2>1, <2>3 DEF RecordObjects, TypeInv, QueuesOK, SchedOK, ObjectsOK
  <1>6. CASE SendReferences(w)
    <2>1. ResultsOK'
      BY <1>6 DEF SendReferences, TypeInv, ResultsOK
    <2> QED
      BY <1>0, <1>1, <1>2, <1>6, <2>1 DEF SendReferences, TypeInv, QueuesOK, SchedOK, WorkOK, ObjectsOK
  <1>7. CASE FinishRequest(w)
    <2>1. active_requests > 0
      <3>1. w \in Busy /\ active_requests \in Nat
        BY <1>7 DEF FinishRequest, Busy, TypeInv, SchedOK
      <3> QED
        BY <3>1, BusyCard DEF CountInv, RequestsCounted
    <2>2. NoRequest \in Request
      BY DEF NoRequest, Request
    <2>3. WorkOK'
      BY <1>0, <1>7, <2>2 DEF FinishRequest, WorkOK
    <2>4. SchedOK'
      BY <1>1, <1>7, <2>1 DEF FinishRequest, TypeInv, SchedOK
    <2> QED
      BY <1>1, <1>2, <1>7, <2>3, <2>4 DEF FinishRequest, TypeInv, QueuesOK, ObjectsOK, ResultsOK
  <1> QED
    BY <1>3, <1>4, <1>5, <1>6, <1>7 DEF Work

LEMMA TypeRescale == TypeInv /\ (Rescale \/ Finished) => TypeInv'
  <1> SUFFICES ASSUME TypeInv, Rescale \/ Finished PROVE TypeInv'
    OBVIOUS
  <1>1. UNCHANGED <<queueVars, uuid_lookup, active_requests, mainVars, schedVars, workVars,
                    objectVars, resultVars>>
    BY DEF Rescale, Finished, vars
  <1>2. ScaleOK'
    BY RescaleSizes DEF Finished, vars, TypeInv, ScaleOK
  <1>3. QueuesOK' /\ MainOK' /\ FlagsOK' /\ SchedOK'
    BY <1>1 DEF TypeInv, QueuesOK, MainOK, FlagsOK, SchedOK
  <1>4. WorkOK' /\ ObjectsOK' /\ ResultsOK'
    BY <1>1 DEF TypeInv, WorkOK, ObjectsOK, ResultsOK
  <1> QED
    BY <1>2, <1>3, <1>4 DEF TypeInv
-----------------------------------------------------------------------------
(* What the scheduler and the requests hold *)

LEMMA HeldInit == Init => HeldInv
  BY DEF Init, HeldInv, NoRequest

LEMMA HeldScheduler == TypeInv /\ HeldInv /\ Scheduler => HeldInv'
  <1> SUFFICES ASSUME TypeInv, HeldInv, Scheduler PROVE HeldInv'
    OBVIOUS
  <1>1. CASE SchedStart \/ SchedPopObjects \/ SchedFails \/ SchedExit
    BY <1>1 DEF SchedStart, SchedPopObjects, SchedFails, SchedExit, HeldInv
  <1>2. ASSUME NEW w \in Worker, SchedSubmit(w) PROVE HeldInv'
    <2>1. PICK p :
             /\ req' = [req EXCEPT ![w] = [NoRequest EXCEPT !.objs = popped, !.refs = p]]
             /\ pc_work' = [pc_work EXCEPT ![w] = IF popped # {} THEN "objects" ELSE AfterObjects(p)]
      BY <1>2 DEF SchedSubmit
    <2>2. req'[w] = [NoRequest EXCEPT !.objs = popped, !.refs = p] /\ pc_work'[w] # "idle"
      BY <2>1 DEF TypeInv, WorkOK, AfterObjects
    <2>3. req'[w].imported = {} /\ req'[w].failed = {}
      BY <2>2 DEF NoRequest
    <2>4. \A v \in Worker \ {w} : req'[v] = req[v] /\ pc_work'[v] = pc_work[v]
      BY <2>1 DEF TypeInv, WorkOK
    <2>5. popped' = {}
      BY <1>2 DEF SchedSubmit
    <2> QED
      BY <2>2, <2>3, <2>4, <2>5 DEF HeldInv
  <1> QED
    BY <1>1, <1>2 DEF Scheduler

LEMMA HeldWork == ASSUME TypeInv, HeldInv, NEW w \in Worker, Work(w) PROVE HeldInv'
  <1>0. /\ pc_work \in [Worker -> {"idle", "objects", "lookup", "record", "references", "finish"}]
        /\ req \in [Worker -> Request]
    BY DEF TypeInv, WorkOK
  <1>1. UNCHANGED <<pc_sched, popped>>
    BY DEF Work, ObjectsAnswered, AllObjectsFailed, CallFails, ReleaseLookup, RecordObjects,
           SendReferences, FinishRequest
  <1>2. CASE ObjectsAnswered(w) \/ AllObjectsFailed(w) \/ CallFails(w)
    <2>1. PICK ok \in SUBSET req[w].objs, again \in SUBSET req[w].objs, known \in SUBSET req[w].objs :
             Requeue(w, ok, again, known)
      BY <1>2, AnsweredIs
    <2>2. ok \in SUBSET Obj /\ known \in SUBSET Obj
      BY <1>0 DEF Request
    <2>3. /\ req'[w].imported = ok /\ req'[w].failed = Failed(w, ok, again)
          /\ \A v \in Worker \ {w} : req'[v] = req[v]
      <3>1. req \in [Worker -> Request] /\ Requeue(w, ok, again, known)
        BY <1>0, <2>1
      <3>2. req'[w].imported = ok
        BY <2>2, <3>1, Requeued
      <3>3. req'[w].failed = Failed(w, ok, again)
        BY <2>2, <3>1, Requeued
      <3>4. \A v \in Worker \ {w} : req'[v] = req[v]
        BY <2>2, <3>1, Requeued
      <3> QED
        BY <3>2, <3>3, <3>4
    <2>4. ok \cap Failed(w, ok, again) = {}
      BY DEF Failed
    <2>5. pc_work' = [pc_work EXCEPT ![w] = "lookup"]
      BY <2>1 DEF Requeue
    <2> QED
      BY <1>0, <1>1, <2>3, <2>4, <2>5 DEF HeldInv
  <1>3. CASE ReleaseLookup(w)
    BY <1>0, <1>1, <1>3 DEF ReleaseLookup, HeldInv
  <1>4. CASE RecordObjects(w)
    <2>1. req'[w].imported = {} /\ req'[w].failed = {}
      BY <1>0, <1>4 DEF RecordObjects, NoRequest
    <2>2. pc_work'[w] \in {"references", "finish"}
      BY <1>0, <1>4 DEF RecordObjects, AfterObjects
    <2>3. \A v \in Worker \ {w} : req'[v] = req[v] /\ pc_work'[v] = pc_work[v]
      BY <1>0, <1>4 DEF RecordObjects
    <2> QED
      BY <1>1, <2>1, <2>2, <2>3 DEF HeldInv
  <1>5. CASE SendReferences(w)
    BY <1>0, <1>1, <1>5 DEF SendReferences, HeldInv
  <1>6. CASE FinishRequest(w)
    BY <1>0, <1>1, <1>6 DEF FinishRequest, HeldInv, NoRequest
  <1> QED
    BY <1>2, <1>3, <1>4, <1>5, <1>6 DEF Work

LEMMA HeldStays == HeldInv /\ UNCHANGED <<schedVars, workVars>> => HeldInv'
  BY DEF HeldInv
-----------------------------------------------------------------------------
(* Requests are counted *)

LEMMA CountInit == Init => CountInv
  <1> SUFFICES ASSUME Init PROVE CountInv
    OBVIOUS
  <1>1. Busy = {}
    BY DEF Init, Busy
  <1> QED
    BY <1>1, FS_EmptySet DEF Init, CountInv, RequestsCounted, Alive

LEMMA CountMain == CountInv /\ Main => CountInv'
  <1> SUFFICES ASSUME CountInv, Main PROVE CountInv'
    OBVIOUS
  <1>1. UNCHANGED <<active_requests, pc_sched, pc_work>> /\ (stopped => stopped')
    BY DEF Main, AddObject, AddReference, Unblock, StartFlush, FlushActive, FlushObjects,
           FlushReferences, FlushReads, RaiseDead, Shutdown, Join
  <1>2. Busy' = Busy /\ Alive' = Alive
    BY <1>1 DEF Busy, Alive
  <1> QED
    BY <1>1, <1>2 DEF CountInv, RequestsCounted

LEMMA CountScheduler == TypeInv /\ CountInv /\ Scheduler => CountInv'
  <1> SUFFICES ASSUME TypeInv, CountInv, Scheduler PROVE CountInv'
    OBVIOUS
  <1>0. Cardinality(Busy) \in Nat /\ active_requests \in Nat
    BY BusyCard DEF TypeInv, SchedOK
  <1>1. CASE SchedStart \/ SchedPopObjects \/ SchedFails \/ SchedExit
    <2>1. Busy' = Busy
      BY <1>1 DEF SchedStart, SchedPopObjects, SchedFails, SchedExit, Busy
    <2> QED
      BY <1>0, <1>1, <2>1 DEF SchedStart, SchedPopObjects, SchedFails, SchedExit, CountInv,
            RequestsCounted, Alive, Counted
  <1>2. ASSUME NEW w \in Worker, SchedSubmit(w) PROVE CountInv'
    <2>1. PICK p :
             pc_work' = [pc_work EXCEPT ![w] = IF popped # {} THEN "objects" ELSE AfterObjects(p)]
      BY <1>2 DEF SchedSubmit
    <2>2. Busy' = Busy \cup {w}
      BY <2>1 DEF Busy, TypeInv, WorkOK, AfterObjects
    <2>3. w \notin Busy
      BY <1>2 DEF SchedSubmit, Busy
    <2>4. Cardinality(Busy') = Cardinality(Busy) + 1
      BY <2>2, <2>3, BusyCard, FS_AddElement
    <2> QED
      BY <1>0, <1>2, <2>4 DEF SchedSubmit, CountInv, RequestsCounted, Alive
  <1> QED
    BY <1>1, <1>2 DEF Scheduler

LEMMA CountWork == ASSUME TypeInv, CountInv, NEW w \in Worker, Work(w) PROVE CountInv'
  <1>0. /\ pc_work \in [Worker -> {"idle", "objects", "lookup", "record", "references", "finish"}]
        /\ Cardinality(Busy) \in Nat /\ active_requests \in Nat
    BY BusyCard DEF TypeInv, WorkOK, SchedOK
  <1>1. UNCHANGED <<pc_sched, stopped>>
    BY DEF Work, ObjectsAnswered, AllObjectsFailed, CallFails, ReleaseLookup, RecordObjects,
           SendReferences, FinishRequest
  <1>2. CASE ~FinishRequest(w)
    <2>1. \E place \in {"lookup", "record", "references", "finish"} :
             pc_work[w] # "idle" /\ pc_work' = [pc_work EXCEPT ![w] = place]
      BY <1>2 DEF Work, ObjectsAnswered, AllObjectsFailed, CallFails, ReleaseLookup, RecordObjects,
           SendReferences, FinishRequest, Requeue, AfterObjects
    <2>2. Busy' = Busy
      BY <1>0, <2>1 DEF Busy
    <2>3. UNCHANGED active_requests
      BY <1>2 DEF Work, ObjectsAnswered, AllObjectsFailed, CallFails, ReleaseLookup, RecordObjects,
           SendReferences
    <2> QED
      BY <1>1, <2>2, <2>3 DEF CountInv, RequestsCounted, Alive
  <1>3. CASE FinishRequest(w)
    <2>1. Busy' = Busy \ {w} /\ w \in Busy
      BY <1>0, <1>3 DEF FinishRequest, Busy
    <2>2. Cardinality(Busy') = Cardinality(Busy) - 1
      BY <2>1, BusyCard, FS_RemoveElement
    <2>3. active_requests' = active_requests - 1
      BY <1>3 DEF FinishRequest
    <2> QED
      BY <1>0, <1>1, <2>2, <2>3 DEF CountInv, RequestsCounted, Alive
  <1> QED
    BY <1>2, <1>3

LEMMA CountStays == CountInv /\ UNCHANGED <<active_requests, pc_sched, pc_work, stopped>> => CountInv'
  <1> SUFFICES ASSUME CountInv, UNCHANGED <<active_requests, pc_sched, pc_work, stopped>>
               PROVE CountInv'
    OBVIOUS
  <1>1. Busy' = Busy /\ Alive' = Alive
    BY DEF Busy, Alive
  <1> QED
    BY <1>1 DEF CountInv, RequestsCounted
-----------------------------------------------------------------------------
(* Every object is in one place *)

\* How many requests carry an object changes with the one that does.
Carries(o, w) == IF w \in Carriers(o) THEN 1 ELSE 0

LEMMA CarriersCard ==
    ASSUME NEW o
    PROVE  /\ IsFiniteSet(Carriers(o)) /\ Cardinality(Carriers(o)) \in Nat
           /\ \A w \in Carriers(o) : Cardinality(Carriers(o)) > 0
  <1>1. Carriers(o) \in SUBSET Worker
    BY DEF Carriers
  <1> QED
    BY <1>1, FS_Subset, FS_CardinalityType, FS_EmptySet

LEMMA FiniteStep ==
    ASSUME NEW S, NEW T, NEW w, IsFiniteSet(S), S \ {w} = T \ {w}
    PROVE  /\ Cardinality(S) \in Nat /\ Cardinality(T) \in Nat
           /\ Cardinality(T) = Cardinality(S) + (IF w \in T THEN 1 ELSE 0) - (IF w \in S THEN 1 ELSE 0)
  <1>1. IsFiniteSet(S \ {w}) /\ Cardinality(S) \in Nat /\ Cardinality(S \ {w}) \in Nat
    BY FS_RemoveElement, FS_CardinalityType
  <1>2. S = IF w \in S THEN (S \ {w}) \cup {w} ELSE S \ {w}
    OBVIOUS
  <1>3. T = IF w \in T THEN (S \ {w}) \cup {w} ELSE S \ {w}
    OBVIOUS
  <1>4. Cardinality((S \ {w}) \cup {w}) = Cardinality(S \ {w}) + 1
    BY <1>1, FS_AddElement
  <1>5. Cardinality(S) = IF w \in S THEN Cardinality(S \ {w}) + 1 ELSE Cardinality(S \ {w})
    BY <1>2, <1>4
  <1>6. Cardinality(T) = IF w \in T THEN Cardinality(S \ {w}) + 1 ELSE Cardinality(S \ {w})
    BY <1>3, <1>4
  <1> QED
    BY <1>1, <1>5, <1>6

LEMMA CarriersStep ==
    ASSUME NEW o \in Obj, NEW w \in Worker,
           \A v \in Worker \ {w} : pc_work'[v] = pc_work[v] /\ req'[v] = req[v]
    PROVE  Cardinality(Carriers(o))' = Cardinality(Carriers(o)) + Carries(o, w)' - Carries(o, w)
  <1>1. Carriers(o) \ {w} = Carriers(o)' \ {w}
    BY DEF Carriers
  <1> QED
    BY <1>1, CarriersCard, FiniteStep DEF Carries

LEMMA WhereNat ==
    ASSUME TypeInv, NEW o \in Obj
    PROVE  /\ Cardinality(Carriers(o)) \in Nat /\ succeeded[o] \in Nat /\ failed_objects[o] \in Nat
           /\ Where(o) \in Nat
  BY CarriersCard DEF TypeInv, ResultsOK, Where, Outcomes

LEMMA WhereNatNext == ASSUME TypeInv', NEW o \in Obj PROVE Where(o)' \in Nat
  <1>1. Carriers(o)' \in SUBSET Worker
    BY DEF Carriers
  <1>2. Cardinality(Carriers(o)') \in Nat
    BY <1>1, FS_Subset, FS_CardinalityType
  <1> QED
    BY <1>2 DEF TypeInv, ResultsOK, Where, Outcomes

LEMMA WhereStays ==
    ASSUME NEW o, UNCHANGED <<pc_work, req, succeeded, failed_objects>>,
           o \in batch_objects' <=> o \in batch_objects, o \in popped' <=> o \in popped
    PROVE  Where(o)' = Where(o)
  <1>1. Carriers(o)' = Carriers(o)
    BY DEF Carriers
  <1> QED
    BY <1>1 DEF Where, Outcomes

LEMMA PlaceInit == Init => PlaceInv
  <1> SUFFICES ASSUME Init, NEW o \in Obj PROVE Where(o) = Due(o)
    BY DEF PlaceInv, Due
  <1>1. Carriers(o) = {}
    BY DEF Init, Carriers, NoRequest
  <1> QED
    BY <1>1, FS_EmptySet DEF Init, Where, Outcomes, Due

LEMMA PlaceMain == TypeInv /\ PlaceInv /\ Main => PlaceInv'
  <1> SUFFICES ASSUME TypeInv, PlaceInv, Main PROVE PlaceInv'
    OBVIOUS
  <1>1. UNCHANGED <<pc_work, req, succeeded, failed_objects, popped>> /\ Alive' = Alive
    BY DEF Main, AddObject, AddReference, Unblock, StartFlush, FlushActive, FlushObjects,
           FlushReferences, FlushReads, RaiseDead, Shutdown, Join, Alive
  <1>2. ASSUME NEW o \in Obj PROVE Where(o)' - Due(o)' = Where(o) - Due(o)
    <2>1. CASE AddObject(o)
      <3>1. o \notin added /\ added' = added \cup {o} /\ batch_objects' = batch_objects \cup {o}
        BY <2>1 DEF AddObject
      <3>2. Where(o) = 0
        BY <3>1, WhereNat DEF PlaceInv, Due
      <3>3. Cardinality(Carriers(o)) = 0 /\ Outcomes(o) = 0 /\ o \notin batch_objects /\ o \notin popped
        <4> DEFINE queued == IF o \in batch_objects THEN 1 ELSE 0
                   held == IF o \in popped THEN 1 ELSE 0
        <4>1. queued \in Nat /\ held \in Nat /\ Outcomes(o) \in Nat
          BY WhereNat DEF Outcomes
        <4>2. Cardinality(Carriers(o)) + Outcomes(o) + queued + held = 0
          BY <3>2 DEF Where
        <4>3. Cardinality(Carriers(o)) = 0 /\ Outcomes(o) = 0 /\ queued = 0 /\ held = 0
          BY <4>1, <4>2, WhereNat
        <4> QED
          BY <4>3
      <3>4. Carriers(o)' = Carriers(o) /\ Outcomes(o)' = Outcomes(o)
        BY <1>1 DEF Carriers, Outcomes
      <3> QED
        BY <1>1, <3>1, <3>2, <3>3, <3>4 DEF Where, Due
    <2>2. CASE ~AddObject(o)
      <3>1. o \in batch_objects' <=> o \in batch_objects
        BY <2>2 DEF Main, AddObject, AddReference, Unblock, StartFlush, FlushActive, FlushObjects,
           FlushReferences, FlushReads, RaiseDead, Shutdown, Join
      <3>2. o \in added' <=> o \in added
        BY <2>2 DEF Main, AddObject, AddReference, Unblock, StartFlush, FlushActive, FlushObjects,
           FlushReferences, FlushReads, RaiseDead, Shutdown, Join
      <3> QED
        BY <1>1, <3>1, <3>2, WhereStays DEF Due
    <2> QED
      BY <2>1, <2>2
  <1>3. TypeInv'
    BY TypeMain
  <1>4. \A o \in Obj : Where(o) \in Nat /\ Where(o)' \in Nat
    BY <1>3, WhereNat, WhereNatNext
  <1> QED
    BY <1>1, <1>2, <1>4 DEF PlaceInv, Due

LEMMA PlaceScheduler == TypeInv /\ HeldInv /\ PlaceInv /\ Scheduler => PlaceInv'
  <1> SUFFICES ASSUME TypeInv, HeldInv, PlaceInv, Scheduler PROVE PlaceInv'
    OBVIOUS
  <1>1. UNCHANGED <<succeeded, failed_objects, added>>
    BY DEF Scheduler, SchedStart, SchedPopObjects, SchedSubmit, SchedFails, SchedExit
  <1>2. \A o \in Obj : Due(o)' = Due(o)
    BY <1>1 DEF Due
  <1>3. TypeInv'
    BY TypeScheduler
  <1>4. \A o \in Obj : Where(o) \in Nat /\ Where(o)' \in Nat
    BY <1>3, WhereNat, WhereNatNext
  <1>5. CASE SchedStart \/ SchedExit
    <2>1. \A o \in Obj : Where(o)' = Where(o)
      BY <1>1, <1>5, WhereStays DEF SchedStart, SchedExit
    <2> QED
      BY <1>2, <1>5, <2>1 DEF PlaceInv, SchedStart, SchedExit, Alive
  <1>6. CASE SchedPopObjects
    <2>1. PICK p \in Pops(batch_objects, num_objects) : popped' = p /\ batch_objects' = batch_objects \ p
      BY <1>6 DEF SchedPopObjects
    <2>2. p \subseteq batch_objects /\ popped = {}
      BY <1>6, PopsPart DEF SchedPopObjects, HeldInv
    <2>3. ASSUME NEW o \in Obj PROVE Where(o)' = Where(o)
      <3>1. Carriers(o)' = Carriers(o) /\ Outcomes(o)' = Outcomes(o)
        BY <1>1, <1>6 DEF SchedPopObjects, Carriers, Outcomes
      <3> QED
        BY <2>1, <2>2, <3>1, WhereNat DEF Where, Outcomes
    <2> QED
      BY <1>2, <1>6, <2>3 DEF PlaceInv, SchedPopObjects, Alive
  <1>7. CASE SchedFails
    <2>1. ASSUME NEW o \in Obj PROVE Where(o)' <= Where(o)
      <3>1. Carriers(o)' = Carriers(o) /\ Outcomes(o)' = Outcomes(o)
        BY <1>1, <1>7 DEF SchedFails, Carriers, Outcomes
      <3>2. popped' = {} /\ batch_objects' = batch_objects
        BY <1>7 DEF SchedFails
      <3> QED
        BY <3>1, <3>2, WhereNat DEF Where, Outcomes
    <2>2. \A o \in Obj : Due(o) \in Nat
      BY DEF Due
    <2> QED
      BY <1>2, <1>4, <1>7, <2>1, <2>2 DEF PlaceInv, SchedFails, Alive
  <1>8. ASSUME NEW w \in Worker, SchedSubmit(w) PROVE PlaceInv'
    <2>1. PICK p :
             /\ req' = [req EXCEPT ![w] = [NoRequest EXCEPT !.objs = popped, !.refs = p]]
             /\ pc_work' = [pc_work EXCEPT ![w] = IF popped # {} THEN "objects" ELSE AfterObjects(p)]
      BY <1>8 DEF SchedSubmit
    <2>2. req'[w] = [NoRequest EXCEPT !.objs = popped, !.refs = p]
          /\ pc_work'[w] = IF popped # {} THEN "objects" ELSE AfterObjects(p)
      BY <2>1 DEF TypeInv, WorkOK
    <2>3. req'[w].objs = popped /\ req'[w].imported = {} /\ req'[w].failed = {}
      BY <2>2 DEF NoRequest
    <2>4. \A v \in Worker \ {w} : pc_work'[v] = pc_work[v] /\ req'[v] = req[v]
      BY <2>1 DEF TypeInv, WorkOK
    <2>5. req[w] = NoRequest /\ pc_work[w] = "idle"
      BY <1>8 DEF SchedSubmit, HeldInv
    <2>6. popped' = {} /\ batch_objects' = batch_objects
      BY <1>8 DEF SchedSubmit
    <2>7. ASSUME NEW o \in Obj PROVE Where(o)' = Where(o)
      <3>1. w \notin Carriers(o)
        BY <2>5 DEF Carriers, NoRequest
      <3>2. w \in Carriers(o)' <=> o \in popped
        BY <2>2, <2>3 DEF Carriers
      <3>3. Cardinality(Carriers(o))' = Cardinality(Carriers(o)) + IF o \in popped THEN 1 ELSE 0
        BY <2>4, <3>1, <3>2, CarriersStep, WhereNat DEF Carries
      <3> QED
        BY <1>1, <2>6, <3>3, WhereNat DEF Where, Outcomes
    <2> QED
      BY <1>2, <1>8, <2>7 DEF PlaceInv, SchedSubmit, Alive
  <1> QED
    BY <1>5, <1>6, <1>7, <1>8 DEF Scheduler

LEMMA PlaceWork == ASSUME TypeInv, HeldInv, PlaceInv, NEW w \in Worker, Work(w) PROVE PlaceInv'
  <1>0. /\ pc_work \in [Worker -> {"idle", "objects", "lookup", "record", "references", "finish"}]
        /\ req \in [Worker -> Request]
    BY DEF TypeInv, WorkOK
  <1>1. UNCHANGED <<pc_sched, popped, added>>
    BY DEF Work, ObjectsAnswered, AllObjectsFailed, CallFails, ReleaseLookup, RecordObjects,
           SendReferences, FinishRequest
  <1>2. SUFFICES ASSUME NEW o \in Obj PROVE Where(o)' = Where(o)
    BY <1>1 DEF PlaceInv, Due, Alive
  <1>3. Where(o) <= 1
    BY WhereNat DEF PlaceInv, Due
  <1>4. CASE ObjectsAnswered(w) \/ AllObjectsFailed(w) \/ CallFails(w)
    <2>1. PICK ok \in SUBSET req[w].objs, again \in SUBSET req[w].objs, known \in SUBSET req[w].objs :
             Requeue(w, ok, again, known) /\ ok \cap again = {} /\ pc_work[w] = "objects"
      BY <1>4, AnsweredIs
    <2>2. ok \in SUBSET Obj /\ known \in SUBSET Obj
      BY <1>0 DEF Request
    <2>3. req'[w].imported = ok
      BY <1>0, <2>1, <2>2, Requeued
    <2>4. req'[w].failed = req[w].objs \ (ok \cup again)
      <3>1. req'[w].failed = Failed(w, ok, again)
        BY <1>0, <2>1, <2>2, Requeued
      <3> QED
        BY <3>1 DEF Failed
    <2>5. \A v \in Worker \ {w} : req'[v] = req[v]
      BY <1>0, <2>1, <2>2, Requeued
    <2>6. pc_work' = [pc_work EXCEPT ![w] = "lookup"] /\ batch_objects' = batch_objects \cup again
      BY <2>1 DEF Requeue
    <2>7. pc_work'[w] = "lookup" /\ \A v \in Worker \ {w} : pc_work'[v] = pc_work[v]
      BY <1>0, <2>6
    <2>8. w \in Carriers(o) <=> o \in req[w].objs
      BY <2>1 DEF Carriers, HeldInv
    <2>9. w \in Carriers(o)' <=> o \in req[w].objs \ again
      BY <2>1, <2>3, <2>4, <2>7 DEF Carriers
    <2>10. Cardinality(Carriers(o))' = Cardinality(Carriers(o)) - IF o \in again THEN 1 ELSE 0
      BY <2>5, <2>7, <2>8, <2>9, CarriersStep, WhereNat DEF Carries
    <2>11. Outcomes(o)' = Outcomes(o)
      BY <1>4 DEF ObjectsAnswered, AllObjectsFailed, CallFails, Outcomes
    <2>12. CASE o \in again
      <3>1. Cardinality(Carriers(o)) > 0
        BY <2>8, <2>12, CarriersCard
      <3>2. o \notin batch_objects
        BY <1>3, <3>1, WhereNat DEF Where, Outcomes
      <3> QED
        BY <1>1, <2>6, <2>10, <2>11, <2>12, <3>2, WhereNat DEF Where, Outcomes
    <2>13. CASE o \notin again
      BY <1>1, <2>6, <2>10, <2>11, <2>13, WhereNat DEF Where, Outcomes
    <2> QED
      BY <2>12, <2>13
  <1>5. CASE RecordObjects(w)
    <2>1. req'[w].imported = {} /\ req'[w].failed = {}
      BY <1>0, <1>5 DEF RecordObjects, NoRequest
    <2>2. \A v \in Worker \ {w} : req'[v] = req[v] /\ pc_work'[v] = pc_work[v]
      BY <1>0, <1>5 DEF RecordObjects
    <2>3. pc_work[w] = "record" /\ pc_work'[w] # "objects" /\ batch_objects' = batch_objects
      BY <1>0, <1>5 DEF RecordObjects, AfterObjects
    <2>4. w \notin Carriers(o)'
      BY <2>1, <2>3 DEF Carriers
    <2>5. w \in Carriers(o) <=> o \in req[w].imported \cup req[w].failed
      BY <2>3 DEF Carriers
    <2>6. Cardinality(Carriers(o))' = Cardinality(Carriers(o))
                - IF o \in req[w].imported \cup req[w].failed THEN 1 ELSE 0
      BY <2>2, <2>4, <2>5, CarriersStep, WhereNat DEF Carries
    <2>7. /\ succeeded'[o] = succeeded[o] + IF o \in req[w].imported THEN 1 ELSE 0
          /\ failed_objects'[o] = failed_objects[o] + IF o \in req[w].failed THEN 1 ELSE 0
      BY <1>5 DEF RecordObjects
    <2>8. ~(o \in req[w].imported /\ o \in req[w].failed)
      BY DEF HeldInv
    <2>9. Cardinality(Carriers(o))' + Outcomes(o)' = Cardinality(Carriers(o)) + Outcomes(o)
      BY <2>6, <2>7, <2>8, WhereNat DEF Outcomes
    <2>10. Cardinality(Carriers(o))' \in Nat /\ Outcomes(o)' \in Nat
      BY <2>6, <2>7, WhereNat, <2>5, CarriersCard DEF Outcomes
    <2> QED
      BY <1>1, <2>3, <2>9, <2>10, WhereNat DEF Where, Outcomes
  <1>6. CASE ReleaseLookup(w) \/ SendReferences(w) \/ FinishRequest(w)
    <2>1. /\ pc_work[w] # "objects" /\ pc_work'[w] # "objects"
          /\ \A v \in Worker \ {w} : pc_work'[v] = pc_work[v] /\ req'[v] = req[v]
      BY <1>0, <1>6 DEF ReleaseLookup, SendReferences, FinishRequest
    <2>2. req'[w].imported \cup req'[w].failed = req[w].imported \cup req[w].failed
      <3>1. CASE FinishRequest(w)
        BY <1>0, <3>1 DEF FinishRequest, HeldInv, NoRequest
      <3>2. CASE ReleaseLookup(w) \/ SendReferences(w)
        BY <3>2 DEF ReleaseLookup, SendReferences
      <3> QED
        BY <1>6, <3>1, <3>2
    <2>3. Carriers(o)' = Carriers(o)
      BY <2>1, <2>2 DEF Carriers
    <2>4. UNCHANGED <<batch_objects, succeeded, failed_objects>>
      BY <1>6 DEF ReleaseLookup, SendReferences, FinishRequest
    <2> QED
      BY <1>1, <2>3, <2>4 DEF Where, Outcomes
  <1> QED
    BY <1>4, <1>5, <1>6 DEF Work

LEMMA PlaceStays ==
    PlaceInv /\ UNCHANGED <<added, pc_sched, pc_work, req, batch_objects, popped, succeeded, failed_objects>>
       => PlaceInv'
  BY WhereStays DEF PlaceInv, Due, Alive
-----------------------------------------------------------------------------
THEOREM InitInv == Init => IInv
  BY TypeInit, HeldInit, CountInit, PlaceInit DEF IInv

THEOREM NextInv == IInv /\ [Next]_vars => IInv'
  <1> SUFFICES ASSUME IInv, [Next]_vars PROVE IInv'
    OBVIOUS
  <1> USE DEF IInv
  <1>1. CASE Main
    <2>1. UNCHANGED <<schedVars, workVars>>
      BY <1>1 DEF Main, AddObject, AddReference, Unblock, StartFlush, FlushActive, FlushObjects,
         FlushReferences, FlushReads, RaiseDead, Shutdown, Join
    <2> QED
      BY <1>1, <2>1, TypeMain, HeldStays, CountMain, PlaceMain
  <1>2. CASE Scheduler
    BY <1>2, TypeScheduler, HeldScheduler, CountScheduler, PlaceScheduler
  <1>3. ASSUME NEW w \in Worker, Work(w) PROVE IInv'
    BY <1>3, TypeWork, HeldWork, CountWork, PlaceWork
  <1>4. CASE Rescale \/ Finished
    <2>1. UNCHANGED <<queueVars, uuid_lookup, active_requests, mainVars, schedVars, workVars,
                      objectVars, resultVars>>
      BY <1>4 DEF Rescale, Finished, vars
    <2> QED
      BY <1>4, <2>1, TypeRescale, HeldStays, CountStays, PlaceStays
  <1>5. CASE UNCHANGED vars
    <2>1. TypeInv'
      BY <1>5 DEF vars, TypeInv, QueuesOK, ScaleOK, MainOK, FlagsOK, SchedOK, WorkOK, ObjectsOK, ResultsOK
    <2> QED
      BY <1>5, <2>1, HeldStays, CountStays, PlaceStays DEF vars
  <1> QED
    BY <1>1, <1>2, <1>3, <1>4, <1>5 DEF Next, Others

\* Every state that a batch reaches satisfies the inductive invariant.
THEOREM Inductive == Spec => []IInv
  BY InitInv, NextInv, PTL DEF Spec

\* The variables of base.py's batch have their types, among them the number of requests
\* that dynamic batching allows: at least one, and no more than there are threads.
THEOREM TypeCorrect == Spec => []TypeOK
  <1>1. TypeInv => TypeOK
    BY DEF TypeInv, TypeOK, QueuesOK, ScaleOK, MainOK, FlagsOK, SchedOK, WorkOK, ObjectsOK, ResultsOK
  <1>2. IInv => TypeOK
    BY <1>1 DEF IInv
  <1> QED
    BY <1>2, Inductive, PTL

\* __active_requests is the number of requests that are under way, while the scheduler runs.
THEOREM CountsRequests == Spec => []RequestsCounted
  <1>1. IInv => RequestsCounted
    BY DEF IInv, CountInv
  <1> QED
    BY <1>1, Inductive, PTL

\* Retries, refusals and failed calls neither lose nor duplicate an object.
THEOREM InOnePlace == Spec => []ExactlyOnce
  <1>1. IInv => ExactlyOnce
    BY DEF IInv, PlaceInv, ExactlyOnce, Due
  <1> QED
    BY <1>1, Inductive, PTL
-----------------------------------------------------------------------------
(* What is reported when the batch is left *)

LEMMA NobodyBusy == TypeInv /\ CountInv /\ active_requests = 0 => Busy = {}
  <1> SUFFICES ASSUME TypeInv, CountInv, active_requests = 0 PROVE Busy = {}
    OBVIOUS
  <1>1. Cardinality(Busy) = 0
    BY BusyCard DEF CountInv, RequestsCounted
  <1> QED
    BY <1>1, BusyCard

\* Nothing under way and nothing queued: every object is reported.
LEMMA AllReported ==
    ASSUME IInv, Alive, active_requests = 0, pc_sched = "top", batch_objects = {},
           NEW o \in Obj \cap added
    PROVE  Outcomes(o) = 1
  <1>1. Busy = {}
    BY NobodyBusy DEF IInv
  <1>2. \A w \in Worker : pc_work[w] = "idle" /\ req[w] = NoRequest
    BY <1>1 DEF Busy, IInv, HeldInv
  <1>3. Carriers(o) = {}
    BY <1>2 DEF Carriers, NoRequest
  <1>4. popped = {} /\ Where(o) = 1
    BY DEF IInv, HeldInv, PlaceInv, Due
  <1>5. Outcomes(o) \in Nat
    BY DEF IInv, TypeInv, ResultsOK, Outcomes
  <1> QED
    BY <1>3, <1>4, <1>5, FS_EmptySet DEF Where

LEMMA ExitMain == IInv /\ ExitInv /\ Main => ExitInv'
  <1> SUFFICES ASSUME IInv, ExitInv, Main PROVE ExitInv'
    OBVIOUS
  <1>0. UNCHANGED <<active_requests, pc_sched, succeeded, failed_objects>>
    BY DEF Main, AddObject, AddReference, Unblock, StartFlush, FlushActive, FlushObjects,
           FlushReferences, FlushReads, RaiseDead, Shutdown, Join
  <1>1. CASE FlushActive
    <2>1. pc_main = "flush" /\ active_requests = 0 /\ pc_main' = "flush_objects" /\ stopped' = stopped
      BY <1>1 DEF FlushActive, FlushReads
    <2>2. Alive
      BY <2>1, BusyCard DEF IInv, CountInv, ExitInv
    <2>3. pc_sched = "top"
      BY <2>1, <2>2, BusyCard DEF IInv, CountInv, RequestsCounted
    <2> QED
      BY <1>0, <2>1, <2>2, <2>3 DEF ExitInv, Idle, Alive
  <1>2. CASE FlushObjects
    BY <1>0, <1>2 DEF FlushObjects, FlushReads, ExitInv, Idle, Alive
  <1>3. CASE FlushReferences
    <2>1. pc_main = "flush_references" /\ Idle /\ Alive /\ batch_objects = {}
      BY <1>3 DEF FlushReferences, FlushReads, ExitInv
    <2>2. \A o \in Obj \cap added : Outcomes(o) = 1
      BY <2>1, AllReported DEF Idle, Alive
    <2>3. \A o \in Obj \cap added : Outcomes(o)' = 1
      BY <1>0, <2>2 DEF Outcomes
    <2>4. UNCHANGED <<batch_objects, batch_references, added, raised, stopped>>
      BY <1>3 DEF FlushReferences, FlushReads
    <2>5. \/ pc_main' \in {"stop", "ready"} /\ batch_references = {}
          \/ pc_main' = "flush"
      BY <1>3 DEF FlushReferences, FlushReads
    <2> QED
      BY <1>0, <2>1, <2>3, <2>4, <2>5 DEF ExitInv, Idle
  <1>4. CASE RaiseDead
    BY <1>4 DEF RaiseDead, ExitInv
  <1>5. CASE Shutdown \/ Join
    <2>1. \A o \in Obj : Outcomes(o)' = Outcomes(o)
      BY <1>0 DEF Outcomes
    <2> QED
      BY <1>0, <1>5, <2>1 DEF Shutdown, Join, ExitInv, Idle
  <1>6. CASE Unblock \/ StartFlush \/ (\E o \in Obj : AddObject(o)) \/ (\E r \in Ref : AddReference(r))
    BY <1>6 DEF Unblock, StartFlush, AddObject, AddReference, ExitInv, IInv, TypeInv, MainOK
  <1> QED
    BY <1>1, <1>2, <1>3, <1>4, <1>5, <1>6 DEF Main

LEMMA ExitNext == ASSUME "preempt" \notin Env, IInv, ExitInv, [Next]_vars PROVE ExitInv'
  <1>1. CASE Main
    BY <1>1, ExitMain
  <1>2. ASSUME NEW w \in Worker, Work(w) PROVE ExitInv'
    <2>1. UNCHANGED <<pc_main, stopped, raised>> /\ pc_work[w] # "idle"
          /\ pc_main \notin {"flush_objects", "flush_references"}
      BY <1>2 DEF Work, ObjectsAnswered, AllObjectsFailed, CallFails, ReleaseLookup, RecordObjects,
                  SendReferences, FinishRequest, MayRun
    <2>2. active_requests # 0
      BY <2>1, NobodyBusy DEF IInv, Busy
    <2>3. ~(pc_main \in {"stop", "join", "done"} /\ ~raised)
      BY <2>2 DEF ExitInv, Idle
    <2> QED
      BY <2>1, <2>3 DEF ExitInv
  <1>3. CASE Scheduler
    <2>1. UNCHANGED <<pc_main, stopped, raised, added, succeeded, failed_objects>>
          /\ pc_main \notin {"flush_objects", "flush_references"}
      BY <1>3 DEF Scheduler, SchedStart, SchedPopObjects, SchedSubmit, SchedFails, SchedExit, MayRun
    <2>2. ASSUME pc_main \in {"stop", "join", "done"} /\ ~raised
          PROVE  SchedExit
      BY <1>3, <2>2 DEF Scheduler, SchedStart, SchedPopObjects, SchedSubmit, SchedFails, SchedExit,
                        ExitInv, Idle
    <2>3. \A o \in Obj : Outcomes(o)' = Outcomes(o)
      BY <2>1 DEF Outcomes
    <2>4. CASE SchedExit
      BY <2>1, <2>3, <2>4 DEF SchedExit, ExitInv, Idle
    <2>5. CASE ~SchedExit
      BY <2>1, <2>2, <2>5 DEF ExitInv
    <2> QED
      BY <2>4, <2>5
  <1>4. CASE Rescale \/ Finished \/ UNCHANGED vars
    <2>1. UNCHANGED <<queueVars, active_requests, mainVars, schedVars, resultVars>>
      BY <1>4 DEF Rescale, Finished, vars
    <2>2. \A o \in Obj : Outcomes(o)' = Outcomes(o)
      BY <2>1 DEF Outcomes
    <2> QED
      BY <2>1, <2>2 DEF ExitInv, Idle, Alive
  <1> QED
    BY <1>1, <1>2, <1>3, <1>4 DEF Next, Others

\* flush, and so the exit of the context manager, returns only when every object of the
\* batch is reported, as long as its reads of the counter and of the queues are not
\* interrupted; a call that has raised reports less.
THEOREM ReportsAll == ASSUME "preempt" \notin Env PROVE Spec => []ReportedAtExit
  <1>1. Init => ExitInv
    BY DEF Init, ExitInv
  <1>2. IInv /\ ExitInv /\ [Next]_vars => ExitInv'
    BY ExitNext
  <1>3. ExitInv => ReportedAtExit
    BY DEF ExitInv, ReportedAtExit
  <1> QED
    BY <1>1, <1>2, <1>3, Inductive, PTL DEF Spec
-----------------------------------------------------------------------------
(* ClientBatch implements BatchImport if the client generates no uuid: the  *)
(* answer to a request settles its objects, a popped reference is released, *)
(* and every other step leaves the promise as it is.                        *)

LEMMA StatusIs ==
    ASSUME TypeInv, NEW o \in Obj
    PROVE  status[o] = IF Imported(o) THEN "imported"
                       ELSE IF Refused(o) THEN "failed"
                       ELSE IF o \in added THEN "pending" ELSE "new"
  BY DEF status, Imported, Refused

LEMMA OutcomesStay ==
    UNCHANGED <<succeeded, failed_objects, req>> =>
       \A o \in Obj : Imported(o)' = Imported(o) /\ Refused(o)' = Refused(o)
  BY DEF Imported, Refused

LEMMA StatusStays ==
    ASSUME \A o \in Obj : Imported(o)' = Imported(o) /\ Refused(o)' = Refused(o)
                          /\ (o \in added' <=> o \in added)
    PROVE  status' = status
  BY DEF status, Imported, Refused

\* An object of a request that is being answered has no outcome.
LEMMA Unsettled ==
    ASSUME IInv, NEW w \in Worker, pc_work[w] = "objects", NEW o \in req[w].objs
    PROVE  o \in Obj /\ o \in added /\ ~Imported(o) /\ ~Refused(o)
  <1>1. o \in Obj
    BY DEF IInv, TypeInv, WorkOK, Request
  <1>2. w \in Carriers(o)
    BY DEF Carriers
  <1>3. Cardinality(Carriers(o)) > 0 /\ Where(o) <= Due(o)
    BY <1>1, <1>2, CarriersCard DEF IInv, PlaceInv
  <1>4. Cardinality(Carriers(o)) = 1 /\ succeeded[o] = 0 /\ failed_objects[o] = 0 /\ o \in added
    BY <1>1, <1>3, WhereNat DEF IInv, Where, Outcomes, Due
  <1>5. Carriers(o) = {w}
    BY <1>2, <1>4, CarriersCard, FS_Singleton
  <1>6. \A v \in Worker : o \in req[v].imported \cup req[v].failed => v = w
    BY <1>5 DEF Carriers
  <1>7. o \notin req[w].imported \cup req[w].failed
    BY DEF IInv, HeldInv
  <1> QED
    BY <1>1, <1>4, <1>6, <1>7 DEF Imported, Refused

\* What an answer settles.
LEMMA AnswerSettles ==
    ASSUME IInv, NEW w \in Worker, ObjectsAnswered(w) \/ AllObjectsFailed(w) \/ CallFails(w)
    PROVE  \E ok, bad \in SUBSET req[w].objs :
              /\ ok \cap bad = {}
              /\ req'[w].imported = ok /\ req'[w].failed = bad
              /\ req'[w].objs = req[w].objs
              /\ uuid_objects = {} => Processed(req'[w]) \subseteq ok \cup bad
              /\ \A o \in Obj : /\ Imported(o)' <=> Imported(o) \/ o \in ok
                                /\ Refused(o)' <=> Refused(o) \/ o \in bad
  <1>0. /\ pc_work \in [Worker -> {"idle", "objects", "lookup", "record", "references", "finish"}]
        /\ req \in [Worker -> Request]
    BY DEF IInv, TypeInv, WorkOK
  <1>1. PICK ok \in SUBSET req[w].objs, again \in SUBSET req[w].objs, known \in SUBSET req[w].objs :
           /\ Requeue(w, ok, again, known) /\ ok \cap again = {} /\ pc_work[w] = "objects"
           /\ known = again \ uuid_objects \/ known = again
    BY AnsweredIs DEF IInv
  <1> DEFINE bad == req[w].objs \ (ok \cup again)
  <1>2. ok \in SUBSET Obj /\ known \in SUBSET Obj
    BY <1>0 DEF Request
  <1>3. req'[w].imported = ok /\ req'[w].objs = req[w].objs /\ req'[w].readded = known
    <2>1. req'[w].imported = ok
      BY <1>0, <1>1, <1>2, Requeued
    <2>2. req'[w].objs = req[w].objs
      BY <1>0, <1>1, <1>2, Requeued
    <2>3. req'[w].readded = known
      BY <1>0, <1>1, <1>2, Requeued
    <2> QED
      BY <2>1, <2>2, <2>3
  <1>4. req'[w].failed = bad
    <2>1. req'[w].failed = Failed(w, ok, again)
      BY <1>0, <1>1, <1>2, Requeued
    <2> QED
      BY <2>1 DEF Failed
  <1>5. \A v \in Worker \ {w} : req'[v] = req[v]
    BY <1>0, <1>1, <1>2, Requeued
  <1>6. req[w].imported = {} /\ req[w].failed = {}
    BY <1>1 DEF IInv, HeldInv
  <1>7. UNCHANGED <<succeeded, failed_objects>>
    BY DEF ObjectsAnswered, AllObjectsFailed, CallFails
  <1>8. \A o \in Obj : /\ Imported(o)' <=> Imported(o) \/ o \in ok
                       /\ Refused(o)' <=> Refused(o) \/ o \in bad
    BY <1>3, <1>4, <1>5, <1>6, <1>7 DEF Imported, Refused
  <1>9. uuid_objects = {} => Processed(req'[w]) \subseteq ok \cup bad
    BY <1>1, <1>3 DEF Processed
  <1> QED
    BY <1>3, <1>4, <1>8, <1>9

\* The other steps of a request settle nothing.
LEMMA OthersSettleNothing ==
    ASSUME IInv, NEW w \in Worker,
           ReleaseLookup(w) \/ RecordObjects(w) \/ SendReferences(w) \/ FinishRequest(w),
           NEW o \in Obj
    PROVE  Imported(o)' = Imported(o) /\ Refused(o)' = Refused(o)
  <1>0. /\ req \in [Worker -> Request]
        /\ succeeded[o] \in Nat /\ failed_objects[o] \in Nat
    BY DEF IInv, TypeInv, WorkOK, ResultsOK
  <1>1. CASE RecordObjects(w)
    <2>1. req'[w].imported = {} /\ req'[w].failed = {}
      BY <1>0, <1>1 DEF RecordObjects, NoRequest
    <2>2. \A v \in Worker \ {w} : req'[v] = req[v]
      BY <1>0, <1>1 DEF RecordObjects
    <2>3. /\ succeeded'[o] = succeeded[o] + IF o \in req[w].imported THEN 1 ELSE 0
          /\ failed_objects'[o] = failed_objects[o] + IF o \in req[w].failed THEN 1 ELSE 0
      BY <1>1 DEF RecordObjects
    <2>4. Imported(o)' <=> Imported(o)
      BY <1>0, <2>1, <2>2, <2>3 DEF Imported
    <2>5. Refused(o)' <=> Refused(o)
      BY <1>0, <2>1, <2>2, <2>3 DEF Refused
    <2> QED
      BY <2>4, <2>5 DEF Imported, Refused
  <1>2. CASE FinishRequest(w)
    <2>1. req[w].imported = {} /\ req[w].failed = {} /\ req'[w].imported = {} /\ req'[w].failed = {}
      BY <1>0, <1>2 DEF FinishRequest, IInv, HeldInv, NoRequest
    <2>2. \A v \in Worker \ {w} : req'[v] = req[v]
      BY <1>0, <1>2 DEF FinishRequest
    <2>3. UNCHANGED <<succeeded, failed_objects>>
      BY <1>2 DEF FinishRequest
    <2> QED
      BY <2>1, <2>2, <2>3 DEF Imported, Refused
  <1>3. CASE ReleaseLookup(w) \/ SendReferences(w)
    BY <1>3 DEF ReleaseLookup, SendReferences, Imported, Refused
  <1> QED
    BY <1>1, <1>2, <1>3

\* Nor does the scheduler.
LEMMA SchedulerSettlesNothing ==
    ASSUME IInv, Scheduler, NEW o \in Obj
    PROVE  Imported(o)' = Imported(o) /\ Refused(o)' = Refused(o)
  <1>1. UNCHANGED <<succeeded, failed_objects>>
    BY DEF Scheduler, SchedStart, SchedPopObjects, SchedSubmit, SchedFails, SchedExit
  <1>2. ASSUME NEW w \in Worker, SchedSubmit(w)
        PROVE  Imported(o)' = Imported(o) /\ Refused(o)' = Refused(o)
    <2>1. PICK p : req' = [req EXCEPT ![w] = [NoRequest EXCEPT !.objs = popped, !.refs = p]]
      BY <1>2 DEF SchedSubmit
    <2>2. req'[w].imported = {} /\ req'[w].failed = {} /\ \A v \in Worker \ {w} : req'[v] = req[v]
      BY <2>1 DEF IInv, TypeInv, WorkOK, NoRequest
    <2>3. req[w].imported = {} /\ req[w].failed = {}
      BY <1>2 DEF SchedSubmit, IInv, HeldInv, NoRequest
    <2> QED
      BY <1>1, <2>2, <2>3 DEF Imported, Refused
  <1>3. CASE UNCHANGED req
    BY <1>1, <1>3 DEF Imported, Refused
  <1> QED
    BY <1>2, <1>3 DEF Scheduler, SchedStart, SchedPopObjects, SchedFails, SchedExit

LEMMA LookupInit == Generated = {} /\ Init => LookupInv
  BY DEF Init, LookupInv

LEMMA LookupMain == IInv /\ LookupInv /\ Main => LookupInv'
  <1> SUFFICES ASSUME IInv, LookupInv, Main PROVE LookupInv'
    OBVIOUS
  <1>1. UNCHANGED <<uuid_objects, workVars, resultVars>>
    BY DEF Main, AddObject, AddReference, Unblock, StartFlush, FlushActive, FlushObjects,
           FlushReferences, FlushReads, RaiseDead, Shutdown, Join
  <1>2. \A o \in Obj : Imported(o)' = Imported(o) /\ Refused(o)' = Refused(o)
    BY <1>1, OutcomesStay
  <1>3. \A w \in Worker : pc_work'[w] = "lookup" =>
           Processed(req'[w]) \subseteq req'[w].imported \cup req'[w].failed
    BY <1>1 DEF LookupInv, Processed
  <1>4. ASSUME NEW o \in Obj, AddObject(o) PROVE LookupInv'
    BY <1>1, <1>2, <1>3, <1>4 DEF AddObject, LookupInv
  <1>5. ASSUME NEW r \in Ref, AddReference(r) PROVE LookupInv'
    BY <1>1, <1>2, <1>3, <1>5 DEF AddReference, LookupInv
  <1>6. CASE UNCHANGED <<uuid_lookup, added, batch_references>>
    BY <1>1, <1>2, <1>3, <1>6 DEF LookupInv
  <1> QED
    BY <1>4, <1>5, <1>6 DEF Main, Unblock, StartFlush, FlushActive, FlushObjects,
       FlushReferences, FlushReads, RaiseDead, Shutdown, Join

LEMMA LookupScheduler == IInv /\ LookupInv /\ Scheduler => LookupInv'
  <1> SUFFICES ASSUME IInv, LookupInv, Scheduler PROVE LookupInv'
    OBVIOUS
  <1>1. UNCHANGED <<uuid_objects, uuid_lookup, added>>
    BY DEF Scheduler, SchedStart, SchedPopObjects, SchedSubmit, SchedFails, SchedExit
  <1>2. \A o \in Obj : Imported(o)' = Imported(o) /\ Refused(o)' = Refused(o)
    BY SchedulerSettlesNothing
  <1>3. \A w \in Worker : pc_work'[w] = "lookup" =>
           pc_work[w] = "lookup" /\ req'[w] = req[w]
    <2>1. ASSUME NEW v \in Worker, SchedSubmit(v), NEW w \in Worker, pc_work'[w] = "lookup"
          PROVE  pc_work[w] = "lookup" /\ req'[w] = req[w]
      <3>1. PICK p :
               /\ req' = [req EXCEPT ![v] = [NoRequest EXCEPT !.objs = popped, !.refs = p]]
               /\ pc_work' = [pc_work EXCEPT ![v] = IF popped # {} THEN "objects" ELSE AfterObjects(p)]
        BY <2>1 DEF SchedSubmit
      <3> QED
        BY <2>1, <3>1 DEF IInv, TypeInv, WorkOK, AfterObjects
    <2> QED
      BY <2>1 DEF Scheduler, SchedStart, SchedPopObjects, SchedFails, SchedExit
  <1>4. \A w \in Worker : pc_work'[w] = "lookup" =>
           Processed(req'[w]) \subseteq req'[w].imported \cup req'[w].failed
    BY <1>3 DEF LookupInv, Processed
  <1>5. batch_references' \subseteq batch_references
    BY DEF Scheduler, SchedStart, SchedPopObjects, SchedSubmit, SchedFails, SchedExit
  <1> QED
    BY <1>1, <1>2, <1>4, <1>5 DEF LookupInv

LEMMA LookupWork == ASSUME IInv, LookupInv, NEW w \in Worker, Work(w) PROVE LookupInv'
  <1>0. /\ pc_work \in [Worker -> {"idle", "objects", "lookup", "record", "references", "finish"}]
        /\ req \in [Worker -> Request]
    BY DEF IInv, TypeInv, WorkOK
  <1>1. UNCHANGED <<added, batch_references>>
    BY DEF Work, ObjectsAnswered, AllObjectsFailed, CallFails, ReleaseLookup, RecordObjects,
           SendReferences, FinishRequest
  <1>2. uuid_objects' = {}
    BY DEF Work, ObjectsAnswered, AllObjectsFailed, CallFails, ReleaseLookup, RecordObjects,
           SendReferences, FinishRequest, LookupInv
  <1>3. \A v \in Worker \ {w} : pc_work'[v] = pc_work[v] /\ req'[v] = req[v]
    <2>1. CASE ObjectsAnswered(w) \/ AllObjectsFailed(w) \/ CallFails(w)
      <3>1. PICK ok, again, known : Requeue(w, ok, again, known)
        BY <2>1, AnsweredIs DEF IInv
      <3> QED
        BY <1>0, <3>1 DEF Requeue
    <2>2. CASE ReleaseLookup(w) \/ RecordObjects(w) \/ SendReferences(w) \/ FinishRequest(w)
      BY <1>0, <2>2 DEF ReleaseLookup, RecordObjects, SendReferences, FinishRequest
    <2> QED
      BY <2>1, <2>2 DEF Work
  <1>4. \A v \in Worker \ {w} : pc_work'[v] = "lookup" =>
           Processed(req'[v]) \subseteq req'[v].imported \cup req'[v].failed
    BY <1>3 DEF LookupInv, Processed
  <1>5. CASE ObjectsAnswered(w) \/ AllObjectsFailed(w) \/ CallFails(w)
    <2>1. /\ \A o \in Obj : (Imported(o) => Imported(o)') /\ (Refused(o) => Refused(o)')
          /\ Processed(req'[w]) \subseteq req'[w].imported \cup req'[w].failed
      BY <1>5, AnswerSettles DEF LookupInv
    <2>2. uuid_lookup' = uuid_lookup
      BY <1>5 DEF ObjectsAnswered, AllObjectsFailed, CallFails
    <2>3. \A v \in Worker : pc_work'[v] = "lookup" =>
             Processed(req'[v]) \subseteq req'[v].imported \cup req'[v].failed
      BY <1>4, <2>1
    <2>4. \A o \in Obj \cap added : o \notin uuid_lookup => (Imported(o) \/ Refused(o))'
      BY <2>1 DEF LookupInv
    <2> QED
      BY <1>1, <1>2, <2>2, <2>3, <2>4 DEF LookupInv
  <1>6. CASE ReleaseLookup(w) \/ RecordObjects(w) \/ SendReferences(w) \/ FinishRequest(w)
    <2>1. \A o \in Obj : Imported(o)' = Imported(o) /\ Refused(o)' = Refused(o)
      BY <1>6, OthersSettleNothing
    <2>2. pc_work'[w] # "lookup"
      BY <1>0, <1>6 DEF ReleaseLookup, RecordObjects, SendReferences, FinishRequest, AfterObjects
    <2>3. \A v \in Worker : pc_work'[v] = "lookup" =>
             Processed(req'[v]) \subseteq req'[v].imported \cup req'[v].failed
      BY <1>4, <2>2
    <2>4. ASSUME NEW o \in Obj \cap added, o \notin uuid_lookup' PROVE Imported(o) \/ Refused(o)
      <3>1. CASE o \notin uuid_lookup
        BY <3>1 DEF LookupInv
      <3>2. CASE o \in uuid_lookup
        <4>1. ReleaseLookup(w) /\ o \in Processed(req[w])
          BY <1>6, <2>4, <3>2 DEF ReleaseLookup, RecordObjects, SendReferences, FinishRequest
        <4>2. o \in req[w].imported \cup req[w].failed
          BY <4>1 DEF ReleaseLookup, LookupInv
        <4> QED
          BY <4>2 DEF Imported, Refused
      <3> QED
        BY <3>1, <3>2
    <2>5. \A o \in Obj \cap added : o \notin uuid_lookup' => (Imported(o) \/ Refused(o))'
      BY <2>1, <2>4
    <2> QED
      BY <1>1, <1>2, <2>3, <2>5 DEF LookupInv
  <1> QED
    BY <1>5, <1>6 DEF Work

LEMMA LookupNext == ASSUME IInv, LookupInv, [Next]_vars PROVE LookupInv'
  <1>1. ASSUME UNCHANGED <<uuid_objects, uuid_lookup, added, batch_references, workVars, resultVars>>
        PROVE  LookupInv'
    <2>1. \A o \in Obj : Imported(o)' = Imported(o) /\ Refused(o)' = Refused(o)
      BY <1>1, OutcomesStay
    <2> QED
      BY <1>1, <2>1 DEF LookupInv, Processed
  <1>2. CASE Rescale \/ Finished \/ UNCHANGED vars
    BY <1>1, <1>2 DEF Rescale, Finished, vars
  <1>3. CASE Main
    BY <1>3, LookupMain
  <1>4. CASE Scheduler
    BY <1>4, LookupScheduler
  <1>5. ASSUME NEW w \in Worker, Work(w) PROVE LookupInv'
    BY <1>5, LookupWork
  <1> QED
    BY <1>2, <1>3, <1>4, <1>5 DEF Next, Others

LEMMA ImportInit == Init => Import!Init
  BY DEF Init, Import!Init, status, NoRequest, Released

LEMMA ImportStutters == status' = status /\ UNCHANGED <<added, batch_references>> => UNCHANGED Import!vars
  BY DEF Import!vars, Released

LEMMA ImportMain == IInv /\ LookupInv /\ Main => [Import!Next]_(Import!vars)
  <1> SUFFICES ASSUME IInv, LookupInv, Main PROVE [Import!Next]_(Import!vars)
    OBVIOUS
  <1>1. UNCHANGED <<succeeded, failed_objects, req>>
    BY DEF Main, AddObject, AddReference, Unblock, StartFlush, FlushActive, FlushObjects,
           FlushReferences, FlushReads, RaiseDead, Shutdown, Join
  <1>2. \A o \in Obj : Imported(o)' = Imported(o) /\ Refused(o)' = Refused(o)
    BY <1>1, OutcomesStay
  <1>3. ASSUME NEW o \in Obj, AddObject(o) PROVE Import!Submit(o)
    <2>1. o \notin added /\ added' = added \cup {o} /\ batch_references' = batch_references
      BY <1>3 DEF AddObject
    <2>2. Where(o) = 0
      BY <2>1, WhereNat DEF IInv, PlaceInv, Due
    <2>3. Cardinality(Carriers(o)) = 0 /\ succeeded[o] = 0 /\ failed_objects[o] = 0
      <3> DEFINE queued == IF o \in batch_objects THEN 1 ELSE 0
                 held == IF o \in popped THEN 1 ELSE 0
      <3>1. queued \in Nat /\ held \in Nat
        OBVIOUS
      <3>2. Cardinality(Carriers(o)) + (succeeded[o] + failed_objects[o]) + queued + held = 0
        BY <2>2 DEF Where, Outcomes
      <3> HIDE DEF queued, held
      <3>3. Cardinality(Carriers(o)) \in Nat /\ succeeded[o] \in Nat /\ failed_objects[o] \in Nat
        BY WhereNat DEF IInv
      <3>4. \A a, b, c, d, e \in Nat : a + (b + c) + d + e = 0 => a = 0 /\ b = 0 /\ c = 0
        OBVIOUS
      <3> QED
        BY <3>1, <3>2, <3>3, <3>4
    <2>4. Carriers(o) = {}
      BY <2>3, CarriersCard
    <2>5. ~Imported(o) /\ ~Refused(o)
      BY <2>3, <2>4 DEF Imported, Refused, Carriers
    <2>6. status[o] = "new" /\ status'[o] = "pending"
      BY <1>2, <2>1, <2>5 DEF status, Imported, Refused
    <2>7. \A x \in Obj \ {o} : status'[x] = status[x]
      BY <1>1, <2>1 DEF status
    <2>8. status' = [status EXCEPT ![o] = "pending"]
      BY <2>6, <2>7 DEF status
    <2>9. Released' = Released
      BY <2>1 DEF Released
    <2> QED
      BY <2>6, <2>8, <2>9 DEF Import!Submit
  <1>4. ASSUME NEW r \in Ref, AddReference(r) PROVE UNCHANGED Import!vars
    <2>1. /\ r \notin added /\ added' = added \cup {r} /\ r \notin Obj
          /\ batch_references' = batch_references \cup {r}
      BY <1>4 DEF AddReference
    <2>2. status' = status
      BY <1>2, <2>1, StatusStays
    <2>3. Released' = Released
      BY <2>1 DEF Released
    <2> QED
      BY <2>2, <2>3 DEF Import!vars
  <1>5. CASE UNCHANGED <<added, batch_references>>
    BY <1>2, <1>5, StatusStays, ImportStutters
  <1> QED
    BY <1>3, <1>4, <1>5 DEF Main, Unblock, StartFlush, FlushActive, FlushObjects, FlushReferences,
       FlushReads, RaiseDead, Shutdown, Join, Import!Next

LEMMA ImportScheduler == IInv /\ LookupInv /\ Scheduler => [Import!Next]_(Import!vars)
  <1> SUFFICES ASSUME IInv, LookupInv, Scheduler PROVE [Import!Next]_(Import!vars)
    OBVIOUS
  <1>1. added' = added
    BY DEF Scheduler, SchedStart, SchedPopObjects, SchedSubmit, SchedFails, SchedExit
  <1>2. status' = status
    BY <1>1, SchedulerSettlesNothing, StatusStays
  <1>3. PICK p \in SUBSET Eligible : batch_references' = batch_references \ p
    <2>1. CASE \E w \in Worker : SchedSubmit(w)
      BY <2>1, PopsPart DEF SchedSubmit
    <2>2. CASE SchedFails
      BY <2>2, PopsPart DEF SchedFails
    <2>3. CASE UNCHANGED batch_references
      <3>1. batch_references' = batch_references \ {}
        BY <2>3
      <3> QED
        BY <3>1
    <2> QED
      BY <2>1, <2>2, <2>3 DEF Scheduler, SchedStart, SchedPopObjects, SchedExit
  <1>4. p \subseteq Ref \cap added /\ \A r \in p : Endpoints[r] \subseteq added \ uuid_lookup
    BY DEF Eligible, LookupInv, IInv, TypeInv, QueuesOK
  <1>5. Released' = Released \cup p
    BY <1>1, <1>3, <1>4 DEF Released
  <1>6. ASSUME NEW r \in p, NEW o \in Obj, o \in Endpoints[r] PROVE status[o] \in {"imported", "failed"}
    <2>1. Imported(o) \/ Refused(o)
      BY <1>4, <1>6 DEF LookupInv
    <2> QED
      BY <2>1 DEF status, Imported, Refused
  <1>7. Import!Release(p)
    BY <1>2, <1>5, <1>6 DEF Import!Release
  <1> QED
    BY <1>4, <1>7 DEF Import!Next

LEMMA ImportWork == ASSUME IInv, NEW w \in Worker, Work(w) PROVE [Import!Next]_(Import!vars)
  <1>1. UNCHANGED <<added, batch_references>>
    BY DEF Work, ObjectsAnswered, AllObjectsFailed, CallFails, ReleaseLookup, RecordObjects,
           SendReferences, FinishRequest
  <1>2. CASE ObjectsAnswered(w) \/ AllObjectsFailed(w) \/ CallFails(w)
    <2>1. PICK ok \in SUBSET req[w].objs, bad \in SUBSET req[w].objs :
             /\ ok \cap bad = {}
             /\ \A o \in Obj : /\ Imported(o)' <=> Imported(o) \/ o \in ok
                               /\ Refused(o)' <=> Refused(o) \/ o \in bad
      BY <1>2, AnswerSettles
    <2>2. pc_work[w] = "objects"
      BY <1>2 DEF ObjectsAnswered, AllObjectsFailed, CallFails
    <2>3. \A o \in ok \cup bad : o \in Obj /\ o \in added /\ ~Imported(o) /\ ~Refused(o)
      BY <2>2, Unsettled
    <2>4. \A o \in ok \cup bad : status[o] = "pending"
      BY <2>3 DEF status, Imported, Refused
    <2>5. status' = [o \in Obj |-> IF o \in ok THEN "imported"
                                   ELSE IF o \in bad THEN "failed" ELSE status[o]]
      <3>1. status' = [o \in Obj |-> IF Imported(o)' THEN "imported" ELSE IF Refused(o)' THEN "failed"
                                     ELSE IF o \in added' THEN "pending" ELSE "new"]
        BY DEF status, Imported, Refused
      <3>2. \A o \in Obj : status[o] = IF Imported(o) THEN "imported" ELSE IF Refused(o) THEN "failed"
                                       ELSE IF o \in added THEN "pending" ELSE "new"
        BY DEF status, Imported, Refused
      <3>3. ASSUME NEW o \in Obj
            PROVE  (IF Imported(o)' THEN "imported" ELSE IF Refused(o)' THEN "failed"
                    ELSE IF o \in added' THEN "pending" ELSE "new")
                   = (IF o \in ok THEN "imported" ELSE IF o \in bad THEN "failed" ELSE status[o])
        BY <1>1, <2>1, <2>3, <3>2
      <3> QED
        BY <3>1, <3>3
    <2>6. Released' = Released
      BY <1>1 DEF Released
    <2>7. Import!Settle(ok, bad)
      BY <2>1, <2>4, <2>5, <2>6 DEF Import!Settle
    <2>8. ok \in SUBSET Obj /\ bad \in SUBSET Obj
      BY <2>3
    <2> QED
      BY <2>7, <2>8 DEF Import!Next
  <1>3. CASE ReleaseLookup(w) \/ RecordObjects(w) \/ SendReferences(w) \/ FinishRequest(w)
    <2>1. status' = status
      BY <1>1, <1>3, OthersSettleNothing, StatusStays
    <2> QED
      BY <1>1, <2>1, ImportStutters
  <1> QED
    BY <1>2, <1>3 DEF Work

LEMMA ImportNext == ASSUME IInv, LookupInv, [Next]_vars PROVE [Import!Next]_(Import!vars)
  <1>1. ASSUME UNCHANGED <<added, batch_references, succeeded, failed_objects, req>>
        PROVE  [Import!Next]_(Import!vars)
    <2>1. status' = status
      BY <1>1, OutcomesStay, StatusStays
    <2> QED
      BY <1>1, <2>1, ImportStutters
  <1>2. CASE Rescale \/ Finished \/ UNCHANGED vars
    BY <1>1, <1>2 DEF Rescale, Finished, vars
  <1>3. CASE Main
    BY <1>3, ImportMain
  <1>4. CASE Scheduler
    BY <1>4, ImportScheduler
  <1>5. ASSUME NEW w \in Worker, Work(w) PROVE [Import!Next]_(Import!vars)
    BY <1>5, ImportWork
  <1> QED
    BY <1>2, <1>3, <1>4, <1>5 DEF Next, Others

\* For every schedule and every failure the client-side batch keeps the promise of
\* BatchImport, if it generates no uuid: no object is settled twice, and no reference
\* leaves before the objects it connects are settled.
THEOREM ClientImplementsImport == ASSUME Generated = {} PROVE Spec => ImplementsImport
  <1>1. Init => LookupInv
    BY LookupInit
  <1>2. IInv /\ LookupInv /\ [Next]_vars => LookupInv'
    BY LookupNext
  <1>3. Spec => [](IInv /\ LookupInv)
    BY <1>1, <1>2, Inductive, PTL DEF Spec
  <1>4. IInv /\ LookupInv /\ [Next]_vars => [Import!Next]_(Import!vars)
    BY ImportNext
  <1> QED
    BY <1>3, <1>4, ImportInit, PTL DEF Spec, ImplementsImport, Import!Spec
=============================================================================
