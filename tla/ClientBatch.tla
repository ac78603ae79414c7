---------------------------- MODULE ClientBatch ----------------------------
(***************************************************************************)
(* The client-side batch of weaviate/collections/batch/base.py, class      *)
(* _BatchBase, behind batch.dynamic, batch.fixed_size and batch.rate_limit.*)
(*                                                                         *)
(*   Main       the user's thread: _add_object, _add_reference, flush and  *)
(*              the exit of the context manager (_shutdown);               *)
(*   Scheduler  the thread BgBatchScheduler: __batch_send;                 *)
(*   Worker     a thread of the executor that runs __send_batch;           *)
(*   Rescale    the thread BgDynamicBatchRate: __dynamic_batching.         *)
(*                                                                         *)
(* An object stands for its uuid (the user adds every uuid once), and a    *)
(* queue is a set: nothing depends on which queued item is popped first.   *)
(***************************************************************************)
EXTENDS FiniteSets, DynamicBatch

CONSTANTS
    Obj, Ref,         \* the objects and references the user may add
    Endpoints,        \* Endpoints[r]: the objects of Obj that r connects
    Generated,        \* the objects whose uuid the client generates
    Rejectable,       \* the objects and references the server may refuse
    Worker,           \* the threads of the executor
    NumRefs,          \* __recommended_num_refs (50)
    NumObjects,       \* __recommended_num_objects before the first Rescale
    Modes,            \* how sizes may be found, see mode
    Loads,            \* the server's <<rate, length>>, see DynamicBatch
    MaxStops,         \* bound: how often its queue is so long that nothing may be sent
    RetryLimit,       \* the retry_count above which it gives up (5)
    MaxThrottles,     \* bound: how often the vectorizer refuses to work
    Env               \* what the environment may do, a subset of EnvEvents

EnvEvents ==
    { "call_fails",    \* a request fails as a whole, e.g. with a timeout
      "submit_fails",  \* the executor does not accept the request
      "preempt" }      \* Main may lose the CPU between the three reads of flush

ModeType ==
    { "fixed",         \* fixed_size or rate_limit
      "async",         \* dynamic, and the server indexes asynchronously: it has no queue
      "queue",         \* dynamic, by the server's queue
      "vectorizer" }   \* dynamic, by the time requests take

ASSUME ConstantsOK ==
    /\ IsFiniteSet(Obj) /\ IsFiniteSet(Ref) /\ IsFiniteSet(Worker)
    /\ Endpoints \in [Ref -> SUBSET Obj]
    /\ Generated \subseteq Obj
    /\ NumRefs \in Nat /\ NumObjects \in Nat /\ MaxStops \in Nat
    /\ Modes \subseteq ModeType /\ Loads \subseteq Nat \X Nat
    /\ RetryLimit \in Nat /\ MaxThrottles \in Nat
    /\ Env \subseteq EnvEvents
    /\ Obj \cap Ref = {}
    /\ BaseRequests <= Cardinality(Worker)  \* ThreadPoolExecutor() has five threads or more

VARIABLES
    batch_objects,    \* __batch_objects
    batch_references, \* __batch_references
    uuid_lookup,      \* __uuid_lookup: uuids the server has not processed
    active_requests,  \* __active_requests
    num_objects,      \* __recommended_num_objects
    concurrent_requests, \* __concurrent_requests
    mode,             \* __batching_mode and __vectorizer_batching
    stops,            \* how often num_objects became 0
    stopped,          \* is __shut_background_thread_down set
    pc_main,          \* where Main is
    leaving,          \* is its flush the one of _shutdown
    added,            \* the items added so far
    raised,           \* did a call of the batch raise an exception
    pc_sched,         \* where Scheduler is
    popped,           \* the objects it has popped and not yet submitted
    pc_work,          \* where each worker is
    req,              \* its request, and what came of the objects
    retry_count,      \* the retry_count of the BatchObject in use
    uuid_objects,     \* the objects whose BatchObject.uuid is not a str
    throttles,        \* how often the vectorizer has refused to work
    sends,            \* how often each object has been sent
    succeeded,        \* how often results.objs lists the object's uuid
    failed_objects,   \* how often failed_objects lists the object
    failed_references \* how often failed_references lists the reference

queueVars  == <<batch_objects, batch_references>>
mainVars   == <<pc_main, leaving, added, raised, stopped>>
schedVars  == <<pc_sched, popped>>
workVars   == <<pc_work, req>>
objectVars == <<retry_count, uuid_objects, throttles, sends>>
resultVars == <<succeeded, failed_objects, failed_references>>
scaleVars  == <<num_objects, concurrent_requests, mode, stops>>
vars == <<queueVars, uuid_lookup, active_requests, scaleVars, mainVars, schedVars, workVars,
          objectVars, resultVars>>

mainFrame  == <<active_requests, scaleVars, schedVars, workVars, objectVars, resultVars>>
schedFrame == <<uuid_lookup, scaleVars, mainVars, resultVars, retry_count, uuid_objects,
                throttles>>
workFrame  == <<scaleVars, mainVars, schedVars, batch_references, sends>>
-----------------------------------------------------------------------------
\* pop_items: n items of a queue, or all of them.
Pops(S, n) == {p \in SUBSET S : Cardinality(p) = Smaller(n, Cardinality(S))}

\* ReferencesBatchRequest.__pop_items skips the references to or from an
\* object that the server has not processed.
Eligible == {r \in batch_references : Endpoints[r] \cap uuid_lookup = {}}

NoRequest == [objs |-> {}, refs |-> {}, imported |-> {}, failed |-> {}, readded |-> {}]
Request == [objs : SUBSET Obj, refs : SUBSET Ref, imported : SUBSET Obj,
            failed : SUBSET Obj, readded : SUBSET Obj]

\* __check_bg_threads_alive
Alive == pc_sched # "exited"

\* _add_object waits while the queue is long or Weaviate is overloaded.
IsBlocked == num_objects = 0 \/ Cardinality(batch_objects) >= 2 * num_objects

\* The objects that are tried again because of a busy vectorizer.  The errors of
\* an answer hold BatchObjects that _from_internal has made from what
\* _to_internal keeps: their retry_count is 0.
Retried(slow) == {o \in slow : retry_count[o] <= RetryLimit}

\* What leaves __uuid_lookup after a request: every object but the ones that are
\* tried again.
ProcessedAll(q) == q.objs                           \* mutant: the whole request
Processed(q) == q.objs \ q.readded

\* The objects of w's request that have failed for good: the ones in errors that
\* are not tried again.
FailedLost(w, ok, again) == IF again = {} THEN req[w].objs \ ok ELSE {}  \* mutant
Failed(w, ok, again) == req[w].objs \ (ok \cup again)

\* The counter after Scheduler has begun a request.
Uncounted == active_requests                        \* mutant: no increment
Counted == active_requests + 1

\* Where __send_batch goes on after the objects.
AfterObjectsReturn(refs) == IF refs # {} THEN "references" ELSE "idle"  \* mutant
AfterObjects(refs) == IF refs # {} THEN "references" ELSE "finish"

\* Between the reads of flush the other threads run only when Main is preempted.
MayRun == "preempt" \in Env \/ pc_main \notin {"flush_objects", "flush_references"}
-----------------------------------------------------------------------------
Init ==
    /\ batch_objects = {} /\ batch_references = {} /\ uuid_lookup = {}
    /\ active_requests = 0
    /\ mode \in Modes /\ stops = 0
    /\ num_objects = IF mode = "vectorizer" THEN VECTORIZER_BATCHING_STEP_SIZE ELSE NumObjects
    /\ concurrent_requests = IF mode = "fixed" THEN Cardinality(Worker) ELSE BaseRequests
    /\ pc_main = "ready" /\ leaving = FALSE /\ added = {} /\ raised = FALSE
    /\ stopped = FALSE
    /\ pc_sched = "top" /\ popped = {}
    /\ pc_work = [w \in Worker |-> "idle"] /\ req = [w \in Worker |-> NoRequest]
    /\ retry_count = [o \in Obj |-> 0] /\ uuid_objects = Generated
    /\ throttles = 0 /\ sends = [o \in Obj |-> 0]
    /\ succeeded = [o \in Obj |-> 0] /\ failed_objects = [o \in Obj |-> 0]
    /\ failed_references = [r \in Ref |-> 0]
-----------------------------------------------------------------------------
(* Main *)

\* _add_object, up to the loop that waits.
AddObject(o) ==
    /\ pc_main = "ready" /\ ~leaving /\ Alive
    /\ o \notin added
    /\ added' = added \cup {o}
    /\ uuid_lookup' = uuid_lookup \cup {o}
    /\ batch_objects' = batch_objects \cup {o}
    /\ pc_main' = "blocked"
    /\ UNCHANGED <<mainFrame, batch_references, leaving, raised, stopped>>

\* _add_reference: a program adds a reference after the objects it connects.
AddReference(r) ==
    /\ pc_main = "ready" /\ ~leaving /\ Alive
    /\ r \notin added /\ Endpoints[r] \subseteq added
    /\ added' = added \cup {r}
    /\ batch_references' = batch_references \cup {r}
    /\ pc_main' = "blocked_ref"
    /\ UNCHANGED <<mainFrame, batch_objects, uuid_lookup, leaving, raised, stopped>>

Unblock ==
    /\ \/ pc_main = "blocked" /\ ~IsBlocked
       \/ pc_main = "blocked_ref" /\ num_objects # 0
    /\ pc_main' = "ready"
    /\ UNCHANGED <<mainFrame, queueVars, uuid_lookup, leaving, added, raised, stopped>>

\* flush, called by the user or by _shutdown.
StartFlush ==
    /\ pc_main = "ready"
    /\ leaving' \in BOOLEAN /\ (leaving => leaving')
    /\ pc_main' = "flush"
    /\ UNCHANGED <<mainFrame, queueVars, uuid_lookup, added, raised, stopped>>

\* Its condition reads the counter and then the two queues, without a lock.
FlushReads(here, isZero, next) ==
    /\ pc_main = here /\ (isZero \/ Alive)
    /\ pc_main' = IF isZero THEN next ELSE "flush"
    /\ pc_main' # pc_main
    /\ UNCHANGED <<mainFrame, queueVars, uuid_lookup, leaving, added, raised, stopped>>

FlushActiveSkipped == FlushReads("flush", TRUE, "flush_objects")   \* mutant
FlushActive     == FlushReads("flush", active_requests = 0, "flush_objects")
FlushObjects    == FlushReads("flush_objects", batch_objects = {}, "flush_references")
FlushReferences == FlushReads("flush_references", batch_references = {},
                              IF leaving THEN "stop" ELSE "ready")

\* __check_bg_threads_alive raises at the start of a call and while it waits;
\* the exception leaves the with block, whose exit calls _shutdown and so flush.
RaiseDead ==
    /\ ~Alive /\ ~stopped
    /\ \/ pc_main = "ready" /\ added # Obj \cup Ref
       \/ pc_main = "blocked" /\ IsBlocked
       \/ pc_main = "blocked_ref" /\ num_objects = 0
       \/ pc_main = "flush" /\ active_requests > 0
       \/ pc_main = "flush_objects" /\ batch_objects # {}
       \/ pc_main = "flush_references" /\ batch_references # {}
    /\ raised' = TRUE /\ leaving' = TRUE
    /\ pc_main' = IF leaving THEN "done" ELSE "flush"
    /\ UNCHANGED <<mainFrame, queueVars, uuid_lookup, added, stopped>>

\* _shutdown after its flush: stop the scheduler ...
Shutdown ==
    /\ pc_main = "stop"
    /\ stopped' = TRUE
    /\ pc_main' = "join"
    /\ UNCHANGED <<mainFrame, queueVars, uuid_lookup, leaving, added, raised>>

\* ... wait for it to end and hand the results to the user.
Join ==
    /\ pc_main = "join" /\ ~Alive
    /\ pc_main' = "done"
    /\ UNCHANGED <<mainFrame, queueVars, uuid_lookup, leaving, added, raised, stopped>>

Main == \/ \E o \in Obj : AddObject(o)
        \/ \E r \in Ref : AddReference(r)
        \/ Unblock \/ StartFlush \/ FlushActive \/ FlushObjects \/ FlushReferences
        \/ RaiseDead \/ Shutdown \/ Join
-----------------------------------------------------------------------------
(* Scheduler *)

\* Count the request, then wait for the queues to fill for a while.
SchedStart ==
    /\ MayRun /\ pc_sched = "top" /\ ~stopped
    /\ active_requests < concurrent_requests
    /\ batch_objects \cup batch_references # {}
    /\ active_requests' = Counted
    /\ pc_sched' = "gather"
    /\ UNCHANGED <<schedFrame, queueVars, popped, workVars, sends>>

SchedPopObjects ==
    /\ MayRun /\ pc_sched = "gather"
    /\ \E p \in Pops(batch_objects, num_objects) :
          popped' = p /\ batch_objects' = batch_objects \ p
    /\ pc_sched' = "pop_refs"
    /\ UNCHANGED <<schedFrame, batch_references, active_requests, workVars, sends>>

\* The references are popped without __uuid_lookup_lock, then the executor
\* gets the request, whatever it contains.
SchedSubmit(w) ==
    /\ MayRun /\ pc_sched = "pop_refs" /\ pc_work[w] = "idle"
    /\ \E p \in Pops(Eligible, NumRefs) :
          /\ batch_references' = batch_references \ p
          /\ req' = [req EXCEPT ![w] = [NoRequest EXCEPT !.objs = popped, !.refs = p]]
          /\ pc_work' = [pc_work EXCEPT ![w] = IF popped # {} THEN "objects"
                                                              ELSE AfterObjects(p)]
    /\ sends' = [o \in Obj |-> IF o \in popped THEN sends[o] + 1 ELSE sends[o]]
    /\ popped' = {} /\ pc_sched' = "top"
    /\ UNCHANGED <<schedFrame, batch_objects, active_requests>>

\* An executor that has been shut down raises; what was popped is dropped.
SchedFails ==
    /\ MayRun /\ pc_sched = "pop_refs" /\ "submit_fails" \in Env
    /\ \E p \in Pops(Eligible, NumRefs) : batch_references' = batch_references \ p
    /\ popped' = {} /\ pc_sched' = "exited"
    /\ UNCHANGED <<schedFrame, batch_objects, active_requests, workVars, sends>>

SchedExit ==
    /\ MayRun /\ pc_sched = "top" /\ stopped
    /\ pc_sched' = "exited"
    /\ UNCHANGED <<schedFrame, queueVars, popped, active_requests, workVars, sends>>

Scheduler == SchedStart \/ SchedPopObjects \/ (\E w \in Worker : SchedSubmit(w))
               \/ SchedFails \/ SchedExit
-----------------------------------------------------------------------------
(* Worker *)

\* A request's objects: ok are imported, bad are refused, slow wait for a
\* vectorizer that is busy.
Answer(w, ok, bad, slow) ==
    /\ ok \cup bad \cup slow = req[w].objs
    /\ ok \cap (bad \cup slow) = {} /\ bad \cap slow = {}
    /\ bad \subseteq Rejectable
    /\ IF slow = {} THEN UNCHANGED throttles
                    ELSE throttles < MaxThrottles /\ throttles' = throttles + 1

\* After the call __send_batch puts the objects it tries again into the queue.
Requeue(w, ok, again, known) ==
    /\ batch_objects' = batch_objects \cup again
    /\ req' = [req EXCEPT ![w].imported = ok, ![w].failed = Failed(w, ok, again),
                          ![w].readded = known]
    /\ pc_work' = [pc_work EXCEPT ![w] = "lookup"]

\* The server answers object by object.  Every error holds a new BatchObject:
\* it starts with retry_count 0 and has its uuid as a str, so a uuid.UUID in the
\* request is not found among the uuids that are tried again.
ObjectsAnswered(w) ==
    /\ MayRun /\ pc_work[w] = "objects"
    /\ \E ok, bad, slow \in SUBSET req[w].objs :
          /\ Answer(w, ok, bad, slow) /\ ok # {}
          /\ Requeue(w, ok, slow, slow \ uuid_objects)
          /\ retry_count' = [o \in Obj |-> IF o \in slow THEN 1 ELSE retry_count[o]]
          /\ uuid_objects' = uuid_objects \ slow
    /\ UNCHANGED <<workFrame, uuid_lookup, active_requests, resultVars>>

\* An answer without a success raises, with the messages of all the errors in
\* one: the request's own BatchObjects are tried again if one of them was slow.
AllObjectsFailed(w) ==
    /\ MayRun /\ pc_work[w] = "objects"
    /\ \E bad, slow \in SUBSET req[w].objs :
          /\ Answer(w, {}, bad, slow)
          /\ LET again == IF slow = {} THEN {} ELSE Retried(req[w].objs)
             IN /\ Requeue(w, {}, again, again)
                /\ retry_count' = [o \in Obj |-> IF o \in again THEN retry_count[o] + 1
                                                                ELSE retry_count[o]]
    /\ UNCHANGED <<workFrame, uuid_lookup, active_requests, resultVars, uuid_objects>>

\* The call raises for another reason: every object of the request has failed.
CallFails(w) ==
    /\ MayRun /\ pc_work[w] = "objects" /\ "call_fails" \in Env
    /\ Requeue(w, {}, {}, {})
    /\ UNCHANGED <<workFrame, uuid_lookup, active_requests, resultVars, retry_count,
                   uuid_objects, throttles>>

\* Under __uuid_lookup_lock, after the sleep that gives the vectorizer time.
ReleaseLookup(w) ==
    /\ MayRun /\ pc_work[w] = "lookup"
    /\ uuid_lookup' = uuid_lookup \ Processed(req[w])
    /\ pc_work' = [pc_work EXCEPT ![w] = "record"]
    /\ UNCHANGED <<workFrame, batch_objects, active_requests, resultVars, req, retry_count,
                   uuid_objects, throttles>>

\* Under __results_lock.
RecordObjects(w) ==
    /\ MayRun /\ pc_work[w] = "record"
    /\ succeeded' = [o \in Obj |-> succeeded[o] + IF o \in req[w].imported THEN 1 ELSE 0]
    /\ failed_objects' = [o \in Obj |-> failed_objects[o] + IF o \in req[w].failed THEN 1 ELSE 0]
    /\ req' = [req EXCEPT ![w] = [NoRequest EXCEPT !.refs = req[w].refs]]
    /\ pc_work' = [pc_work EXCEPT ![w] = AfterObjects(req[w].refs)]
    /\ UNCHANGED <<workFrame, batch_objects, uuid_lookup, active_requests,
                   failed_references, retry_count, uuid_objects, throttles>>

\* The references of the request: a failure of the call fails all of them.
SendReferences(w) ==
    /\ MayRun /\ pc_work[w] = "references"
    /\ \E bad \in SUBSET req[w].refs :
          /\ bad \subseteq Rejectable \/ (bad = req[w].refs /\ "call_fails" \in Env)
          /\ failed_references' = [r \in Ref |-> failed_references[r] + IF r \in bad THEN 1 ELSE 0]
    /\ pc_work' = [pc_work EXCEPT ![w] = "finish"]
    /\ UNCHANGED <<workFrame, batch_objects, uuid_lookup, active_requests, req, succeeded,
                   failed_objects, retry_count, uuid_objects, throttles>>

FinishRequest(w) ==
    /\ MayRun /\ pc_work[w] = "finish"
    /\ active_requests' = active_requests - 1
    /\ pc_work' = [pc_work EXCEPT ![w] = "idle"]
    /\ req' = [req EXCEPT ![w] = NoRequest]
    /\ UNCHANGED <<workFrame, batch_objects, uuid_lookup, resultVars, retry_count,
                   uuid_objects, throttles>>

Work(w) == \/ ObjectsAnswered(w) \/ AllObjectsFailed(w) \/ CallFails(w)
           \/ ReleaseLookup(w) \/ RecordObjects(w) \/ SendReferences(w) \/ FinishRequest(w)
-----------------------------------------------------------------------------
\* __dynamic_batching.  Sizes above the number of objects are all alike, and the
\* executor has no more threads than Worker: steps to more are not taken.  In the mode
\* "vectorizer" nothing changes unless a request was begun since the last step; that is
\* left open, but for the first one.
Sized(sizes) ==
    /\ num_objects' = sizes[1] /\ concurrent_requests' = sizes[2]
    /\ num_objects' <= Cardinality(Obj) /\ concurrent_requests' <= Cardinality(Worker)
    /\ stops' = IF num_objects' = 0 /\ num_objects # 0 THEN stops + 1 ELSE stops
    /\ stops' <= MaxStops

ByQueue(rate, length) ==
    /\ mode = "queue"
    /\ \E sizes \in IF length = 0
                     THEN WhenEmpty(num_objects, concurrent_requests, Cardinality(batch_objects))
                     ELSE {WhenFilled(num_objects, concurrent_requests, rate, length)} :
          Sized(sizes)
    /\ UNCHANGED mode

ByTime(took) ==
    /\ mode = "vectorizer" /\ \E o \in Obj : sends[o] > 0
    /\ Sized(WhenTook(num_objects, concurrent_requests, took))
    /\ UNCHANGED mode

\* Without a queue the thread chooses the sizes once and ends.
SendALot ==
    /\ mode = "async" /\ mode' = "fixed"
    /\ Sized(<<max_batch_size, MAX_CONCURRENT_REQUESTS>>)

Rescale ==
    /\ MayRun /\ pc_main # "done" /\ ~stopped
    /\ \/ \E load \in Loads : ByQueue(load[1], load[2])
       \/ \E took \in Took : ByTime(took)
       \/ SendALot
    /\ UNCHANGED <<queueVars, uuid_lookup, active_requests, mainVars, schedVars, workVars,
                   objectVars, resultVars>>

\* The server has worked off its queue.
Resume == num_objects = 0 /\ Rescale /\ num_objects' > 0

\* The user has left the batch and nothing is left to run.
Finished == pc_main = "done" /\ ~Alive /\ (\A w \in Worker : pc_work[w] = "idle") /\ UNCHANGED vars

Others == Scheduler \/ (\E w \in Worker : Work(w)) \/ Rescale

Next == Main \/ Others \/ Finished

Spec == Init /\ [][Next]_vars

\* Every thread that can continue does, the server answers, and the user leaves
\* the batch in the end; flush sleeps between its attempts, so the threads it
\* waits for run again and again (SF).  The server that is sent nothing works off its
\* queue; otherwise sizes need not change.
Fairness ==
    /\ WF_vars(Unblock) /\ WF_vars(pc_main = "ready" /\ StartFlush /\ leaving')
    /\ WF_vars(FlushActive) /\ WF_vars(FlushObjects) /\ WF_vars(FlushReferences)
    /\ WF_vars(RaiseDead) /\ WF_vars(Shutdown) /\ WF_vars(Join)
    /\ SF_vars(Scheduler)
    /\ \A w \in Worker : SF_vars(Work(w))
    /\ SF_vars(Resume)

FairSpec == Spec /\ Fairness
-----------------------------------------------------------------------------
(* Correctness *)

Outcomes(o) == succeeded[o] + failed_objects[o]

\* __active_requests counts the requests that a worker has not finished and the
\* one that Scheduler is putting together: what flush and the limit on concurrent
\* requests rely on.
Busy == {w \in Worker : pc_work[w] # "idle"}
RequestsCounted == Alive => active_requests = Cardinality(Busy)
                              + (IF pc_sched = "top" THEN 0 ELSE 1)

TypeOK ==
    /\ batch_objects \subseteq Obj /\ batch_references \subseteq Ref /\ uuid_lookup \subseteq Obj
    /\ active_requests \in Nat /\ num_objects \in Nat
    /\ concurrent_requests \in 1..Cardinality(Worker) /\ mode \in ModeType /\ stops \in 0..MaxStops
    /\ pc_main \in {"ready", "blocked", "blocked_ref", "flush", "flush_objects",
                    "flush_references", "stop", "join", "done"}
    /\ leaving \in BOOLEAN /\ raised \in BOOLEAN /\ stopped \in BOOLEAN
    /\ added \subseteq Obj \cup Ref
    /\ pc_sched \in {"top", "gather", "pop_refs", "exited"} /\ popped \subseteq Obj
    /\ pc_work \in [Worker -> {"idle", "objects", "lookup", "record", "references", "finish"}]
    /\ req \in [Worker -> Request]
    /\ retry_count \in [Obj -> Nat] /\ uuid_objects \subseteq Obj
    /\ throttles \in Nat /\ sends \in [Obj -> Nat]
    /\ succeeded \in [Obj -> Nat] /\ failed_objects \in [Obj -> Nat]
    /\ failed_references \in [Ref -> Nat]

\* The requests an object is in and has not been put back into the queue from.
Carriers(o) == {w \in Worker : \/ pc_work[w] = "objects" /\ o \in req[w].objs
                               \/ o \in req[w].imported \cup req[w].failed}

\* Every object added is in exactly one place: queued, popped, in one request or
\* reported.  No retry duplicates it, none loses it.
Where(o) == Cardinality(Carriers(o)) + Outcomes(o)
               + (IF o \in batch_objects THEN 1 ELSE 0) + (IF o \in popped THEN 1 ELSE 0)
ExactlyOnce == Alive => \A o \in Obj \cap added : Where(o) = 1

\* flush returns, and with it the batch, only when everything is reported.
ReportedAtExit == (pc_main \in {"stop", "join", "done"} /\ ~raised) =>
                     \A o \in Obj \cap added : Outcomes(o) = 1

\* Leaving the batch takes an end.
Terminates == leaving ~> pc_main = "done"

\* The batch keeps the promise of BatchImport: an object is settled when the
\* answer to its request arrives, a reference is released when it is popped.
status == [o \in Obj |->
             IF succeeded[o] > 0 \/ \E w \in Worker : o \in req[w].imported THEN "imported"
             ELSE IF failed_objects[o] > 0 \/ \E w \in Worker : o \in req[w].failed THEN "failed"
             ELSE IF o \in added THEN "pending" ELSE "new"]
Released == {r \in Ref \cap added : r \notin batch_references}
Import == INSTANCE BatchImport WITH released <- Released, Enough <- {"imported", "failed"}
ImplementsImport == Import!Spec

\* -- What the documentation and the comments say, and the code does not do.

\* base.py:670 "too many retries, give up".
GivesUp == \A o \in Obj : sends[o] <= RetryLimit + 2
=============================================================================
