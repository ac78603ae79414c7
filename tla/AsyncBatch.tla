----------------------------- MODULE AsyncBatch -----------------------------
(***************************************************************************)
(* The server-side batch of weaviate/collections/batch/async_.py, class    *)
(* _BatchBaseAsync: the algorithm of StreamBatch carried out by tasks of   *)
(* one event loop.                                                         *)
(*                                                                         *)
(* A task runs without interruption up to an await that suspends it: a     *)
(* sleep, a full or empty __reqs, the stream, the connection.  No holder   *)
(* of an asyncio.Lock ever suspends, so acquiring one does not.  What is   *)
(* several steps in StreamBatch is therefore one step here; the messages   *)
(* and the generator __send, which suspend wherever StreamBatch ends a     *)
(* step, are those of StreamBatch.                                         *)
(*                                                                         *)
(* On the user's side there may be many calls at once (asyncio.gather):    *)
(* entered and waiting hold the items whose call is suspended, while       *)
(* pc_main says where the task of the "async with" block is.               *)
(***************************************************************************)
EXTENDS StreamBatch

VARIABLES
    entered,     \* items whose call is in the sleep(0) after the check
    waiting,     \* items whose call waits on __is_blocked
    objs_count,  \* __objs_count
    index        \* the index of every object added, under which its result is kept

callVars  == <<entered, waiting, objs_count, index>>
asyncVars == <<vars, callVars>>

calls == entered \cup waiting

AsyncInit ==
    /\ Init
    /\ entered = {} /\ waiting = {}
    /\ objs_count = 0 /\ index = [o \in Obj |-> 0]
-----------------------------------------------------------------------------
(* The user's tasks *)

\* What an action of the user's tasks leaves alone, pc_main and raised apart.
userFrame == <<mainFrame, item>>

\* The exception leaves the call, and with it the block; the calls gathered
\* with this one go on.
Raise == /\ raised' = TRUE
         /\ pc_main' = IF pc_main = "ready" THEN "exit" ELSE pc_main

\* _add_object and _add_reference up to their sleep(0).  A program adds a
\* reference when the calls that add its objects have returned.
Enter(x) ==
    /\ pc_main = "ready" /\ x \notin added \cup calls
    /\ x \in Ref => Endpoints[x] \subseteq added \ calls
    /\ \/ /\ Alive
          /\ entered' = entered \cup {x}
          /\ UNCHANGED <<pc_main, raised>>
       \/ /\ ~Alive /\ ~raised
          /\ Raise
          /\ UNCHANGED entered
    /\ UNCHANGED <<userFrame, queueVars, uuid_lookup, cacheVars, added, events, waiting,
                   objs_count, index>>

\* After the item is queued and cached the call tests __is_blocked once more.
ReturnOrWait(x) ==
    \/ /\ ~IsBlocked
       /\ UNCHANGED <<waiting, pc_main, raised>>
    \/ /\ IsBlocked /\ Alive
       /\ waiting' = waiting \cup {x}
       /\ UNCHANGED <<pc_main, raised>>
    \/ /\ IsBlocked /\ ~Alive
       /\ Raise
       /\ UNCHANGED waiting

\* The rest of _add_object in one step: the index is read and __objs_count
\* incremented, the object queued and cached, with no other task in between.
IndexByLookup(o) == Cardinality(uuid_lookup)      \* mutant: indices are reused
Index(o) == objs_count

AddObjectAsync(o) ==
    /\ o \in entered
    /\ entered' = entered \ {o} /\ added' = added \cup {o}
    /\ uuid_lookup' = uuid_lookup \cup {o}
    /\ batch_objects' = batch_objects (+) Once(Obj, {o})
    /\ objs_cache' = objs_cache \cup {o}
    /\ index' = [index EXCEPT ![o] = Index(o)] /\ objs_count' = objs_count + 1
    /\ ReturnOrWait(o)
    /\ UNCHANGED <<userFrame, batch_references, refs_cache, events>>

AddReferenceAsync(r) ==
    /\ r \in entered
    /\ entered' = entered \ {r} /\ added' = added \cup {r}
    /\ batch_references' = batch_references (+) Once(Ref, {r})
    /\ refs_cache' = [refs_cache EXCEPT ![Beacon[r]] = r]
    /\ ReturnOrWait(r)
    /\ UNCHANGED <<userFrame, batch_objects, uuid_lookup, objs_cache, events, objs_count,
                   index>>

\* A call that waits wakes up after 10 ms.
Wake(x) ==
    /\ x \in waiting
    /\ \/ /\ ~IsBlocked
          /\ UNCHANGED <<pc_main, raised>>
       \/ /\ IsBlocked /\ ~Alive
          /\ Raise
    /\ waiting' = waiting \ {x}
    /\ UNCHANGED <<userFrame, queueVars, uuid_lookup, cacheVars, added, events, entered,
                   objs_count, index>>

\* flush looks at the two queues and at nothing else.
FlushEnds == Support(batch_objects) = {} /\ Support(batch_references) = {}

FlushAsync ==
    /\ \/ pc_main = "ready" /\ calls = {} /\ pc_main' = "flush"
       \/ pc_main = "flush" /\ FlushEnds /\ pc_main' = "ready"
    /\ UNCHANGED <<userFrame, queueVars, uuid_lookup, cacheVars, added, raised, events,
                   callVars>>

\* __aexit__: _shutdown, and _wait as far as its wait_for.
ShutdownAsync ==
    /\ pc_main = "exit" \/ (pc_main = "ready" /\ calls = {})
    /\ events' = events \cup {"stopped"}
    /\ pc_main' = "wait"
    /\ UNCHANGED <<userFrame, queueVars, uuid_lookup, cacheVars, added, raised, callVars>>

\* wait_for returns when both tasks have ended, whatever ended them ...
WaitAsync ==
    /\ pc_main = "wait" /\ pc_loop = "exited" /\ pc_recv = "exited"
    /\ pc_main' = "done"
    /\ UNCHANGED <<userFrame, queueVars, uuid_lookup, cacheVars, added, raised, events,
                   callVars>>

\* ... or cancels them after the timeout; _wait then raises and copies nothing.
WaitTimeout ==
    /\ pc_main = "wait" /\ "join_timeout" \in Env
    /\ pc_loop # "exited" \/ pc_recv # "exited"
    /\ pc_loop' = "exited" /\ chunk' = Nothing /\ held' = None
    /\ pc_recv' = "exited"
    /\ sender' = [s \in 1..MaxStreams |-> IF s = stream THEN "closed" ELSE sender[s]]
    /\ raised' = TRUE /\ pc_main' = "done"
    /\ UNCHANGED <<queueVars, uuid_lookup, cacheVars, flightVars, batch_size, reqs, events,
                   bg_exception, item, added, encoded, stream, connected, resultVars,
                   serverVars, callVars>>

User == \/ \E x \in Obj \cup Ref : Enter(x) \/ Wake(x)
        \/ \E o \in Obj : AddObjectAsync(o)
        \/ \E r \in Ref : AddReferenceAsync(r)
        \/ FlushAsync \/ ShutdownAsync \/ WaitAsync \/ WaitTimeout
-----------------------------------------------------------------------------
(* The task loop *)

\* From one put to the next: encode the next request of c and look at the
\* gate, or raise.
Generate(c) ==
    \E p \in Fill(c, MaxPerRequest + 1) :
       \/ /\ Unsendable(p)
          /\ bg_exception' = "unsendable"
          /\ pc_loop' = "exited" /\ chunk' = Nothing
          /\ UNCHANGED <<held, encoded>>
       \/ /\ ~Unsendable(p)
          /\ \E q \in Fill(p, MaxPerRequest) :
                /\ held' = q
                /\ chunk' = [objs |-> c.objs (-) q.objs, refs |-> c.refs (-) q.refs]
                /\ encoded' = encoded \cup Support(q.refs)
          /\ pc_loop' = IF Paused THEN "gate" ELSE "put"
          /\ UNCHANGED bg_exception

\* The top of __loop: objects and references are popped in one step.
LoopPop ==
    /\ pc_loop = "top" /\ bg_exception = None /\ "shutdown_loop" \notin events
    /\ Support(batch_objects) \cup Support(batch_references) # {}
    /\ \E p \in Pops(batch_objects, batch_size) :
       \E q \in Pops(Eligible, IF Size(p) < batch_size THEN batch_size - Size(p) ELSE 0) :
          /\ batch_objects' = batch_objects (-) p
          /\ batch_references' = batch_references (-) q
          /\ IF Size(p) + Size(q) > 0
             THEN Generate([objs |-> p, refs |-> q])
             ELSE UNCHANGED <<pc_loop, chunk, held, encoded, bg_exception>>
    /\ UNCHANGED <<loopFrame, reqs>>

\* A put has returned.
LoopNext ==
    /\ pc_loop = "generate"
    /\ IF chunk = Nothing
       THEN pc_loop' = "top" /\ UNCHANGED <<chunk, held, encoded, bg_exception>>
       ELSE Generate(chunk)
    /\ UNCHANGED <<loopFrame, queueVars, reqs>>

LoopAsync == LoopPop \/ LoopNext \/ LoopGate \/ LoopPut \/ LoopFinish \/ LoopPutSentinel
             \/ LoopExit
-----------------------------------------------------------------------------
(* The task recv *)

\* The start of __recv up to the first message of a new stream.
OpenStream ==
    /\ events' = events \ Cleared
    /\ unacked' = [objs |-> {}, refs |-> {}]
    /\ unresolved' = Nothing
    /\ srv_oom' = FALSE
    /\ stream' = stream + 1
    /\ sender' = [sender EXCEPT ![stream + 1] = "open"]
    /\ pc_recv' = "recv"

RecvStartAsync ==
    /\ pc_recv = "start"
    /\ OpenStream
    /\ UNCHANGED <<recvFrame, queueVars, flightVars, bg_exception, connected>>

\* The end of the stream; a renewed stream is opened in the same step.
RecvEndAsync ==
    /\ pc_recv = "recv" /\ sender[stream] = "closed"
    /\ unacked.objs = {} /\ unacked.refs = {} /\ unresolved = Nothing /\ ~srv_oom
    /\ \/ /\ "shutting_down" \in events
          /\ pc_recv' = "reconnect"
          /\ UNCHANGED <<events, stream, sender, serverVars>>
       \/ /\ "shutting_down" \notin events /\ "renewing_stream" \in events
          /\ OpenStream
       \/ /\ events \cap {"shutting_down", "renewing_stream"} = {}
          /\ events' = events \cup {"shutdown_loop"}
          /\ pc_recv' = "exited"
          /\ UNCHANGED <<stream, sender, serverVars>>
    /\ UNCHANGED <<recvFrame, queueVars, flightVars, bg_exception, connected>>

\* recv_wrapper after a hangup: queue again what is cached, forget what was sent.
Requeue ==
    IF pc_recv = "reconnect_hungup"
    THEN /\ batch_objects' = batch_objects (+) Once(Obj, Unanswered)
         /\ batch_references' = batch_references (+)
               Once(Ref, {refs_cache[b] : b \in Beacons} \ {None})
         /\ inflight_objs' = {} /\ inflight_refs' = {}
    ELSE UNCHANGED <<queueVars, flightVars>>

\* __reconnect returns; without a connection the next __recv raises at once.
ReconnectAsync ==
    /\ pc_recv \in {"reconnect", "reconnect_hungup"} /\ NodesHealthy
    /\ "fast_reconnect" \in Env \/ \A s \in 1..MaxStreams : sender[s] # "open"
    /\ \/ Requeue /\ OpenStream /\ UNCHANGED <<connected, bg_exception>>
       \/ /\ "unreachable" \in Env /\ ~AwaitsNodes
          /\ Requeue
          /\ connected' = FALSE /\ bg_exception' = "closed client"
          /\ events' = events \ Cleared
          /\ pc_recv' = "exited"
          /\ UNCHANGED <<stream, sender, serverVars>>
       \/ /\ ReconnectWaits \/ ReconnectRaises
          /\ UNCHANGED <<queueVars, flightVars, events, stream, sender, serverVars>>
    /\ UNCHANGED recvFrame

RecvAsync == RecvStartAsync \/ Message \/ RecvEndAsync \/ RecvHangup \/ RecvError
             \/ ReconnectAsync
-----------------------------------------------------------------------------
Background == LoopAsync \/ (\E s \in 1..MaxStreams : Sender(s)) \/ RecvAsync

AsyncNext == \/ User
             \/ Background /\ UNCHANGED callVars
             \/ Finished /\ UNCHANGED callVars

AsyncSpec == AsyncInit /\ [][AsyncNext]_asyncVars

\* The event loop resumes every task that can go on; the server is that of
\* StreamBatch.
AsyncFairness ==
    /\ \A x \in Obj \cup Ref : WF_asyncVars(Wake(x))
    /\ \A o \in Obj : WF_asyncVars(AddObjectAsync(o))
    /\ \A r \in Ref : WF_asyncVars(AddReferenceAsync(r))
    /\ WF_asyncVars(pc_main = "flush" /\ FlushAsync)
    /\ WF_asyncVars(ShutdownAsync) /\ WF_asyncVars(WaitAsync)
    /\ WF_asyncVars(LoopAsync /\ UNCHANGED callVars)
    /\ \A s \in 1..MaxStreams :
          WF_asyncVars((SendRequest(s) \/ SendStop(s) \/ SendReturn(s)) /\ UNCHANGED callVars)
    /\ WF_asyncVars((RecvStartAsync \/ ReconnectAsync) /\ UNCHANGED callVars)
    /\ WF_asyncVars(RecvAcks /\ UNCHANGED callVars)
    /\ \A o \in Obj :
          WF_asyncVars((RecvObjectImported(o) \/ RecvObjectFailed(o)) /\ UNCHANGED callVars)
    /\ \A r \in Ref : WF_asyncVars(RecvReferenceResult(r) /\ UNCHANGED callVars)
    /\ WF_asyncVars(srv_oom /\ RecvShuttingDown /\ UNCHANGED callVars)
    /\ WF_asyncVars(RecvEndAsync /\ UNCHANGED callVars)

AsyncFairSpec == AsyncSpec /\ AsyncFairness
-----------------------------------------------------------------------------
(* Correctness: the properties of StreamBatch, whose failures may all happen *)
(* in one run here: no await lets another task lose an object.               *)

\* However many calls are gathered, no two objects share the index under which
\* BatchObjectReturn keeps their results, so no result overwrites another.
IndicesDiffer == \A o, p \in Obj \cap added : index[o] = index[p] => o = p
=============================================================================
