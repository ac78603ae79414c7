---------------------------- MODULE StreamBatch ----------------------------
(***************************************************************************)
(* The server-side ("stream") batch of                                     *)
(* weaviate/collections/batch/sync.py, class _BatchBaseSync.               *)
(*                                                                         *)
(* Five kinds of actor share its state:                                    *)
(*   Main    the user's thread: _add_object, _add_reference, flush and the *)
(*           exit of the context manager (_shutdown, _wait);               *)
(*   Loop    the thread BgBatchLoop: __loop, __generate_stream_requests,   *)
(*           __put;                                                        *)
(*   Sender  the generator __send of every stream, run by a thread of the  *)
(*           gRPC library until it returns;                                *)
(*   Recv    the thread BgBatchRecv: recv_wrapper, __recv, __reconnect;    *)
(*   Server  external: known from the messages __recv handles.             *)
(*                                                                         *)
(* An object stands for its uuid (the user adds every uuid once).  A queue *)
(* of items is a bag: nothing depends on which queued item is popped first.*)
(***************************************************************************)
EXTENDS Naturals, FiniteSets, Functions

CONSTANTS
    Obj,              \* the objects the user may add
    Ref,              \* the cross-references the user may add
    Endpoints,        \* Endpoints[r]: the objects of Obj that r connects
    Beacon,           \* Beacon[r]: the string _to_beacon gives for r
    Oversized,        \* the objects larger than the largest gRPC message
    Rejectable,       \* the objects and references the server may refuse
    InitialBatchSize, \* __batch_size before the first backoff message (100)
    BatchSizes,       \* the sizes a backoff message may ask for
    MaxPerRequest,    \* how many items fit into one gRPC message
    MaxStreams,       \* bound: how many streams are ever opened
    AwaitsNodes,      \* is there one node, or the consistency level ALL
    Env,              \* what the environment may do, a subset of EnvEvents
    None              \* Python's None

EnvEvents ==
    { "shutdown",     \* the server announces that it shuts down
      "oom",          \* the server reports that it is out of memory
      "hangup",       \* the stream breaks with a socket error
      "error",        \* the stream breaks with another RPC error
      "unreachable",  \* every attempt to reconnect fails with an error __reconnect catches
      "raises",       \* one after an announced shutdown fails with another error
      "raises_hungup", \* one after a broken stream does
      "renew",        \* a GCP connection reaches its maximum lifetime
      "oom_wait",     \* the server is away for longer than __oom_wait_time
      "late",         \* the above may happen after the user has left the batch
      "preempt",      \* Main may lose the CPU between queueing an item and caching it
      "fast_reconnect", \* reconnecting takes less than the 1s a sender waits
      "join_timeout" }  \* the threads may outlive the join of _wait

Beacons == {Beacon[r] : r \in Ref}

ASSUME ConstantsOK ==
    /\ IsFiniteSet(Obj) /\ IsFiniteSet(Ref)
    /\ Endpoints \in [Ref -> SUBSET Obj]
    /\ Beacon \in [Ref -> Beacons]
    /\ InitialBatchSize \in Nat \ {0} /\ BatchSizes \subseteq Nat \ {0}
    /\ MaxPerRequest \in Nat \ {0} /\ MaxStreams \in Nat \ {0}
    /\ AwaitsNodes \in BOOLEAN
    /\ Env \subseteq EnvEvents
    /\ Obj \cap Ref = {} /\ None \notin Obj \cup Ref

VARIABLES
  (* shared by the threads of the client *)
    batch_objects,    \* __batch_objects, a bag of objects
    batch_references, \* __batch_references, a bag of references
    uuid_lookup,      \* __uuid_lookup: uuids added and not yet imported
    objs_cache,       \* __objs_cache: objects without a result
    refs_cache,       \* __refs_cache: beacon |-> reference, or None
    inflight_objs,    \* __inflight_objs: uuids sent and not acknowledged
    inflight_refs,    \* __inflight_refs: beacons sent and not acknowledged
    batch_size,       \* __batch_size
    reqs,             \* __reqs, a queue of at most one request (or None)
    events,           \* the threading.Events that are set
    bg_exception,     \* __bg_exception: None or what went wrong
  (* one thread each *)
    pc_main, item,    \* where Main is, and the item it is adding
    added,            \* the items whose _add_object/_add_reference has begun
    raised,           \* did a call of the batch raise an exception
    pc_loop, chunk,   \* where Loop is, and what it has popped but not yielded
    held,             \* the request Loop is about to put, or None
    encoded,          \* the references that _to_internal has rewritten
    pc_recv, stream,  \* where Recv is, and the number of its stream
    connected,        \* has the client a usable connection
    sender,           \* the generator of every stream
  (* the results *)
    succeeded,        \* how often results.objs lists the object's uuid
    failed_objects,   \* how often failed_objects lists the object
    failed_references, \* how often failed_references lists the reference
  (* the server's end of the current stream *)
    unacked,          \* received and not acknowledged
    unresolved,       \* received and without a result
    srv_oom           \* out_of_memory sent, shutting_down not yet

mainVars   == <<pc_main, item, added, raised>>
loopVars   == <<pc_loop, chunk, held, encoded>>
queueVars  == <<batch_objects, batch_references>>
cacheVars  == <<objs_cache, refs_cache>>
flightVars == <<inflight_objs, inflight_refs>>
recvVars   == <<pc_recv, stream, connected>>
resultVars == <<succeeded, failed_objects, failed_references>>
serverVars == <<unacked, unresolved, srv_oom>>
vars == <<queueVars, uuid_lookup, cacheVars, flightVars, batch_size, reqs,
          events, bg_exception, mainVars, loopVars, recvVars, sender,
          resultVars, serverVars>>

(* What the actions of an actor leave alone. *)
mainFrame == <<flightVars, batch_size, reqs, bg_exception, loopVars, recvVars, sender,
               resultVars, serverVars>>
loopFrame == <<uuid_lookup, cacheVars, flightVars, batch_size, events, mainVars, recvVars,
               sender, resultVars, serverVars>>
sendFrame == <<queueVars, uuid_lookup, cacheVars, batch_size, bg_exception, mainVars,
               loopVars, recvVars, resultVars, srv_oom>>
msgFrame  == <<bg_exception, mainVars, loopVars, recvVars, sender, reqs>>
recvFrame == <<uuid_lookup, cacheVars, batch_size, reqs, mainVars, loopVars, resultVars>>
-----------------------------------------------------------------------------
(* Bags are functions to Nat. *)
NoItems(S) == [x \in S |-> 0]
Support(b) == {x \in DOMAIN b : b[x] > 0}
Size(b) == SumFunction(b)
b (+) c == [x \in DOMAIN b |-> b[x] + c[x]]
b (-) c == [x \in DOMAIN b |-> b[x] - c[x]]
Once(S, T) == [x \in S |-> IF x \in T THEN 1 ELSE 0]
Smaller(m, n) == IF m < n THEN m ELSE n

\* pop_items: the first n items of a queue, or all of them.
Pops(b, n) == {p \in [DOMAIN b -> 0..Size(b)] :
                  /\ \A x \in DOMAIN b : p[x] \in 0..b[x]
                  /\ Size(p) = Smaller(n, Size(b))}

Request == [objs : [Obj -> Nat], refs : [Ref -> Nat]]
Nothing == [objs |-> NoItems(Obj), refs |-> NoItems(Ref)]

\* What __bg_exception holds once it is not None.
BgErrors == {"unsendable", "not re-established", "stream error", "unreachable",
             "not reconnected", "closed client"}
ASSUME NoneOK == None \notin Request \cup BgErrors

\* ReferencesBatchRequest.__pop_items skips the references to or from an
\* object that is still being imported.
EligibleWhatever == batch_references              \* mutant: the lookup is not asked
EligibleInverted == [r \in Ref |-> IF Endpoints[r] \subseteq uuid_lookup  \* mutant
                                     THEN batch_references[r] ELSE 0]
Eligible == [r \in Ref |-> IF Endpoints[r] \cap uuid_lookup = {}
                             THEN batch_references[r] ELSE 0]

\* The next n items of c, its objects before its references.
Fill(c, n) == {q \in [objs : Pops(c.objs, n), refs : Pops(c.refs, n)] :
                  Size(q.refs) = Smaller(n - Size(q.objs), Size(c.refs))}

\* Encoding an object that exceeds the message size raises, and so does
\* encoding a reference twice: _to_internal appends a "/" to the reference's
\* own to_object_collection, which _from_internal then refuses.
Unsendable(q) == \/ Support(q.objs) \cap Oversized # {}
                 \/ \E r \in Support(q.refs) : r \in encoded \/ q.refs[r] > 1

Paused == events \cap {"oom", "shutting_down", "hungup"} # {}

\* Queue.put blocks on __reqs (maxsize=1).
QueueNeverFull == FALSE                           \* mutant: an unbounded queue
QueueIsFull == reqs # {}

\* Is the result for o the first to arrive?  KeyError on __objs_cache otherwise.
CachedEver(o) == o \in added                      \* mutant: the result is not popped
Cached(o) == o \in objs_cache

\* What an out_of_memory message puts back into __batch_objects ...
HandedBackCached == objs_cache                    \* mutant: all of the cache
HandedBackNone == {}                              \* mutant: only the events are set
HandedBack == Support(unresolved.objs) \cap objs_cache

\* ... and what recv_wrapper does after a hangup.
UnansweredInFlight == objs_cache \cap inflight_objs  \* mutant: not what was acknowledged
Unanswered == objs_cache

\* The events that __recv clears when it opens a stream; not is_oom.
ClearedUnlessHungup == {"renewing_stream", "shutting_down"}  \* mutant: a missing clear
Cleared == {"renewing_stream", "shutting_down", "hungup"}

\* __is_blocked
IsBlocked == \/ Cardinality(inflight_objs) >= batch_size
             \/ Cardinality(inflight_refs) >= 2 * batch_size
             \/ events \cap {"renewing_stream", "shutting_down", "oom"} # {}

\* __all_threads_alive
Alive == pc_loop # "exited" /\ pc_recv # "exited"

\* The environment's failures: bounded by MaxStreams.
MayHappen(e) == /\ e \in Env
                /\ stream < MaxStreams
                /\ "late" \in Env \/ "stopped" \notin events

\* Between two statements of _add_object (_add_reference) the other threads
\* get far only when Main is preempted there.
MayRun == "preempt" \in Env \/ pc_main \notin {"cache", "cache_ref"}
-----------------------------------------------------------------------------
Init ==
    /\ batch_objects = NoItems(Obj) /\ batch_references = NoItems(Ref)
    /\ uuid_lookup = {}
    /\ objs_cache = {} /\ refs_cache = [b \in Beacons |-> None]
    /\ inflight_objs = {} /\ inflight_refs = {}
    /\ batch_size = InitialBatchSize
    /\ reqs = {} /\ events = {} /\ bg_exception = None
    /\ pc_main = "ready" /\ item = None /\ added = {} /\ raised = FALSE
    /\ pc_loop = "top" /\ chunk = Nothing /\ held = None /\ encoded = {}
    /\ pc_recv = "start" /\ stream = 0 /\ connected = TRUE
    /\ sender = [s \in 1..MaxStreams |-> "idle"]
    /\ succeeded = NoItems(Obj) /\ failed_objects = NoItems(Obj)
    /\ failed_references = NoItems(Ref)
    /\ unacked = [objs |-> {}, refs |-> {}]
    /\ unresolved = Nothing /\ srv_oom = FALSE
-----------------------------------------------------------------------------
(* Main *)

\* _add_object, up to __uuid_lookup.add.
AddObject(o) ==
    /\ pc_main = "ready" /\ Alive
    /\ o \notin added
    /\ added' = added \cup {o}
    /\ uuid_lookup' = uuid_lookup \cup {o}
    /\ item' = o /\ pc_main' = "queue"
    /\ UNCHANGED <<mainFrame, queueVars, cacheVars, raised, events>>

\* ... __batch_objects.add: Loop can take the object from here on ...
QueueObject ==
    /\ pc_main = "queue"
    /\ batch_objects' = batch_objects (+) Once(Obj, {item})
    /\ pc_main' = "cache"
    /\ UNCHANGED <<mainFrame, cacheVars, item, added, raised, batch_references,
                   uuid_lookup, events>>

\* ... and the object enters __objs_cache only then.
CacheObject ==
    /\ pc_main = "cache"
    /\ objs_cache' = objs_cache \cup {item}
    /\ item' = None /\ pc_main' = "blocked"
    /\ UNCHANGED <<mainFrame, queueVars, added, raised, uuid_lookup, refs_cache,
                   events>>

\* _add_reference: a program adds a reference after the objects it connects.
AddReference(r) ==
    /\ pc_main = "ready" /\ Alive
    /\ r \notin added /\ Endpoints[r] \subseteq added
    /\ added' = added \cup {r}
    /\ batch_references' = batch_references (+) Once(Ref, {r})
    /\ item' = r /\ pc_main' = "cache_ref"
    /\ UNCHANGED <<mainFrame, cacheVars, raised, batch_objects, uuid_lookup, events>>

CacheReference ==
    /\ pc_main = "cache_ref"
    /\ refs_cache' = [refs_cache EXCEPT ![Beacon[item]] = item]
    /\ item' = None /\ pc_main' = "blocked"
    /\ UNCHANGED <<mainFrame, queueVars, added, raised, uuid_lookup, objs_cache,
                   events>>

\* The end of the loop on __is_blocked: the call returns.
Unblock ==
    /\ pc_main = "blocked" /\ ~IsBlocked
    /\ pc_main' = "ready"
    /\ UNCHANGED <<mainFrame, queueVars, cacheVars, item, added, raised, uuid_lookup,
                   events>>

\* flush waits until the two queues are empty.
Flush ==
    /\ \/ pc_main = "ready" /\ pc_main' = "flush"
       \/ /\ pc_main = "flush"
          /\ Support(batch_objects) = {} /\ Support(batch_references) = {}
          /\ pc_main' = "ready"
    /\ UNCHANGED <<mainFrame, queueVars, cacheVars, item, added, raised, uuid_lookup,
                   events>>

\* __check_bg_threads_alive raises at the start of a call and while it waits;
\* the exception leaves the with block, whose exit still calls _shutdown.
RaiseDead ==
    /\ ~Alive /\ ~raised
    /\ \/ pc_main = "ready" /\ (Obj \cup Ref) \ added # {}
       \/ pc_main = "blocked" /\ IsBlocked
       \/ pc_main = "flush" /\ Support(batch_objects) \cup Support(batch_references) # {}
    /\ raised' = TRUE
    /\ pc_main' = "exit"
    /\ UNCHANGED <<mainFrame, queueVars, cacheVars, item, added, uuid_lookup, events>>

\* __exit__ calls _shutdown.
Shutdown ==
    /\ pc_main \in {"ready", "exit"}
    /\ events' = events \cup {"stopped"}
    /\ pc_main' = "wait"
    /\ UNCHANGED <<mainFrame, queueVars, cacheVars, item, added, raised, uuid_lookup>>

\* __exit__ calls _wait: Thread.join returns when the thread has ended or the
\* timeout has passed, and raises in neither case.
Wait ==
    /\ pc_main = "wait"
    /\ \/ pc_loop = "exited" /\ pc_recv = "exited"
       \/ "join_timeout" \in Env
    /\ pc_main' = "done"
    /\ UNCHANGED <<mainFrame, queueVars, cacheVars, item, added, raised, uuid_lookup,
                   events>>

Main == \/ \E o \in Obj : AddObject(o)
        \/ \E r \in Ref : AddReference(r)
        \/ QueueObject \/ CacheObject \/ CacheReference
        \/ Unblock \/ Flush \/ RaiseDead \/ Shutdown \/ Wait
-----------------------------------------------------------------------------
(* Loop *)

\* The top of __loop: it ends with an exception of another thread or the end
\* of the stream; otherwise it pops objects, whatever their number.
LoopPopObjects ==
    /\ MayRun /\ pc_loop = "top" /\ bg_exception = None /\ "shutdown_loop" \notin events
    /\ Support(batch_objects) \cup Support(batch_references) # {}
    /\ \E p \in Pops(batch_objects, batch_size) :
          /\ chunk' = [chunk EXCEPT !.objs = p]
          /\ batch_objects' = batch_objects (-) p
    /\ pc_loop' = "pop_refs"
    /\ UNCHANGED <<loopFrame, held, encoded, batch_references, reqs, bg_exception>>

\* Under __uuid_lookup_lock it fills the batch up with references.
LoopPopReferences ==
    /\ MayRun /\ pc_loop = "pop_refs"
    /\ LET room == IF Size(chunk.objs) < batch_size THEN batch_size - Size(chunk.objs) ELSE 0
       IN \E p \in Pops(Eligible, room) :
             /\ chunk' = [chunk EXCEPT !.refs = p]
             /\ batch_references' = batch_references (-) p
    /\ pc_loop' = "generate"
    /\ UNCHANGED <<loopFrame, held, encoded, batch_objects, reqs, bg_exception>>

\* __generate_stream_requests encodes items until one does not fit into the
\* message, then yields the request without it.  What it encodes may raise,
\* and then what it has not yielded is dropped with the thread.
LoopGenerate ==
    /\ MayRun /\ pc_loop = "generate" /\ chunk # Nothing
    /\ \E p \in Fill(chunk, MaxPerRequest + 1) :
          \/ /\ Unsendable(p)
             /\ bg_exception' = "unsendable"
             /\ pc_loop' = "exited" /\ chunk' = Nothing
             /\ UNCHANGED <<held, encoded>>
          \/ /\ ~Unsendable(p)
             /\ \E q \in Fill(p, MaxPerRequest) :
                   /\ held' = q
                   /\ chunk' = [objs |-> chunk.objs (-) q.objs, refs |-> chunk.refs (-) q.refs]
                   /\ encoded' = encoded \cup Support(q.refs)
             /\ pc_loop' = "gate"
             /\ UNCHANGED bg_exception
    /\ UNCHANGED <<loopFrame, queueVars, reqs>>

LoopGenerated ==
    /\ MayRun /\ pc_loop = "generate" /\ chunk = Nothing
    /\ pc_loop' = "top"
    /\ UNCHANGED <<loopFrame, queueVars, chunk, held, encoded, reqs, bg_exception>>

\* Before each put it waits for the server to be back, __oom_wait_time at most.
LoopGate ==
    /\ MayRun /\ pc_loop = "gate"
    /\ \/ ~Paused /\ pc_loop' = "put" /\ UNCHANGED bg_exception
       \/ /\ Paused /\ "oom_wait" \in Env
          /\ pc_loop' = "exited" /\ bg_exception' = "not re-established"
    /\ UNCHANGED <<loopFrame, queueVars, chunk, held, encoded, reqs>>

\* __put blocks while the queue is full; it does not look at the gate again.
LoopPut ==
    /\ MayRun /\ pc_loop = "put" /\ ~QueueIsFull
    /\ reqs' = reqs \cup {held} /\ held' = None
    /\ pc_loop' = "generate"
    /\ UNCHANGED <<loopFrame, queueVars, chunk, encoded, bg_exception>>

\* With empty queues, once the user has left, it goes on to put the sentinel.
LoopFinish ==
    /\ MayRun /\ pc_loop = "top" /\ bg_exception = None /\ "shutdown_loop" \notin events
    /\ Support(batch_objects) = {} /\ Support(batch_references) = {}
    /\ "stopped" \in events /\ ~Paused
    /\ pc_loop' = "put_sentinel"
    /\ UNCHANGED <<loopFrame, queueVars, chunk, held, encoded, reqs, bg_exception>>

LoopPutSentinel ==
    /\ MayRun /\ pc_loop = "put_sentinel" /\ ~QueueIsFull
    /\ reqs' = reqs \cup {None}
    /\ pc_loop' = "exited"
    /\ UNCHANGED <<loopFrame, queueVars, chunk, held, encoded, bg_exception>>

\* The loop's condition fails at the top, or after a second before a full queue.
LoopExit ==
    /\ MayRun
    /\ \/ pc_loop = "top"
       \/ pc_loop \in {"put", "put_sentinel"} /\ QueueIsFull
    /\ bg_exception # None \/ "shutdown_loop" \in events
    /\ pc_loop' = "exited" /\ chunk' = Nothing /\ held' = None
    /\ UNCHANGED <<loopFrame, queueVars, encoded, reqs, bg_exception>>

Loop == \/ LoopPopObjects \/ LoopPopReferences \/ LoopGenerate \/ LoopGenerated
        \/ LoopGate \/ LoopPut \/ LoopFinish \/ LoopPutSentinel \/ LoopExit
-----------------------------------------------------------------------------
(* Sender *)

\* Is s the stream Recv is reading?  gRPC ends a stream's request thread only
\* when the generator next yields or returns.
Connected(s) == s = stream /\ pc_recv = "recv"

\* __reqs.get returns a request.  What a dead stream takes reaches nobody.
SendRequest(s) ==
    /\ MayRun /\ sender[s] = "open"
    /\ \E q \in reqs \ {None} :
          /\ inflight_objs' = inflight_objs \cup Support(q.objs)
          /\ inflight_refs' = inflight_refs \cup {Beacon[r] : r \in Support(q.refs)}
          /\ IF Connected(s)
             THEN /\ unresolved' = [objs |-> unresolved.objs (+) q.objs,
                                    refs |-> unresolved.refs (+) q.refs]
                  /\ unacked' = [objs |-> unacked.objs \cup Support(q.objs),
                                 refs |-> unacked.refs \cup {Beacon[r] : r \in Support(q.refs)}]
                  /\ UNCHANGED sender
             ELSE /\ sender' = [sender EXCEPT ![s] = "closed"]
                  /\ UNCHANGED <<unresolved, unacked>>
          /\ reqs' = reqs \ {q}
    /\ UNCHANGED <<sendFrame, events>>

\* __reqs.get returns the sentinel: send Stop and return.
SendStop(s) ==
    /\ MayRun /\ sender[s] = "open" /\ None \in reqs
    /\ reqs' = {}
    /\ sender' = [sender EXCEPT ![s] = "closed"]
    /\ UNCHANGED <<sendFrame, flightVars, events, unacked, unresolved>>

\* Nothing for a second while the server is away, or an exception elsewhere.
SendReturn(s) ==
    /\ MayRun /\ sender[s] = "open"
    /\ (reqs = {} /\ Paused) \/ bg_exception # None
    /\ sender' = [sender EXCEPT ![s] = "closed"]
    /\ UNCHANGED <<sendFrame, flightVars, reqs, events, unacked, unresolved>>

\* A GCP connection is about to reach its maximum lifetime.
SendRenew(s) ==
    /\ MayRun /\ sender[s] = "open" /\ bg_exception = None
    /\ Connected(s) /\ MayHappen("renew")
    /\ events' = events \cup {"renewing_stream"}
    /\ sender' = [sender EXCEPT ![s] = "closed"]
    /\ UNCHANGED <<sendFrame, flightVars, reqs, unacked, unresolved>>

Sender(s) == SendRequest(s) \/ SendStop(s) \/ SendReturn(s) \/ SendRenew(s)
-----------------------------------------------------------------------------
(* Recv, and through the messages it receives the Server *)

\* The start of __recv: clear three of the events, open a stream.
RecvStart ==
    /\ MayRun /\ pc_recv = "start"
    /\ events' = events \ Cleared
    /\ unacked' = [objs |-> {}, refs |-> {}]
    /\ unresolved' = Nothing
    /\ srv_oom' = FALSE
    /\ \/ /\ connected
          /\ stream' = stream + 1
          /\ sender' = [sender EXCEPT ![stream + 1] = "open"]
          /\ pc_recv' = "recv"
          /\ UNCHANGED bg_exception
       \/ /\ ~connected                 \* the call on a closed client raises
          /\ bg_exception' = "closed client"
          /\ pc_recv' = "exited"
          /\ UNCHANGED <<stream, sender>>
    /\ UNCHANGED <<recvFrame, queueVars, flightVars, connected>>

\* message.backoff
RecvBackoff(n) ==
    /\ MayRun /\ pc_recv = "recv" /\ n # batch_size
    /\ ~Paused /\ events \cap {"renewing_stream", "stopped"} = {}
    /\ batch_size' = n
    /\ UNCHANGED <<msgFrame, queueVars, cacheVars, flightVars, resultVars, serverVars,
                   uuid_lookup, events>>

\* message.acks: the server acknowledges what it has received.
RecvAcks ==
    /\ MayRun /\ pc_recv = "recv"
    /\ unacked.objs # {} \/ unacked.refs # {}
    /\ inflight_objs' = inflight_objs \ unacked.objs
    /\ inflight_refs' = inflight_refs \ unacked.refs
    /\ unacked' = [objs |-> {}, refs |-> {}]
    /\ UNCHANGED <<msgFrame, queueVars, cacheVars, resultVars, uuid_lookup, batch_size,
                   events, unresolved, srv_oom>>

\* message.results.successes: an object that is not cached is skipped, with
\* its entry in __uuid_lookup.
RecvObjectImported(o) ==
    /\ MayRun /\ pc_recv = "recv" /\ unresolved.objs[o] > 0
    /\ unresolved' = [unresolved EXCEPT !.objs[o] = @ - 1]
    /\ IF Cached(o)
       THEN /\ objs_cache' = objs_cache \ {o}
            /\ uuid_lookup' = uuid_lookup \ {o}
            /\ succeeded' = [succeeded EXCEPT ![o] = @ + 1]
       ELSE UNCHANGED <<objs_cache, uuid_lookup, succeeded>>
    /\ UNCHANGED <<msgFrame, queueVars, flightVars, refs_cache, batch_size, events,
                   failed_objects, failed_references, unacked, srv_oom>>

\* message.results.errors: the entry in __uuid_lookup stays.
RecvObjectFailed(o) ==
    /\ MayRun /\ pc_recv = "recv" /\ unresolved.objs[o] > 0
    /\ o \in Rejectable
    /\ unresolved' = [unresolved EXCEPT !.objs[o] = @ - 1]
    /\ IF Cached(o)
       THEN /\ objs_cache' = objs_cache \ {o}
            /\ failed_objects' = [failed_objects EXCEPT ![o] = @ + 1]
       ELSE UNCHANGED <<objs_cache, failed_objects>>
    /\ UNCHANGED <<msgFrame, queueVars, flightVars, uuid_lookup, refs_cache,
                   batch_size, events, succeeded, failed_references, unacked, srv_oom>>

\* A result for a reference names its beacon; only an error is recorded, for
\* the reference cached under that beacon.
RecvReferenceResult(r) ==
    /\ MayRun /\ pc_recv = "recv" /\ unresolved.refs[r] > 0
    /\ unresolved' = [unresolved EXCEPT !.refs[r] = @ - 1]
    /\ refs_cache' = [refs_cache EXCEPT ![Beacon[r]] = None]
    /\ \/ UNCHANGED failed_references
       \/ /\ r \in Rejectable /\ refs_cache[Beacon[r]] # None
          /\ failed_references' = [failed_references EXCEPT ![refs_cache[Beacon[r]]] = @ + 1]
    /\ UNCHANGED <<msgFrame, queueVars, flightVars, uuid_lookup, objs_cache,
                   batch_size, events, succeeded, failed_objects, unacked, srv_oom>>

\* message.out_of_memory: the server hands back what it has not processed,
\* and what is still cached of it returns to the queues.
RecvOutOfMemory ==
    /\ MayRun /\ pc_recv = "recv" /\ MayHappen("oom")
    /\ ~srv_oom /\ "shutting_down" \notin events
    /\ srv_oom' = TRUE
    /\ events' = events \cup {"oom"}
    /\ batch_objects' = batch_objects (+) Once(Obj, HandedBack)
    /\ batch_references' = batch_references (+)
          Once(Ref, {refs_cache[Beacon[r]] : r \in Support(unresolved.refs)} \ {None})
    /\ unresolved' = Nothing
    /\ UNCHANGED <<msgFrame, cacheVars, flightVars, resultVars, uuid_lookup,
                   batch_size, unacked>>

\* message.shutting_down; after an out_of_memory it always comes.
RecvShuttingDown ==
    /\ MayRun /\ pc_recv = "recv" /\ "shutting_down" \notin events
    /\ srv_oom \/ MayHappen("shutdown")
    /\ srv_oom' = FALSE
    /\ events' = (events \ {"oom"}) \cup {"shutting_down"}
    /\ UNCHANGED <<msgFrame, queueVars, cacheVars, flightVars, resultVars, uuid_lookup,
                   batch_size, unacked, unresolved>>

\* The server ends the stream once the client has ended its side and it has
\* answered everything it received.
RecvEnd ==
    /\ MayRun /\ pc_recv = "recv" /\ sender[stream] = "closed"
    /\ unacked.objs = {} /\ unacked.refs = {} /\ unresolved = Nothing /\ ~srv_oom
    /\ \/ /\ "shutting_down" \in events
          /\ pc_recv' = "reconnect" /\ UNCHANGED events
       \/ /\ "shutting_down" \notin events /\ "renewing_stream" \in events
          /\ pc_recv' = "start" /\ UNCHANGED events
       \/ /\ events \cap {"shutting_down", "renewing_stream"} = {}
          /\ events' = events \cup {"shutdown_loop"}
          /\ pc_recv' = "exited"
    /\ UNCHANGED <<recvFrame, queueVars, flightVars, serverVars, bg_exception, stream,
                   connected, sender>>

\* The call raises: a socket error restarts the stream, others end the thread.
RecvHangup ==
    /\ MayRun /\ pc_recv = "recv" /\ MayHappen("hangup")
    /\ events' = events \cup {"hungup"}
    /\ pc_recv' = "reconnect_hungup"
    /\ UNCHANGED <<recvFrame, queueVars, flightVars, serverVars, bg_exception, stream,
                   connected, sender>>

RecvError ==
    /\ MayRun /\ pc_recv = "recv" /\ MayHappen("error")
    /\ bg_exception' = "stream error"
    /\ pc_recv' = "exited"
    /\ UNCHANGED <<recvFrame, queueVars, flightVars, serverVars, events, stream,
                   connected, sender>>

\* __reconnect closes the client and connects again.  If the server needs all of
\* its nodes, it first waits until they are healthy; a client that has closed its
\* connection and opened no other is told of no node, and waits for ever, as it
\* does when the nodes do not come back.
NodesHealthy == AwaitsNodes => connected

ReconnectWaits ==
    /\ "unreachable" \in Env /\ AwaitsNodes
    /\ connected' = FALSE
    /\ UNCHANGED <<pc_recv, bg_exception>>

\* An error of connect that is not caught there (the question for the OIDC
\* configuration raises one) ends the thread.  recv_wrapper notes it, but not
\* from the call it makes itself after a hangup.
ReconnectRaises ==
    /\ connected' = FALSE /\ pc_recv' = "exited"
    /\ \/ /\ pc_recv = "reconnect" /\ "raises" \in Env
          /\ bg_exception' = "not reconnected"
       \/ /\ pc_recv = "reconnect_hungup" /\ "raises_hungup" \in Env
          /\ UNCHANGED bg_exception

\* The errors that are caught are noted after five retries, and it returns.
Reconnect ==
    /\ MayRun /\ pc_recv \in {"reconnect", "reconnect_hungup"} /\ NodesHealthy
    /\ "fast_reconnect" \in Env \/ \A s \in 1..MaxStreams : sender[s] # "open"
    /\ \/ /\ pc_recv' = IF pc_recv = "reconnect" THEN "start" ELSE "readd_objects"
          /\ \/ UNCHANGED <<connected, bg_exception>>
             \/ /\ "unreachable" \in Env /\ ~AwaitsNodes
                /\ connected' = FALSE /\ bg_exception' = "unreachable"
       \/ ReconnectWaits
       \/ ReconnectRaises
    /\ UNCHANGED <<recvFrame, queueVars, flightVars, serverVars, events, stream,
                   sender>>

\* recv_wrapper after a hangup: everything without a result is queued again.
ReaddObjects ==
    /\ MayRun /\ pc_recv = "readd_objects"
    /\ batch_objects' = batch_objects (+) Once(Obj, Unanswered)
    /\ pc_recv' = "readd_references"
    /\ UNCHANGED <<recvFrame, flightVars, serverVars, batch_references, events,
                   bg_exception, stream, connected, sender>>

ReaddReferences ==
    /\ MayRun /\ pc_recv = "readd_references"
    /\ batch_references' = batch_references (+)
          Once(Ref, {refs_cache[b] : b \in Beacons} \ {None})
    /\ inflight_objs' = {} /\ inflight_refs' = {}
    /\ pc_recv' = "start"
    /\ UNCHANGED <<recvFrame, serverVars, batch_objects, events, bg_exception, stream,
                   connected, sender>>

Message == \/ RecvAcks
           \/ \E o \in Obj : RecvObjectImported(o) \/ RecvObjectFailed(o)
           \/ \E r \in Ref : RecvReferenceResult(r)
           \/ \E n \in BatchSizes : RecvBackoff(n)
           \/ RecvOutOfMemory \/ RecvShuttingDown

Recv == \/ RecvStart \/ Message \/ RecvEnd \/ RecvHangup \/ RecvError
        \/ Reconnect \/ ReaddObjects \/ ReaddReferences
-----------------------------------------------------------------------------
\* The threads are daemons: what is left of them does not outlive the process.
Finished == pc_main = "done" /\ UNCHANGED vars

Others == Loop \/ (\E s \in 1..MaxStreams : Sender(s)) \/ Recv

Next == Main \/ Others \/ Finished

Spec == Init /\ [][Next]_vars

\* Every thread that can continue does; the server answers what it receives,
\* ends the streams it may end and shuts down after an out_of_memory.  The
\* user does not stay in the batch for ever (Shutdown), the failures and the
\* backoff messages need not happen.
Fairness ==
    /\ WF_vars(QueueObject) /\ WF_vars(CacheObject) /\ WF_vars(CacheReference)
    /\ WF_vars(Unblock) /\ WF_vars(RaiseDead) /\ WF_vars(Shutdown) /\ WF_vars(Wait)
    /\ WF_vars(pc_main = "flush" /\ Flush)
    /\ WF_vars(Loop)
    /\ \A s \in 1..MaxStreams :
          WF_vars(SendRequest(s) \/ SendStop(s) \/ SendReturn(s))
    /\ WF_vars(RecvStart \/ Reconnect \/ ReaddObjects \/ ReaddReferences)
    /\ WF_vars(RecvAcks)
    /\ \A o \in Obj : WF_vars(RecvObjectImported(o) \/ RecvObjectFailed(o))
    /\ \A r \in Ref : WF_vars(RecvReferenceResult(r))
    /\ WF_vars(srv_oom /\ RecvShuttingDown) /\ WF_vars(RecvEnd)

FairSpec == Spec /\ Fairness
-----------------------------------------------------------------------------
(* Correctness *)

QueuesOK ==
    /\ batch_objects \in [Obj -> Nat] /\ batch_references \in [Ref -> Nat]
    /\ \A q \in reqs : (q = None \/ q \in Request) /\ reqs = {q}
SharedOK ==
    /\ uuid_lookup \subseteq Obj /\ objs_cache \subseteq Obj
    /\ refs_cache \in [Beacons -> Ref \cup {None}]
    /\ inflight_objs \subseteq Obj /\ inflight_refs \subseteq Beacons
    /\ batch_size \in Nat \ {0}
    /\ events \subseteq {"oom", "shutting_down", "hungup", "renewing_stream", "stopped",
                         "shutdown_loop"}
    /\ bg_exception \in BgErrors \cup {None}
MainOK ==
    /\ pc_main \in {"ready", "queue", "cache", "cache_ref", "blocked", "flush", "exit",
                    "wait", "done"}
    /\ item \in Obj \cup Ref \cup {None}
    /\ pc_main \in {"queue", "cache"} => item \in Obj
    /\ pc_main = "cache_ref" => item \in Ref
    /\ added \subseteq Obj \cup Ref /\ raised \in BOOLEAN
LoopOK ==
    /\ pc_loop \in {"top", "pop_refs", "generate", "gate", "put", "put_sentinel", "exited"}
    /\ chunk \in Request /\ held \in Request \cup {None}
    /\ pc_loop \in {"gate", "put"} => held \in Request
    /\ encoded \subseteq Ref
RecvOK ==
    /\ pc_recv \in {"start", "recv", "reconnect", "reconnect_hungup", "readd_objects",
                    "readd_references", "exited"}
    /\ stream \in 0..MaxStreams /\ connected \in BOOLEAN
    /\ pc_recv = "recv" => stream > 0
    /\ pc_recv \notin {"recv", "exited"} => stream < MaxStreams
    /\ sender \in [1..MaxStreams -> {"idle", "open", "closed"}]
ResultsOK ==
    /\ succeeded \in [Obj -> Nat] /\ failed_objects \in [Obj -> Nat]
    /\ failed_references \in [Ref -> Nat]
ServerOK ==
    /\ unacked \in [objs : SUBSET Obj, refs : SUBSET Beacons]
    /\ unresolved \in Request /\ srv_oom \in BOOLEAN
TypeOK == /\ QueuesOK /\ SharedOK /\ MainOK /\ LoopOK /\ RecvOK /\ ResultsOK /\ ServerOK

\* What the program knows of an object.
Outcomes(o) == succeeded[o] + failed_objects[o]

\* An object is reported at most once, as imported or as failed, however often
\* its request was lost, handed back, sent again or answered twice: a result
\* counts only while the object is in __objs_cache.
AtMostOneOutcome == \A o \in Obj : Outcomes(o) <= 1

\* No reference is encoded for the server while an object at one of its ends,
\* added before it, waits to be imported: the purpose of __uuid_lookup.
RefsAfterObjects == \A r \in encoded : \A o \in Endpoints[r] : succeeded[o] > 0

\* Where a copy of an object is that will still be sent or answered.
Copies(o) == batch_objects[o] + chunk.objs[o]
                + (IF held # None THEN held.objs[o] ELSE 0)
                + SumFunction([q \in reqs \ {None} |-> q.objs[o]])
                + (IF pc_recv \in {"recv", "start"} THEN unresolved.objs[o] ELSE 0)
                + (IF pc_main = "queue" /\ item = o THEN 1 ELSE 0)

\* A call or _wait has raised, or the exception of a background thread is logged.
Excused == raised \/ bg_exception # None

\* While the stream never breaks, announced shutdowns, out_of_memory and the
\* renewal of GCP connections included, every object added and not reported
\* is in exactly one place on its way, until a failure the user or the log is
\* told of: none is lost, none is sent twice.
SentOnce == Excused \/ \A o \in Obj \cap added : Copies(o) + Outcomes(o) = 1

\* When the stream breaks, every object without a result is still on its way
\* or is about to be queued again from __objs_cache; only a failure that the
\* user or the log is told of loses one.
NothingLost == \A o \in Obj \cap added :
                  \/ Outcomes(o) = 1 \/ Copies(o) > 0 \/ Excused
                  \/ o \in objs_cache /\ pc_recv \in {"reconnect_hungup", "readd_objects"}

\* When the threads have ended without an exception, every object the user added
\* is in the results or in failed_objects (after an out_of_memory message: "If
\* the server does not recover within this time, the batch will terminate with
\* an error", sync.py:426).
ReportedAtExit == (pc_main = "done" /\ ~Alive /\ ~Excused) =>
                     \A o \in Obj \cap added : Outcomes(o) = 1

\* Every object that is added is reported in the end, or a failure is.
Delivered == \A o \in Obj : o \in added ~> Outcomes(o) = 1 \/ Excused

\* Leaving the batch takes an end by itself, without the timeout of _wait.
Terminates == pc_main \in {"exit", "wait"} ~> pc_main = "done"

\* The batch keeps the promise of BatchImport.
status == [o \in Obj |-> CASE succeeded[o] > 0 -> "imported"
                            [] succeeded[o] = 0 /\ failed_objects[o] > 0 -> "failed"
                            [] Outcomes(o) = 0 /\ o \in added -> "pending"
                            [] OTHER -> "new"]
Import == INSTANCE BatchImport WITH released <- encoded, Enough <- {"imported"}
ImplementsImport == Import!Spec
=============================================================================
