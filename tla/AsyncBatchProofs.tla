-------------------------- MODULE AsyncBatchProofs --------------------------
(***************************************************************************)
(* What holds of AsyncBatch for all objects, references, sizes, numbers of *)
(* streams and for every behaviour of the environment.  The lemmas of      *)
(* StreamBatchProofs hold of the actions that the two modules share; the   *)
(* actions of the tasks of AsyncBatch are proved here.                     *)
(***************************************************************************)
EXTENDS AsyncBatch, StreamBatchProofs

\* A call between its two halves has added nothing yet, and the objects of a
\* reference are added before the call that adds it is entered; an object gets
\* the value of a counter that only grows as its index.
CallsInv ==
    /\ entered \subseteq Obj \cup Ref
    /\ entered \cap added = {}
    /\ \A r \in Ref \cap entered : Endpoints[r] \subseteq added
    /\ pc_main \notin {"queue", "cache", "cache_ref"}
IndexInv ==
    /\ objs_count \in Nat /\ index \in [Obj -> Nat]
    /\ \A o \in Obj \cap added : index[o] < objs_count
    /\ IndicesDiffer

IInv == TypeInv /\ OutcomeInv /\ ReferenceInv /\ CallsInv /\ IndexInv

\* The actions of a task that are not those of a thread of StreamBatch.
RestartAsync == RecvStartAsync \/ RecvEndAsync \/ ReconnectAsync
LoopShared   == LoopGate \/ LoopPut \/ LoopFinish \/ LoopPutSentinel \/ LoopExit
UserWait     == WaitAsync \/ WaitTimeout
UserCall     == \/ \E x \in Obj \cup Ref : Enter(x) \/ Wake(x)
                \/ FlushAsync \/ ShutdownAsync
UserAdd      == \/ \E o \in Obj : AddObjectAsync(o)
                \/ \E r \in Ref : AddReferenceAsync(r)

USE ConstantsOK DEF mainVars, queueVars, cacheVars, flightVars, loopVars, recvVars,
                    resultVars, serverVars, callVars, BgErrors

LEMMA AsyncInitInv == AsyncInit => IInv
  <1> SUFFICES ASSUME AsyncInit PROVE IInv
    OBVIOUS
  <1>1. Init
    BY DEF AsyncInit
  <1>2. CallsInv
    BY <1>1 DEF AsyncInit, Init, CallsInv
  <1>3. IndexInv
    BY <1>1 DEF AsyncInit, Init, IndexInv, IndicesDiffer
  <1> QED
    BY <1>1, <1>2, <1>3, TypeInit, OutcomeInit, ReferenceInit DEF IInv
-----------------------------------------------------------------------------
(* Types *)

LEMMA TypeCall == TypeInv /\ (UserCall \/ UserWait) => TypeInv'
  <1> SUFFICES ASSUME TypeInv, UserCall \/ UserWait PROVE TypeInv'
    OBVIOUS
  <1> USE DEF TypeInv, TypeOK, UserCall, UserWait, Enter, Wake, Raise, FlushAsync,
              ShutdownAsync, WaitAsync, WaitTimeout, userFrame, mainFrame
  <1>1. QueuesOK'
    BY DEF QueuesOK
  <1>2. SharedOK'
    BY DEF SharedOK
  <1>3. MainOK'
    <2>1. raised' \in BOOLEAN
      BY DEF MainOK
    <2>2. pc_main' \in {"ready", "flush", "exit", "wait", "done", pc_main}
      OBVIOUS
    <2>3. added' = added /\ item' = item
      OBVIOUS
    <2> QED
      BY <2>1, <2>2, <2>3 DEF MainOK
  <1>4. LoopOK'
    BY NothingRequest DEF LoopOK
  <1>5. RecvOK'
    <2>1. sender' \in [1..MaxStreams -> {"idle", "open", "closed"}]
      BY DEF RecvOK
    <2>2. UNCHANGED <<stream, connected>> /\ pc_recv' \in {pc_recv, "exited"}
      OBVIOUS
    <2> QED
      BY <2>1, <2>2 DEF RecvOK
  <1>6. ResultsOK'
    BY DEF ResultsOK
  <1>7. ServerOK'
    BY DEF ServerOK
  <1>8. StreamLeft'
    BY DEF StreamLeft
  <1> QED
    BY <1>1, <1>2, <1>3, <1>4, <1>5, <1>6, <1>7, <1>8

LEMMA TypeAdd == TypeInv /\ UserAdd => TypeInv'
  <1> SUFFICES ASSUME TypeInv, UserAdd PROVE TypeInv'
    OBVIOUS
  <1>1. QueuesOK'
    <2>0. batch_objects \in [Obj -> Nat] /\ batch_references \in [Ref -> Nat]
      BY DEF TypeInv, TypeOK, QueuesOK
    <2>1. batch_objects' \in [Obj -> Nat]
      <3>1. \/ batch_objects' = batch_objects
            \/ \E x : batch_objects' = batch_objects (+) Once(Obj, {x})
        BY DEF UserAdd, AddObjectAsync, AddReferenceAsync
      <3>2. ASSUME NEW x PROVE batch_objects (+) Once(Obj, {x}) \in [Obj -> Nat]
        <4>1. Once(Obj, {x}) \in [Obj -> Nat]
          BY OnceBag
        <4> QED
          BY <2>0, <4>1, PlusBag
      <3> QED
        BY <2>0, <3>1, <3>2
    <2>2. batch_references' \in [Ref -> Nat]
      <3>1. \/ batch_references' = batch_references
            \/ \E x : batch_references' = batch_references (+) Once(Ref, {x})
        BY DEF UserAdd, AddObjectAsync, AddReferenceAsync
      <3>2. ASSUME NEW x PROVE batch_references (+) Once(Ref, {x}) \in [Ref -> Nat]
        <4>1. Once(Ref, {x}) \in [Ref -> Nat]
          BY OnceBag
        <4> QED
          BY <2>0, <4>1, PlusBag
      <3> QED
        BY <2>0, <3>1, <3>2
    <2>3. reqs' = reqs
      BY DEF UserAdd, AddObjectAsync, AddReferenceAsync, userFrame, mainFrame
    <2> QED
      BY <2>1, <2>2, <2>3 DEF TypeInv, TypeOK, QueuesOK
  <1>2. SharedOK'
    <2>1. uuid_lookup' \subseteq Obj /\ objs_cache' \subseteq Obj
      BY DEF TypeInv, TypeOK, SharedOK, UserAdd, AddObjectAsync, AddReferenceAsync
    <2>2. refs_cache' \in [Beacons -> Ref \cup {None}]
      <3>1. \/ refs_cache' = refs_cache
            \/ \E r \in Ref : refs_cache' = [refs_cache EXCEPT ![Beacon[r]] = r]
        BY DEF UserAdd, AddObjectAsync, AddReferenceAsync
      <3>2. refs_cache \in [Beacons -> Ref \cup {None}]
        BY DEF TypeInv, TypeOK, SharedOK
      <3> QED
        BY <3>1, <3>2
    <2>3. UNCHANGED <<flightVars, batch_size, events, bg_exception>>
      BY DEF UserAdd, AddObjectAsync, AddReferenceAsync, userFrame, mainFrame
    <2> QED
      BY <2>1, <2>2, <2>3 DEF TypeInv, TypeOK, SharedOK
  <1>3. MainOK'
    <2>1. raised' \in BOOLEAN
      BY DEF TypeInv, TypeOK, MainOK, UserAdd, AddObjectAsync, AddReferenceAsync,
             ReturnOrWait, Raise
    <2>2. pc_main' \in {"exit", pc_main}
      BY DEF UserAdd, AddObjectAsync, AddReferenceAsync, ReturnOrWait, Raise
    <2>3. item' = item /\ added' \subseteq Obj \cup Ref
      BY DEF TypeInv, TypeOK, MainOK, UserAdd, AddObjectAsync, AddReferenceAsync, userFrame
    <2> QED
      BY <2>1, <2>2, <2>3 DEF TypeInv, TypeOK, MainOK
  <1>4. UNCHANGED <<loopVars, recvVars, sender, resultVars, serverVars, events>>
    BY DEF UserAdd, AddObjectAsync, AddReferenceAsync, userFrame, mainFrame
  <1>5. LoopOK' /\ RecvOK' /\ ResultsOK'
    BY <1>4 DEF TypeInv, TypeOK, LoopOK, RecvOK, ResultsOK
  <1>6. ServerOK' /\ StreamLeft'
    BY <1>4 DEF TypeInv, TypeOK, ServerOK, StreamLeft
  <1> QED
    BY <1>1, <1>2, <1>3, <1>5, <1>6 DEF TypeInv, TypeOK

\* What a step of the generator of requests does to what it was given.
LEMMA GenerateRequest ==
    ASSUME TypeInv, NEW c \in Request, Generate(c)
    PROVE  /\ chunk' \in Request
           /\ held' \in Request \cup {None}
           /\ pc_loop' \in {"gate", "put", "exited"}
           /\ pc_loop' # "exited" => held' \in Request
           /\ \E rs : /\ encoded' = encoded \cup rs
                      /\ rs \subseteq {r \in Ref : c.refs[r] > 0}
           /\ \A r \in Ref : chunk'.refs[r] > 0 => c.refs[r] > 0
           /\ bg_exception' \in {bg_exception, "unsendable"}
  <1>1. CASE /\ chunk' = Nothing /\ pc_loop' = "exited"
             /\ bg_exception' = "unsendable" /\ UNCHANGED <<held, encoded>>
    <2>1. held' \in Request \cup {None}
      BY <1>1 DEF TypeInv, TypeOK, LoopOK
    <2>2. chunk' \in Request /\ \A r \in Ref : ~(chunk'.refs[r] > 0)
      BY <1>1, NothingRequest DEF Nothing, NoItems
    <2>3. encoded' = encoded \cup {} /\ {} \subseteq {r \in Ref : c.refs[r] > 0}
      BY <1>1
    <2> QED
      BY <1>1, <2>1, <2>2, <2>3
  <1>2. ASSUME NEW p \in Fill(c, MaxPerRequest + 1), NEW q \in Fill(p, MaxPerRequest),
               held' = q,
               chunk' = [objs |-> c.objs (-) q.objs, refs |-> c.refs (-) q.refs],
               encoded' = encoded \cup Support(q.refs),
               pc_loop' = IF Paused THEN "gate" ELSE "put", UNCHANGED bg_exception
        PROVE  /\ chunk' \in Request /\ held' \in Request
               /\ Support(q.refs) \subseteq {r \in Ref : c.refs[r] > 0}
               /\ \A r \in Ref : chunk'.refs[r] > 0 => c.refs[r] > 0
    <2>1. q \in Request /\ chunk' \in Request
      BY <1>2, Generated
    <2>2. \A r \in Ref : q.refs[r] <= c.refs[r]
      BY Generated
    <2>3. q.refs \in [Ref -> Nat] /\ c.refs \in [Ref -> Nat]
      BY <2>1 DEF Request
    <2>4. \A r \in Ref : q.refs[r] > 0 => c.refs[r] > 0
      BY <2>2, <2>3
    <2>5. \A r \in Ref : chunk'.refs[r] > 0 => c.refs[r] > 0
      BY <1>2, <2>3 DEF (-)
    <2>6. Support(q.refs) \subseteq {r \in Ref : c.refs[r] > 0}
      BY <2>3, <2>4 DEF Support
    <2> QED
      BY <1>2, <2>1, <2>5, <2>6
  <1> QED
    BY <1>1, <1>2 DEF Generate

LEMMA TypeLoopAsync == TypeInv /\ (LoopPop \/ LoopNext) => TypeInv'
  <1> SUFFICES ASSUME TypeInv, LoopPop \/ LoopNext PROVE TypeInv'
    OBVIOUS
  <1>a. /\ batch_objects \in [Obj -> Nat] /\ batch_references \in [Ref -> Nat]
        /\ chunk \in Request
    BY DEF TypeInv, TypeOK, QueuesOK, LoopOK
  <1>1. QueuesOK'
    <2>1. CASE LoopPop
      <3>1. PICK p, q, n :
               /\ p \in Pops(batch_objects, batch_size) /\ q \in Pops(Eligible, n)
               /\ batch_objects' = batch_objects (-) p
               /\ batch_references' = batch_references (-) q
        BY <2>1 DEF LoopPop
      <3>2. batch_objects' \in [Obj -> Nat]
        BY <1>a, <3>1, PopsPart
      <3>3. batch_references' \in [Ref -> Nat]
        BY <3>1, PopsEligible
      <3> QED
        BY <2>1, <3>2, <3>3 DEF LoopPop, TypeInv, TypeOK, QueuesOK
    <2>2. CASE LoopNext
      BY <2>2 DEF LoopNext, TypeInv, TypeOK, QueuesOK
    <2> QED
      BY <2>1, <2>2
  <1>2. LoopOK' /\ bg_exception' \in {bg_exception, "unsendable"}
    <2>1. ASSUME NEW c \in Request, Generate(c)
          PROVE  LoopOK' /\ bg_exception' \in {bg_exception, "unsendable"}
      <3>1. encoded \subseteq Ref
        BY DEF TypeInv, TypeOK, LoopOK
      <3>2. encoded' \subseteq Ref
        BY <2>1, <3>1, GenerateRequest
      <3>3. /\ chunk' \in Request /\ held' \in Request \cup {None}
            /\ pc_loop' \in {"gate", "put", "exited"}
            /\ pc_loop' # "exited" => held' \in Request
            /\ bg_exception' \in {bg_exception, "unsendable"}
        BY <2>1, GenerateRequest
      <3> QED
        BY <3>2, <3>3 DEF LoopOK
    <2>2. CASE UNCHANGED <<chunk, held, encoded, bg_exception>> /\ pc_loop' \in {"top", pc_loop}
      BY <2>2 DEF TypeInv, TypeOK, LoopOK
    <2>3. CASE LoopPop
      <3>1. PICK p, q, n :
               /\ p \in Pops(batch_objects, batch_size) /\ q \in Pops(Eligible, n)
               /\ \/ Generate([objs |-> p, refs |-> q])
                  \/ UNCHANGED <<pc_loop, chunk, held, encoded, bg_exception>>
        BY <2>3 DEF LoopPop
      <3>2. p \in [Obj -> Nat]
        BY <1>a, <3>1, PopsPart
      <3>3. q \in [Ref -> Nat]
        BY <3>1, PopsEligible
      <3>4. [objs |-> p, refs |-> q] \in Request
        BY <3>2, <3>3 DEF Request
      <3> QED
        BY <2>1, <2>2, <3>1, <3>4
    <2>4. CASE LoopNext
      BY <1>a, <2>1, <2>2, <2>4 DEF LoopNext
    <2> QED
      BY <2>3, <2>4
  <1>3. UNCHANGED loopFrame
    BY DEF LoopPop, LoopNext
  <1>4. SharedOK'
    BY <1>2, <1>3 DEF TypeInv, TypeOK, SharedOK, loopFrame
  <1>5. MainOK' /\ RecvOK' /\ ResultsOK'
    BY <1>3 DEF TypeInv, TypeOK, MainOK, RecvOK, ResultsOK, loopFrame
  <1>6. ServerOK' /\ StreamLeft'
    BY <1>3 DEF TypeInv, TypeOK, ServerOK, StreamLeft, loopFrame
  <1> QED
    BY <1>1, <1>2, <1>4, <1>5, <1>6 DEF TypeInv, TypeOK

\* A new stream is never one too many.
LEMMA OpenedStream ==
    ASSUME TypeInv, OpenStream, UNCHANGED connected, pc_recv # "exited",
           pc_recv = "recv" => "renewing_stream" \in events
    PROVE  RecvOK' /\ ServerOK' /\ StreamLeft'
  <1>1. stream \in Nat /\ stream < MaxStreams
    BY DEF TypeInv, TypeOK, RecvOK, StreamLeft
  <1>2. stream' \in 1..MaxStreams
    BY <1>1 DEF OpenStream
  <1>3. sender' \in [1..MaxStreams -> {"idle", "open", "closed"}]
    BY DEF OpenStream, TypeInv, TypeOK, RecvOK
  <1>4. RecvOK'
    BY <1>2, <1>3 DEF OpenStream, TypeInv, TypeOK, RecvOK
  <1>5. ServerOK'
    BY NothingRequest DEF OpenStream, ServerOK
  <1>6. StreamLeft'
    BY DEF OpenStream, StreamLeft, Cleared
  <1> QED
    BY <1>4, <1>5, <1>6

LEMMA TypeRestartAsync == TypeInv /\ RestartAsync => TypeInv'
  <1> SUFFICES ASSUME TypeInv, RestartAsync PROVE TypeInv'
    OBVIOUS
  <1>1. UNCHANGED recvFrame
    BY DEF RestartAsync, RecvStartAsync, RecvEndAsync, ReconnectAsync
  <1>2. MainOK' /\ LoopOK' /\ ResultsOK'
    BY <1>1 DEF TypeInv, TypeOK, MainOK, LoopOK, ResultsOK, recvFrame
  <1>3. RecvOK' /\ ServerOK' /\ StreamLeft'
    <2>1. CASE OpenStream /\ UNCHANGED connected
      <3>1. pc_recv # "exited" /\ (pc_recv = "recv" => "renewing_stream" \in events)
        BY <2>1 DEF RestartAsync, RecvStartAsync, RecvEndAsync, ReconnectAsync, OpenStream
      <3> QED
        BY <2>1, <3>1, OpenedStream
    <2>2. CASE RecvEndAsync /\ ~OpenStream
      <3>1. UNCHANGED <<stream, sender, serverVars, connected>>
        BY <2>2 DEF RecvEndAsync
      <3>2. /\ pc_recv' \in {"reconnect", "exited"}
            /\ pc_recv' = "reconnect" => "shutting_down" \in events
            /\ pc_recv = "recv"
        BY <2>2 DEF RecvEndAsync
      <3>3. stream < MaxStreams \/ pc_recv' = "exited"
        BY <3>2 DEF TypeInv, StreamLeft
      <3>4. RecvOK'
        BY <3>1, <3>2, <3>3 DEF TypeInv, TypeOK, RecvOK
      <3> QED
        BY <3>1, <3>2, <3>4 DEF TypeInv, TypeOK, ServerOK, StreamLeft
    <2>3. CASE ReconnectAsync /\ ~(OpenStream /\ UNCHANGED connected)
      <3>1. UNCHANGED <<stream, sender, serverVars>> /\ connected' = FALSE
        BY <2>3 DEF ReconnectAsync, ReconnectWaits, ReconnectRaises
      <3>2. pc_recv \in {"reconnect", "reconnect_hungup"} /\ pc_recv' \in {pc_recv, "exited"}
        BY <2>3 DEF ReconnectAsync, ReconnectWaits, ReconnectRaises
      <3>3. RecvOK'
        BY <3>1, <3>2 DEF TypeInv, TypeOK, RecvOK
      <3> QED
        BY <3>1, <3>2, <3>3 DEF TypeInv, TypeOK, ServerOK, StreamLeft
    <2> QED
      BY <2>1, <2>2, <2>3 DEF RestartAsync, RecvStartAsync, RecvEndAsync
  <1>4. QueuesOK'
    <2>1. batch_objects \in [Obj -> Nat] /\ batch_references \in [Ref -> Nat]
      BY DEF TypeInv, TypeOK, QueuesOK
    <2>2. \/ UNCHANGED queueVars
          \/ \E S, T : /\ batch_objects' = batch_objects (+) Once(Obj, S)
                       /\ batch_references' = batch_references (+) Once(Ref, T)
      BY DEF RestartAsync, RecvStartAsync, RecvEndAsync, ReconnectAsync, Requeue
    <2>3. batch_objects' \in [Obj -> Nat]
      BY <2>1, <2>2, PlusBag, OnceBag
    <2>4. batch_references' \in [Ref -> Nat]
      BY <2>1, <2>2, PlusBag, OnceBag
    <2> QED
      BY <1>1, <2>3, <2>4 DEF TypeInv, TypeOK, QueuesOK, recvFrame
  <1>5. SharedOK'
    <2>1. events' \subseteq events \cup {"shutdown_loop"}
      BY DEF RestartAsync, RecvStartAsync, RecvEndAsync, ReconnectAsync, OpenStream
    <2>2. bg_exception' \in {bg_exception, "closed client", "not reconnected"}
      BY DEF RestartAsync, RecvStartAsync, RecvEndAsync, ReconnectAsync, ReconnectWaits,
             ReconnectRaises
    <2>3. inflight_objs' \in {inflight_objs, {}} /\ inflight_refs' \in {inflight_refs, {}}
      BY DEF RestartAsync, RecvStartAsync, RecvEndAsync, ReconnectAsync, Requeue
    <2> QED
      BY <1>1, <2>1, <2>2, <2>3 DEF TypeInv, TypeOK, SharedOK, recvFrame
  <1> QED
    BY <1>2, <1>3, <1>4, <1>5 DEF TypeInv, TypeOK

\* Every step keeps the type invariant.
LEMMA AsyncTypeNext == TypeInv /\ [AsyncNext]_asyncVars => TypeInv'
  <1> SUFFICES ASSUME TypeInv, [AsyncNext]_asyncVars PROVE TypeInv'
    OBVIOUS
  <1>1. CASE User
    BY <1>1, TypeCall, TypeAdd DEF User, UserCall, UserWait, UserAdd
  <1>2. CASE LoopAsync
    BY <1>2, TypeLoop, TypeLoopAsync DEF LoopAsync, Loop
  <1>3. ASSUME NEW s \in 1..MaxStreams, Sender(s) PROVE TypeInv'
    BY <1>3, TypeSender
  <1>4. CASE RecvAsync
    BY <1>4, TypeMessage, TypeRestart, TypeRestartAsync DEF RecvAsync, Restart, RestartAsync
  <1>5. CASE UNCHANGED vars
    BY <1>5, TypeNext
  <1> QED
    BY <1>1, <1>2, <1>3, <1>4, <1>5 DEF AsyncNext, Background, Finished, asyncVars
-----------------------------------------------------------------------------
\* The background tasks leave the user's alone.
LEMMA BackgroundFrame == Background => UNCHANGED mainVars
  <1> SUFFICES ASSUME Background PROVE UNCHANGED mainVars
    OBVIOUS
  <1>1. CASE LoopAsync
    <2>1. UNCHANGED loopFrame
      BY <1>1 DEF LoopAsync, LoopPop, LoopNext, LoopGate, LoopPut, LoopFinish,
                  LoopPutSentinel, LoopExit
    <2> QED
      BY <2>1 DEF loopFrame
  <1>2. ASSUME NEW s \in 1..MaxStreams, Sender(s) PROVE UNCHANGED mainVars
    <2>1. UNCHANGED sendFrame
      BY <1>2 DEF Sender, SendRequest, SendStop, SendReturn, SendRenew
    <2> QED
      BY <2>1 DEF sendFrame
  <1>3. CASE Message
    BY <1>3 DEF Message, RecvAcks, RecvObjectImported, RecvObjectFailed, RecvReferenceResult,
                RecvBackoff, RecvOutOfMemory, RecvShuttingDown, msgFrame
  <1>4. CASE RecvAsync /\ ~Message
    <2>1. UNCHANGED recvFrame
      BY <1>4 DEF RecvAsync, RecvStartAsync, RecvEndAsync, RecvHangup, RecvError, ReconnectAsync
    <2> QED
      BY <2>1 DEF recvFrame
  <1> QED
    BY <1>1, <1>2, <1>3, <1>4 DEF Background
(* Calls and indices *)

LEMMA CallsNext == TypeInv /\ CallsInv /\ [AsyncNext]_asyncVars => CallsInv'
  <1> SUFFICES ASSUME TypeInv, CallsInv, [AsyncNext]_asyncVars PROVE CallsInv'
    OBVIOUS
  <1>1. CASE UserCall \/ UserWait
    <2>1. added' = added
      BY <1>1 DEF UserCall, UserWait, Enter, Wake, FlushAsync, ShutdownAsync, WaitAsync,
                  WaitTimeout
    <2>2. pc_main' \in {"flush", "ready", "exit", "wait", "done", pc_main}
      BY <1>1 DEF UserCall, UserWait, Enter, Wake, Raise, FlushAsync, ShutdownAsync, WaitAsync,
                  WaitTimeout
    <2>3. \/ entered' = entered
          \/ \E x \in (Obj \cup Ref) \ added :
                entered' = entered \cup {x} /\ (x \in Ref => Endpoints[x] \subseteq added)
      BY <1>1 DEF UserCall, UserWait, Enter, Wake, FlushAsync, ShutdownAsync, WaitAsync,
                  WaitTimeout, calls
    <2> QED
      BY <2>1, <2>2, <2>3 DEF CallsInv
  <1>2. CASE UserAdd
    <2>1. \E x : entered' = entered \ {x} /\ added' = added \cup {x}
      BY <1>2 DEF UserAdd, AddObjectAsync, AddReferenceAsync
    <2>2. pc_main' \in {"exit", pc_main}
      BY <1>2 DEF UserAdd, AddObjectAsync, AddReferenceAsync, ReturnOrWait, Raise
    <2> QED
      BY <2>1, <2>2 DEF CallsInv
  <1>3. CASE UNCHANGED <<entered, added, pc_main>>
    BY <1>3 DEF CallsInv
  <1>4. CASE Background /\ UNCHANGED callVars
    BY <1>3, <1>4, BackgroundFrame
  <1>5. CASE (Finished /\ UNCHANGED callVars) \/ UNCHANGED asyncVars
    BY <1>3, <1>5 DEF Finished, vars, asyncVars
  <1> QED
    BY <1>1, <1>2, <1>4, <1>5 DEF AsyncNext, User, UserCall, UserWait, UserAdd

LEMMA IndexNext == TypeInv /\ CallsInv /\ IndexInv /\ [AsyncNext]_asyncVars => IndexInv'
  <1> SUFFICES ASSUME TypeInv, CallsInv, IndexInv, [AsyncNext]_asyncVars PROVE IndexInv'
    OBVIOUS
  <1>1. CASE UNCHANGED <<objs_count, index>> /\ Obj \cap added' = Obj \cap added
    BY <1>1 DEF IndexInv, IndicesDiffer
  <1>2. ASSUME NEW o \in Obj, AddObjectAsync(o) PROVE IndexInv'
    <2>1. /\ o \notin added /\ added' = added \cup {o}
          /\ index' = [index EXCEPT ![o] = objs_count] /\ objs_count' = objs_count + 1
      BY <1>2 DEF AddObjectAsync, Index, CallsInv
    <2>2. /\ objs_count \in Nat /\ index \in [Obj -> Nat]
          /\ \A x \in Obj \cap added : index[x] < objs_count /\ index[x] \in Nat
      BY DEF IndexInv
    <2>3. objs_count' \in Nat /\ index' \in [Obj -> Nat] /\ index'[o] = objs_count
      BY <2>1, <2>2
    <2>4. \A x \in Obj \cap added : index'[x] = index[x]
      BY <2>1, <2>2
    <2>5. \A x \in Obj \cap added' : index'[x] < objs_count'
      BY <2>1, <2>2, <2>3, <2>4
    <2>6. IndicesDiffer'
      <3> SUFFICES ASSUME NEW x \in Obj \cap added', NEW y \in Obj \cap added',
                          index'[x] = index'[y]
                   PROVE  x = y
        BY DEF IndicesDiffer
      <3>1. CASE x # o /\ y # o
        BY <2>1, <2>4, <3>1 DEF IndexInv, IndicesDiffer
      <3>2. CASE x = o \/ y = o
        BY <2>1, <2>2, <2>3, <2>4, <3>2
      <3> QED
        BY <3>1, <3>2
    <2> QED
      BY <2>3, <2>5, <2>6 DEF IndexInv
  <1>3. ASSUME NEW r \in Ref, AddReferenceAsync(r) PROVE IndexInv'
    <2>1. added' = added \cup {r} /\ r \notin Obj
      BY <1>3 DEF AddReferenceAsync
    <2> QED
      BY <1>1, <1>3, <2>1 DEF AddReferenceAsync
  <1>4. CASE UserCall \/ UserWait
    BY <1>1, <1>4 DEF UserCall, UserWait, Enter, Wake, FlushAsync, ShutdownAsync, WaitAsync,
                      WaitTimeout
  <1>5. CASE Background /\ UNCHANGED callVars
    BY <1>1, <1>5, BackgroundFrame
  <1>6. CASE (Finished /\ UNCHANGED callVars) \/ UNCHANGED asyncVars
    BY <1>1, <1>6 DEF Finished, vars, asyncVars
  <1> QED
    BY <1>2, <1>3, <1>4, <1>5, <1>6 DEF AsyncNext, User, UserCall, UserWait
-----------------------------------------------------------------------------
(* One outcome per object: no task takes an object into __objs_cache twice. *)

LEMMA AsyncOutcomeAdd == TypeInv /\ OutcomeInv /\ CallsInv /\ UserAdd => OutcomeInv'
  <1> SUFFICES ASSUME TypeInv, OutcomeInv, CallsInv, UserAdd PROVE OutcomeInv'
    OBVIOUS
  <1>1. UNCHANGED <<item, succeeded, failed_objects>>
    BY DEF UserAdd, AddObjectAsync, AddReferenceAsync, userFrame, mainFrame
  <1>2. /\ pc_main \notin {"queue", "cache", "cache_ref"}
        /\ pc_main' \notin {"queue", "cache", "cache_ref"}
    BY DEF UserAdd, AddObjectAsync, AddReferenceAsync, ReturnOrWait, Raise, CallsInv
  <1>3. \A o \in Obj : Outcomes(o)' = Outcomes(o)
    BY <1>1 DEF Outcomes
  <1>4. PICK x : /\ x \in entered /\ added' = added \cup {x}
                 /\ objs_cache' \subseteq objs_cache \cup {x}
    BY DEF UserAdd, AddObjectAsync, AddReferenceAsync
  <1>5. \A o \in Obj : /\ Adding(o) <=> o \notin added
                       /\ Adding(o)' <=> o \notin added'
    BY <1>2 DEF Adding
  <1>6. x \notin added
    BY <1>4 DEF CallsInv
  <1> QED
    BY <1>2, <1>3, <1>4, <1>5, <1>6 DEF OutcomeInv, ItemAdded, AtMostOneOutcome

LEMMA AsyncOutcomeNext ==
    TypeInv /\ OutcomeInv /\ CallsInv /\ [AsyncNext]_asyncVars => OutcomeInv'
  <1> SUFFICES ASSUME TypeInv, OutcomeInv, CallsInv, [AsyncNext]_asyncVars PROVE OutcomeInv'
    OBVIOUS
  <1>a. /\ pc_main \notin {"queue", "cache", "cache_ref"}
        /\ pc_main' \notin {"queue", "cache", "cache_ref"}
    BY CallsNext DEF CallsInv
  <1>1. CASE UNCHANGED <<added, objs_cache, succeeded, failed_objects>>
    <2>1. \A o \in Obj : (Adding(o)' <=> Adding(o)) /\ Outcomes(o)' = Outcomes(o)
      BY <1>a, <1>1 DEF Adding, Outcomes
    <2> QED
      BY <1>a, <1>1, <2>1 DEF OutcomeInv, ItemAdded, AtMostOneOutcome
  <1>2. CASE UserCall \/ UserWait
    BY <1>1, <1>2 DEF UserCall, UserWait, Enter, Wake, FlushAsync, ShutdownAsync, WaitAsync,
                      WaitTimeout, userFrame, mainFrame
  <1>3. CASE UserAdd
    BY <1>3, AsyncOutcomeAdd
  <1>4. CASE LoopAsync
    <2>1. UNCHANGED loopFrame
      BY <1>4 DEF LoopAsync, LoopPop, LoopNext, LoopGate, LoopPut, LoopFinish,
                  LoopPutSentinel, LoopExit
    <2> QED
      BY <1>1, <2>1 DEF loopFrame
  <1>5. ASSUME NEW s \in 1..MaxStreams, Sender(s) PROVE OutcomeInv'
    <2>1. UNCHANGED sendFrame
      BY <1>5 DEF Sender, SendRequest, SendStop, SendReturn, SendRenew
    <2> QED
      BY <1>1, <2>1 DEF sendFrame
  <1>6. ASSUME NEW o \in Obj, RecvObjectImported(o) \/ RecvObjectFailed(o) PROVE OutcomeInv'
    BY <1>6, OutcomeResult
  <1>7. CASE RecvAcks \/ (\E r \in Ref : RecvReferenceResult(r))
               \/ (\E n \in BatchSizes : RecvBackoff(n)) \/ RecvOutOfMemory \/ RecvShuttingDown
    BY <1>1, <1>7 DEF RecvAcks, RecvReferenceResult, RecvBackoff, RecvOutOfMemory,
                      RecvShuttingDown, msgFrame
  <1>8. CASE RecvAsync /\ ~Message
    <2>1. UNCHANGED recvFrame
      BY <1>8 DEF RecvAsync, RecvStartAsync, RecvEndAsync, RecvHangup, RecvError, ReconnectAsync
    <2> QED
      BY <1>1, <2>1 DEF recvFrame
  <1>9. CASE UNCHANGED vars
    BY <1>1, <1>9 DEF vars
  <1> QED
    BY <1>2, <1>3, <1>4, <1>5, <1>6, <1>7, <1>8, <1>9
       DEF AsyncNext, User, UserCall, UserWait, UserAdd, Background, Message, Finished, asyncVars
-----------------------------------------------------------------------------
(* References wait for their objects, in the tasks too. *)

LEMMA AsyncReferenceAdd == TypeInv /\ ReferenceInv /\ CallsInv /\ UserAdd => ReferenceInv'
  <1> SUFFICES ASSUME TypeInv, ReferenceInv, CallsInv, UserAdd PROVE ReferenceInv'
    OBVIOUS
  <1>1. UNCHANGED <<chunk, encoded, succeeded>>
    BY DEF UserAdd, AddObjectAsync, AddReferenceAsync, userFrame, mainFrame
  <1>2. /\ \A r \in Ref : chunk'.refs[r] > 0 => Imported(r)'
        /\ \A r \in encoded' : Imported(r)'
    BY <1>1 DEF ReferenceInv, Imported
  <1>3. ASSUME NEW o \in Obj, AddObjectAsync(o) PROVE ReferenceInv'
    BY <1>1, <1>2, <1>3 DEF ReferenceInv, AddObjectAsync
  <1>4. ASSUME NEW r \in Ref, AddReferenceAsync(r) PROVE ReferenceInv'
    <2>1. /\ added' = added \cup {r} /\ r \in entered
          /\ batch_references' = batch_references (+) Once(Ref, {r})
          /\ refs_cache' = [refs_cache EXCEPT ![Beacon[r]] = r]
          /\ uuid_lookup' = uuid_lookup
      BY <1>4 DEF AddReferenceAsync
    <2>2. \A x \in Ref : batch_references'[x] > 0 => x \in added'
      BY <2>1 DEF ReferenceInv, (+), Once, TypeInv, TypeOK, QueuesOK
    <2>3. \A b \in Beacons : refs_cache'[b] \in added' \cup {None}
      BY <2>1 DEF ReferenceInv, TypeInv, TypeOK, SharedOK
    <2>4. Endpoints[r] \subseteq added
      BY <2>1 DEF CallsInv
    <2>5. \A x \in Ref \cap added' : Endpoints[x] \subseteq added'
      BY <2>1, <2>4 DEF ReferenceInv
    <2>6. \A o \in Obj \cap added' : o \in uuid_lookup' \/ succeeded'[o] > 0
      BY <1>1, <2>1 DEF ReferenceInv
    <2> QED
      BY <1>2, <2>2, <2>3, <2>5, <2>6 DEF ReferenceInv
  <1> QED
    BY <1>3, <1>4 DEF UserAdd

LEMMA AsyncReferenceLoop ==
    TypeInv /\ ReferenceInv /\ (LoopPop \/ LoopNext) => ReferenceInv'
  <1> SUFFICES ASSUME TypeInv, ReferenceInv, LoopPop \/ LoopNext PROVE ReferenceInv'
    OBVIOUS
  <1>1. UNCHANGED <<refs_cache, added, uuid_lookup, succeeded>>
    BY DEF LoopPop, LoopNext, loopFrame
  <1>2. \A r : Imported(r)' <=> Imported(r)
    BY <1>1 DEF Imported
  <1>3. /\ batch_objects \in [Obj -> Nat] /\ batch_references \in [Ref -> Nat]
        /\ chunk \in Request
    BY DEF TypeInv, TypeOK, LoopOK, QueuesOK
  <1> SUFFICES /\ \A r \in Ref : batch_references'[r] > 0 => r \in added
               /\ \A r \in Ref : chunk'.refs[r] > 0 => Imported(r)
               /\ \A r \in encoded' : Imported(r)
    BY <1>1, <1>2 DEF ReferenceInv
  <1>4. ASSUME NEW c \in Request, Generate(c), \A r \in Ref : c.refs[r] > 0 => Imported(r)
        PROVE  /\ \A r \in Ref : chunk'.refs[r] > 0 => Imported(r)
               /\ \A r \in encoded' : Imported(r)
    <2>1. \A r \in Ref : chunk'.refs[r] > 0 => c.refs[r] > 0
      BY <1>4, GenerateRequest
    <2>2. \E rs : encoded' = encoded \cup rs /\ rs \subseteq {r \in Ref : c.refs[r] > 0}
      BY <1>4, GenerateRequest
    <2> QED
      BY <1>4, <2>1, <2>2 DEF ReferenceInv
  <1>5. CASE LoopPop
    <2>1. PICK p, q, n :
             /\ p \in Pops(batch_objects, batch_size) /\ q \in Pops(Eligible, n)
             /\ batch_references' = batch_references (-) q
             /\ \/ Generate([objs |-> p, refs |-> q])
                \/ UNCHANGED <<pc_loop, chunk, held, encoded, bg_exception>>
      BY <1>5 DEF LoopPop
    <2>2. p \in [Obj -> Nat]
      BY <1>3, <2>1, PopsPart
    <2>3. /\ q \in [Ref -> Nat]
          /\ \A r \in Ref : q[r] <= batch_references[r]
          /\ \A r \in Ref : q[r] > 0 => Endpoints[r] \cap uuid_lookup = {}
      BY <2>1, PopsEligible
    <2>4. ASSUME NEW r \in Ref, q[r] > 0 PROVE Imported(r)
      <3>1. r \in added
        BY <1>3, <2>3, <2>4 DEF ReferenceInv
      <3>2. Endpoints[r] \subseteq Obj \cap added /\ Endpoints[r] \cap uuid_lookup = {}
        BY <2>3, <2>4, <3>1 DEF ReferenceInv
      <3> QED
        BY <3>2 DEF ReferenceInv, Imported
    <2>5. [objs |-> p, refs |-> q] \in Request
      BY <2>2, <2>3 DEF Request
    <2>6. \A r \in Ref : batch_references'[r] > 0 => batch_references[r] > 0
      BY <1>3, <2>1, <2>3 DEF (-)
    <2>7. /\ \A r \in Ref : chunk'.refs[r] > 0 => Imported(r)
          /\ \A r \in encoded' : Imported(r)
      <3>1. CASE Generate([objs |-> p, refs |-> q])
        BY <1>4, <2>4, <2>5, <3>1
      <3>2. CASE UNCHANGED <<chunk, encoded>>
        BY <3>2 DEF ReferenceInv
      <3> QED
        BY <2>1, <3>1, <3>2
    <2> QED
      BY <2>6, <2>7 DEF ReferenceInv
  <1>6. CASE LoopNext
    BY <1>3, <1>4, <1>6 DEF LoopNext, ReferenceInv
  <1> QED
    BY <1>5, <1>6

LEMMA AsyncReferenceRestart == TypeInv /\ ReferenceInv /\ RestartAsync => ReferenceInv'
  <1> SUFFICES ASSUME TypeInv, ReferenceInv, RestartAsync PROVE ReferenceInv'
    OBVIOUS
  <1>1. UNCHANGED <<added, chunk, encoded, succeeded, uuid_lookup, refs_cache>>
    BY DEF RestartAsync, RecvStartAsync, RecvEndAsync, ReconnectAsync, recvFrame
  <1>2. \A r : Imported(r)' <=> Imported(r)
    BY <1>1 DEF Imported
  <1>3. \A r \in Ref : batch_references'[r] > 0 => r \in added
    <2>1. CASE batch_references' = batch_references (+)
                                      Once(Ref, {refs_cache[b] : b \in Beacons} \ {None})
      <3>1. {refs_cache[b] : b \in Beacons} \subseteq added \cup {None}
        BY DEF ReferenceInv
      <3> QED
        BY <2>1, <3>1, QueuedAgain
    <2>2. CASE batch_references' = batch_references
      BY <2>2 DEF ReferenceInv
    <2> QED
      BY <2>1, <2>2 DEF RestartAsync, RecvStartAsync, RecvEndAsync, ReconnectAsync, Requeue
  <1> QED
    BY <1>1, <1>2, <1>3 DEF ReferenceInv

LEMMA AsyncReferenceNext ==
    TypeInv /\ ReferenceInv /\ CallsInv /\ [AsyncNext]_asyncVars => ReferenceInv'
  <1> SUFFICES ASSUME TypeInv, ReferenceInv, CallsInv, [AsyncNext]_asyncVars
               PROVE  ReferenceInv'
    OBVIOUS
  <1>1. CASE UNCHANGED <<batch_references, refs_cache, added, uuid_lookup, succeeded, encoded>>
               /\ chunk' \in {chunk, Nothing}
    <2>1. \A r \in Ref : chunk'.refs[r] > 0 => chunk.refs[r] > 0
      BY <1>1 DEF Nothing, NoItems
    <2> QED
      BY <1>1, <2>1 DEF ReferenceInv, Imported
  <1>2. CASE UserCall \/ UserWait
    BY <1>1, <1>2 DEF UserCall, UserWait, Enter, Wake, FlushAsync, ShutdownAsync, WaitAsync,
                      WaitTimeout, userFrame, mainFrame
  <1>3. CASE UserAdd
    BY <1>3, AsyncReferenceAdd
  <1>4. CASE LoopAsync
    BY <1>4, ReferenceLoop, AsyncReferenceLoop DEF LoopAsync, Loop
  <1>5. ASSUME NEW s \in 1..MaxStreams, Sender(s) PROVE ReferenceInv'
    <2>1. UNCHANGED sendFrame
      BY <1>5 DEF Sender, SendRequest, SendStop, SendReturn, SendRenew
    <2> QED
      BY <1>1, <2>1 DEF sendFrame
  <1>6. CASE RecvAsync
    BY <1>6, ReferenceMessage, ReferenceRestart, AsyncReferenceRestart
       DEF RecvAsync, Restart, RestartAsync
  <1>7. CASE UNCHANGED vars
    BY <1>1, <1>7 DEF vars
  <1> QED
    BY <1>2, <1>3, <1>4, <1>5, <1>6, <1>7
       DEF AsyncNext, User, UserCall, UserWait, UserAdd, Background, Finished, asyncVars
-----------------------------------------------------------------------------
(* The theorems *)

LEMMA AsyncNextInv == IInv /\ [AsyncNext]_asyncVars => IInv'
  BY AsyncTypeNext, AsyncOutcomeNext, AsyncReferenceNext, CallsNext, IndexNext DEF IInv

THEOREM Inductive == AsyncSpec => []IInv
  BY AsyncInitInv, AsyncNextInv, PTL DEF AsyncSpec

\* IndicesDiffer: however many calls are gathered and whatever tasks run
\* between their halves, no result of one object is kept under the index of
\* another.
THEOREM NoIndexTwice == AsyncSpec => []IndicesDiffer
  <1>1. IInv => IndicesDiffer
    BY DEF IInv, IndexInv
  <1> QED
    BY <1>1, Inductive, PTL
-----------------------------------------------------------------------------
(* AsyncBatch implements BatchImport: the second half of a call submits its *)
(* object, and a step of the generator releases the references it encodes.  *)

LEMMA AsyncImportAdd ==
    TypeInv /\ OutcomeInv /\ CallsInv /\ UserAdd => [Import!Next]_(Import!vars)
  <1> SUFFICES ASSUME TypeInv, OutcomeInv, CallsInv, UserAdd
               PROVE  [Import!Next]_(Import!vars)
    OBVIOUS
  <1>1. UNCHANGED <<succeeded, failed_objects, encoded>>
    BY DEF UserAdd, AddObjectAsync, AddReferenceAsync, userFrame, mainFrame
  <1>2. ASSUME NEW o \in Obj, AddObjectAsync(o) PROVE Import!Submit(o)
    <2>1. o \notin added /\ added' = added \cup {o}
      BY <1>2 DEF AddObjectAsync, CallsInv
    <2>2. Outcomes(o) = 0 /\ succeeded[o] \in Nat /\ failed_objects[o] \in Nat
      BY <2>1 DEF OutcomeInv, Adding, TypeInv, TypeOK, ResultsOK
    <2>3. succeeded[o] = 0 /\ failed_objects[o] = 0
      BY <2>2 DEF Outcomes
    <2>4. status[o] = "new" /\ status'[o] = "pending"
      BY <1>1, <2>1, <2>2, <2>3 DEF status, Outcomes
    <2>5. \A x \in Obj \ {o} : status'[x] = status[x]
      BY <1>1, <2>1 DEF status, Outcomes
    <2>6. status' = [status EXCEPT ![o] = "pending"]
      BY <2>4, <2>5 DEF status
    <2> QED
      BY <1>1, <2>4, <2>6 DEF Import!Submit
  <1>3. ASSUME NEW r \in Ref, AddReferenceAsync(r) PROVE UNCHANGED Import!vars
    <2>1. added' = added \cup {r} /\ r \notin Obj
      BY <1>3 DEF AddReferenceAsync
    <2>2. status' = status
      BY <1>1, <2>1 DEF status, Outcomes
    <2> QED
      BY <1>1, <2>2 DEF Import!vars
  <1> QED
    BY <1>2, <1>3 DEF UserAdd, Import!Next

LEMMA AsyncImportLoop ==
    ASSUME TypeInv, TypeInv', ReferenceInv, ReferenceInv', LoopPop \/ LoopNext
    PROVE  [Import!Next]_(Import!vars)
  <1>1. UNCHANGED <<added, succeeded, failed_objects>>
    BY DEF LoopPop, LoopNext, loopFrame
  <1>2. status' = status
    BY <1>1 DEF status, Outcomes
  <1>3. PICK rs : encoded' = encoded \cup rs
    BY DEF LoopPop, LoopNext, Generate
  <1>4. rs \in SUBSET Ref
    BY <1>3 DEF TypeInv, TypeOK, LoopOK
  <1>5. \A r \in rs : Imported(r)
    BY <1>1, <1>3 DEF ReferenceInv, Imported
  <1>6. \A r \in rs, o \in Obj : o \in Endpoints[r] => status[o] = "imported"
    <2>1. ASSUME NEW r \in rs, NEW o \in Obj, o \in Endpoints[r] PROVE succeeded[o] > 0
      BY <1>5, <2>1 DEF Imported
    <2>2. \A o \in Obj : succeeded[o] > 0 => status[o] = "imported"
      BY DEF status, Outcomes, TypeInv, TypeOK, ResultsOK
    <2> QED
      BY <2>1, <2>2
  <1> QED
    BY <1>2, <1>3, <1>4, <1>6 DEF Import!Release, Import!Next

LEMMA AsyncImportNext ==
    ASSUME IInv, IInv', [AsyncNext]_asyncVars
    PROVE  [Import!Next]_(Import!vars)
  <1>a. TypeInv /\ OutcomeInv /\ ReferenceInv /\ CallsInv /\ TypeInv' /\ ReferenceInv'
    BY DEF IInv
  <1>1. CASE UserCall \/ UserWait
    <2>1. UNCHANGED importVars
      BY <1>1 DEF UserCall, UserWait, Enter, Wake, FlushAsync, ShutdownAsync, WaitAsync,
                  WaitTimeout, userFrame, mainFrame, importVars
    <2> QED
      BY <2>1, ImportStutters
  <1>2. CASE UserAdd
    BY <1>a, <1>2, AsyncImportAdd
  <1>3. CASE LoopPop \/ LoopNext
    BY <1>a, <1>3, AsyncImportLoop
  <1>4. CASE Finished \/ UNCHANGED vars
    <2>1. UNCHANGED importVars
      BY <1>4 DEF Finished, vars, importVars
    <2> QED
      BY <2>1, ImportStutters
  <1>5. CASE LoopShared \/ (\E s \in 1..MaxStreams : Sender(s)) \/ Message \/ RecvHangup
               \/ RecvError
    <2>1. Others
      BY <1>5 DEF LoopShared, Others, Loop, Recv
    <2> QED
      BY <1>a, <2>1, ImportNext DEF Next
  <1>6. CASE RestartAsync
    <2>1. UNCHANGED importVars
      BY <1>6 DEF RestartAsync, RecvStartAsync, RecvEndAsync, ReconnectAsync, recvFrame,
                  importVars
    <2> QED
      BY <2>1, ImportStutters
  <1> QED
    BY <1>1, <1>2, <1>3, <1>4, <1>5, <1>6
       DEF AsyncNext, User, UserCall, UserWait, UserAdd, Background, LoopAsync, LoopShared,
           RecvAsync, RestartAsync, asyncVars

\* ImplementsImport: the tasks of one event loop keep the promise that the
\* threads of StreamBatch keep.
THEOREM AsyncImplementsImport == AsyncSpec => ImplementsImport
  <1>1. IInv /\ IInv' /\ [AsyncNext]_asyncVars => [Import!Next]_(Import!vars)
    BY AsyncImportNext
  <1>2. AsyncInit => Import!Init
    BY ImportInit DEF AsyncInit
  <1> QED
    BY <1>1, <1>2, Inductive, PTL DEF AsyncSpec, ImplementsImport, Import!Spec

\* AtMostOneOutcome and RefsAfterObjects, as for the threads.
THEOREM AsyncOneOutcome == AsyncSpec => []AtMostOneOutcome
  <1>1. IInv => AtMostOneOutcome
    BY DEF IInv, OutcomeInv
  <1> QED
    BY <1>1, Inductive, PTL

THEOREM AsyncReferencesWait == AsyncSpec => []RefsAfterObjects
  <1>1. IInv => RefsAfterObjects
    BY DEF IInv, ReferenceInv, Imported, RefsAfterObjects
  <1> QED
    BY <1>1, Inductive, PTL
=============================================================================
