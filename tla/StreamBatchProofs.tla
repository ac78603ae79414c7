------------------------- MODULE StreamBatchProofs -------------------------
(***************************************************************************)
(* What holds of StreamBatch for all objects, references, sizes, numbers   *)
(* of streams and for every behaviour of the environment.                  *)
(***************************************************************************)
EXTENDS StreamBatch, TLAPS

\* A popped part of a queue is a part of it, and so is what stays.
LEMMA PopsPart ==
    ASSUME NEW S, NEW b \in [S -> Nat], NEW n, NEW p \in Pops(b, n)
    PROVE  /\ p \in [S -> Nat] /\ b (-) p \in [S -> Nat]
           /\ \A x \in S : p[x] <= b[x]
  <1>1. /\ p \in [S -> 0..Size(b)]
        /\ \A x \in S : p[x] \in 0..b[x]
    BY DEF Pops
  <1>2. \A x \in S : p[x] \in Nat /\ b[x] \in Nat /\ p[x] <= b[x] /\ b[x] - p[x] \in Nat
    BY <1>1
  <1> QED
    BY <1>1, <1>2 DEF (-)

\* So are the items that __generate_stream_requests puts into one message.
LEMMA FillPart ==
    ASSUME NEW c \in Request, NEW n, NEW q \in Fill(c, n)
    PROVE  /\ q \in Request
           /\ \A o \in Obj : q.objs[o] <= c.objs[o]
           /\ \A r \in Ref : q.refs[r] <= c.refs[r]
  <1>1. /\ c.objs \in [Obj -> Nat] /\ c.refs \in [Ref -> Nat]
        /\ q = [objs |-> q.objs, refs |-> q.refs]
        /\ q.objs \in Pops(c.objs, n) /\ q.refs \in Pops(c.refs, n)
    BY DEF Fill, Request
  <1> QED
    BY <1>1, PopsPart DEF Request

\* Adding items to a queue leaves a queue.
LEMMA PlusBag ==
    ASSUME NEW S, NEW b \in [S -> Nat], NEW c \in [S -> Nat]
    PROVE  b (+) c \in [S -> Nat]
  BY DEF (+)

LEMMA OnceBag ==
    ASSUME NEW S, NEW T
    PROVE  Once(S, T) \in [S -> Nat]
  BY DEF Once

\* What a part leaves of a request.
LEMMA MinusRequest ==
    ASSUME NEW c \in Request, NEW q \in Request,
           \A o \in Obj : q.objs[o] <= c.objs[o], \A r \in Ref : q.refs[r] <= c.refs[r]
    PROVE  [objs |-> c.objs (-) q.objs, refs |-> c.refs (-) q.refs] \in Request
  <1>1. /\ c.objs \in [Obj -> Nat] /\ c.refs \in [Ref -> Nat]
        /\ q.objs \in [Obj -> Nat] /\ q.refs \in [Ref -> Nat]
    BY DEF Request
  <1>2. c.objs (-) q.objs \in [Obj -> Nat]
    BY <1>1 DEF (-)
  <1>3. c.refs (-) q.refs \in [Ref -> Nat]
    BY <1>1 DEF (-)
  <1> QED
    BY <1>2, <1>3 DEF Request

LEMMA NothingRequest == Nothing \in Request
  BY DEF Nothing, Request, NoItems
-----------------------------------------------------------------------------
(* The type invariant.  A step from "recv" may open one more stream, so it *)
(* needs to know that the failures that lead there leave a stream to open. *)

StreamLeft == (pc_recv = "recv" /\ (srv_oom \/ events \cap {"shutting_down", "renewing_stream"} # {}))
                 => stream < MaxStreams

TypeInv == TypeOK /\ StreamLeft

SendAny == \E s \in 1..MaxStreams : Sender(s)
Restart == RecvStart \/ RecvEnd \/ RecvHangup \/ RecvError \/ Reconnect
             \/ ReaddObjects \/ ReaddReferences

USE ConstantsOK DEF mainVars, queueVars, cacheVars, flightVars, loopVars, recvVars,
                    resultVars, serverVars, BgErrors

LEMMA TypeInit == Init => TypeInv
  <1> SUFFICES ASSUME Init PROVE TypeInv
    OBVIOUS
  <1>0. \A S : NoItems(S) \in [S -> Nat]
    BY DEF NoItems
  <1>1. QueuesOK
    BY <1>0 DEF Init, QueuesOK
  <1>2. SharedOK
    BY DEF Init, SharedOK
  <1>3. MainOK
    BY DEF Init, MainOK
  <1>4. LoopOK
    BY NothingRequest DEF Init, LoopOK
  <1>5. RecvOK
    BY DEF Init, RecvOK
  <1>6. ResultsOK
    BY <1>0 DEF Init, ResultsOK
  <1>7. ServerOK
    BY NothingRequest DEF Init, ServerOK
  <1>8. StreamLeft
    BY DEF Init, StreamLeft
  <1> QED
    BY <1>1, <1>2, <1>3, <1>4, <1>5, <1>6, <1>7, <1>8 DEF TypeInv, TypeOK

LEMMA TypeMain == TypeInv /\ Main => TypeInv'
  <1> SUFFICES ASSUME TypeInv, Main PROVE TypeInv'
    OBVIOUS
  <1> USE DEF TypeInv, TypeOK, Main, AddObject, AddReference, QueueObject, CacheObject,
              CacheReference, Unblock, Flush, RaiseDead, Shutdown, Wait, mainFrame
  <1>1. QueuesOK'
    <2>1. CASE QueueObject
      BY <2>1, PlusBag, OnceBag DEF QueuesOK, MainOK
    <2>2. CASE \E r \in Ref : AddReference(r)
      BY <2>2, PlusBag, OnceBag DEF QueuesOK
    <2>3. CASE UNCHANGED <<queueVars, reqs>>
      BY <2>3 DEF QueuesOK
    <2> QED
      BY <2>1, <2>2, <2>3
  <1>2. SharedOK'
    BY DEF SharedOK, MainOK
  <1>3. MainOK'
    BY DEF MainOK
  <1>4. LoopOK'
    BY DEF LoopOK
  <1>5. RecvOK'
    BY DEF RecvOK
  <1>6. ResultsOK'
    BY DEF ResultsOK
  <1>7. ServerOK'
    BY DEF ServerOK
  <1>8. StreamLeft'
    BY DEF StreamLeft
  <1> QED
    BY <1>1, <1>2, <1>3, <1>4, <1>5, <1>6, <1>7, <1>8

LEMMA PopsEligible ==
    ASSUME TypeInv, NEW n, NEW p \in Pops(Eligible, n)
    PROVE  /\ p \in [Ref -> Nat] /\ batch_references (-) p \in [Ref -> Nat]
           /\ \A r \in Ref : p[r] <= batch_references[r]
           /\ \A r \in Ref : p[r] > 0 => Endpoints[r] \cap uuid_lookup = {}
  <1>1. batch_references \in [Ref -> Nat]
    BY DEF TypeInv, TypeOK, QueuesOK
  <1>2. Eligible \in [Ref -> Nat]
    BY <1>1 DEF Eligible
  <1>3. \A r \in Ref : /\ Eligible[r] <= batch_references[r]
                       /\ Eligible[r] > 0 => Endpoints[r] \cap uuid_lookup = {}
    BY <1>1 DEF Eligible
  <1>4. p \in [Ref -> Nat] /\ \A r \in Ref : p[r] <= Eligible[r]
    BY <1>2, PopsPart
  <1>5. \A r \in Ref : /\ p[r] <= batch_references[r]
                       /\ p[r] > 0 => Endpoints[r] \cap uuid_lookup = {}
    BY <1>1, <1>2, <1>3, <1>4
  <1>6. batch_references (-) p \in [Ref -> Nat]
    BY <1>1, <1>4, <1>5 DEF (-)
  <1> QED
    BY <1>4, <1>5, <1>6

LEMMA Generated ==
    ASSUME NEW c \in Request, NEW n, NEW m, NEW p \in Fill(c, n), NEW q \in Fill(p, m)
    PROVE  /\ q \in Request
           /\ [objs |-> c.objs (-) q.objs, refs |-> c.refs (-) q.refs] \in Request
           /\ \A r \in Ref : q.refs[r] <= c.refs[r]
           /\ \A o \in Obj : q.objs[o] <= c.objs[o]
  <1>1. /\ p \in Request
        /\ \A o \in Obj : p.objs[o] <= c.objs[o]
        /\ \A r \in Ref : p.refs[r] <= c.refs[r]
    BY FillPart
  <1>2. /\ q \in Request
        /\ \A o \in Obj : q.objs[o] <= p.objs[o]
        /\ \A r \in Ref : q.refs[r] <= p.refs[r]
    BY <1>1, FillPart
  <1>3. /\ \A o \in Obj : q.objs[o] <= c.objs[o]
        /\ \A r \in Ref : q.refs[r] <= c.refs[r]
    BY <1>1, <1>2 DEF Request
  <1> QED
    BY <1>2, <1>3, MinusRequest

LEMMA TypeLoop == TypeInv /\ Loop => TypeInv'
  <1> SUFFICES ASSUME TypeInv, Loop PROVE TypeInv'
    OBVIOUS
  <1>a. /\ batch_objects \in [Obj -> Nat] /\ batch_references \in [Ref -> Nat]
        /\ chunk \in Request /\ chunk.objs \in [Obj -> Nat] /\ chunk.refs \in [Ref -> Nat]
    BY DEF TypeInv, TypeOK, QueuesOK, LoopOK, Request
  <1>1. QueuesOK'
    <2> USE DEF TypeInv, TypeOK, QueuesOK, loopFrame
    <2>1. CASE LoopPopObjects
      BY <2>1, <1>a, PopsPart DEF LoopPopObjects
    <2>2. CASE LoopPopReferences
      BY <2>2, <1>a, PopsEligible DEF LoopPopReferences
    <2>3. CASE LoopPut
      BY <2>3 DEF LoopPut, LoopOK, QueueIsFull
    <2>4. CASE LoopPutSentinel
      BY <2>4 DEF LoopPutSentinel, QueueIsFull
    <2>5. CASE UNCHANGED <<queueVars, reqs>>
      BY <2>5
    <2> QED
      BY <2>1, <2>2, <2>3, <2>4, <2>5
         DEF Loop, LoopGenerate, LoopGenerated, LoopGate, LoopFinish, LoopExit
  <1>2. LoopOK'
    <2> USE DEF TypeInv, TypeOK, LoopOK, loopFrame
    <2>1. CASE LoopPopObjects
      <3>1. PICK p : p \in Pops(batch_objects, batch_size) /\ chunk' = [chunk EXCEPT !.objs = p]
        BY <2>1 DEF LoopPopObjects
      <3>2. chunk' \in Request
        BY <3>1, <1>a, PopsPart DEF Request
      <3> QED
        BY <2>1, <3>2 DEF LoopPopObjects
    <2>2. CASE LoopPopReferences
      <3>1. PICK n, p : p \in Pops(Eligible, n) /\ chunk' = [chunk EXCEPT !.refs = p]
        BY <2>2 DEF LoopPopReferences
      <3>2. chunk' \in Request
        BY <3>1, <1>a, PopsEligible DEF Request
      <3> QED
        BY <2>2, <3>2 DEF LoopPopReferences
    <2>3. CASE LoopGenerate
      <3>1. chunk' \in Request /\ held' \in Request \cup {None}
              /\ (pc_loop' = "gate" => held' \in Request)
        BY <2>3, <1>a, Generated, NothingRequest DEF LoopGenerate
      <3>2. encoded' \subseteq Ref
        BY <2>3, <1>a, Generated DEF LoopGenerate, Support, Request
      <3> QED
        BY <2>3, <3>1, <3>2 DEF LoopGenerate
    <2>4. CASE ~(LoopPopObjects \/ LoopPopReferences \/ LoopGenerate)
      BY <2>4, NothingRequest DEF Loop, LoopGenerated, LoopGate, LoopPut, LoopFinish,
            LoopPutSentinel, LoopExit
    <2> QED
      BY <2>1, <2>2, <2>3, <2>4
  <1> USE DEF TypeInv, TypeOK, Loop, LoopPopObjects, LoopPopReferences, LoopGenerate,
              LoopGenerated, LoopGate, LoopPut, LoopFinish, LoopPutSentinel, LoopExit, loopFrame
  <1>3. SharedOK'
    BY DEF SharedOK
  <1>4. MainOK'
    BY DEF MainOK
  <1>5. RecvOK'
    BY DEF RecvOK
  <1>6. ResultsOK'
    BY DEF ResultsOK
  <1>7. ServerOK'
    BY DEF ServerOK
  <1>8. StreamLeft'
    BY DEF StreamLeft
  <1> QED
    BY <1>1, <1>2, <1>3, <1>4, <1>5, <1>6, <1>7, <1>8

\* What a sender takes from __reqs.
LEMMA Taken ==
    ASSUME TypeInv, NEW q \in reqs \ {None}
    PROVE  /\ q \in Request /\ q.objs \in [Obj -> Nat] /\ q.refs \in [Ref -> Nat]
           /\ Support(q.objs) \subseteq Obj
           /\ {Beacon[r] : r \in Support(q.refs)} \subseteq Beacons
  <1>1. q \in Request
    BY DEF TypeInv, TypeOK, QueuesOK
  <1>2. q.objs \in [Obj -> Nat] /\ q.refs \in [Ref -> Nat]
    BY <1>1 DEF Request
  <1>3. Support(q.objs) \subseteq Obj /\ Support(q.refs) \subseteq Ref
    BY <1>2 DEF Support
  <1> QED
    BY <1>1, <1>2, <1>3 DEF Beacons

LEMMA TypeSender == ASSUME TypeInv, NEW s \in 1..MaxStreams, Sender(s) PROVE TypeInv'
  <1> USE DEF TypeInv, TypeOK, sendFrame
  <1>1. CASE SendRequest(s)
    <2>1. PICK q \in reqs \ {None} : SendRequest(s)!2!(q)
      BY <1>1 DEF SendRequest
    <2>2. /\ q \in Request /\ q.objs \in [Obj -> Nat] /\ q.refs \in [Ref -> Nat]
          /\ Support(q.objs) \subseteq Obj
          /\ {Beacon[r] : r \in Support(q.refs)} \subseteq Beacons
      BY Taken
    <2>3. UNCHANGED <<sendFrame, events>>
      BY <1>1 DEF SendRequest
    <2>4. QueuesOK' /\ MainOK' /\ LoopOK' /\ ResultsOK' /\ StreamLeft'
      BY <2>1, <2>3 DEF QueuesOK, MainOK, LoopOK, ResultsOK, StreamLeft
    <2>5. SharedOK'
      BY <2>1, <2>2, <2>3 DEF SharedOK
    <2>6. RecvOK'
      BY <2>1, <2>3 DEF RecvOK
    <2>7. ServerOK'
      <3>1. CASE ~Connected(s)
        BY <2>1, <2>3, <3>1 DEF ServerOK
      <3>2. CASE Connected(s)
        <4>1. unresolved.objs \in [Obj -> Nat] /\ unresolved.refs \in [Ref -> Nat]
          BY DEF ServerOK, Request
        <4>2. unresolved' \in Request
          BY <2>1, <2>2, <3>2, <4>1, PlusBag DEF Request
        <4>3. unacked' \in [objs : SUBSET Obj, refs : SUBSET Beacons]
          BY <2>1, <2>2, <3>2 DEF ServerOK
        <4> QED
          BY <2>3, <4>2, <4>3 DEF ServerOK
      <3> QED
        BY <3>1, <3>2
    <2> QED
      BY <2>4, <2>5, <2>6, <2>7
  <1>2. CASE ~SendRequest(s)
    <2> USE <1>2 DEF Sender, SendStop, SendReturn, SendRenew, MayHappen
    <2>1. QueuesOK' /\ MainOK' /\ LoopOK' /\ ResultsOK' /\ ServerOK'
      BY DEF QueuesOK, MainOK, LoopOK, ResultsOK, ServerOK
    <2>2. SharedOK'
      BY DEF SharedOK
    <2>3. RecvOK'
      BY DEF RecvOK
    <2>4. StreamLeft'
      BY DEF StreamLeft, RecvOK
    <2> QED
      BY <2>1, <2>2, <2>3, <2>4
  <1> QED
    BY <1>1, <1>2

LEMMA TypeMessage == TypeInv /\ Message => TypeInv'
  <1> SUFFICES ASSUME TypeInv, Message PROVE TypeInv'
    OBVIOUS
  <1>a. /\ unresolved \in Request
        /\ unresolved.objs \in [Obj -> Nat] /\ unresolved.refs \in [Ref -> Nat]
    BY DEF TypeInv, TypeOK, ServerOK, Request
  <1> USE DEF TypeInv, TypeOK, Message, RecvAcks, RecvObjectImported, RecvObjectFailed,
              RecvReferenceResult, RecvBackoff, RecvOutOfMemory, RecvShuttingDown,
              MayHappen, msgFrame
  <1>1. QueuesOK'
    <2>1. CASE RecvOutOfMemory
      BY <2>1, PlusBag, OnceBag DEF QueuesOK
    <2>2. CASE ~RecvOutOfMemory
      BY <2>2 DEF QueuesOK
    <2> QED
      BY <2>1, <2>2
  <1>2. SharedOK'
    BY DEF SharedOK
  <1>3. MainOK' /\ LoopOK' /\ RecvOK'
    BY DEF MainOK, LoopOK, RecvOK
  <1>4. ResultsOK'
    <2>1. succeeded' \in [Obj -> Nat]
      BY DEF ResultsOK
    <2>2. failed_objects' \in [Obj -> Nat]
      BY DEF ResultsOK
    <2>3. failed_references' \in [Ref -> Nat]
      BY DEF ResultsOK
    <2> QED
      BY <2>1, <2>2, <2>3 DEF ResultsOK
  <1>5. ServerOK'
    <2>1. unacked' \in [objs : SUBSET Obj, refs : SUBSET Beacons] /\ srv_oom' \in BOOLEAN
      <3>1. unacked' = [objs |-> {}, refs |-> {}] \/ unacked' = unacked
        OBVIOUS
      <3>2. srv_oom' \in BOOLEAN
        BY DEF ServerOK
      <3> QED
        BY <3>1, <3>2 DEF ServerOK
    <2>2. unresolved' \in Request
      <3>1. ASSUME NEW o \in Obj, RecvObjectImported(o) \/ RecvObjectFailed(o)
            PROVE  unresolved' \in Request
        BY <1>a, <3>1 DEF Request
      <3>2. ASSUME NEW r \in Ref, RecvReferenceResult(r) PROVE unresolved' \in Request
        BY <1>a, <3>2 DEF Request
      <3>3. CASE unresolved' = unresolved \/ RecvOutOfMemory
        BY <1>a, <3>3, NothingRequest
      <3> QED
        BY <3>1, <3>2, <3>3
    <2> QED
      BY <2>1, <2>2 DEF ServerOK
  <1>6. StreamLeft'
    BY DEF StreamLeft, RecvOK
  <1> QED
    BY <1>1, <1>2, <1>3, <1>4, <1>5, <1>6

LEMMA TypeRestart == TypeInv /\ Restart => TypeInv'
  <1> SUFFICES ASSUME TypeInv, Restart PROVE TypeInv'
    OBVIOUS
  <1>a. stream \in 0..MaxStreams /\ (pc_recv = "start" => stream + 1 \in 1..MaxStreams)
    BY DEF TypeInv, TypeOK, RecvOK
  <1>b. RecvStart => stream' \in 0..MaxStreams /\ (pc_recv' = "recv" => stream' > 0)
    <2>1. RecvStart => /\ pc_recv = "start"
                       /\ stream' = stream + 1 \/ (stream' = stream /\ pc_recv' = "exited")
      BY DEF RecvStart
    <2> QED
      BY <1>a, <2>1
  <1> USE DEF TypeInv, TypeOK, MayHappen, recvFrame
  <1>1. CASE RecvStart
    <2> USE <1>1 DEF RecvStart
    <2>1. QueuesOK' /\ MainOK' /\ LoopOK' /\ ResultsOK'
      BY DEF QueuesOK, MainOK, LoopOK, ResultsOK
    <2>2. SharedOK'
      BY DEF SharedOK, Cleared
    <2>3. RecvOK'
      <3>2. sender' \in [1..MaxStreams -> {"idle", "open", "closed"}]
        BY DEF RecvOK
      <3> QED
        BY <1>b, <3>2 DEF RecvOK
    <2>4. ServerOK' /\ StreamLeft'
      BY NothingRequest DEF ServerOK, StreamLeft, Cleared
    <2> QED
      BY <2>1, <2>2, <2>3, <2>4
  <1>2. CASE RecvEnd \/ RecvHangup \/ RecvError \/ Reconnect
    <2> USE <1>2 DEF RecvEnd, RecvHangup, RecvError, Reconnect, ReconnectWaits, ReconnectRaises
    <2>a. UNCHANGED <<queueVars, reqs, mainVars, loopVars, resultVars, serverVars>>
      OBVIOUS
    <2>1. QueuesOK' /\ MainOK' /\ LoopOK' /\ ResultsOK' /\ ServerOK'
      <3>1. QueuesOK' /\ ServerOK'
        BY <2>a DEF QueuesOK, ServerOK
      <3>2. MainOK'
        BY <2>a DEF MainOK
      <3>3. LoopOK' /\ ResultsOK'
        BY <2>a DEF LoopOK, ResultsOK
      <3> QED
        BY <3>1, <3>2, <3>3
    <2>2. SharedOK'
      BY DEF SharedOK
    <2>3. RecvOK' /\ StreamLeft'
      BY DEF RecvOK, StreamLeft
    <2> QED
      BY <2>1, <2>2, <2>3
  <1>3. CASE ReaddObjects \/ ReaddReferences
    <2> USE <1>3 DEF ReaddObjects, ReaddReferences
    <2>1. QueuesOK'
      <3>1. CASE ReaddObjects
        BY <3>1, PlusBag, OnceBag DEF QueuesOK
      <3>2. CASE ReaddReferences
        BY <3>2, PlusBag, OnceBag DEF QueuesOK
      <3> QED
        BY <3>1, <3>2
    <2>2. MainOK' /\ LoopOK' /\ ResultsOK' /\ ServerOK'
      BY DEF MainOK, LoopOK, ResultsOK, ServerOK
    <2>3. SharedOK' /\ RecvOK' /\ StreamLeft'
      BY DEF SharedOK, RecvOK, StreamLeft
    <2> QED
      BY <2>1, <2>2, <2>3
  <1> QED
    BY <1>1, <1>2, <1>3 DEF Restart

\* Every step keeps the type invariant.
LEMMA TypeNext == TypeInv /\ [Next]_vars => TypeInv'
  <1> SUFFICES ASSUME TypeInv, [Next]_vars PROVE TypeInv'
    OBVIOUS
  <1>1. CASE UNCHANGED vars
    <2> USE <1>1 DEF vars, TypeInv, TypeOK
    <2>1. QueuesOK' /\ MainOK' /\ LoopOK'
      BY DEF QueuesOK, MainOK, LoopOK
    <2>2. SharedOK' /\ RecvOK'
      BY DEF SharedOK, RecvOK
    <2>3. ResultsOK' /\ ServerOK' /\ StreamLeft'
      BY DEF ResultsOK, ServerOK, StreamLeft
    <2> QED
      BY <2>1, <2>2, <2>3
  <1>2. CASE Main
    BY <1>2, TypeMain
  <1>3. CASE Loop
    BY <1>3, TypeLoop
  <1>4. ASSUME NEW s \in 1..MaxStreams, Sender(s) PROVE TypeInv'
    BY <1>4, TypeSender
  <1>5. CASE Recv
    BY <1>5, TypeMessage, TypeRestart DEF Recv, Restart
  <1> QED
    BY <1>1, <1>2, <1>3, <1>4, <1>5 DEF Next, Others, Finished

\* TypeOK: the threads leave every variable of the batch within its type, and
\* no failure leads Recv to a stream beyond the last one.
THEOREM TypeCorrect == Spec => []TypeOK
  <1>1. TypeInv => TypeOK
    BY DEF TypeInv
  <1> QED
    BY <1>1, TypeInit, TypeNext, PTL DEF Spec
-----------------------------------------------------------------------------
(* One outcome per object.  AtMostOneOutcome is not inductive: a second     *)
(* result is harmless because the first one took the object out of          *)
(* __objs_cache, and __objs_cache never takes it back, because an object    *)
(* enters it only on its way from _add_object.                              *)

Adding(o) == o \notin added \/ (pc_main \in {"queue", "cache"} /\ item = o)

ItemAdded == pc_main \in {"queue", "cache", "cache_ref"} => item \in added

OutcomeInv ==
    /\ ItemAdded
    /\ AtMostOneOutcome
    /\ \A o \in Obj : Outcomes(o) > 0 => o \notin objs_cache
    /\ \A o \in Obj : Adding(o) => o \notin objs_cache /\ Outcomes(o) = 0

LEMMA OutcomeInit == Init => OutcomeInv
  BY DEF Init, OutcomeInv, ItemAdded, AtMostOneOutcome, Outcomes, NoItems

LEMMA OutcomeMain == TypeInv /\ OutcomeInv /\ Main => OutcomeInv'
  <1> SUFFICES ASSUME TypeInv, OutcomeInv, Main PROVE OutcomeInv'
    OBVIOUS
  <1>a. ItemAdded'
    <2>1. CASE (\E o \in Obj : AddObject(o)) \/ (\E r \in Ref : AddReference(r))
      BY <2>1 DEF ItemAdded, AddObject, AddReference
    <2>2. CASE QueueObject \/ CacheObject \/ CacheReference \/ Unblock \/ Flush \/ RaiseDead
                 \/ Shutdown \/ Wait
      BY <2>2 DEF OutcomeInv, ItemAdded, QueueObject, CacheObject, CacheReference, Unblock,
                  Flush, RaiseDead, Shutdown, Wait
    <2> QED
      BY <2>1, <2>2 DEF Main
  <1> SUFFICES ASSUME NEW o \in Obj
               PROVE  /\ Outcomes(o)' <= 1
                      /\ Outcomes(o)' > 0 => o \notin objs_cache'
                      /\ Adding(o)' => o \notin objs_cache' /\ Outcomes(o)' = 0
    BY <1>a DEF OutcomeInv, AtMostOneOutcome
  <1>1. Outcomes(o)' = Outcomes(o) /\ Outcomes(o) \in Nat
    <2>1. UNCHANGED mainFrame
      BY DEF Main, AddObject, AddReference, QueueObject, CacheObject, CacheReference, Unblock,
             Flush, RaiseDead, Shutdown, Wait
    <2>2. succeeded[o] \in Nat /\ failed_objects[o] \in Nat
      BY DEF TypeInv, TypeOK, ResultsOK
    <2> QED
      BY <2>1, <2>2 DEF mainFrame, Outcomes
  <1>2. /\ Outcomes(o) <= 1
        /\ Outcomes(o) > 0 => o \notin objs_cache
        /\ Adding(o) => o \notin objs_cache /\ Outcomes(o) = 0
    BY DEF OutcomeInv, AtMostOneOutcome
  <1>3. /\ Adding(o)' => Adding(o)
        /\ o \in objs_cache' => o \in objs_cache \/ (Adding(o) /\ ~Adding(o)')
    <2>1. CASE \E x \in Obj : AddObject(x)
      BY <2>1 DEF AddObject, Adding, cacheVars
    <2>2. CASE \E r \in Ref : AddReference(r)
      BY <2>2, ConstantsOK DEF AddReference, Adding, cacheVars
    <2>3. CASE QueueObject
      BY <2>3 DEF QueueObject, Adding, cacheVars
    <2>4. CASE CacheObject
      <3>1. item \in added
        BY <2>4 DEF CacheObject, OutcomeInv, ItemAdded
      <3> QED
        BY <2>4, <3>1 DEF CacheObject, Adding
    <2>5. CASE CacheReference \/ Unblock \/ Flush \/ RaiseDead \/ Shutdown \/ Wait
      BY <2>5, ConstantsOK DEF CacheReference, Unblock, Flush, RaiseDead, Shutdown, Wait,
            Adding, cacheVars
    <2> QED
      BY <2>1, <2>2, <2>3, <2>4, <2>5 DEF Main
  <1> QED
    BY <1>1, <1>2, <1>3

\* The results of an object, the only steps of the other threads that matter.
LEMMA OutcomeResult ==
    ASSUME TypeInv, OutcomeInv, NEW x \in Obj, RecvObjectImported(x) \/ RecvObjectFailed(x)
    PROVE  OutcomeInv'
  <1>1. /\ added' = added /\ pc_main' = pc_main /\ item' = item
        /\ objs_cache' = objs_cache \ {x}
    BY DEF RecvObjectImported, RecvObjectFailed, msgFrame, Cached
  <1> SUFFICES ASSUME NEW o \in Obj
               PROVE  /\ Outcomes(o)' <= 1
                      /\ Outcomes(o)' > 0 => o \notin objs_cache'
                      /\ Adding(o)' => o \notin objs_cache' /\ Outcomes(o)' = 0
    BY <1>1 DEF OutcomeInv, AtMostOneOutcome, ItemAdded
  <1>2. /\ succeeded \in [Obj -> Nat] /\ failed_objects \in [Obj -> Nat]
        /\ succeeded[o] \in Nat /\ failed_objects[o] \in Nat
    BY DEF TypeInv, TypeOK, ResultsOK
  <1>3. /\ Outcomes(o) <= 1
        /\ Outcomes(o) > 0 => o \notin objs_cache
        /\ Adding(o) => o \notin objs_cache /\ Outcomes(o) = 0
    BY DEF OutcomeInv, AtMostOneOutcome
  <1>4. Adding(o)' <=> Adding(o)
    BY <1>1 DEF Adding
  <1>5. CASE o = x /\ o \in objs_cache
    <2>1. Outcomes(o) = 0
      BY <1>2, <1>3, <1>5 DEF Outcomes
    <2>2. Outcomes(o)' = Outcomes(o) + 1
      BY <1>2, <1>5 DEF RecvObjectImported, RecvObjectFailed, Cached, Outcomes
    <2> QED
      BY <1>1, <1>3, <1>4, <1>5, <2>1, <2>2
  <1>6. CASE ~(o = x /\ o \in objs_cache)
    <2>1. Outcomes(o)' = Outcomes(o)
      BY <1>2, <1>6 DEF RecvObjectImported, RecvObjectFailed, Cached, Outcomes
    <2> QED
      BY <1>1, <1>3, <1>4, <2>1
  <1> QED
    BY <1>5, <1>6

outcomeVars == <<added, pc_main, item, objs_cache, succeeded, failed_objects>>

LEMMA OutcomeNext == TypeInv /\ OutcomeInv /\ [Next]_vars => OutcomeInv'
  <1> SUFFICES ASSUME TypeInv, OutcomeInv, [Next]_vars PROVE OutcomeInv'
    OBVIOUS
  <1>1. CASE Main
    BY <1>1, OutcomeMain
  <1>2. ASSUME NEW o \in Obj, RecvObjectImported(o) \/ RecvObjectFailed(o) PROVE OutcomeInv'
    BY <1>2, OutcomeResult
  <1>3. CASE UNCHANGED outcomeVars
    BY <1>3 DEF outcomeVars, OutcomeInv, ItemAdded, AtMostOneOutcome, Outcomes, Adding
  <1>4. CASE Loop
    <2>1. UNCHANGED loopFrame
      BY <1>4 DEF Loop, LoopPopObjects, LoopPopReferences, LoopGenerate, LoopGenerated,
           LoopGate, LoopPut, LoopFinish, LoopPutSentinel, LoopExit
    <2> QED
      BY <1>3, <2>1 DEF loopFrame, outcomeVars
  <1>5. ASSUME NEW s \in 1..MaxStreams, Sender(s) PROVE OutcomeInv'
    <2>1. UNCHANGED sendFrame
      BY <1>5 DEF Sender, SendRequest, SendStop, SendReturn, SendRenew
    <2> QED
      BY <1>3, <2>1 DEF sendFrame, outcomeVars
  <1>6. CASE Restart
    <2>1. UNCHANGED recvFrame
      BY <1>6 DEF Restart, RecvStart, RecvEnd, RecvHangup, RecvError, Reconnect,
           ReconnectWaits, ReconnectRaises, ReaddObjects, ReaddReferences
    <2> QED
      BY <1>3, <2>1 DEF recvFrame, outcomeVars
  <1>7. CASE RecvAcks \/ (\E r \in Ref : RecvReferenceResult(r))
               \/ (\E n \in BatchSizes : RecvBackoff(n)) \/ RecvOutOfMemory \/ RecvShuttingDown
    <2>1. UNCHANGED outcomeVars
      BY <1>7 DEF RecvAcks, RecvReferenceResult, RecvBackoff, RecvOutOfMemory,
           RecvShuttingDown, msgFrame, outcomeVars
    <2> QED
      BY <1>3, <2>1
  <1>8. CASE UNCHANGED vars
    BY <1>3, <1>8 DEF vars, outcomeVars
  <1> QED
    BY <1>1, <1>2, <1>4, <1>5, <1>6, <1>7, <1>8
       DEF Next, Others, Recv, Restart, Message, Finished

\* AtMostOneOutcome: however often a request is lost, handed back, sent again
\* or answered twice, results and failed_objects list an object at most once.
THEOREM OneOutcome == Spec => []AtMostOneOutcome
  <1>1. OutcomeInv => AtMostOneOutcome
    BY DEF OutcomeInv
  <1> QED
    BY <1>1, TypeInit, TypeNext, OutcomeInit, OutcomeNext, PTL DEF Spec
-----------------------------------------------------------------------------
(* References wait for their objects.  An object that has been added is in  *)
(* __uuid_lookup until it is imported, so a reference that pop_items lets   *)
(* through has imported objects at its ends.                                *)

Imported(r) == \A o \in Endpoints[r] : succeeded[o] > 0

ReferenceInv ==
    /\ \A r \in Ref : batch_references[r] > 0 => r \in added
    /\ \A b \in Beacons : refs_cache[b] \in added \cup {None}
    /\ \A r \in Ref \cap added : Endpoints[r] \subseteq added
    /\ \A o \in Obj \cap added : o \in uuid_lookup \/ succeeded[o] > 0
    /\ \A r \in Ref : chunk.refs[r] > 0 => Imported(r)
    /\ \A r \in encoded : Imported(r)

LEMMA ReferenceInit == Init => ReferenceInv
  BY DEF Init, ReferenceInv, NoItems, Nothing

\* Only references that have been added return to the queue.
LEMMA QueuedAgain ==
    ASSUME TypeInv, ReferenceInv, NEW T, T \subseteq added \cup {None},
           batch_references' = batch_references (+) Once(Ref, T \ {None})
    PROVE  \A r \in Ref : batch_references'[r] > 0 => r \in added
  <1>1. batch_references \in [Ref -> Nat] /\ None \notin Ref
    BY DEF TypeInv, TypeOK, QueuesOK
  <1> SUFFICES ASSUME NEW r \in Ref, batch_references'[r] > 0, r \notin added PROVE FALSE
    OBVIOUS
  <1>2. batch_references[r] = 0
    BY <1>1 DEF ReferenceInv
  <1>3. r \notin T
    BY <1>1
  <1> QED
    BY <1>1, <1>2, <1>3 DEF (+), Once

LEMMA ReferenceMain == TypeInv /\ OutcomeInv /\ ReferenceInv /\ Main => ReferenceInv'
  <1> SUFFICES ASSUME TypeInv, OutcomeInv, ReferenceInv, Main PROVE ReferenceInv'
    OBVIOUS
  <1>1. succeeded' = succeeded /\ chunk' = chunk /\ encoded' = encoded
    BY DEF Main, AddObject, AddReference, QueueObject, CacheObject, CacheReference, Unblock,
           Flush, RaiseDead, Shutdown, Wait, mainFrame
  <1>2. /\ \A r \in Ref : chunk'.refs[r] > 0 => Imported(r)'
        /\ \A r \in encoded' : Imported(r)'
    BY <1>1 DEF ReferenceInv, Imported
  <1>3. CASE \E o \in Obj : AddObject(o)
    BY <1>1, <1>2, <1>3 DEF ReferenceInv, AddObject, cacheVars
  <1>4. ASSUME NEW r \in Ref, AddReference(r) PROVE ReferenceInv'
    <2>1. \A x \in Ref : batch_references'[x] > 0 => x \in added'
      BY <1>4 DEF ReferenceInv, AddReference, (+), Once, TypeInv, TypeOK, QueuesOK
    <2> QED
      BY <1>1, <1>2, <1>4, <2>1 DEF ReferenceInv, AddReference, cacheVars
  <1>5. CASE CacheReference
    <2>1. item \in added
      BY <1>5 DEF OutcomeInv, ItemAdded, CacheReference
    <2>2. \A b \in Beacons : refs_cache'[b] \in added' \cup {None}
      BY <1>5, <2>1 DEF ReferenceInv, CacheReference, TypeInv, TypeOK, SharedOK
    <2> QED
      BY <1>1, <1>2, <1>5, <2>2 DEF ReferenceInv, CacheReference
  <1>6. CASE QueueObject \/ CacheObject \/ Unblock \/ Flush \/ RaiseDead \/ Shutdown \/ Wait
    <2>1. UNCHANGED <<batch_references, refs_cache, added, uuid_lookup>>
      BY <1>6 DEF QueueObject, CacheObject, Unblock, Flush, RaiseDead, Shutdown, Wait, cacheVars
    <2> QED
      BY <1>1, <1>2, <2>1 DEF ReferenceInv
  <1> QED
    BY <1>3, <1>4, <1>5, <1>6 DEF Main

LEMMA ReferenceLoop == TypeInv /\ ReferenceInv /\ Loop => ReferenceInv'
  <1> SUFFICES ASSUME TypeInv, ReferenceInv, Loop PROVE ReferenceInv'
    OBVIOUS
  <1>1. UNCHANGED <<refs_cache, added, uuid_lookup, succeeded>>
    BY DEF Loop, LoopPopObjects, LoopPopReferences, LoopGenerate, LoopGenerated,
       LoopGate, LoopPut, LoopFinish, LoopPutSentinel, LoopExit, loopFrame
  <1>2. \A r : Imported(r)' <=> Imported(r)
    BY <1>1 DEF Imported
  <1>3. /\ chunk \in Request /\ chunk.refs \in [Ref -> Nat]
        /\ batch_references \in [Ref -> Nat]
    BY DEF TypeInv, TypeOK, LoopOK, QueuesOK, Request
  <1> SUFFICES /\ \A r \in Ref : batch_references'[r] > 0 => r \in added
               /\ \A r \in Ref : chunk'.refs[r] > 0 => Imported(r)
               /\ \A r \in encoded' : Imported(r)
    BY <1>1, <1>2 DEF ReferenceInv
  <1>4. CASE LoopPopReferences
    <2>1. PICK n, p : /\ p \in Pops(Eligible, n)
                      /\ chunk' = [chunk EXCEPT !.refs = p]
                      /\ batch_references' = batch_references (-) p
                      /\ encoded' = encoded
      BY <1>4 DEF LoopPopReferences
    <2>2. /\ p \in [Ref -> Nat]
          /\ \A r \in Ref : p[r] <= batch_references[r]
          /\ \A r \in Ref : p[r] > 0 => Endpoints[r] \cap uuid_lookup = {}
      BY <2>1, PopsEligible
    <2>3. ASSUME NEW r \in Ref, p[r] > 0 PROVE Imported(r)
      <3>1. r \in added
        BY <1>3, <2>2, <2>3 DEF ReferenceInv
      <3>2. Endpoints[r] \subseteq Obj \cap added /\ Endpoints[r] \cap uuid_lookup = {}
        BY <2>2, <2>3, <3>1 DEF ReferenceInv
      <3> QED
        BY <3>2 DEF ReferenceInv, Imported
    <2>4. chunk'.refs = p
      BY <1>3, <2>1 DEF Request
    <2>5. \A r \in Ref : batch_references'[r] > 0 => batch_references[r] > 0
      BY <1>3, <2>1, <2>2 DEF (-)
    <2> QED
      BY <2>1, <2>3, <2>4, <2>5 DEF ReferenceInv
  <1>5. CASE LoopGenerate
    <2>1. batch_references' = batch_references
      BY <1>5 DEF LoopGenerate
    <2>2. CASE chunk' = Nothing /\ encoded' = encoded
      BY <2>1, <2>2 DEF ReferenceInv, Nothing, NoItems
    <2>3. ASSUME NEW p \in Fill(chunk, MaxPerRequest + 1), NEW q \in Fill(p, MaxPerRequest),
                 chunk' = [objs |-> chunk.objs (-) q.objs, refs |-> chunk.refs (-) q.refs],
                 encoded' = encoded \cup Support(q.refs)
          PROVE  /\ \A r \in Ref : chunk'.refs[r] > 0 => Imported(r)
                 /\ \A r \in encoded' : Imported(r)
      <3>1. /\ q \in Request /\ q.refs \in [Ref -> Nat]
            /\ \A r \in Ref : q.refs[r] <= chunk.refs[r]
        BY <1>3, Generated DEF Request
      <3>2. \A r \in Ref : q.refs[r] > 0 => Imported(r)
        BY <1>3, <3>1 DEF ReferenceInv
      <3>3. \A r \in Support(q.refs) : Imported(r)
        BY <3>1, <3>2 DEF Support
      <3>4. \A r \in Ref : chunk'.refs[r] > 0 => chunk.refs[r] > 0
        BY <1>3, <2>3, <3>1 DEF (-)
      <3> QED
        BY <2>3, <3>3, <3>4 DEF ReferenceInv
    <2> QED
      BY <1>5, <2>1, <2>2, <2>3 DEF LoopGenerate, ReferenceInv
  <1>6. CASE ~(LoopPopReferences \/ LoopGenerate)
    <2>1. /\ batch_references' = batch_references /\ encoded' = encoded
          /\ chunk'.refs = chunk.refs \/ chunk' = Nothing
      BY <1>3, <1>6 DEF Request, Loop, LoopPopObjects, LoopGenerated, LoopGate, LoopPut,
         LoopFinish, LoopPutSentinel, LoopExit
    <2> QED
      BY <2>1 DEF ReferenceInv, Nothing, NoItems
  <1> QED
    BY <1>4, <1>5, <1>6

LEMMA ReferenceMessage == TypeInv /\ ReferenceInv /\ Message => ReferenceInv'
  <1> SUFFICES ASSUME TypeInv, ReferenceInv, Message PROVE ReferenceInv'
    OBVIOUS
  <1>1. UNCHANGED <<added, chunk, encoded>>
    BY DEF Message, RecvAcks, RecvObjectImported, RecvObjectFailed, RecvReferenceResult,
       RecvBackoff, RecvOutOfMemory, RecvShuttingDown, msgFrame
  <1>2. \A r \in Ref : Endpoints[r] \subseteq Obj
    BY ConstantsOK
  <1>3. CASE UNCHANGED <<succeeded, uuid_lookup>>
    <2>1. \A r : Imported(r)' <=> Imported(r)
      BY <1>3 DEF Imported
    <2>2. ASSUME \A r \in Ref : batch_references'[r] > 0 => r \in added,
                 \A b \in Beacons : refs_cache'[b] \in added \cup {None}
          PROVE  ReferenceInv'
      BY <1>1, <1>3, <2>1, <2>2 DEF ReferenceInv
    <2>3. CASE RecvOutOfMemory
      <3>1. PICK T : /\ T \subseteq added \cup {None}
                     /\ batch_references' = batch_references (+) Once(Ref, T \ {None})
                     /\ refs_cache' = refs_cache
        <4>1. {refs_cache[Beacon[r]] : r \in Support(unresolved.refs)} \subseteq added \cup {None}
          <5>1. Support(unresolved.refs) \subseteq Ref
            BY DEF Support, TypeInv, TypeOK, ServerOK, Request
          <5> QED
            BY <5>1 DEF ReferenceInv, Beacons
        <4> QED
          BY <2>3, <4>1 DEF RecvOutOfMemory, cacheVars
      <3>2. \A r \in Ref : batch_references'[r] > 0 => r \in added
        BY <3>1, QueuedAgain
      <3> QED
        BY <2>2, <3>1, <3>2 DEF ReferenceInv
    <2>4. CASE \E r \in Ref : RecvReferenceResult(r)
      BY <2>2, <2>4 DEF ReferenceInv, RecvReferenceResult, TypeInv, TypeOK, SharedOK
    <2>5. CASE UNCHANGED <<batch_references, refs_cache>>
      BY <2>2, <2>5 DEF ReferenceInv
    <2> QED
      BY <2>3, <2>4, <2>5 DEF Message, RecvAcks, RecvObjectImported, RecvObjectFailed,
         RecvBackoff, RecvShuttingDown, cacheVars
  <1>4. ASSUME NEW x \in Obj, RecvObjectImported(x), succeeded' # succeeded
        PROVE  ReferenceInv'
    <2>1. /\ succeeded' = [succeeded EXCEPT ![x] = @ + 1]
          /\ uuid_lookup' = uuid_lookup \ {x}
          /\ UNCHANGED <<batch_references, refs_cache>>
      BY <1>4 DEF RecvObjectImported
    <2>2. \A o \in Obj : /\ succeeded[o] > 0 => succeeded'[o] > 0
                         /\ succeeded'[x] > 0
      BY <2>1 DEF TypeInv, TypeOK, ResultsOK
    <2>3. \A r \in Ref : Imported(r) => Imported(r)'
      BY <1>2, <2>2 DEF Imported
    <2>4. encoded \subseteq Ref
      BY DEF TypeInv, TypeOK, LoopOK
    <2> QED
      BY <1>1, <2>1, <2>2, <2>3, <2>4 DEF ReferenceInv
  <1>5. CASE ~\E x \in Obj : RecvObjectImported(x)
    <2>1. UNCHANGED <<succeeded, uuid_lookup>>
      BY <1>5 DEF Message, RecvAcks, RecvObjectFailed, RecvReferenceResult,
         RecvBackoff, RecvOutOfMemory, RecvShuttingDown
    <2> QED
      BY <1>3, <2>1
  <1>6. ASSUME NEW x \in Obj, RecvObjectImported(x), succeeded' = succeeded
        PROVE  UNCHANGED <<succeeded, uuid_lookup>>
    BY <1>6 DEF RecvObjectImported, TypeInv, TypeOK, ResultsOK
  <1> QED
    BY <1>3, <1>4, <1>5, <1>6

LEMMA ReferenceRestart == TypeInv /\ ReferenceInv /\ Restart => ReferenceInv'
  <1> SUFFICES ASSUME TypeInv, ReferenceInv, Restart PROVE ReferenceInv'
    OBVIOUS
  <1>1. UNCHANGED <<added, chunk, encoded, succeeded, uuid_lookup, refs_cache>>
    BY DEF Restart, RecvStart, RecvEnd, RecvHangup, RecvError, Reconnect,
       ReconnectWaits, ReconnectRaises, ReaddObjects, ReaddReferences, recvFrame
  <1>2. \A r : Imported(r)' <=> Imported(r)
    BY <1>1 DEF Imported
  <1>3. \A r \in Ref : batch_references'[r] > 0 => r \in added
    <2>1. CASE ReaddReferences
      <3>1. {refs_cache[b] : b \in Beacons} \subseteq added \cup {None}
        BY DEF ReferenceInv
      <3>2. batch_references' = batch_references (+)
                                   Once(Ref, {refs_cache[b] : b \in Beacons} \ {None})
        BY <2>1 DEF ReaddReferences
      <3> QED
        BY <3>1, <3>2, QueuedAgain
    <2>2. CASE ~ReaddReferences
      BY <2>2 DEF ReferenceInv, Restart, RecvStart, RecvEnd, RecvHangup, RecvError, Reconnect,
         ReaddObjects
    <2> QED
      BY <2>1, <2>2
  <1> QED
    BY <1>1, <1>2, <1>3 DEF ReferenceInv

LEMMA ReferenceNext == TypeInv /\ OutcomeInv /\ ReferenceInv /\ [Next]_vars => ReferenceInv'
  <1> SUFFICES ASSUME TypeInv, OutcomeInv, ReferenceInv, [Next]_vars PROVE ReferenceInv'
    OBVIOUS
  <1>1. CASE Main
    BY <1>1, ReferenceMain
  <1>2. CASE Loop
    BY <1>2, ReferenceLoop
  <1>3. CASE Message
    BY <1>3, ReferenceMessage
  <1>4. CASE Restart
    BY <1>4, ReferenceRestart
  <1>5. CASE UNCHANGED <<batch_references, refs_cache, added, uuid_lookup, succeeded, chunk,
                         encoded>>
    BY <1>5 DEF ReferenceInv, Imported
  <1>6. ASSUME NEW s \in 1..MaxStreams, Sender(s) PROVE ReferenceInv'
    <2>1. UNCHANGED sendFrame
      BY <1>6 DEF Sender, SendRequest, SendStop, SendReturn, SendRenew
    <2> QED
      BY <1>5, <2>1 DEF sendFrame
  <1>7. CASE UNCHANGED vars
    BY <1>5, <1>7 DEF vars
  <1> QED
    BY <1>1, <1>2, <1>3, <1>4, <1>6, <1>7 DEF Next, Others, Recv, Restart, Finished

\* RefsAfterObjects: no reference is encoded for the server before the objects
\* at its ends have been imported.
THEOREM ReferencesWait == Spec => []RefsAfterObjects
  <1>1. TypeInv /\ ReferenceInv => RefsAfterObjects
    BY DEF ReferenceInv, Imported, RefsAfterObjects
  <1> QED
    BY <1>1, TypeInit, TypeNext, OutcomeInit, OutcomeNext, ReferenceInit, ReferenceNext, PTL
       DEF Spec
-----------------------------------------------------------------------------
(* StreamBatch implements BatchImport: adding an object submits it, a       *)
(* result for a cached object settles it, yielding a request releases its   *)
(* references, and every other step leaves the promise as it is.            *)

importVars == <<added, succeeded, failed_objects, encoded>>

LEMMA ImportStutters == UNCHANGED importVars => UNCHANGED Import!vars
  BY DEF importVars, Import!vars, status, Outcomes

LEMMA ImportInit == Init => Import!Init
  BY ConstantsOK DEF Init, Import!Init, status, Outcomes, NoItems

LEMMA ImportMain == TypeInv /\ OutcomeInv /\ Main => [Import!Next]_(Import!vars)
  <1> SUFFICES ASSUME TypeInv, OutcomeInv, Main PROVE [Import!Next]_(Import!vars)
    OBVIOUS
  <1>1. UNCHANGED <<succeeded, failed_objects, encoded>>
    BY DEF Main, AddObject, AddReference, QueueObject, CacheObject, CacheReference, Unblock,
           Flush, RaiseDead, Shutdown, Wait, mainFrame
  <1>2. ASSUME NEW o \in Obj, AddObject(o) PROVE Import!Submit(o)
    <2>1. o \notin added /\ added' = added \cup {o}
      BY <1>2 DEF AddObject
    <2>2. Outcomes(o) = 0 /\ succeeded[o] \in Nat /\ failed_objects[o] \in Nat
      BY <2>1 DEF OutcomeInv, Adding, TypeInv, TypeOK, ResultsOK
    <2>3. succeeded[o] = 0 /\ failed_objects[o] = 0
      BY <2>2 DEF Outcomes
    <2>4. status[o] = "new" /\ status'[o] = "pending"
      BY <1>1, <2>1, <2>2, <2>3 DEF status, Outcomes
    <2>5. \A x \in Obj \ {o} : status'[x] = status[x]
      BY <1>1, <2>1 DEF status, Outcomes
    <2>6. status' = [status EXCEPT ![o] = "pending"]
      BY <2>4, <2>5 DEF status
    <2> QED
      BY <1>1, <2>4, <2>6 DEF Import!Submit
  <1>3. ASSUME NEW r \in Ref, AddReference(r) PROVE status' = status
    <2>1. added' = added \cup {r} /\ r \notin Obj
      BY <1>3, ConstantsOK DEF AddReference
    <2> QED
      BY <1>1, <2>1 DEF status, Outcomes
  <1>4. CASE UNCHANGED added
    BY <1>1, <1>4, ImportStutters DEF importVars
  <1>5. CASE \E r \in Ref : AddReference(r)
    BY <1>1, <1>3, <1>5 DEF Import!vars
  <1> QED
    BY <1>2, <1>4, <1>5 DEF Main, QueueObject, CacheObject, CacheReference, Unblock,
       Flush, RaiseDead, Shutdown, Wait, Import!Next

LEMMA ImportResult ==
    ASSUME TypeInv, OutcomeInv, NEW o \in Obj, RecvObjectImported(o) \/ RecvObjectFailed(o)
    PROVE  [Import!Next]_(Import!vars)
  <1>1. added' = added /\ encoded' = encoded
    BY DEF RecvObjectImported, RecvObjectFailed, msgFrame
  <1>2. CASE o \notin objs_cache
    BY <1>1, <1>2, ImportStutters DEF RecvObjectImported, RecvObjectFailed, Cached, importVars
  <1>3. CASE o \in objs_cache
    <2>1. /\ succeeded \in [Obj -> Nat] /\ failed_objects \in [Obj -> Nat]
          /\ succeeded[o] \in Nat /\ failed_objects[o] \in Nat
      BY DEF TypeInv, TypeOK, ResultsOK
    <2>2. Outcomes(o) = 0 /\ o \in added
      BY <1>3, <2>1 DEF OutcomeInv, Adding, Outcomes
    <2>3. succeeded[o] = 0 /\ failed_objects[o] = 0
      BY <2>1, <2>2 DEF Outcomes
    <2>4. status[o] = "pending"
      BY <2>2, <2>3 DEF status
    <2>5. \A x \in Obj \ {o} : succeeded'[x] = succeeded[x] /\ failed_objects'[x] = failed_objects[x]
      BY <2>1 DEF RecvObjectImported, RecvObjectFailed, Cached
    <2>6. \A x \in Obj \ {o} : status'[x] = status[x]
      BY <1>1, <2>5 DEF status, Outcomes
    <2>7. CASE RecvObjectImported(o)
      <3>1. succeeded'[o] = 1 /\ failed_objects'[o] = 0
        BY <1>3, <2>1, <2>3, <2>7 DEF RecvObjectImported, Cached
      <3>2. status'[o] = "imported"
        BY <1>1, <2>2, <3>1 DEF status, Outcomes
      <3>3. Import!Settle({o}, {})
        BY <1>1, <2>4, <2>6, <3>2 DEF Import!Settle, status
      <3> QED
        BY <3>3 DEF Import!Next
    <2>8. CASE RecvObjectFailed(o)
      <3>1. succeeded'[o] = 0 /\ failed_objects'[o] = 1
        BY <1>3, <2>1, <2>3, <2>8 DEF RecvObjectFailed, Cached
      <3>2. status'[o] = "failed"
        BY <1>1, <2>2, <3>1 DEF status, Outcomes
      <3>3. Import!Settle({}, {o})
        BY <1>1, <2>4, <2>6, <3>2 DEF Import!Settle, status
      <3> QED
        BY <3>3 DEF Import!Next
    <2> QED
      BY <2>7, <2>8
  <1> QED
    BY <1>2, <1>3

LEMMA ImportGenerate ==
    ASSUME TypeInv, ReferenceInv, ReferenceInv', LoopGenerate
    PROVE  [Import!Next]_(Import!vars)
  <1>1. UNCHANGED <<added, succeeded, failed_objects>>
    BY DEF LoopGenerate, loopFrame
  <1>2. status' = status
    BY <1>1 DEF status, Outcomes
  <1>3. PICK rs : encoded' = encoded \cup rs
    BY DEF LoopGenerate
  <1>4. encoded' \subseteq Ref
    BY TypeLoop DEF Loop, TypeInv, TypeOK, LoopOK
  <1>5. \A r \in rs : Imported(r)
    BY <1>1, <1>3 DEF ReferenceInv, Imported
  <1>6. \A r \in rs, o \in Obj : o \in Endpoints[r] => status[o] = "imported"
    <2>1. ASSUME NEW r \in rs, NEW o \in Obj, o \in Endpoints[r] PROVE succeeded[o] > 0
      BY <1>5, <2>1 DEF Imported
    <2>2. \A o \in Obj : succeeded[o] > 0 => status[o] = "imported"
      BY DEF status, Outcomes, TypeInv, TypeOK, ResultsOK
    <2> QED
      BY <2>1, <2>2
  <1>7. rs \in SUBSET Ref
    BY <1>3, <1>4
  <1> QED
    BY <1>2, <1>3, <1>6, <1>7 DEF Import!Release, Import!Next

LEMMA ImportNext ==
    ASSUME TypeInv, OutcomeInv, ReferenceInv, ReferenceInv', [Next]_vars
    PROVE  [Import!Next]_(Import!vars)
  <1>1. CASE Main
    BY <1>1, ImportMain
  <1>2. ASSUME NEW o \in Obj, RecvObjectImported(o) \/ RecvObjectFailed(o)
        PROVE  [Import!Next]_(Import!vars)
    BY <1>2, ImportResult
  <1>3. CASE LoopGenerate
    BY <1>3, ImportGenerate
  <1>4. CASE Loop /\ ~LoopGenerate
    <2>1. UNCHANGED loopFrame /\ encoded' = encoded
      BY <1>4 DEF Loop, LoopPopObjects, LoopPopReferences, LoopGenerated,
           LoopGate, LoopPut, LoopFinish, LoopPutSentinel, LoopExit
    <2> QED
      BY <2>1, ImportStutters DEF loopFrame, importVars
  <1>5. ASSUME NEW s \in 1..MaxStreams, Sender(s) PROVE [Import!Next]_(Import!vars)
    <2>1. UNCHANGED sendFrame
      BY <1>5 DEF Sender, SendRequest, SendStop, SendReturn, SendRenew
    <2> QED
      BY <2>1, ImportStutters DEF sendFrame, importVars
  <1>6. CASE Restart
    <2>1. UNCHANGED recvFrame
      BY <1>6 DEF Restart, RecvStart, RecvEnd, RecvHangup, RecvError, Reconnect,
           ReconnectWaits, ReconnectRaises, ReaddObjects, ReaddReferences
    <2> QED
      BY <2>1, ImportStutters DEF recvFrame, importVars
  <1>7. CASE RecvAcks \/ (\E r \in Ref : RecvReferenceResult(r))
               \/ (\E n \in BatchSizes : RecvBackoff(n)) \/ RecvOutOfMemory \/ RecvShuttingDown
    <2>1. UNCHANGED importVars
      BY <1>7 DEF RecvAcks, RecvReferenceResult, RecvBackoff, RecvOutOfMemory,
           RecvShuttingDown, msgFrame, importVars
    <2> QED
      BY <2>1, ImportStutters
  <1>8. CASE UNCHANGED vars
    BY <1>8, ImportStutters DEF vars, importVars
  <1> QED
    BY <1>1, <1>2, <1>3, <1>4, <1>5, <1>6, <1>7, <1>8
       DEF Next, Others, Recv, Restart, Message, Finished

\* ImplementsImport: for every schedule and every failure the batch keeps the
\* promise of BatchImport.
THEOREM StreamImplementsImport == Spec => ImplementsImport
  <1>1. Spec => [](TypeInv /\ OutcomeInv /\ ReferenceInv)
    BY TypeInit, TypeNext, OutcomeInit, OutcomeNext, ReferenceInit, ReferenceNext, PTL DEF Spec
  <1>2. TypeInv /\ OutcomeInv /\ ReferenceInv /\ ReferenceInv' /\ [Next]_vars
          => [Import!Next]_(Import!vars)
    BY ImportNext
  <1> QED
    BY <1>1, <1>2, ImportInit, PTL DEF Spec, ImplementsImport, Import!Spec
-----------------------------------------------------------------------------
(* Nothing is lost.  Copies adds up what the threads hold of an object; the *)
(* proofs need what an empty and a singleton queue contribute.              *)

LEMMA SumNone == ASSUME NEW f, DOMAIN f = {} PROVE SumFunction(f) = 0
  <1> DEFINE P(it) == it = [s \in SUBSET {} |->
                              IF s = {} THEN 0
                              ELSE LET x == CHOOSE x \in s : TRUE IN f[x] + it[s \ {x}]]
             sum == CHOOSE it : P(it)
  <1>1. SumFunction(f) = sum[{}]
    BY DEF SumFunction, SumFunctionOnSet, FoldFunctionOnSet, MapThenFoldSet
  <1>2. P([s \in SUBSET {} |-> 0])
    <2>1. \A s \in SUBSET {} : s = {}
      OBVIOUS
    <2> QED
      BY <2>1
  <1>3. P(sum)
    BY <1>2
  <1>4. sum[{}] = 0
    BY <1>3
  <1> QED
    BY <1>1, <1>4

LEMMA SumOne == ASSUME NEW f, NEW a, DOMAIN f = {a}, f[a] \in Nat PROVE SumFunction(f) = f[a]
  <1> DEFINE P(it) == it = [s \in SUBSET {a} |->
                              IF s = {} THEN 0
                              ELSE LET x == CHOOSE x \in s : TRUE IN f[x] + it[s \ {x}]]
             sum == CHOOSE it : P(it)
             it0 == [s \in SUBSET {a} |-> IF s = {} THEN 0 ELSE f[a]]
  <1>1. SumFunction(f) = sum[{a}]
    BY DEF SumFunction, SumFunctionOnSet, FoldFunctionOnSet, MapThenFoldSet
  <1>2. P(it0)
    <2> SUFFICES ASSUME NEW s \in SUBSET {a}, s # {}
                 PROVE  f[a] = LET x == CHOOSE x \in s : TRUE IN f[x] + it0[s \ {x}]
      OBVIOUS
    <2>1. s = {a} /\ s \ {a} = {} /\ (CHOOSE x \in s : TRUE) = a
      OBVIOUS
    <2>2. f[a] = f[a] + it0[s \ {a}]
      BY <2>1
    <2> QED
      BY <2>1, <2>2
  <1>3. P(sum)
    BY <1>2
  <1>4. sum[{a}] = f[a]
    <2> HIDE DEF sum
    <2>1. {a} # {} /\ {} \in SUBSET {a} /\ {a} \in SUBSET {a} /\ {a} \ {a} = {}
      OBVIOUS
    <2>2. (CHOOSE x \in {a} : TRUE) = a
      OBVIOUS
    <2>3. sum[{}] = 0
      BY <1>3, <2>1
    <2>4. sum[{a}] = f[a] + sum[{a} \ {a}]
      BY <1>3, <2>1, <2>2
    <2>5. sum[{a} \ {a}] = 0
      BY <2>1, <2>3
    <2>6. f[a] + 0 = f[a]
      OBVIOUS
    <2> QED
      BY <2>4, <2>5, <2>6
  <1> QED
    BY <1>1, <1>4

\* The terms of Copies, but for what is left at the server between two streams.
InLoop(o) == chunk.objs[o] + (IF held # None THEN held.objs[o] ELSE 0)
Queued(R, o) == SumFunction([q \in R \ {None} |-> q.objs[o]])
AtServer(o) == IF pc_recv = "recv" THEN unresolved.objs[o] ELSE 0
Begun(o) == IF pc_main = "queue" /\ item = o THEN 1 ELSE 0
OnWay(o) == batch_objects[o] + InLoop(o) + Queued(reqs, o) + AtServer(o) + Begun(o)

LEMMA QueuedNone == ASSUME NEW R, NEW o, R \subseteq {None} PROVE Queued(R, o) = 0
  BY SumNone DEF Queued

LEMMA QueuedOne ==
    ASSUME NEW o, NEW q, q # None, q.objs[o] \in Nat PROVE Queued({q}, o) = q.objs[o]
  <1> DEFINE f == [x \in {q} \ {None} |-> x.objs[o]]
  <1>1. DOMAIN f = {q} /\ f[q] = q.objs[o]
    OBVIOUS
  <1>2. SumFunction(f) = f[q]
    BY <1>1, SumOne
  <1> QED
    BY <1>1, <1>2 DEF Queued

CountsOK == \A o \in Obj : /\ batch_objects[o] \in Nat /\ chunk.objs[o] \in Nat
                           /\ held # None => held.objs[o] \in Nat
                           /\ unresolved.objs[o] \in Nat
                           /\ InLoop(o) \in Nat /\ Queued(reqs, o) \in Nat
                           /\ AtServer(o) \in Nat /\ Begun(o) \in Nat /\ OnWay(o) \in Nat

LEMMA Counts == TypeInv => CountsOK
  <1> SUFFICES ASSUME TypeInv, NEW o \in Obj
               PROVE  /\ batch_objects[o] \in Nat /\ chunk.objs[o] \in Nat
                      /\ held # None => held.objs[o] \in Nat
                      /\ unresolved.objs[o] \in Nat
                      /\ InLoop(o) \in Nat /\ Queued(reqs, o) \in Nat
                      /\ AtServer(o) \in Nat /\ Begun(o) \in Nat /\ OnWay(o) \in Nat
    BY DEF CountsOK
  <1>1. batch_objects[o] \in Nat
    BY DEF TypeInv, TypeOK, QueuesOK
  <1>2. chunk.objs[o] \in Nat
    BY DEF TypeInv, TypeOK, LoopOK, Request
  <1>3. held # None => held.objs[o] \in Nat
    BY DEF TypeInv, TypeOK, LoopOK, Request
  <1>4. InLoop(o) \in Nat
    BY <1>2, <1>3 DEF InLoop
  <1>5. unresolved.objs[o] \in Nat
    BY DEF TypeInv, TypeOK, ServerOK, Request
  <1>6. AtServer(o) \in Nat /\ Begun(o) \in Nat
    BY <1>5 DEF AtServer, Begun
  <1>7. Queued(reqs, o) \in Nat
    <2>1. CASE reqs \subseteq {None}
      BY <2>1, QueuedNone
    <2>2. ASSUME NEW q \in reqs, q # None PROVE Queued(reqs, o) \in Nat
      <3>1. reqs = {q} /\ q \in Request
        BY <2>2 DEF TypeInv, TypeOK, QueuesOK
      <3>2. q.objs[o] \in Nat
        BY <3>1 DEF Request
      <3>3. Queued({q}, o) = q.objs[o]
        BY <2>2, <3>2, QueuedOne
      <3> QED
        BY <3>1, <3>2, <3>3
    <2> QED
      BY <2>1, <2>2
  <1> QED
    BY <1>1, <1>2, <1>3, <1>4, <1>5, <1>6, <1>7 DEF OnWay

LEMMA CountsNext == TypeInv' => CountsOK'
  BY Counts, PTL

\* The environments in which no object is lost: Main is not preempted between
\* queueing and caching, and a stream that may break leaves neither a pause nor
\* a generator behind, and does not end the receiving thread with an error that
\* __reconnect does not catch (the README says what happens otherwise).
Calm == /\ "preempt" \notin Env
        /\ "hangup" \in Env => Env \cap {"oom", "fast_reconnect", "raises_hungup"} = {}

Hung == {"reconnect_hungup", "readd_objects", "readd_references"}

\* Where the threads can be while nothing has failed: Loop holds a request only
\* while it is about to put it, the one generator that may run is that of the
\* stream Recv reads, and a stream that is closed without a reason to open
\* another was closed by the sentinel of a loop that has ended.
FlowInv ==
    /\ pc_loop \in {"top", "put_sentinel", "exited"} => chunk = Nothing \/ Excused
    /\ pc_loop \notin {"gate", "put"} => held = None \/ Excused
    /\ None \in reqs => pc_loop = "exited"
    /\ \A s \in 1..MaxStreams : sender[s] = "open" =>
          (s = stream /\ pc_recv \in {"recv", "reconnect_hungup"}) \/ Excused
    /\ "hungup" \in events => pc_recv # "recv"
    /\ pc_recv \in Hung => "hungup" \in events /\ "hangup" \in Env
    /\ "oom" \in events => "oom" \in Env /\ ((pc_recv = "recv" /\ srv_oom) \/ Excused)
    /\ "shutdown_loop" \in events => pc_loop = "exited" \/ Excused
    /\ pc_recv = "recv" /\ sender[stream] = "closed" =>
          \/ events \cap {"shutting_down", "renewing_stream", "oom"} # {}
          \/ pc_loop = "exited" \/ Excused

\* Every object that waits for its result is in __objs_cache.
CacheInv == \A o \in Obj \cap added :
               \/ o \in objs_cache \/ Outcomes(o) = 1
               \/ pc_main \in {"queue", "cache"} /\ item = o

LEMMA FlowInit == Init => FlowInv /\ CacheInv
  BY DEF Init, FlowInv, CacheInv, Hung

LEMMA FlowMain == TypeInv /\ FlowInv /\ Main => FlowInv'
  <1> SUFFICES ASSUME TypeInv, FlowInv, Main PROVE FlowInv'
    OBVIOUS
  <1>1. UNCHANGED mainFrame /\ events' \in {events, events \cup {"stopped"}}
    BY DEF Main, AddObject, AddReference, QueueObject, CacheObject, CacheReference, Unblock,
           Flush, RaiseDead, Shutdown, Wait
  <1>2. Excused => Excused'
    BY <1>1 DEF Excused, mainFrame, Main, AddObject, AddReference, QueueObject, CacheObject,
                CacheReference, Unblock, Flush, RaiseDead, Shutdown, Wait
  <1>3. \A e \in {"hungup", "oom", "shutdown_loop", "shutting_down", "renewing_stream"} :
           e \in events' <=> e \in events
    BY <1>1
  <1> QED
    BY <1>1, <1>2, <1>3 DEF FlowInv, mainFrame

LEMMA FailedIsExcused == ASSUME bg_exception' \in BgErrors PROVE Excused'
  BY NoneOK DEF Excused

LEMMA FlowLoop == TypeInv /\ FlowInv /\ Loop => FlowInv'
  <1> SUFFICES ASSUME TypeInv, FlowInv, Loop PROVE FlowInv'
    OBVIOUS
  <1> USE DEF Loop, LoopPopObjects, LoopPopReferences, LoopGenerate, LoopGenerated, LoopGate,
              LoopPut, LoopFinish, LoopPutSentinel, LoopExit
  <1>1. UNCHANGED loopFrame
    OBVIOUS
  <1>a. bg_exception' = bg_exception \/ bg_exception' \in BgErrors
    OBVIOUS
  <1>2. Excused => Excused'
    BY <1>1, <1>a, FailedIsExcused DEF Excused, loopFrame
  <1>3. pc_loop # "exited"
    OBVIOUS
  <1>b. LoopExit => Excused
    BY DEF Excused, FlowInv
  <1>4. pc_loop' \in {"top", "put_sentinel", "exited"} => chunk' = Nothing \/ Excused'
    <2>1. CASE bg_exception' \in BgErrors \/ LoopExit
      BY <1>2, <1>b, <2>1, FailedIsExcused
    <2>2. CASE bg_exception' \notin BgErrors /\ ~LoopExit
               /\ pc_loop' \in {"top", "put_sentinel", "exited"}
      <3>1. LoopGenerated \/ LoopFinish \/ LoopPutSentinel
        BY <2>2
      <3> QED
        BY <1>2, <3>1 DEF FlowInv
    <2> QED
      BY <1>a, <2>1, <2>2
  <1>5. pc_loop' \notin {"gate", "put"} => held' = None \/ Excused'
    <2>1. CASE bg_exception' \in BgErrors \/ LoopExit
      BY <1>2, <1>b, <2>1, FailedIsExcused
    <2>2. CASE bg_exception' \notin BgErrors /\ ~LoopExit
      BY <1>2, <2>2 DEF FlowInv
    <2> QED
      BY <2>1, <2>2
  <1>6. None \in reqs' => pc_loop' = "exited"
    <2>1. None \notin reqs
      BY <1>3 DEF FlowInv
    <2>2. CASE LoopPut
      <3>1. held \in Request
        BY <2>2 DEF TypeInv, TypeOK, LoopOK
      <3> QED
        BY <2>1, <2>2, <3>1, NoneOK
    <2>3. CASE ~LoopPut
      BY <2>1, <2>3
    <2> QED
      BY <2>2, <2>3
  <1> QED
    BY <1>1, <1>2, <1>3, <1>4, <1>5, <1>6 DEF FlowInv, loopFrame

LEMMA FlowSender == ASSUME TypeInv, FlowInv, NEW s \in 1..MaxStreams, Sender(s) PROVE FlowInv'
  <1> USE DEF Sender, SendRequest, SendStop, SendReturn, SendRenew
  <1>1. UNCHANGED sendFrame /\ sender[s] = "open"
    OBVIOUS
  <1>2. Excused' <=> Excused
    BY <1>1 DEF Excused, sendFrame
  <1>3. sender \in [1..MaxStreams -> {"idle", "open", "closed"}]
    BY DEF TypeInv, TypeOK, RecvOK
  <1>4. sender' \in {sender, [sender EXCEPT ![s] = "closed"]}
    OBVIOUS
  <1>5. \A u \in 1..MaxStreams : sender'[u] = "open" => sender[u] = "open"
    BY <1>3, <1>4
  <1>6. None \in reqs' => None \in reqs
    OBVIOUS
  <1>7. events' \in {events, events \cup {"renewing_stream"}}
    OBVIOUS
  <1>8. pc_recv = "recv" /\ sender'[stream] = "closed" =>
          \/ events' \cap {"shutting_down", "renewing_stream", "oom"} # {}
          \/ pc_loop = "exited" \/ Excused
    <2> SUFFICES ASSUME pc_recv = "recv", sender'[stream] = "closed", ~Excused
                 PROVE  \/ events' \cap {"shutting_down", "renewing_stream", "oom"} # {}
                        \/ pc_loop = "exited"
      OBVIOUS
    <2>1. s = stream
      BY <1>1 DEF FlowInv
    <2>2. CASE SendRequest(s)
      <3>1. sender' = sender
        BY <2>1, <2>2 DEF Connected
      <3> QED
        BY <1>1, <2>1, <3>1
    <2>3. CASE SendStop(s)
      BY <2>3 DEF FlowInv
    <2>4. CASE SendReturn(s)
      <3>1. Paused /\ events' = events
        BY <2>4 DEF Excused
      <3> QED
        BY <3>1 DEF Paused, FlowInv
    <2>5. CASE SendRenew(s)
      BY <2>5
    <2> QED
      BY <2>2, <2>3, <2>4, <2>5
  <1> QED
    BY <1>1, <1>2, <1>5, <1>6, <1>7, <1>8 DEF FlowInv, sendFrame

LEMMA FlowMessage == TypeInv /\ FlowInv /\ Message => FlowInv'
  <1> SUFFICES ASSUME TypeInv, FlowInv, Message PROVE FlowInv'
    OBVIOUS
  <1> USE DEF Message, RecvAcks, RecvObjectImported, RecvObjectFailed, RecvReferenceResult,
              RecvBackoff, RecvOutOfMemory, RecvShuttingDown
  <1>1. UNCHANGED msgFrame
    OBVIOUS
  <1>2. Excused' <=> Excused
    BY <1>1 DEF Excused, msgFrame
  <1>3. \/ events' = events /\ srv_oom' = srv_oom
        \/ /\ events' = events \cup {"oom"} /\ srv_oom' = TRUE /\ "oom" \in Env
           /\ pc_recv = "recv"
        \/ events' = (events \ {"oom"}) \cup {"shutting_down"}
    BY DEF MayHappen
  <1> QED
    BY <1>1, <1>2, <1>3 DEF FlowInv, msgFrame

LEMMA FlowRestart == TypeInv /\ FlowInv /\ Calm /\ Restart => FlowInv'
  <1> SUFFICES ASSUME TypeInv, FlowInv, Calm, Restart PROVE FlowInv'
    OBVIOUS
  <1>1. UNCHANGED recvFrame
    BY DEF Restart, RecvStart, RecvEnd, RecvHangup, RecvError, Reconnect,
           ReconnectWaits, ReconnectRaises, ReaddObjects, ReaddReferences
  <1>a. bg_exception' = bg_exception \/ bg_exception' \in BgErrors
    BY DEF Restart, RecvStart, RecvEnd, RecvHangup, RecvError, Reconnect,
           ReconnectWaits, ReconnectRaises, ReaddObjects, ReaddReferences
  <1>2. Excused => Excused'
    BY <1>1, <1>a, FailedIsExcused DEF Excused, recvFrame
  <1>3. CASE RecvStart
    <2>1. CASE ~connected
      <3>1. Excused'
        BY <1>3, <2>1, FailedIsExcused DEF RecvStart
      <3> QED
        BY <1>1, <1>2, <1>3, <2>1, <3>1 DEF RecvStart, FlowInv, recvFrame, Hung, Cleared
    <2>2. CASE connected
      <3>0. pc_recv = "start" => stream + 1 \in 1..MaxStreams
        BY DEF TypeInv, TypeOK, RecvOK
      <3>1. sender \in [1..MaxStreams -> {"idle", "open", "closed"}] /\ stream + 1 \in 1..MaxStreams
        BY <1>3, <3>0 DEF RecvStart, TypeInv, TypeOK, RecvOK
      <3>2. /\ sender' = [sender EXCEPT ![stream + 1] = "open"] /\ pc_recv' = "recv"
            /\ stream' = stream + 1 /\ events' = events \ Cleared /\ pc_recv = "start"
        BY <1>3, <2>2 DEF RecvStart
      <3>3. sender'[stream'] = "open"
        BY <3>1, <3>2
      <3>4. \A s \in 1..MaxStreams : sender'[s] = "open" => s = stream' \/ Excused'
        BY <1>2, <3>1, <3>2 DEF FlowInv
      <3> QED
        BY <1>1, <1>2, <3>2, <3>3, <3>4 DEF FlowInv, recvFrame, Hung, Cleared
    <2> QED
      BY <2>1, <2>2
  <1>4. CASE RecvEnd
    BY <1>1, <1>2, <1>4 DEF RecvEnd, FlowInv, recvFrame, Hung
  <1>5. CASE RecvHangup
    BY <1>1, <1>2, <1>5 DEF RecvHangup, MayHappen, FlowInv, recvFrame, Hung, Calm
  <1>6. CASE RecvError
    BY <1>1, <1>2, <1>6, FailedIsExcused DEF RecvError, FlowInv, recvFrame, Hung
  <1>7. CASE Reconnect
    <2>1. "hangup" \in Env => "raises_hungup" \notin Env /\ "fast_reconnect" \notin Env
      BY DEF Calm
    <2>2. CASE ReconnectWaits
      BY <1>1, <1>2, <1>7, <2>2 DEF Reconnect, ReconnectWaits, FlowInv, recvFrame, Hung
    <2>3. CASE ReconnectRaises
      <3>1. Excused'
        BY <2>1, <2>3, FailedIsExcused DEF ReconnectRaises, FlowInv, Hung
      <3> QED
        BY <1>1, <1>2, <1>7, <2>3, <3>1 DEF Reconnect, ReconnectRaises, FlowInv, recvFrame, Hung
    <2>4. CASE ~ReconnectWaits /\ ~ReconnectRaises
      BY <1>1, <1>2, <1>7, <2>1, <2>4, FailedIsExcused DEF Reconnect, FlowInv, recvFrame, Hung
    <2> QED
      BY <2>2, <2>3, <2>4
  <1>8. CASE ReaddObjects \/ ReaddReferences
    BY <1>1, <1>2, <1>8 DEF ReaddObjects, ReaddReferences, FlowInv, recvFrame, Hung
  <1> QED
    BY <1>3, <1>4, <1>5, <1>6, <1>7, <1>8 DEF Restart

\* Only Main can be between queueing an object and caching it.
LEMMA CacheNext ==
    ASSUME TypeInv, OutcomeInv, CacheInv, [Next]_vars, OutcomeInv' PROVE CacheInv'
  <1> SUFFICES ASSUME NEW o \in Obj \cap added'
               PROVE  \/ o \in objs_cache' \/ Outcomes(o)' = 1
                      \/ pc_main' \in {"queue", "cache"} /\ item' = o
    BY DEF CacheInv
  <1>1. CASE Main
    <2>1. Outcomes(o)' = Outcomes(o)
      BY <1>1 DEF Main, AddObject, AddReference, QueueObject, CacheObject, CacheReference,
         Unblock, Flush, RaiseDead, Shutdown, Wait, mainFrame, Outcomes
    <2>2. o \in added \/ (pc_main' = "queue" /\ item' = o)
      <3>1. CASE \E x \in Obj : AddObject(x)
        BY <3>1 DEF AddObject
      <3>2. CASE \E r \in Ref : AddReference(r)
        BY <3>2 DEF AddReference
      <3>3. CASE UNCHANGED added
        BY <3>3
      <3> QED
        BY <1>1, <3>1, <3>2, <3>3 DEF Main, QueueObject, CacheObject, CacheReference,
           Unblock, Flush, RaiseDead, Shutdown, Wait
    <2>3. pc_main \in {"queue", "cache"} /\ item = o =>
             o \in objs_cache' \/ (pc_main' \in {"queue", "cache"} /\ item' = o)
      BY <1>1 DEF Main, AddObject, AddReference, QueueObject, CacheObject, CacheReference,
         Unblock, Flush, RaiseDead, Shutdown, Wait
    <2>4. objs_cache \subseteq objs_cache'
      BY <1>1 DEF Main, AddObject, AddReference, QueueObject, CacheObject, CacheReference,
         Unblock, Flush, RaiseDead, Shutdown, Wait
    <2> QED
      BY <2>1, <2>2, <2>3, <2>4 DEF CacheInv
  <1>2. CASE UNCHANGED outcomeVars
    BY <1>2 DEF outcomeVars, CacheInv, Outcomes
  <1>3. ASSUME NEW x \in Obj, RecvObjectImported(x) \/ RecvObjectFailed(x)
        PROVE  \/ o \in objs_cache' \/ Outcomes(o)' = 1
               \/ pc_main' \in {"queue", "cache"} /\ item' = o
    <2>1. UNCHANGED <<added, pc_main, item>> /\ objs_cache' = objs_cache \ {x}
      BY <1>3 DEF RecvObjectImported, RecvObjectFailed, msgFrame, Cached
    <2>2. succeeded \in [Obj -> Nat] /\ failed_objects \in [Obj -> Nat]
      BY DEF TypeInv, TypeOK, ResultsOK
    <2>3. CASE o = x /\ o \in objs_cache
      <3>1. Outcomes(o) = 0
        BY <2>2, <2>3 DEF OutcomeInv, Outcomes
      <3>2. Outcomes(o)' = Outcomes(o) + 1
        BY <1>3, <2>2, <2>3 DEF RecvObjectImported, RecvObjectFailed, Cached, Outcomes
      <3> QED
        BY <3>1, <3>2
    <2>4. CASE ~(o = x /\ o \in objs_cache)
      <3>1. Outcomes(o)' = Outcomes(o)
        BY <1>3, <2>2, <2>4 DEF RecvObjectImported, RecvObjectFailed, Cached, Outcomes
      <3> QED
        BY <2>1, <2>4, <3>1 DEF CacheInv
    <2> QED
      BY <2>3, <2>4
  <1>4. CASE Loop
    <2>1. UNCHANGED loopFrame
      BY <1>4 DEF Loop, LoopPopObjects, LoopPopReferences, LoopGenerate, LoopGenerated,
           LoopGate, LoopPut, LoopFinish, LoopPutSentinel, LoopExit
    <2> QED
      BY <1>2, <2>1 DEF loopFrame, outcomeVars
  <1>5. CASE SendAny
    <2>1. UNCHANGED sendFrame
      BY <1>5 DEF SendAny, Sender, SendRequest, SendStop, SendReturn, SendRenew
    <2> QED
      BY <1>2, <2>1 DEF sendFrame, outcomeVars
  <1>6. CASE Restart
    <2>1. UNCHANGED recvFrame
      BY <1>6 DEF Restart, RecvStart, RecvEnd, RecvHangup, RecvError, Reconnect,
           ReconnectWaits, ReconnectRaises, ReaddObjects, ReaddReferences
    <2> QED
      BY <1>2, <2>1 DEF recvFrame, outcomeVars
  <1>7. CASE RecvAcks \/ (\E r \in Ref : RecvReferenceResult(r))
               \/ (\E n \in BatchSizes : RecvBackoff(n)) \/ RecvOutOfMemory \/ RecvShuttingDown
    BY <1>2, <1>7 DEF RecvAcks, RecvReferenceResult, RecvBackoff, RecvOutOfMemory,
           RecvShuttingDown, msgFrame, outcomeVars
  <1>8. CASE UNCHANGED vars
    BY <1>2, <1>8 DEF vars, outcomeVars
  <1> QED
    BY <1>1, <1>3, <1>4, <1>5, <1>6, <1>7, <1>8
       DEF Next, Others, Recv, Restart, Message, Finished, SendAny
-----------------------------------------------------------------------------
(* What each thread does to the number of copies on their way. *)

LEMMA OnWayMain ==
    ASSUME TypeInv, Main, NEW o \in Obj
    PROVE  OnWay(o)' = OnWay(o) + (IF o \in added' \ added THEN 1 ELSE 0)
  <1>1. CountsOK /\ batch_objects \in [Obj -> Nat]
    BY Counts DEF TypeInv, TypeOK, QueuesOK
  <1>2. UNCHANGED <<InLoop(o), Queued(reqs, o), AtServer(o)>>
    <2>1. UNCHANGED mainFrame
      BY DEF Main, AddObject, AddReference, QueueObject, CacheObject, CacheReference, Unblock,
             Flush, RaiseDead, Shutdown, Wait
    <2> QED
      BY <2>1 DEF mainFrame, InLoop, AtServer
  <1>3. batch_objects'[o] + Begun(o)'
           = batch_objects[o] + Begun(o) + (IF o \in added' \ added THEN 1 ELSE 0)
    <2>1. ASSUME NEW x \in Obj, AddObject(x)
          PROVE  /\ batch_objects' = batch_objects /\ Begun(o) = 0
                 /\ Begun(o)' = (IF o \in added' \ added THEN 1 ELSE 0)
      BY <2>1 DEF AddObject, Begun
    <2>2. ASSUME NEW r \in Ref, AddReference(r)
          PROVE  UNCHANGED <<batch_objects, Begun(o)>> /\ o \notin added' \ added
      BY <2>2 DEF AddReference, Begun
    <2>3. CASE QueueObject
      <3>1. Begun(o)' = 0 /\ added' = added /\ pc_main = "queue"
            /\ batch_objects' = batch_objects (+) Once(Obj, {item})
        BY <2>3 DEF QueueObject, Begun
      <3>2. batch_objects'[o] = batch_objects[o] + (IF o = item THEN 1 ELSE 0)
        BY <1>1, <3>1 DEF (+), Once
      <3> QED
        BY <1>1, <3>1, <3>2 DEF Begun, CountsOK
    <2>4. CASE CacheObject \/ CacheReference \/ Unblock \/ Flush \/ RaiseDead \/ Shutdown \/ Wait
      <3>1. UNCHANGED <<batch_objects, added, Begun(o)>>
        BY <2>4 DEF CacheObject, CacheReference, Unblock, Flush, RaiseDead, Shutdown, Wait, Begun
      <3> QED
        BY <1>1, <3>1 DEF CountsOK
    <2> QED
      BY <1>1, <2>1, <2>2, <2>3, <2>4 DEF Main, CountsOK
  <1> DEFINE more == IF o \in added' \ added THEN 1 ELSE 0
  <1>4. /\ batch_objects[o] \in Nat /\ InLoop(o) \in Nat /\ Queued(reqs, o) \in Nat
        /\ AtServer(o) \in Nat /\ Begun(o) \in Nat /\ more \in Nat
    BY <1>1 DEF CountsOK
  <1>5. batch_objects'[o] \in Nat /\ Begun(o)' \in Nat
    BY <1>1 DEF Begun, Main, AddObject, AddReference, QueueObject, CacheObject, CacheReference,
           Unblock, Flush, RaiseDead, Shutdown, Wait, (+), Once
  <1> HIDE DEF more
  <1> QED
    BY <1>2, <1>3, <1>4, <1>5 DEF OnWay, more

LEMMA OnWayLoop ==
    ASSUME TypeInv, TypeInv', FlowInv, Loop, ~Excused', NEW o \in Obj
    PROVE  OnWay(o)' = OnWay(o)
  <1>1. UNCHANGED loopFrame
    BY DEF Loop, LoopPopObjects, LoopPopReferences, LoopGenerate, LoopGenerated, LoopGate,
           LoopPut, LoopFinish, LoopPutSentinel, LoopExit
  <1>2. UNCHANGED <<AtServer(o), Begun(o)>>
    BY <1>1 DEF loopFrame, AtServer, Begun
  <1>3. bg_exception' \notin BgErrors /\ ~Excused
    <2>1. bg_exception' \notin BgErrors
      BY FailedIsExcused
    <2>2. bg_exception' = bg_exception \/ bg_exception' \in BgErrors
      BY DEF Loop, LoopPopObjects, LoopPopReferences, LoopGenerate, LoopGenerated, LoopGate,
             LoopPut, LoopFinish, LoopPutSentinel, LoopExit
    <2> QED
      BY <1>1, <2>1, <2>2 DEF Excused, loopFrame
  <1>4. batch_objects'[o] + InLoop(o)' + Queued(reqs, o)'
           = batch_objects[o] + InLoop(o) + Queued(reqs, o)
    <2>a. /\ batch_objects[o] \in Nat /\ chunk.objs[o] \in Nat /\ Queued(reqs, o) \in Nat
          /\ held # None => held.objs[o] \in Nat
      BY Counts DEF CountsOK
    <2>b. /\ batch_objects \in [Obj -> Nat] /\ chunk \in Request
          /\ chunk.objs \in [Obj -> Nat]
      BY DEF TypeInv, TypeOK, QueuesOK, LoopOK, Request
    <2>c. Nothing.objs[o] = 0
      BY DEF Nothing, NoItems
    <2>1. CASE LoopPopObjects
      <3>1. PICK p \in Pops(batch_objects, batch_size) :
               chunk' = [chunk EXCEPT !.objs = p] /\ batch_objects' = batch_objects (-) p
        BY <2>1 DEF LoopPopObjects
      <3>2. p \in [Obj -> Nat] /\ p[o] \in Nat /\ p[o] <= batch_objects[o]
        BY <2>b, PopsPart
      <3>3. chunk'.objs = p
        BY <2>b, <3>1 DEF Request
      <3>4. batch_objects'[o] = batch_objects[o] - p[o]
        BY <2>b, <3>1 DEF (-)
      <3>5. chunk.objs[o] = 0
        BY <1>3, <2>1, <2>c DEF LoopPopObjects, FlowInv
      <3>6. held' = held /\ reqs' = reqs
        BY <2>1 DEF LoopPopObjects
      <3> QED
        BY <2>a, <3>2, <3>3, <3>4, <3>5, <3>6 DEF InLoop
    <2>2. CASE LoopPopReferences
      <3>1. PICK p : chunk' = [chunk EXCEPT !.refs = p]
        BY <2>2 DEF LoopPopReferences
      <3>2. chunk'.objs = chunk.objs
        BY <2>b, <3>1 DEF Request
      <3>3. UNCHANGED <<held, reqs, batch_objects>>
        BY <2>2 DEF LoopPopReferences
      <3> QED
        BY <3>2, <3>3 DEF InLoop
    <2>3. CASE LoopGenerate
      <3>1. PICK p, q :
               /\ p \in Fill(chunk, MaxPerRequest + 1) /\ q \in Fill(p, MaxPerRequest)
               /\ held' = q
               /\ chunk' = [objs |-> chunk.objs (-) q.objs, refs |-> chunk.refs (-) q.refs]
        BY <1>3, <2>3 DEF LoopGenerate
      <3>2. q \in Request
        BY <2>b, <3>1, Generated
      <3>3. q.objs[o] <= chunk.objs[o]
        BY <2>b, <3>1, Generated
      <3>4. q.objs[o] \in Nat /\ q # None
        BY <3>2, NoneOK DEF Request
      <3>5. chunk'.objs[o] = chunk.objs[o] - q.objs[o]
        BY <2>b, <3>1 DEF (-)
      <3>6. held = None
        BY <1>3, <2>3 DEF FlowInv, LoopGenerate
      <3>7. UNCHANGED <<reqs, batch_objects>>
        BY <2>3 DEF LoopGenerate
      <3>8. InLoop(o)' = InLoop(o)
        BY <2>a, <3>1, <3>3, <3>4, <3>5, <3>6 DEF InLoop
      <3> QED
        BY <3>7, <3>8
    <2>4. CASE LoopPut
      <3>1. /\ reqs = {} /\ held \in Request /\ held # None /\ held.objs[o] \in Nat
            /\ reqs' = {held} /\ held' = None
        BY <2>4, NoneOK DEF LoopPut, QueueIsFull, TypeInv, TypeOK, LoopOK, Request
      <3>2. Queued(reqs, o) = 0
        BY <3>1, QueuedNone
      <3>3. Queued({held}, o) = held.objs[o]
        BY <3>1, QueuedOne
      <3>4. UNCHANGED <<chunk, batch_objects>>
        BY <2>4 DEF LoopPut
      <3> QED
        BY <2>a, <3>1, <3>2, <3>3, <3>4 DEF InLoop
    <2>5. CASE LoopPutSentinel
      <3>1. reqs = {} /\ reqs' = {None} /\ UNCHANGED <<batch_objects, chunk, held>>
        BY <2>5 DEF LoopPutSentinel, QueueIsFull
      <3>2. Queued({}, o) = 0 /\ Queued({None}, o) = 0
        BY QueuedNone
      <3> QED
        BY <3>1, <3>2 DEF InLoop
    <2>6. CASE LoopGenerated \/ LoopGate \/ LoopFinish
      BY <2>6 DEF LoopGenerated, LoopGate, LoopFinish, InLoop
    <2>7. ~LoopExit
      BY <1>3 DEF LoopExit, Excused, FlowInv
    <2> QED
      BY <2>1, <2>2, <2>3, <2>4, <2>5, <2>6, <2>7 DEF Loop
  <1>5. CountsOK /\ CountsOK'
    BY Counts, CountsNext
  <1>6. /\ batch_objects[o] \in Nat /\ InLoop(o) \in Nat /\ Queued(reqs, o) \in Nat
        /\ AtServer(o) \in Nat /\ Begun(o) \in Nat
        /\ batch_objects'[o] \in Nat /\ InLoop(o)' \in Nat /\ Queued(reqs, o)' \in Nat
    BY <1>5 DEF CountsOK
  <1> QED
    BY <1>2, <1>4, <1>6 DEF OnWay

LEMMA OnWaySender ==
    ASSUME TypeInv, TypeInv', FlowInv, NEW s \in 1..MaxStreams, Sender(s), ~Excused,
           pc_recv # "reconnect_hungup", NEW o \in Obj
    PROVE  OnWay(o)' = OnWay(o)
  <1>1. UNCHANGED sendFrame
    BY DEF Sender, SendRequest, SendStop, SendReturn, SendRenew
  <1>2. UNCHANGED <<batch_objects, InLoop(o), Begun(o)>>
    BY <1>1 DEF sendFrame, InLoop, Begun
  <1>3. Queued(reqs, o)' + AtServer(o)' = Queued(reqs, o) + AtServer(o)
    <2>1. CASE SendRequest(s)
      <3>1. PICK q \in reqs \ {None} : SendRequest(s)!2!(q)
        BY <2>1 DEF SendRequest
      <3>2. q \in Request /\ q.objs \in [Obj -> Nat] /\ q.objs[o] \in Nat
        BY Taken
      <3>3. reqs = {q} /\ reqs' = {}
        BY <3>1 DEF TypeInv, TypeOK, QueuesOK
      <3>4. Queued({q}, o) = q.objs[o]
        BY <3>2, QueuedOne
      <3>5. Queued({}, o) = 0
        BY QueuedNone
      <3>6. Connected(s) /\ pc_recv = "recv" /\ pc_recv' = pc_recv
        BY <1>1, <2>1 DEF SendRequest, FlowInv, Connected, sendFrame
      <3>7. unresolved.objs \in [Obj -> Nat] /\ unresolved.objs[o] \in Nat
        BY DEF TypeInv, TypeOK, ServerOK, Request
      <3>8. unresolved'.objs[o] = unresolved.objs[o] + q.objs[o]
        BY <3>1, <3>6, <3>7 DEF (+)
      <3>9. AtServer(o) = unresolved.objs[o] /\ AtServer(o)' = unresolved.objs[o] + q.objs[o]
        BY <3>6, <3>8 DEF AtServer
      <3> QED
        BY <3>2, <3>3, <3>4, <3>5, <3>7, <3>9
    <2>2. CASE SendStop(s)
      <3>1. reqs = {None} /\ reqs' = {}
        BY <2>2 DEF SendStop, TypeInv, TypeOK, QueuesOK
      <3>2. Queued({}, o) = 0 /\ Queued({None}, o) = 0
        BY QueuedNone
      <3>3. AtServer(o)' = AtServer(o)
        BY <1>1, <2>2 DEF SendStop, AtServer, sendFrame
      <3> QED
        BY <3>1, <3>2, <3>3
    <2>3. CASE SendReturn(s) \/ SendRenew(s)
      <3>1. reqs' = reqs /\ AtServer(o)' = AtServer(o)
        BY <1>1, <2>3 DEF SendReturn, SendRenew, AtServer, sendFrame
      <3> QED
        BY <3>1
    <2> QED
      BY <2>1, <2>2, <2>3 DEF Sender
  <1>4. CountsOK /\ CountsOK'
    BY Counts, CountsNext
  <1>5. /\ batch_objects[o] \in Nat /\ InLoop(o) \in Nat /\ Queued(reqs, o) \in Nat
        /\ AtServer(o) \in Nat /\ Begun(o) \in Nat
        /\ Queued(reqs, o)' \in Nat /\ AtServer(o)' \in Nat
    BY <1>4 DEF CountsOK
  <1> QED
    BY <1>2, <1>3, <1>5 DEF OnWay

\* A result takes one copy, out_of_memory all that the server has not processed.
Answered(x) == RecvObjectImported(x) \/ RecvObjectFailed(x)

LEMMA OnWayAnswered ==
    ASSUME TypeInv, NEW x \in Obj, Answered(x), NEW o \in Obj
    PROVE  /\ OnWay(o)' = IF o = x THEN OnWay(o) - 1 ELSE OnWay(o)
           /\ pc_recv' = pc_recv /\ OnWay(x) > 0
           /\ pc_main = "queue" /\ item = x => OnWay(x) > 1
  <1>1. UNCHANGED <<msgFrame, queueVars>> /\ pc_recv = "recv"
        /\ unresolved' = [unresolved EXCEPT !.objs[x] = @ - 1] /\ unresolved.objs[x] > 0
    BY DEF Answered, RecvObjectImported, RecvObjectFailed
  <1>2. UNCHANGED <<batch_objects, InLoop(o), Queued(reqs, o), Begun(o)>> /\ pc_recv' = pc_recv
    BY <1>1 DEF msgFrame, InLoop, Begun
  <1>3. unresolved \in Request /\ unresolved.objs \in [Obj -> Nat]
    BY DEF TypeInv, TypeOK, ServerOK, Request
  <1>4. unresolved'.objs[o] = IF o = x THEN unresolved.objs[o] - 1 ELSE unresolved.objs[o]
    BY <1>1, <1>3 DEF Request
  <1>5. AtServer(o)' = unresolved'.objs[o] /\ AtServer(o) = unresolved.objs[o]
        /\ AtServer(x) = unresolved.objs[x]
    BY <1>1, <1>2 DEF AtServer
  <1>6. /\ batch_objects[o] \in Nat /\ InLoop(o) \in Nat /\ Queued(reqs, o) \in Nat
        /\ unresolved.objs[o] \in Nat /\ Begun(o) \in Nat
    BY Counts DEF CountsOK
  <1>7. /\ batch_objects[x] \in Nat /\ InLoop(x) \in Nat /\ Queued(reqs, x) \in Nat
        /\ unresolved.objs[x] \in Nat /\ Begun(x) \in Nat
    BY Counts DEF CountsOK
  <1>8. OnWay(o)' = IF o = x THEN OnWay(o) - 1 ELSE OnWay(o)
    BY <1>1, <1>2, <1>4, <1>5, <1>6 DEF OnWay
  <1>9. OnWay(x) > 0 /\ (pc_main = "queue" /\ item = x => OnWay(x) > 1)
    BY <1>1, <1>5, <1>7 DEF OnWay, Begun
  <1> QED
    BY <1>2, <1>8, <1>9

LEMMA OnWayHandedBack ==
    ASSUME TypeInv, RecvOutOfMemory, NEW o \in Obj
    PROVE  /\ OnWay(o)' = (OnWay(o) - unresolved.objs[o]) + (IF o \in HandedBack THEN 1 ELSE 0)
           /\ unresolved.objs[o] <= OnWay(o) /\ unresolved.objs[o] \in Nat
           /\ pc_main = "queue" /\ item = o => unresolved.objs[o] < OnWay(o)
  <1>1. UNCHANGED msgFrame /\ pc_recv = "recv" /\ unresolved' = Nothing
        /\ batch_objects' = batch_objects (+) Once(Obj, HandedBack)
    BY DEF RecvOutOfMemory
  <1>2. UNCHANGED <<InLoop(o), Queued(reqs, o), Begun(o)>> /\ pc_recv' = "recv"
    BY <1>1 DEF msgFrame, InLoop, Begun
  <1>3. AtServer(o)' = 0 /\ AtServer(o) = unresolved.objs[o]
    BY <1>1, <1>2 DEF AtServer, Nothing, NoItems
  <1>4. batch_objects'[o] = batch_objects[o] + (IF o \in HandedBack THEN 1 ELSE 0)
    BY <1>1 DEF (+), Once, TypeInv, TypeOK, QueuesOK
  <1>5. /\ batch_objects[o] \in Nat /\ InLoop(o) \in Nat /\ Queued(reqs, o) \in Nat
        /\ unresolved.objs[o] \in Nat /\ Begun(o) \in Nat
    BY Counts DEF CountsOK
  <1>6. unresolved.objs[o] <= OnWay(o)
    BY <1>3, <1>5 DEF OnWay
  <1>7. pc_main = "queue" /\ item = o => unresolved.objs[o] < OnWay(o)
    BY <1>3, <1>5 DEF OnWay, Begun
  <1>8. OnWay(o)' = (OnWay(o) - unresolved.objs[o]) + (IF o \in HandedBack THEN 1 ELSE 0)
    BY <1>2, <1>3, <1>4, <1>5 DEF OnWay
  <1> QED
    BY <1>5, <1>6, <1>7, <1>8

\* No other message moves an object.
LEMMA OnWayMessage ==
    ASSUME TypeInv, Message, ~RecvOutOfMemory, \A x \in Obj : ~Answered(x), NEW o \in Obj
    PROVE  OnWay(o)' = OnWay(o)
  <1>1. UNCHANGED <<msgFrame, batch_objects>> /\ unresolved'.objs = unresolved.objs
    <2>1. unresolved \in Request
      BY DEF TypeInv, TypeOK, ServerOK
    <2>2. \A r \in Ref : [unresolved EXCEPT !.refs[r] = @ - 1].objs = unresolved.objs
      BY <2>1 DEF Request
    <2>3. ASSUME NEW r \in Ref, RecvReferenceResult(r)
          PROVE  UNCHANGED <<msgFrame, batch_objects>> /\ unresolved'.objs = unresolved.objs
      BY <2>2, <2>3 DEF RecvReferenceResult
    <2>4. CASE RecvAcks \/ (\E n \in BatchSizes : RecvBackoff(n)) \/ RecvShuttingDown
      BY <2>4 DEF RecvAcks, RecvBackoff, RecvShuttingDown
    <2> QED
      BY <2>3, <2>4 DEF Message, Answered
  <1> QED
    BY <1>1 DEF msgFrame, OnWay, InLoop, AtServer, Begun

\* Recv itself loses copies only when the stream breaks, and queues what is cached
\* after that.
LEMMA OnWayRestart ==
    ASSUME TypeInv, Restart, ~RecvHangup, ~RecvError, NEW o \in Obj
    PROVE  OnWay(o)' = OnWay(o) + (IF ReaddObjects /\ o \in objs_cache THEN 1 ELSE 0)
  <1>1. UNCHANGED recvFrame
    BY DEF Restart, RecvStart, RecvEnd, Reconnect, ReconnectWaits, ReconnectRaises, ReaddObjects,
           ReaddReferences
  <1>2. UNCHANGED <<InLoop(o), Queued(reqs, o), Begun(o)>>
    BY <1>1 DEF recvFrame, InLoop, Begun
  <1>3. Nothing.objs[o] = 0
    BY DEF Nothing, NoItems
  <1>4. AtServer(o)' = AtServer(o)
    BY <1>3 DEF AtServer, Restart, RecvStart, RecvEnd, Reconnect, ReconnectWaits,
           ReconnectRaises, ReaddObjects, ReaddReferences
  <1>5. batch_objects'[o] = batch_objects[o] + (IF ReaddObjects /\ o \in objs_cache THEN 1 ELSE 0)
    <2>1. batch_objects \in [Obj -> Nat]
      BY DEF TypeInv, TypeOK, QueuesOK
    <2>2. CASE ReaddObjects
      BY <2>1, <2>2 DEF ReaddObjects, Unanswered, (+), Once
    <2>3. CASE ~ReaddObjects
      <3>1. UNCHANGED batch_objects
        BY <2>3 DEF Restart, RecvStart, RecvEnd, Reconnect, ReaddReferences
      <3>2. batch_objects[o] \in Nat
        BY <2>1
      <3> QED
        BY <2>3, <3>1, <3>2
    <2> QED
      BY <2>2, <2>3
  <1>6. /\ batch_objects[o] \in Nat /\ InLoop(o) \in Nat /\ Queued(reqs, o) \in Nat
        /\ AtServer(o) \in Nat /\ Begun(o) \in Nat
    BY Counts DEF CountsOK
  <1> QED
    BY <1>2, <1>4, <1>5, <1>6 DEF OnWay

LEMMA FlowNext == TypeInv /\ FlowInv /\ Calm /\ [Next]_vars => FlowInv'
  <1> SUFFICES ASSUME TypeInv, FlowInv, Calm, [Next]_vars PROVE FlowInv'
    OBVIOUS
  <1>1. CASE Main
    BY <1>1, FlowMain
  <1>2. CASE Loop
    BY <1>2, FlowLoop
  <1>3. ASSUME NEW s \in 1..MaxStreams, Sender(s) PROVE FlowInv'
    BY <1>3, FlowSender
  <1>4. CASE Message
    BY <1>4, FlowMessage
  <1>5. CASE Restart
    BY <1>5, FlowRestart
  <1>6. CASE UNCHANGED vars
    BY <1>6 DEF vars, FlowInv, Excused
  <1> QED
    BY <1>1, <1>2, <1>3, <1>4, <1>5, <1>6 DEF Next, Others, Recv, Restart, Finished

\* A result for an object that has none is counted; the other steps count nothing.
LEMMA AnsweredOutcome ==
    ASSUME TypeInv, OutcomeInv, CacheInv, "preempt" \notin Env, NEW x \in Obj, Answered(x),
           NEW o \in Obj
    PROVE  /\ UNCHANGED <<added, pc_main, item, batch_objects>>
           /\ o # x => Outcomes(o)' = Outcomes(o)
           /\ x \in objs_cache => Outcomes(x) = 0 /\ Outcomes(x)' = 1
           /\ x \notin objs_cache =>
                 /\ Outcomes(x)' = Outcomes(x)
                 /\ x \in added => Outcomes(x) = 1 \/ (pc_main = "queue" /\ item = x)
  <1>1. UNCHANGED <<added, pc_main, item, batch_objects>> /\ MayRun
    BY DEF Answered, RecvObjectImported, RecvObjectFailed, msgFrame
  <1>2. /\ succeeded \in [Obj -> Nat] /\ failed_objects \in [Obj -> Nat]
        /\ succeeded[x] \in Nat /\ failed_objects[x] \in Nat
    BY DEF TypeInv, TypeOK, ResultsOK
  <1>3. o # x => Outcomes(o)' = Outcomes(o)
    BY <1>2 DEF Answered, RecvObjectImported, RecvObjectFailed, Outcomes
  <1>4. ASSUME x \in objs_cache PROVE Outcomes(x) = 0 /\ Outcomes(x)' = 1
    <2>1. Outcomes(x) = 0
      BY <1>2, <1>4 DEF OutcomeInv, Outcomes
    <2>2. Outcomes(x)' = Outcomes(x) + 1
      BY <1>2, <1>4 DEF Answered, RecvObjectImported, RecvObjectFailed, Cached, Outcomes
    <2> QED
      BY <2>1, <2>2
  <1>5. ASSUME x \notin objs_cache
        PROVE  /\ Outcomes(x)' = Outcomes(x)
               /\ x \in added => Outcomes(x) = 1 \/ (pc_main = "queue" /\ item = x)
    <2>1. Outcomes(x)' = Outcomes(x)
      BY <1>5 DEF Answered, RecvObjectImported, RecvObjectFailed, Cached, Outcomes
    <2>2. x \in added => Outcomes(x) = 1 \/ (pc_main = "queue" /\ item = x)
      BY <1>1, <1>5 DEF CacheInv, MayRun
    <2> QED
      BY <2>1, <2>2
  <1> QED
    BY <1>1, <1>3, <1>4, <1>5

LEMMA OutcomesKept ==
    ASSUME [Next]_vars, \A x \in Obj : ~Answered(x), NEW o \in Obj
    PROVE  Outcomes(o)' = Outcomes(o)
  <1>1. CASE Main
    BY <1>1 DEF Main, AddObject, AddReference, QueueObject, CacheObject, CacheReference,
         Unblock, Flush, RaiseDead, Shutdown, Wait, mainFrame, Outcomes
  <1>2. CASE Loop
    BY <1>2 DEF Loop, LoopPopObjects, LoopPopReferences, LoopGenerate, LoopGenerated,
           LoopGate, LoopPut, LoopFinish, LoopPutSentinel, LoopExit, loopFrame, Outcomes
  <1>3. CASE SendAny
    BY <1>3 DEF SendAny, Sender, SendRequest, SendStop, SendReturn, SendRenew, sendFrame, Outcomes
  <1>4. CASE Restart
    BY <1>4 DEF Restart, RecvStart, RecvEnd, RecvHangup, RecvError, Reconnect,
           ReconnectWaits, ReconnectRaises, ReaddObjects, ReaddReferences, recvFrame, Outcomes
  <1>5. CASE Message
    BY <1>5 DEF Message, Answered, RecvAcks, RecvReferenceResult, RecvBackoff, RecvOutOfMemory,
           RecvShuttingDown, Outcomes
  <1>6. CASE UNCHANGED vars
    BY <1>6 DEF vars, Outcomes
  <1> QED
    BY <1>1, <1>2, <1>3, <1>4, <1>5, <1>6 DEF Next, Others, Recv, Restart, Finished, SendAny

\* What Main alone may change.
LEMMA OthersFrame ==
    ASSUME Others PROVE UNCHANGED <<added, pc_main, item, raised>> /\ MayRun
  <1>1. CASE Loop
    BY <1>1 DEF Loop, LoopPopObjects, LoopPopReferences, LoopGenerate, LoopGenerated,
           LoopGate, LoopPut, LoopFinish, LoopPutSentinel, LoopExit, loopFrame
  <1>2. CASE SendAny
    BY <1>2 DEF SendAny, Sender, SendRequest, SendStop, SendReturn, SendRenew, sendFrame
  <1>3. CASE Restart
    BY <1>3 DEF Restart, RecvStart, RecvEnd, RecvHangup, RecvError, Reconnect,
           ReconnectWaits, ReconnectRaises, ReaddObjects, ReaddReferences, recvFrame
  <1>4. CASE Message
    BY <1>4 DEF Message, RecvObjectImported, RecvObjectFailed, RecvAcks, RecvReferenceResult,
           RecvBackoff, RecvOutOfMemory, RecvShuttingDown, msgFrame
  <1> QED
    BY <1>1, <1>2, <1>3, <1>4 DEF Others, Recv, Restart, SendAny

\* No step takes an exception back.
LEMMA ExcusedStays == ASSUME [Next]_vars, Excused PROVE Excused'
  <1>1. CASE Main
    BY <1>1 DEF Main, AddObject, AddReference, QueueObject, CacheObject, CacheReference,
         Unblock, Flush, RaiseDead, Shutdown, Wait, mainFrame, Excused
  <1>2. CASE Others
    <2>1. bg_exception' = bg_exception \/ bg_exception' \in BgErrors
      BY <1>2 DEF Others, Loop, LoopPopObjects, LoopPopReferences, LoopGenerate, LoopGenerated,
           LoopGate, LoopPut, LoopFinish, LoopPutSentinel, LoopExit, loopFrame,
           Sender, SendRequest, SendStop, SendReturn, SendRenew, sendFrame,
           Recv, RecvStart, RecvEnd, RecvHangup, RecvError, Reconnect,
           ReconnectWaits, ReconnectRaises, ReaddObjects, ReaddReferences, recvFrame,
           Message, RecvObjectImported, RecvObjectFailed, RecvAcks,
           RecvReferenceResult, RecvBackoff, RecvOutOfMemory, RecvShuttingDown, msgFrame
    <2>2. raised' = raised
      BY <1>2, OthersFrame
    <2> QED
      BY <2>1, <2>2, FailedIsExcused DEF Excused
  <1>3. CASE UNCHANGED vars
    BY <1>3 DEF vars, Excused
  <1> QED
    BY <1>1, <1>2, <1>3 DEF Next, Finished
-----------------------------------------------------------------------------
(* An object without a result is on its way, or waits in __objs_cache for   *)
(* recv_wrapper to queue it again.                                          *)

WayInv ==
    /\ \A o \in Obj \cap added : \/ Outcomes(o) = 1 \/ OnWay(o) > 0 \/ Excused
                                 \/ pc_recv \in {"reconnect_hungup", "readd_objects"}
    /\ pc_main = "cache" => batch_objects[item] > 0

LEMMA WayInit == Init => WayInv
  BY DEF Init, WayInv

LEMMA WayOthers ==
    ASSUME TypeInv, TypeInv', OutcomeInv, FlowInv, CacheInv, WayInv, Calm, Others,
           NEW o \in Obj \cap added, ~Excused'
    PROVE  \/ Outcomes(o)' = 1 \/ OnWay(o)' > 0
           \/ pc_recv' \in {"reconnect_hungup", "readd_objects"}
  <1> DEFINE Goal == \/ Outcomes(o)' = 1 \/ OnWay(o)' > 0
                     \/ pc_recv' \in {"reconnect_hungup", "readd_objects"}
  <1>1. ~Excused
    BY ExcusedStays DEF Next
  <1>2. \/ Outcomes(o) = 1 \/ OnWay(o) > 0
        \/ pc_recv \in {"reconnect_hungup", "readd_objects"}
    BY <1>1 DEF WayInv
  <1>3. OnWay(o) \in Nat /\ OnWay(o)' \in Nat
    BY Counts, CountsNext DEF CountsOK
  <1>4. "preempt" \notin Env /\ MayRun
    BY OthersFrame DEF Calm
  <1>5. ASSUME NEW x \in Obj, Answered(x) PROVE Goal
    <2>1. /\ o # x => Outcomes(o)' = Outcomes(o)
          /\ x \in objs_cache => Outcomes(x)' = 1
          /\ x \notin objs_cache =>
                /\ Outcomes(x)' = Outcomes(x)
                /\ x \in added => Outcomes(x) = 1 \/ (pc_main = "queue" /\ item = x)
      BY <1>4, <1>5, AnsweredOutcome
    <2>2. /\ OnWay(o)' = IF o = x THEN OnWay(o) - 1 ELSE OnWay(o)
          /\ pc_recv' = pc_recv
          /\ pc_main = "queue" /\ item = x => OnWay(x) > 1
      BY <1>5, OnWayAnswered
    <2> QED
      BY <1>2, <1>3, <2>1, <2>2
  <1>6. ASSUME \A x \in Obj : ~Answered(x) PROVE Goal
    <2>1. Outcomes(o)' = Outcomes(o)
      BY <1>6, OutcomesKept DEF Next
    <2>2. CASE Loop
      <3>1. OnWay(o)' = OnWay(o) /\ pc_recv' = pc_recv
        BY <2>2, OnWayLoop DEF Loop, LoopPopObjects, LoopPopReferences, LoopGenerate,
           LoopGenerated, LoopGate, LoopPut, LoopFinish, LoopPutSentinel, LoopExit, loopFrame
      <3> QED
        BY <1>2, <2>1, <3>1
    <2>3. ASSUME NEW s \in 1..MaxStreams, Sender(s) PROVE Goal
      <3>1. pc_recv' = pc_recv
        BY <2>3 DEF Sender, SendRequest, SendStop, SendReturn, SendRenew, sendFrame
      <3>2. pc_recv # "reconnect_hungup" => OnWay(o)' = OnWay(o)
        BY <1>1, <2>3, OnWaySender
      <3> QED
        BY <1>2, <2>1, <3>1, <3>2
    <2>4. CASE RecvOutOfMemory
      <3>1. /\ OnWay(o)' = (OnWay(o) - unresolved.objs[o]) + (IF o \in HandedBack THEN 1 ELSE 0)
            /\ unresolved.objs[o] <= OnWay(o) /\ unresolved.objs[o] \in Nat
            /\ pc_main = "queue" /\ item = o => unresolved.objs[o] < OnWay(o)
        BY <2>4, OnWayHandedBack
      <3>2. pc_recv = "recv"
        BY <2>4 DEF RecvOutOfMemory
      <3>3. CASE o \in objs_cache
        <4>1. o \in HandedBack <=> unresolved.objs[o] > 0
          BY <3>3 DEF HandedBack, Support, TypeInv, TypeOK, ServerOK, Request
        <4> QED
          BY <1>2, <1>3, <2>1, <3>1, <3>2, <4>1
      <3>4. CASE o \notin objs_cache
        <4>1. Outcomes(o) = 1 \/ (pc_main = "queue" /\ item = o)
          BY <1>4, <3>4 DEF CacheInv, MayRun
        <4> QED
          BY <1>3, <2>1, <3>1, <4>1
      <3> QED
        BY <3>3, <3>4
    <2>5. CASE Message /\ ~RecvOutOfMemory
      <3>1. OnWay(o)' = OnWay(o)
        BY <1>6, <2>5, OnWayMessage
      <3>2. pc_recv' = pc_recv
        BY <1>6, <2>5 DEF Message, Answered, RecvAcks, RecvReferenceResult, RecvBackoff,
             RecvShuttingDown, msgFrame
      <3> QED
        BY <1>2, <2>1, <3>1, <3>2
    <2>6. CASE Restart
      <3>1. ~RecvError
        BY FailedIsExcused DEF RecvError
      <3>2. CASE RecvHangup
        BY <3>2 DEF RecvHangup
      <3>3. CASE ~RecvHangup
        <4>1. OnWay(o)' = OnWay(o) + (IF ReaddObjects /\ o \in objs_cache THEN 1 ELSE 0)
          BY <2>6, <3>1, <3>3, OnWayRestart
        <4>2. CASE ReaddObjects /\ o \in objs_cache
          BY <1>3, <4>1, <4>2
        <4>3. CASE ReaddObjects /\ o \notin objs_cache
          <5>1. Outcomes(o) = 1 \/ (pc_main = "queue" /\ item = o)
            BY <1>4, <4>3 DEF CacheInv, MayRun
          <5>2. pc_main = "queue" /\ item = o => OnWay(o) > 0
            <6>1. /\ batch_objects[o] \in Nat /\ InLoop(o) \in Nat /\ Queued(reqs, o) \in Nat
                  /\ AtServer(o) \in Nat /\ Begun(o) \in Nat
              BY Counts DEF CountsOK
            <6> QED
              BY <6>1 DEF OnWay, Begun
          <5> QED
            BY <1>3, <2>1, <4>1, <4>3, <5>1, <5>2
        <4>4. CASE ~ReaddObjects
          <5>1. pc_recv \in {"reconnect_hungup", "readd_objects"} =>
                   pc_recv' \in {"reconnect_hungup", "readd_objects"}
            <6>1. pc_recv = "reconnect_hungup" => "raises_hungup" \notin Env
              BY DEF FlowInv, Hung, Calm
            <6> QED
              BY <2>6, <3>1, <3>3, <4>4, <6>1 DEF Restart, RecvStart, RecvEnd, Reconnect,
                 ReconnectWaits, ReconnectRaises, ReaddReferences
          <5> QED
            BY <1>2, <1>3, <2>1, <4>1, <4>4, <5>1
        <4> QED
          BY <4>2, <4>3, <4>4
      <3> QED
        BY <3>2, <3>3
    <2> QED
      BY <2>2, <2>3, <2>4, <2>5, <2>6 DEF Others, Recv, Restart
  <1> QED
    BY <1>5, <1>6

LEMMA WayNext ==
    ASSUME TypeInv, TypeInv', OutcomeInv, FlowInv, CacheInv, WayInv, Calm, [Next]_vars
    PROVE  WayInv'
  <1>1. CASE Main
    <2>1. pc_main' = "cache" => batch_objects'[item'] > 0
      <3>1. CASE QueueObject
        <4>1. batch_objects'[item] = batch_objects[item] + 1 /\ item' = item
              /\ batch_objects[item] \in Nat
          BY <3>1 DEF QueueObject, (+), Once, TypeInv, TypeOK, QueuesOK, MainOK
        <4> QED
          BY <4>1
      <3>2. CASE ~QueueObject
        BY <1>1, <3>2 DEF Main, AddObject, AddReference, CacheObject, CacheReference,
           Unblock, Flush, RaiseDead, Shutdown, Wait
      <3> QED
        BY <3>1, <3>2
    <2>2. ASSUME NEW o \in Obj \cap added', ~Excused'
          PROVE  \/ Outcomes(o)' = 1 \/ OnWay(o)' > 0
                 \/ pc_recv' \in {"reconnect_hungup", "readd_objects"}
      <3>1. OnWay(o)' = OnWay(o) + (IF o \in added' \ added THEN 1 ELSE 0)
        BY <1>1, OnWayMain
      <3>2. OnWay(o) \in Nat
        BY Counts DEF CountsOK
      <3>3. pc_recv' = pc_recv /\ \A x \in Obj : ~Answered(x)
        BY <1>1 DEF Main, AddObject, AddReference, QueueObject, CacheObject, CacheReference,
           Unblock, Flush, RaiseDead, Shutdown, Wait, mainFrame, Answered, RecvObjectImported,
           RecvObjectFailed, msgFrame
      <3>4. Outcomes(o)' = Outcomes(o)
        BY <1>1, <3>3, OutcomesKept DEF Next
      <3>5. ~Excused
        BY <1>1, <2>2, ExcusedStays DEF Next
      <3> QED
        BY <3>1, <3>2, <3>3, <3>4, <3>5 DEF WayInv
    <2> QED
      BY <2>1, <2>2 DEF WayInv
  <1>2. CASE Others
    <2>1. pc_main' # "cache"
      BY <1>2, OthersFrame DEF Calm, MayRun
    <2>2. added' = added
      BY <1>2, OthersFrame
    <2> QED
      BY <1>2, <2>1, <2>2, WayOthers DEF WayInv
  <1>3. CASE UNCHANGED vars
    <2>1. \A o \in Obj : UNCHANGED <<OnWay(o), Outcomes(o)>>
      BY <1>3 DEF vars, Outcomes, OnWay, InLoop, AtServer, Begun
    <2> QED
      BY <1>3, <2>1 DEF vars, WayInv, Excused
  <1> QED
    BY <1>1, <1>2, <1>3 DEF Next, Finished

\* OnWay leaves out what the server has not answered when a stream ends.
LEMMA OnWayCopied ==
    ASSUME TypeInv, NEW o \in Obj
    PROVE  /\ Copies(o) \in Nat /\ OnWay(o) <= Copies(o)
           /\ \/ pc_recv = "start" /\ unresolved.objs[o] > 0
              \/ Copies(o) = OnWay(o)
  <1>1. /\ batch_objects[o] \in Nat /\ chunk.objs[o] \in Nat /\ Queued(reqs, o) \in Nat
        /\ held # None => held.objs[o] \in Nat
        /\ unresolved.objs[o] \in Nat /\ Begun(o) \in Nat
    BY Counts DEF CountsOK
  <1> QED
    BY <1>1 DEF Copies, OnWay, InLoop, AtServer, Begun, Queued

FlightInv == TypeInv /\ OutcomeInv /\ FlowInv /\ CacheInv /\ WayInv

LEMMA FlightNext == FlightInv /\ Calm /\ [Next]_vars => FlightInv'
  BY TypeNext, OutcomeNext, FlowNext, CacheNext, WayNext DEF FlightInv

LEMMA FlightStays == ASSUME Calm PROVE Spec => []FlightInv
  <1>1. Init => FlightInv
    BY TypeInit, OutcomeInit, FlowInit, WayInit DEF FlightInv
  <1>2. FlightInv /\ [Next]_vars => FlightInv'
    BY FlightNext
  <1> QED
    BY <1>1, <1>2, PTL DEF Spec

\* NothingLost: in a calm environment every object without a result is on its way
\* or about to be queued again, whatever breaks and however often.
THEOREM LosesNothing == ASSUME Calm PROVE Spec => []NothingLost
  <1>1. FlightInv => NothingLost
    <2> SUFFICES ASSUME FlightInv, NEW o \in Obj \cap added, ~Excused
                 PROVE  \/ Outcomes(o) = 1 \/ Copies(o) > 0
                        \/ o \in objs_cache /\ pc_recv \in {"reconnect_hungup", "readd_objects"}
      BY DEF NothingLost
    <2>1. Copies(o) \in Nat /\ OnWay(o) <= Copies(o) /\ OnWay(o) \in Nat
      BY OnWayCopied, Counts DEF FlightInv, CountsOK
    <2>2. CASE OnWay(o) > 0
      BY <2>1, <2>2
    <2>3. CASE o \notin objs_cache
      <3>1. Outcomes(o) = 1 \/ (pc_main \in {"queue", "cache"} /\ item = o)
        BY <2>3 DEF FlightInv, CacheInv
      <3>2. /\ batch_objects[o] \in Nat /\ InLoop(o) \in Nat /\ Queued(reqs, o) \in Nat
            /\ AtServer(o) \in Nat /\ Begun(o) \in Nat
        BY Counts DEF FlightInv, CountsOK
      <3>3. pc_main \in {"queue", "cache"} /\ item = o => OnWay(o) > 0
        BY <3>2 DEF FlightInv, WayInv, OnWay, Begun
      <3> QED
        BY <2>1, <3>1, <3>3
    <2> QED
      BY <2>2, <2>3 DEF FlightInv, WayInv
  <1> QED
    BY <1>1, FlightStays, PTL
-----------------------------------------------------------------------------
(* While the stream never breaks, the copies are counted exactly; nothing   *)
(* unanswered is left at the server when a stream ends.                     *)

Gentle == Env \cap {"preempt", "hangup"} = {}

OnceInv ==
    Excused \/ /\ \A o \in Obj : OnWay(o) + Outcomes(o) = (IF o \in added THEN 1 ELSE 0)
               /\ pc_recv \in {"reconnect", "start"} => unresolved.objs = NoItems(Obj)

LEMMA OnceInit == Init => OnceInv
  <1> SUFFICES ASSUME Init PROVE OnceInv
    OBVIOUS
  <1>1. ASSUME NEW o \in Obj PROVE OnWay(o) + Outcomes(o) = 0
    <2>1. batch_objects[o] = 0 /\ chunk.objs[o] = 0 /\ succeeded[o] = 0 /\ failed_objects[o] = 0
      BY DEF Init, NoItems, Nothing
    <2>2. Queued(reqs, o) = 0
      BY QueuedNone DEF Init
    <2>3. held = None /\ pc_recv = "start" /\ pc_main = "ready"
      BY DEF Init
    <2> QED
      BY <2>1, <2>2, <2>3 DEF OnWay, InLoop, AtServer, Begun, Outcomes
  <1>2. added = {} /\ unresolved.objs = NoItems(Obj)
    BY DEF Init, Nothing
  <1> QED
    BY <1>1, <1>2 DEF OnceInv

LEMMA OnceOthers ==
    ASSUME FlightInv, FlightInv', OnceInv, Gentle, Others, ~Excused', NEW o \in Obj
    PROVE  OnWay(o)' + Outcomes(o)' = OnWay(o) + Outcomes(o)
  <1>1. ~Excused
    BY ExcusedStays DEF Next
  <1>2. OnWay(o) + Outcomes(o) = (IF o \in added THEN 1 ELSE 0)
    BY <1>1 DEF OnceInv
  <1>3. OnWay(o) \in Nat /\ OnWay(o)' \in Nat /\ Outcomes(o) \in Nat
    BY Counts, CountsNext DEF CountsOK, FlightInv, Outcomes, TypeInv, TypeOK, ResultsOK
  <1>4. "preempt" \notin Env /\ "hangup" \notin Env /\ MayRun /\ pc_recv \notin Hung
    BY OthersFrame DEF Gentle, FlightInv, FlowInv
  <1>5. ASSUME NEW x \in Obj, Answered(x)
        PROVE  OnWay(o)' + Outcomes(o)' = OnWay(o) + Outcomes(o)
    <2>1. /\ o # x => Outcomes(o)' = Outcomes(o)
          /\ x \in objs_cache => Outcomes(x) = 0 /\ Outcomes(x)' = 1
          /\ x \in added \ objs_cache =>
                Outcomes(x) = 1 \/ (pc_main = "queue" /\ item = x)
      BY <1>4, <1>5, AnsweredOutcome DEF FlightInv
    <2>2. /\ OnWay(o)' = IF o = x THEN OnWay(o) - 1 ELSE OnWay(o)
          /\ OnWay(x) > 0
          /\ pc_main = "queue" /\ item = x => OnWay(x) > 1
      BY <1>5, OnWayAnswered DEF FlightInv
    <2>3. CASE o # x
      BY <2>1, <2>2, <2>3
    <2>4. CASE o = x
      <3>1. o \in added /\ Outcomes(o) = 0 /\ OnWay(o) = 1
        BY <1>2, <1>3, <2>2, <2>4
      <3>2. o \in objs_cache
        BY <2>1, <2>2, <2>4, <3>1
      <3> QED
        BY <2>1, <2>2, <2>4, <3>1, <3>2
    <2> QED
      BY <2>3, <2>4
  <1>6. ASSUME \A x \in Obj : ~Answered(x)
        PROVE  OnWay(o)' + Outcomes(o)' = OnWay(o) + Outcomes(o)
    <2>1. Outcomes(o)' = Outcomes(o)
      BY <1>6, OutcomesKept DEF Next
    <2>2. CASE Loop
      BY <2>1, <2>2, OnWayLoop DEF FlightInv
    <2>3. ASSUME NEW s \in 1..MaxStreams, Sender(s)
          PROVE  OnWay(o)' + Outcomes(o)' = OnWay(o) + Outcomes(o)
      BY <1>1, <1>4, <2>1, <2>3, OnWaySender DEF Hung, FlightInv
    <2>4. CASE RecvOutOfMemory
      <3>1. /\ OnWay(o)' = (OnWay(o) - unresolved.objs[o]) + (IF o \in HandedBack THEN 1 ELSE 0)
            /\ unresolved.objs[o] <= OnWay(o) /\ unresolved.objs[o] \in Nat
            /\ pc_main = "queue" /\ item = o => unresolved.objs[o] < OnWay(o)
        BY <2>4, OnWayHandedBack DEF FlightInv
      <3>2. o \in HandedBack <=> o \in objs_cache /\ unresolved.objs[o] > 0
        BY DEF HandedBack, Support, FlightInv, TypeInv, TypeOK, ServerOK, Request
      <3>3. o \in added => o \in objs_cache \/ Outcomes(o) = 1 \/ (pc_main = "queue" /\ item = o)
        BY <1>4 DEF FlightInv, CacheInv, MayRun
      <3>4. CASE unresolved.objs[o] = 0
        BY <1>3, <2>1, <3>1, <3>2, <3>4
      <3>5. CASE unresolved.objs[o] > 0
        <4>1. o \in added /\ OnWay(o) = 1 /\ Outcomes(o) = 0 /\ unresolved.objs[o] = 1
          BY <1>2, <1>3, <3>1, <3>5
        <4>2. o \in HandedBack
          BY <3>1, <3>2, <3>3, <4>1
        <4> QED
          BY <2>1, <3>1, <4>1, <4>2
      <3> QED
        BY <3>1, <3>4, <3>5
    <2>5. CASE Message /\ ~RecvOutOfMemory
      BY <1>6, <2>1, <2>5, OnWayMessage DEF FlightInv
    <2>6. CASE Restart
      <3>1. ~RecvError
        BY FailedIsExcused DEF RecvError
      <3>2. ~RecvHangup /\ ~ReaddObjects
        BY <1>4 DEF RecvHangup, MayHappen, ReaddObjects, Hung
      <3>3. OnWay(o)' = OnWay(o) + 0
        BY <2>6, <3>1, <3>2, OnWayRestart DEF FlightInv
      <3> QED
        BY <1>3, <2>1, <3>3
    <2> QED
      BY <2>2, <2>3, <2>4, <2>5, <2>6 DEF Others, Recv, Restart
  <1> QED
    BY <1>5, <1>6

LEMMA OnceNext ==
    ASSUME FlightInv, FlightInv', OnceInv, Gentle, [Next]_vars PROVE OnceInv'
  <1> SUFFICES ASSUME ~Excused' PROVE OnceInv'
    BY DEF OnceInv
  <1>1. ~Excused
    BY ExcusedStays
  <1>2. /\ \A o \in Obj : OnWay(o) + Outcomes(o) = (IF o \in added THEN 1 ELSE 0)
        /\ pc_recv \in {"reconnect", "start"} => unresolved.objs = NoItems(Obj)
    BY <1>1 DEF OnceInv
  <1>3. ASSUME NEW o \in Obj
        PROVE  OnWay(o)' + Outcomes(o)' = (IF o \in added' THEN 1 ELSE 0)
    <2>1. CASE Main
      <3>1. OnWay(o)' = OnWay(o) + (IF o \in added' \ added THEN 1 ELSE 0)
        BY <2>1, OnWayMain DEF FlightInv
      <3>2. \A x \in Obj : ~Answered(x)
        <4>1. UNCHANGED unresolved
          BY <2>1 DEF Main, AddObject, AddReference, QueueObject, CacheObject, CacheReference,
             Unblock, Flush, RaiseDead, Shutdown, Wait, mainFrame
        <4>2. ASSUME NEW x \in Obj, Answered(x) PROVE FALSE
          <5>1. unresolved' = [unresolved EXCEPT !.objs[x] = @ - 1] /\ unresolved.objs[x] > 0
            BY <4>2 DEF Answered, RecvObjectImported, RecvObjectFailed
          <5>2. unresolved \in Request /\ unresolved.objs \in [Obj -> Nat]
                /\ unresolved.objs[x] \in Nat
            BY DEF FlightInv, TypeInv, TypeOK, ServerOK, Request
          <5>3. unresolved'.objs[x] = unresolved.objs[x] - 1
            BY <5>1, <5>2 DEF Request
          <5> QED
            BY <4>1, <5>2, <5>3
        <4> QED
          BY <4>2
      <3>3. Outcomes(o)' = Outcomes(o)
        BY <3>2, <2>1, OutcomesKept DEF Next
      <3>4. added \subseteq added'
        BY <2>1 DEF Main, AddObject, AddReference, QueueObject, CacheObject, CacheReference,
           Unblock, Flush, RaiseDead, Shutdown, Wait
      <3>5. OnWay(o) \in Nat /\ Outcomes(o) \in Nat
        BY Counts DEF CountsOK, FlightInv, Outcomes, TypeInv, TypeOK, ResultsOK
      <3> QED
        BY <1>2, <3>1, <3>3, <3>4, <3>5
    <2>2. CASE Others
      <3>1. added' = added
        BY <2>2, OthersFrame
      <3> QED
        BY <1>2, <2>2, <3>1, OnceOthers
    <2>3. CASE UNCHANGED vars
      <3>1. UNCHANGED <<OnWay(o), Outcomes(o), added>>
        BY <2>3 DEF vars, Outcomes, OnWay, InLoop, AtServer, Begun
      <3> QED
        BY <1>2, <3>1
    <2> QED
      BY <2>1, <2>2, <2>3 DEF Next, Finished
  <1>4. pc_recv' \in {"reconnect", "start"} => unresolved'.objs = NoItems(Obj)
    <2>1. CASE Main
      BY <1>2, <2>1 DEF Main, AddObject, AddReference, QueueObject, CacheObject, CacheReference,
             Unblock, Flush, RaiseDead, Shutdown, Wait, mainFrame
    <2>2. CASE Loop
      BY <1>2, <2>2 DEF Loop, LoopPopObjects, LoopPopReferences, LoopGenerate, LoopGenerated,
         LoopGate, LoopPut, LoopFinish, LoopPutSentinel, LoopExit, loopFrame
    <2>3. ASSUME NEW s \in 1..MaxStreams, Sender(s)
          PROVE  pc_recv' \in {"reconnect", "start"} => unresolved'.objs = NoItems(Obj)
      <3>1. UNCHANGED sendFrame /\ sender[s] = "open"
        BY <2>3 DEF Sender, SendRequest, SendStop, SendReturn, SendRenew
      <3>2. pc_recv \notin {"reconnect", "start"}
        BY <1>1, <3>1 DEF FlightInv, FlowInv
      <3> QED
        BY <3>1, <3>2 DEF sendFrame
    <2>4. CASE Message
      BY <2>4 DEF Message, RecvObjectImported, RecvObjectFailed, RecvAcks, RecvReferenceResult,
           RecvBackoff, RecvOutOfMemory, RecvShuttingDown, msgFrame
    <2>5. CASE Restart
      <3>1. pc_recv \notin Hung
        BY DEF Gentle, FlightInv, FlowInv
      <3>2. CASE RecvEnd
        BY <3>2 DEF RecvEnd, Nothing
      <3>3. CASE Reconnect
        BY <1>2, <3>1, <3>3 DEF Reconnect, Hung
      <3>4. CASE RecvStart
        BY <3>4 DEF RecvStart, Nothing
      <3>5. CASE RecvHangup \/ RecvError
        BY <3>5 DEF RecvHangup, RecvError
      <3>6. ~ReaddObjects /\ ~ReaddReferences
        BY <3>1 DEF ReaddObjects, ReaddReferences, Hung
      <3> QED
        BY <2>5, <3>2, <3>3, <3>4, <3>5, <3>6 DEF Restart
    <2>6. CASE UNCHANGED vars
      BY <1>2, <2>6 DEF vars
    <2> QED
      BY <2>1, <2>2, <2>3, <2>4, <2>5, <2>6 DEF Next, Others, Recv, Restart, Finished
  <1> QED
    BY <1>3, <1>4 DEF OnceInv

\* SentOnce: while the stream never breaks, an object that is added and has no
\* result is in exactly one place, until a failure that is told.
THEOREM SendsOnce == ASSUME Gentle PROVE Spec => []SentOnce
  <1>1. Calm
    BY DEF Calm, Gentle
  <1>2. FlightInv /\ OnceInv => SentOnce
    <2> SUFFICES ASSUME FlightInv, OnceInv, ~Excused, NEW o \in Obj \cap added
                 PROVE  Copies(o) + Outcomes(o) = 1
      BY DEF SentOnce
    <2>1. OnWay(o) + Outcomes(o) = 1
      BY DEF OnceInv
    <2>2. Copies(o) = OnWay(o) \/ (pc_recv = "start" /\ unresolved.objs[o] > 0)
      BY OnWayCopied DEF FlightInv
    <2>3. pc_recv = "start" => unresolved.objs[o] = 0
      BY DEF OnceInv, NoItems
    <2> QED
      BY <2>1, <2>2, <2>3
  <1>3. Init => OnceInv
    BY OnceInit
  <1>4. FlightInv /\ FlightInv' /\ OnceInv /\ [Next]_vars => OnceInv'
    BY OnceNext
  <1>5. Spec => []FlightInv
    BY <1>1, FlightStays
  <1> QED
    BY <1>2, <1>3, <1>4, <1>5, PTL DEF Spec
-----------------------------------------------------------------------------
(* What the exit of the batch waits for: the loop ends without an exception *)
(* only after the user has left, with empty queues, and nothing is queued   *)
(* after that.                                                              *)

\* The server does not fail after the user has left, and _wait has the time.
Patient == Env \cap {"late", "join_timeout"} = {}

ExitInv ==
    /\ "stopped" \in events => pc_main \in {"wait", "done"}
    /\ pc_main = "done" => pc_loop = "exited" /\ pc_recv = "exited"
    /\ pc_loop \in {"put_sentinel", "exited"} =>
          \/ Excused
          \/ /\ "stopped" \in events /\ \A o \in Obj : batch_objects[o] = 0
             /\ pc_recv \notin {"reconnect_hungup", "readd_objects"}
    /\ pc_loop = "exited" => Excused \/ reqs \subseteq {None}

LEMMA ExitInit == Init => ExitInv
  BY DEF Init, ExitInv

LEMMA ExitMain == ASSUME TypeInv, ExitInv, Patient, Main PROVE ExitInv'
  <1>1. UNCHANGED <<pc_loop, pc_recv, reqs, bg_exception>>
    BY DEF Main, AddObject, AddReference, QueueObject, CacheObject, CacheReference,
       Unblock, Flush, RaiseDead, Shutdown, Wait, mainFrame
  <1>2. Excused => Excused'
    BY ExcusedStays DEF Next
  <1>3. "stopped" \in events' => pc_main' \in {"wait", "done"}
    BY DEF Main, AddObject, AddReference, QueueObject, CacheObject, CacheReference,
       Unblock, Flush, RaiseDead, Shutdown, Wait, ExitInv
  <1>4. pc_main' = "done" => pc_loop = "exited" /\ pc_recv = "exited"
    BY DEF Main, AddObject, AddReference, QueueObject, CacheObject, CacheReference,
       Unblock, Flush, RaiseDead, Shutdown, Wait, ExitInv, Patient
  <1>5. "stopped" \in events => "stopped" \in events' /\ UNCHANGED batch_objects
    BY DEF Main, AddObject, AddReference, QueueObject, CacheObject, CacheReference,
       Unblock, Flush, RaiseDead, Shutdown, Wait, ExitInv
  <1> QED
    BY <1>1, <1>2, <1>3, <1>4, <1>5 DEF ExitInv

LEMMA ExitLoop == ASSUME TypeInv, FlowInv, ExitInv, Loop PROVE ExitInv'
  <1>1. UNCHANGED <<events, pc_main, pc_recv>> /\ pc_loop # "exited"
    BY DEF Loop, LoopPopObjects, LoopPopReferences, LoopGenerate, LoopGenerated,
       LoopGate, LoopPut, LoopFinish, LoopPutSentinel, LoopExit, loopFrame
  <1> SUFFICES ASSUME ~Excused'
                 PROVE  /\ pc_loop' \in {"put_sentinel", "exited"} =>
                             /\ "stopped" \in events /\ \A o \in Obj : batch_objects'[o] = 0
                             /\ pc_recv \notin {"reconnect_hungup", "readd_objects"}
                        /\ pc_loop' = "exited" => reqs' \subseteq {None}
    BY <1>1 DEF ExitInv
  <1>2. ~Excused
    BY ExcusedStays DEF Next, Others
  <1>3. bg_exception' \notin BgErrors
    BY FailedIsExcused
  <1>4. ~LoopExit
    BY <1>2 DEF LoopExit, Excused, FlowInv
  <1>5. CASE LoopFinish
    <2>1. /\ "stopped" \in events /\ \A o \in Obj : batch_objects[o] = 0
          /\ pc_recv \notin {"reconnect_hungup", "readd_objects"}
      BY <1>5 DEF LoopFinish, Support, Paused, FlowInv, Hung, TypeInv, TypeOK, QueuesOK
    <2> QED
      BY <1>5, <2>1 DEF LoopFinish
  <1>6. CASE LoopPutSentinel
    BY <1>2, <1>6 DEF LoopPutSentinel, QueueIsFull, ExitInv
  <1>7. CASE ~LoopFinish /\ ~LoopPutSentinel
    BY <1>3, <1>4, <1>7 DEF Loop, LoopPopObjects, LoopPopReferences, LoopGenerate, LoopGenerated,
       LoopGate, LoopPut
  <1> QED
    BY <1>5, <1>6, <1>7

LEMMA ExitRest ==
    ASSUME TypeInv, ExitInv, Patient, Message \/ Restart \/ SendAny PROVE ExitInv'
  <1>1. UNCHANGED <<pc_main, pc_loop>> /\ reqs' \subseteq reqs
    <2>1. CASE SendAny
      BY <2>1 DEF SendAny, Sender, SendRequest, SendStop, SendReturn, SendRenew, sendFrame
    <2>2. CASE Message
      BY <2>2 DEF Message, RecvObjectImported, RecvObjectFailed, RecvAcks, RecvReferenceResult,
         RecvBackoff, RecvOutOfMemory, RecvShuttingDown, msgFrame
    <2>3. CASE Restart
      BY <2>3 DEF Restart, RecvStart, RecvEnd, RecvHangup, RecvError, Reconnect,
         ReconnectWaits, ReconnectRaises, ReaddObjects, ReaddReferences, recvFrame
    <2> QED
      BY <2>1, <2>2, <2>3
  <1>2. Excused => Excused'
    BY ExcusedStays DEF Next, Others, Recv, Restart, SendAny
  <1>3. "stopped" \in events' <=> "stopped" \in events
    <2>1. CASE SendAny
      BY <2>1 DEF SendAny, Sender, SendRequest, SendStop, SendReturn, SendRenew
    <2>2. CASE Message
      BY <2>2 DEF Message, RecvObjectImported, RecvObjectFailed, RecvAcks, RecvReferenceResult,
         RecvBackoff, RecvOutOfMemory, RecvShuttingDown
    <2>3. CASE Restart
      BY <2>3 DEF Restart, RecvStart, RecvEnd, RecvHangup, RecvError, Reconnect,
         ReconnectWaits, ReconnectRaises, ReaddObjects, ReaddReferences, Cleared
    <2> QED
      BY <2>1, <2>2, <2>3
  <1>4. pc_recv = "exited" => pc_recv' = "exited"
    <2>1. CASE SendAny
      BY <2>1 DEF SendAny, Sender, SendRequest, SendStop, SendReturn, SendRenew, sendFrame
    <2>2. CASE Message
      BY <2>2 DEF Message, RecvObjectImported, RecvObjectFailed, RecvAcks, RecvReferenceResult,
         RecvBackoff, RecvOutOfMemory, RecvShuttingDown, msgFrame
    <2>3. CASE Restart
      BY <2>3 DEF Restart, RecvStart, RecvEnd, RecvHangup, RecvError, Reconnect,
         ReconnectWaits, ReconnectRaises, ReaddObjects, ReaddReferences
    <2> QED
      BY <2>1, <2>2, <2>3
  <1>5. "stopped" \in events /\ pc_recv \notin {"reconnect_hungup", "readd_objects"}
           => UNCHANGED batch_objects /\ pc_recv' \notin {"reconnect_hungup", "readd_objects"}
    <2> SUFFICES ASSUME "stopped" \in events, pc_recv \notin {"reconnect_hungup", "readd_objects"}
                 PROVE  UNCHANGED batch_objects
                        /\ pc_recv' \notin {"reconnect_hungup", "readd_objects"}
      OBVIOUS
    <2>1. CASE SendAny
      BY <2>1 DEF SendAny, Sender, SendRequest, SendStop, SendReturn, SendRenew, sendFrame
    <2>2. CASE Message
      <3>1. ~RecvOutOfMemory
        BY DEF RecvOutOfMemory, MayHappen, Patient
      <3> QED
        BY <2>2, <3>1 DEF Message, RecvObjectImported, RecvObjectFailed, RecvAcks,
           RecvReferenceResult, RecvBackoff, RecvShuttingDown, msgFrame
    <2>3. CASE Restart
      <3>1. ~RecvHangup
        BY DEF RecvHangup, MayHappen, Patient
      <3> QED
        BY <2>3, <3>1 DEF Restart, RecvStart, RecvEnd, RecvError, Reconnect,
           ReconnectWaits, ReconnectRaises, ReaddObjects, ReaddReferences
    <2> QED
      BY <2>1, <2>2, <2>3
  <1> QED
    BY <1>1, <1>2, <1>3, <1>4, <1>5 DEF ExitInv

LEMMA ExitNext == ASSUME FlightInv, ExitInv, Patient, [Next]_vars PROVE ExitInv'
  <1>1. CASE Main
    BY <1>1, ExitMain DEF FlightInv
  <1>2. CASE Loop
    BY <1>2, ExitLoop DEF FlightInv
  <1>3. CASE Message \/ Restart \/ SendAny
    BY <1>3, ExitRest DEF FlightInv
  <1>4. CASE UNCHANGED vars
    BY <1>4 DEF vars, ExitInv, Excused
  <1> QED
    BY <1>1, <1>2, <1>3, <1>4 DEF Next, Others, Recv, Restart, SendAny, Finished

\* ReportedAtExit: when the server does not fail after the user has left, a batch
\* that ends without an exception has reported every object.
THEOREM ReportsAtExit == ASSUME Calm, Patient PROVE Spec => []ReportedAtExit
  <1>1. FlightInv /\ ExitInv => ReportedAtExit
    <2> SUFFICES ASSUME FlightInv, ExitInv, pc_main = "done", ~Excused, NEW o \in Obj \cap added
                 PROVE  Outcomes(o) = 1
      BY DEF ReportedAtExit
    <2>1. /\ pc_loop = "exited" /\ pc_recv = "exited" /\ reqs \subseteq {None}
          /\ batch_objects[o] = 0
      BY DEF ExitInv
    <2>2. chunk = Nothing /\ held = None
      BY <2>1 DEF FlightInv, FlowInv
    <2>3. chunk.objs[o] = 0 /\ Queued(reqs, o) = 0
      BY <2>1, <2>2, QueuedNone DEF Nothing, NoItems
    <2>4. OnWay(o) = 0
      BY <2>1, <2>2, <2>3 DEF OnWay, InLoop, AtServer, Begun
    <2> QED
      BY <2>1, <2>4 DEF FlightInv, WayInv
  <1>2. FlightInv /\ ExitInv /\ [Next]_vars => ExitInv'
    BY ExitNext
  <1>3. Spec => []FlightInv
    BY FlightStays
  <1> QED
    BY <1>1, <1>2, <1>3, ExitInit, PTL DEF Spec
=============================================================================
