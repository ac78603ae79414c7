----------------------------- MODULE JobsProofs -----------------------------
(***************************************************************************)
(* What holds of Jobs for all callers and names and however often the jobs *)
(* are started.                                                            *)
(***************************************************************************)
EXTENDS Jobs, TLAPS

Unfair == Init /\ [][Next]_vars
-----------------------------------------------------------------------------
(* The inductive invariant, in parts *)

TypeInv ==
    /\ status \in [Key -> Status] /\ number \in [Key -> Nat]
    /\ pc \in [User -> {"idle", "poll", "sleep"}]
    /\ call \in [User -> [operation : Operation \cup {"none"}, name : Name \cup {"none"},
                         number : Nat]]
    /\ DOMAIN result = User

\* The status of a key is that of its latest job, and no key has too many.
StatusInv ==
    \A k \in Key : /\ number[k] <= MaxRuns[k[1]]
                   /\ status[k] \in Final => <<k, number[k], status[k]>> \in ended

\* A job that is about to be canceled was asked to be.
AskedInv == \A k \in Key : status[k] = "CANCELLING" => <<k, number[k]>> \in asked

\* A job was started for a call that waits, and one that ended since is what a call
\* that does not wait any more returned.
Reported(u) ==
    \E n \in (call[u].number + 1)..MaxRuns[call[u].operation] :
       <<KeyOf(call[u].operation, call[u].name), n, result[u]>> \in ended
WaitInv ==
    \A u \in User :
       /\ pc[u] # "idle" => call[u] # NoCall
       /\ call[u] # NoCall =>
             /\ call[u].operation \in Operation /\ call[u].name \in Name
             /\ call[u].number < number[KeyOf(call[u].operation, call[u].name)]
             /\ pc[u] = "idle" => Reported(u)

IInv == TypeInv /\ StatusInv /\ AskedInv /\ CanceledOnRequest /\ WaitInv
-----------------------------------------------------------------------------
LEMMA KeyOfKey ==
    ASSUME NEW operation \in Operation, NEW name \in Name
    PROVE  KeyOf(operation, name) \in Key /\ KeyOf(operation, name)[1] = operation
  BY ConstantsOK DEF ConstantsOK, KeyOf, Key

THEOREM InitInv == Init => IInv
  <1> SUFFICES ASSUME Init PROVE IInv
    OBVIOUS
  <1>1. TypeInv
    BY DEF Init, TypeInv, Status, NoCall
  <1>2. StatusInv
    <2> SUFFICES ASSUME NEW k \in Key
                 PROVE  number[k] <= MaxRuns[k[1]] /\ status[k] \notin Final
      BY DEF StatusInv
    <2>1. MaxRuns[k[1]] \in Nat
      BY ConstantsOK DEF ConstantsOK, Key
    <2> QED
      BY <2>1 DEF Init, Final
  <1>3. AskedInv /\ CanceledOnRequest /\ WaitInv
    BY DEF Init, AskedInv, CanceledOnRequest, WaitInv
  <1> QED
    BY <1>1, <1>2, <1>3 DEF IInv

\* The number of jobs of a key, and the ends that are known, only grow.
Grows == /\ \A k \in Key : number[k] <= number'[k]
         /\ ended \subseteq ended'

\* What the other calls wait for, or have reported, stays.
LEMMA WaitsOn ==
    ASSUME TypeInv, WaitInv, Grows, NEW u \in User,
           number' \in [Key -> Nat],
           pc'[u] # "idle" => pc[u] # "idle",
           pc'[u] = "idle" => pc[u] = "idle",
           call'[u] = call[u], result'[u] = result[u]
    PROVE  /\ pc'[u] # "idle" => call'[u] # NoCall
           /\ call'[u] # NoCall =>
                 /\ call'[u].operation \in Operation /\ call'[u].name \in Name
                 /\ call'[u].number < number'[KeyOf(call'[u].operation, call'[u].name)]
                 /\ pc'[u] = "idle" => Reported(u)'
  <1>1. pc'[u] # "idle" => call'[u] # NoCall
    BY DEF WaitInv
  <1>2. ASSUME call[u] # NoCall
        PROVE  /\ call[u].operation \in Operation /\ call[u].name \in Name
               /\ call[u].number < number'[KeyOf(call[u].operation, call[u].name)]
               /\ pc[u] = "idle" => Reported(u)
    <2>1. /\ call[u].operation \in Operation /\ call[u].name \in Name
          /\ call[u].number < number[KeyOf(call[u].operation, call[u].name)]
          /\ pc[u] = "idle" => Reported(u)
      BY <1>2 DEF WaitInv
    <2> DEFINE k == KeyOf(call[u].operation, call[u].name)
    <2>2. k \in Key
      BY <2>1, KeyOfKey
    <2>3. call[u].number \in Nat /\ number[k] \in Nat /\ number'[k] \in Nat
      BY <2>2 DEF TypeInv
    <2>4. number[k] <= number'[k]
      BY <2>2 DEF Grows
    <2> HIDE DEF k
    <2>5. call[u].number < number'[k]
      BY <2>1, <2>3, <2>4 DEF k
    <2> QED
      BY <2>1, <2>5 DEF k
  <1>3. Reported(u) => Reported(u)'
    BY DEF Reported, KeyOf, Grows
  <1> QED
    BY <1>1, <1>2, <1>3
-----------------------------------------------------------------------------
(* The steps *)

LEMMA StepEnd == IInv /\ (\E k \in Key : End(k)) => IInv'
  <1> SUFFICES ASSUME IInv, NEW k \in Key, End(k) PROVE IInv'
    OBVIOUS
  <1>1. PICK s \in Final :
           /\ s = "CANCELED" => status[k] = "CANCELLING"
           /\ status' = [status EXCEPT ![k] = s]
           /\ ended' = ended \cup {<<k, number[k], s>>}
    BY DEF End
  <1>2. UNCHANGED <<number, asked, pc, call, result>>
    BY DEF End
  <1>3. TypeInv'
    BY <1>1, <1>2 DEF IInv, TypeInv, Status
  <1>4. \A j \in Key : status'[j] = IF j = k THEN s ELSE status[j]
    BY <1>1 DEF IInv, TypeInv
  <1>5. StatusInv' /\ AskedInv'
    <2>1. /\ s \in Final /\ s # "CANCELLING"
          /\ <<k, number[k], s>> \in ended' /\ ended \subseteq ended'
      BY <1>1 DEF Final
    <2>2. ASSUME NEW j \in Key
          PROVE  /\ number'[j] <= MaxRuns[j[1]]
                 /\ status'[j] \in Final => <<j, number'[j], status'[j]>> \in ended'
                 /\ status'[j] = "CANCELLING" => <<j, number'[j]>> \in asked'
      BY <1>2, <1>4, <2>1 DEF IInv, StatusInv, AskedInv
    <2> QED
      BY <2>2 DEF StatusInv, AskedInv
  <1>6. CanceledOnRequest'
    <2> SUFFICES ASSUME NEW e \in ended', e[3] = "CANCELED"
                 PROVE  <<e[1], e[2]>> \in asked
      BY <1>2 DEF CanceledOnRequest
    <2>1. CASE e \in ended
      BY <2>1 DEF IInv, CanceledOnRequest
    <2>2. CASE e = <<k, number[k], s>>
      BY <1>1, <2>2 DEF IInv, AskedInv
    <2> QED
      BY <1>1, <2>1, <2>2
  <1>7. WaitInv'
    <2>1. Grows /\ number' \in [Key -> Nat]
      BY <1>1, <1>2 DEF Grows, IInv, TypeInv
    <2> QED
      BY <1>2, <2>1, WaitsOn DEF IInv, WaitInv
  <1> QED
    BY <1>3, <1>5, <1>6, <1>7 DEF IInv

LEMMA StepPost == IInv /\ (\E u \in User : Post(u)) => IInv'
  <1> SUFFICES ASSUME IInv, NEW u \in User, Post(u) PROVE IInv'
    OBVIOUS
  <1>1. PICK operation \in Operation, name \in Name :
          LET k == KeyOf(operation, name)
          IN  \/ /\ Accepts(k) /\ Start(k)
                 /\ \/ /\ pc' = [pc EXCEPT ![u] = "poll"]
                       /\ call' = [call EXCEPT ![u] = [operation |-> operation, name |-> name,
                                                       number |-> number[k]]]
                       /\ UNCHANGED result
                    \/ Returned(u, "STARTED") /\ Forget(u)
                    \/ Returned(u, "error") /\ Forget(u)
              \/ /\ ~Accepts(k) /\ Returned(u, "error") /\ Forget(u)
                 /\ UNCHANGED <<status, number>>
    BY DEF Post
  <1>2. UNCHANGED <<ended, asked>>
    BY DEF Post
  <1> DEFINE k == KeyOf(operation, name)
  <1>3. k \in Key /\ k[1] = operation
    BY KeyOfKey
  <1> DEFINE c == [operation |-> operation, name |-> name, number |-> number[k]]
  <1>4. \/ /\ Accepts(k) /\ status' = [status EXCEPT ![k] = "STARTED"]
           /\ number' = [number EXCEPT ![k] = number[k] + 1]
        \/ UNCHANGED <<status, number>>
    BY <1>1 DEF Start
  <1>5. \/ /\ Accepts(k) /\ Start(k)
           /\ pc' = [pc EXCEPT ![u] = "poll"] /\ call' = [call EXCEPT ![u] = c]
           /\ result' = result
        \/ /\ pc' = [pc EXCEPT ![u] = "idle"] /\ call' = [call EXCEPT ![u] = NoCall]
           /\ \E r : result' = [result EXCEPT ![u] = r]
    BY <1>1 DEF Returned, Forget
  <1>6. TypeInv'
    <2> USE DEF IInv, TypeInv
    <2>1. status' \in [Key -> Status]
      BY <1>4 DEF Status
    <2>2. number' \in [Key -> Nat]
      BY <1>3, <1>4
    <2>3. pc' \in [User -> {"idle", "poll", "sleep"}] /\ DOMAIN result' = User
      BY <1>5
    <2>4. {c, NoCall} \subseteq [operation : Operation \cup {"none"}, name : Name \cup {"none"},
                                number : Nat]
      BY <1>3 DEF NoCall
    <2> HIDE DEF c
    <2>5. call' \in [User -> [operation : Operation \cup {"none"}, name : Name \cup {"none"},
                              number : Nat]]
      BY <1>5, <2>4
    <2> QED
      BY <2>1, <2>2, <2>3, <2>5
  <1> HIDE DEF k
  <1>7. StatusInv' /\ AskedInv'
    <2>1. CASE UNCHANGED <<status, number>>
      BY <2>1, <1>2 DEF IInv, StatusInv, AskedInv
    <2>2. CASE /\ Accepts(k) /\ status' = [status EXCEPT ![k] = "STARTED"]
               /\ number' = [number EXCEPT ![k] = number[k] + 1]
      <3>1. number[k] < MaxRuns[k[1]] /\ number[k] \in Nat /\ MaxRuns[k[1]] \in Nat
        BY <2>2, <1>3, ConstantsOK DEF Accepts, IInv, TypeInv, ConstantsOK
      <3>2. /\ number'[k] = number[k] + 1 /\ status'[k] = "STARTED"
            /\ \A j \in Key \ {k} : number'[j] = number[j] /\ status'[j] = status[j]
        BY <2>2, <1>3 DEF IInv, TypeInv
      <3> QED
        BY <1>2, <3>1, <3>2 DEF IInv, StatusInv, AskedInv, Final
    <2> QED
      BY <1>4, <2>1, <2>2
  <1>8. Grows /\ number' \in [Key -> Nat]
    <2>1. \A j \in Key : number[j] \in Nat
      BY DEF IInv, TypeInv
    <2> QED
      BY <1>2, <1>3, <1>4, <1>6, <2>1 DEF Grows, IInv, TypeInv
  <1>9. WaitInv'
    <2>1. ASSUME NEW v \in User, v # u
          PROVE  pc'[v] = pc[v] /\ call'[v] = call[v] /\ result'[v] = result[v]
      BY <1>5, <2>1 DEF IInv, TypeInv
    <2>2. \/ pc'[u] = "idle" /\ call'[u] = NoCall
          \/ /\ pc'[u] = "poll" /\ call'[u] = c
             /\ number'[k] = number[k] + 1 /\ number[k] \in Nat
      BY <1>3, <1>5 DEF IInv, TypeInv, Start
    <2>3. ASSUME call'[u] = c
          PROVE  /\ call'[u].operation \in Operation /\ call'[u].name \in Name
                 /\ KeyOf(call'[u].operation, call'[u].name) = k
                 /\ call'[u].number = number[k] /\ call'[u] # NoCall
      BY <2>3 DEF k, NoCall, Operation
    <2> HIDE DEF c
    <2> QED
      BY <1>8, <2>1, <2>2, <2>3, WaitsOn DEF IInv, WaitInv
  <1> QED
    BY <1>2, <1>6, <1>7, <1>9 DEF IInv, CanceledOnRequest

LEMMA StepPoll == IInv /\ (\E u \in User : Poll(u) \/ Sleep(u)) => IInv'
  <1> SUFFICES ASSUME IInv, NEW u \in User, Poll(u) \/ Sleep(u) PROVE IInv'
    OBVIOUS
  <1>1. UNCHANGED <<serverVars, asked>> /\ pc[u] # "idle"
    BY DEF Poll, Sleep
  <1>2. StatusInv' /\ AskedInv' /\ CanceledOnRequest'
    BY <1>1 DEF IInv, StatusInv, AskedInv, CanceledOnRequest, serverVars
  <1> DEFINE k == StatusPath(call[u].operation, call[u].name)
  <1>3. \/ /\ pc' = [pc EXCEPT ![u] = "idle"] /\ call' = [call EXCEPT ![u] = NoCall]
           /\ \E r : result' = [result EXCEPT ![u] = r]
        \/ /\ status[k] \in Final /\ call' = call
           /\ pc' = [pc EXCEPT ![u] = "idle"] /\ result' = [result EXCEPT ![u] = status[k]]
        \/ /\ \E q \in {"poll", "sleep"} : pc' = [pc EXCEPT ![u] = q]
           /\ UNCHANGED <<call, result>>
    <2>1. CASE Sleep(u)
      BY <2>1 DEF Sleep
    <2>2. CASE Poll(u)
      <3>1. CASE Returned(u, "error") /\ Forget(u)
        BY <3>1 DEF Returned, Forget
      <3>2. CASE OnStatus(u, status[k]) /\ UNCHANGED call
        <4>1. CASE status[k] \in Final
          BY <3>2, <4>1 DEF OnStatus, Returned, Final
        <4>2. CASE status[k] \notin Final
          BY <3>2, <4>2 DEF OnStatus, Final
        <4> QED
          BY <4>1, <4>2
      <3> QED
        BY <2>2, <3>1, <3>2 DEF Poll
    <2> QED
      BY <2>1, <2>2
  <1>4. TypeInv'
    <2> USE DEF IInv, TypeInv
    <2>1. pc' \in [User -> {"idle", "poll", "sleep"}] /\ DOMAIN result' = User
      BY <1>3
    <2>2. call' \in [User -> [operation : Operation \cup {"none"}, name : Name \cup {"none"},
                              number : Nat]]
      BY <1>3 DEF NoCall
    <2> QED
      BY <1>1, <2>1, <2>2 DEF serverVars
  <1>5. Grows /\ number' \in [Key -> Nat]
    BY <1>1 DEF Grows, serverVars, IInv, TypeInv
  <1>6. WaitInv'
    <2>1. ASSUME NEW v \in User, v # u
          PROVE  pc'[v] = pc[v] /\ call'[v] = call[v] /\ result'[v] = result[v]
      BY <1>3, <2>1 DEF IInv, TypeInv
    <2>2. /\ call[u] # NoCall
          /\ call[u].operation \in Operation /\ call[u].name \in Name
          /\ call[u].number \in Nat /\ call[u].number < number[k]
      BY <1>1 DEF IInv, TypeInv, WaitInv, StatusPath, KeyOf
    <2>3. k \in Key /\ k = KeyOf(call[u].operation, call[u].name) /\ k[1] = call[u].operation
      BY <2>2, KeyOfKey DEF StatusPath, KeyOf
    <2>4. number[k] \in (call[u].number + 1)..MaxRuns[call[u].operation]
      <3>1. MaxRuns[call[u].operation] \in Nat
        BY <2>2, ConstantsOK DEF ConstantsOK
      <3>2. number[k] \in Nat /\ number[k] <= MaxRuns[call[u].operation]
        BY <2>3 DEF IInv, TypeInv, StatusInv
      <3> QED
        BY <2>2, <3>1, <3>2
    <2>5. status[k] \in Final => <<k, number[k], status[k]>> \in ended
      BY <2>3 DEF IInv, StatusInv
    <2> HIDE DEF k
    <2>6. \/ pc'[u] = "idle" /\ call'[u] = NoCall
          \/ /\ pc'[u] = "idle" /\ call'[u] = call[u]
             /\ <<k, number[k], result'[u]>> \in ended
          \/ pc'[u] # "idle" /\ call'[u] = call[u] /\ result'[u] = result[u]
      BY <1>3, <2>5 DEF IInv, TypeInv
    <2>7. UNCHANGED <<number, ended>>
      BY <1>1 DEF serverVars
    <2>8. CASE pc'[u] = "idle" /\ call'[u] = call[u] /\ <<k, number[k], result'[u]>> \in ended
      <3>1. Reported(u)'
        BY <2>3, <2>4, <2>7, <2>8 DEF Reported, KeyOf
      <3>2. call'[u].number < number'[KeyOf(call'[u].operation, call'[u].name)]
        BY <2>2, <2>3, <2>7, <2>8
      <3> QED
        BY <1>5, <2>1, <2>2, <2>8, <3>1, <3>2, WaitsOn DEF IInv, WaitInv
    <2>9. CASE pc'[u] = "idle" /\ call'[u] = NoCall
      BY <1>5, <2>1, <2>9, WaitsOn DEF IInv, WaitInv
    <2>10. CASE pc'[u] # "idle" /\ call'[u] = call[u] /\ result'[u] = result[u]
      BY <1>1, <1>5, <2>1, <2>10, WaitsOn DEF IInv, WaitInv
    <2> QED
      BY <2>6, <2>8, <2>9, <2>10
  <1> QED
    BY <1>2, <1>4, <1>6 DEF IInv

LEMMA StepCancel == IInv /\ (\E u \in User : Cancel(u)) => IInv'
  <1> SUFFICES ASSUME IInv, NEW u \in User, Cancel(u) PROVE IInv'
    OBVIOUS
  <1>1. PICK operation \in Operation, name \in Name :
          LET k == CancelPath(operation, name)
              want == KeyOf(operation, name)
          IN  /\ asked' = IF Running(want) THEN asked \cup {<<want, number[want]>>} ELSE asked
              /\ \/ /\ status[k] = "STARTED" /\ status' = [status EXCEPT ![k] = "CANCELLING"]
                    /\ Returned(u, "True")
                 \/ /\ status[k] # "STARTED" /\ UNCHANGED status
                    /\ \E answer \in {"False", "error"} : Returned(u, answer)
    BY DEF Cancel
  <1>2. call' = [call EXCEPT ![u] = NoCall] /\ UNCHANGED <<number, ended>>
    BY DEF Cancel, Forget
  <1> DEFINE k == KeyOf(operation, name)
  <1>3. k \in Key /\ CancelPath(operation, name) = k
    BY KeyOfKey DEF CancelPath, KeyOf
  <1>4. /\ asked \subseteq asked'
        /\ \/ /\ status' = [status EXCEPT ![k] = "CANCELLING"] /\ status[k] = "STARTED"
              /\ <<k, number[k]>> \in asked'
           \/ status' = status
        /\ \E r : Returned(u, r)
    BY <1>1, <1>3 DEF Running
  <1> HIDE DEF k
  <1>5. TypeInv'
    <2> USE DEF IInv, TypeInv
    <2>1. status' \in [Key -> Status]
      BY <1>4 DEF Status
    <2>2. pc' \in [User -> {"idle", "poll", "sleep"}] /\ DOMAIN result' = User
      BY <1>4 DEF Returned
    <2>3. call' \in [User -> [operation : Operation \cup {"none"}, name : Name \cup {"none"},
                              number : Nat]]
      BY <1>2 DEF NoCall
    <2> QED
      BY <1>2, <2>1, <2>2, <2>3
  <1>6. StatusInv' /\ AskedInv' /\ CanceledOnRequest'
    <2>1. \A j \in Key : \/ status'[j] = status[j]
                         \/ j = k /\ status'[j] = "CANCELLING" /\ <<k, number[k]>> \in asked'
      BY <1>3, <1>4 DEF IInv, TypeInv
    <2>2. StatusInv'
      BY <1>2, <2>1 DEF IInv, StatusInv, Final
    <2>3. AskedInv'
      BY <1>2, <1>4, <2>1 DEF IInv, AskedInv
    <2> QED
      BY <1>2, <1>4, <2>2, <2>3 DEF IInv, CanceledOnRequest
  <1>7. WaitInv'
    <2>1. Grows /\ number' \in [Key -> Nat]
      BY <1>2 DEF Grows, IInv, TypeInv
    <2>2. ASSUME NEW v \in User, v # u
          PROVE  pc'[v] = pc[v] /\ call'[v] = call[v] /\ result'[v] = result[v]
      BY <1>2, <1>4, <2>2 DEF IInv, TypeInv, Returned
    <2>3. pc'[u] = "idle" /\ call'[u] = NoCall
      BY <1>2, <1>4 DEF IInv, TypeInv, Returned
    <2> QED
      BY <2>1, <2>2, <2>3, WaitsOn DEF IInv, WaitInv
  <1> QED
    BY <1>5, <1>6, <1>7 DEF IInv

THEOREM NextInv == IInv /\ [Next]_vars => IInv'
  <1>1. IInv /\ UNCHANGED vars => IInv'
    BY DEF vars, serverVars, IInv, TypeInv, StatusInv, AskedInv, CanceledOnRequest, WaitInv,
           Reported
  <1> QED
    BY <1>1, StepEnd, StepPost, StepPoll, StepCancel DEF Next

THEOREM Inductive == Unfair => []IInv
  BY InitInv, NextInv, PTL DEF Unfair
-----------------------------------------------------------------------------
\* create, restore and cancel build their paths from one operation and one name: a job
\* ends as canceled only if somebody has asked to cancel that very job.
THEOREM OnRequest == FairSpec => []CanceledOnRequest
  <1>1. IInv => CanceledOnRequest
    BY DEF IInv
  <1> QED
    BY <1>1, Inductive, PTL DEF FairSpec, Unfair

\* The loop of wait_for_completion: what it returns or raises is how a job of its name
\* and operation ended that was started by the call or later, whoever starts and
\* cancels jobs of the same name meanwhile.
THEOREM Honest == FairSpec => []Truthful
  <1>1. IInv => Truthful
    BY DEF IInv, WaitInv, Truthful, Reported
  <1> QED
    BY <1>1, Inductive, PTL DEF FairSpec, Unfair
=============================================================================
