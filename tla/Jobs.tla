-------------------------------- MODULE Jobs --------------------------------
(***************************************************************************)
(* Backups, restores and exports: calls that start a job on the server     *)
(* and, with wait_for_completion, poll its status until it has ended       *)
(* (backup/executor.py, export/executor.py; collections/backups/executor.py*)
(* passes its calls on).  Other threads or clients start and cancel jobs   *)
(* meanwhile, under names that may differ in case only.                    *)
(*                                                                         *)
(* A job is known by its operation and the lower-case name.  The server is *)
(* external: it runs one job of a key at a time, may be asked to run it    *)
(* again once it has ended (a restore always, a backup or an export unless *)
(* it succeeded), and an answer may be lost on the way back.  The checks   *)
(* of arguments and of the server's version, which raise before anything   *)
(* is sent, are left out.                                                  *)
(***************************************************************************)
EXTENDS Naturals, FiniteSets

CONSTANTS
    User,      \* the threads that call
    Name,      \* the names they give
    Id,        \* names in lower case
    Lower(_),  \* name |-> the name in lower case
    MaxRuns    \* bound: operation |-> how often a job of one key is started

Operation == {"create", "restore", "export"}
Key == Operation \X Id

ASSUME ConstantsOK == MaxRuns \in [Operation -> Nat] /\ \A n \in Name : Lower(n) \in Id

\* STARTED stands for all that follow it before the end: TRANSFERRING,
\* TRANSFERRED, FINALIZING; CANCELLING for a job that is about to be canceled.
Final  == {"SUCCESS", "FAILED", "CANCELED"}
Status == {"none", "STARTED", "CANCELLING"} \cup Final

NoCall == [operation |-> "none", name |-> "none", number |-> 0]

VARIABLES
    status,     \* key |-> the status of its latest job
    number,     \* key |-> how many jobs it has had
    ended,      \* how they ended: a set of <<key, number, status>>
    asked,      \* the running jobs that somebody asked to cancel: a set of <<key, number>>
    pc,         \* user |-> where the call is
    call,       \* user |-> the latest call that waited, and the number of jobs before it
    result      \* user |-> what the latest call returned or raised

serverVars == <<status, number, ended>>
vars == <<serverVars, asked, pc, call, result>>

Init ==
    /\ status = [k \in Key |-> "none"] /\ number = [k \in Key |-> 0]
    /\ ended = {} /\ asked = {}
    /\ pc = [u \in User |-> "idle"] /\ call = [u \in User |-> NoCall]
    /\ result = [u \in User |-> "none"]
-----------------------------------------------------------------------------
(* The server *)

Running(k) == status[k] \in {"STARTED", "CANCELLING"}

\* Whether it starts a job of this key.  A backup or an export that succeeded stays,
\* and only such a backup can be restored.
Accepts(k) ==
    /\ ~Running(k) /\ number[k] < MaxRuns[k[1]]
    /\ k[1] # "restore" => status[k] # "SUCCESS"
    /\ k[1] = "restore" => status[<<"create", k[2]>>] = "SUCCESS"

Start(k) ==
    /\ status' = [status EXCEPT ![k] = "STARTED"]
    /\ number' = [number EXCEPT ![k] = @ + 1]

\* A job ends; one that is being cancelled may still succeed or fail first.
End(k) ==
    /\ Running(k)
    /\ \E s \in Final :
          /\ s = "CANCELED" => status[k] = "CANCELLING"
          /\ status' = [status EXCEPT ![k] = s]
          /\ ended' = ended \cup {<<k, number[k], s>>}
    /\ UNCHANGED <<number, asked, pc, call, result>>
-----------------------------------------------------------------------------
(* The client *)

\* The job a call of this operation is about.
KeyOf(operation, name) == <<operation, Lower(name)>>

\* /backups/<backend>/<id>, /backups/<backend>/<id>/restore, /export/<backend>/<id>
\* of get_create_status, get_restore_status and get_status.
StatusPathOfCreate(operation, name) ==                       \* mutant: of another operation
    IF operation = "restore" THEN <<"create", Lower(name)>> ELSE <<operation, Lower(name)>>
StatusPath(operation, name) == <<operation, Lower(name)>>

Returned(u, value) ==
    /\ result' = [result EXCEPT ![u] = value]
    /\ pc' = [pc EXCEPT ![u] = "idle"]

\* It waits no more for anything it should report.
Forget(u) == call' = [call EXCEPT ![u] = NoCall]

\* create, restore: the POST.  An accepted one is answered, or the answer is lost.
Post(u) ==
    /\ pc[u] = "idle"
    /\ \E operation \in Operation, name \in Name :
          LET k == KeyOf(operation, name)
          IN  \/ /\ Accepts(k) /\ Start(k)
                 /\ \/ /\ pc' = [pc EXCEPT ![u] = "poll"]           \* wait_for_completion
                       /\ call' = [call EXCEPT ![u] = [operation |-> operation, name |-> name,
                                                       number |-> number[k]]]
                       /\ UNCHANGED result
                    \/ Returned(u, "STARTED") /\ Forget(u)
                    \/ Returned(u, "error") /\ Forget(u)
              \/ /\ ~Accepts(k) /\ Returned(u, "error") /\ Forget(u)
                 /\ UNCHANGED <<status, number>>
    /\ UNCHANGED <<ended, asked>>

\* Where a status leaves the waiting call.
OnStatusOfTwo(u, s) ==                                        \* mutant: forgets CANCELED
    IF s \in {"SUCCESS", "FAILED"} THEN Returned(u, s)
    ELSE pc' = [pc EXCEPT ![u] = "sleep"] /\ UNCHANGED result
OnStatus(u, s) ==
    CASE s = "SUCCESS"  -> Returned(u, "SUCCESS")          \* break, and return
      [] s = "FAILED"   -> Returned(u, "FAILED")           \* BackupFailedException
      [] s = "CANCELED" -> Returned(u, "CANCELED")         \* BackupCanceledError
      [] OTHER          -> pc' = [pc EXCEPT ![u] = "sleep"] /\ UNCHANGED result

\* One turn of the loop.  An error of the request is not caught.
Poll(u) ==
    /\ pc[u] = "poll"
    /\ \/ /\ OnStatus(u, status[StatusPath(call[u].operation, call[u].name)])
          /\ UNCHANGED call
       \/ Returned(u, "error") /\ Forget(u)
    /\ UNCHANGED <<serverVars, asked>>

Sleep(u) ==
    /\ pc[u] = "sleep" /\ pc' = [pc EXCEPT ![u] = "poll"]
    /\ UNCHANGED <<serverVars, asked, call, result>>

\* cancel, whose operation is "create" by default.
CancelPathDefault(operation, name) ==                        \* mutant: no /restore
    IF operation = "restore" THEN <<"create", Lower(name)>> ELSE <<operation, Lower(name)>>
CancelPath(operation, name) == <<operation, Lower(name)>>

\* 204: True.  Otherwise False (404 of a backup, 409 of an export), or an error.
Cancel(u) ==
    /\ pc[u] = "idle"
    /\ \E operation \in Operation, name \in Name :
          LET k    == CancelPath(operation, name)
              want == KeyOf(operation, name)
          IN  /\ asked' = IF Running(want) THEN asked \cup {<<want, number[want]>>} ELSE asked
              /\ \/ /\ status[k] = "STARTED" /\ status' = [status EXCEPT ![k] = "CANCELLING"]
                    /\ Returned(u, "True")
                 \/ /\ status[k] # "STARTED" /\ UNCHANGED status
                    /\ \E answer \in {"False", "error"} : Returned(u, answer)
    /\ Forget(u)
    /\ UNCHANGED <<number, ended>>

Next == \/ \E k \in Key : End(k)
        \/ \E u \in User : Post(u) \/ Poll(u) \/ Sleep(u) \/ Cancel(u)

\* A thread that waits goes on, and the server ends every job it has started.
Fairness == /\ \A u \in User : WF_vars(Poll(u)) /\ WF_vars(Sleep(u))
            /\ \A k \in Key : WF_vars(End(k))

FairSpec == Init /\ [][Next]_vars /\ Fairness
-----------------------------------------------------------------------------
(* Properties *)

\* A call that waited reports how a job ended that ran under its name and operation
\* since the call was made, its own or, if that had ended before the next poll, a
\* later one: never the status of an earlier job, nor of another operation's.  And
\* it does not return before the end.
Truthful ==
    \A u \in User :
       call[u] # NoCall /\ pc[u] = "idle" =>
          \E n \in (call[u].number + 1)..MaxRuns[call[u].operation] :
             <<KeyOf(call[u].operation, call[u].name), n, result[u]>> \in ended

\* A job is canceled only if somebody has asked for that one, not for another
\* operation or an earlier job of the same name.
CanceledOnRequest ==
    \A e \in ended : e[3] = "CANCELED" => <<e[1], e[2]>> \in asked

\* A waiting call ends: whatever the job's end is, the loop knows it.
WaitingEnds == \A u \in User : pc[u] = "poll" ~> pc[u] = "idle"
=============================================================================
