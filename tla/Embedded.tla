------------------------------ MODULE Embedded ------------------------------
(***************************************************************************)
(* The embedded server (embedded.py): a client downloads the server's      *)
(* binary, starts it as a child process, starts it again when a request    *)
(* finds that nobody listens (ensure_running in connect/v4.py), and stops  *)
(* it when the client is closed.                                           *)
(*                                                                         *)
(* Several programs with a client each share the directory of the binary   *)
(* and the host's ports; a client may be used by several threads.  What    *)
(* listens on a port is all that the code looks at, not whose process it   *)
(* is.  The server is external: it binds its ports one after another and   *)
(* exits if one is taken, it may crash, and it exits on SIGTERM.           *)
(*                                                                         *)
(* Downloads into one directory are taken not to overlap, as the code has  *)
(* one name for the archive of all of them.                                *)
(***************************************************************************)
EXTENDS Naturals, FiniteSets

CONSTANTS
    Client,          \* the embedded clients, one to a program
    Thread, Of(_),   \* threads, and the client that a thread uses
    Ports(_),        \* the ports of a client
    Wanted(_),       \* EmbeddedOptions.version of a client
    Release,         \* the versions with a number, by tag or from a GitHub URL
    Packages,        \* "tar.gz", "zip": _set_download_url_from_version_tag, by platform
    Slots,           \* bound: processes at a time
    MaxDeaths,       \* bound: servers that crash
    Env              \* what may happen to a client

EnvEvents ==
    {"offline",      \* a download fails
     "kill",         \* a program is killed, though not while its server binds its ports
     "unready",      \* a server listens and does not become ready: wait_for_weaviate
     "together",     \* starts of clients that share a port overlap
     "slow"}         \* a server needs longer than wait_till_listening waits

ASSUME EmbeddedConstantsOK ==
    /\ \A t \in Thread : Of(t) \in Client
    /\ \A c \in Client : Ports(c) # {}
    /\ Packages \subseteq {"tar.gz", "zip"} /\ Env \subseteq EnvEvents
    /\ Slots \in Nat /\ MaxDeaths \in Nat

Process == 1..Slots
None == 0
Free == [client |-> "none", version |-> "none", state |-> "none", bound |-> {}, left |-> FALSE]
Absent == [version |-> "none", state |-> "none"]

\* The name of the binary holds _parsed_weaviate_version, which is empty for other URLs.
PathWithoutVersion(version) == "weaviate-"                    \* mutant: no version in the name
PathOf(version) == IF version \in Release THEN version ELSE "weaviate-"
Path == {PathOf(Wanted(c)) : c \in Client}

VARIABLES
    package,    \* the kind of archive for this platform
    extracted,  \* the file "weaviate": its version, and whether it is whole
    binary,     \* path |-> the binary there
    server,     \* number |-> a process
    process,    \* client |-> self.process
    phase,      \* client |-> the state of the client object
    pc,         \* thread |-> the next step of start or stop
    deaths      \* how many servers have crashed

vars == <<package, extracted, binary, server, process, phase, pc, deaths>>

Init ==
    /\ package \in Packages /\ extracted = Absent /\ binary = [p \in Path |-> Absent]
    /\ server = [i \in Process |-> Free] /\ process = [c \in Client |-> None]
    /\ phase = [c \in Client |-> "new"] /\ pc = [t \in Thread |-> "idle"] /\ deaths = 0
-----------------------------------------------------------------------------
(* Ports and processes *)

Bound == UNION {server[i].bound : i \in Process}
Running(i) == server[i].state = "running"

\* is_listening: both ports can be connected to.
is_listening(c) == Ports(c) \subseteq Bound

Starting == {"check", "download", "extract", "rename", "chmod", "popen", "wait"}

\* Starts of clients that share a port overlap only with "together".
Alone(t) ==
    \A u \in Thread \ {t} :
       pc[u] \in Starting /\ Ports(Of(u)) \cap Ports(Of(t)) # {} => "together" \in Env

Goto(t, step) == pc' = [pc EXCEPT ![t] = step]
UnchangedFiles == UNCHANGED <<package, extracted, binary>>

\* A process that is dead is forgotten once no client knows it.
Reaped(servers, processes) ==
    [i \in Process |-> IF servers[i].state = "dead" /\ \A c \in Client : processes[c] # i
                      THEN Free ELSE servers[i]]
Dies(i) == server' = Reaped([server EXCEPT ![i].state = "dead", ![i].bound = {}], process)

\* The server takes one port after another, and exits when one is taken.
Bind(i) ==
    /\ Running(i)
    /\ \E p \in Ports(server[i].client) \ server[i].bound :
          IF p \in Bound THEN Dies(i) ELSE server' = [server EXCEPT ![i].bound = @ \cup {p}]
    /\ UnchangedFiles /\ UNCHANGED <<process, phase, pc, deaths>>

Crash(i) ==
    /\ Running(i) /\ deaths < MaxDeaths /\ deaths' = deaths + 1 /\ Dies(i)
    /\ UnchangedFiles /\ UNCHANGED <<process, phase, pc>>

Exit(i) ==
    /\ server[i].state = "terminated" /\ Dies(i)
    /\ UnchangedFiles /\ UNCHANGED <<process, phase, pc, deaths>>
-----------------------------------------------------------------------------
(* start *)

\* Where an exception of start leaves the caller.  The object whose constructor's
\* caller has failed is dropped, and __del__ stops; connect_to_embedded closes a
\* client that could not connect, who calls connect alone does not; a request fails.
Raised(t) ==
    LET c == Of(t)
    IN  CASE phase[c] = "new" -> Goto(t, "stop") /\ UNCHANGED phase
          [] phase[c] = "connecting" ->
                /\ phase' = [phase EXCEPT ![c] = "failed"]
                /\ Goto(t, "stop") \/ Goto(t, "idle")
          [] OTHER -> Goto(t, "idle") /\ UNCHANGED phase

Returned(t) ==
    /\ phase' = [phase EXCEPT ![Of(t)] =
                    CASE @ = "new" -> "connecting" [] @ = "connecting" -> "connected" [] OTHER -> @]
    /\ Goto(t, "idle")

\* EmbeddedV4.start: somebody listens already on one of the ports.
FreeWhatever(c) == TRUE                                       \* mutant: nothing is checked
PortsFree(c) == Ports(c) \cap Bound = {}

Check(t) ==
    /\ pc[t] = "check"
    /\ \/ ~PortsFree(Of(t)) /\ Raised(t)
       \/ /\ PortsFree(Of(t)) /\ UNCHANGED phase
          /\ Goto(t, IF binary[PathOf(Wanted(Of(t)))] = Absent THEN "download" ELSE "popen")
    /\ UnchangedFiles /\ UNCHANGED <<server, process, deaths>>

\* ensure_weaviate_binary_exists: the archive is fetched, and opened.
Download(t) ==
    /\ pc[t] = "download" /\ \A u \in Thread \ {t} : pc[u] \notin {"extract", "rename", "chmod"}
    /\ \/ "offline" \in Env /\ Raised(t) /\ UNCHANGED extracted
       \/ /\ Goto(t, "extract") /\ UNCHANGED phase
          /\ extracted' = [version |-> Wanted(Of(t)), state |-> "part"]
    /\ UNCHANGED <<package, binary, server, process, deaths>>

\* A member of a tar file comes with its mode, one of a zip file without.
Extract(t) ==
    /\ pc[t] = "extract" /\ Goto(t, "rename")
    /\ extracted' = [extracted EXCEPT !.state = IF package = "zip" THEN "locked" ELSE "whole"]
    /\ UNCHANGED <<package, binary, server, process, phase, deaths>>

Rename(t) ==
    /\ pc[t] = "rename" /\ Goto(t, "chmod")
    /\ binary' = [binary EXCEPT ![PathOf(Wanted(Of(t)))] = extracted]
    /\ extracted' = Absent
    /\ UNCHANGED <<package, server, process, phase, deaths>>

Chmod(t) ==
    /\ pc[t] = "chmod" /\ Goto(t, "popen")
    /\ binary' = [binary EXCEPT ![PathOf(Wanted(Of(t)))].state = "whole"]
    /\ UNCHANGED <<package, extracted, server, process, phase, deaths>>

\* subprocess.Popen, which raises if the file cannot be executed.
Popen(t) ==
    LET c == Of(t)
        b == binary[PathOf(Wanted(c))]
    IN  /\ pc[t] = "popen"
        /\ \/ b.state # "whole" /\ Raised(t) /\ UNCHANGED <<server, process>>
           \/ /\ b.state = "whole" /\ Goto(t, "wait") /\ UNCHANGED phase
              /\ \E i \in Process :
                    /\ server[i] = Free /\ \A j \in 1..(i - 1) : server[j] # Free
                    /\ process' = [process EXCEPT ![c] = i]
                    /\ server' = Reaped([server EXCEPT ![i] =
                          [client |-> c, version |-> b.version, state |-> "running",
                           bound |-> {}, left |-> FALSE]], process')
        /\ UnchangedFiles /\ UNCHANGED deaths

\* wait_till_listening: nothing is asked about the process itself.
Listens(t) ==
    /\ pc[t] = "wait" /\ is_listening(Of(t)) /\ Returned(t)
    /\ UnchangedFiles /\ UNCHANGED <<server, process, deaths>>

\* retries = 0, which raises even if the last look has found a listener.
TimesOut(t) ==
    /\ pc[t] = "wait" /\ Raised(t)
    /\ \/ "slow" \in Env
       \/ ~is_listening(Of(t)) /\ (process[Of(t)] # None => ~Running(process[Of(t)]))
    /\ UnchangedFiles /\ UNCHANGED <<server, process, deaths>>
-----------------------------------------------------------------------------
(* stop *)

\* process.terminate
Stop(t) ==
    LET i == process[Of(t)]
    IN  /\ pc[t] = "stop"
        /\ server' = IF i # None /\ Running(i) THEN [server EXCEPT ![i].state = "terminated"]
                     ELSE server
        /\ Goto(t, "join")
        /\ UnchangedFiles /\ UNCHANGED <<process, phase, deaths>>

\* self.process.wait and self.process = None, where another thread may have started
\* a process meanwhile, or stopped this one; the end of close.
Join(t) ==
    LET i == process[Of(t)]
    IN  /\ pc[t] = "join"
        /\ i # None => server[i].state = "dead"
        /\ process' = [process EXCEPT ![Of(t)] = None]
        /\ server' = Reaped(server, process')
        /\ phase' = [phase EXCEPT ![Of(t)] = IF @ = "new" THEN @ ELSE "closed"]
        /\ Goto(t, "idle")
        /\ UnchangedFiles /\ UNCHANGED deaths
-----------------------------------------------------------------------------
(* The client *)

\* _EmbeddedBase(options).start() in the constructor of the client.
New(t) ==
    /\ pc[t] = "idle" /\ phase[Of(t)] = "new" /\ Alone(t)
    /\ \A u \in Thread : Of(u) = Of(t) => pc[u] = "idle"
    /\ Goto(t, "check")
    /\ UnchangedFiles /\ UNCHANGED <<server, process, phase, deaths>>

\* ensure_running, before every request of connect and of a client that is connected.
RunningUnlessKnown(t) ==                                      \* mutant: a process that is known runs
    /\ pc[t] = "idle" /\ phase[Of(t)] \in {"connecting", "connected"} /\ Alone(t)
    /\ \/ (is_listening(Of(t)) \/ process[Of(t)] # None) /\ Returned(t)
       \/ ~is_listening(Of(t)) /\ process[Of(t)] = None /\ Goto(t, "check") /\ UNCHANGED phase
    /\ UnchangedFiles /\ UNCHANGED <<server, process, deaths>>
EnsureRunning(t) ==
    /\ pc[t] = "idle" /\ phase[Of(t)] \in {"connecting", "connected"} /\ Alone(t)
    /\ \/ is_listening(Of(t)) /\ Returned(t)
       \/ ~is_listening(Of(t)) /\ Goto(t, "check") /\ UNCHANGED phase
    /\ UnchangedFiles /\ UNCHANGED <<server, process, deaths>>

\* wait_for_weaviate in connect: the server listens, and is not ready in time.
NotReady(t) ==
    /\ pc[t] = "idle" /\ phase[Of(t)] = "connecting" /\ "unready" \in Env
    /\ phase' = [phase EXCEPT ![Of(t)] = "failed"] /\ Goto(t, "stop")
    /\ UnchangedFiles /\ UNCHANGED <<server, process, deaths>>

\* close, whose last step is self._connected = False: until then a request of another
\* thread finds the client connected.
CloseKeeps(t) ==                                              \* mutant: leaves the server to __del__
    /\ pc[t] = "idle" /\ phase[Of(t)] \in {"connected", "failed"}
    /\ phase' = [phase EXCEPT ![Of(t)] = "closed"] /\ UNCHANGED pc
    /\ UnchangedFiles /\ UNCHANGED <<server, process, deaths>>
Close(t) ==
    /\ pc[t] = "idle" /\ phase[Of(t)] \in {"connected", "failed"} /\ Goto(t, "stop")
    /\ UnchangedFiles /\ UNCHANGED <<server, process, phase, deaths>>

\* connect of a client that was closed, or has not connected.
Connect(t) ==
    /\ pc[t] = "idle" /\ phase[Of(t)] \in {"closed", "failed"}
    /\ phase' = [phase EXCEPT ![Of(t)] = "connecting"]
    /\ UnchangedFiles /\ UNCHANGED <<server, process, pc, deaths>>

\* The program is killed and started again; its server goes on.
Kill(c) ==
    /\ "kill" \in Env
    /\ process[c] = None \/ is_listening(c)
    /\ phase[c] # "new" \/ \E t \in Thread : Of(t) = c /\ pc[t] # "idle"
    /\ phase' = [phase EXCEPT ![c] = "new"]
    /\ pc' = [t \in Thread |-> IF Of(t) = c THEN "idle" ELSE pc[t]]
    /\ process' = [process EXCEPT ![c] = None]
    /\ server' = Reaped([i \in Process |->
          IF server[i].client = c THEN [server[i] EXCEPT !.left = TRUE] ELSE server[i]], process')
    /\ UnchangedFiles /\ UNCHANGED deaths

Starts(t) == Check(t) \/ Download(t) \/ Extract(t) \/ Rename(t) \/ Chmod(t) \/ Popen(t)
             \/ Listens(t) \/ TimesOut(t)

Next == \/ \E t \in Thread : \/ New(t) \/ EnsureRunning(t) \/ NotReady(t) \/ Close(t) \/ Connect(t)
                             \/ Starts(t) \/ Stop(t) \/ Join(t)
        \/ \E i \in Process : Bind(i) \/ Crash(i) \/ Exit(i)
        \/ \E c \in Client : Kill(c)

\* A thread that has begun goes on, requests are made again and again, a server binds
\* its ports and exits on SIGTERM.
Fairness ==
    /\ \A t \in Thread : WF_vars(Starts(t)) /\ WF_vars(Stop(t)) /\ WF_vars(Join(t))
                         /\ SF_vars(EnsureRunning(t))
    /\ \A i \in Process : WF_vars(Bind(i)) /\ WF_vars(Exit(i))

FairSpec == Init /\ [][Next]_vars /\ Fairness
-----------------------------------------------------------------------------
(* Properties *)

\* What is about to be executed is the binary of the version the client asked for,
\* and all of it, whatever downloads failed or were killed before, and whoever made
\* them.  It can be executed, unless it came in a zip file and the program that
\* extracted it was killed before the last step or, on other ports, is about to take it.
RunsWhatWasAsked ==
    \A t \in Thread : pc[t] = "popen" =>
       LET b == binary[PathOf(Wanted(Of(t)))]
       IN  /\ b.version = Wanted(Of(t))
           /\ b.state # "whole" =>
                 /\ b.state = "locked" /\ package = "zip"
                 /\ \/ "kill" \in Env
                    \/ \E u \in Thread : pc[u] = "chmod" /\ PathOf(Wanted(Of(u))) = PathOf(Wanted(Of(t)))

\* Who waits until its ports are served finds none of them taken by a process that is
\* not its own: not by the server of another client, nor by one whose program was killed.
OwnServer ==
    \A t \in Thread, i \in Process :
       pc[t] = "wait" /\ server[i].bound \cap Ports(Of(t)) # {} => i = process[Of(t)]

\* A client that is closed, or could not be made, leaves no server running.
StopsServer ==
    \A c \in Client :
       phase[c] \in {"new", "closed"} /\ (\A t \in Thread : Of(t) = c => pc[t] = "idle") =>
          \A i \in Process : Running(i) /\ server[i].client = c => server[i].left

\* Another process is on a port of the client.
OthersHold(c) ==
    \E i \in Process : server[i].bound \cap Ports(c) # {} /\ i # process[c]

\* The requests of a client whose server has died bring it back, unless another
\* process is on its ports by then.
Recovers ==
    \A c \in Client :
       phase[c] = "connected" /\ ~is_listening(c) ~>
          is_listening(c) \/ OthersHold(c) \/ phase[c] # "connected"
=============================================================================
