--------------------------- MODULE EmbeddedProofs ---------------------------
(***************************************************************************)
(* What holds of Embedded for any number of programs, threads, ports and   *)
(* processes, and whichever archive a platform has.                        *)
(***************************************************************************)
EXTENDS Embedded, TLAPS

Unfair == Init /\ [][Next]_vars

Extracting == {"extract", "rename", "chmod"}
Decided == {"download", "extract", "rename", "chmod", "popen"}
Step == Starting \cup {"idle", "stop", "join"}
Version == {Wanted(c) : c \in Client} \cup {"none"}
Binary == [version : Version, state : {"none", "part", "locked", "whole"}]
Server == [client : Client \cup {"none"}, version : Version,
           state : {"none", "running", "terminated", "dead"},
           bound : SUBSET UNION {Ports(c) : c \in Client}, left : BOOLEAN]
Phase == {"new", "connecting", "connected", "failed", "closed"}

Typed ==
    /\ package \in {"tar.gz", "zip"} /\ extracted \in Binary /\ binary \in [Path -> Binary]
    /\ server \in [Process -> Server] /\ process \in [Client -> Process \cup {None}]
    /\ phase \in [Client -> Phase] /\ pc \in [Thread -> Step]

\* A process that runs is somebody's, and takes no ports but those of its client.
Owned ==
    \A i \in Process : Running(i) =>
       server[i].client \in Client /\ server[i].bound \subseteq Ports(server[i].client)

TypeInv == Typed /\ Owned
-----------------------------------------------------------------------------
(* Operators *)

LEMMA Constants ==
    /\ \A t \in Thread : Of(t) \in Client /\ PathOf(Wanted(Of(t))) \in Path
    /\ \A c \in Client : Ports(c) # {} /\ Wanted(c) \in Version /\ PathOf(Wanted(c)) \in Path
    /\ Absent \in Binary /\ Free \in Server /\ None \notin Process
  <1>1. \A c \in Client : Ports(c) # {} /\ Wanted(c) \in Version /\ PathOf(Wanted(c)) \in Path
    BY EmbeddedConstantsOK DEF Version, Path
  <1>2. \A t \in Thread : Of(t) \in Client
    BY EmbeddedConstantsOK
  <1>3. Absent \in Binary
    BY DEF Absent, Binary, Version
  <1>4. Free \in Server
    BY DEF Free, Server, Version
  <1>5. None \notin Process
    BY EmbeddedConstantsOK DEF None, Process
  <1> QED
    BY <1>1, <1>2, <1>3, <1>4, <1>5

LEMMA ReapedIs ==
    ASSUME NEW servers \in [Process -> Server], NEW processes
    PROVE  /\ Reaped(servers, processes) \in [Process -> Server]
           /\ \A i \in Process :
                 \/ Reaped(servers, processes)[i] = servers[i]
                 \/ Reaped(servers, processes)[i] = Free /\ servers[i].state = "dead"
  BY Constants DEF Reaped

LEMMA RaisedDoes ==
    ASSUME Typed, NEW t \in Thread, Raised(t)
    PROVE  \E step \in {"idle", "stop"} :
              /\ pc' = [pc EXCEPT ![t] = step]
              /\ \/ phase' = phase /\ (phase[Of(t)] = "new" => step = "stop")
                 \/ /\ phase[Of(t)] = "connecting"
                    /\ phase' = [phase EXCEPT ![Of(t)] = "failed"]
  <1>1. CASE phase[Of(t)] = "new"
    BY <1>1 DEF Raised, Goto
  <1>2. CASE phase[Of(t)] = "connecting"
    BY <1>2 DEF Raised, Goto
  <1>3. CASE phase[Of(t)] \notin {"new", "connecting"}
    BY <1>3 DEF Raised, Goto
  <1> QED
    BY <1>1, <1>2, <1>3

LEMMA ReturnedDoes ==
    ASSUME Typed, NEW t \in Thread, Returned(t)
    PROVE  /\ pc' = [pc EXCEPT ![t] = "idle"]
           /\ phase' \in [Client -> Phase]
           /\ \A c \in Client \ {Of(t)} : phase'[c] = phase[c]
           /\ phase[Of(t)] \in {"new", "connecting", "connected"} =>
                 phase'[Of(t)] \in {"connecting", "connected"}
           /\ phase[Of(t)] \in {"failed", "closed"} => phase'[Of(t)] = phase[Of(t)]
  <1>1. Of(t) \in Client
    BY Constants
  <1>2. PICK p \in Phase : /\ phase' = [phase EXCEPT ![Of(t)] = p]
                           /\ p = CASE phase[Of(t)] = "new" -> "connecting"
                                    [] phase[Of(t)] = "connecting" -> "connected"
                                    [] OTHER -> phase[Of(t)]
    BY <1>1 DEF Returned, Typed, Phase
  <1> QED
    BY <1>1, <1>2 DEF Returned, Goto, Typed, Phase

\* What Dies leaves of a process and of the others.
LEMMA DiesDoes ==
    ASSUME Typed, NEW i \in Process, Dies(i)
    PROVE  /\ server' \in [Process -> Server]
           /\ server'[i].bound = {} /\ server'[i].state \in {"dead", "none"}
           /\ \A j \in Process \ {i} : \/ server'[j] = server[j]
                                       \/ server'[j] = Free /\ server[j].state = "dead"
  <1> DEFINE died == [server[i] EXCEPT !.state = "dead", !.bound = {}]
             servers == [server EXCEPT ![i] = died]
  <1>1. server[i] \in Server
    BY DEF Typed
  <1>2. died \in Server /\ died.state = "dead" /\ died.bound = {}
    BY <1>1 DEF Server
  <1>3. server' = Reaped(servers, process)
    <2>1. [server EXCEPT ![i].state = "dead", ![i].bound = {}] = servers
      BY DEF Typed
    <2> QED
      BY <2>1 DEF Dies
  <1> HIDE DEF died
  <1>4. servers \in [Process -> Server] /\ servers[i] = died
        /\ \A j \in Process \ {i} : servers[j] = server[j]
    BY <1>2 DEF Typed
  <1> HIDE DEF servers
  <1> QED
    BY <1>2, <1>3, <1>4, ReapedIs DEF Free

LEMMA BindDoes ==
    ASSUME Typed, NEW i \in Process, Bind(i), ~Dies(i)
    PROVE  \E p \in Ports(server[i].client) \ server[i].bound :
              /\ p \notin Bound
              /\ server' = [server EXCEPT ![i].bound = @ \cup {p}]
  BY DEF Bind

\* The start of a process: its number was free, and what dies has no number any more.
LEMMA PopenDoes ==
    ASSUME Typed, NEW t \in Thread, Popen(t), ~(Raised(t) /\ UNCHANGED <<server, process>>)
    PROVE  \E i \in Process :
              /\ server[i] = Free
              /\ pc' = [pc EXCEPT ![t] = "wait"] /\ phase' = phase
              /\ process' = [process EXCEPT ![Of(t)] = i]
              /\ server' \in [Process -> Server]
              /\ server'[i] = [client |-> Of(t), version |-> binary[PathOf(Wanted(Of(t)))].version,
                               state |-> "running", bound |-> {}, left |-> FALSE]
              /\ \A j \in Process \ {i} : \/ server'[j] = server[j]
                                          \/ server'[j] = Free /\ server[j].state = "dead"
  <1> DEFINE new == [client |-> Of(t), version |-> binary[PathOf(Wanted(Of(t)))].version,
                     state |-> "running", bound |-> {}, left |-> FALSE]
  <1>1. PICK i \in Process : /\ server[i] = Free
                             /\ process' = [process EXCEPT ![Of(t)] = i]
                             /\ server' = Reaped([server EXCEPT ![i] = new], process')
    BY DEF Popen
  <1>2. pc' = [pc EXCEPT ![t] = "wait"] /\ phase' = phase
    BY DEF Popen, Goto
  <1>3. new \in Server
    BY Constants DEF Server, Typed, Binary
  <1>4. new.state = "running"
    OBVIOUS
  <1> DEFINE servers == [server EXCEPT ![i] = new]
  <1> HIDE DEF new
  <1>5. servers \in [Process -> Server] /\ servers[i] = new
        /\ \A j \in Process \ {i} : servers[j] = server[j]
    BY <1>3 DEF Typed
  <1>6. server' = Reaped(servers, process')
    BY <1>1
  <1> HIDE DEF servers
  <1>7. server' \in [Process -> Server] /\ server'[i] = new
        /\ \A j \in Process \ {i} : \/ server'[j] = server[j]
                                    \/ server'[j] = Free /\ server[j].state = "dead"
    BY <1>4, <1>5, <1>6, ReapedIs
  <1> QED
    BY <1>1, <1>2, <1>7 DEF new

LEMMA JoinDoes ==
    ASSUME Typed, NEW t \in Thread, Join(t)
    PROVE  /\ pc' = [pc EXCEPT ![t] = "idle"]
           /\ process' = [process EXCEPT ![Of(t)] = None]
           /\ phase' = [phase EXCEPT ![Of(t)] = IF @ = "new" THEN @ ELSE "closed"]
           /\ server' \in [Process -> Server]
           /\ \A j \in Process : \/ server'[j] = server[j]
                                 \/ server'[j] = Free /\ server[j].state = "dead"
  BY ReapedIs DEF Join, Goto, Typed

\* The servers of a program that is killed go on as they are.
LEMMA KillDoes ==
    ASSUME Typed, NEW c \in Client, Kill(c)
    PROVE  /\ server' \in [Process -> Server]
           /\ \A j \in Process :
                 \/ server'[j] = Free /\ server[j].state = "dead"
                 \/ /\ server'[j].client = server[j].client /\ server'[j].bound = server[j].bound
                    /\ server'[j].state = server[j].state
                    /\ server[j].client = c => server'[j].left
                    /\ server[j].left => server'[j].left
  <1> DEFINE after(j) == IF server[j].client = c THEN [server[j] EXCEPT !.left = TRUE]
                         ELSE server[j]
             servers == [j \in Process |-> after(j)]
  <1>1. ASSUME NEW j \in Process
        PROVE  /\ after(j) \in Server /\ after(j).client = server[j].client
               /\ after(j).bound = server[j].bound /\ after(j).state = server[j].state
               /\ server[j].client = c => after(j).left
               /\ server[j].left => after(j).left
    <2>1. server[j] \in Server
      BY DEF Typed
    <2>2. CASE server[j].client = c
      BY <2>1, <2>2 DEF Server
    <2>3. CASE server[j].client # c
      BY <2>1, <2>3
    <2> QED
      BY <2>2, <2>3
  <1>2. server' = Reaped(servers, process')
    BY DEF Kill
  <1> HIDE DEF after
  <1>3. servers \in [Process -> Server] /\ \A j \in Process : servers[j] = after(j)
    BY <1>1
  <1> HIDE DEF servers
  <1> QED
    BY <1>1, <1>2, <1>3, ReapedIs
-----------------------------------------------------------------------------
(* Types *)

LEMMA TypeInit == Init => TypeInv
  BY Constants, EmbeddedConstantsOK DEF Init, TypeInv, Typed, Owned, Running, Free, Phase, Step

LEMMA TypedNext == TypeInv /\ [Next]_vars => Typed'
  <1> SUFFICES ASSUME TypeInv, [Next]_vars PROVE Typed'
    OBVIOUS
  <1> USE DEF TypeInv, Typed
  <1>1. ASSUME NEW t \in Thread, New(t) \/ EnsureRunning(t) \/ NotReady(t) \/ Close(t) \/ Connect(t)
        PROVE  Typed'
    <2>1. CASE New(t) \/ NotReady(t) \/ Close(t) \/ Connect(t)
      BY <2>1, Constants DEF New, NotReady, Close, Connect, Goto, UnchangedFiles, Phase, Step,
                             Starting
    <2>2. CASE EnsureRunning(t)
      BY <2>2, ReturnedDoes DEF EnsureRunning, Goto, UnchangedFiles, Step, Starting
    <2> QED
      BY <1>1, <2>1, <2>2
  <1>2. ASSUME NEW t \in Thread, Raised(t)
        PROVE  phase' \in [Client -> Phase] /\ pc' \in [Thread -> Step]
    BY <1>2, RaisedDoes, Constants DEF Phase, Step
  <1>3. ASSUME NEW t \in Thread, Starts(t)
        PROVE  Typed'
    <2>1. CASE Check(t)
      BY <2>1, <1>2 DEF Check, Goto, UnchangedFiles, Step, Starting
    <2>2. CASE Download(t)
      <3>1. [version |-> Wanted(Of(t)), state |-> "part"] \in Binary
        BY Constants DEF Binary
      <3> QED
        BY <2>2, <3>1, <1>2 DEF Download, Goto, Step, Starting
    <2>3. CASE Extract(t)
      BY <2>3 DEF Extract, Goto, Step, Starting, Binary
    <2>4. CASE Rename(t)
      BY <2>4, Constants DEF Rename, Goto, Step, Starting
    <2>5. CASE Chmod(t)
      <3>1. [binary[PathOf(Wanted(Of(t)))] EXCEPT !.state = "whole"] \in Binary
        BY Constants DEF Binary
      <3> QED
        BY <2>5, <3>1 DEF Chmod, Goto, Step, Starting
    <2>6. CASE Popen(t)
      <3>1. CASE Raised(t) /\ UNCHANGED <<server, process>>
        BY <2>6, <3>1, <1>2 DEF Popen, UnchangedFiles
      <3>2. CASE ~(Raised(t) /\ UNCHANGED <<server, process>>)
        <4>1. PICK i \in Process : /\ pc' = [pc EXCEPT ![t] = "wait"] /\ phase' = phase
                                   /\ process' = [process EXCEPT ![Of(t)] = i]
                                   /\ server' \in [Process -> Server]
          BY <2>6, <3>2, PopenDoes
        <4>2. UnchangedFiles
          BY <2>6 DEF Popen
        <4> QED
          BY <4>1, <4>2 DEF UnchangedFiles, Step, Starting
      <3> QED
        BY <3>1, <3>2
    <2>7. CASE Listens(t) \/ TimesOut(t)
      BY <2>7, <1>2, ReturnedDoes DEF Listens, TimesOut, UnchangedFiles, Step
    <2> QED
      BY <1>3, <2>1, <2>2, <2>3, <2>4, <2>5, <2>6, <2>7 DEF Starts
  <1>4. ASSUME NEW t \in Thread, Stop(t)
        PROVE  Typed'
    <2>1. ASSUME NEW i \in Process PROVE [server[i] EXCEPT !.state = "terminated"] \in Server
      BY DEF Server
    <2>2. server' \in [Process -> Server]
      BY <1>4, <2>1, Constants DEF Stop, None
    <2> QED
      BY <1>4, <2>2 DEF Stop, Goto, UnchangedFiles, Step
  <1>5. ASSUME NEW t \in Thread, Join(t)
        PROVE  Typed'
    BY <1>5, JoinDoes, Constants DEF Join, UnchangedFiles, Step, Phase
  <1>6. ASSUME NEW i \in Process, Bind(i)
        PROVE  Typed'
    <2>1. CASE Dies(i)
      BY <1>6, <2>1, DiesDoes DEF Bind, UnchangedFiles
    <2>2. CASE ~Dies(i)
      <3>1. PICK p \in Ports(server[i].client) :
                   server' = [server EXCEPT ![i].bound = @ \cup {p}]
        BY <1>6, <2>2, BindDoes
      <3>2. server[i] \in Server /\ Running(i)
        BY <1>6 DEF Bind
      <3>3. server[i].client \in Client
        BY <3>2 DEF Owned
      <3>4. p \in UNION {Ports(c) : c \in Client}
        BY <3>1, <3>3
      <3>5. [server[i] EXCEPT !.bound = @ \cup {p}] \in Server
        BY <3>2, <3>4 DEF Server
      <3> QED
        BY <1>6, <3>1, <3>5 DEF Bind, UnchangedFiles
    <2> QED
      BY <2>1, <2>2
  <1>7. ASSUME NEW i \in Process, Crash(i) \/ Exit(i)
        PROVE  Typed'
    BY <1>7, DiesDoes DEF Crash, Exit, UnchangedFiles
  <1>8. ASSUME NEW c \in Client, Kill(c)
        PROVE  Typed'
    <2>1. UnchangedFiles /\ phase' = [phase EXCEPT ![c] = "new"]
          /\ pc' = [t \in Thread |-> IF Of(t) = c THEN "idle" ELSE pc[t]]
          /\ process' = [process EXCEPT ![c] = None]
      BY <1>8 DEF Kill
    <2> QED
      BY <1>8, <2>1, KillDoes DEF UnchangedFiles, Phase, Step
  <1>9. CASE UNCHANGED vars
    BY <1>9 DEF vars
  <1> QED
    BY <1>1, <1>3, <1>4, <1>5, <1>6, <1>7, <1>8, <1>9 DEF Next

LEMMA OwnedNext == TypeInv /\ [Next]_vars => Owned'
  <1> SUFFICES ASSUME TypeInv, [Next]_vars PROVE Owned'
    OBVIOUS
  <1> USE DEF TypeInv
  <1>1. ASSUME \A i \in Process : \/ server'[i] = server[i]
                                  \/ server'[i].state # "running"
        PROVE  Owned'
    BY <1>1 DEF Owned, Running
  <1>2. ASSUME NEW t \in Thread, New(t) \/ EnsureRunning(t) \/ NotReady(t) \/ Close(t) \/ Connect(t)
        PROVE  Owned'
    BY <1>1, <1>2 DEF New, EnsureRunning, NotReady, Close, Connect
  <1>3. ASSUME NEW t \in Thread, Starts(t), ~Popen(t)
        PROVE  Owned'
    BY <1>1, <1>3 DEF Starts, Check, Download, Extract, Rename, Chmod, Listens, TimesOut
  <1>4. ASSUME NEW t \in Thread, Popen(t)
        PROVE  Owned'
    <2>1. CASE UNCHANGED <<server, process>>
      BY <2>1, <1>1
    <2>2. CASE ~(Raised(t) /\ UNCHANGED <<server, process>>)
      <3>1. PICK i \in Process :
                   /\ server'[i] = [client |-> Of(t),
                                    version |-> binary[PathOf(Wanted(Of(t)))].version,
                                    state |-> "running", bound |-> {}, left |-> FALSE]
                   /\ \A j \in Process \ {i} : \/ server'[j] = server[j]
                                               \/ server'[j] = Free /\ server[j].state = "dead"
        BY <1>4, <2>2, PopenDoes
      <3>2. server'[i].client = Of(t) /\ server'[i].bound = {}
        BY <3>1
      <3>3. \A j \in Process \ {i} : server'[j] = server[j] \/ server'[j].state # "running"
        BY <3>1 DEF Free
      <3> QED
        BY <3>2, <3>3, Constants DEF Owned, Running
    <2> QED
      BY <2>1, <2>2
  <1>5. ASSUME NEW t \in Thread, Stop(t)
        PROVE  Owned'
    <2>1. \A i \in Process : server'[i] = server[i] \/ server'[i].state = "terminated"
      BY <1>5, Constants DEF Stop, Typed
    <2> QED
      BY <1>1, <2>1
  <1>6. ASSUME NEW t \in Thread, Join(t)
        PROVE  Owned'
    BY <1>1, <1>6, JoinDoes DEF Free
  <1>7. ASSUME NEW i \in Process, Bind(i) \/ Crash(i) \/ Exit(i)
        PROVE  Owned'
    <2>1. CASE Dies(i)
      <3>1. \A j \in Process : server'[j] = server[j] \/ server'[j].state \in {"dead", "none"}
        BY <2>1, DiesDoes DEF Free
      <3> QED
        BY <1>1, <3>1
    <2>2. CASE ~Dies(i)
      <3>1. Bind(i)
        BY <1>7, <2>2 DEF Crash, Exit
      <3>2. PICK p \in Ports(server[i].client) : server' = [server EXCEPT ![i].bound = @ \cup {p}]
        BY <3>1, <2>2, BindDoes
      <3>3. server[i] \in Server /\ \A j \in Process \ {i} : server'[j] = server[j]
        BY <3>2 DEF Typed
      <3>4. server'[i].client = server[i].client /\ server'[i].state = server[i].state
            /\ server'[i].bound = server[i].bound \cup {p}
        BY <3>2, <3>3 DEF Typed, Server
      <3> QED
        BY <3>2, <3>3, <3>4 DEF Owned, Running
    <2> QED
      BY <2>1, <2>2
  <1>8. ASSUME NEW c \in Client, Kill(c)
        PROVE  Owned'
    BY <1>8, KillDoes DEF Owned, Running, Free
  <1>9. CASE UNCHANGED vars
    BY <1>1, <1>9 DEF vars
  <1> QED
    BY <1>2, <1>3, <1>4, <1>5, <1>6, <1>7, <1>8, <1>9 DEF Next, Starts

LEMMA TypeNext == TypeInv /\ [Next]_vars => TypeInv'
  BY TypedNext, OwnedNext DEF TypeInv

LEMMA Types == Unfair => []TypeInv
  BY TypeInit, TypeNext, PTL DEF Unfair
-----------------------------------------------------------------------------
(* The files: a name tells what is under it, and what is not whole is a     *)
(* member of a zip file that somebody is about to make executable, unless   *)
(* a program was killed.                                                    *)

\* A file name stands for one version.  It does for versions with a number; of other
\* URLs only one may be in use.
OneVersion ==
    \A c, d \in Client : PathOf(Wanted(c)) = PathOf(Wanted(d)) => Wanted(c) = Wanted(d)

Executable(state, path) ==
    \/ state = "whole"
    \/ /\ state = "locked" /\ package = "zip"
       /\ "kill" \in Env \/ \E u \in Thread : pc[u] = "chmod" /\ PathOf(Wanted(Of(u))) = path

FilesInv ==
    /\ \A p \in Path :
          \/ binary[p] = Absent
          \/ /\ \A c \in Client : PathOf(Wanted(c)) = p => binary[p].version = Wanted(c)
             /\ Executable(binary[p].state, p)
    /\ \A t, u \in Thread : pc[t] \in Extracting /\ pc[u] \in Extracting => t = u
    /\ \A t \in Thread :
          /\ pc[t] \in {"extract", "rename"} => extracted.version = Wanted(Of(t))
          /\ pc[t] = "rename" => \/ extracted.state = "whole"
                                 \/ extracted.state = "locked" /\ package = "zip"
          /\ pc[t] \in {"chmod", "popen"} => binary[PathOf(Wanted(Of(t)))] # Absent

LEMMA FilesInit == Init => FilesInv
  BY Constants DEF Init, FilesInv, Extracting

LEMMA FilesNext == ASSUME OneVersion PROVE TypeInv /\ FilesInv /\ [Next]_vars => FilesInv'
  <1> SUFFICES ASSUME TypeInv, FilesInv, [Next]_vars PROVE FilesInv'
    OBVIOUS
  <1> USE DEF TypeInv, Typed
  <1>1. ASSUME NEW t \in Thread, NEW step \in Step \ (Extracting \cup {"popen"}),
               pc' = [pc EXCEPT ![t] = step], UnchangedFiles, pc[t] # "chmod"
        PROVE  FilesInv'
    BY <1>1 DEF FilesInv, Executable, Extracting, UnchangedFiles
  <1>2. ASSUME UNCHANGED pc, UnchangedFiles
        PROVE  FilesInv'
    BY <1>2 DEF FilesInv, Executable, UnchangedFiles
  <1>3. ASSUME NEW t \in Thread, Raised(t), UnchangedFiles, pc[t] # "chmod"
        PROVE  FilesInv'
    BY <1>1, <1>3, RaisedDoes DEF Step, Extracting, Starting
  <1>4. ASSUME NEW t \in Thread, Returned(t), UnchangedFiles, pc[t] # "chmod"
        PROVE  FilesInv'
    BY <1>1, <1>4 DEF Returned, Goto, Step, Extracting, Starting
  <1>5. ASSUME NEW t \in Thread, New(t) \/ EnsureRunning(t) \/ NotReady(t) \/ Close(t) \/ Connect(t)
        PROVE  FilesInv'
    <2>1. CASE New(t) \/ NotReady(t) \/ Close(t)
      <3>1. PICK step \in {"check", "stop"} : pc' = [pc EXCEPT ![t] = step]
        BY <2>1 DEF New, NotReady, Close, Goto
      <3> QED
        BY <1>1, <2>1, <3>1 DEF New, NotReady, Close, Step, Extracting, Starting
    <2>2. CASE Connect(t)
      BY <1>2, <2>2 DEF Connect
    <2>3. CASE EnsureRunning(t)
      <3>1. CASE Returned(t)
        BY <1>4, <2>3, <3>1 DEF EnsureRunning
      <3>2. CASE pc' = [pc EXCEPT ![t] = "check"]
        BY <1>1, <2>3, <3>2 DEF EnsureRunning, Step, Extracting, Starting
      <3> QED
        BY <2>3, <3>1, <3>2 DEF EnsureRunning, Goto
    <2> QED
      BY <1>5, <2>1, <2>2, <2>3
  <1>6. ASSUME NEW t \in Thread, Check(t)
        PROVE  FilesInv'
    <2>1. CASE Raised(t)
      BY <1>3, <1>6, <2>1 DEF Check
    <2>2. CASE pc' = [pc EXCEPT ![t] = "download"]
      BY <1>1, <1>6, <2>2 DEF Check, Step, Extracting, Starting
    <2>3. CASE pc' = [pc EXCEPT ![t] = "popen"] /\ binary[PathOf(Wanted(Of(t)))] # Absent
      BY <1>6, <2>3 DEF Check, FilesInv, Executable, Extracting, UnchangedFiles
    <2> QED
      BY <1>6, <2>1, <2>2, <2>3 DEF Check, Goto
  <1>7. ASSUME NEW t \in Thread, Download(t)
        PROVE  FilesInv'
    <2>1. CASE Raised(t) /\ UNCHANGED extracted
      BY <1>3, <1>7, <2>1 DEF Download, UnchangedFiles
    <2>2. CASE /\ pc' = [pc EXCEPT ![t] = "extract"]
               /\ extracted' = [version |-> Wanted(Of(t)), state |-> "part"]
      BY <1>7, <2>2 DEF Download, FilesInv, Executable, Extracting
    <2> QED
      BY <1>7, <2>1, <2>2 DEF Download, Goto
  <1>8. ASSUME NEW t \in Thread, Extract(t)
        PROVE  FilesInv'
    <2>1. extracted'.version = extracted.version
          /\ (extracted'.state = "whole" \/ (extracted'.state = "locked" /\ package = "zip"))
      BY <1>8 DEF Extract, Binary
    <2> QED
      BY <1>8, <2>1 DEF Extract, Goto, FilesInv, Executable, Extracting
  <1>9. ASSUME NEW t \in Thread, Rename(t)
        PROVE  FilesInv'
    <2> DEFINE path == PathOf(Wanted(Of(t)))
    <2>1. /\ pc[t] = "rename" /\ pc' = [pc EXCEPT ![t] = "chmod"] /\ UNCHANGED package
          /\ path \in Path /\ binary' = [binary EXCEPT ![path] = extracted]
      BY <1>9, Constants DEF Rename, Goto
    <2>2. /\ extracted.version = Wanted(Of(t)) /\ Of(t) \in Client
          /\ extracted.state = "whole" \/ (extracted.state = "locked" /\ package = "zip")
      BY <2>1, Constants DEF FilesInv
    <2>3. extracted # Absent
      BY <2>2 DEF Absent
    <2>4. /\ pc'[t] = "chmod" /\ \A u \in Thread \ {t} : pc'[u] = pc[u]
          /\ \A u \in Thread \ {t} : pc[u] \notin Extracting
      BY <2>1 DEF FilesInv, Extracting
    <2>5. /\ binary'[path] = extracted
          /\ \A p \in Path \ {path} : binary'[p] = binary[p]
      BY <2>1
    <2>6. \A p \in Path : binary[p] # Absent => binary'[p] # Absent
      BY <2>3, <2>5
    <2>7. ASSUME NEW p \in Path, binary'[p] # Absent
          PROVE  Executable(binary[p].state, p)'
      <3>1. CASE p = path
        BY <2>1, <2>2, <2>4, <2>5, <3>1 DEF Executable
      <3>2. CASE p # path
        <4>1. Executable(binary[p].state, p) /\ binary'[p] = binary[p]
          BY <2>5, <2>7, <3>2 DEF FilesInv
        <4> QED
          BY <2>1, <2>4, <4>1 DEF Executable, Extracting
      <3> QED
        BY <3>1, <3>2
    <2>8. ASSUME NEW p \in Path, binary'[p] # Absent, NEW c \in Client, PathOf(Wanted(c)) = p
          PROVE  binary'[p].version = Wanted(c)
      BY <2>2, <2>5, <2>8 DEF FilesInv, OneVersion
    <2>9. \A u \in Thread : pc'[u] \in {"chmod", "popen"} => binary'[PathOf(Wanted(Of(u)))] # Absent
      <3>1. ASSUME NEW u \in Thread \ {t}, pc'[u] \in {"chmod", "popen"}
            PROVE  binary'[PathOf(Wanted(Of(u)))] # Absent
        BY <2>4, <2>6, <3>1, Constants DEF FilesInv
      <3> QED
        BY <2>3, <2>5, <3>1
    <2> QED
      BY <2>4, <2>7, <2>8, <2>9 DEF FilesInv, Extracting
  <1>10. ASSUME NEW t \in Thread, Chmod(t)
        PROVE  FilesInv'
    <2> DEFINE path == PathOf(Wanted(Of(t)))
    <2>1. /\ pc[t] = "chmod" /\ pc' = [pc EXCEPT ![t] = "popen"] /\ UNCHANGED package
          /\ path \in Path /\ binary' = [binary EXCEPT ![path].state = "whole"]
      BY <1>10, Constants DEF Chmod, Goto
    <2>2. /\ \A u \in Thread \ {t} : pc'[u] = pc[u] /\ pc[u] \notin Extracting
          /\ pc'[t] = "popen" /\ binary[path] # Absent
      BY <2>1 DEF FilesInv, Extracting
    <2>3. binary'[path].version = binary[path].version /\ binary'[path].state = "whole"
      BY <2>1 DEF Binary
    <2>4. \A p \in Path \ {path} : binary'[p] = binary[p]
      BY <2>1
    <2>5. ASSUME NEW p \in Path, binary'[p] # Absent
          PROVE  Executable(binary[p].state, p)'
      <3>1. CASE p = path
        BY <2>3, <3>1 DEF Executable
      <3>2. CASE p # path
        <4>1. Executable(binary[p].state, p) /\ binary'[p] = binary[p]
          BY <2>4, <2>5, <3>2 DEF FilesInv
        <4>2. \A u \in Thread : PathOf(Wanted(Of(u))) = p => u # t
          BY <3>2
        <4> QED
          BY <2>1, <2>2, <4>1, <4>2 DEF Executable
      <3> QED
        BY <3>1, <3>2
    <2>6. \A p \in Path : binary[p] # Absent => binary'[p] # Absent
      BY <2>3, <2>4 DEF Absent
    <2>7. ASSUME NEW p \in Path, binary'[p] # Absent, NEW c \in Client, PathOf(Wanted(c)) = p
          PROVE  binary'[p].version = Wanted(c)
      BY <2>2, <2>3, <2>4, <2>7 DEF FilesInv
    <2>8. \A u \in Thread : pc'[u] \in {"chmod", "popen"} => binary'[PathOf(Wanted(Of(u)))] # Absent
      <3>1. ASSUME NEW u \in Thread \ {t}, pc'[u] \in {"chmod", "popen"}
            PROVE  binary'[PathOf(Wanted(Of(u)))] # Absent
        BY <2>2, <2>6, <3>1, Constants DEF FilesInv
      <3> QED
        BY <2>1, <2>2, <2>6, <3>1
    <2> QED
      BY <2>2, <2>5, <2>7, <2>8 DEF FilesInv, Extracting
  <1>11. ASSUME NEW t \in Thread, Popen(t) \/ Listens(t) \/ TimesOut(t) \/ Stop(t) \/ Join(t)
        PROVE  FilesInv'
    <2>1. pc[t] # "chmod" /\ UnchangedFiles
      BY <1>11 DEF Popen, Listens, TimesOut, Stop, Join
    <2>2. CASE Raised(t) \/ Returned(t)
      BY <1>3, <1>4, <2>1, <2>2
    <2>3. CASE ~Raised(t) /\ ~Returned(t)
      <3>1. PICK step \in {"wait", "join", "idle"} : pc' = [pc EXCEPT ![t] = step]
        BY <1>11, <2>3 DEF Popen, Listens, TimesOut, Stop, Join, Goto
      <3> QED
        BY <1>1, <2>1, <3>1 DEF Step, Extracting, Starting
    <2> QED
      BY <2>2, <2>3
  <1>12. ASSUME NEW i \in Process, Bind(i) \/ Crash(i) \/ Exit(i)
        PROVE  FilesInv'
    BY <1>2, <1>12 DEF Bind, Crash, Exit
  <1>13. ASSUME NEW c \in Client, Kill(c)
        PROVE  FilesInv'
    <2>1. /\ "kill" \in Env /\ UnchangedFiles
          /\ \A t \in Thread : pc'[t] = "idle" \/ pc'[t] = pc[t]
      BY <1>13 DEF Kill
    <2> QED
      BY <2>1 DEF FilesInv, Executable, Extracting, UnchangedFiles
  <1>14. CASE UNCHANGED vars
    BY <1>2, <1>14 DEF vars, UnchangedFiles
  <1> QED
    BY <1>5, <1>6, <1>7, <1>8, <1>9, <1>10, <1>11, <1>12, <1>13, <1>14 DEF Next, Starts

\* What embedded.py executes is the binary of the version asked for, and complete; it
\* may lack the right to be executed only between the last two steps of a download, or
\* for ever after a program was killed there.
THEOREM RunsAsked == ASSUME OneVersion PROVE FairSpec => []RunsWhatWasAsked
  <1>1. TypeInv /\ FilesInv => RunsWhatWasAsked
    <2> SUFFICES ASSUME TypeInv, FilesInv, NEW t \in Thread, pc[t] = "popen"
                 PROVE  LET b == binary[PathOf(Wanted(Of(t)))]
                        IN  /\ b.version = Wanted(Of(t))
                            /\ b.state # "whole" =>
                                  /\ b.state = "locked" /\ package = "zip"
                                  /\ \/ "kill" \in Env
                                     \/ \E u \in Thread :
                                           /\ pc[u] = "chmod"
                                           /\ PathOf(Wanted(Of(u))) = PathOf(Wanted(Of(t)))
      BY DEF RunsWhatWasAsked
    <2>1. Of(t) \in Client /\ PathOf(Wanted(Of(t))) \in Path
          /\ binary[PathOf(Wanted(Of(t)))] # Absent
      BY Constants DEF FilesInv
    <2>2. /\ binary[PathOf(Wanted(Of(t)))].version = Wanted(Of(t))
          /\ Executable(binary[PathOf(Wanted(Of(t)))].state, PathOf(Wanted(Of(t))))
      BY <2>1 DEF FilesInv
    <2> QED
      BY <2>2 DEF Executable
  <1> QED
    BY <1>1, Types, FilesInit, FilesNext, PTL DEF FairSpec, Unfair
-----------------------------------------------------------------------------
(* The ports: between the look at them and the end of the wait nobody else  *)
(* takes them.                                                              *)

\* Starts on common ports do not overlap, and who waits for a server waits as long as it
\* needs.
InTurn == Env \cap {"together", "slow"} = {}

\* A server that can still take a port.
Incomplete(i) == Running(i) /\ server[i].bound # Ports(server[i].client)

TurnsInv ==
    \A t, u \in Thread :
       /\ pc[t] \in Starting /\ pc[u] \in Starting
       /\ Ports(Of(t)) \cap Ports(Of(u)) # {}
       => t = u

\* Who has found the ports free still does, but for its own server; somebody waits for
\* each server that is incomplete; what is over holds no port.
PortsInv ==
    /\ \A t \in Thread, i \in Process :
          pc[t] \in Decided \cup {"wait"} /\ server[i].bound \cap Ports(Of(t)) # {} =>
             pc[t] = "wait" /\ i = process[Of(t)]
    /\ \A i \in Process : Incomplete(i) =>
          /\ process[server[i].client] = i
          /\ \E t \in Thread : Of(t) = server[i].client /\ pc[t] = "wait"
    /\ \A i \in Process : server[i].bound # {} => server[i].state \in {"running", "terminated"}

LEMMA TurnsInit == Init => TurnsInv
  BY DEF Init, TurnsInv, Starting

LEMMA TurnsNext == ASSUME InTurn PROVE TypeInv /\ TurnsInv /\ [Next]_vars => TurnsInv'
  <1> SUFFICES ASSUME TypeInv, TurnsInv, [Next]_vars PROVE TurnsInv'
    OBVIOUS
  <1> USE DEF TypeInv, Typed
  <1>1. ASSUME \A t \in Thread : pc'[t] \in Starting => pc[t] \in Starting
        PROVE  TurnsInv'
    BY <1>1 DEF TurnsInv
  <1>2. ASSUME NEW t \in Thread, Alone(t), pc' = [pc EXCEPT ![t] = "check"]
        PROVE  TurnsInv'
    BY <1>2 DEF Alone, InTurn, TurnsInv
  <1>3. ASSUME NEW t \in Thread, Raised(t) \/ Returned(t)
        PROVE  TurnsInv'
    <2>1. PICK step \in {"idle", "stop"} : pc' = [pc EXCEPT ![t] = step]
      BY <1>3, RaisedDoes DEF Returned, Goto
    <2> QED
      BY <1>1, <2>1 DEF Starting
  <1>4. ASSUME NEW t \in Thread, New(t) \/ EnsureRunning(t)
        PROVE  TurnsInv'
    BY <1>2, <1>3, <1>4 DEF New, EnsureRunning, Goto
  <1>5. ASSUME NEW t \in Thread, NotReady(t) \/ Close(t) \/ Connect(t) \/ Stop(t) \/ Join(t)
        PROVE  TurnsInv'
    BY <1>1, <1>5 DEF NotReady, Close, Connect, Stop, Join, Goto, Starting
  <1>6. ASSUME NEW t \in Thread, Starts(t)
        PROVE  TurnsInv'
    <2>1. pc[t] \in Starting
      BY <1>6 DEF Starts, Check, Download, Extract, Rename, Chmod, Popen, Listens, TimesOut,
                  Starting
    <2>2. CASE Raised(t) \/ Returned(t)
      BY <1>3, <2>2
    <2>3. CASE ~(Raised(t) \/ Returned(t))
      <3>1. \E step \in Starting : pc' = [pc EXCEPT ![t] = step]
        BY <1>6, <2>3 DEF Starts, Check, Download, Extract, Rename, Chmod, Popen, Listens, TimesOut,
                          Goto, Starting
      <3> QED
        BY <1>1, <2>1, <3>1
    <2> QED
      BY <2>2, <2>3
  <1>7. ASSUME NEW i \in Process, Bind(i) \/ Crash(i) \/ Exit(i)
        PROVE  TurnsInv'
    BY <1>1, <1>7 DEF Bind, Crash, Exit
  <1>8. ASSUME NEW c \in Client, Kill(c)
        PROVE  TurnsInv'
    <2>1. pc' = [t \in Thread |-> IF Of(t) = c THEN "idle" ELSE pc[t]]
      BY <1>8 DEF Kill
    <2> QED
      BY <1>1, <2>1 DEF Starting
  <1>9. CASE UNCHANGED vars
    BY <1>1, <1>9 DEF vars
  <1> QED
    BY <1>4, <1>5, <1>6, <1>7, <1>8, <1>9 DEF Next

\* While a server of the client is incomplete, the client's ports are not all served.
LEMMA NotYetServed ==
    ASSUME TypeInv, PortsInv, NEW i \in Process, Incomplete(i)
    PROVE  ~is_listening(server[i].client)
  <1>1. /\ server[i].client \in Client /\ server[i].bound \subseteq Ports(server[i].client)
        /\ server[i].bound # Ports(server[i].client)
    BY DEF TypeInv, Owned, Incomplete
  <1>2. PICK p \in Ports(server[i].client) : p \notin server[i].bound
    BY <1>1
  <1>3. ASSUME NEW j \in Process, p \in server[j].bound
        PROVE  FALSE
    <2>1. PICK t \in Thread : Of(t) = server[i].client /\ pc[t] = "wait" /\ process[Of(t)] = i
      BY DEF PortsInv
    <2>2. server[j].bound \cap Ports(Of(t)) # {}
      BY <1>2, <1>3, <2>1
    <2> QED
      BY <1>2, <1>3, <2>1, <2>2 DEF PortsInv
  <1>4. p \notin Bound
    BY <1>3 DEF Bound
  <1> QED
    BY <1>4 DEF is_listening

LEMMA PortsInit == Init => PortsInv
  BY DEF Init, PortsInv, Free, Incomplete, Running, Decided

LEMMA PortsNext ==
    ASSUME InTurn PROVE TypeInv /\ TypeInv' /\ TurnsInv /\ PortsInv /\ [Next]_vars => PortsInv'
  <1> SUFFICES ASSUME TypeInv, TypeInv', TurnsInv, PortsInv, [Next]_vars PROVE PortsInv'
    OBVIOUS
  <1> USE DEF TypeInv, Typed
  <1>1. ASSUME \A t \in Thread : /\ pc'[t] \in Decided => pc[t] \in Decided
                                 /\ pc'[t] = "wait" <=> pc[t] = "wait",
               \A j \in Process :
                  \/ server'[j] = server[j]
                  \/ server'[j].bound = {} /\ server'[j].state # "running"
                  \/ server'[j].bound = server[j].bound /\ server'[j].state = "terminated",
               UNCHANGED process
        PROVE  PortsInv'
    BY <1>1 DEF PortsInv, Incomplete, Running
  <1>2. ASSUME NEW t \in Thread, Raised(t) \/ Returned(t), pc[t] # "wait",
               UNCHANGED <<server, process>>
        PROVE  PortsInv'
    <2>1. PICK step \in {"idle", "stop"} : pc' = [pc EXCEPT ![t] = step]
      BY <1>2, RaisedDoes DEF Returned, Goto
    <2> QED
      BY <1>1, <1>2, <2>1 DEF Decided
  <1>3. ASSUME NEW t \in Thread, New(t) \/ NotReady(t) \/ Close(t) \/ Connect(t)
        PROVE  PortsInv'
    BY <1>1, <1>3 DEF New, NotReady, Close, Connect, Goto, Decided
  <1>4. ASSUME NEW t \in Thread, EnsureRunning(t)
        PROVE  PortsInv'
    BY <1>1, <1>2, <1>4 DEF EnsureRunning, Goto, Decided
  <1>5. ASSUME NEW t \in Thread, Check(t)
        PROVE  PortsInv'
    <2>1. CASE Raised(t)
      BY <1>2, <1>5, <2>1 DEF Check
    <2>2. CASE ~Raised(t)
      <3>1. PICK step \in {"download", "popen"} : pc' = [pc EXCEPT ![t] = step]
        BY <1>5, <2>2 DEF Check, Goto
      <3>2. \A i \in Process : server[i].bound \cap Ports(Of(t)) = {}
        BY <1>5, <2>2 DEF Check, PortsFree, Bound
      <3>3. UNCHANGED <<server, process>> /\ pc[t] = "check"
        BY <1>5 DEF Check
      <3> QED
        BY <3>1, <3>2, <3>3 DEF PortsInv, Incomplete, Running
    <2> QED
      BY <2>1, <2>2
  <1>6. ASSUME NEW t \in Thread, Download(t) \/ Extract(t) \/ Rename(t) \/ Chmod(t)
        PROVE  PortsInv'
    <2>1. UNCHANGED <<server, process>> /\ pc[t] \in Decided
      BY <1>6 DEF Download, Extract, Rename, Chmod, Decided
    <2>2. CASE Raised(t)
      BY <1>2, <2>1, <2>2 DEF Decided
    <2>3. CASE ~Raised(t)
      <3>1. PICK step \in Decided : pc' = [pc EXCEPT ![t] = step]
        BY <1>6, <2>3 DEF Download, Extract, Rename, Chmod, Goto, Decided
      <3> QED
        BY <1>1, <2>1, <3>1 DEF Decided
    <2> QED
      BY <2>2, <2>3
  <1>7. ASSUME NEW t \in Thread, Popen(t)
        PROVE  PortsInv'
    <2>1. CASE Raised(t) /\ UNCHANGED <<server, process>>
      BY <1>2, <1>7, <2>1 DEF Popen
    <2>2. CASE ~(Raised(t) /\ UNCHANGED <<server, process>>)
      <3>1. PICK i \in Process :
                   /\ server[i] = Free
                   /\ pc' = [pc EXCEPT ![t] = "wait"]
                   /\ process' = [process EXCEPT ![Of(t)] = i]
                   /\ server'[i] = [client |-> Of(t),
                                    version |-> binary[PathOf(Wanted(Of(t)))].version,
                                    state |-> "running", bound |-> {}, left |-> FALSE]
                   /\ \A j \in Process \ {i} : \/ server'[j] = server[j]
                                               \/ server'[j] = Free /\ server[j].state = "dead"
        BY <1>7, <2>2, PopenDoes
      <3>2. /\ server'[i].client = Of(t) /\ server'[i].bound = {} /\ server'[i].state = "running"
            /\ \A j \in Process \ {i} :
                  \/ server'[j] = server[j]
                  \/ server'[j].bound = {} /\ server'[j].state # "running"
        BY <3>1 DEF Free
      <3>3. Of(t) \in Client /\ Ports(Of(t)) # {} /\ pc[t] = "popen"
        BY <1>7, Constants DEF Popen
      <3>4. /\ pc'[t] = "wait" /\ \A u \in Thread \ {t} : pc'[u] = pc[u]
            /\ process'[Of(t)] = i /\ \A c \in Client \ {Of(t)} : process'[c] = process[c]
        BY <3>1, <3>3
      <3>5. \A u \in Thread \ {t} : pc[u] \in Decided \cup {"wait"} => Of(u) # Of(t)
        BY <3>3 DEF TurnsInv, Decided, Starting
      <3>6. ASSUME NEW u \in Thread, NEW j \in Process, pc'[u] \in Decided \cup {"wait"},
                   server'[j].bound \cap Ports(Of(u)) # {}
            PROVE  pc'[u] = "wait" /\ j = process'[Of(u)]
        <4>1. j # i /\ server'[j] = server[j]
          BY <3>2, <3>6
        <4>2. CASE u = t
          BY <3>3, <3>6, <4>1, <4>2 DEF PortsInv, Decided
        <4>3. CASE u # t
          BY <3>4, <3>5, <3>6, <4>1, <4>3, Constants DEF PortsInv
        <4> QED
          BY <4>2, <4>3
      <3>7. ASSUME NEW j \in Process, Incomplete(j)'
            PROVE  /\ process'[server'[j].client] = j
                   /\ \E u \in Thread : Of(u) = server'[j].client /\ pc'[u] = "wait"
        <4>1. CASE j = i
          BY <3>2, <3>4, <4>1
        <4>2. CASE j # i
          <5>1. server'[j] = server[j] /\ Incomplete(j)
            BY <3>2, <3>7, <4>2 DEF Incomplete, Running
          <5>2. PICK u \in Thread : Of(u) = server[j].client /\ pc[u] = "wait"
            BY <5>1 DEF PortsInv
          <5>3. u # t /\ Of(u) # Of(t) /\ Of(u) \in Client
            BY <3>3, <3>5, <5>2, Constants
          <5> QED
            BY <3>4, <5>1, <5>2, <5>3 DEF PortsInv
        <4> QED
          BY <4>1, <4>2
      <3>8. \A j \in Process :
               server'[j].bound # {} => server'[j].state \in {"running", "terminated"}
        BY <3>2 DEF PortsInv
      <3> QED
        BY <3>6, <3>7, <3>8 DEF PortsInv
    <2> QED
      BY <2>1, <2>2
  <1>8. ASSUME NEW t \in Thread, Listens(t) \/ TimesOut(t)
        PROVE  PortsInv'
    <2>1. pc[t] = "wait" /\ UNCHANGED <<server, process>> /\ (Raised(t) \/ Returned(t))
      BY <1>8 DEF Listens, TimesOut
    <2>2. PICK step \in {"idle", "stop"} : pc' = [pc EXCEPT ![t] = step]
      BY <2>1, RaisedDoes DEF Returned, Goto
    <2>3. ASSUME NEW i \in Process, Incomplete(i) PROVE server[i].client # Of(t)
      <3>1. CASE Listens(t)
        BY <2>3, <3>1, NotYetServed DEF Listens
      <3>2. CASE TimesOut(t)
        BY <2>3, <3>2, Constants DEF TimesOut, InTurn, PortsInv, Incomplete
      <3> QED
        BY <1>8, <3>1, <3>2
    <2> QED
      BY <2>1, <2>2, <2>3 DEF PortsInv, Incomplete, Running, Decided
  <1>9. ASSUME NEW t \in Thread, Stop(t)
        PROVE  PortsInv'
    <2>1. \A i \in Process :
             \/ server'[i] = server[i]
             \/ server'[i].bound = server[i].bound /\ server'[i].state = "terminated"
      BY <1>9, Constants DEF Stop, Server
    <2> QED
      BY <1>1, <1>9, <2>1 DEF Stop, Goto, Decided
  <1>10. ASSUME NEW t \in Thread, Join(t)
        PROVE  PortsInv'
    <2>1. /\ pc[t] = "join" /\ Of(t) \in Client
          /\ process[Of(t)] # None => server[process[Of(t)]].state = "dead"
      BY <1>10, Constants DEF Join
    <2>2. /\ pc' = [pc EXCEPT ![t] = "idle"] /\ process' = [process EXCEPT ![Of(t)] = None]
          /\ \A j \in Process : \/ server'[j] = server[j]
                                \/ server'[j].bound = {} /\ server'[j].state # "running"
      BY <1>10, JoinDoes DEF Free
    <2>3. \A j \in Process : j = process[Of(t)] => server[j].bound = {} /\ ~Running(j)
      BY <2>1, Constants DEF PortsInv, Running
    <2> QED
      BY <2>1, <2>2, <2>3 DEF PortsInv, Incomplete, Running, Decided
  <1>11. ASSUME NEW i \in Process, Dies(i), UNCHANGED <<process, pc>>
        PROVE  PortsInv'
    <2>1. \A j \in Process : \/ server'[j] = server[j]
                             \/ server'[j].bound = {} /\ server'[j].state # "running"
      BY <1>11, DiesDoes DEF Free
    <2> QED
      BY <1>1, <1>11, <2>1
  <1>12. ASSUME NEW i \in Process, Bind(i), ~Dies(i)
        PROVE  PortsInv'
    <2>1. PICK p \in Ports(server[i].client) \ server[i].bound :
                 server' = [server EXCEPT ![i].bound = @ \cup {p}]
      BY <1>12, BindDoes
    <2>2. Running(i) /\ Incomplete(i) /\ UNCHANGED <<process, pc>>
      BY <1>12, <2>1 DEF Bind, Incomplete
    <2>3. server[i] \in Server /\ \A j \in Process \ {i} : server'[j] = server[j]
      BY <2>1
    <2>4. server'[i].client = server[i].client /\ server'[i].state = "running"
          /\ server'[i].bound = server[i].bound \cup {p}
      BY <2>1, <2>2, <2>3 DEF Server, Running
    <2>5. PICK w \in Thread : Of(w) = server[i].client /\ pc[w] = "wait" /\ process[Of(w)] = i
      BY <2>2 DEF PortsInv
    <2>6. ASSUME NEW u \in Thread, NEW j \in Process, pc[u] \in Decided \cup {"wait"},
                 server'[j].bound \cap Ports(Of(u)) # {}
          PROVE  pc[u] = "wait" /\ j = process[Of(u)]
      <3>1. CASE server[j].bound \cap Ports(Of(u)) # {}
        BY <2>6, <3>1 DEF PortsInv
      <3>2. CASE server[j].bound \cap Ports(Of(u)) = {}
        <4>1. j = i /\ p \in Ports(Of(u))
          BY <2>3, <2>4, <2>6, <3>2
        <4>2. Ports(Of(w)) \cap Ports(Of(u)) # {}
          BY <2>1, <2>5, <4>1
        <4>3. u = w
          BY <2>5, <2>6, <4>2 DEF TurnsInv, Decided, Starting
        <4> QED
          BY <2>5, <4>1, <4>3
      <3> QED
        BY <3>1, <3>2
    <2>7. \A j \in Process : Incomplete(j)' => Incomplete(j) /\ server'[j].client = server[j].client
      BY <2>2, <2>3, <2>4 DEF Incomplete, Running
    <2> QED
      BY <2>2, <2>3, <2>4, <2>6, <2>7 DEF PortsInv
  <1>13. ASSUME NEW c \in Client, Kill(c)
        PROVE  PortsInv'
    <2>1. /\ pc' = [t \in Thread |-> IF Of(t) = c THEN "idle" ELSE pc[t]]
          /\ process' = [process EXCEPT ![c] = None]
          /\ process[c] = None \/ is_listening(c)
      BY <1>13 DEF Kill
    <2>2. \A j \in Process : \/ server'[j].bound = {} /\ server'[j].state # "running"
                             \/ /\ server'[j].client = server[j].client
                                /\ server'[j].bound = server[j].bound
                                /\ server'[j].state = server[j].state
      BY <1>13, KillDoes DEF Free
    <2>3. ASSUME NEW i \in Process, Incomplete(i) PROVE server[i].client # c
      BY <2>1, <2>3, NotYetServed, Constants DEF PortsInv
    <2>4. \A i \in Process : Incomplete(i)' => Incomplete(i) /\ server'[i].client = server[i].client
      BY <2>2 DEF Incomplete, Running
    <2>5. ASSUME NEW i \in Process, Incomplete(i)'
          PROVE  /\ process'[server'[i].client] = i
                 /\ \E t \in Thread : Of(t) = server'[i].client /\ pc'[t] = "wait"
      <3>1. server'[i].client = server[i].client /\ Incomplete(i) /\ server[i].client # c
        BY <2>3, <2>4, <2>5
      <3>2. server[i].client \in Client
        BY <3>1 DEF Owned, Incomplete
      <3> QED
        BY <2>1, <3>1, <3>2 DEF PortsInv
    <2>6. ASSUME NEW t \in Thread, pc'[t] \in Decided \cup {"wait"}
          PROVE  pc'[t] = pc[t] /\ process'[Of(t)] = process[Of(t)]
      BY <2>1, <2>6, Constants DEF Decided
    <2> QED
      BY <2>2, <2>5, <2>6 DEF PortsInv
  <1>14. CASE UNCHANGED vars
    BY <1>1, <1>14 DEF vars
  <1>15. ASSUME NEW i \in Process, Bind(i) \/ Crash(i) \/ Exit(i)
        PROVE  PortsInv'
    BY <1>11, <1>12, <1>15 DEF Bind, Crash, Exit
  <1> QED
    BY <1>3, <1>4, <1>5, <1>6, <1>7, <1>8, <1>9, <1>10, <1>13, <1>14, <1>15 DEF Next, Starts

\* EmbeddedV4.start looks at the ports before a download and starts the server after it:
\* as long as starts on common ports come one after another, what answers on the ports
\* of who waits is the process that was started for it.
THEOREM ServedByOwn == ASSUME InTurn PROVE FairSpec => []OwnServer
  <1>1. PortsInv => OwnServer
    BY DEF PortsInv, OwnServer
  <1>2. Unfair => []TurnsInv
    BY Types, TurnsInit, TurnsNext, PTL DEF Unfair
  <1> QED
    BY <1>1, <1>2, Types, PortsInit, PortsNext, PTL DEF FairSpec, Unfair
-----------------------------------------------------------------------------
(* The end: a client knows of the server that it has to stop.               *)

\* Each client is used by one thread.
OneThread == \A t, u \in Thread : Of(t) = Of(u) => t = u

\* A server that runs and belongs to a program that was not killed.
Kept(i) == Running(i) /\ ~server[i].left

\* Such a server is the one its client knows, and the client is not closed; and no client
\* has one when it is about to start another or has just stopped.
KeptInv ==
    /\ \A i \in Process : Kept(i) =>
          /\ process[server[i].client] = i
          /\ \/ phase[server[i].client] \in {"connecting", "connected", "failed"}
             \/ \E t \in Thread : Of(t) = server[i].client /\ pc[t] \in {"wait", "stop"}
    /\ \A t \in Thread :
          /\ pc[t] \in Decided \cup {"join"} =>
                \A i \in Process : Kept(i) => server[i].client # Of(t)
          /\ pc[t] \in Starting => phase[Of(t)] \in {"new", "connecting", "connected"}
          /\ phase[Of(t)] = "closed" => pc[t] = "idle"

LEMMA KeptInit == Init => KeptInv
  BY Constants DEF Init, KeptInv, Kept, Running, Free, Decided, Starting

LEMMA KeptNext ==
    ASSUME InTurn, OneThread
    PROVE  TypeInv /\ TypeInv' /\ PortsInv /\ KeptInv /\ [Next]_vars => KeptInv'
  <1> SUFFICES ASSUME TypeInv, TypeInv', PortsInv, KeptInv, [Next]_vars PROVE KeptInv'
    OBVIOUS
  <1> USE DEF TypeInv, Typed
  <1>1. ASSUME NEW t \in Thread,
               \A u \in Thread \ {t} : pc'[u] = pc[u],
               \A c \in Client \ {Of(t)} : phase'[c] = phase[c] /\ process'[c] = process[c],
               \A i \in Process : Kept(i)' =>
                  \/ server'[i] = server[i] /\ server[i].client # Of(t)
                  \/ /\ server'[i].client = Of(t)
                     /\ process'[Of(t)] = i
                     /\ \/ phase'[Of(t)] \in {"connecting", "connected", "failed"}
                        \/ pc'[t] \in {"wait", "stop"},
               pc'[t] \in Decided \cup {"join"} =>
                  \A i \in Process : Kept(i)' => server'[i].client # Of(t),
               pc'[t] \in Starting => phase'[Of(t)] \in {"new", "connecting", "connected"},
               phase'[Of(t)] = "closed" => pc'[t] = "idle"
        PROVE  KeptInv'
    <2>1. \A u \in Thread \ {t} : Of(u) \in Client \ {Of(t)}
      BY Constants DEF OneThread
    <2>2. ASSUME NEW i \in Process, Kept(i)'
          PROVE  /\ process'[server'[i].client] = i
                 /\ \/ phase'[server'[i].client] \in {"connecting", "connected", "failed"}
                    \/ \E u \in Thread : Of(u) = server'[i].client /\ pc'[u] \in {"wait", "stop"}
      <3>1. CASE server'[i].client = Of(t)
        BY <1>1, <2>2, <3>1
      <3>2. CASE server'[i].client # Of(t)
        <4>1. server'[i] = server[i] /\ Kept(i) /\ server[i].client \in Client \ {Of(t)}
          BY <1>1, <2>2, <3>2 DEF Kept, Running, Owned
        <4>2. CASE phase[server[i].client] \in {"connecting", "connected", "failed"}
          BY <1>1, <4>1, <4>2 DEF KeptInv
        <4>3. ASSUME NEW u \in Thread, Of(u) = server[i].client, pc[u] \in {"wait", "stop"}
              PROVE  process'[server'[i].client] = i /\ pc'[u] \in {"wait", "stop"}
          BY <1>1, <4>1, <4>3 DEF KeptInv
        <4> QED
          BY <4>1, <4>2, <4>3 DEF KeptInv
      <3> QED
        BY <3>1, <3>2
    <2>3. ASSUME NEW u \in Thread \ {t}, pc'[u] \in Decided \cup {"join"},
                 NEW i \in Process, Kept(i)'
          PROVE  server'[i].client # Of(u)
      <3>1. CASE server'[i] = server[i]
        BY <1>1, <2>3, <3>1 DEF KeptInv, Kept, Running
      <3>2. CASE server'[i].client = Of(t)
        BY <2>1, <3>2
      <3> QED
        BY <1>1, <2>3, <3>1, <3>2
    <2>4. ASSUME NEW u \in Thread \ {t}
          PROVE  /\ pc'[u] \in Starting => phase'[Of(u)] \in {"new", "connecting", "connected"}
                 /\ phase'[Of(u)] = "closed" => pc'[u] = "idle"
      BY <1>1, <2>1 DEF KeptInv
    <2> QED
      BY <1>1, <2>2, <2>3, <2>4 DEF KeptInv
  <1>2. ASSUME NEW t \in Thread, NEW i \in Process, Kept(i), server[i].client = Of(t)
        PROVE  /\ process[Of(t)] = i /\ pc[t] \notin Decided \cup {"join"}
               /\ \/ phase[Of(t)] \in {"connecting", "connected", "failed"}
                  \/ pc[t] \in {"wait", "stop"}
    BY <1>2 DEF KeptInv, OneThread
  <1>3. ASSUME NEW t \in Thread, NEW step \in Step, pc' = [pc EXCEPT ![t] = step],
               \A c \in Client \ {Of(t)} : phase'[c] = phase[c], UNCHANGED <<server, process>>,
               \A i \in Process : Kept(i) /\ server[i].client = Of(t) =>
                  /\ step \notin Decided \cup {"join"}
                  /\ \/ phase'[Of(t)] \in {"connecting", "connected", "failed"}
                     \/ step \in {"wait", "stop"},
               step \in Starting => phase'[Of(t)] \in {"new", "connecting", "connected"},
               phase'[Of(t)] = "closed" => step = "idle"
        PROVE  KeptInv'
    <2>1. pc'[t] = step /\ \A u \in Thread \ {t} : pc'[u] = pc[u]
      BY <1>3
    <2>2. \A i \in Process : Kept(i)' <=> Kept(i)
      BY <1>3 DEF Kept, Running
    <2>3. \A i \in Process : Kept(i)' =>
             \/ server'[i] = server[i] /\ server[i].client # Of(t)
             \/ /\ server'[i].client = Of(t)
                /\ process'[Of(t)] = i
                /\ \/ phase'[Of(t)] \in {"connecting", "connected", "failed"}
                   \/ pc'[t] \in {"wait", "stop"}
      BY <1>2, <1>3, <2>1, <2>2
    <2>4. pc'[t] \in Decided \cup {"join"} =>
             \A i \in Process : Kept(i)' => server'[i].client # Of(t)
      BY <1>3, <2>1, <2>2
    <2> QED
      BY <1>1, <1>3, <2>1, <2>3, <2>4
  <1>4. ASSUME NEW t \in Thread, Raised(t), pc[t] \in Starting, UNCHANGED <<server, process>>,
               pc[t] = "wait" => \A i \in Process : Kept(i) => server[i].client # Of(t)
        PROVE  KeptInv'
    <2>1. PICK step \in {"idle", "stop"} :
                 /\ pc' = [pc EXCEPT ![t] = step]
                 /\ \/ phase' = phase /\ (phase[Of(t)] = "new" => step = "stop")
                    \/ /\ phase[Of(t)] = "connecting"
                       /\ phase' = [phase EXCEPT ![Of(t)] = "failed"]
      BY <1>4, RaisedDoes
    <2>2. /\ phase[Of(t)] \in {"new", "connecting", "connected"} /\ Of(t) \in Client
          /\ phase'[Of(t)] \in {phase[Of(t)], "failed"}
          /\ \A c \in Client \ {Of(t)} : phase'[c] = phase[c]
      BY <1>4, <2>1, Constants DEF KeptInv
    <2>3. \A i \in Process : Kept(i) /\ server[i].client = Of(t) =>
             phase'[Of(t)] \in {"connecting", "connected", "failed"}
      BY <1>2, <1>4, <2>2 DEF Starting
    <2> QED
      BY <1>3, <1>4, <2>1, <2>2, <2>3 DEF Step, Starting, Decided
  <1>5. ASSUME NEW t \in Thread, New(t) \/ NotReady(t) \/ Close(t) \/ Connect(t) \/ EnsureRunning(t)
        PROVE  KeptInv'
    <2>1. pc[t] = "idle" /\ UNCHANGED <<server, process>> /\ Of(t) \in Client
      BY <1>5, Constants DEF New, NotReady, Close, Connect, EnsureRunning
    <2>2. CASE New(t)
      <3>1. \A i \in Process : Kept(i) => server[i].client # Of(t)
        BY <1>2, <2>1, <2>2 DEF New
      <3> QED
        BY <1>3, <2>1, <2>2, <3>1 DEF New, Goto, Step, Starting
    <2>3. CASE NotReady(t)
      BY <1>3, <2>1, <2>3 DEF NotReady, Goto, Step, Starting, Decided
    <2>4. CASE Close(t)
      BY <1>3, <2>1, <2>4 DEF Close, Goto, Step, Starting, Decided
    <2>5. CASE Connect(t)
      <3>1. pc' = [pc EXCEPT ![t] = "idle"]
        BY <2>1, <2>5 DEF Connect
      <3> QED
        BY <1>3, <2>1, <2>5, <3>1 DEF Connect, Step, Starting, Decided
    <2>6. CASE EnsureRunning(t) /\ Returned(t)
      BY <1>3, <2>1, <2>6, ReturnedDoes DEF EnsureRunning, Step, Starting, Decided
    <2>7. CASE EnsureRunning(t) /\ ~Returned(t)
      BY <1>3, <2>1, <2>7 DEF EnsureRunning, Goto, Step, Starting, Decided
    <2> QED
      BY <1>5, <2>2, <2>3, <2>4, <2>5, <2>6, <2>7
  <1>6. ASSUME NEW t \in Thread, Check(t)
        PROVE  KeptInv'
    <2>1. CASE Raised(t)
      BY <1>4, <1>6, <2>1 DEF Check, Starting
    <2>2. CASE ~Raised(t)
      <3>1. PICK step \in {"download", "popen"} : pc' = [pc EXCEPT ![t] = step]
        BY <1>6, <2>2 DEF Check, Goto
      <3>2. pc[t] = "check" /\ UNCHANGED <<server, process, phase>> /\ Of(t) \in Client
        BY <1>6, <2>2, Constants DEF Check
      <3>3. ASSUME NEW i \in Process, Kept(i), server[i].client = Of(t)
            PROVE  FALSE
        <4>1. server[i].bound \cap Ports(Of(t)) = {} /\ Ports(Of(t)) # {}
          BY <1>6, <2>2, Constants DEF Check, PortsFree, Bound
        <4>2. Incomplete(i)
          BY <3>3, <4>1 DEF Kept, Incomplete
        <4>3. PICK u \in Thread : Of(u) = Of(t) /\ pc[u] = "wait"
          BY <3>3, <4>2 DEF PortsInv
        <4> QED
          BY <3>2, <4>3 DEF OneThread
      <3> QED
        BY <1>3, <3>1, <3>2, <3>3 DEF KeptInv, Step, Starting
    <2> QED
      BY <2>1, <2>2
  <1>7. ASSUME NEW t \in Thread, Download(t) \/ Extract(t) \/ Rename(t) \/ Chmod(t)
        PROVE  KeptInv'
    <2>1. UNCHANGED <<server, process>> /\ pc[t] \in Decided \cap Starting
      BY <1>7 DEF Download, Extract, Rename, Chmod, Decided, Starting
    <2>2. CASE Raised(t)
      BY <1>4, <2>1, <2>2 DEF Decided
    <2>3. CASE ~Raised(t)
      <3>1. PICK step \in Decided : pc' = [pc EXCEPT ![t] = step]
        BY <1>7, <2>3 DEF Download, Extract, Rename, Chmod, Goto, Decided
      <3>2. UNCHANGED phase
        BY <1>7, <2>3 DEF Download, Extract, Rename, Chmod
      <3>3. phase[Of(t)] \in {"new", "connecting", "connected"}
        BY <2>1 DEF KeptInv
      <3> QED
        BY <1>2, <1>3, <2>1, <3>1, <3>2, <3>3 DEF Decided, Step, Starting
    <2> QED
      BY <2>2, <2>3
  <1>8. ASSUME NEW t \in Thread, Popen(t)
        PROVE  KeptInv'
    <2>1. pc[t] = "popen" /\ Of(t) \in Client
      BY <1>8, Constants DEF Popen
    <2>2. CASE Raised(t) /\ UNCHANGED <<server, process>>
      BY <1>4, <2>1, <2>2 DEF Starting
    <2>3. CASE ~(Raised(t) /\ UNCHANGED <<server, process>>)
      <3>1. PICK i \in Process :
                   /\ server[i] = Free
                   /\ pc' = [pc EXCEPT ![t] = "wait"] /\ phase' = phase
                   /\ process' = [process EXCEPT ![Of(t)] = i]
                   /\ server'[i] = [client |-> Of(t),
                                    version |-> binary[PathOf(Wanted(Of(t)))].version,
                                    state |-> "running", bound |-> {}, left |-> FALSE]
                   /\ \A j \in Process \ {i} : \/ server'[j] = server[j]
                                               \/ server'[j] = Free /\ server[j].state = "dead"
        BY <1>8, <2>3, PopenDoes
      <3>2. server'[i].client = Of(t) /\ process'[Of(t)] = i /\ pc'[t] = "wait"
        BY <2>1, <3>1
      <3>3. ASSUME NEW j \in Process \ {i}, Kept(j)'
            PROVE  server'[j] = server[j] /\ server[j].client # Of(t)
        <4>1. server'[j] = server[j] /\ Kept(j)
          BY <3>1, <3>3 DEF Kept, Running, Free
        <4> QED
          BY <1>2, <2>1, <4>1 DEF Decided
      <3>4. phase[Of(t)] \in {"new", "connecting", "connected"}
        BY <2>1 DEF KeptInv, Starting
      <3>5. /\ \A u \in Thread \ {t} : pc'[u] = pc[u]
            /\ \A c \in Client \ {Of(t)} : phase'[c] = phase[c] /\ process'[c] = process[c]
        BY <3>1
      <3>6. \A j \in Process : Kept(j)' =>
               \/ server'[j] = server[j] /\ server[j].client # Of(t)
               \/ /\ server'[j].client = Of(t)
                  /\ process'[Of(t)] = j
                  /\ \/ phase'[Of(t)] \in {"connecting", "connected", "failed"}
                     \/ pc'[t] \in {"wait", "stop"}
        BY <3>2, <3>3
      <3>7. /\ pc'[t] \notin Decided \cup {"join"}
            /\ phase'[Of(t)] \in {"new", "connecting", "connected"}
        BY <3>1, <3>2, <3>4 DEF Decided
      <3> QED
        BY <1>1, <3>5, <3>6, <3>7
    <2> QED
      BY <2>2, <2>3
  <1>9. ASSUME NEW t \in Thread, Listens(t) \/ TimesOut(t)
        PROVE  KeptInv'
    <2>1. pc[t] = "wait" /\ UNCHANGED <<server, process>> /\ Of(t) \in Client
      BY <1>9, Constants DEF Listens, TimesOut
    <2>2. CASE Listens(t)
      <3>1. phase[Of(t)] \in {"new", "connecting", "connected"}
        BY <2>1 DEF KeptInv, Starting
      <3> QED
        BY <1>3, <2>1, <2>2, <3>1, ReturnedDoes DEF Listens, Step, Starting, Decided
    <2>3. CASE TimesOut(t)
      <3>1. \A i \in Process : Kept(i) => server[i].client # Of(t)
        BY <1>2, <2>3, Constants DEF TimesOut, InTurn, Kept
      <3> QED
        BY <1>4, <2>1, <2>3, <3>1 DEF TimesOut, Starting
    <2> QED
      BY <1>9, <2>2, <2>3
  <1>10. ASSUME NEW t \in Thread, Stop(t)
        PROVE  KeptInv'
    <2>1. /\ pc[t] = "stop" /\ pc' = [pc EXCEPT ![t] = "join"] /\ UNCHANGED <<process, phase>>
          /\ Of(t) \in Client
      BY <1>10, Constants DEF Stop, Goto
    <2>2. \A i \in Process : server'[i] = server[i] \/ server'[i].state = "terminated"
      BY <1>10, Constants DEF Stop, Server
    <2>3. \A i \in Process : i = process[Of(t)] => server'[i].state # "running"
      BY <1>10, Constants DEF Stop, Server, Running
    <2>4. ASSUME NEW i \in Process, Kept(i)'
          PROVE  server'[i] = server[i] /\ server[i].client # Of(t)
      <3>1. server'[i] = server[i] /\ Kept(i) /\ i # process[Of(t)]
        BY <2>2, <2>3, <2>4 DEF Kept, Running
      <3> QED
        BY <1>2, <3>1
    <2>5. phase[Of(t)] # "closed"
      BY <2>1 DEF KeptInv
    <2>6. pc'[t] = "join" /\ \A u \in Thread \ {t} : pc'[u] = pc[u]
      BY <2>1
    <2>7. pc'[t] \notin Starting
      BY <2>6 DEF Starting
    <2> QED
      BY <1>1, <2>1, <2>4, <2>5, <2>6, <2>7
  <1>11. ASSUME NEW t \in Thread, Join(t)
        PROVE  KeptInv'
    <2>1. /\ pc[t] = "join" /\ pc' = [pc EXCEPT ![t] = "idle"]
          /\ process' = [process EXCEPT ![Of(t)] = None]
          /\ phase' = [phase EXCEPT ![Of(t)] = IF @ = "new" THEN @ ELSE "closed"]
          /\ \A j \in Process : server'[j] = server[j] \/ server'[j] = Free
      BY <1>11, JoinDoes DEF Join
    <2>2. ASSUME NEW i \in Process, Kept(i)'
          PROVE  server'[i] = server[i] /\ server[i].client # Of(t)
      <3>1. server'[i] = server[i] /\ Kept(i)
        BY <2>1, <2>2 DEF Kept, Running, Free
      <3> QED
        BY <1>2, <2>1, <3>1
    <2>3. pc'[t] = "idle" /\ \A u \in Thread \ {t} : pc'[u] = pc[u]
      BY <2>1
    <2>4. \A c \in Client \ {Of(t)} : phase'[c] = phase[c] /\ process'[c] = process[c]
      BY <2>1
    <2> QED
      BY <1>1, <2>2, <2>3, <2>4 DEF Decided, Starting
  <1>12. ASSUME UNCHANGED <<process, phase, pc>>,
                \A i \in Process : Kept(i)' => Kept(i) /\ server'[i].client = server[i].client
         PROVE  KeptInv'
    BY <1>12 DEF KeptInv
  <1>13. ASSUME NEW i \in Process, Bind(i) \/ Crash(i) \/ Exit(i)
         PROVE  KeptInv'
    <2>1. UNCHANGED <<process, phase, pc>>
      BY <1>13 DEF Bind, Crash, Exit
    <2>2. CASE Dies(i)
      <3>1. \A j \in Process : server'[j] = server[j] \/ server'[j].state # "running"
        BY <2>2, DiesDoes DEF Free
      <3> QED
        BY <1>12, <2>1, <3>1 DEF Kept, Running
    <2>3. CASE ~Dies(i)
      <3>1. PICK p \in Ports(server[i].client) : server' = [server EXCEPT ![i].bound = @ \cup {p}]
        BY <1>13, <2>3, BindDoes DEF Crash, Exit
      <3>2. server[i] \in Server /\ \A j \in Process \ {i} : server'[j] = server[j]
        BY <3>1
      <3>3. /\ server'[i].client = server[i].client /\ server'[i].state = server[i].state
            /\ server'[i].left = server[i].left
        BY <3>1, <3>2 DEF Server
      <3> QED
        BY <1>12, <2>1, <3>2, <3>3 DEF Kept, Running
    <2> QED
      BY <2>2, <2>3
  <1>14. ASSUME NEW c \in Client, Kill(c)
         PROVE  KeptInv'
    <2>1. /\ pc' = [t \in Thread |-> IF Of(t) = c THEN "idle" ELSE pc[t]]
          /\ process' = [process EXCEPT ![c] = None]
          /\ phase' = [phase EXCEPT ![c] = "new"]
      BY <1>14 DEF Kill
    <2>2. \A i \in Process : Kept(i)' => /\ Kept(i) /\ server'[i].client = server[i].client
                                         /\ server[i].client # c
      BY <1>14, KillDoes DEF Kept, Running, Free
    <2>3. ASSUME NEW t \in Thread
          PROVE  \/ pc'[t] = "idle" /\ phase'[Of(t)] = "new"
                 \/ pc'[t] = pc[t] /\ phase'[Of(t)] = phase[Of(t)]
      BY <2>1, Constants
    <2>4. ASSUME NEW i \in Process, Kept(i)'
          PROVE  /\ process'[server'[i].client] = i
                 /\ \/ phase'[server'[i].client] \in {"connecting", "connected", "failed"}
                    \/ \E t \in Thread : Of(t) = server'[i].client /\ pc'[t] \in {"wait", "stop"}
      <3>1. /\ Kept(i) /\ server'[i].client = server[i].client
            /\ server[i].client \in Client \ {c}
        BY <2>2, <2>4 DEF Kept, Owned
      <3> QED
        BY <2>1, <3>1 DEF KeptInv
    <2> QED
      BY <2>2, <2>3, <2>4 DEF KeptInv, Decided, Starting
  <1>15. CASE UNCHANGED vars
    BY <1>12, <1>15 DEF vars, Kept, Running
  <1> QED
    BY <1>5, <1>6, <1>7, <1>8, <1>9, <1>10, <1>11, <1>13, <1>14, <1>15 DEF Next, Starts

\* stop terminates the one process that the client knows: nothing that the client starts,
\* after a crash or otherwise, makes it forget one that runs, and whatever fails on the
\* way leads to stop in the end.
THEOREM StopsItsServer == ASSUME InTurn, OneThread PROVE FairSpec => []StopsServer
  <1>1. TypeInv /\ KeptInv => StopsServer
    <2> SUFFICES ASSUME TypeInv, KeptInv, NEW c \in Client, phase[c] \in {"new", "closed"},
                        \A t \in Thread : Of(t) = c => pc[t] = "idle",
                        NEW i \in Process, Running(i), server[i].client = c
                 PROVE  server[i].left
      BY DEF StopsServer
    <2> QED
      BY DEF KeptInv, Kept
  <1>2. Unfair => []TurnsInv
    BY Types, TurnsInit, TurnsNext, PTL DEF Unfair
  <1>3. Unfair => []PortsInv
    BY <1>2, Types, PortsInit, PortsNext, PTL DEF Unfair
  <1> QED
    BY <1>1, <1>3, Types, KeptInit, KeptNext, PTL DEF FairSpec, Unfair
=============================================================================
