-------------------------- MODULE ConnectionProofs --------------------------
(***************************************************************************)
(* What holds of Connection for every number of users, sessions, tokens    *)
(* and retries, whatever the network does.                                 *)
(***************************************************************************)
EXTENDS Connection, TLAPS

USE ConstantsOK DEF Session, NoPost, ownerVars, sessionVars, refreshVars, userVars, oauthVars,
                    refreshFrame, userFrame
-----------------------------------------------------------------------------
(* The inductive invariant, in parts *)

OwnerOK ==
    /\ kind \in Kinds
    /\ pc_owner \in {"closed", "meta", "checks", "open", "failed", "drop_session",
                     "drop_channel", "disconnect"}
    /\ opened \in 0..MaxSessions /\ client \in 0..opened /\ grpc \in 0..opened
    /\ closed \subseteq 1..opened /\ strays \subseteq 1..opened /\ shut \subseteq 1..opened

TokensOK ==
    /\ issued \in Nat /\ used \subseteq Nat /\ expired \subseteq Nat
    /\ token \in [Session -> Nat]
    /\ pc_refresh \in [Session -> {"none", "sleep", "post", "dead"}]
    /\ presented \in [Session -> [session : Nat, token : Nat]]

UsersOK ==
    /\ pc_user \in [User -> {"idle", "build", "send", "call", "failed"}]
    /\ stub \in [User -> Nat] /\ count \in [User -> Nat]

FlagsOK == connected \in BOOLEAN /\ disturbed \in [User -> BOOLEAN]

TypeInv == OwnerOK /\ TokensOK /\ UsersOK /\ FlagsOK

\* The sessions and the tokens that are known anywhere were opened and issued.
Known ==
    /\ \A x \in used : x <= issued
    /\ \A s \in Session : token[s] <= issued
    /\ \A s \in Session : presented[s].session <= opened /\ presented[s].token <= issued

\* What connect has opened and close has not closed yet is what the owner's place in
\* the two methods says: every session is in use, closed or a stray, and none is two
\* of these.  Without a close after a failure a session may be neither.
Connecting == pc_owner \in {"meta", "checks", "open"}
LeakInv ==
    /\ "no_close" \notin Env => 1..opened \subseteq closed \cup {client} \cup strays
    /\ strays \cap (closed \cup {client}) = {}
    /\ Connecting => client # 0 /\ client \notin closed \cup shut
    /\ pc_owner = "drop_session" => client = 0 \/ client \in closed
    /\ pc_owner \in {"closed", "drop_channel", "disconnect"} => client = 0
    /\ pc_owner \in {"closed", "disconnect"} => grpc = 0
    /\ pc_owner \in {"checks", "open"} => grpc = client

\* A call that no close has disturbed was made while the connection is open, and a
\* gRPC call of that kind is bound to the channel in use.
CallInv ==
    /\ connected => pc_owner = "open" \/ Closing
    /\ \A u \in User : pc_user[u] # "idle" /\ ~disturbed[u] =>
          /\ pc_owner = "open" /\ pc_user[u] # "failed"
          /\ pc_user[u] = "call" => stub[u] = grpc

\* The refresh token of the session in use is unused, and a thread will present it, or
\* one that is as good: no thread of an earlier session can take it away without
\* putting a fresh one in its place.
TokenInv ==
    /\ kind = "client" => used = {}
    /\ opened = 0 => used = {} /\ \A t \in Session : pc_refresh[t] = "none"
    /\ InUse => /\ token[client] \notin used
                /\ \E t \in Session : pc_refresh[t] = "sleep" \/ Renewing(t)

IInv == TypeInv /\ Known /\ LeakInv /\ CallInv /\ TokenInv
-----------------------------------------------------------------------------
THEOREM InitInv == Init => IInv
  <1> SUFFICES ASSUME Init PROVE IInv
    OBVIOUS
  <1>1. TypeInv
    <2>1. OwnerOK
      BY DEF Init, OwnerOK
    <2>2. TokensOK
      BY DEF Init, TokensOK
    <2>3. UsersOK
      BY DEF Init, UsersOK
    <2>4. FlagsOK
      BY Zenon DEF Init, FlagsOK
    <2> QED
      BY <2>1, <2>2, <2>3, <2>4 DEF TypeInv
  <1>5. Known
    BY DEF Init, Known
  <1>2. LeakInv
    BY DEF Init, LeakInv, Connecting
  <1>3. CallInv
    BY DEF Init, CallInv
  <1>4. TokenInv
    BY DEF Init, TokenInv, InUse
  <1> QED
    BY <1>1, <1>2, <1>3, <1>4, <1>5 DEF IInv

(* Type correctness *)

\* What a refresh thread does to the sessions.
StraysOnly == UNCHANGED sessionVars \/ (kind = "client" /\ NewStray)

LEMMA StraysType ==
    ASSUME OwnerOK, UNCHANGED <<kind, ownerVars>>, StraysOnly
    PROVE  OwnerOK' /\ opened \in Nat /\ opened' \in Nat /\ opened <= opened'
  <1>1. opened \in Nat /\ opened' \in 0..MaxSessions /\ opened <= opened'
    BY DEF OwnerOK, StraysOnly, NewStray
  <1>2. 0..opened \subseteq 0..opened' /\ 1..opened \subseteq 1..opened'
    BY <1>1
  <1>3. strays' \subseteq strays \cup 1..opened'
    BY <1>1 DEF StraysOnly, NewStray
  <1> QED
    BY <1>1, <1>2, <1>3 DEF OwnerOK

\* A session that is known stays known.
LEMMA PresentedStays ==
    ASSUME OwnerOK, TokensOK, Known, opened' \in Nat, opened <= opened'
    PROVE  \A s \in Session : presented[s].session <= opened'
  <1>1. opened \in Nat /\ \A s \in Session : presented[s].session \in Nat
    BY DEF OwnerOK, TokensOK
  <1> QED
    BY <1>1 DEF Known

LEMMA TypeOwner == IInv /\ Owner => TypeInv' /\ Known'
  <1> SUFFICES ASSUME IInv, Owner PROVE TypeInv' /\ Known'
    OBVIOUS
  <1> USE DEF Fails
  <1>1. OwnerOK'
    <2> USE DEF IInv, TypeInv, OwnerOK, LeakInv, Connecting
    <2>1. CASE OpenRest
      <3>1. opened' \in 0..MaxSessions /\ opened <= opened' /\ closed' = closed
        BY <2>1 DEF OpenRest, FetchFails, NewStray, ConstantsOK
      <3>2. client' \in {client, opened'} /\ grpc' = grpc /\ shut' = shut /\ kind' = kind
        BY <2>1 DEF OpenRest
      <3>4. strays' \subseteq strays \cup {opened'} /\ (strays' # strays => opened' > opened)
        BY <2>1 DEF OpenRest, FetchFails, NewStray
      <3>3. pc_owner' \in {"failed", "meta"}
        BY <2>1 DEF OpenRest
      <3> QED
        BY <3>1, <3>2, <3>3, <3>4
    <2>2. CASE OpenGrpc
      BY <2>2 DEF OpenGrpc
    <2>3. CASE Checks
      BY <2>3 DEF Checks
    <2>4. CASE CloseSession
      BY <2>4 DEF CloseSession, ToClose
    <2>5. CASE DropSession
      BY <2>5 DEF DropSession
    <2>6. CASE DropChannel
      BY <2>6 DEF DropChannel
    <2>7. CASE Disconnect
      BY <2>7 DEF Disconnect
    <2> QED
      BY <2>1, <2>2, <2>3, <2>4, <2>5, <2>6, <2>7 DEF Owner
  <1>2. UsersOK'
    BY DEF Owner, OpenRest, OpenGrpc, Checks, CloseSession, DropSession, DropChannel,
           Disconnect, IInv, TypeInv, UsersOK
  <1>3. FlagsOK'
    BY Zenon DEF Owner, OpenRest, OpenGrpc, Checks, CloseSession, DropSession, DropChannel,
                 Disconnect, Disturb, AfterClose, IInv, TypeInv, FlagsOK
  <1>4. TokensOK' /\ Known'
    <2>3. opened' \in Nat /\ opened <= opened'
      BY DEF Owner, OpenRest, FetchFails, NewStray, OpenGrpc, Checks, CloseSession,
             DropSession, DropChannel, Disconnect, IInv, TypeInv, OwnerOK
    <2>4. \A s \in Session : presented[s].session <= opened'
      BY <2>3, PresentedStays DEF IInv, TypeInv
    <2>1. CASE UNCHANGED <<token, refreshVars, oauthVars>>
      BY <2>1, <2>4 DEF IInv, TypeInv, TokensOK, Known
    <2>2. CASE OpenRest /\ ~Fails
      <3>1. /\ opened' = opened + 1 /\ opened' \in Session
            /\ token' = [token EXCEPT ![opened'] = SessionToken]
            /\ pc_refresh' = [pc_refresh EXCEPT ![opened'] = "sleep"]
            /\ UNCHANGED <<presented, used, expired>>
        BY <2>2 DEF OpenRest, IInv, TypeInv, OwnerOK, ConstantsOK
      <3>2. /\ SessionToken \in Nat /\ SessionToken <= issued'
            /\ issued \in Nat /\ issued' \in Nat /\ issued <= issued'
        BY <2>2 DEF OpenRest, SessionToken, IInv, TypeInv, TokensOK
      <3>3. TokensOK'
        BY <3>1, <3>2 DEF IInv, TypeInv, TokensOK
      <3>4. \A s \in Session : token'[s] <= issued'
        BY <3>1, <3>2 DEF IInv, TypeInv, TokensOK, Known
      <3>5. /\ \A x \in used' : x <= issued'
            /\ \A s \in Session : /\ presented'[s].session <= opened'
                                  /\ presented'[s].token <= issued'
        <4>1. \A x \in used' : x <= issued'
          BY <3>1, <3>2 DEF IInv, TypeInv, TokensOK, Known
        <4>2. ASSUME NEW s \in Session
              PROVE  /\ presented[s].session \in Nat /\ presented[s].session <= opened
                     /\ presented[s].token \in Nat /\ presented[s].token <= issued
          BY DEF IInv, TypeInv, TokensOK, Known
        <4>3. opened \in Nat
          BY DEF IInv, TypeInv, OwnerOK
        <4> QED
          BY <3>1, <3>2, <4>1, <4>2, <4>3
      <3> QED
        BY <3>3, <3>4, <3>5 DEF Known
    <2> QED
      BY <2>1, <2>2 DEF Owner, OpenRest, OpenGrpc, Checks, CloseSession, DropSession,
                        DropChannel, Disconnect
  <1> QED
    BY <1>1, <1>2, <1>3, <1>4 DEF TypeInv

LEMMA TypeRefresh == IInv /\ (\E t \in Session : Refresh(t)) => TypeInv' /\ Known'
  <1> SUFFICES ASSUME IInv, NEW t \in Session, Refresh(t) PROVE TypeInv' /\ Known'
    OBVIOUS
  <1>1. UNCHANGED <<ownerVars, userVars, kind, expired>>
    BY DEF Refresh, Wake, Refreshed, Refused, RefreshFails
  <1>5. StraysOnly
    BY DEF Refresh, Wake, Refreshed, Refused, RefreshFails, StraysOnly
  <1>2. OwnerOK' /\ UsersOK' /\ FlagsOK'
    BY <1>1, <1>5, StraysType DEF IInv, TypeInv, UsersOK, FlagsOK
  <1>3. /\ opened \in Nat /\ opened' \in Nat /\ opened <= opened'
        /\ client \in Nat /\ client <= opened
        /\ client # 0 => client \in Session
    BY <1>1, <1>5, StraysType DEF IInv, TypeInv, OwnerOK
  <1>6. \A s \in Session : presented[s].session <= opened'
    BY <1>3, PresentedStays DEF IInv, TypeInv
  <1>4. TokensOK' /\ Known'
    <2> USE <1>1, <1>3 DEF IInv, TypeInv, TokensOK, Known
    <2>1. CASE Wake(t)
      <3> DEFINE p == IF kind = "client" THEN NoPost
                                         ELSE [session |-> client, token |-> token[client]]
      <3>1. /\ presented' = [presented EXCEPT ![t] = p]
            /\ p \in [session : Nat, token : Nat] /\ p.session <= opened /\ p.token <= issued
        <4>1. client \in Session /\ token[client] \in Nat /\ token[client] <= issued
          BY <2>1 DEF Wake, Due
        <4>2. p \in [session : Nat, token : Nat] /\ p.session <= opened /\ p.token <= issued
          BY <4>1
        <4> QED
          BY <2>1, <4>2 DEF Wake
      <3> HIDE DEF p
      <3>2. /\ presented' \in [Session -> [session : Nat, token : Nat]]
            /\ pc_refresh' \in [Session -> {"none", "sleep", "post", "dead"}]
            /\ UNCHANGED <<token, issued, used>>
        <4>1. presented' \in [Session -> [session : Nat, token : Nat]]
          BY <3>1
        <4>2. pc_refresh' \in [Session -> {"none", "sleep", "post", "dead"}]
          BY <2>1 DEF Wake
        <4> QED
          BY <2>1, <4>1, <4>2 DEF Wake
      <3>3. \A s \in Session : /\ presented'[s].session <= opened'
                               /\ presented'[s].token <= issued'
        BY <3>1, <3>2, <1>6
      <3> QED
        BY <3>2, <3>3
    <2>2. CASE Refreshed(t)
      <3>1. /\ issued' = issued + 1 /\ issued' \in Nat
            /\ used' \subseteq used \cup {presented[t].token}
            /\ presented' = [presented EXCEPT ![t] = NoPost]
        BY <2>2 DEF Refreshed
      <3>2. token' = token \/ (client \in Session /\ token' = [token EXCEPT ![client] = issued'])
        BY <2>2 DEF Refreshed, Renewed
      <3>3. pc_refresh' \in [Session -> {"none", "sleep", "post", "dead"}]
        BY <2>2 DEF Refreshed
      <3>4. TokensOK'
        <4>1. presented[t].token \in Nat /\ presented[t].token <= issued
          OBVIOUS
        <4>2. used' \subseteq Nat
          BY <3>1, <4>1
        <4>3. token' \in [Session -> Nat]
          BY <3>1, <3>2
        <4>4. presented' \in [Session -> [session : Nat, token : Nat]]
          BY <3>1
        <4> QED
          BY <3>1, <3>3, <4>2, <4>3, <4>4
      <3>5. /\ \A x \in used' : x <= issued'
            /\ \A s \in Session : token'[s] <= issued'
        <4>1. \A x \in used' : x <= issued'
          BY <3>1
        <4>2. ASSUME NEW s \in Session PROVE token[s] <= issued'
          <5>1. issued \in Nat /\ token[s] \in Nat /\ token[s] <= issued
            OBVIOUS
          <5> QED
            BY <5>1, <3>1
        <4>3. ASSUME NEW s \in Session PROVE token'[s] <= issued'
          <5>1. CASE token' = token
            BY <5>1, <4>2
          <5>2. CASE client \in Session /\ token' = [token EXCEPT ![client] = issued']
            <6>1. token'[s] \in {issued', token[s]}
              BY <5>2
            <6>2. issued' <= issued'
              BY <3>1
            <6> QED
              BY <6>1, <6>2, <4>2
          <5> QED
            BY <3>2, <5>1, <5>2
        <4> QED
          BY <4>1, <4>3
      <3>6. ASSUME NEW s \in Session
            PROVE  presented'[s].session <= opened' /\ presented'[s].token <= issued'
        <4>1. /\ issued \in Nat /\ presented[s].token \in Nat /\ presented[s].token <= issued
              /\ presented[s].session <= opened'
          BY <1>6
        <4>2. presented'[s] \in {NoPost, presented[s]}
          BY <3>1
        <4>3. CASE presented'[s] = NoPost
          BY <4>3, <3>1
        <4>4. CASE presented'[s] = presented[s]
          <5>1. issued' = issued + 1
            BY <3>1
          <5> QED
            BY <4>1, <4>4, <5>1
        <4> QED
          BY <4>2, <4>3, <4>4
      <3> QED
        BY <3>4, <3>5, <3>6
    <2>3. CASE Refused(t) \/ RefreshFails(t)
      <3>1. /\ presented' = [presented EXCEPT ![t] = NoPost]
            /\ pc_refresh' \in [Session -> {"none", "sleep", "post", "dead"}]
            /\ UNCHANGED <<token, issued, used>>
        BY <2>3 DEF Refused, RefreshFails, AfterHTTPError
      <3>2. presented' \in [Session -> [session : Nat, token : Nat]]
        BY <3>1
      <3>3. \A s \in Session : /\ presented'[s].session <= opened'
                               /\ presented'[s].token <= issued'
        BY <3>1, <1>6
      <3> QED
        BY <3>1, <3>2, <3>3
    <2> QED
      BY <2>1, <2>2, <2>3 DEF Refresh
  <1> QED
    BY <1>2, <1>4 DEF TypeInv

LEMMA TypeRequest == IInv /\ (\E u \in User : Request(u)) => TypeInv' /\ Known'
  <1> SUFFICES ASSUME IInv, NEW u \in User, Request(u) PROVE TypeInv' /\ Known'
    OBVIOUS
  <1>1. UNCHANGED userFrame
    BY DEF Request, Check, Build, Send, Call, Caught
  <1>2. OwnerOK' /\ TokensOK' /\ Known'
    BY <1>1 DEF IInv, TypeInv, OwnerOK, TokensOK, Known
  <1>3. UsersOK'
    <2> USE <1>1 DEF IInv, TypeInv, OwnerOK, UsersOK, Goto
    <2>1. CASE Check(u)
      <3>1. stub' \in [User -> Nat] /\ count' \in [User -> Nat]
        BY <2>1 DEF Check
      <3>2. pc_user' \in [User -> {"idle", "build", "send", "call", "failed"}]
        BY <2>1 DEF Check
      <3> QED
        BY <3>1, <3>2
    <2>2. CASE Call(u)
      <3>1. CASE count' = count
        BY <2>2, <3>1 DEF Call
      <3>2. CASE count' = [count EXCEPT ![u] = count[u] + 1] /\ UNCHANGED pc_user
        BY <2>2, <3>2 DEF Call
      <3> QED
        BY <2>2, <3>1, <3>2 DEF Call
    <2>3. CASE Build(u) \/ Send(u) \/ Caught(u)
      BY <2>3 DEF Build, Send, Caught
    <2> QED
      BY <2>1, <2>2, <2>3 DEF Request
  <1>4. FlagsOK'
    <2> USE DEF IInv, TypeInv, FlagsOK
    <2>1. Closing \in BOOLEAN
      BY DEF Closing
    <2>2. CASE Check(u)
      BY <1>1, <2>1, <2>2, Zenon DEF Check
    <2>3. CASE Build(u) \/ Send(u) \/ Call(u) \/ Caught(u)
      BY <1>1, <2>3, Zenon DEF Build, Send, Call, Caught
    <2> QED
      BY <2>2, <2>3 DEF Request
  <1> QED
    BY <1>2, <1>3, <1>4 DEF TypeInv
-----------------------------------------------------------------------------
(* What close leaves behind *)

LEMMA LeakOwner == IInv /\ Owner => LeakInv'
  <1> SUFFICES ASSUME IInv, Owner PROVE LeakInv'
    OBVIOUS
  <1> USE DEF IInv, TypeInv, OwnerOK, LeakInv, Connecting, Fails
  <1>1. CASE OpenRest
    BY <1>1 DEF OpenRest, MayConnect, FetchFails, NewStray
  <1>2. CASE OpenGrpc
    BY <1>2 DEF OpenGrpc
  <1>3. CASE Checks
    BY <1>3 DEF Checks
  <1>4. CASE CloseSession
    BY <1>4 DEF CloseSession, ToClose
  <1>5. CASE DropSession
    BY <1>5 DEF DropSession
  <1>6. CASE DropChannel
    BY <1>6 DEF DropChannel
  <1>7. CASE Disconnect
    BY <1>7 DEF Disconnect
  <1> QED
    BY <1>1, <1>2, <1>3, <1>4, <1>5, <1>6, <1>7 DEF Owner

LEMMA LeakRefresh == OwnerOK /\ LeakInv /\ UNCHANGED ownerVars /\ StraysOnly => LeakInv'
  <1> SUFFICES ASSUME OwnerOK, LeakInv, UNCHANGED ownerVars, StraysOnly PROVE LeakInv'
    OBVIOUS
  <1>1. CASE UNCHANGED sessionVars
    BY <1>1 DEF LeakInv, Connecting
  <1>2. CASE NewStray
    <2>1. /\ opened \in Nat /\ opened + 1 \notin closed \cup {client}
          /\ 1..opened' = 1..opened \cup {opened'} /\ strays' = strays \cup {opened'}
      BY <1>2 DEF OwnerOK, NewStray
    <2>2. opened' = opened + 1
      BY <1>2 DEF NewStray
    <2> QED
      BY <2>1, <2>2 DEF LeakInv, Connecting
  <1> QED
    BY <1>1, <1>2 DEF StraysOnly
-----------------------------------------------------------------------------
(* The calls that a close disturbs *)

LEMMA CallOwner == IInv /\ Owner => CallInv'
  <1> SUFFICES ASSUME IInv, Owner PROVE CallInv'
    OBVIOUS
  <1> USE DEF IInv, TypeInv, OwnerOK, UsersOK, CallInv, Closing
  <1>1. CASE OpenRest
    BY <1>1 DEF OpenRest, MayConnect, Fails
  <1>2. CASE OpenGrpc
    BY <1>2 DEF OpenGrpc, Fails
  <1>3. CASE Checks
    BY <1>3 DEF Checks, Fails
  <1>4. CASE CloseSession
    <2>1. \A u \in User : disturbed'[u] = (disturbed[u] \/ pc_user[u] # "idle")
      BY <1>4 DEF CloseSession, Disturb
    <2>2. \A u \in User : pc_user'[u] = "idle" \/ disturbed'[u]
      BY <1>4, <2>1 DEF CloseSession
    <2>3. connected' => pc_owner' = "drop_session"
      BY <1>4 DEF CloseSession
    <2> QED
      BY <2>2, <2>3
  <1>5. CASE DropSession
    BY <1>5 DEF DropSession
  <1>6. CASE DropChannel
    BY <1>6 DEF DropChannel
  <1>7. CASE Disconnect
    BY <1>7 DEF Disconnect, AfterClose
  <1> QED
    BY <1>1, <1>2, <1>3, <1>4, <1>5, <1>6, <1>7 DEF Owner

LEMMA CallRequest == IInv /\ (\E u \in User : Request(u)) => CallInv'
  <1> SUFFICES ASSUME IInv, NEW u \in User, Request(u) PROVE CallInv'
    OBVIOUS
  <1>1. UNCHANGED ownerVars
    BY DEF Request, Check, Build, Send, Call, Caught
  <1>2. connected' => pc_owner' = "open" \/ Closing'
    BY <1>1 DEF IInv, CallInv, Closing
  <1>3. ASSUME NEW v \in User, v # u
        PROVE  /\ pc_user'[v] = pc_user[v] /\ stub'[v] = stub[v]
               /\ disturbed'[v] = disturbed[v]
    <2>1. /\ DOMAIN pc_user = User /\ pc_user = [w \in User |-> pc_user[w]]
          /\ DOMAIN stub = User /\ stub = [w \in User |-> stub[w]]
          /\ DOMAIN disturbed = User /\ disturbed = [w \in User |-> disturbed[w]]
      BY DEF IInv, TypeInv, UsersOK, FlagsOK
    <2>2. /\ \E x : pc_user' = [pc_user EXCEPT ![u] = x] \/ pc_user' = pc_user
          /\ \E x : stub' = [stub EXCEPT ![u] = x] \/ stub' = stub
          /\ \E x : disturbed' = [disturbed EXCEPT ![u] = x] \/ disturbed' = disturbed
      BY DEF Request, Check, Build, Send, Call, Caught, Goto
    <2> QED
      BY <1>3, <2>1, <2>2
  <1>4. ASSUME pc_user'[u] # "idle", ~disturbed'[u]
        PROVE  /\ pc_owner' = "open" /\ pc_user'[u] # "failed"
               /\ pc_user'[u] = "call" => stub'[u] = grpc'
    <2> USE <1>1, <1>4 DEF IInv, TypeInv, OwnerOK, UsersOK, LeakInv, Connecting, CallInv, Goto
    <2>1. CASE Check(u)
      <3>1. disturbed' = [disturbed EXCEPT ![u] = Closing] /\ connected
        BY <2>1 DEF Check
      <3>2. disturbed'[u] = Closing
        BY <3>1 DEF FlagsOK
      <3>3. pc_owner = "open" /\ grpc = client /\ client # 0
        BY <3>1, <3>2
      <3>4. pc_user'[u] \in {"build", "call"} /\ (pc_user'[u] = "call" => stub'[u] = grpc)
        BY <2>1, <3>3 DEF Check
      <3> QED
        BY <3>3, <3>4
    <2>2. CASE Build(u)
      BY <2>2 DEF Build
    <2>3. CASE Send(u)
      BY <2>3 DEF Send
    <2>4. CASE Call(u)
      <3>1. pc_user[u] = "call" /\ disturbed'[u] = disturbed[u] /\ stub' = stub
        BY <2>4 DEF Call
      <3>2. pc_owner = "open" /\ stub[u] = grpc /\ stub[u] \notin shut
        BY <3>1
      <3> QED
        BY <2>4, <3>1, <3>2 DEF Call
    <2>5. CASE Caught(u)
      BY <2>5 DEF Caught
    <2> QED
      BY <2>1, <2>2, <2>3, <2>4, <2>5 DEF Request
  <1> QED
    BY <1>1, <1>2, <1>3, <1>4 DEF CallInv, IInv

LEMMA CallUnchanged == CallInv /\ UNCHANGED <<ownerVars, userVars>> => CallInv'
  BY DEF CallInv, Closing
-----------------------------------------------------------------------------
(* The tokens of the session in use *)

LEMMA TokenOwner == IInv /\ Owner => TokenInv'
  <1> SUFFICES ASSUME IInv, Owner PROVE TokenInv'
    OBVIOUS
  <1>1. CASE OpenRest /\ ~Fails
    <2>1. /\ opened' = opened + 1 /\ client' = opened' /\ opened' \in Session
          /\ token' = [token EXCEPT ![opened'] = SessionToken]
          /\ pc_refresh' = [pc_refresh EXCEPT ![opened'] = "sleep"]
          /\ UNCHANGED <<used, closed, kind>>
      BY <1>1 DEF OpenRest, IInv, TypeInv, OwnerOK, ConstantsOK
    <2>2. pc_refresh'[client'] = "sleep" /\ token'[client'] = SessionToken
      BY <2>1 DEF IInv, TypeInv, TokensOK
    <2>3. InUse' => SessionToken \notin used
      <3>1. CASE kind = "bearer"
        BY <3>1, <2>1 DEF InUse, IInv, TypeInv, OwnerOK, TokenInv
      <3>2. CASE kind # "bearer"
        BY <3>2 DEF SessionToken, IInv, TypeInv, TokensOK, Known
      <3> QED
        BY <3>1, <3>2
    <2>4. opened' # 0 /\ (kind = "client" => used = {})
      BY <2>1 DEF IInv, TypeInv, OwnerOK, TokenInv
    <2> QED
      BY <2>1, <2>2, <2>3, <2>4 DEF TokenInv
  <1>2. CASE UNCHANGED <<kind, client, opened, closed, token, refreshVars, used>>
    BY <1>2 DEF IInv, TokenInv, InUse, Renewing, Doomed
  <1>3. CASE CloseSession \/ DropSession
    <2>1. ~InUse'
      BY <1>3 DEF CloseSession, ToClose, DropSession, InUse
    <2>2. UNCHANGED <<kind, opened, pc_refresh, used>>
      BY <1>3 DEF CloseSession, DropSession
    <2> QED
      BY <2>1, <2>2 DEF IInv, TokenInv
  <1>4. CASE OpenRest /\ Fails /\ FetchFails
    <2>1. UNCHANGED <<kind, client, closed, token, refreshVars, used>> /\ kind # "bearer"
      BY <1>4 DEF OpenRest, Fails, FetchFails
    <2>2. opened' # 0
      BY <1>4 DEF FetchFails, NewStray, IInv, TypeInv, OwnerOK
    <2> QED
      BY <2>1, <2>2 DEF IInv, TokenInv, InUse, Renewing, Doomed
  <1> QED
    BY <1>1, <1>2, <1>3, <1>4
    DEF Owner, OpenRest, OpenGrpc, Checks, DropChannel, Disconnect, Fails

LEMMA TokenRefresh == IInv /\ (\E t \in Session : Refresh(t)) => TokenInv'
  <1> SUFFICES ASSUME IInv, NEW t \in Session, Refresh(t) PROVE TokenInv'
    OBVIOUS
  <1>1. UNCHANGED <<kind, client, closed>> /\ pc_refresh[t] \in {"sleep", "post"} /\ StraysOnly
    BY DEF Refresh, Wake, Refreshed, Refused, RefreshFails, StraysOnly
  <1>2. opened' # 0 /\ (kind = "bearer" => opened' = opened)
    BY <1>1 DEF IInv, TypeInv, OwnerOK, TokenInv, StraysOnly, NewStray
  <1>3. kind = "client" => used = {} /\ used' = {}
    BY DEF Refresh, Wake, Refreshed, Refused, RefreshFails, IInv, TokenInv
  <1>4. InUse' = InUse
    BY <1>1, <1>2 DEF InUse
  <1>5. ASSUME InUse
        PROVE  /\ token'[client] \notin used'
               /\ \E s \in Session : pc_refresh'[s] = "sleep" \/ Renewing(s)'
    <2> USE <1>1, <1>5 DEF IInv, TypeInv, TokensOK
    <2>1. /\ client \in Session /\ client \notin closed /\ token[client] \notin used
          /\ 0 \notin closed
      BY DEF OwnerOK, InUse, TokenInv
    <2>2. CASE Wake(t)
      <3>1. /\ pc_refresh'[t] = "post"
            /\ presented'[t] = IF kind = "client" THEN NoPost
                               ELSE [session |-> client, token |-> token[client]]
            /\ UNCHANGED <<token, used>>
        BY <2>2 DEF Wake
      <3>2. Renewing(t)'
        <4>1. CASE kind = "client"
          BY <3>1, <4>1, <2>1, <1>3 DEF Renewing, Doomed
        <4>2. CASE kind # "client"
          BY <3>1, <4>2, <2>1 DEF Renewing, Doomed
        <4> QED
          BY <4>1, <4>2
      <3> QED
        BY <2>1, <3>1, <3>2
    <2>3. CASE Refreshed(t)
      <3>1. /\ client # 0 /\ token'[client] = issued + 1 /\ pc_refresh'[t] = "sleep"
            /\ used' \subseteq used \cup {presented[t].token}
        BY <2>3, <2>1 DEF Refreshed, Renewed, InUse
      <3>2. presented[t].token \in Nat /\ presented[t].token <= issued
        BY DEF Known
      <3>3. issued + 1 \notin used'
        BY <3>1, <3>2 DEF Known
      <3> QED
        BY <3>1, <3>3
    <2>4. CASE Refused(t)
      <3>1. PICK s \in Session : pc_refresh[s] = "sleep" \/ Renewing(s)
        BY DEF TokenInv
      <3>2. s # t /\ UNCHANGED <<token, used>>
        BY <3>1, <2>4 DEF Refused, Renewing
      <3>3. pc_refresh'[s] = pc_refresh[s] /\ presented'[s] = presented[s]
        BY <3>2, <2>4 DEF Refused
      <3>4. pc_refresh'[s] = "sleep" \/ Renewing(s)'
        BY <3>1, <3>2, <3>3 DEF Renewing, Doomed
      <3> QED
        BY <2>1, <3>2, <3>4
    <2>5. CASE RefreshFails(t)
      <3>1. pc_refresh'[t] = "sleep" /\ UNCHANGED <<token, used>>
        BY <2>5 DEF RefreshFails, AfterHTTPError
      <3> QED
        BY <2>1, <3>1
    <2> QED
      BY <2>2, <2>3, <2>4, <2>5 DEF Refresh
  <1> QED
    BY <1>1, <1>2, <1>3, <1>4, <1>5 DEF TokenInv

LEMMA TokenUnchanged ==
    TokenInv /\ UNCHANGED <<kind, ownerVars, sessionVars, token, refreshVars, used>>
        => TokenInv'
  BY DEF TokenInv, InUse, Renewing, Doomed
-----------------------------------------------------------------------------
THEOREM NextInv == IInv /\ [Next]_vars => IInv'
  <1> SUFFICES ASSUME IInv, [Next]_vars PROVE IInv'
    OBVIOUS
  <1>1. CASE Owner
    BY <1>1, TypeOwner, LeakOwner, CallOwner, TokenOwner DEF IInv
  <1>2. CASE \E t \in Session : Refresh(t)
    <2>1. UNCHANGED <<ownerVars, userVars>> /\ StraysOnly
      BY <1>2 DEF Refresh, Wake, Refreshed, Refused, RefreshFails, StraysOnly
    <2> QED
      BY <1>2, <2>1, TypeRefresh, LeakRefresh, CallUnchanged, TokenRefresh DEF IInv, TypeInv
  <1>3. CASE \E u \in User : Request(u)
    <2>1. UNCHANGED userFrame
      BY <1>3 DEF Request, Check, Build, Send, Call, Caught
    <2> QED
      BY <1>3, <2>1, TypeRequest, LeakRefresh, CallRequest, TokenUnchanged
      DEF IInv, TypeInv, StraysOnly
  <1>4. CASE Expire \/ UNCHANGED vars
    <2>1. /\ UNCHANGED <<kind, ownerVars, sessionVars, token, refreshVars, userVars, issued,
                         used>>
          /\ expired' = expired \/ (client # 0 /\ expired' = expired \cup {token[client]})
      BY <1>4 DEF Expire, vars
    <2>2. expired' \subseteq Nat
      <3>1. client # 0 => client \in Session /\ token[client] \in Nat
        BY DEF IInv, TypeInv, OwnerOK, TokensOK
      <3>2. expired \subseteq Nat
        BY DEF IInv, TypeInv, TokensOK
      <3> QED
        BY <2>1, <3>1, <3>2
    <2>3. TypeInv' /\ Known'
      BY <2>1, <2>2 DEF IInv, TypeInv, OwnerOK, TokensOK, UsersOK, FlagsOK, Known
    <2> QED
      BY <2>1, <2>3, LeakRefresh, CallUnchanged, TokenUnchanged DEF IInv, TypeInv, StraysOnly
  <1> QED
    BY <1>1, <1>2, <1>3, <1>4 DEF Next, Closed

THEOREM Inductive == Spec => []IInv
  BY InitInv, NextInv, PTL DEF Spec
-----------------------------------------------------------------------------
\* connect and close are exact inverses, however far connect gets, however often the
\* receiving thread of a batch closes the connection and opens it again, if whoever
\* calls connect closes when it fails: no session that was in use is dropped open, and
\* after close none is left but the strays.
THEOREM Leaks == ASSUME "no_close" \notin Env PROVE Spec => []NothingLeaks
  <1>1. IInv => NothingLeaks
    <2> SUFFICES ASSUME IInv PROVE NothingLeaks
      OBVIOUS
    <2>1. /\ 0 \notin 1..opened /\ closed \subseteq 1..opened
          /\ 1..opened \subseteq closed \cup {client} \cup strays
          /\ strays \cap closed = {}
      BY DEF IInv, TypeInv, OwnerOK, LeakInv
    <2>2. ASSUME pc_owner = "closed"
          PROVE  client = 0 /\ grpc = 0 /\ closed = 1..opened \ strays
      BY <2>1, <2>2 DEF IInv, LeakInv
    <2> QED
      BY <2>1, <2>2 DEF NothingLeaks
  <1> QED
    BY <1>1, Inductive, PTL

\* _send, the gRPC stub and _Retry: a call that no close overlaps never sees the
\* session or the channel that close takes away, so it never fails with an error
\* that is none of the client's own.
THEOREM Disturbed == Spec => []FailsOnlyIfDisturbed
  <1>1. IInv => FailsOnlyIfDisturbed
    BY DEF IInv, CallInv, FailsOnlyIfDisturbed
  <1> QED
    BY <1>1, Inductive, PTL

\* periodic_refresh_token: of all the refresh threads that reconnects have left
\* behind, and that race for one refresh token, one can always renew the session in use.
THEOREM StaysRenewable == Spec => []Renewable
  <1>1. IInv => Renewable
    BY DEF IInv, TokenInv, Renewable
  <1> QED
    BY <1>1, Inductive, PTL
=============================================================================
