----------------------------- MODULE Connection -----------------------------
(***************************************************************************)
(* The connection of weaviate/connect/v4.py and authentication.py: opening *)
(* and closing it, the TokenRefresh threads, and the requests of the       *)
(* user's threads, with the retries of weaviate/retry.py.                  *)
(*                                                                         *)
(* One thread at a time owns the connection: the user's, or the receiving  *)
(* thread of a batch, which closes it and opens it again after a stream    *)
(* has broken.  The others send requests meanwhile.  Not everyone who      *)
(* calls connect calls close when it raises: connect/helpers.py does, and  *)
(* __reconnect of the batches, which closes before every attempt;          *)
(* __enter__ and __aenter__ of the clients do not.                         *)
(*                                                                         *)
(* The OAuth server is external.  An answer is a pair of an access token   *)
(* and a refresh token, numbered in the order of issue; a refresh token is *)
(* good for one use, as the tests of the client have it.  Python's None    *)
(* for a session, a channel or a refresh thread is 0.                      *)
(***************************************************************************)
EXTENDS Naturals, FiniteSets

CONSTANTS
    User,         \* the user's threads
    Kinds,        \* the kinds of credentials that are tried
    MaxSessions,  \* bound: how many sessions are opened and counted (see Wake)
    MaxTokens,    \* bound: tokens up to this number can be renewed early and expire
    RetryLimit,   \* n of _Retry
    Env           \* what the network may do, a subset of EnvEvents

EnvEvents == { "unreachable",   \* opening the connection fails at any of its steps
               "no_close",      \* who called connect does not call close when it fails
               "http_error",    \* a request to the OAuth server does not reach it
               "unavailable" }  \* a gRPC call is answered UNAVAILABLE

\* "password": AuthClientPassword; "client": AuthClientCredentials, whose tokens
\* have no refresh token; "bearer": AuthBearerToken with a refresh token.
ASSUME ConstantsOK ==
    /\ Kinds \subseteq {"password", "client", "bearer"}
    /\ MaxSessions \in Nat \ {0} /\ MaxTokens \in Nat \ {0} /\ RetryLimit \in Nat
    /\ Env \subseteq EnvEvents

Session == 1..MaxSessions
NoPost == [session |-> 0, token |-> 0]

VARIABLES
    kind,        \* the credentials of this connection
    pc_owner,    \* where the owner is in connect or close
    client,      \* _client: the HTTP session in use
    grpc,        \* _grpc_stub and _grpc_channel
    connected,   \* _connected
    opened,      \* how many sessions have been opened
    strays,      \* those of them that never became _client
    closed,      \* the sessions whose close() was called
    shut,        \* the gRPC channels whose close() was called
    token,       \* session |-> the token it holds
    pc_refresh,  \* refresh thread, one per session |-> where it is
    presented,   \* refresh thread |-> the refresh token it sent, through which session
    pc_user,     \* user's thread |-> where it is
    stub,        \* user's thread |-> the channel its gRPC call is bound to
    count,       \* user's thread |-> the count of _Retry
    disturbed,   \* user's thread |-> the connection was being closed during its call
    issued,      \* OAuth server: the number of tokens issued
    used,        \* OAuth server: the refresh tokens that were used
    expired      \* OAuth server: the access tokens that have expired

ownerVars   == <<pc_owner, client, grpc, connected, closed, shut>>
sessionVars == <<opened, strays>>
refreshVars == <<pc_refresh, presented>>
userVars    == <<pc_user, stub, count, disturbed>>
oauthVars   == <<issued, used, expired>>
vars == <<kind, ownerVars, sessionVars, token, refreshVars, userVars, oauthVars>>

Init ==
    /\ kind \in Kinds
    /\ pc_owner = "closed" /\ client = 0 /\ grpc = 0 /\ connected = FALSE
    /\ opened = 0 /\ strays = {} /\ closed = {} /\ shut = {}
    /\ token = [s \in Session |-> 0]
    /\ pc_refresh = [s \in Session |-> "none"] /\ presented = [s \in Session |-> NoPost]
    /\ pc_user = [u \in User |-> "idle"] /\ stub = [u \in User |-> 0]
    /\ count = [u \in User |-> 0] /\ disturbed = [u \in User |-> FALSE]
    /\ issued = IF kind = "bearer" THEN 1 ELSE 0     \* the user already has token 1
    /\ used = {} /\ expired = {}
-----------------------------------------------------------------------------
(* connect *)

\* Any step of connect may raise.
Fails == /\ "unreachable" \in Env
         /\ pc_owner' = "failed"
         /\ UNCHANGED <<client, grpc, shut, token, refreshVars, issued>>

\* A connection whose connect has failed may be opened again without a close.
MayConnect == pc_owner = "closed" \/ (pc_owner = "failed" /\ "no_close" \in Env)

\* A session is made that will neither be _client nor be closed.
NewStray == /\ opened < MaxSessions
            /\ opened' = opened + 1 /\ strays' = strays \cup {opened'}

\* get_auth_session: the token the user gave, or one fetched with the credentials.
\* When fetch_token fails, the session that was made for it is dropped.
SessionToken == IF kind = "bearer" THEN 1 ELSE issued + 1
FetchFails == kind # "bearer" /\ NewStray

\* _open_connections_rest: a session with a token, and a thread to refresh it.
OpenRest ==
    /\ MayConnect /\ opened < MaxSessions
    /\ \/ Fails /\ (FetchFails \/ UNCHANGED sessionVars)
       \/ /\ opened' = opened + 1 /\ client' = opened'
          /\ token' = [token EXCEPT ![client'] = SessionToken]
          /\ issued' = IF SessionToken > issued THEN SessionToken ELSE issued
          /\ pc_refresh' = [pc_refresh EXCEPT ![client'] = "sleep"]
          /\ pc_owner' = "meta"
          /\ UNCHANGED <<strays, grpc, shut, presented>>
    /\ UNCHANGED <<kind, connected, closed, userVars, used, expired>>

\* get_meta, then open_connection_grpc; the channel has the number of the session.
OpenGrpc ==
    /\ pc_owner = "meta"
    /\ \/ Fails /\ connected' = FALSE
       \/ /\ grpc' = client
          /\ pc_owner' = "checks"
          /\ UNCHANGED <<client, connected, shut, token, refreshVars, issued>>
    /\ UNCHANGED <<kind, sessionVars, closed, userVars, used, expired>>

\* The check of the version and the ping; _connected is set last.
Checks ==
    /\ pc_owner = "checks"
    /\ \/ Fails /\ connected' = FALSE
       \/ /\ connected' = TRUE
          /\ pc_owner' = "open"
          /\ UNCHANGED <<client, grpc, shut, token, refreshVars, issued>>
    /\ UNCHANGED <<kind, sessionVars, closed, userVars, used, expired>>
-----------------------------------------------------------------------------
(* close *)

\* What close does to the calls under way.
Disturb == disturbed' = [u \in User |-> disturbed[u] \/ pc_user[u] # "idle"]

\* What is closed: whatever connect has left behind, connected or not.
CloseIfConnected == IF connected THEN {client} \ {0} ELSE {}     \* mutant
ToClose == {client} \ {0}

CloseSession ==
    /\ pc_owner \in {"open", "failed"}
    /\ closed' = closed \cup ToClose
    /\ pc_owner' = "drop_session"
    /\ Disturb
    /\ UNCHANGED <<kind, client, grpc, connected, sessionVars, shut, token, refreshVars,
                   pc_user, stub, count, oauthVars>>

DropSession ==
    /\ pc_owner = "drop_session"
    /\ client' = 0
    /\ shut' = shut \cup ({grpc} \ {0})
    /\ pc_owner' = "drop_channel"
    /\ UNCHANGED <<kind, grpc, connected, sessionVars, closed, token, refreshVars,
                   userVars, oauthVars>>

DropChannel ==
    /\ pc_owner = "drop_channel"
    /\ grpc' = 0
    /\ pc_owner' = "disconnect"
    /\ UNCHANGED <<kind, client, connected, sessionVars, closed, shut, token, refreshVars,
                   userVars, oauthVars>>

StillConnected == connected     \* mutant: the flag is not reset
AfterClose == FALSE

Disconnect ==
    /\ pc_owner = "disconnect"
    /\ connected' = AfterClose
    /\ pc_owner' = "closed"
    /\ UNCHANGED <<kind, client, grpc, sessionVars, closed, shut, token, refreshVars,
                   userVars, oauthVars>>

Owner == OpenRest \/ OpenGrpc \/ Checks \/ CloseSession \/ DropSession \/ DropChannel
         \/ Disconnect
-----------------------------------------------------------------------------
(* periodic_refresh_token; thread t was started with session t.  All threads *)
(* share _client, and nothing ever sets _shutdown_background_event.          *)

refreshFrame == <<kind, ownerVars, userVars, expired>>

\* A thread wakes up when its token is about to expire; it may do so earlier,
\* since the time is that of an older session.
Due == client # 0 /\ (token[client] \in expired \/ issued < MaxTokens)

\* It sends the refresh token of the session in use, through that session, or
\* the credentials through a session made for that, which nobody closes.  Not all
\* of these are counted, so that the bound leaves some for connect.
Wake(t) ==
    /\ pc_refresh[t] = "sleep" /\ Due
    /\ presented' = [presented EXCEPT ![t] = IF kind = "client" THEN NoPost
                                             ELSE [session |-> client, token |-> token[client]]]
    /\ pc_refresh' = [pc_refresh EXCEPT ![t] = "post"]
    /\ UNCHANGED sessionVars \/ (kind = "client" /\ NewStray)
    /\ UNCHANGED <<refreshFrame, token, issued, used>>

\* The OAuth server accepts: the answer goes into the session in use now; none
\* is in use while the connection is closed, which ends the thread.
RenewedOld(t) == [token EXCEPT ![t] = issued + 1]   \* mutant: the session it was started with
Renewed(t) == [token EXCEPT ![client] = issued + 1]

Refreshed(t) ==
    /\ pc_refresh[t] = "post" /\ presented[t].token \notin used
    /\ issued' = issued + 1
    /\ used' = IF kind = "client" THEN used ELSE used \cup {presented[t].token}
    /\ IF client = 0
       THEN pc_refresh' = [pc_refresh EXCEPT ![t] = "dead"] /\ UNCHANGED token
       ELSE pc_refresh' = [pc_refresh EXCEPT ![t] = "sleep"] /\ token' = Renewed(t)
    /\ presented' = [presented EXCEPT ![t] = NoPost]
    /\ UNCHANGED <<refreshFrame, sessionVars>>

\* It refuses, or the session is closed meanwhile: OAuthError and RuntimeError
\* are no HTTPErrors, the thread ends.
Doomed(t) == presented[t].token \in used \/ presented[t].session \in closed

Refused(t) ==
    /\ pc_refresh[t] = "post" /\ Doomed(t)
    /\ pc_refresh' = [pc_refresh EXCEPT ![t] = "dead"]
    /\ presented' = [presented EXCEPT ![t] = NoPost]
    /\ UNCHANGED <<refreshFrame, sessionVars, token, issued, used>>

\* HTTPError: the thread tries again after a second.
AfterHTTPErrorEnds == "dead"      \* mutant: the exception is not caught
AfterHTTPError == "sleep"

RefreshFails(t) ==
    /\ pc_refresh[t] = "post" /\ "http_error" \in Env
    /\ pc_refresh' = [pc_refresh EXCEPT ![t] = AfterHTTPError]
    /\ presented' = [presented EXCEPT ![t] = NoPost]
    /\ UNCHANGED <<refreshFrame, sessionVars, token, issued, used>>

Refresh(t) == Wake(t) \/ Refreshed(t) \/ Refused(t) \/ RefreshFails(t)

Expire ==
    /\ client # 0 /\ token[client] <= MaxTokens
    /\ expired' = expired \cup {token[client]}
    /\ UNCHANGED <<kind, ownerVars, sessionVars, token, refreshVars, userVars, issued,
                   used>>
-----------------------------------------------------------------------------
(* Requests of the user's threads; "failed" stands for an AssertionError, an *)
(* AttributeError or a ValueError, none of which is an error of the client.  *)

userFrame == <<kind, ownerVars, sessionVars, token, refreshVars, oauthVars>>
Closing == pc_owner \in {"drop_session", "drop_channel", "disconnect"}

Goto(u, pc) == pc_user' = [pc_user EXCEPT ![u] = pc]

\* _send and grpc_stub look at _connected; without it WeaviateClosedClientError
\* is raised, which changes nothing.  A gRPC call is bound to the stub.
Check(u) ==
    /\ pc_user[u] = "idle" /\ connected
    /\ \/ Goto(u, "build") /\ UNCHANGED stub
       \/ Goto(u, IF grpc = 0 THEN "failed" ELSE "call") /\ stub' = [stub EXCEPT ![u] = grpc]
    /\ count' = [count EXCEPT ![u] = 0]
    /\ disturbed' = [disturbed EXCEPT ![u] = Closing]
    /\ UNCHANGED userFrame

\* assert self._client is not None, and build_request.
Build(u) ==
    /\ pc_user[u] = "build"
    /\ Goto(u, IF client = 0 THEN "failed" ELSE "send")
    /\ UNCHANGED <<userFrame, stub, count, disturbed>>

\* self._client is read again; a closed session raises the RuntimeError that
\* becomes WeaviateClosedClientError.
Send(u) ==
    /\ pc_user[u] = "send"
    /\ Goto(u, IF client = 0 THEN "failed" ELSE "idle")
    /\ UNCHANGED <<userFrame, stub, count, disturbed>>

\* One attempt of _Retry; the stub is the one bound at first.
Exhausted(u) == count[u] > RetryLimit

Call(u) ==
    /\ pc_user[u] = "call"
    /\ \/ /\ Goto(u, IF stub[u] \in shut THEN "failed" ELSE "idle")
          /\ UNCHANGED count
       \/ /\ "unavailable" \in Env /\ stub[u] \notin shut
          /\ IF Exhausted(u)
             THEN Goto(u, "idle") /\ UNCHANGED count        \* WeaviateRetryError
             ELSE UNCHANGED pc_user /\ count' = [count EXCEPT ![u] = @ + 1]
    /\ UNCHANGED <<userFrame, stub, disturbed>>

Caught(u) ==
    /\ pc_user[u] = "failed"
    /\ Goto(u, "idle")
    /\ UNCHANGED <<userFrame, stub, count, disturbed>>

Request(u) == Check(u) \/ Build(u) \/ Send(u) \/ Call(u) \/ Caught(u)
-----------------------------------------------------------------------------
\* Nothing is left to do when the connection is closed for good.
Closed == pc_owner = "closed" /\ UNCHANGED vars

Next == Owner \/ (\E t \in Session : Refresh(t)) \/ Expire \/ (\E u \in User : Request(u))
        \/ Closed
Spec == Init /\ [][Next]_vars

\* The refresh threads run, and the OAuth server answers in the end.
Fairness == \A t \in Session : WF_vars(Wake(t)) /\ SF_vars(Refreshed(t)) /\ WF_vars(Refused(t))
FairSpec == Spec /\ Fairness
-----------------------------------------------------------------------------
(* Correctness *)

\* What connect opens close closes, however far connect got and however often
\* the receiving thread of a batch reconnects: no session that was ever in use is
\* dropped open.  The strays, which nobody closes, are all that is left.
NothingLeaks == /\ 1..opened \subseteq closed \cup {client} \cup strays
                /\ pc_owner = "closed" => /\ client = 0 /\ grpc = 0
                                          /\ closed = 1..opened \ strays

\* The errors the client does not translate reach the user only from calls
\* during which another thread was closing the connection.
FailsOnlyIfDisturbed == \A u \in User : pc_user[u] = "failed" => disturbed[u]

\* A session that is in use can always be renewed: some thread is asleep and the
\* refresh token in the session is unused, or a thread has presented one that
\* will be accepted.  The threads of earlier sessions, which go on after a
\* reconnect and race for the same refresh token, do not break that.  A bearer
\* token is an exception: a reconnect starts from the token the user gave.
Renewing(t) == pc_refresh[t] = "post" /\ ~Doomed(t)
InUse == client # 0 /\ client \notin closed /\ (kind = "bearer" => opened = 1)
Renewable ==
    InUse =>
       \/ \E t \in Session : Renewing(t)
       \/ token[client] \notin used /\ \E t \in Session : pc_refresh[t] = "sleep"

\* An expired token is replaced while the connection stays open.
Expired == InUse /\ token[client] \in expired
ExpiredReplaced == Expired ~> ~Expired
=============================================================================
