--------------------------- MODULE SignalingCalls ---------------------------
(***************************************************************************)
(* The control plane of the KVS signaling client: the state machine of     *)
(* components/state_machine/state_machine.c, the calls that drive it       *)
(* (kvs_signaling/port/Signaling_esp.c) and what each service call does to *)
(* the client and to the cache in NVS (port/LwsApiCalls_esp.c).            *)
(*                                                                         *)
(* Two tasks drive the machine: "conn", the task that connects,            *)
(* disconnects or deletes, and "ice", the work queue's refresh of the ICE  *)
(* servers. stateLock is held while the machine is iterated, not by what   *)
(* each call does before and after. The table of states is the SDK's and   *)
(* marked external. Waiting between retries is left out.                   *)
(***************************************************************************)
EXTENDS Naturals

CONSTANTS MaxFaults,  \* bound: replies other than the wanted one
          MaxReboots, \* bound: restarts of the device
          MaxRetries, \* maxLocalStateRetryCount of every state
          UseMedia    \* pChannelInfo->useMediaStorage

ASSUME ScBounds == MaxFaults \in Nat /\ MaxReboots \in Nat /\ MaxRetries \in Nat \ {0} /\ UseMedia \in BOOLEAN

VARIABLES state, retries,   \* the state machine: its state and localStateRetryCount
          result,           \* pSignalingClient->result
          refreshIce,       \* pSignalingClient->refreshIceConfig
          creds,            \* the credentials: none, valid, expired
          cached,           \* which of the calls have a time in the caching period
          endpoints,        \* the endpoints: "", or the storage status they were asked for
          storage,          \* mediaStorageConfig.storageStatus
          nvs,              \* the entry in NVS, if any
          ice,              \* the ICE servers: none, expired, valid
          linked,           \* pSignalingClient->connected
          deleting, deleted,
          stateLock,        \* who iterates the machine
          op,               \* what each of the two tasks is doing
          byHand,           \* history: a call set the state or the result by hand, and
                            \* GET_ENDPOINT was not entered since
          faults, reboots

scVars == <<state, retries, result, refreshIce, creds, cached, endpoints, storage, nvs, ice,
            linked, deleting, deleted, stateLock, op, byHand, faults, reboots>>
machine == <<state, retries, result, refreshIce>>
data    == <<creds, cached, endpoints, storage, nvs, ice>>
flags   == <<linked, deleting, deleted>>

Tasks == {"conn", "ice"}
States == {"NEW", "GET_TOKEN", "DESCRIBE", "CREATE", "DESCRIBE_MEDIA", "GET_ENDPOINT", "GET_ICE",
           "READY", "CONNECT", "CONNECTED", "DISCONNECTED", "JOIN", "JOINED", "DELETE", "DELETED"}
Results == {"NOT_SET", "OK", "NOT_AUTHORIZED", "NOT_FOUND", "TIMEOUT", "UNKNOWN", "INTERNAL",
            "BAD_REQUEST", "GO_AWAY", "RECONNECT_ICE", "INVALID_ARG"}
Idle == [call |-> "none", at |-> "idle", saved |-> "NEW", was |-> FALSE, moved |-> FALSE]

ScTypeOK ==
  /\ state \in States /\ result \in Results /\ refreshIce \in BOOLEAN
  /\ retries \in 0..(MaxRetries + 1)
  /\ creds \in {"none", "valid", "expired"}
  /\ cached \subseteq {"describe", "media", "endpoint"}
  /\ endpoints \in {"", "plain", "media"} /\ storage \in BOOLEAN
  /\ nvs \subseteq [endpoints: {"", "plain", "media"}, storage: BOOLEAN]
  /\ ice \in {"none", "expired", "valid"}
  /\ linked \in BOOLEAN /\ deleting \in BOOLEAN /\ deleted \in BOOLEAN
  /\ stateLock \in Tasks \cup {"none"}
  /\ op \in [Tasks -> [call: {"none", "create", "fetch", "connect", "disconnect", "delete", "refresh"},
                       at: {"idle", "lock", "iterate", "ok", "failed"},
                       saved: States, was: BOOLEAN, moved: BOOLEAN]]
  /\ \A t \in Tasks : stateLock = t <=> op[t].at = "iterate"
  /\ byHand \in BOOLEAN /\ faults \in 0..MaxFaults /\ reboots \in 0..MaxReboots

\* The flash may hold an entry of an earlier start, also one without endpoints.
ScInit ==
  /\ state = "NEW" /\ retries = 0 /\ result = "NOT_SET" /\ refreshIce = FALSE
  /\ creds = "none" /\ cached = {} /\ endpoints = "" /\ storage = FALSE
  /\ nvs \in {{}, {[endpoints |-> "", storage |-> FALSE]}, {[endpoints |-> "plain", storage |-> FALSE]}}
  /\ ice = "none" /\ linked = FALSE /\ deleting = FALSE /\ deleted = FALSE
  /\ stateLock = "none" /\ op = [t \in Tasks |-> Idle] /\ byHand = FALSE /\ faults = 0 /\ reboots = 0

-----------------------------------------------------------------------------
(***************************************************************************)
(* The state machine.                                                      *)
(***************************************************************************)

AfterDescribe == IF UseMedia THEN "DESCRIBE_MEDIA" ELSE "GET_ENDPOINT"

\* The getNextStateFn of the current state (the SDK's table).
NextStates ==
  LET orToken(s) == {IF result = "NOT_AUTHORIZED" THEN "GET_TOKEN" ELSE s} IN
  CASE state = "NEW" -> {"GET_TOKEN"}
    [] state = "GET_TOKEN" -> {IF result # "OK" THEN "GET_TOKEN" ELSE IF deleting THEN "DELETE" ELSE "DESCRIBE"}
    [] state = "DESCRIBE" -> IF result = "OK" THEN {AfterDescribe}
                             ELSE IF result = "NOT_FOUND" THEN {"CREATE"} ELSE orToken("DESCRIBE")
    [] state = "CREATE" -> IF result = "OK" THEN {AfterDescribe} ELSE orToken("CREATE")
    [] state = "DESCRIBE_MEDIA" -> IF result = "OK" THEN {"GET_ENDPOINT"} ELSE orToken("DESCRIBE_MEDIA")
    [] state = "GET_ENDPOINT" -> IF result = "OK" THEN {"GET_ICE", "READY"} ELSE orToken("GET_ENDPOINT")
    [] state = "GET_ICE" -> IF result = "OK" THEN {"READY"} ELSE orToken("GET_ICE")
    [] state = "READY" -> {IF refreshIce THEN "GET_ICE" ELSE "CONNECT"}
    [] state \in {"CONNECT", "CONNECTED"} ->
         IF result = "OK" /\ linked
           THEN {IF state = "CONNECTED" /\ storage THEN "JOIN" ELSE "CONNECTED"}
         ELSE IF result = "RECONNECT_ICE" THEN {"GET_ICE"}
         ELSE IF result = "GO_AWAY" THEN {"DESCRIBE"}
         ELSE orToken(IF state = "CONNECTED" /\ ~linked THEN "DISCONNECTED" ELSE "GET_ENDPOINT")
    [] state = "DISCONNECTED" -> {"READY"}
    [] state = "JOIN" -> IF result = "OK" THEN {"JOINED"}
                         ELSE IF ~linked THEN {"DISCONNECTED"} ELSE orToken("JOIN")
    [] state = "JOINED" -> IF result = "RECONNECT_ICE" THEN {"GET_ICE"}
                           ELSE IF ~linked THEN {"DISCONNECTED"} ELSE {"JOINED"}
    [] state = "DELETE" -> IF result = "OK" THEN {"DELETED"} ELSE orToken("DELETE")
    [] state = "DELETED" -> {"DELETED"}

\* The final state of each call's iteration.
Target(t) == CASE op[t].call = "create" -> "GET_TOKEN"
               [] op[t].call \in {"fetch", "disconnect"} -> "READY"
               [] op[t].call = "connect" -> IF storage THEN "JOINED" ELSE "CONNECTED"
               [] op[t].call = "delete" -> "DELETED"
               [] op[t].call = "refresh" -> op[t].saved

\* The iteration is over: it has moved and is where it was to go (the creation's last call
\* must also have succeeded).
Arrived(t) == op[t].moved /\ state = Target(t) /\ (op[t].call = "create" => result = "OK")

\* stepStateMachine() up to the call of executeStateFn: a repeated state is counted.
Enters(t, s) ==
  /\ stateLock = t /\ ~Arrived(t) /\ s \in NextStates
  /\ retries' = IF s = state THEN retries + 1 ELSE 0
  /\ retries' <= MaxRetries
  /\ state' = s
  /\ op' = [op EXCEPT ![t].moved = TRUE]
  /\ byHand' = (byHand /\ s # "GET_ENDPOINT")
  /\ UNCHANGED <<stateLock, reboots>>

IterationEnds(t, how) ==
  /\ stateLock' = "none"
  /\ op' = [op EXCEPT ![t].at = how]
  /\ UNCHANGED <<state, result, refreshIce, data, flags, faults, byHand, reboots>>

\* signalingStateMachineIterator(): the final state is reached.
Arrives(t) ==
  /\ stateLock = t /\ Arrived(t)
  /\ IterationEnds(t, "ok") /\ UNCHANGED retries

\* stepStateMachine(): one retry too many. The count stays where it is.
RunsOutOfRetries(t) ==
  /\ stateLock = t /\ ~Arrived(t) /\ state \in NextStates /\ retries >= MaxRetries
  /\ retries' = MaxRetries + 1
  /\ IterationEnds(t, "failed")

\* signalingStateMachineIterator(): the call's time is over.
TimesOut(t) ==
  /\ stateLock = t /\ op[t].moved /\ ~Arrived(t) /\ faults < MaxFaults
  /\ stateLock' = "none" /\ op' = [op EXCEPT ![t].at = "failed"] /\ faults' = faults + 1
  /\ UNCHANGED <<machine, data, flags, byHand, reboots>>

-----------------------------------------------------------------------------
(***************************************************************************)
(* The service calls, one for each state that makes one.                   *)
(***************************************************************************)

\* performEspHttpRequest(): what the service answers, and what is left in result.
Replies == {"ok", "denied", "missing", "unreachable", "unreadable", "empty"}
HttpResult(r) == CASE r \in {"ok", "unreadable", "empty"} -> "OK"
                   [] r = "denied" -> "NOT_AUTHORIZED"
                   [] r = "missing" -> "NOT_FOUND"
                   [] r = "unreachable" -> "TIMEOUT"
HttpFails(r) == r \in {"denied", "missing", "unreachable"}

\* Every reply but the wanted one is a fault of the network or the service.
Faulty(r) == faults' = faults + (IF r = "ok" THEN 0 ELSE 1) /\ faults' <= MaxFaults

\* What the calls check first: expired credentials end them.
CredsExpired == creds # "valid"

\* The call's result, by the state's execute function: that of the request, unless the
\* credentials are over.
Outcome(r, res) == IF CredsExpired THEN "NOT_AUTHORIZED" ELSE res

\* The credential provider's getCredentialsFn().
GetsToken(t, r) ==
  /\ Enters(t, "GET_TOKEN") /\ Faulty(r)
  /\ creds' = IF r = "ok" THEN "valid" ELSE creds
  /\ result' = IF r = "ok" THEN "OK" ELSE "NOT_AUTHORIZED"
  /\ UNCHANGED <<refreshIce, cached, endpoints, storage, nvs, ice, flags>>

\* describeChannelEsp(): an answer that cannot be read leaves the OK of the request.
DescribeChannelEsp(r) ==
  /\ result' = IF r = "empty" THEN "UNKNOWN" ELSE HttpResult(r)
  /\ cached' = IF r = "ok" THEN cached \cup {"describe"} ELSE cached

\* describeChannel(): no call while its last one is in the caching period.
Describes(t, r) ==
  /\ Enters(t, "DESCRIBE") /\ Faulty(r)
  /\ IF CredsExpired \/ "describe" \in cached
       THEN r = "ok" /\ result' = Outcome(r, "OK") /\ UNCHANGED cached
       ELSE DescribeChannelEsp(r)
  /\ UNCHANGED <<refreshIce, creds, endpoints, storage, nvs, ice, flags>>

\* createChannelEsp(): any failure is UNKNOWN.
CreateChannelEsp(r) == result' = Outcome(r, IF r = "ok" THEN "OK" ELSE "UNKNOWN")

\* createChannel()
Creates(t, r) ==
  /\ Enters(t, "CREATE") /\ Faulty(r)
  /\ CredsExpired => r = "ok"
  /\ CreateChannelEsp(r)
  /\ UNCHANGED <<refreshIce, data, flags>>

\* The storage status is taken over and the endpoints stay in the cache.
DescribeMediaOnlyEsp(r, s) ==
  /\ result' = IF HttpFails(r) THEN "NOT_SET" ELSE "OK"
  /\ storage' = IF r = "ok" THEN s ELSE storage
  /\ cached' = IF HttpFails(r) THEN cached ELSE cached \cup {"media"}

\* describeMediaStorageConfEsp(): a change of the storage status s makes the endpoints stale.
\* A failed request leaves NOT_SET, an answer that cannot be read changes nothing.
DescribeMediaEsp(r, s) ==
  /\ result' = IF HttpFails(r) THEN "NOT_SET" ELSE "OK"
  /\ storage' = IF r = "ok" THEN s ELSE storage
  /\ cached' = (IF HttpFails(r) THEN cached ELSE cached \cup {"media"})
               \ (IF storage' # storage THEN {"endpoint"} ELSE {})

\* describeMediaStorageConf()
DescribesMedia(t, r, s) ==
  /\ Enters(t, "DESCRIBE_MEDIA") /\ Faulty(r)
  /\ IF CredsExpired \/ "media" \in cached
       THEN r = "ok" /\ result' = Outcome(r, "OK") /\ s = storage /\ UNCHANGED <<cached, storage>>
       ELSE DescribeMediaEsp(r, s)
  /\ UNCHANGED <<refreshIce, creds, endpoints, nvs, ice, flags>>

Asked == IF storage THEN "media" ELSE "plain"

GetsCachedEndpointForever(t) ==
  /\ Enters(t, "GET_ENDPOINT") /\ ~CredsExpired /\ "endpoint" \in cached
  /\ result' = IF endpoints # "" THEN "OK" ELSE "BAD_REQUEST"
  /\ UNCHANGED <<refreshIce, data, flags, faults>>

\* signalingCacheDeleteFromNvs(): an entry that is not there is no error.
DeleteFromNvs == nvs' = {}

\* getChannelEndpoint(), cached: endpoints that are missing all the same make the cache
\* and its NVS entry go, and fail.
GetsCachedEndpoint(t) ==
  /\ Enters(t, "GET_ENDPOINT") /\ ~CredsExpired /\ "endpoint" \in cached
  /\ IF endpoints # ""
       THEN result' = "OK" /\ UNCHANGED <<cached, nvs>>
       ELSE result' = "BAD_REQUEST" /\ cached' = cached \ {"endpoint"} /\ DeleteFromNvs
  /\ UNCHANGED <<refreshIce, creds, endpoints, storage, ice, flags, faults>>

GetEndpointUncheckedEsp(r) ==
  /\ endpoints' = IF r = "ok" THEN Asked ELSE IF r = "unreadable" THEN "" ELSE endpoints
  /\ result' = HttpResult(r)

\* getChannelEndpointEsp(): the old endpoints go before the answer is read.
GetEndpointEsp(r) ==
  \/ /\ r # "unreadable"
     /\ endpoints' = IF r = "ok" THEN Asked ELSE endpoints
     /\ result' = IF r = "empty" THEN "UNKNOWN" ELSE HttpResult(r)
  \/ r = "unreadable" /\ endpoints' = "" /\ result' = "BAD_REQUEST"
  \/ r = "unreadable" /\ endpoints' = endpoints /\ result' = "INTERNAL"

\* signalingCacheSaveToNvs(): the one entry of this channel, region and role; a write that
\* fails leaves the old one.
SaveToNvs == \/ nvs' = {[endpoints |-> endpoints', storage |-> storage]} /\ UNCHANGED faults
             \/ faults < MaxFaults /\ faults' = faults + 1 /\ UNCHANGED nvs

\* getChannelEndpoint(): the time and the NVS entry are written only after a success.
GetsEndpoint(t, r) ==
  /\ Enters(t, "GET_ENDPOINT")
  /\ ~CredsExpired /\ "endpoint" \notin cached
  /\ GetEndpointEsp(r)
  /\ IF r = "ok" THEN cached' = cached \cup {"endpoint"} /\ SaveToNvs
     ELSE Faulty(r) /\ UNCHANGED <<cached, nvs>>
  /\ UNCHANGED <<refreshIce, creds, storage, ice, flags>>

\* A call with expired credentials, in every state that makes one.
CallNotAuthorized(t, s) ==
  /\ s \in {"GET_ENDPOINT", "GET_ICE", "CONNECT", "JOIN", "DELETE"} /\ CredsExpired
  /\ Enters(t, s) /\ result' = "NOT_AUTHORIZED"
  /\ refreshIce' = IF state = "READY" /\ s = "GET_ICE" THEN FALSE ELSE refreshIce
  /\ UNCHANGED <<data, flags, faults>>

\* What the answer leaves of the ICE servers: a failed request keeps them for another minute;
\* servers validateIceConfiguration() refuses leave none, with the request's OK.
IceAfter(r) ==
  CASE r = "ok" -> {"valid"}
    [] r = "unreadable" -> {"none", ice}
    [] r = "empty" -> {ice}
    [] HttpFails(r) -> {IF ice = "none" THEN "none" ELSE "valid"}

\* getIceConfigEsp(): without the endpoint it fails; a failed request counts as done.
GetIceConfigEsp(r) ==
  IF endpoints = ""
    THEN r = "ok" /\ result' = "UNKNOWN" /\ UNCHANGED ice
    ELSE result' = (IF r = "empty" THEN "UNKNOWN" ELSE "OK") /\ ice' \in IceAfter(r)

\* getIceConfig()
GetsIce(t, r) ==
  /\ Enters(t, "GET_ICE") /\ Faulty(r) /\ ~CredsExpired
  /\ refreshIce' = IF state = "READY" THEN FALSE ELSE refreshIce
  /\ GetIceConfigEsp(r)
  /\ UNCHANGED <<creds, cached, endpoints, storage, nvs, flags>>

\* READY, DISCONNECTED, CONNECTED and JOINED make no call.
Reaches(t, s) ==
  /\ s \in {"READY", "DISCONNECTED", "CONNECTED", "JOINED"}
  /\ Enters(t, s)
  /\ result' = IF s \in {"READY", "DISCONNECTED"} THEN "OK" ELSE result
  /\ UNCHANGED <<refreshIce, data, flags, faults>>

\* connectSignalingChannel(): a live link is kept, and a url without a host opens none.
\* WebSocketLink has the rest.
Connects(t, r) ==
  /\ Enters(t, "CONNECT") /\ ~CredsExpired
  /\ r \in {"ok", "unreachable", "missing"}
  /\ linked => r = "ok"
  /\ IF ~linked /\ endpoints = "" THEN r = "missing" /\ UNCHANGED faults ELSE Faulty(r)
  /\ linked' = (r = "ok")
  /\ result' = CASE r = "ok" -> "OK" [] r = "unreachable" -> "TIMEOUT" [] r = "missing" -> "UNKNOWN"
  /\ UNCHANGED <<refreshIce, data, deleting, deleted>>

\* joinStorageSessionEsp(): a failed request leaves NOT_SET.
JoinStorageSessionEsp(r) == result' = IF HttpFails(r) THEN "NOT_SET" ELSE "OK"

\* joinStorageSession(): only over a link.
Joins(t, r) ==
  /\ Enters(t, "JOIN") /\ Faulty(r) /\ ~CredsExpired
  /\ IF linked THEN JoinStorageSessionEsp(r) ELSE r = "ok" /\ result' = "INVALID_ARG"
  /\ UNCHANGED <<refreshIce, data, flags>>

\* deleteChannelEsp(): a failed request leaves NOT_SET.
DeleteChannelEsp(r) == result' = IF HttpFails(r) THEN "NOT_SET" ELSE "OK"

\* deleteChannel()
Deletes(t, r) ==
  /\ Enters(t, "DELETE") /\ Faulty(r) /\ ~CredsExpired
  /\ DeleteChannelEsp(r)
  /\ UNCHANGED <<refreshIce, data, flags>>

DeletedReached(t) ==
  /\ Enters(t, "DELETED") /\ deleted' = TRUE
  /\ UNCHANGED <<result, refreshIce, data, linked, deleting, faults>>

StateCall(t) ==
  \/ \E r \in Replies : GetsToken(t, r) \/ Describes(t, r) \/ Creates(t, r) \/ GetsEndpoint(t, r)
                        \/ GetsIce(t, r) \/ Connects(t, r) \/ Joins(t, r) \/ Deletes(t, r)
                        \/ \E s \in BOOLEAN : DescribesMedia(t, r, s)
  \/ GetsCachedEndpoint(t) \/ DeletedReached(t)
  \/ \E s \in States : CallNotAuthorized(t, s) \/ Reaches(t, s)

-----------------------------------------------------------------------------
(***************************************************************************)
(* The calls that iterate the machine.                                     *)
(***************************************************************************)

Starts(t, c, at, saved, was) ==
  op' = [op EXCEPT ![t] = [call |-> c, at |-> at, saved |-> saved, was |-> was, moved |-> FALSE]]

TakesHeldStateLock(t) ==
  /\ op[t].at = "lock" /\ op[t].call # "refresh"
  /\ stateLock' = t /\ op' = [op EXCEPT ![t].at = "iterate"]
  /\ UNCHANGED <<machine, data, flags, faults, byHand, reboots>>

\* signalingStateMachineIterator() takes stateLock.
TakesStateLock(t) ==
  /\ op[t].at = "lock" /\ stateLock = "none" /\ op[t].call # "refresh"
  /\ stateLock' = t /\ op' = [op EXCEPT ![t].at = "iterate"]
  /\ UNCHANGED <<machine, data, flags, faults, byHand, reboots>>

\* signalingCacheLoadFromNvs(): no entry is no error; every call it stands for counts as made.
LoadFromNvs ==
  IF nvs = {} THEN UNCHANGED <<cached, endpoints, storage>>
  ELSE \E entry \in nvs :
       /\ cached' = {"describe", "media", "endpoint"}
       /\ endpoints' = entry.endpoints
       /\ storage' = (UseMedia /\ entry.storage)

\* createSignalingSync(): the client starts with what NVS holds.
CreateBegins ==
  /\ op["conn"].at = "idle" /\ state = "NEW" /\ creds = "none"
  /\ LoadFromNvs
  /\ Starts("conn", "create", "lock", "NEW", FALSE)
  /\ UNCHANGED <<machine, creds, nvs, ice, flags, stateLock, faults, byHand, reboots>>

\* A creation that failed frees the client: the next attempt starts over.
CreateEnds ==
  /\ op["conn"].call = "create" /\ op["conn"].at \in {"ok", "failed"}
  /\ IF op["conn"].at = "ok" THEN Starts("conn", "none", "ok", "NEW", FALSE) /\ UNCHANGED <<machine, data>>
     ELSE /\ Starts("conn", "none", "idle", "NEW", FALSE)
          /\ state' = "NEW" /\ retries' = 0 /\ result' = "NOT_SET" /\ refreshIce' = FALSE
          /\ creds' = "none" /\ cached' = {} /\ endpoints' = "" /\ storage' = FALSE /\ ice' = "none"
          /\ UNCHANGED nvs
  /\ UNCHANGED <<flags, stateLock, faults, byHand, reboots>>

\* signalingFetchSync(), before it iterates: a link is ended; state and result are set
\* without the lock.
FetchBegins ==
  /\ op["conn"].call = "none" /\ creds # "none" /\ ~deleting
  /\ op["conn"].at = "ok" \/ (op["conn"].at = "idle" /\ ~linked)
  /\ linked' = FALSE /\ state' = "GET_TOKEN"
  /\ result' = IF result = "NOT_AUTHORIZED" THEN result ELSE "OK"
  /\ Starts("conn", "fetch", "lock", "NEW", FALSE)
  /\ UNCHANGED <<retries, refreshIce, data, deleting, deleted, stateLock, faults, byHand, reboots>>

FetchEnds ==
  /\ op["conn"].call = "fetch" /\ op["conn"].at \in {"ok", "failed"}
  /\ retries' = IF op["conn"].at = "failed" THEN 0 ELSE retries
  /\ op["conn"].at = "failed" => Starts("conn", "none", "idle", "NEW", FALSE)
  /\ op["conn"].at = "ok" => Starts("conn", "connect", "idle", "NEW", FALSE)
  /\ UNCHANGED <<state, result, refreshIce, data, flags, stateLock, faults, byHand, reboots>>

ConnectStates == {"READY", "CONNECT", "DISCONNECTED", "CONNECTED", "JOIN", "JOINED"}

\* signalingConnectSync(): the state must allow it; a link without storage is enough.
ConnectBegins ==
  /\ op["conn"].call = "connect" /\ op["conn"].at = "idle"
  /\ IF state \notin ConnectStates \/ (linked /\ ~storage)
       THEN Starts("conn", "none", "idle", "NEW", FALSE)
       ELSE Starts("conn", "connect", "lock", state, linked)
  /\ UNCHANGED <<machine, data, flags, stateLock, faults, byHand, reboots>>

\* A failed connect takes its half-made link down and goes back to where it started.
ConnectEnds ==
  /\ op["conn"].call = "connect" /\ op["conn"].at \in {"ok", "failed"}
  /\ Starts("conn", "none", "idle", "NEW", FALSE)
  /\ IF op["conn"].at = "ok" THEN UNCHANGED <<state, retries, result, linked>>
     ELSE /\ retries' = 0 /\ state' = op["conn"].saved
          /\ linked' = (linked /\ op["conn"].was)
          /\ result' = IF op["conn"].was THEN result ELSE "NOT_SET"
  /\ byHand' = (byHand \/ op["conn"].at = "failed")
  /\ UNCHANGED <<refreshIce, data, deleting, deleted, stateLock, faults, reboots>>

\* signalingDisconnectSync(): the result is set without the lock, also while a refresh is
\* at GET_ENDPOINT.
DisconnectBegins ==
  /\ op["conn"] = [Idle EXCEPT !.saved = "NEW"] /\ linked /\ faults < MaxFaults
  /\ linked' = FALSE /\ result' = "OK" /\ faults' = faults + 1
  /\ Starts("conn", "disconnect", "lock", "NEW", FALSE)
  /\ byHand' = (byHand \/ state = "GET_ENDPOINT")
  /\ UNCHANGED <<state, retries, refreshIce, data, deleting, deleted, stateLock, reboots>>

\* signalingDeleteSync(): the deleting flag stays up.
DeleteBegins ==
  /\ op["conn"].call = "none" /\ op["conn"].at = "idle" /\ creds # "none" /\ ~deleted
  /\ faults < MaxFaults
  /\ deleting' = TRUE /\ linked' = FALSE /\ state' = "DELETE" /\ faults' = faults + 1
  /\ Starts("conn", "delete", "lock", "NEW", FALSE)
  /\ UNCHANGED <<retries, result, refreshIce, data, deleted, stateLock, byHand, reboots>>

DisconnectOrDeleteEnds ==
  /\ op["conn"].call \in {"disconnect", "delete"} /\ op["conn"].at \in {"ok", "failed"}
  /\ Starts("conn", "none", "idle", "NEW", FALSE)
  /\ UNCHANGED <<machine, data, flags, stateLock, faults, byHand, reboots>>

\* signaling_is_ice_config_refresh_needed(): none, or at the end of their time.
IceRefreshNeeded == ice # "valid"

\* refresh_ice_configuration(): wanted, and allowed in this state.
RefreshBegins ==
  /\ op["ice"].at = "idle" /\ op["conn"].call # "create"
  /\ IceRefreshNeeded /\ state \in ConnectStates
  /\ Starts("ice", "refresh", "lock", "NEW", FALSE)
  /\ UNCHANGED <<machine, data, flags, stateLock, faults, byHand, reboots>>

\* Under the lock: in the states it can iterate from it does, else the flags are all.
RefreshLocks ==
  /\ op["ice"].at = "lock" /\ stateLock = "none"
  /\ result' = "RECONNECT_ICE" /\ refreshIce' = TRUE
  /\ IF state \in {"READY", "CONNECTED", "JOINED"}
       THEN stateLock' = "ice" /\ Starts("ice", "refresh", "iterate", state, FALSE)
       ELSE stateLock' = "none" /\ Starts("ice", "none", "idle", "NEW", FALSE)
  /\ UNCHANGED <<state, retries, data, flags, faults, byHand, reboots>>

RefreshEndsForgetful ==
  /\ op["ice"].at \in {"ok", "failed"}
  /\ state' = IF op["ice"].at = "failed" THEN op["ice"].saved ELSE state
  /\ Starts("ice", "none", "idle", "NEW", FALSE)
  /\ byHand' = (byHand \/ op["ice"].at = "failed")
  /\ UNCHANGED <<retries, result, refreshIce, data, flags, stateLock, faults, reboots>>

\* After the lock is released: a failed refresh puts back the state it found and a result
\* that does not ask for another one.
RefreshEnds ==
  /\ op["ice"].at \in {"ok", "failed"}
  /\ IF op["ice"].at = "ok" THEN UNCHANGED <<state, result>>
     ELSE /\ state' = op["ice"].saved
          /\ result' = IF op["ice"].saved = "READY" THEN "NOT_SET" ELSE "OK"
  /\ Starts("ice", "none", "idle", "NEW", FALSE)
  /\ byHand' = (byHand \/ op["ice"].at = "failed")
  /\ UNCHANGED <<retries, refreshIce, data, flags, stateLock, faults, reboots>>

-----------------------------------------------------------------------------
(***************************************************************************)
(* The surroundings.                                                       *)
(***************************************************************************)

\* The event handler of the websocket: the link is lost, or the service asks to leave it.
LinkLost ==
  /\ linked /\ faults < MaxFaults /\ faults' = faults + 1
  /\ linked' = FALSE /\ result' \in {"UNKNOWN", "GO_AWAY", "RECONNECT_ICE"}
  /\ UNCHANGED <<state, retries, refreshIce, data, deleting, deleted, stateLock, op, byHand, reboots>>

\* Time: the credentials or the ICE servers expire, or the caching period ends.
TimePasses ==
  /\ faults < MaxFaults /\ faults' = faults + 1
  /\ \/ creds = "valid" /\ creds' = "expired" /\ UNCHANGED <<ice, cached>>
     \/ ice = "valid" /\ ice' = "expired" /\ UNCHANGED <<creds, cached>>
     \/ cached # {} /\ cached' = {} /\ UNCHANGED <<creds, ice>>
  /\ UNCHANGED <<machine, endpoints, storage, nvs, flags, stateLock, op, byHand, reboots>>

\* The device restarts, at any point; only NVS is left.
Reboots ==
  /\ reboots < MaxReboots /\ reboots' = reboots + 1
  /\ state' = "NEW" /\ retries' = 0 /\ result' = "NOT_SET" /\ refreshIce' = FALSE
  /\ creds' = "none" /\ cached' = {} /\ endpoints' = "" /\ storage' = FALSE /\ ice' = "none"
  /\ linked' = FALSE /\ deleting' = FALSE /\ deleted' = FALSE
  /\ stateLock' = "none" /\ op' = [t \in Tasks |-> Idle] /\ byHand' = FALSE
  /\ UNCHANGED <<nvs, faults>>

Machine(t) == Arrives(t) \/ RunsOutOfRetries(t) \/ StateCall(t)
Ends == CreateEnds \/ FetchEnds \/ ConnectEnds \/ DisconnectOrDeleteEnds \/ RefreshEnds

ScNext ==
  \/ \E t \in Tasks : Machine(t) \/ TimesOut(t) \/ TakesStateLock(t)
  \/ CreateBegins \/ FetchBegins \/ ConnectBegins \/ DisconnectBegins \/ DeleteBegins
  \/ RefreshBegins \/ RefreshLocks \/ Ends
  \/ LinkLost \/ TimePasses \/ Reboots

\* The tasks run; the application keeps connecting while there is no link.
ScFairness ==
  /\ \A t \in Tasks : WF_scVars(Machine(t)) /\ SF_scVars(TakesStateLock(t))
  /\ WF_scVars(CreateBegins) /\ WF_scVars(FetchBegins) /\ WF_scVars(ConnectBegins)
  /\ SF_scVars(RefreshLocks) /\ WF_scVars(Ends)

-----------------------------------------------------------------------------
(***************************************************************************)
(* Properties.                                                             *)
(***************************************************************************)

\* Behind GET_ENDPOINT: the states in which the machine relies on the endpoints.
Past == {"READY", "CONNECT", "CONNECTED", "JOIN", "JOINED", "DISCONNECTED"}

\* A client past GET_ENDPOINT (where connect and getIceConfigEsp() rely on them) has
\* endpoints. Only a failed call that put its state back, or a disconnect that set the
\* result of GET_ENDPOINT, can get there without, until GET_ENDPOINT is entered again.
EndpointsKnown == state \in Past /\ ~byHand => endpoints # ""

\* Endpoints that will be taken from the cache were asked for with the storage status in
\* force: describeMediaStorageConfEsp() makes them stale when it changes.
EndpointsMatchStorage == "endpoint" \in cached /\ endpoints # "" => endpoints = Asked

\* A failed refresh leaves no request for another one in the result, which
\* the next connect would take for a failed call.
NoStaleRefresh ==
  [][op["ice"].at = "failed" /\ op'["ice"].at = "idle" /\ reboots' = reboots
     => result' # "RECONNECT_ICE"]_scVars

\* Once the service answers and nothing else happens, a client that is not deleted gets
\* linked: no failed call, poor cache entry or restart leaves it in a state that
\* connectKvsSignalingClient() cannot leave.
EventuallyLinked == <>[](linked \/ deleting)

\* The endpoints the client works with are known and fit its channel, however calls,
\* refreshes, cache entries and restarts followed each other.
EndpointsSound == EndpointsKnown /\ EndpointsMatchStorage

\* The tasks run, and a client that is deleted, or linked with no fault left, may stop.
ScSpec == ScInit /\ [][ScNext]_scVars /\ ScFairness
=============================================================================
