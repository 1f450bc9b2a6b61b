-------------------------- MODULE SignalingProofs --------------------------
(***************************************************************************)
(* Theorems about the KVS signaling client: its control plane              *)
(* (SignalingCalls), its websocket (WebSocketLink), its credentials        *)
(* (Credentials) and the messages it sends (SignalingMessages), for any    *)
(* number of faults, retries, websockets, outages, messages and tasks.     *)
(***************************************************************************)
EXTENDS SignalingCalls, WebSocketLink, Credentials, SignalingMessages, TLAPS

-----------------------------------------------------------------------------
(***************************************************************************)
(* SignalingCalls.  That a client behind GET_ENDPOINT has endpoints is not *)
(* inductive: a step of the machine into READY relies on the OK of         *)
(* GET_ENDPOINT, and the OK of a cached answer on what the entry in NVS    *)
(* may hold.  EndpointsInv and StorageInv say what they rely on.           *)
(***************************************************************************)

\* What iterating the machine relies on: behind GET_ENDPOINT, or with its OK about to be
\* followed there, the endpoints are known.
EndpointsInv ==
  /\ state \in Past \cup {"GET_ICE"} /\ ~byHand => endpoints # ""
  /\ state = "GET_ENDPOINT" /\ result = "OK" /\ ~byHand => endpoints # ""

\* Where the endpoints may come from: the entry in NVS was written with the storage status
\* its endpoints were asked for, and there is none without media storage.
StorageInv ==
  /\ storage => UseMedia
  /\ state = "DESCRIBE_MEDIA" => UseMedia
  /\ \A t \in Tasks : op[t].saved # "DESCRIBE_MEDIA"
  /\ \A entry \in nvs : /\ entry.storage => UseMedia
                        /\ entry.endpoints \in {"", IF entry.storage THEN "media" ELSE "plain"}

\* The inductive invariant.
ScInv == ScTypeOK /\ EndpointsInv /\ StorageInv /\ EndpointsMatchStorage

\* The machine gets behind GET_ENDPOINT from there or out of its OK.
LEMMA NextPast ==
  ASSUME NEW s \in NextStates, s \in Past \cup {"GET_ICE"}, state \in States
  PROVE  state \in Past \cup {"GET_ICE"} \/ (state = "GET_ENDPOINT" /\ result = "OK")
  BY DEF NextStates, Past, States, AfterDescribe

\* DESCRIBE_MEDIA is a state of channels that may have media storage.
LEMMA NextMedia ==
  ASSUME "DESCRIBE_MEDIA" \in NextStates, state \in States
  PROVE  UseMedia \/ state = "DESCRIBE_MEDIA"
  BY DEF NextStates, States, AfterDescribe

\* The states of a call's record.
Ops == [call: {"none", "create", "fetch", "connect", "disconnect", "delete", "refresh"},
        at: {"idle", "lock", "iterate", "ok", "failed"},
        saved: States, was: BOOLEAN, moved: BOOLEAN]

\* Entering a state keeps what it sets well typed.
LEMMA EntersType ==
  ASSUME ScInv, NEW t \in Tasks, NEW s \in States, Enters(t, s)
  PROVE  /\ state' \in States /\ retries' \in 0..(MaxRetries + 1)
         /\ op' \in [Tasks -> Ops] /\ stateLock' \in Tasks \cup {"none"}
         /\ \A u \in Tasks : stateLock' = u <=> op'[u].at = "iterate"
         /\ \A u \in Tasks : op'[u].saved = op[u].saved
         /\ byHand' \in BOOLEAN /\ reboots' = reboots
  <1>1. op \in [Tasks -> Ops]
    BY DEF ScInv, ScTypeOK, Ops
  <1>2. op' = [op EXCEPT ![t] = [op[t] EXCEPT !.moved = TRUE]]
    BY DEF Enters
  <1>3. op[t] \in Ops
    BY <1>1
  <1>4. /\ [op[t] EXCEPT !.moved = TRUE] \in Ops
        /\ [op[t] EXCEPT !.moved = TRUE].at = op[t].at
        /\ [op[t] EXCEPT !.moved = TRUE].saved = op[t].saved
    BY <1>3 DEF Ops
  <1>5. /\ op' \in [Tasks -> Ops]
        /\ \A u \in Tasks : op'[u].at = op[u].at /\ op'[u].saved = op[u].saved
    BY <1>1, <1>2, <1>4
  <1>6. stateLock' = stateLock /\ reboots' = reboots /\ state' = s
    BY DEF Enters
  <1>7. /\ \A u \in Tasks : stateLock = u <=> op[u].at = "iterate"
        /\ stateLock \in Tasks \cup {"none"} /\ byHand \in BOOLEAN
        /\ retries \in 0..(MaxRetries + 1)
    BY DEF ScInv, ScTypeOK
  <1>8. retries' \in 0..(MaxRetries + 1) /\ byHand' \in BOOLEAN
    BY <1>7, ScBounds DEF Enters
  <1> QED BY <1>5, <1>6, <1>7, <1>8

\* Entering any state but GET_ENDPOINT keeps the endpoints known, if they are left alone.
LEMMA EntersKeeps ==
  ASSUME ScInv, NEW t \in Tasks, NEW s \in States \ {"GET_ENDPOINT"}, Enters(t, s),
         endpoints' = endpoints
  PROVE  EndpointsInv'
  <1>1. s \in NextStates /\ state' = s /\ byHand' = byHand
    BY DEF Enters, ScInv, ScTypeOK
  <1>2. state \in States
    BY DEF ScInv, ScTypeOK
  <1>3. ASSUME s \in Past \cup {"GET_ICE"}, ~byHand
        PROVE  endpoints # ""
    BY <1>1, <1>2, <1>3, NextPast DEF ScInv, EndpointsInv
  <1> QED BY <1>1, <1>3 DEF EndpointsInv

\* Entering a state keeps what is known of the storage, if the entry in NVS is left alone.
LEMMA EntersStorage ==
  ASSUME ScInv, NEW t \in Tasks, NEW s \in States, Enters(t, s), nvs' = nvs,
         storage' => storage \/ s = "DESCRIBE_MEDIA"
  PROVE  StorageInv'
  <1>1. s \in NextStates /\ state' = s /\ state \in States
    BY DEF Enters, ScInv, ScTypeOK
  <1>2. s = "DESCRIBE_MEDIA" => UseMedia
    BY <1>1, NextMedia DEF ScInv, StorageInv
  <1>3. \A u \in Tasks : op'[u].saved # "DESCRIBE_MEDIA"
    BY EntersType DEF ScInv, StorageInv
  <1> QED BY <1>1, <1>2, <1>3 DEF ScInv, StorageInv

\* A step that leaves the endpoints and the storage alone caches no new ones.
LEMMA MatchKept ==
  ASSUME ScInv, endpoints' = endpoints, storage' = storage,
         "endpoint" \in cached' => "endpoint" \in cached
  PROVE  EndpointsMatchStorage'
  BY DEF ScInv, EndpointsMatchStorage, Asked

\* The types of everything but the machine, the locks and the calls.
DataType ==
  /\ result \in Results /\ refreshIce \in BOOLEAN
  /\ creds \in {"none", "valid", "expired"}
  /\ cached \subseteq {"describe", "media", "endpoint"}
  /\ endpoints \in {"", "plain", "media"} /\ storage \in BOOLEAN
  /\ nvs \subseteq [endpoints: {"", "plain", "media"}, storage: BOOLEAN]
  /\ ice \in {"none", "expired", "valid"}
  /\ linked \in BOOLEAN /\ deleting \in BOOLEAN /\ deleted \in BOOLEAN
  /\ faults \in 0..MaxFaults

\* With the types Enters() keeps, they are all.
LEMMA EntersTyped ==
  ASSUME ScInv, NEW t \in Tasks, NEW s \in States, Enters(t, s), DataType'
  PROVE  ScTypeOK'
  <1>1. reboots \in 0..MaxReboots
    BY DEF ScInv, ScTypeOK
  <1> QED BY <1>1, EntersType DEF ScTypeOK, DataType, Ops

\* The service's answer is a fault or not.
LEMMA FaultyType ==
  ASSUME faults \in 0..MaxFaults, NEW r, Faulty(r)
  PROVE  faults' \in 0..MaxFaults
  BY ScBounds DEF Faulty

\* Each service call preserves the invariant.
LEMMA StateCallStep ==
  ASSUME ScInv, NEW t \in Tasks, StateCall(t)
  PROVE  ScInv'
  <1> USE DEF data, flags, machine
  <1> DataType
    BY DEF ScInv, ScTypeOK, DataType
  <1>1. ASSUME NEW r \in Replies, GetsToken(t, r)
        PROVE  ScInv'
    <2>1. Enters(t, "GET_TOKEN") /\ "GET_TOKEN" \in States \ {"GET_ENDPOINT"}
      BY <1>1 DEF GetsToken, States
    <2>2. DataType'
      BY <1>1, FaultyType DEF GetsToken, DataType, Results
    <2>3. UNCHANGED <<cached, endpoints, storage, nvs>>
      BY <1>1 DEF GetsToken
    <2> QED BY <2>1, <2>2, <2>3, EntersKeeps, EntersStorage, MatchKept, EntersTyped DEF ScInv
  <1>2. ASSUME NEW r \in Replies, Describes(t, r)
        PROVE  ScInv'
    <2>1. Enters(t, "DESCRIBE") /\ "DESCRIBE" \in States \ {"GET_ENDPOINT"}
      BY <1>2 DEF Describes, States
    <2>2. result' \in Results
      BY <1>2 DEF Describes, DescribeChannelEsp, HttpResult, Replies, Outcome, Results
    <2>3. /\ UNCHANGED <<refreshIce, creds, endpoints, storage, nvs, ice, linked, deleting, deleted>>
          /\ Faulty(r)
      BY <1>2 DEF Describes
    <2>4. cached' = cached \/ cached' = cached \cup {"describe"}
      BY <1>2 DEF Describes, DescribeChannelEsp
    <2>5. DataType'
      BY <2>2, <2>3, <2>4, FaultyType DEF DataType
    <2> QED BY <2>1, <2>3, <2>4, <2>5, EntersKeeps, EntersStorage, MatchKept, EntersTyped DEF ScInv
  <1>3. ASSUME NEW r \in Replies, Creates(t, r)
        PROVE  ScInv'
    <2>1. Enters(t, "CREATE") /\ "CREATE" \in States \ {"GET_ENDPOINT"}
      BY <1>3 DEF Creates, States
    <2>2. DataType'
      BY <1>3, FaultyType DEF Creates, CreateChannelEsp, Outcome, DataType, Results
    <2>3. UNCHANGED <<cached, endpoints, storage, nvs>>
      BY <1>3 DEF Creates
    <2> QED BY <2>1, <2>2, <2>3, EntersKeeps, EntersStorage, MatchKept, EntersTyped DEF ScInv
  <1>4. ASSUME NEW r \in Replies, GetsEndpoint(t, r)
        PROVE  ScInv'
    <2>1. Enters(t, "GET_ENDPOINT") /\ "GET_ENDPOINT" \in States /\ state' = "GET_ENDPOINT"
      BY <1>4 DEF GetsEndpoint, States, Enters
    <2>2. GetEndpointEsp(r) /\ UNCHANGED <<refreshIce, creds, storage, ice, linked, deleting, deleted>>
      BY <1>4 DEF GetsEndpoint
    <2>3. CASE r = "ok"
      <3>1. endpoints' = Asked /\ result' = "OK"
        BY <2>2, <2>3 DEF GetEndpointEsp, HttpResult
      <3>2. cached' = cached \cup {"endpoint"} /\ SaveToNvs
        BY <1>4, <2>3 DEF GetsEndpoint
      <3>3. endpoints' = (IF storage THEN "media" ELSE "plain")
        BY <3>1 DEF Asked
      <3>4. faults' \in 0..MaxFaults
        <4>1. faults' = faults \/ (faults < MaxFaults /\ faults' = faults + 1)
          BY <3>2 DEF SaveToNvs
        <4>2. faults \in 0..MaxFaults
          BY DEF DataType
        <4> QED BY <4>1, <4>2, ScBounds
      <3>5. nvs' = nvs \/ nvs' = {[endpoints |-> endpoints', storage |-> storage]}
        BY <3>2 DEF SaveToNvs
      <3>6. DataType'
        <4>1. [endpoints |-> endpoints', storage |-> storage]
                \in [endpoints: {"", "plain", "media"}, storage: BOOLEAN]
          BY <3>3 DEF DataType
        <4>2. nvs' \subseteq [endpoints: {"", "plain", "media"}, storage: BOOLEAN]
          BY <3>5, <4>1 DEF DataType
        <4> QED BY <2>2, <3>1, <3>2, <3>3, <3>4, <4>2 DEF DataType, Results
      <3>7. EndpointsInv' /\ EndpointsMatchStorage'
        BY <2>1, <2>2, <3>3 DEF EndpointsInv, EndpointsMatchStorage, Asked, Past
      <3>8. \A u \in Tasks : op'[u].saved # "DESCRIBE_MEDIA"
        BY <2>1, EntersType DEF ScInv, StorageInv
      <3>9. \A entry \in nvs' : /\ entry.storage => UseMedia
                                /\ entry.endpoints \in {"", IF entry.storage THEN "media" ELSE "plain"}
        <4>1. SUFFICES ASSUME NEW entry \in nvs', entry \notin nvs
                       PROVE  /\ entry.storage => UseMedia
                              /\ entry.endpoints \in {"", IF entry.storage THEN "media" ELSE "plain"}
          BY DEF ScInv, StorageInv
        <4>2. entry = [endpoints |-> endpoints', storage |-> storage]
          BY <3>5, <4>1
        <4>3. entry.endpoints = endpoints' /\ entry.storage = storage
          BY <4>2
        <4> QED BY <3>3, <4>3 DEF ScInv, StorageInv
      <3>10. StorageInv'
        BY <2>1, <2>2, <3>8, <3>9 DEF ScInv, StorageInv
      <3> QED BY <2>1, <3>6, <3>7, <3>10, EntersTyped DEF ScInv
    <2>4. CASE r # "ok"
      <3>1. UNCHANGED <<cached, nvs>> /\ Faulty(r) /\ "endpoint" \notin cached
        BY <1>4, <2>4 DEF GetsEndpoint
      <3>2. result' \in Results \ {"OK"} /\ endpoints' \in {"", "plain", "media"}
        BY <2>2, <2>4 DEF GetEndpointEsp, HttpResult, Replies, Results, DataType
      <3>3. DataType'
        BY <2>2, <3>1, <3>2, FaultyType DEF DataType
      <3>4. EndpointsInv' /\ EndpointsMatchStorage'
        BY <2>1, <3>1, <3>2 DEF EndpointsInv, EndpointsMatchStorage, Past
      <3> QED BY <2>1, <2>2, <3>1, <3>3, <3>4, EntersStorage, EntersTyped DEF ScInv
    <2> QED BY <2>3, <2>4
  <1>5. ASSUME NEW r \in Replies, GetsIce(t, r)
        PROVE  ScInv'
    <2>1. Enters(t, "GET_ICE") /\ "GET_ICE" \in States \ {"GET_ENDPOINT"}
      BY <1>5 DEF GetsIce, States
    <2>2. result' \in Results /\ ice' \in {"none", "expired", "valid"}
      BY <1>5 DEF GetsIce, GetIceConfigEsp, IceAfter, HttpFails, Replies, Results, DataType
    <2>3. UNCHANGED <<cached, endpoints, storage, nvs, creds, linked, deleting, deleted>> /\ refreshIce' \in BOOLEAN /\ Faulty(r)
      BY <1>5 DEF GetsIce, DataType
    <2>4. DataType'
      BY <2>2, <2>3, FaultyType DEF DataType
    <2> QED BY <2>1, <2>3, <2>4, EntersKeeps, EntersStorage, MatchKept, EntersTyped DEF ScInv
  <1>6. ASSUME NEW r \in Replies, Connects(t, r)
        PROVE  ScInv'
    <2>1. Enters(t, "CONNECT") /\ "CONNECT" \in States \ {"GET_ENDPOINT"}
      BY <1>6 DEF Connects, States
    <2>2. DataType'
      BY <1>6, FaultyType DEF Connects, DataType, Results
    <2>3. UNCHANGED <<cached, endpoints, storage, nvs>>
      BY <1>6 DEF Connects
    <2> QED BY <2>1, <2>2, <2>3, EntersKeeps, EntersStorage, MatchKept, EntersTyped DEF ScInv
  <1>7. ASSUME NEW r \in Replies, Joins(t, r)
        PROVE  ScInv'
    <2>1. Enters(t, "JOIN") /\ "JOIN" \in States \ {"GET_ENDPOINT"}
      BY <1>7 DEF Joins, States
    <2>2. DataType'
      BY <1>7, FaultyType DEF Joins, JoinStorageSessionEsp, DataType, Results
    <2>3. UNCHANGED <<cached, endpoints, storage, nvs>>
      BY <1>7 DEF Joins
    <2> QED BY <2>1, <2>2, <2>3, EntersKeeps, EntersStorage, MatchKept, EntersTyped DEF ScInv
  <1>8. ASSUME NEW r \in Replies, Deletes(t, r)
        PROVE  ScInv'
    <2>1. Enters(t, "DELETE") /\ "DELETE" \in States \ {"GET_ENDPOINT"}
      BY <1>8 DEF Deletes, States
    <2>2. DataType'
      BY <1>8, FaultyType DEF Deletes, DeleteChannelEsp, DataType, Results
    <2>3. UNCHANGED <<cached, endpoints, storage, nvs>>
      BY <1>8 DEF Deletes
    <2> QED BY <2>1, <2>2, <2>3, EntersKeeps, EntersStorage, MatchKept, EntersTyped DEF ScInv
  <1>9. ASSUME NEW r \in Replies, NEW s \in BOOLEAN, DescribesMedia(t, r, s)
        PROVE  ScInv'
    <2>1. Enters(t, "DESCRIBE_MEDIA") /\ "DESCRIBE_MEDIA" \in States \ {"GET_ENDPOINT"}
      BY <1>9 DEF DescribesMedia, States
    <2>2. result' \in Results /\ storage' \in BOOLEAN /\ cached' \subseteq {"describe", "media", "endpoint"}
      BY <1>9 DEF DescribesMedia, DescribeMediaEsp, Outcome, Results, DataType
    <2>3. UNCHANGED <<refreshIce, creds, endpoints, nvs, ice, linked, deleting, deleted>> /\ Faulty(r)
      BY <1>9 DEF DescribesMedia
    <2>4. DataType'
      BY <2>2, <2>3, FaultyType DEF DataType
    <2>5. "endpoint" \in cached' => ("endpoint" \in cached /\ storage' = storage)
      BY <1>9 DEF DescribesMedia, DescribeMediaEsp
    <2>6. EndpointsMatchStorage'
      <3>1. CASE "endpoint" \in cached'
        BY <2>3, <2>5, <3>1, MatchKept
      <3>2. CASE "endpoint" \notin cached'
        BY <3>2 DEF EndpointsMatchStorage
      <3> QED BY <3>1, <3>2
    <2> QED BY <2>1, <2>3, <2>4, <2>6, EntersKeeps, EntersStorage, EntersTyped DEF ScInv
  <1>10. CASE GetsCachedEndpoint(t)
    <2>1. Enters(t, "GET_ENDPOINT") /\ "GET_ENDPOINT" \in States /\ state' = "GET_ENDPOINT"
      BY <1>10 DEF GetsCachedEndpoint, States, Enters
    <2>2. UNCHANGED <<refreshIce, creds, endpoints, storage, ice, linked, deleting, deleted, faults>>
      BY <1>10 DEF GetsCachedEndpoint
    <2>3. /\ cached' \subseteq cached /\ (nvs' = nvs \/ nvs' = {}) /\ result' \in Results
          /\ result' = "OK" => endpoints # ""
      BY <1>10 DEF GetsCachedEndpoint, DeleteFromNvs, Results
    <2>4. DataType'
      BY <2>2, <2>3 DEF DataType
    <2>5. EndpointsInv' /\ EndpointsMatchStorage'
      BY <2>1, <2>2, <2>3, MatchKept DEF EndpointsInv, Past
    <2>6. \A u \in Tasks : op'[u].saved # "DESCRIBE_MEDIA"
      BY <2>1, EntersType DEF ScInv, StorageInv
    <2>7. StorageInv'
      BY <2>1, <2>2, <2>3, <2>6 DEF ScInv, StorageInv
    <2> QED BY <2>1, <2>4, <2>5, <2>7, EntersTyped DEF ScInv
  <1>11. CASE DeletedReached(t)
    <2>1. Enters(t, "DELETED") /\ "DELETED" \in States \ {"GET_ENDPOINT"}
      BY <1>11 DEF DeletedReached, States
    <2>2. DataType' /\ UNCHANGED <<cached, endpoints, storage, nvs>>
      BY <1>11 DEF DeletedReached, DataType
    <2> QED BY <2>1, <2>2, EntersKeeps, EntersStorage, MatchKept, EntersTyped DEF ScInv
  <1>12. ASSUME NEW s \in States, CallNotAuthorized(t, s)
         PROVE  ScInv'
    <2>1. Enters(t, s) /\ UNCHANGED <<cached, endpoints, storage, nvs>> /\ result' = "NOT_AUTHORIZED"
      BY <1>12 DEF CallNotAuthorized
    <2>2. DataType'
      BY <1>12 DEF CallNotAuthorized, DataType, Results
    <2>3. EndpointsInv'
      <3>1. CASE s = "GET_ENDPOINT"
        BY <2>1, <3>1 DEF Enters, EndpointsInv, Past
      <3>2. CASE s # "GET_ENDPOINT"
        BY <2>1, <3>2, EntersKeeps
      <3> QED BY <3>1, <3>2
    <2> QED BY <2>1, <2>2, <2>3, EntersStorage, MatchKept, EntersTyped DEF ScInv
  <1>13. ASSUME NEW s \in States, Reaches(t, s)
         PROVE  ScInv'
    <2>1. Enters(t, s) /\ s \in States \ {"GET_ENDPOINT"}
      BY <1>13 DEF Reaches
    <2>2. DataType' /\ UNCHANGED <<cached, endpoints, storage, nvs>>
      BY <1>13 DEF Reaches, DataType, Results
    <2> QED BY <2>1, <2>2, EntersKeeps, EntersStorage, MatchKept, EntersTyped DEF ScInv
  <1> QED BY <1>1, <1>2, <1>3, <1>4, <1>5, <1>6, <1>7, <1>8, <1>9, <1>10, <1>11, <1>12, <1>13 DEF StateCall

\* The machine's own steps leave the data alone.
Steady == UNCHANGED <<cached, endpoints, storage, nvs>>

\* A call's step that sets no state and leaves the data alone keeps what is known of them.
LEMMA SteadyKeeps ==
  ASSUME ScInv, Steady, state' = state, byHand' = byHand \/ byHand' = TRUE,
         result' # "OK" \/ result' = result \/ byHand' = TRUE \/ state # "GET_ENDPOINT",
         \A u \in Tasks : op'[u].saved # "DESCRIBE_MEDIA"
  PROVE  EndpointsInv' /\ StorageInv' /\ EndpointsMatchStorage'
  <1>1. EndpointsInv'
    BY DEF Steady, ScInv, ScTypeOK, EndpointsInv
  <1>2. StorageInv'
    BY DEF Steady, ScInv, StorageInv
  <1>3. EndpointsMatchStorage'
    BY MatchKept DEF Steady
  <1> QED BY <1>1, <1>2, <1>3

\* So does one that puts back a state it saved, as byHand then excuses it.
LEMMA RestoreKeeps ==
  ASSUME ScInv, Steady, state' # "DESCRIBE_MEDIA", byHand' = TRUE,
         \A u \in Tasks : op'[u].saved # "DESCRIBE_MEDIA"
  PROVE  EndpointsInv' /\ StorageInv' /\ EndpointsMatchStorage'
  <1>1. EndpointsInv'
    BY DEF EndpointsInv
  <1>2. StorageInv'
    BY DEF Steady, ScInv, StorageInv
  <1>3. EndpointsMatchStorage'
    BY MatchKept DEF Steady
  <1> QED BY <1>1, <1>2, <1>3

\* What remains to be shown of the types when the calls and the lock are.
CallType == /\ state \in States /\ retries \in 0..(MaxRetries + 1)
            /\ op \in [Tasks -> Ops] /\ stateLock \in Tasks \cup {"none"}
            /\ \A u \in Tasks : stateLock = u <=> op[u].at = "iterate"
            /\ byHand \in BOOLEAN /\ reboots \in 0..MaxReboots

\* The types, split into those of the calls and those of the data.
LEMMA Typed ==
  /\ ScTypeOK <=> CallType /\ DataType
  /\ ScTypeOK' <=> CallType' /\ DataType'
  BY DEF ScTypeOK, CallType, DataType, Ops

\* Setting a call's record to one that does not iterate, its task not holding the lock.
LEMMA StartsCallType ==
  ASSUME ScInv, NEW t \in Tasks,
         NEW c \in {"none", "create", "fetch", "connect", "disconnect", "delete", "refresh"},
         NEW a \in {"idle", "lock", "ok", "failed"}, NEW s \in States \ {"DESCRIBE_MEDIA"}, NEW w \in BOOLEAN,
         Starts(t, c, a, s, w), op[t].at # "iterate", stateLock' = stateLock
  PROVE  /\ op' \in [Tasks -> Ops] /\ stateLock' \in Tasks \cup {"none"}
         /\ \A u \in Tasks : stateLock' = u <=> op'[u].at = "iterate"
         /\ \A u \in Tasks : op'[u].saved # "DESCRIBE_MEDIA"
  <1>1. /\ op' \in [Tasks -> Ops]
        /\ op'[t] = [call |-> c, at |-> a, saved |-> s, was |-> w, moved |-> FALSE]
        /\ \A u \in Tasks \ {t} : op'[u] = op[u]
    BY DEF Starts, ScInv, ScTypeOK, Ops
  <1>2. op'[t].at = a /\ op'[t].saved = s
    BY <1>1
  <1> QED BY <1>1, <1>2, ZenonT(60) DEF ScInv, ScTypeOK, StorageInv

\* The same for the end of an iteration and the first step of one.
LEMMA AtCallType ==
  ASSUME ScInv, NEW t \in Tasks, NEW a \in {"idle", "lock", "iterate", "ok", "failed"},
         op' = [op EXCEPT ![t].at = a], stateLock' \in {t, "none"},
         stateLock' = t <=> a = "iterate", stateLock \in {t, "none"}
  PROVE  /\ op' \in [Tasks -> Ops] /\ stateLock' \in Tasks \cup {"none"}
         /\ \A u \in Tasks : stateLock' = u <=> op'[u].at = "iterate"
         /\ \A u \in Tasks : op'[u].saved # "DESCRIBE_MEDIA"
  <1>1. op \in [Tasks -> Ops]
    BY DEF ScInv, ScTypeOK, Ops
  <1>2. op' = [op EXCEPT ![t] = [op[t] EXCEPT !.at = a]]
    OBVIOUS
  <1>3. op[t] \in Ops
    BY <1>1
  <1>4. /\ [op[t] EXCEPT !.at = a] \in Ops
        /\ [op[t] EXCEPT !.at = a].at = a
        /\ [op[t] EXCEPT !.at = a].saved = op[t].saved
    BY <1>3 DEF Ops
  <1>5. /\ op' \in [Tasks -> Ops]
        /\ op'[t].at = a /\ op'[t].saved = op[t].saved
        /\ \A u \in Tasks \ {t} : op'[u] = op[u]
    BY <1>1, <1>2, <1>4
  <1>6. \A u \in Tasks \ {t} : op[u].at # "iterate" /\ stateLock' # u
    BY DEF ScInv, ScTypeOK, Tasks
  <1> QED BY <1>5, <1>6 DEF ScInv, StorageInv

\* Leaving the rest of the data and the flags alone keeps their types.
LEMMA DataKept ==
  ASSUME ScInv, UNCHANGED <<data, deleting, deleted>>,
         result' \in Results, refreshIce' \in BOOLEAN, linked' \in BOOLEAN, faults' \in 0..MaxFaults
  PROVE  DataType' /\ Steady
  BY DEF ScInv, ScTypeOK, DataType, data, Steady

\* The steps of the machine that make no service call.
LEMMA IterationStep ==
  ASSUME ScInv, NEW t \in Tasks, Arrives(t) \/ RunsOutOfRetries(t) \/ TimesOut(t) \/ TakesStateLock(t)
  PROVE  ScInv'
  <1> USE DEF data, flags, machine
  <1>1. PICK a \in {"iterate", "ok", "failed"} :
          /\ op' = [op EXCEPT ![t].at = a] /\ (stateLock' = t <=> a = "iterate")
          /\ stateLock' \in {t, "none"} /\ stateLock \in {t, "none"}
    BY DEF Arrives, RunsOutOfRetries, TimesOut, TakesStateLock, IterationEnds, Tasks
  <1>2. /\ op' \in [Tasks -> Ops] /\ stateLock' \in Tasks \cup {"none"}
        /\ \A u \in Tasks : stateLock' = u <=> op'[u].at = "iterate"
        /\ \A u \in Tasks : op'[u].saved # "DESCRIBE_MEDIA"
    BY <1>1, AtCallType
  <1>3. /\ UNCHANGED <<state, result, refreshIce, data, flags, byHand, reboots>>
        /\ faults' = faults \/ (faults < MaxFaults /\ faults' = faults + 1)
        /\ retries' = retries \/ retries' = MaxRetries + 1
    BY DEF Arrives, RunsOutOfRetries, TimesOut, TakesStateLock, IterationEnds
  <1>4. /\ faults \in 0..MaxFaults /\ retries \in 0..(MaxRetries + 1) /\ state \in States
        /\ byHand \in BOOLEAN /\ reboots \in 0..MaxReboots
        /\ result \in Results /\ refreshIce \in BOOLEAN /\ linked \in BOOLEAN
    BY DEF ScInv, ScTypeOK
  <1>5. faults' \in 0..MaxFaults /\ retries' \in 0..(MaxRetries + 1)
    BY <1>3, <1>4, ScBounds
  <1>6. CallType'
    BY <1>2, <1>3, <1>4, <1>5 DEF CallType
  <1>7. DataType' /\ Steady
    BY <1>3, <1>4, <1>5, DataKept
  <1>8. EndpointsInv' /\ StorageInv' /\ EndpointsMatchStorage'
    BY <1>2, <1>3, <1>7, SteadyKeeps
  <1> QED BY <1>6, <1>7, <1>8, Typed DEF ScInv

\* Creating the client takes the entry in NVS over, a failed creation starts again.
LEMMA CreateStep ==
  ASSUME ScInv, CreateBegins \/ CreateEnds
  PROVE  ScInv'
  <1> USE DEF data, flags, machine
  <1> "conn" \in Tasks /\ "NEW" \in States \ {"DESCRIBE_MEDIA"}
    BY DEF Tasks, States
  <1>1. CASE CreateBegins
    <2>1. Starts("conn", "create", "lock", "NEW", FALSE) /\ op["conn"].at = "idle" /\ stateLock' = stateLock
      BY <1>1 DEF CreateBegins
    <2>2. /\ op' \in [Tasks -> Ops] /\ stateLock' \in Tasks \cup {"none"}
          /\ \A u \in Tasks : stateLock' = u <=> op'[u].at = "iterate"
          /\ \A u \in Tasks : op'[u].saved # "DESCRIBE_MEDIA"
      BY <2>1, StartsCallType
    <2>3. /\ state = "NEW" /\ LoadFromNvs
          /\ UNCHANGED <<machine, creds, nvs, ice, flags, faults, byHand, reboots>>
      BY <1>1 DEF CreateBegins
    <2>4. CASE nvs = {}
      <3>1. Steady
        BY <2>3, <2>4 DEF LoadFromNvs, Steady
      <3>2. EndpointsInv' /\ StorageInv' /\ EndpointsMatchStorage'
        BY <2>2, <2>3, <3>1, SteadyKeeps
      <3>3. CallType' /\ DataType'
        BY <2>2, <2>3, <3>1, ZenonT(60) DEF Steady, ScInv, ScTypeOK, CallType, DataType
      <3> QED BY <3>2, <3>3, Typed DEF ScInv
    <2>5. CASE nvs # {}
      <3>1. PICK entry \in nvs : /\ cached' = {"describe", "media", "endpoint"}
                                 /\ endpoints' = entry.endpoints
                                 /\ storage' = (UseMedia /\ entry.storage)
        BY <2>3, <2>5 DEF LoadFromNvs
      <3>2. /\ entry.endpoints \in {"", "plain", "media"} /\ entry.storage \in BOOLEAN
            /\ entry.storage => UseMedia
            /\ entry.endpoints \in {"", IF entry.storage THEN "media" ELSE "plain"}
        BY DEF ScInv, ScTypeOK, StorageInv
      <3>3. CallType' /\ DataType'
        BY <2>2, <2>3, <3>1, <3>2, ScBounds DEF ScInv, ScTypeOK, CallType, DataType
      <3>4. EndpointsInv'
        BY <2>3 DEF EndpointsInv, Past
      <3>5. StorageInv'
        BY <2>2, <2>3, <3>1, <3>2 DEF ScInv, StorageInv
      <3>6. EndpointsMatchStorage'
        BY <3>1, <3>2 DEF EndpointsMatchStorage, Asked
      <3> QED BY <3>3, <3>4, <3>5, <3>6, Typed DEF ScInv
    <2> QED BY <2>4, <2>5
  <1>2. CASE CreateEnds
    <2>1. /\ \E a \in {"ok", "idle"} : Starts("conn", "none", a, "NEW", FALSE)
          /\ op["conn"].at \in {"ok", "failed"} /\ UNCHANGED <<nvs, flags, stateLock, faults, byHand, reboots>>
      BY <1>2 DEF CreateEnds
    <2>2. /\ op' \in [Tasks -> Ops] /\ stateLock' \in Tasks \cup {"none"}
          /\ \A u \in Tasks : stateLock' = u <=> op'[u].at = "iterate"
          /\ \A u \in Tasks : op'[u].saved # "DESCRIBE_MEDIA"
      <3>1. PICK a \in {"ok", "idle"} : Starts("conn", "none", a, "NEW", FALSE)
        BY <2>1
      <3>2. a \in {"idle", "lock", "ok", "failed"}
        OBVIOUS
      <3> QED BY <2>1, <3>1, <3>2, StartsCallType
    <2>3. CASE UNCHANGED <<machine, data>>
      <3>1. Steady
        BY <2>3 DEF Steady
      <3>2. EndpointsInv' /\ StorageInv' /\ EndpointsMatchStorage'
        BY <2>1, <2>2, <2>3, <3>1, SteadyKeeps
      <3>3. CallType' /\ DataType'
        BY <2>1, <2>2, <2>3, ZenonT(60) DEF ScInv, ScTypeOK, CallType, DataType
      <3> QED BY <3>2, <3>3, Typed DEF ScInv
    <2>4. CASE /\ state' = "NEW" /\ retries' = 0 /\ result' = "NOT_SET" /\ refreshIce' = FALSE
               /\ creds' = "none" /\ cached' = {} /\ endpoints' = "" /\ storage' = FALSE /\ ice' = "none"
      <3>1. CallType' /\ DataType'
        <4>1. CallType'
          <5>1. byHand \in BOOLEAN /\ reboots \in 0..MaxReboots
            BY DEF ScInv, ScTypeOK
          <5>2. byHand' = byHand /\ reboots' = reboots
            BY <2>1
          <5>3. 0 \in 0..(MaxRetries + 1)
            BY ScBounds
          <5> QED BY <2>2, <2>4, <5>1, <5>2, <5>3 DEF CallType
        <4>2. DataType'
          BY <2>1, <2>4 DEF ScInv, ScTypeOK, DataType, Results
        <4> QED BY <4>1, <4>2
      <3>2. EndpointsInv' /\ StorageInv' /\ EndpointsMatchStorage'
        BY <2>1, <2>2, <2>4 DEF ScInv, EndpointsInv, StorageInv, EndpointsMatchStorage, Past
      <3> QED BY <3>1, <3>2, Typed DEF ScInv
    <2> QED BY <1>2, <2>3, <2>4 DEF CreateEnds
  <1> QED BY <1>1, <1>2

\* A step that starts or ends a call of one task, outside its iteration, and leaves the
\* data alone: what it sets of the machine decides.
LEMMA CallKeeps ==
  ASSUME ScInv, NEW t \in Tasks,
         NEW c \in {"none", "create", "fetch", "connect", "disconnect", "delete", "refresh"},
         NEW a \in {"idle", "lock", "ok", "failed"}, NEW s \in States \ {"DESCRIBE_MEDIA"}, NEW w \in BOOLEAN,
         Starts(t, c, a, s, w), op[t].at # "iterate",
         UNCHANGED <<refreshIce, data, deleted, stateLock, reboots>>,
         state' \in States \ {"DESCRIBE_MEDIA"} \/ state' = state,
         retries' \in {0, retries}, result' \in Results, linked' \in BOOLEAN, deleting' \in BOOLEAN,
         faults' = faults \/ (faults < MaxFaults /\ faults' = faults + 1),
         byHand' \in BOOLEAN,
         \/ byHand' = TRUE
         \/ /\ byHand' = byHand /\ state' \notin Past \cup {"GET_ICE", "GET_ENDPOINT"}
         \/ /\ byHand' = byHand /\ state' = state
            /\ result' # "OK" \/ result' = result \/ state # "GET_ENDPOINT"
  PROVE  ScInv'
  <1>1. /\ op' \in [Tasks -> Ops] /\ stateLock' \in Tasks \cup {"none"}
        /\ \A u \in Tasks : stateLock' = u <=> op'[u].at = "iterate"
        /\ \A u \in Tasks : op'[u].saved # "DESCRIBE_MEDIA"
    BY StartsCallType
  <1>2. /\ faults \in 0..MaxFaults /\ retries \in 0..(MaxRetries + 1) /\ state \in States
        /\ reboots \in 0..MaxReboots /\ refreshIce \in BOOLEAN /\ byHand \in BOOLEAN
    BY DEF ScInv, ScTypeOK
  <1>3. faults' \in 0..MaxFaults /\ retries' \in 0..(MaxRetries + 1) /\ state' \in States
    BY <1>2, ScBounds
  <1>4. CallType'
    BY <1>1, <1>2, <1>3 DEF CallType
  <1>5. DataType' /\ Steady
    BY <1>3 DEF ScInv, ScTypeOK, DataType, data, Steady
  <1>6. EndpointsInv'
    BY <1>5 DEF EndpointsInv, ScInv, Steady
  <1>7. StorageInv'
    BY <1>1, <1>5 DEF StorageInv, ScInv, Steady
  <1>8. EndpointsMatchStorage'
    BY <1>5, MatchKept DEF Steady
  <1> QED BY <1>4, <1>5, <1>6, <1>7, <1>8, Typed DEF ScInv

\* The calls of the connecting task preserve the invariant before and after they iterate.
LEMMA CallStep ==
  ASSUME ScInv, FetchBegins \/ FetchEnds \/ ConnectBegins \/ ConnectEnds \/ DisconnectBegins
                \/ DeleteBegins \/ DisconnectOrDeleteEnds
  PROVE  ScInv'
  <1> USE DEF data, flags, machine
  <1> /\ "conn" \in Tasks /\ "NEW" \in States \ {"DESCRIBE_MEDIA"}
      /\ result \in Results /\ linked \in BOOLEAN /\ deleting \in BOOLEAN /\ byHand \in BOOLEAN
    BY DEF Tasks, States, ScInv, ScTypeOK
  <1>1. CASE FetchBegins
    <2>1. /\ Starts("conn", "fetch", "lock", "NEW", FALSE) /\ op["conn"].at # "iterate"
          /\ UNCHANGED <<refreshIce, data, deleting, deleted, stateLock, reboots, retries, faults, byHand>>
          /\ state' = "GET_TOKEN" /\ result' \in Results /\ linked' = FALSE
      BY <1>1 DEF FetchBegins, Results
    <2>2. "GET_TOKEN" \in States \ {"DESCRIBE_MEDIA"} /\ "GET_TOKEN" \notin Past \cup {"GET_ICE", "GET_ENDPOINT"}
      BY DEF States, Past
    <2> QED BY <2>1, <2>2, CallKeeps
  <1>2. CASE FetchEnds
    <2>1. \E c \in {"none", "connect"} : Starts("conn", c, "idle", "NEW", FALSE)
      BY <1>2 DEF FetchEnds
    <2>2. PICK c \in {"none", "connect"} : Starts("conn", c, "idle", "NEW", FALSE)
      BY <2>1
    <2>3. /\ op["conn"].at # "iterate" /\ retries' \in {0, retries}
          /\ UNCHANGED <<state, result, refreshIce, data, linked, deleting, deleted, stateLock, faults, byHand, reboots>>
      BY <1>2 DEF FetchEnds
    <2>4. c \in {"none", "create", "fetch", "connect", "disconnect", "delete", "refresh"}
      OBVIOUS
    <2> QED BY <2>2, <2>3, <2>4, CallKeeps
  <1>3. CASE ConnectBegins
    <2>1. /\ op["conn"].at # "iterate"
          /\ UNCHANGED <<state, retries, result, refreshIce, data, linked, deleting, deleted, stateLock, faults, byHand, reboots>>
      BY <1>3 DEF ConnectBegins
    <2>2. CASE Starts("conn", "none", "idle", "NEW", FALSE)
      BY <2>1, <2>2, CallKeeps
    <2>3. CASE state \in ConnectStates /\ Starts("conn", "connect", "lock", state, linked)
      <3>1. state \in States \ {"DESCRIBE_MEDIA"}
        BY <2>3 DEF ConnectStates, States
      <3> QED BY <2>1, <2>3, <3>1, CallKeeps
    <2> QED BY <1>3, <2>2, <2>3 DEF ConnectBegins
  <1>4. CASE ConnectEnds
    <2>1. /\ op["conn"].at \in {"ok", "failed"} /\ Starts("conn", "none", "idle", "NEW", FALSE)
          /\ UNCHANGED <<refreshIce, data, deleting, deleted, stateLock, faults, reboots>>
      BY <1>4 DEF ConnectEnds
    <2>2. CASE op["conn"].at = "ok"
      <3>1. UNCHANGED <<state, retries, result, linked, byHand>>
        BY <1>4, <2>2 DEF ConnectEnds
      <3> QED BY <2>1, <3>1, CallKeeps
    <2>3. CASE op["conn"].at = "failed"
      <3>1. /\ retries' = 0 /\ state' = op["conn"].saved /\ linked' = (linked /\ op["conn"].was)
            /\ result' \in {result, "NOT_SET"} /\ byHand' = TRUE
        BY <1>4, <2>3 DEF ConnectEnds
      <3>2. state' \in States \ {"DESCRIBE_MEDIA"} /\ linked' \in BOOLEAN /\ result' \in Results
        BY <3>1 DEF ScInv, ScTypeOK, StorageInv, Results
      <3> QED BY <2>1, <3>1, <3>2, CallKeeps
    <2> QED BY <2>1, <2>2, <2>3
  <1>5. CASE DisconnectBegins
    <2>1. /\ Starts("conn", "disconnect", "lock", "NEW", FALSE) /\ op["conn"] = [Idle EXCEPT !.saved = "NEW"]
          /\ UNCHANGED <<state, retries, refreshIce, data, deleting, deleted, stateLock, reboots>>
          /\ linked' = FALSE /\ result' = "OK" /\ faults < MaxFaults /\ faults' = faults + 1
          /\ byHand' = (byHand \/ state = "GET_ENDPOINT")
      BY <1>5 DEF DisconnectBegins
    <2>2. op["conn"].at # "iterate" /\ result' \in Results /\ byHand' \in BOOLEAN
      BY <2>1 DEF Idle, Results
    <2>3. byHand' = TRUE \/ (byHand' = byHand /\ state # "GET_ENDPOINT")
      BY <2>1
    <2> QED BY <2>1, <2>2, <2>3, CallKeeps
  <1>6. CASE DeleteBegins
    <2>1. /\ Starts("conn", "delete", "lock", "NEW", FALSE) /\ op["conn"].at # "iterate"
          /\ UNCHANGED <<retries, result, refreshIce, data, deleted, stateLock, reboots, byHand>>
          /\ state' = "DELETE" /\ deleting' = TRUE /\ linked' = FALSE
          /\ faults < MaxFaults /\ faults' = faults + 1
      BY <1>6 DEF DeleteBegins
    <2>2. "DELETE" \in States \ {"DESCRIBE_MEDIA"} /\ "DELETE" \notin Past \cup {"GET_ICE", "GET_ENDPOINT"}
      BY DEF States, Past
    <2> QED BY <2>1, <2>2, CallKeeps
  <1>7. CASE DisconnectOrDeleteEnds
    <2>1. /\ Starts("conn", "none", "idle", "NEW", FALSE) /\ op["conn"].at # "iterate"
          /\ UNCHANGED <<state, retries, result, refreshIce, data, linked, deleting, deleted, stateLock, faults, byHand, reboots>>
      BY <1>7 DEF DisconnectOrDeleteEnds
    <2> QED BY <2>1, CallKeeps
  <1> QED BY <1>1, <1>2, <1>3, <1>4, <1>5, <1>6, <1>7

\* So does the refresh of the ICE servers.
LEMMA RefreshStep ==
  ASSUME ScInv, RefreshBegins \/ RefreshLocks \/ RefreshEnds
  PROVE  ScInv'
  <1> USE DEF data, flags, machine
  <1> /\ "ice" \in Tasks /\ "NEW" \in States \ {"DESCRIBE_MEDIA"}
      /\ result \in Results /\ linked \in BOOLEAN /\ deleting \in BOOLEAN /\ byHand \in BOOLEAN
    BY DEF Tasks, States, ScInv, ScTypeOK
  <1>1. CASE RefreshBegins
    <2>1. /\ Starts("ice", "refresh", "lock", "NEW", FALSE) /\ op["ice"].at # "iterate"
          /\ UNCHANGED <<state, retries, result, refreshIce, data, linked, deleting, deleted, stateLock, faults, byHand, reboots>>
      BY <1>1 DEF RefreshBegins
    <2> QED BY <2>1, CallKeeps
  <1>2. CASE RefreshLocks
    <2>1. /\ op["ice"].at = "lock" /\ stateLock = "none" /\ result' = "RECONNECT_ICE" /\ refreshIce' = TRUE
          /\ UNCHANGED <<state, retries, data, flags, faults, byHand, reboots>>
      BY <1>2 DEF RefreshLocks
    <2>2. /\ op' \in [Tasks -> Ops] /\ stateLock' \in Tasks \cup {"none"}
          /\ \A u \in Tasks : stateLock' = u <=> op'[u].at = "iterate"
          /\ \A u \in Tasks : op'[u].saved # "DESCRIBE_MEDIA"
      <3>1. CASE /\ state \in {"READY", "CONNECTED", "JOINED"}
                 /\ stateLock' = "ice" /\ Starts("ice", "refresh", "iterate", state, FALSE)
        <4>1. /\ op' \in [Tasks -> Ops]
              /\ op'["ice"] = [call |-> "refresh", at |-> "iterate", saved |-> state, was |-> FALSE, moved |-> FALSE]
              /\ \A u \in Tasks \ {"ice"} : op'[u] = op[u]
          BY <3>1 DEF Starts, ScInv, ScTypeOK, Ops
        <4>2. op'["ice"].at = "iterate" /\ op'["ice"].saved = state
          BY <4>1
        <4>3. \A u \in Tasks \ {"ice"} : op[u].at # "iterate" /\ op[u].saved # "DESCRIBE_MEDIA"
          BY <2>1 DEF ScInv, ScTypeOK, StorageInv, Tasks
        <4> QED BY <3>1, <4>1, <4>2, <4>3
      <3>2. CASE stateLock' = "none" /\ Starts("ice", "none", "idle", "NEW", FALSE)
        <4>1. stateLock' = stateLock /\ op["ice"].at # "iterate"
          BY <2>1, <3>2
        <4> QED BY <3>2, <4>1, StartsCallType
      <3> QED BY <1>2, <3>1, <3>2 DEF RefreshLocks
    <2>3. result' \in Results \ {"OK"}
      BY <2>1 DEF Results
    <2>4. DataType' /\ Steady
      BY <2>1, <2>3 DEF ScInv, ScTypeOK, DataType, Steady
    <2>5. CallType'
      BY <2>1, <2>2 DEF ScInv, ScTypeOK, CallType
    <2>6. EndpointsInv' /\ StorageInv' /\ EndpointsMatchStorage'
      BY <2>1, <2>2, <2>3, <2>4, SteadyKeeps
    <2> QED BY <2>4, <2>5, <2>6, Typed DEF ScInv
  <1>3. CASE RefreshEnds
    <2>1. /\ Starts("ice", "none", "idle", "NEW", FALSE) /\ op["ice"].at \in {"ok", "failed"}
          /\ UNCHANGED <<retries, refreshIce, data, linked, deleting, deleted, stateLock, faults, reboots>>
          /\ byHand' = (byHand \/ op["ice"].at = "failed")
      BY <1>3 DEF RefreshEnds
    <2>2. CASE op["ice"].at = "ok"
      <3>1. UNCHANGED <<state, result, byHand>>
        BY <1>3, <2>1, <2>2 DEF RefreshEnds
      <3> QED BY <2>1, <3>1, CallKeeps
    <2>3. CASE op["ice"].at = "failed"
      <3>1. state' = op["ice"].saved /\ result' \in {"NOT_SET", "OK"} /\ byHand' = TRUE
        BY <1>3, <2>1, <2>3 DEF RefreshEnds
      <3>2. state' \in States \ {"DESCRIBE_MEDIA"} /\ result' \in Results
        BY <3>1 DEF ScInv, ScTypeOK, StorageInv, Results
      <3> QED BY <2>1, <3>1, <3>2, CallKeeps
    <2> QED BY <2>1, <2>2, <2>3
  <1> QED BY <1>1, <1>2, <1>3

\* So do the events around the client.
LEMMA EventStep ==
  ASSUME ScInv, LinkLost \/ TimePasses \/ Reboots
  PROVE  ScInv'
  <1> USE DEF data, flags, machine
  <1>1. CASE LinkLost
    <2>1. /\ UNCHANGED <<state, retries, refreshIce, data, deleting, deleted, stateLock, op, byHand, reboots>>
          /\ linked' = FALSE /\ faults < MaxFaults /\ faults' = faults + 1
          /\ result' \in {"UNKNOWN", "GO_AWAY", "RECONNECT_ICE"}
      BY <1>1 DEF LinkLost
    <2>2. faults' \in 0..MaxFaults
      <3>1. faults \in 0..MaxFaults
        BY DEF ScInv, ScTypeOK
      <3> QED BY <2>1, <3>1, ScBounds
    <2>3. ScTypeOK'
      <3>1. CallType'
        BY <2>1, Typed DEF ScInv, CallType
      <3>2. DataType'
        BY <2>1, <2>2, DataKept DEF Results, ScInv, ScTypeOK
      <3> QED BY <3>1, <3>2, Typed
    <2>4. EndpointsInv' /\ StorageInv' /\ EndpointsMatchStorage'
      BY <2>1, SteadyKeeps DEF Steady, ScInv, StorageInv
    <2> QED BY <2>3, <2>4 DEF ScInv
  <1>2. CASE TimePasses
    <2>1. /\ UNCHANGED <<machine, endpoints, storage, nvs, flags, stateLock, op, byHand, reboots>>
          /\ faults < MaxFaults /\ faults' = faults + 1 /\ cached' \in {cached, {}}
          /\ creds' \in {creds, "expired"} /\ ice' \in {ice, "expired"}
      BY <1>2 DEF TimePasses
    <2>2. faults' \in 0..MaxFaults
      <3>1. faults \in 0..MaxFaults
        BY DEF ScInv, ScTypeOK
      <3> QED BY <2>1, <3>1, ScBounds
    <2>3. ScTypeOK'
      <3>1. CallType'
        BY <2>1, Typed DEF ScInv, CallType
      <3>2. DataType'
        BY <2>1, <2>2, Typed, ZenonT(60) DEF ScInv, DataType
      <3> QED BY <3>1, <3>2, Typed
    <2>4. EndpointsInv' /\ StorageInv'
      BY <2>1 DEF ScInv, EndpointsInv, StorageInv
    <2>5. EndpointsMatchStorage'
      BY <2>1, MatchKept
    <2> QED BY <2>3, <2>4, <2>5 DEF ScInv
  <1>3. CASE Reboots
    <2>1. /\ state' = "NEW" /\ retries' = 0 /\ result' = "NOT_SET" /\ refreshIce' = FALSE
          /\ creds' = "none" /\ cached' = {} /\ endpoints' = "" /\ storage' = FALSE /\ ice' = "none"
          /\ linked' = FALSE /\ deleting' = FALSE /\ deleted' = FALSE
          /\ stateLock' = "none" /\ op' = [t \in Tasks |-> Idle] /\ byHand' = FALSE
          /\ UNCHANGED <<nvs, faults>> /\ reboots < MaxReboots /\ reboots' = reboots + 1
      BY <1>3 DEF Reboots
    <2>2. /\ Idle \in Ops /\ Idle.at = "idle" /\ Idle.saved = "NEW"
      BY DEF Idle, Ops, States
    <2>3. /\ op' \in [Tasks -> Ops] /\ \A u \in Tasks : op'[u].at = "idle" /\ op'[u].saved = "NEW"
      BY <2>1, <2>2
    <2>4. reboots' \in 0..MaxReboots /\ 0 \in 0..(MaxRetries + 1)
      <3>1. reboots \in 0..MaxReboots
        BY DEF ScInv, ScTypeOK
      <3>2. reboots < MaxReboots /\ reboots' = reboots + 1
        BY <2>1
      <3> QED BY <3>1, <3>2, ScBounds
    <2>5. CallType'
      BY <2>1, <2>3, <2>4 DEF CallType, States, Tasks
    <2>6. DataType'
      BY <2>1 DEF ScInv, ScTypeOK, DataType, Results
    <2>7. EndpointsInv' /\ StorageInv' /\ EndpointsMatchStorage'
      BY <2>1, <2>3 DEF ScInv, EndpointsInv, StorageInv, EndpointsMatchStorage, Past
    <2> QED BY <2>5, <2>6, <2>7, Typed DEF ScInv
  <1> QED BY <1>1, <1>2, <1>3

\* The invariant holds of every reachable state.
THEOREM CallsInductive == ScSpec => []ScInv
  <1>1. ScInit => ScInv
    <2> SUFFICES ASSUME ScInit PROVE ScInv
      OBVIOUS
    <2>1. Idle \in Ops /\ Idle.at = "idle" /\ Idle.saved = "NEW"
      BY DEF Idle, Ops, States
    <2>2. /\ op \in [Tasks -> Ops]
          /\ \A u \in Tasks : op[u].at = "idle" /\ op[u].saved = "NEW"
      BY <2>1 DEF ScInit
    <2>3. CallType
      <3>1. 0 \in 0..(MaxRetries + 1) /\ 0 \in 0..MaxReboots
        BY ScBounds
      <3>2. /\ state = "NEW" /\ retries = 0 /\ stateLock = "none" /\ byHand = FALSE /\ reboots = 0
        BY DEF ScInit
      <3> QED BY <2>2, <3>1, <3>2 DEF CallType, States, Tasks
    <2>4. \A entry \in nvs : /\ entry \in [endpoints: {"", "plain", "media"}, storage: BOOLEAN]
                            /\ entry.endpoints \in {"", "plain"} /\ entry.storage = FALSE
      <3>1. SUFFICES ASSUME NEW entry \in nvs
                     PROVE  /\ entry \in [endpoints: {"", "plain", "media"}, storage: BOOLEAN]
                            /\ entry.endpoints \in {"", "plain"} /\ entry.storage = FALSE
        OBVIOUS
      <3>2. nvs \in {{}, {[endpoints |-> "", storage |-> FALSE]}, {[endpoints |-> "plain", storage |-> FALSE]}}
        BY DEF ScInit
      <3>3. PICK e \in {"", "plain"} : entry = [endpoints |-> e, storage |-> FALSE]
        BY <3>1, <3>2
      <3> QED BY <3>3
    <2>5. nvs \subseteq [endpoints: {"", "plain", "media"}, storage: BOOLEAN]
      BY <2>4
    <2>6. DataType
      <3>1. 0 \in 0..MaxFaults
        BY ScBounds
      <3>2. /\ result = "NOT_SET" /\ refreshIce = FALSE /\ creds = "none" /\ cached = {} /\ endpoints = ""
            /\ storage = FALSE /\ ice = "none" /\ linked = FALSE /\ deleting = FALSE /\ deleted = FALSE
            /\ faults = 0
        BY DEF ScInit
      <3> QED BY <2>5, <3>1, <3>2 DEF DataType, Results
    <2>7. StorageInv
      <3>1. state = "NEW" /\ storage = FALSE
        BY DEF ScInit
      <3> QED BY <2>2, <2>4, <3>1 DEF StorageInv
    <2>8. EndpointsInv /\ EndpointsMatchStorage
      BY DEF ScInit, EndpointsInv, EndpointsMatchStorage, Past
    <2> QED BY <2>3, <2>6, <2>7, <2>8, Typed DEF ScInv
  <1>2. ScInv /\ [ScNext]_scVars => ScInv'
    <2>1. ASSUME ScInv, UNCHANGED scVars
          PROVE  ScInv'
      <3>1. ScTypeOK'
        <4>1. CallType' /\ DataType'
          BY <2>1, Typed, ZenonT(60) DEF scVars, ScInv, CallType, DataType
        <4> QED BY <4>1, Typed
      <3>2. EndpointsInv' /\ StorageInv' /\ EndpointsMatchStorage'
        BY <2>1 DEF scVars, ScInv, EndpointsInv, StorageInv, EndpointsMatchStorage, Asked
      <3> QED BY <3>1, <3>2 DEF ScInv
    <2> QED BY <2>1, StateCallStep, IterationStep, CreateStep, CallStep, RefreshStep, EventStep
            DEF ScNext, Machine, Ends
  <1> QED BY <1>1, <1>2, PTL DEF ScSpec

\* The endpoints the client works with are known and fit its channel: behind GET_ENDPOINT
\* getChannelEndpointEsp() has given them, and the cache hands out none that were asked for
\* with another storage status, for any number of faults, restarts and retries.
THEOREM EndpointsCorrect == ScSpec => []EndpointsSound
  <1>1. ScInv => EndpointsSound
    BY DEF ScInv, EndpointsInv, EndpointsSound, EndpointsKnown
  <1> QED BY <1>1, CallsInductive, PTL

\* A refresh that failed leaves no result that asks for another one: no other step ends it,
\* and none between its end and signalingSetState() makes it look idle.
THEOREM RefreshCorrect == ScSpec => NoStaleRefresh
  <1> DEFINE Settles == op["ice"].at = "failed" /\ op'["ice"].at = "idle" /\ reboots' = reboots
                        => result' # "RECONNECT_ICE"
  <1>1. ScInv /\ [ScNext]_scVars => Settles
    <2> SUFFICES ASSUME ScInv, [ScNext]_scVars, op["ice"].at = "failed", op'["ice"].at = "idle",
                        reboots' = reboots
                 PROVE  result' # "RECONNECT_ICE"
      OBVIOUS
    <2>1. /\ "ice" \in Tasks /\ "conn" \in Tasks /\ op \in [Tasks -> Ops] /\ stateLock # "ice"
      BY DEF ScInv, ScTypeOK, Tasks, Ops
    <2>2. reboots \in Nat
      <3>1. reboots \in 0..MaxReboots
        BY DEF ScInv, ScTypeOK
      <3> QED BY <3>1
    <2>3. CASE RefreshEnds
      BY <2>3 DEF RefreshEnds
    <2>4. \A c, a, s, w : Starts("conn", c, a, s, w) => op'["ice"] = op["ice"]
      BY <2>1 DEF Starts
    <2>5. ASSUME NEW t \in Tasks, NEW s, Enters(t, s)
          PROVE  FALSE
      <3>1. t = "conn"
        BY <2>1, <2>5 DEF Enters, Tasks
      <3> QED BY <2>1, <2>5, <3>1 DEF Enters
    <2>6. ASSUME NEW t \in Tasks, StateCall(t)
          PROVE  FALSE
      BY <2>5, <2>6 DEF StateCall, GetsToken, Describes, Creates, GetsEndpoint, GetsIce, Connects,
         Joins, Deletes, DescribesMedia, GetsCachedEndpoint, DeletedReached, CallNotAuthorized, Reaches
    <2>7. ASSUME NEW t \in Tasks, Arrives(t) \/ RunsOutOfRetries(t) \/ TimesOut(t) \/ TakesStateLock(t)
          PROVE  FALSE
      <3>1. t = "conn"
        BY <2>1, <2>7 DEF Arrives, RunsOutOfRetries, TimesOut, TakesStateLock, Tasks, ScInv, ScTypeOK
      <3>2. \E a : op' = [op EXCEPT !["conn"].at = a]
        BY <2>7, <3>1 DEF Arrives, RunsOutOfRetries, TimesOut, TakesStateLock, IterationEnds
      <3> QED BY <2>1, <3>2
    <2>8. CASE \/ CreateBegins \/ CreateEnds \/ FetchBegins \/ FetchEnds \/ ConnectBegins \/ ConnectEnds
               \/ DisconnectBegins \/ DeleteBegins \/ DisconnectOrDeleteEnds
      <3>1. \E c, a, s, w : Starts("conn", c, a, s, w)
        BY <2>8 DEF CreateBegins, CreateEnds, FetchBegins, FetchEnds, ConnectBegins, ConnectEnds,
           DisconnectBegins, DeleteBegins, DisconnectOrDeleteEnds
      <3> QED BY <2>4, <3>1
    <2>9. CASE RefreshBegins \/ RefreshLocks \/ LinkLost \/ TimePasses \/ UNCHANGED scVars
      BY <2>9 DEF RefreshBegins, RefreshLocks, LinkLost, TimePasses, scVars
    <2>10. CASE Reboots
      BY <2>2, <2>10 DEF Reboots
    <2> QED BY <2>3, <2>6, <2>7, <2>8, <2>9, <2>10 DEF ScNext, Machine, Ends
  <1> QED BY <1>1, CallsInductive, PTL DEF ScSpec, NoStaleRefresh

-----------------------------------------------------------------------------
(***************************************************************************)
(* WebSocketLink.  HandleInv says who may touch the websocket, FreeInv     *)
(* what is over when the client is freed, OwedInv where the report of a    *)
(* lost link is pending, ChunkInv and OrderInv where a message is.         *)
(***************************************************************************)

\* Who holds the handle and the websocket: the connecting task keeps the lock while it
\* waits for a connection, and a task that took the handle stops its websocket.
HandleInv ==
  /\ dials \in Nat /\ lockHolder \in {"none", "dialer"}
  /\ lockHolder = "dialer" <=> dialer = "loop"
  /\ dialer = "loop" => handle # 0
  /\ dialer \in {"stop", "restop", "start"} \/ killer = "stop" => handle = 0
  /\ handle = 0 /\ dialer \notin {"stop", "restop"} /\ killer # "stop" => sock = "none"
  /\ sock = "none" => event = "none"
  /\ event = "CONNECTED" => sock = "open"
  /\ linkUp => handle # 0

\* The free starts after the connecting call and the sends are over.
FreeInv ==
  /\ killer # "idle" => aborting
  /\ killer \in {"free", "stop", "drain", "freed", "leaked"} => dialer = "idle"
  /\ killer \in {"drain", "freed"} => handle = 0 /\ sock = "none"
  /\ killer = "freed" => wsJobs = <<>> /\ wsJob = 0

\* The loss of an established link is told when its event is handled.
OwedInv ==
  /\ event \notin {"none", "CONNECTED"} => sock = "over"
  /\ owed => handle # 0 /\ sock = "over"
  /\ dialer = "loop" => ~owed /\ (sock = "open" => event = "CONNECTED")
  /\ sock = "open" /\ event = "none" /\ handle # 0 => wrapUp
  /\ owed /\ event \in {"ERROR", "DISCONNECTED"} => wrapUp
  /\ owed /\ event \in {"tail", "none"} /\ dialer = "idle" => shutdown \/ callResult = "RECONNECT_ICE"

\* A message is assembled from its two chunks, ...
ChunkInv ==
  /\ received \in Nat
  /\ chunks = <<>> \/ (chunks = <<received>> /\ received % 2 = 1)

\* ... and is on its way: queued, being handled, or given out, in the order of the chunks.
OrderInv ==
  /\ wsJobs \in Seq(Seq(Nat)) /\ wsJob \in Nat /\ delivered \in Seq(Nat)
  /\ MessagesWhole /\ DeliveredInOrder
  /\ \A i \in 1..Len(wsJobs) : wsJobs[i][2] <= received /\ wsJobs[i][2] > 2 * wsJob
  /\ \A i, j \in 1..Len(wsJobs) : i < j => wsJobs[i][2] < wsJobs[j][2]
  /\ 2 * wsJob <= received
  /\ \A k \in 1..Len(delivered) :
       /\ 2 * delivered[k] <= received
       /\ wsJob # 0 => delivered[k] < wsJob
       /\ \A i \in 1..Len(wsJobs) : 2 * delivered[k] < wsJobs[i][2]

\* The inductive invariant.
LinkInv == HandleInv /\ FreeInv /\ OwedInv /\ WakeNotLost /\ ChunkInv /\ OrderInv

\* Only these steps change what is received, queued, handled and given out.
LEMMA DataFrame ==
  ASSUME WsNext, ~OnData, ~OnDataTooLarge, ~WorkerTakesMessage, ~WorkerHandlesMessage
  PROVE  UNCHANGED <<received, wsJobs, wsJob, delivered>> /\ chunks' \in {chunks, <<>>}
  <1> USE DEF netVars, dataVars, linkVars, sendRest
  <1>1. ASSUME DialSteps \/ DialCall \/ NetTimesOut \/ DialTimesOut \/ Disconnects
        PROVE  UNCHANGED <<received, wsJobs, wsJob, delivered>> /\ chunks' \in {chunks, <<>>}
    BY <1>1 DEF DialSteps, DialCall, NetTimesOut, DialTimesOut, Disconnects, NetCheck, NetClears, NetRecheck,
       NetWakes, DialDrops, DialStops, DialStarts, DialConnected, DialFails, DialCleansUp, DialCleanedUp
  <1>2. ASSUME NetDown \/ NetUp \/ SocketOpens \/ SocketFails \/ OnGoAway \/ HandlerSteps
        PROVE  UNCHANGED <<received, wsJobs, wsJob, delivered>> /\ chunks' \in {chunks, <<>>}
    BY <1>2 DEF NetDown, NetUp, SocketOpens, SocketFails, OnGoAway, HandlerSteps, OnConnected, OnError,
       OnDisconnected, OnLost, OnDisconnectedTail, OnClosed
  <1>3. ASSUME SendChecks \/ SendMarks \/ SendWrites \/ AbortBegins \/ KillerSteps
        PROVE  UNCHANGED <<received, wsJobs, wsJob, delivered>> /\ chunks' \in {chunks, <<>>}
    BY <1>3 DEF SendChecks, SendMarks, SendWrites, AbortBegins, KillerSteps, AbortShutsDown, AbortWakes,
       FreeDrains, FreeTerminates, FreeStops, Frees
  <1> QED BY <1>1, <1>2, <1>3 DEF WsNext

\* The inductive step of ChunkInv.
LEMMA ChunkStep ==
  ASSUME ChunkInv, WsNext
  PROVE  ChunkInv'
  <1>1. CASE OnData
    <2>1. /\ received' = NextChunk
          /\ chunks' = IF LastChunk(NextChunk) THEN <<>> ELSE Append(chunks, NextChunk)
      BY <1>1 DEF OnData
    <2>2. /\ NextChunk \in Nat
          /\ ~LastChunk(NextChunk) => chunks = <<>> /\ NextChunk % 2 = 1
      BY DEF ChunkInv, NextChunk, LastChunk
    <2>3. Append(<<>>, NextChunk) = <<NextChunk>>
      OBVIOUS
    <2> QED BY <2>1, <2>2, <2>3 DEF ChunkInv
  <1>2. CASE OnDataTooLarge
    <2>1. received' = NextChunk + 1 /\ chunks' = <<>>
      BY <1>2 DEF OnDataTooLarge
    <2>2. NextChunk \in Nat
      BY DEF ChunkInv, NextChunk
    <2> QED BY <2>1, <2>2 DEF ChunkInv
  <1>3. CASE WorkerTakesMessage \/ WorkerHandlesMessage
    BY <1>3 DEF WorkerTakesMessage, WorkerHandlesMessage, ChunkInv
  <1> QED BY <1>1, <1>2, <1>3, DataFrame DEF ChunkInv

\* The inductive step of WakeNotLost: the wake bit is cleared before the last look at shutdown.
LEMMA WakeStep ==
  ASSUME WakeNotLost, WsNext
  PROVE  WakeNotLost'
  <1> USE DEF netVars, dataVars, linkVars, sendRest, WakeNotLost
  <1>1. ASSUME DialSteps \/ DialCall \/ NetTimesOut \/ DialTimesOut \/ Disconnects
        PROVE  WakeNotLost'
    BY <1>1 DEF DialSteps, DialCall, NetTimesOut, DialTimesOut, Disconnects, NetCheck, NetClears, NetRecheck,
       NetWakes, DialDrops, DialStops, DialStarts, DialConnected, DialFails, DialCleansUp, DialCleanedUp
  <1>2. ASSUME NetDown \/ NetUp \/ SocketOpens \/ SocketFails \/ OnGoAway \/ HandlerSteps \/ OnData
               \/ OnDataTooLarge \/ WorkerTakesMessage \/ WorkerHandlesMessage
        PROVE  WakeNotLost'
    BY <1>2 DEF NetDown, NetUp, SocketOpens, SocketFails, OnGoAway, HandlerSteps, OnConnected, OnError,
       OnDisconnected, OnLost, OnDisconnectedTail, OnClosed, OnData, OnDataTooLarge, WorkerTakesMessage, WorkerHandlesMessage
  <1>3. ASSUME SendChecks \/ SendMarks \/ SendWrites \/ AbortBegins \/ KillerSteps
        PROVE  WakeNotLost'
    BY <1>3 DEF SendChecks, SendMarks, SendWrites, AbortBegins, KillerSteps, AbortShutsDown, AbortWakes,
       FreeDrains, FreeTerminates, FreeStops, Frees
  <1> QED BY <1>1, <1>2, <1>3 DEF WsNext

\* The inductive step of HandleInv.
LEMMA HandleStep ==
  ASSUME HandleInv, FreeInv, WsNext
  PROVE  HandleInv'
  <1> USE DEF netVars, dataVars, linkVars, sendRest, HandleInv
  <1>1. ASSUME DialSteps \/ DialCall \/ NetTimesOut \/ DialTimesOut \/ Disconnects
        PROVE  HandleInv'
    <2>1. CASE DialStarts
      <3>1. dials' = dials + 1 /\ dials' \in Nat /\ dials' # 0
        BY <2>1 DEF DialStarts
      <3> QED BY <2>1, <3>1 DEF DialStarts, FreeInv
    <2>2. CASE DialConnected \/ DialFails \/ DialTimesOut
      BY <2>2 DEF DialConnected, DialFails, DialTimesOut
    <2>3. CASE DialDrops \/ DialCleansUp \/ Disconnects
      BY <2>3 DEF DialDrops, DialCleansUp, Disconnects, TakeHandle
    <2>4. CASE DialStops \/ DialCleanedUp
      BY <2>4 DEF DialStops, DialCleanedUp, StopSocket
    <2>5. CASE DialCall \/ NetCheck \/ NetClears \/ NetRecheck \/ NetWakes \/ NetTimesOut
      BY <2>5 DEF DialCall, NetCheck, NetClears, NetRecheck, NetWakes, NetTimesOut
    <2> QED BY <1>1, <2>1, <2>2, <2>3, <2>4, <2>5 DEF DialSteps, HandlerSteps
  <1>2. ASSUME NetDown \/ NetUp \/ SocketOpens \/ SocketFails \/ OnGoAway \/ HandlerSteps
        PROVE  HandleInv'
    BY <1>2 DEF NetDown, NetUp, SocketOpens, SocketFails, OnGoAway, HandlerSteps, OnConnected, OnError,
       OnDisconnected, OnLost, OnDisconnectedTail, OnClosed
  <1>3. ASSUME OnData \/ OnDataTooLarge \/ WorkerTakesMessage \/ WorkerHandlesMessage
        PROVE  HandleInv'
    BY <1>3 DEF OnData, OnDataTooLarge, WorkerTakesMessage, WorkerHandlesMessage
  <1>4. ASSUME SendChecks \/ SendMarks \/ SendWrites \/ AbortBegins \/ KillerSteps
        PROVE  HandleInv'
    BY <1>4 DEF SendChecks, SendMarks, SendWrites, AbortBegins, KillerSteps, AbortShutsDown, AbortWakes,
       FreeDrains, FreeTerminates, FreeStops, Frees, TakeHandle, StopSocket
  <1> QED BY <1>1, <1>2, <1>3, <1>4 DEF WsNext

\* The inductive step of FreeInv.
LEMMA FreeStep ==
  ASSUME HandleInv, FreeInv, WsNext
  PROVE  FreeInv'
  <1> USE DEF netVars, dataVars, linkVars, sendRest, HandleInv, FreeInv
  <1>1. ASSUME DialSteps \/ DialCall \/ NetTimesOut \/ DialTimesOut \/ Disconnects
        PROVE  FreeInv'
    BY <1>1 DEF DialSteps, DialCall, NetTimesOut, DialTimesOut, Disconnects, NetCheck, NetClears, NetRecheck,
       NetWakes, DialDrops, DialStops, DialStarts, DialConnected, DialFails, DialCleansUp, DialCleanedUp,
       TakeHandle, StopSocket
  <1>2. ASSUME NetDown \/ NetUp \/ SocketOpens \/ SocketFails \/ OnGoAway \/ HandlerSteps
        PROVE  FreeInv'
    BY <1>2 DEF NetDown, NetUp, SocketOpens, SocketFails, OnGoAway, HandlerSteps, OnConnected, OnError,
       OnDisconnected, OnLost, OnDisconnectedTail, OnClosed
  <1>3. ASSUME OnData \/ OnDataTooLarge \/ WorkerTakesMessage \/ WorkerHandlesMessage
        PROVE  FreeInv'
    BY <1>3 DEF OnData, OnDataTooLarge, WorkerTakesMessage, WorkerHandlesMessage
  <1>4. ASSUME SendChecks \/ SendMarks \/ SendWrites \/ AbortBegins \/ KillerSteps
        PROVE  FreeInv'
    BY <1>4 DEF SendChecks, SendMarks, SendWrites, AbortBegins, KillerSteps, AbortShutsDown, AbortWakes,
       FreeDrains, FreeTerminates, FreeStops, Frees, TakeHandle, StopSocket
  <1> QED BY <1>1, <1>2, <1>3, <1>4 DEF WsNext

\* The inductive step of OwedInv.
LEMMA OwedStep ==
  ASSUME HandleInv, FreeInv, OwedInv, WsNext
  PROVE  OwedInv'
  <1> USE DEF netVars, dataVars, linkVars, sendRest, HandleInv, FreeInv, OwedInv
  <1>1. ASSUME DialSteps \/ DialCall \/ NetTimesOut \/ DialTimesOut \/ Disconnects
        PROVE  OwedInv'
    BY <1>1 DEF DialSteps, DialCall, NetTimesOut, DialTimesOut, Disconnects, NetCheck, NetClears, NetRecheck,
       NetWakes, DialDrops, DialStops, DialStarts, DialConnected, DialFails, DialCleansUp, DialCleanedUp,
       TakeHandle, StopSocket
  <1>2. ASSUME NetDown \/ NetUp \/ SocketOpens \/ SocketFails \/ OnGoAway \/ HandlerSteps
        PROVE  OwedInv'
    <2>1. CASE NetDown \/ NetUp
      BY <2>1 DEF NetDown, NetUp
    <2>2. CASE SocketOpens
      BY <2>2 DEF SocketOpens
    <2>3. CASE SocketFails \/ OnGoAway
      BY <2>3 DEF SocketFails, OnGoAway
    <2>4. CASE OnConnected
      BY <2>4 DEF OnConnected
    <2>5. CASE OnError
      BY <2>5 DEF OnError
    <2>6. CASE OnDisconnected
      BY <2>6 DEF OnDisconnected
    <2>7. CASE OnLost
      BY <2>7 DEF OnLost
    <2>8. CASE OnDisconnectedTail
      BY <2>8 DEF OnDisconnectedTail
    <2>9. CASE OnClosed
      BY <2>9 DEF OnClosed
    <2> QED BY <1>2, <2>1, <2>2, <2>3, <2>4, <2>5, <2>6, <2>7, <2>8, <2>9 DEF DialSteps, HandlerSteps
  <1>3. ASSUME OnData \/ OnDataTooLarge \/ WorkerTakesMessage \/ WorkerHandlesMessage
        PROVE  OwedInv'
    BY <1>3 DEF OnData, OnDataTooLarge, WorkerTakesMessage, WorkerHandlesMessage
  <1>4. ASSUME SendChecks \/ SendMarks \/ SendWrites \/ AbortBegins \/ KillerSteps
        PROVE  OwedInv'
    BY <1>4 DEF SendChecks, SendMarks, SendWrites, AbortBegins, KillerSteps, AbortShutsDown, AbortWakes,
       FreeDrains, FreeTerminates, FreeStops, Frees, TakeHandle, StopSocket
  <1> QED BY <1>1, <1>2, <1>3, <1>4 DEF WsNext

\* What OrderInv says of numbers.
LEMMA OrderFacts ==
  ASSUME OrderInv, ChunkInv
  PROVE  /\ wsJobs \in Seq(Seq(Nat)) /\ delivered \in Seq(Nat) /\ received \in Nat /\ wsJob \in Nat
         /\ Len(wsJobs) \in Nat /\ Len(delivered) \in Nat
         /\ \A i \in 1..Len(wsJobs) :
              /\ wsJobs[i] \in Seq(Nat) /\ Len(wsJobs[i]) = 2 /\ wsJobs[i][1] \in Nat /\ wsJobs[i][2] \in Nat
              /\ wsJobs[i][1] % 2 = 1 /\ wsJobs[i][2] = wsJobs[i][1] + 1
              /\ wsJobs[i][2] <= received /\ wsJobs[i][2] > 2 * wsJob
         /\ \A k \in 1..Len(delivered) : delivered[k] \in Nat /\ 2 * delivered[k] <= received
         /\ 2 * wsJob <= received
  <1>1. /\ wsJobs \in Seq(Seq(Nat)) /\ delivered \in Seq(Nat) /\ received \in Nat /\ wsJob \in Nat
        /\ Len(wsJobs) \in Nat /\ Len(delivered) \in Nat
    BY DEF OrderInv, ChunkInv
  <1>2. ASSUME NEW i \in 1..Len(wsJobs)
        PROVE  /\ wsJobs[i] \in Seq(Nat) /\ Len(wsJobs[i]) = 2 /\ wsJobs[i][1] \in Nat /\ wsJobs[i][2] \in Nat
               /\ wsJobs[i][1] % 2 = 1 /\ wsJobs[i][2] = wsJobs[i][1] + 1
    <2>1. wsJobs[i] \in Seq(Nat)
      BY <1>1
    <2>2. Len(wsJobs[i]) = 2 /\ wsJobs[i][1] % 2 = 1 /\ wsJobs[i][2] = wsJobs[i][1] + 1
      BY DEF OrderInv, MessagesWhole
    <2>3. 1 \in 1..Len(wsJobs[i]) /\ 2 \in 1..Len(wsJobs[i])
      BY <2>2
    <2> QED BY <2>1, <2>2, <2>3
  <1>3. \A k \in 1..Len(delivered) : delivered[k] \in Nat
    BY <1>1
  <1> QED BY <1>1, <1>2, <1>3 DEF OrderInv

\* Chunks that arrive later leave what OrderInv says of the earlier ones true.
LEMMA OrderBounds ==
  ASSUME OrderInv, ChunkInv, NEW r \in Nat, r > received
  PROVE  /\ \A i \in 1..Len(wsJobs) : wsJobs[i][2] <= r
         /\ 2 * wsJob <= r
         /\ \A k \in 1..Len(delivered) : 2 * delivered[k] <= r
  <1>1. ASSUME NEW i \in 1..Len(wsJobs)
        PROVE  wsJobs[i][2] <= r
    <2>1. wsJobs[i][2] \in Nat /\ wsJobs[i][2] <= received /\ received \in Nat
      BY OrderFacts
    <2> QED BY <2>1
  <1>2. 2 * wsJob <= r
    <2>1. wsJob \in Nat /\ 2 * wsJob <= received /\ received \in Nat
      BY OrderFacts
    <2> QED BY <2>1
  <1>3. ASSUME NEW k \in 1..Len(delivered)
        PROVE  2 * delivered[k] <= r
    <2>1. delivered[k] \in Nat /\ 2 * delivered[k] <= received /\ received \in Nat
      BY OrderFacts
    <2> QED BY <2>1
  <1> QED BY <1>1, <1>2, <1>3

\* The inductive step of OrderInv when the service's next chunk arrives.
LEMMA OrderOnData ==
  ASSUME OrderInv, ChunkInv, OnData
  PROVE  OrderInv'
  <1>1. /\ received' = NextChunk /\ NextChunk \in Nat /\ NextChunk > received
        /\ UNCHANGED <<wsJob, delivered>>
    BY DEF OnData, dataVars, ChunkInv, NextChunk
  <1>2. CASE wsJobs' = wsJobs
    <2>1. /\ \A i \in 1..Len(wsJobs) : wsJobs[i][2] <= received'
          /\ 2 * wsJob <= received' /\ \A k \in 1..Len(delivered) : 2 * delivered[k] <= received'
      BY <1>1, OrderBounds
    <2> QED BY <1>1, <1>2, <2>1 DEF OrderInv, MessagesWhole, DeliveredInOrder
  <1>3. CASE wsJobs' # wsJobs
    <2> DEFINE msg == Append(chunks, NextChunk)
    <2>1. NextChunk % 2 = 0 /\ wsJobs' = Append(wsJobs, Append(chunks, NextChunk))
      BY <1>3 DEF OnData, LastChunk
    <2>2. chunks = <<received>> /\ received % 2 = 1 /\ NextChunk = received + 1
      BY <2>1 DEF ChunkInv, NextChunk
    <2>3. wsJobs' = Append(wsJobs, msg)
      BY <2>1
    <2>4. /\ msg \in Seq(Nat) /\ Len(msg) = 2 /\ msg[1] = received /\ msg[2] = received + 1
          /\ wsJobs \in Seq(Seq(Nat)) /\ received \in Nat /\ wsJob \in Nat /\ delivered \in Seq(Nat)
      BY <2>2, OrderFacts
    <2>5. /\ wsJobs' \in Seq(Seq(Nat)) /\ Len(wsJobs') = Len(wsJobs) + 1
          /\ wsJobs'[Len(wsJobs) + 1] = msg
          /\ \A i \in 1..Len(wsJobs) : wsJobs'[i] = wsJobs[i]
      BY <2>3, <2>4
    <2> HIDE DEF msg
    <2>6. \A i \in 1..Len(wsJobs') : i \in 1..Len(wsJobs) \/ (i = Len(wsJobs) + 1 /\ wsJobs'[i] = msg)
      BY <2>4, <2>5
    <2>7. \A i \in 1..Len(wsJobs) : wsJobs[i][2] \in Nat /\ wsJobs[i][2] <= received
      BY OrderFacts
    <2>8. MessagesWhole'
      BY <2>2, <2>4, <2>5, <2>6 DEF OrderInv, MessagesWhole
    <2>9. \A i \in 1..Len(wsJobs') : wsJobs'[i][2] <= received' /\ wsJobs'[i][2] > 2 * wsJob'
      <3> SUFFICES ASSUME NEW i \in 1..Len(wsJobs')
                   PROVE  wsJobs'[i][2] <= received' /\ wsJobs'[i][2] > 2 * wsJob'
        OBVIOUS
      <3>1. received' = received + 1 /\ wsJob' = wsJob /\ 2 * wsJob <= received
        BY <1>1, <2>2, OrderFacts
      <3>2. CASE i \in 1..Len(wsJobs)
        <4>1. /\ wsJobs'[i] = wsJobs[i] /\ wsJobs[i][2] \in Nat
              /\ wsJobs[i][2] <= received /\ wsJobs[i][2] > 2 * wsJob
          BY <2>5, <3>2, OrderFacts
        <4> QED BY <2>4, <3>1, <4>1, SMTT(30)
      <3>3. CASE wsJobs'[i] = msg
        BY <2>4, <3>1, <3>3
      <3> QED BY <2>6, <3>2, <3>3
    <2>10. \A i, j \in 1..Len(wsJobs') : i < j => wsJobs'[i][2] < wsJobs'[j][2]
      <3> SUFFICES ASSUME NEW i \in 1..Len(wsJobs'), NEW j \in 1..Len(wsJobs'), i < j
                   PROVE  wsJobs'[i][2] < wsJobs'[j][2]
        OBVIOUS
      <3>1. i \in 1..Len(wsJobs)
        BY <2>4, <2>5
      <3>2. CASE j \in 1..Len(wsJobs)
        BY <2>5, <3>1, <3>2 DEF OrderInv
      <3>3. CASE wsJobs'[j] = msg
        <4>1. /\ wsJobs'[i] = wsJobs[i] /\ wsJobs[i][2] \in Nat /\ wsJobs[i][2] <= received
              /\ wsJobs'[j][2] = received + 1
          BY <2>4, <2>5, <2>7, <3>1, <3>3
        <4> QED BY <2>4, <4>1
      <3> QED BY <2>6, <3>2, <3>3
    <2>11. \A k \in 1..Len(delivered) : \A i \in 1..Len(wsJobs') : 2 * delivered[k] < wsJobs'[i][2]
      <3> SUFFICES ASSUME NEW k \in 1..Len(delivered), NEW i \in 1..Len(wsJobs')
                   PROVE  2 * delivered[k] < wsJobs'[i][2]
        OBVIOUS
      <3>1. CASE i \in 1..Len(wsJobs)
        BY <2>5, <3>1 DEF OrderInv
      <3>2. CASE wsJobs'[i] = msg
        BY <2>4, <3>2, OrderFacts
      <3> QED BY <2>6, <3>1, <3>2
    <2>12. 2 * wsJob' <= received' /\ \A k \in 1..Len(delivered) : 2 * delivered[k] <= received'
      BY <1>1, <2>2, OrderFacts
    <2> QED BY <1>1, <2>4, <2>5, <2>8, <2>9, <2>10, <2>11, <2>12 DEF OrderInv, DeliveredInOrder
  <1> QED BY <1>2, <1>3

\* The inductive step of OrderInv when the worker takes the oldest message, ...
LEMMA OrderTakes ==
  ASSUME OrderInv, ChunkInv, WorkerTakesMessage
  PROVE  OrderInv'
  <1>1. /\ wsJob = 0 /\ wsJobs # <<>> /\ wsJobs' = Tail(wsJobs)
        /\ wsJob' = (Head(wsJobs)[Len(Head(wsJobs))] + 1) \div 2
        /\ UNCHANGED <<received, delivered>>
    BY DEF WorkerTakesMessage
  <1>2. wsJobs \in Seq(Seq(Nat)) /\ delivered \in Seq(Nat) /\ received \in Nat
    BY DEF OrderInv, ChunkInv
  <1>3. /\ Len(wsJobs) \in Nat \ {0} /\ Head(wsJobs) = wsJobs[1]
        /\ Len(wsJobs') = Len(wsJobs) - 1 /\ wsJobs' \in Seq(Seq(Nat))
        /\ \A i \in 1..Len(wsJobs') : i + 1 \in 1..Len(wsJobs) /\ wsJobs'[i] = wsJobs[i + 1]
    BY <1>1, <1>2
  <1> DEFINE first == wsJobs[1]
  <1>4. first \in Seq(Nat) /\ Len(first) = 2 /\ first[1] % 2 = 1 /\ first[2] = first[1] + 1
    BY <1>2, <1>3 DEF OrderInv, MessagesWhole
  <1>5. first[1] \in Nat /\ first[2] \in Nat
    BY <1>4
  <1> HIDE DEF first
  <1>6. wsJob' \in Nat /\ 2 * wsJob' = first[2]
    <2>1. wsJob' = (first[2] + 1) \div 2
      BY <1>1, <1>3, <1>4 DEF first
    <2>2. \A n \in Nat : n % 2 = 1 => ((n + 1) + 1) \div 2 \in Nat /\ 2 * (((n + 1) + 1) \div 2) = n + 1
      OBVIOUS
    <2> QED BY <1>4, <1>5, <2>1, <2>2
  <1>7. \A i \in 1..Len(wsJobs) : wsJobs[i][2] \in Nat /\ wsJobs[i][2] <= received
    BY <1>2 DEF OrderInv, MessagesWhole
  <1>8. \A i \in 1..Len(wsJobs') : wsJobs'[i][2] > first[2]
    <2> SUFFICES ASSUME NEW i \in 1..Len(wsJobs')
                 PROVE  wsJobs'[i][2] > first[2]
      OBVIOUS
    <2>1. 1 \in 1..Len(wsJobs) /\ i + 1 \in 1..Len(wsJobs) /\ 1 < i + 1
      BY <1>3
    <2>2. wsJobs[1][2] < wsJobs[i + 1][2]
      BY <2>1 DEF OrderInv
    <2> QED BY <1>3, <1>5, <1>7, <2>1, <2>2 DEF first
  <1>9. first[2] <= received /\ \A k \in 1..Len(delivered) : 2 * delivered[k] < first[2]
    BY <1>3, OrderFacts DEF OrderInv, first
  <1>10. MessagesWhole'
    BY <1>3, ZenonT(60) DEF OrderInv, MessagesWhole
  <1>11. \A i, j \in 1..Len(wsJobs') : i < j => wsJobs'[i][2] < wsJobs'[j][2]
    <2> SUFFICES ASSUME NEW i \in 1..Len(wsJobs'), NEW j \in 1..Len(wsJobs'), i < j
                 PROVE  wsJobs'[i][2] < wsJobs'[j][2]
      OBVIOUS
    <2>1. i + 1 \in 1..Len(wsJobs) /\ j + 1 \in 1..Len(wsJobs) /\ i + 1 < j + 1
      BY <1>3
    <2>2. wsJobs[i + 1][2] < wsJobs[j + 1][2]
      BY <2>1 DEF OrderInv
    <2> QED BY <1>3, <2>2
  <1>12. \A k \in 1..Len(delivered) : \A i \in 1..Len(wsJobs') : 2 * delivered[k] < wsJobs'[i][2]
    BY <1>2, <1>3 DEF OrderInv
  <1>13. \A k \in 1..Len(delivered) : 2 * delivered[k] <= received /\ delivered[k] < wsJob'
    BY <1>2, <1>6, <1>9 DEF OrderInv
  <1> QED BY <1>1, <1>2, <1>3, <1>6, <1>7, <1>8, <1>9, <1>10, <1>11, <1>12, <1>13
          DEF OrderInv, DeliveredInOrder

\* ... and when it has handled it.
LEMMA OrderHandles ==
  ASSUME OrderInv, ChunkInv, WorkerHandlesMessage
  PROVE  OrderInv'
  <1>1. /\ wsJob # 0 /\ wsJob' = 0 /\ UNCHANGED <<received, wsJobs>>
        /\ delivered' \in {delivered, Append(delivered, wsJob)}
    BY DEF WorkerHandlesMessage
  <1>2. wsJobs \in Seq(Seq(Nat)) /\ delivered \in Seq(Nat) /\ received \in Nat /\ wsJob \in Nat
    BY DEF OrderInv, ChunkInv
  <1>3. \A i \in 1..Len(wsJobs) : wsJobs[i][2] \in Nat
    BY <1>2 DEF OrderInv, MessagesWhole
  <1>4. CASE delivered' = delivered
    BY <1>1, <1>2, <1>3, <1>4 DEF OrderInv, MessagesWhole, DeliveredInOrder
  <1>5. CASE delivered' = Append(delivered, wsJob)
    <2>1. /\ delivered' \in Seq(Nat) /\ Len(delivered') = Len(delivered) + 1
          /\ delivered'[Len(delivered) + 1] = wsJob
          /\ \A k \in 1..Len(delivered) : delivered'[k] = delivered[k]
      BY <1>2, <1>5
    <2>2. \A k \in 1..Len(delivered') : k \in 1..Len(delivered) \/ (k = Len(delivered) + 1 /\ delivered'[k] = wsJob)
      BY <1>2, <2>1
    <2>3. \A k \in 1..Len(delivered) : delivered[k] \in Nat /\ delivered[k] < wsJob
      <3>1. \A k \in 1..Len(delivered) : delivered[k] \in Nat
        BY OrderFacts
      <3> QED BY <1>1, <3>1 DEF OrderInv
    <2>4. DeliveredInOrder'
      <3> SUFFICES ASSUME NEW i \in 1..Len(delivered'), NEW j \in 1..Len(delivered'), i < j
                   PROVE  delivered'[i] < delivered'[j]
        BY DEF DeliveredInOrder
      <3>1. i \in 1..Len(delivered)
        BY <1>2, <2>1
      <3>2. CASE j \in 1..Len(delivered)
        BY <2>1, <3>1, <3>2 DEF OrderInv, DeliveredInOrder
      <3>3. CASE delivered'[j] = wsJob
        BY <2>1, <2>3, <3>1, <3>3
      <3> QED BY <2>2, <3>2, <3>3
    <2>5. \A k \in 1..Len(delivered') :
            2 * delivered'[k] <= received /\ \A i \in 1..Len(wsJobs) : 2 * delivered'[k] < wsJobs[i][2]
      BY <1>2, <1>3, <2>1, <2>2 DEF OrderInv
    <2>6. MessagesWhole'
      BY <1>1 DEF OrderInv, MessagesWhole
    <2>7. \A i \in 1..Len(wsJobs) : wsJobs[i][2] <= received /\ wsJobs[i][2] > 2 * wsJob'
      <3> SUFFICES ASSUME NEW i \in 1..Len(wsJobs)
                   PROVE  wsJobs[i][2] <= received /\ wsJobs[i][2] > 2 * wsJob'
        OBVIOUS
      <3>1. wsJobs[i][2] \in Nat /\ wsJobs[i][2] <= received /\ wsJobs[i][2] > 2 * wsJob
        BY OrderFacts
      <3>2. 2 * wsJob' = 0 /\ 2 * wsJob \in Nat
        BY <1>1, <1>2
      <3> QED BY <3>1, <3>2
    <2>8. 2 * wsJob' <= received'
      BY <1>1, <1>2
    <2>9. \A i, j \in 1..Len(wsJobs) : i < j => wsJobs[i][2] < wsJobs[j][2]
      BY DEF OrderInv
    <2> QED BY <1>1, <1>2, <2>1, <2>4, <2>5, <2>6, <2>7, <2>8, <2>9 DEF OrderInv
  <1> QED BY <1>1, <1>4, <1>5

\* The inductive step of OrderInv.
LEMMA OrderStep ==
  ASSUME OrderInv, ChunkInv, WsNext
  PROVE  OrderInv'
  <1>1. CASE OnData
    BY <1>1, OrderOnData
  <1>2. CASE WorkerTakesMessage
    BY <1>2, OrderTakes
  <1>3. CASE WorkerHandlesMessage
    BY <1>3, OrderHandles
  <1>4. CASE OnDataTooLarge
    <2>1. /\ received' = NextChunk + 1 /\ NextChunk \in Nat /\ NextChunk > received
          /\ UNCHANGED <<wsJobs, wsJob, delivered>>
      BY <1>4 DEF OnDataTooLarge, ChunkInv, NextChunk
    <2>2. /\ \A i \in 1..Len(wsJobs) : wsJobs[i][2] <= received'
          /\ 2 * wsJob <= received' /\ \A k \in 1..Len(delivered) : 2 * delivered[k] <= received'
      <3>1. received' \in Nat /\ received' > received
        BY <2>1, OrderFacts
      <3> QED BY <3>1, OrderBounds
    <2> QED BY <2>1, <2>2 DEF OrderInv, MessagesWhole, DeliveredInOrder
  <1>5. CASE ~OnData /\ ~OnDataTooLarge /\ ~WorkerTakesMessage /\ ~WorkerHandlesMessage
    BY <1>5, DataFrame DEF OrderInv, MessagesWhole, DeliveredInOrder
  <1> QED BY <1>1, <1>2, <1>3, <1>4, <1>5

\* LinkInv holds in every reachable state, for any number of websockets, outages and messages.
THEOREM LinkInductive == WsInit /\ [][WsNext]_wsVars => []LinkInv
  <1>1. WsInit => LinkInv
    <2>1. WsInit => OrderInv /\ ChunkInv
      BY DEF WsInit, OrderInv, ChunkInv, MessagesWhole, DeliveredInOrder
    <2>2. WsInit => HandleInv /\ FreeInv /\ OwedInv /\ WakeNotLost
      BY DEF WsInit, HandleInv, FreeInv, OwedInv, WakeNotLost
    <2> QED BY <2>1, <2>2 DEF LinkInv
  <1>2. LinkInv /\ [WsNext]_wsVars => LinkInv'
    <2> SUFFICES ASSUME LinkInv, [WsNext]_wsVars
                 PROVE  LinkInv'
      OBVIOUS
    <2>1. CASE WsNext
      BY <2>1, HandleStep, FreeStep, OwedStep, WakeStep, ChunkStep, OrderStep DEF LinkInv
    <2>2. CASE UNCHANGED wsVars
      BY <2>2 DEF wsVars, linkVars, netVars, dataVars, LinkInv, HandleInv, FreeInv, OwedInv, WakeNotLost,
         ChunkInv, OrderInv, MessagesWhole, DeliveredInOrder
    <2> QED BY <2>1, <2>2
  <1> QED BY <1>1, <1>2, PTL

\* The link never gets into a state the code cannot get out of: no revived link, no loss
\* that nobody was told of, no lost wake-up, no use of a freed client.
THEOREM LinkCorrect == WsInit /\ [][WsNext]_wsVars => []LinkSafe
  <1>1. LinkInv => LinkSafe
    <2> SUFFICES ASSUME LinkInv
                 PROVE  LinkSafe
      OBVIOUS
    <2> USE DEF LinkInv
    <2>1. NoRevivedLink
      BY DEF HandleInv, NoRevivedLink
    <2>2. LossReported
      BY DEF OwedInv, LossReported
    <2>3. NothingUsesFreedClient
      BY DEF HandleInv, FreeInv, NothingUsesFreedClient
    <2> QED BY <2>1, <2>2, <2>3 DEF LinkSafe
  <1> QED BY <1>1, LinkInductive, PTL

\* Messages reach the application whole, in the service's order and once each, however the
\* link is lost and dialled again.
THEOREM MessagesCorrect == WsInit /\ [][WsNext]_wsVars => []MessagesDelivered
  <1>1. LinkInv => MessagesDelivered
    BY DEF LinkInv, OrderInv, MessagesDelivered
  <1> QED BY <1>1, LinkInductive, PTL

-----------------------------------------------------------------------------
(***************************************************************************)
(* Credentials.  The IoT provider swaps a new object in before it frees    *)
(* the old one, and it is freed only when no get is under way.             *)
(***************************************************************************)

CrSpec == CrInit /\ [][CrNext]_crVars

GetterStates == [pc : {"idle", "fetch", "use", "failed"}, tries : Nat, got : Nat]

CrTypes ==
  /\ prov \in [pc : {"none", "made", "freed"}, cred : Nat]
  /\ expires \in Seq(Nat) /\ credNow \in Nat
  /\ getter \in [Getters -> GetterStates]

\* What CredentialsSound needs: a get runs on a made provider, whose object was created and
\* not freed; the object handed out has its expiration ahead until it was used.
IotInv ==
  kind = "iot" =>
    /\ prov.pc = "made" => prov.cred \in 1..Made /\ prov.cred \in liveCreds
    /\ prov.pc # "made" => \A t \in Getters : getter[t].pc = "idle"
    /\ \A t \in Getters : getter[t].pc = "use" =>
         getter[t].got \in 1..Made /\ expires[getter[t].got] >= credNow

CrInv == CrTypes /\ IotInv

\* A created object gets the next number and leaves the expirations of the others alone.
LEMMA ObjectFacts ==
  ASSUME CrTypes, NEW e \in Nat, CreateCredential(e)
  PROVE  /\ expires' \in Seq(Nat) /\ Made' = Made + 1 /\ Made \in Nat
         /\ expires'[Made + 1] = e
         /\ \A c \in 1..Made : expires'[c] = expires[c]
  BY DEF CrTypes, CreateCredential, Made

\* The expiration given to a new object is a time from now on.
LEMMA ExpirationAhead ==
  ASSUME CrTypes, NEW life \in Lifetimes
  PROVE  life \in Nat /\ Expiration(life) \in Nat /\ Expiration(life) >= credNow
  BY CrAssumption DEF CrTypes, Expiration

\* Creating the provider makes its first object, or none for the callback provider.
LEMMA ProviderStep ==
  ASSUME CrInv, CreateProvider
  PROVE  CrInv'
  <1> USE DEF CrInv
  <1>1. /\ prov.pc = "none" /\ UNCHANGED <<kind, getter, credNow>>
        /\ Made \in Nat /\ CrMaxTime + Grace + 1 \in Nat
    BY CrAssumption DEF CreateProvider, CrTypes, Made
  <1>2. CASE kind = "callback" /\ CreateCallbackProvider
    BY <1>1, <1>2 DEF CreateCallbackProvider, CrTypes, IotInv
  <1>3. CASE ~(kind = "callback" /\ CreateCallbackProvider)
    <2>1. MadeWith(Made + 1) /\ \E e \in Nat : CreateCredential(e)
      BY <1>1, <1>3, ExpirationAhead DEF CreateProvider, CreateIotProvider, CreateFileProvider,
         CreateStaticProvider, Fetched
    <2>2. /\ expires' \in Seq(Nat) /\ Made' = Made + 1
          /\ prov' = [pc |-> "made", cred |-> Made + 1] /\ liveCreds' = {Made + 1}
      BY <2>1, ObjectFacts DEF MadeWith
    <2>3. CrTypes'
      BY <1>1, <2>2 DEF CrTypes
    <2>4. IotInv'
      BY <1>1, <2>2 DEF IotInv
    <2> QED BY <2>3, <2>4
  <1> QED BY <1>2, <1>3

\* A get of the IoT provider that fetched: the new object is swapped in and handed out.
LEMMA FetchStep ==
  ASSUME CrInv, NEW t \in Getters, IotFetches(t)
  PROVE  CrInv'
  <1> USE DEF CrInv
  <1>1. PICK life \in Lifetimes : CreateCredential(Expiration(life))
    BY DEF IotFetches, Fetched
  <1>2. /\ Expiration(life) \in Nat /\ Expiration(life) >= credNow
        /\ expires' \in Seq(Nat) /\ Made' = Made + 1 /\ Made \in Nat
        /\ expires'[Made + 1] >= credNow /\ \A c \in 1..Made : expires'[c] = expires[c]
    BY <1>1, ObjectFacts, ExpirationAhead
  <1>3. (CHOOSE c \in {Made + 1} : TRUE) = Made + 1
    OBVIOUS
  <1>4. /\ prov' = [prov EXCEPT !.cred = Made + 1]
        /\ liveCreds' = (liveCreds \ {prov.cred}) \cup {Made + 1}
        /\ getter' = [getter EXCEPT ![t] = [pc |-> "use", tries |-> 0, got |-> prov'.cred]]
        /\ UNCHANGED <<kind, credNow>> /\ getter[t].pc = "fetch"
    BY <1>3 DEF IotFetches, Swap, HandsOut
  <1>5. prov'.cred = Made + 1 /\ prov'.pc = prov.pc
    BY <1>4 DEF CrTypes
  <1>6. CrTypes'
    BY <1>2, <1>4, <1>5, SMTT(30) DEF CrTypes, GetterStates
  <1>7. ASSUME NEW u \in Getters, kind = "iot", getter'[u].pc = "use"
        PROVE  getter'[u].got \in 1..Made' /\ expires'[getter'[u].got] >= credNow'
    <2>1. CASE u = t
      BY <1>2, <1>4, <1>5, <2>1 DEF CrTypes, GetterStates
    <2>2. CASE u # t
      <3>1. getter'[u] = getter[u]
        BY <1>4, <2>2 DEF CrTypes
      <3>2. getter[u].got \in 1..Made /\ expires[getter[u].got] >= credNow
        BY <1>7, <3>1 DEF IotInv
      <3>3. getter[u].got \in 1..(Made + 1) /\ expires'[getter[u].got] = expires[getter[u].got]
        BY <1>2, <3>2
      <3> QED BY <1>2, <1>4, <3>1, <3>2, <3>3
    <2> QED BY <2>1, <2>2
  <1>8. kind = "iot" => prov.pc = "made"
    BY <1>4 DEF IotInv
  <1> QED BY <1>2, <1>4, <1>5, <1>6, <1>7, <1>8 DEF IotInv

\* The file and callback providers keep the types; IotInv says nothing of them.
LEMMA ReplaceStep ==
  ASSUME CrInv, NEW t \in Getters, FileReads(t) \/ CallbackGets(t)
  PROVE  CrInv'
  <1> USE DEF CrInv
  <1>1. kind # "iot" /\ UNCHANGED <<kind, credNow>>
    BY DEF FileReads, CallbackGets
  <1>2. Made \in Nat /\ (CHOOSE c \in {Made + 1} : TRUE) = Made + 1
    BY DEF CrTypes, Made
  <1>3. expires' \in Seq(Nat)
    <2>1. UNCHANGED expires \/ \E e \in Nat : CreateCredential(e)
      <3>1. credNow \in Nat /\ MaxLife \in Nat /\ \A life \in Lifetimes : life \in Nat
        BY CrAssumption DEF CrTypes
      <3>2. /\ \A life \in Lifetimes : credNow + life \in Nat
            /\ \A e \in 0..(credNow + MaxLife) : e \in Nat
        BY <3>1
      <3> QED BY <3>2, ExpirationAhead DEF FileReads, CallbackGets, Fetched, FetchedNothing
    <2> QED BY <2>1, ObjectFacts DEF CrTypes
  <1>4. \/ UNCHANGED prov
        \/ prov' = [prov EXCEPT !.cred = Made + 1]
        \/ prov' = [prov EXCEPT !.cred = 0]
    BY <1>2 DEF FileReads, CallbackGets, Replace
  <1>5. prov' \in [pc : {"none", "made", "freed"}, cred : Nat]
    BY <1>2, <1>4 DEF CrTypes
  <1>6. getter' \in [Getters -> GetterStates]
    <2>1. HandsOut(t) \/ Goto(t, "failed")
      BY DEF FileReads, CallbackGets
    <2>2. getter \in [Getters -> GetterStates] /\ getter[t] \in GetterStates /\ prov'.cred \in Nat
      BY <1>5 DEF CrTypes
    <2>3. CASE HandsOut(t)
      <3>1. [pc |-> "use", tries |-> 0, got |-> prov'.cred] \in GetterStates
        BY <2>2 DEF GetterStates
      <3> QED BY <2>2, <2>3, <3>1 DEF HandsOut
    <2>4. CASE Goto(t, "failed")
      <3>1. [getter[t] EXCEPT !.pc = "failed"] \in GetterStates
        BY <2>2 DEF GetterStates
      <3>2. getter' = [getter EXCEPT ![t] = [getter[t] EXCEPT !.pc = "failed"]]
        BY <2>4 DEF Goto
      <3> QED BY <2>2, <3>1, <3>2
    <2> QED BY <2>1, <2>3, <2>4
  <1> QED BY <1>1, <1>3, <1>5, <1>6 DEF CrTypes, IotInv

\* The other steps of a get, which create nothing.
LEMMA GetStep ==
  ASSUME CrInv, NEW t \in Getters,
         IotLocks(t) \/ IotFails(t) \/ IotAborted(t) \/ StaticGets(t) \/ GetEnds(t)
  PROVE  CrInv'
  <1> USE DEF CrInv
  <1>1. UNCHANGED <<kind, prov, expires, liveCreds, credNow>>
    BY DEF IotLocks, IotFails, IotAborted, StaticGets, GetEnds, FetchedNothing, Swap
  <1>2. CASE IotLocks(t) \/ StaticGets(t)
    <2>1. /\ prov.pc = "made"
          /\ \/ getter' = [getter EXCEPT ![t].pc = "fetch"]
             \/ /\ getter' = [getter EXCEPT ![t] = [pc |-> "use", tries |-> 0, got |-> prov.cred]]
                /\ kind = "iot" => ~NeedsFetch
      BY <1>1, <1>2 DEF IotLocks, StaticGets, Goto, HandsOut
    <2>2. kind = "iot" /\ ~NeedsFetch => expires[prov.cred] \in Nat /\ expires[prov.cred] >= credNow
      <3>1. kind = "iot" => prov.cred \in 1..Made /\ expires[prov.cred] \in Nat
        BY <2>1 DEF IotInv, CrTypes, Made
      <3> QED BY <3>1, CrAssumption DEF NeedsFetch, CrTypes
    <2>3. PICK g \in GetterStates :
            /\ getter' = [getter EXCEPT ![t] = g]
            /\ g.pc = "fetch" \/ (g.pc = "use" /\ g.got = prov.cred /\ (kind = "iot" => ~NeedsFetch))
      <3>1. getter[t] \in GetterStates /\ prov.cred \in Nat
        BY DEF CrTypes
      <3>2. /\ [getter[t] EXCEPT !.pc = "fetch"] \in GetterStates
            /\ [getter[t] EXCEPT !.pc = "fetch"].pc = "fetch"
            /\ [pc |-> "use", tries |-> 0, got |-> prov.cred] \in GetterStates
        BY <3>1 DEF GetterStates
      <3>3. CASE getter' = [getter EXCEPT ![t].pc = "fetch"]
        <4>1. getter' = [getter EXCEPT ![t] = [getter[t] EXCEPT !.pc = "fetch"]]
          BY <3>3
        <4> QED BY <3>2, <4>1
      <3>4. CASE /\ getter' = [getter EXCEPT ![t] = [pc |-> "use", tries |-> 0, got |-> prov.cred]]
                 /\ kind = "iot" => ~NeedsFetch
        BY <3>2, <3>4
      <3> QED BY <2>1, <3>3, <3>4
    <2>4. CrTypes'
      BY <1>1, <2>3 DEF CrTypes
    <2>5. ASSUME NEW u \in Getters, kind = "iot", getter'[u].pc = "use"
          PROVE  getter'[u].got \in 1..Made /\ expires[getter'[u].got] >= credNow
      <3>1. CASE u = t
        <4>1. getter'[u] = g
          BY <2>3, <3>1 DEF CrTypes
        <4>2. g.got = prov.cred /\ ~NeedsFetch
          BY <2>3, <2>5, <4>1
        <4>3. prov.cred \in 1..Made
          BY <2>1, <2>5 DEF IotInv
        <4> QED BY <2>2, <2>5, <4>1, <4>2, <4>3
      <3>2. CASE u # t
        <4>1. getter'[u] = getter[u]
          BY <2>3, <3>2 DEF CrTypes
        <4> QED BY <2>5, <4>1 DEF IotInv
      <3> QED BY <3>1, <3>2
    <2> QED BY <1>1, <2>1, <2>4, <2>5 DEF IotInv, Made
  <1>3. CASE IotFails(t) \/ IotAborted(t) \/ GetEnds(t)
    <2>1. getter \in [Getters -> GetterStates] /\ getter[t] \in GetterStates /\ getter[t].pc # "idle"
      BY <1>3 DEF IotFails, IotAborted, GetEnds, CrTypes
    <2>2. PICK g \in GetterStates : getter' = [getter EXCEPT ![t] = g] /\ g.pc # "use"
      <3>1. /\ AtRest \in GetterStates /\ AtRest.pc # "use"
            /\ [AtRest EXCEPT !.pc = "failed"] \in GetterStates
            /\ [AtRest EXCEPT !.pc = "failed"].pc # "use"
        BY DEF AtRest, GetterStates
      <3>2. /\ [getter[t] EXCEPT !.tries = getter[t].tries + 1] \in GetterStates
            /\ [getter[t] EXCEPT !.tries = getter[t].tries + 1].pc = getter[t].pc
        BY <2>1 DEF GetterStates
      <3>3. CASE IotFails(t)
        <4>1. /\ getter[t].pc = "fetch"
              /\ \/ getter' = [getter EXCEPT ![t] = [AtRest EXCEPT !.pc = "failed"]]
                 \/ getter' = [getter EXCEPT ![t] = [getter[t] EXCEPT !.tries = getter[t].tries + 1]]
          BY <3>3 DEF IotFails
        <4> QED BY <3>1, <3>2, <4>1
      <3>4. CASE IotAborted(t)
        BY <3>1, <3>4 DEF IotAborted
      <3>5. CASE GetEnds(t)
        BY <3>1, <3>5 DEF GetEnds
      <3> QED BY <1>3, <3>3, <3>4, <3>5
    <2>3. CrTypes'
      BY <1>1, <2>2 DEF CrTypes
    <2>4. kind = "iot" => prov.pc = "made"
      BY <2>1 DEF IotInv
    <2>5. ASSUME NEW u \in Getters, getter'[u].pc = "use"
          PROVE  getter'[u] = getter[u]
      BY <2>1, <2>2, <2>5
    <2> QED BY <1>1, <2>3, <2>4, <2>5 DEF IotInv, Made
  <1> QED BY <1>2, <1>3

\* CrInv is inductive.
THEOREM CredentialsInductive == CrSpec => []CrInv
  <1>1. CrInit => CrInv
    BY DEF CrInit, CrInv, CrTypes, IotInv, AtRest, GetterStates, Made
  <1>2. CrInv /\ [CrNext]_crVars => CrInv'
    <2> SUFFICES ASSUME CrInv, [CrNext]_crVars
                 PROVE  CrInv'
      OBVIOUS
    <2>1. CASE CreateProvider
      BY <2>1, ProviderStep
    <2>2. CASE CreateFails \/ AbortProvider \/ UNCHANGED crVars
      BY <2>2 DEF CreateFails, AbortProvider, crVars, CrInv, CrTypes, IotInv, Made
    <2>3. CASE FreeProvider
      BY <2>3 DEF FreeProvider, CrInv, CrTypes, IotInv, Made
    <2>4. CASE CredTick
      BY <2>4 DEF CredTick, CrInv, CrTypes, IotInv, Made
    <2>5. ASSUME NEW t \in Getters, IotFetches(t)
          PROVE  CrInv'
      BY <2>5, FetchStep
    <2>6. ASSUME NEW t \in Getters, FileReads(t) \/ CallbackGets(t)
          PROVE  CrInv'
      BY <2>6, ReplaceStep
    <2>7. ASSUME NEW t \in Getters,
                 IotLocks(t) \/ IotFails(t) \/ IotAborted(t) \/ StaticGets(t) \/ GetEnds(t)
          PROVE  CrInv'
      BY <2>7, GetStep
    <2> QED BY <2>1, <2>2, <2>3, <2>4, <2>5, <2>6, <2>7 DEF CrNext
  <1> QED BY <1>1, <1>2, PTL DEF CrSpec

\* The IoT provider never loses its credentials and never hands out expired ones, for any
\* number of tasks, retries and lifetimes.
THEOREM CredentialsCorrect == CrSpec => []CredentialsSound
  <1>1. CrInv => CredentialsSound
    BY DEF CrInv, IotInv, CredentialsSound, KeepsCredentials, HandedUnexpired
  <1> QED BY <1>1, CredentialsInductive, PTL

-----------------------------------------------------------------------------
(***************************************************************************)
(* SignalingMessages.  A message is stored only on an empty list, whichever*)
(* message it is, so the list has one entry at most, and the removal by    *)
(* correlation id cannot take another sender's.                            *)
(***************************************************************************)

SendStates ==
  [pc : {"idle", "store", "send", "remove", "end"}, msg : OutMessages \cup {<<>>},
   status : {"ok", "duplicate", "down"}]

Listed(t) == smTask[t].pc \in {"send", "remove"}

\* The list's only entry is the task whose send is under way.
OneOngoing ==
  \/ ongoing = <<>> /\ \A t \in SmTasks : ~Listed(t)
  \/ \E t \in SmTasks : ongoing = <<t>> /\ \A u \in SmTasks : Listed(u) <=> u = t

SmInv == smTask \in [SmTasks -> SendStates] /\ OneOngoing

\* Taking a message off the list that holds it alone leaves the list empty.
LEMMA RemovesOwn ==
  ASSUME NEW t, ongoing = <<t>>
  PROVE  RemoveOngoingMessage(MessageOf(t)) = <<>>
  <1> DEFINE hit == {i \in DOMAIN ongoing : MsgId(MessageOf(ongoing[i])) = MsgId(MessageOf(t))}
  <1>1. hit = {1}
    OBVIOUS
  <1>2. (CHOOSE i \in hit : \A j \in hit : i <= j) = 1
    BY <1>1
  <1>3. RemoveAt(<<t>>, 1) = <<>>
    BY DEF RemoveAt
  <1> QED BY <1>1, <1>2, <1>3 DEF RemoveOngoingMessage

\* SmInv is inductive.
THEOREM MessagesInductive == SmSpec => []SmInv
  <1>1. SmInit => SmInv
    BY DEF SmInit, SmInv, SmIdle, SendStates, OneOngoing, Listed
  <1>2. SmInv /\ [SmNext]_smVars => SmInv'
    <2> SUFFICES ASSUME SmInv, [SmNext]_smVars
                 PROVE  SmInv'
      OBVIOUS
    <2> USE DEF SmInv
    <2>1. ASSUME NEW t \in SmTasks, NEW m \in OutMessages, SendBegins(t, m)
          PROVE  SmInv'
      <3>1. /\ smTask' = [smTask EXCEPT ![t] = [pc |-> "store", msg |-> m, status |-> "ok"]]
            /\ smTask[t].pc = "idle" /\ ongoing' = ongoing
        BY <2>1 DEF SendBegins, AtTask
      <3>2. smTask' \in [SmTasks -> SendStates] /\ \A u \in SmTasks : Listed(u)' <=> Listed(u)
        BY <3>1 DEF SendStates, Listed
      <3> QED BY <3>1, <3>2 DEF OneOngoing
    <2>2. ASSUME NEW t \in SmTasks, SendStores(t)
          PROVE  SmInv'
      <3>1. CASE ongoing = <<>>
        <4>1. /\ smTask' = [smTask EXCEPT ![t].pc = "send", ![t].status = "ok"]
              /\ ongoing' = <<t>>
          BY <2>2, <3>1 DEF SendStores, StoreOngoingMessage, GetOngoingMessage
        <4>2. smTask' \in [SmTasks -> SendStates] /\ \A u \in SmTasks : Listed(u)' <=> (Listed(u) \/ u = t)
          BY <4>1 DEF SendStates, Listed
        <4> QED BY <3>1, <4>1, <4>2 DEF OneOngoing
      <3>2. CASE ongoing # <<>>
        <4>1. /\ smTask' = [smTask EXCEPT ![t].pc = "end", ![t].status = "duplicate"]
              /\ ongoing' = ongoing /\ smTask[t].pc = "store"
          BY <2>2, <3>2 DEF SendStores, StoreOngoingMessage, GetOngoingMessage, AtTask
        <4>2. smTask' \in [SmTasks -> SendStates] /\ \A u \in SmTasks : Listed(u)' <=> Listed(u)
          BY <4>1 DEF SendStates, Listed
        <4> QED BY <4>1, <4>2 DEF OneOngoing
      <3> QED BY <3>1, <3>2
    <2>3. ASSUME NEW t \in SmTasks, SendTransmits(t)
          PROVE  SmInv'
      <3>1. PICK s \in {"ok", "down"} : smTask' = [smTask EXCEPT ![t].pc = "remove", ![t].status = s]
        BY <2>3 DEF SendTransmits
      <3>2. smTask[t].pc = "send" /\ ongoing' = ongoing
        BY <2>3 DEF SendTransmits, AtTask
      <3>3. smTask' \in [SmTasks -> SendStates] /\ \A u \in SmTasks : Listed(u)' <=> Listed(u)
        BY <3>1, <3>2 DEF SendStates, Listed
      <3> QED BY <3>2, <3>3 DEF OneOngoing
    <2>4. ASSUME NEW t \in SmTasks, SendRemoves(t)
          PROVE  SmInv'
      <3>1. /\ smTask' = [smTask EXCEPT ![t].pc = "end"] /\ smTask[t].pc = "remove"
            /\ ongoing' = RemoveOngoingMessage(MessageOf(t))
        BY <2>4 DEF SendRemoves, AtTask
      <3>2. ongoing = <<t>> /\ \A u \in SmTasks : Listed(u) <=> u = t
        BY <3>1 DEF OneOngoing, Listed
      <3>3. ongoing' = <<>>
        BY <3>1, <3>2, RemovesOwn
      <3>4. smTask' \in [SmTasks -> SendStates] /\ \A u \in SmTasks : ~Listed(u)'
        BY <3>1, <3>2 DEF SendStates, Listed
      <3> QED BY <3>3, <3>4 DEF OneOngoing
    <2>5. ASSUME NEW t \in SmTasks, SendEnds(t)
          PROVE  SmInv'
      <3>1. /\ smTask' = [smTask EXCEPT ![t] = SmIdle] /\ smTask[t].pc = "end" /\ ongoing' = ongoing
        BY <2>5 DEF SendEnds, AtTask
      <3>2. smTask' \in [SmTasks -> SendStates] /\ \A u \in SmTasks : Listed(u)' <=> Listed(u)
        BY <3>1 DEF SendStates, Listed, SmIdle
      <3> QED BY <3>1, <3>2 DEF OneOngoing
    <2>6. ASSUME LinkChanges \/ (\E f \in InMessages : ReceivedMessage(f)) \/ UNCHANGED smVars
          PROVE  SmInv'
      <3>1. UNCHANGED <<ongoing, smTask>>
        BY <2>6 DEF LinkChanges, ReceivedMessage, smVars
      <3> QED BY <3>1 DEF OneOngoing, Listed
    <2> QED BY <2>1, <2>2, <2>3, <2>4, <2>5, <2>6 DEF SmNext
  <1> QED BY <1>1, <1>2, PTL DEF SmSpec

\* A send that ended, by whatever path, has taken its own message off the list.
THEOREM OngoingCorrect == SmSpec => []OngoingExact
  <1>1. SmInv => OngoingExact
    <2> SUFFICES ASSUME SmInv, NEW t \in SmTasks
                 PROVE  (\E i \in DOMAIN ongoing : ongoing[i] = t) <=> smTask[t].pc \in {"send", "remove"}
      BY DEF OngoingExact
    <2>1. CASE ongoing = <<>>
      BY <2>1 DEF SmInv, OneOngoing, Listed
    <2>2. CASE ongoing # <<>>
      <3>1. PICK u \in SmTasks : ongoing = <<u>> /\ \A v \in SmTasks : Listed(v) <=> v = u
        BY <2>2 DEF SmInv, OneOngoing
      <3>2. DOMAIN ongoing = {1} /\ ongoing[1] = u
        BY <3>1
      <3> QED BY <3>1, <3>2 DEF Listed
    <2> QED BY <2>1, <2>2
  <1> QED BY <1>1, MessagesInductive, PTL

=============================================================================
