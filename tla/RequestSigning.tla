--------------------------- MODULE RequestSigning ---------------------------
(***************************************************************************)
(* credential/src/aws_signer_v4.c and kvs_utils/src/request_info.c: a      *)
(* request of the signaling client from its creation to the wire, signed   *)
(* in its headers (HTTPS calls) or in its query (the websocket), while     *)
(* another task refreshes the credentials it was created from.  A text is  *)
(* a sequence of words; of the characters only the ones that the encoding  *)
(* changes are told apart: "/" and "+" (any other reserved one).  A hash   *)
(* is the tuple of what it is computed from.                               *)
(***************************************************************************)
EXTENDS Integers, Sequences, FiniteSets, TLC

CONSTANTS ClientIds,    \* client id of a viewer's url; none is empty
          SigDay,       \* ticks in a day
          SigWidth,     \* bits of a UINT32
          MaxExpires,   \* MAX_AWS_SIGV4_CREDENTIALS_EXPIRATION_IN_SECONDS
          SigMaxTime,   \* bound: clock ticks
          SigMaxKeys    \* bound: credentials handed out by the service

ASSUME SigAssumption ==
  /\ {SigDay, SigWidth, MaxExpires, SigMaxTime, SigMaxKeys} \subseteq Nat
  /\ SigDay > 0 /\ <<>> \notin ClientIds

VARIABLES memory,   \* credentials in memory: the provider's object and the request's copy
          request,  \* the RequestInfo of the call under way
          wire,     \* the request last sent
          sigNow

sigVars == <<memory, request, wire, sigNow>>

NoCredentials == [id |-> 0, token |-> FALSE, expires |-> 0]
NoRequest     == [pc |-> "idle"]
Nothing       == [pc |-> "idle"]

SigInit ==
  /\ memory = [provider |-> [id |-> 1, token |-> TRUE, expires |-> 1], copy |-> NoCredentials]
  /\ request = NoRequest /\ wire = Nothing /\ sigNow = 0

-----------------------------------------------------------------------------
(***************************************************************************)
(* Headers: a list by name, in the order of STRCMPI.                       *)
(***************************************************************************)
HeaderOrder ==
  <<"authorization", "content-length", "content-type", "host", "user-agent", "x-amz-date",
    "x-amz-security-token">>
ParamOrder ==
  <<"algorithm", "channel-arn", "client-id", "credential", "date", "expires", "security-token",
    "signature", "signed-headers">>
RankIn(order, n) == CHOOSE i \in 1..Len(order) : order[i] = n

\* createRequestHeader()
RequestHeader(name, value) == [name |-> name, value |-> value]

\* setRequestHeader(): before the first header of a greater name; a name already there stays
SetRequestHeader(hs, name, value) ==
  LET kept == SelectSeq(hs, LAMBDA h : RankIn(HeaderOrder, h.name) <= RankIn(HeaderOrder, name))
      rest == SelectSeq(hs, LAMBDA h : RankIn(HeaderOrder, h.name) > RankIn(HeaderOrder, name))
  IN kept \o <<RequestHeader(name, value)>> \o rest

\* removeRequestHeader(); no name is set twice
RemoveRequestHeader(hs, name) == SelectSeq(hs, LAMBDA h : h.name # name)

\* removeRequestHeaders()
RemoveRequestHeaders(hs) == <<>>

\* IS_CANONICAL_HEADER_NAME
IsCanonicalHeader(h) ==
  h.name \notin {"x-amz-security-token", "content-type", "content-length", "authorization"}

\* generateCanonicalHeaders()
CanonicalHeaders(hs) == SelectSeq(hs, IsCanonicalHeader)

\* names with a reserved character between them
Joined(names) == [i \in 1..(2 * Len(names) - 1) |-> IF i % 2 = 1 THEN names[(i + 1) \div 2] ELSE "+"]

\* generateSignedHeaders()
SignedHeaders(hs) == Joined([i \in 1..Len(CanonicalHeaders(hs)) |-> CanonicalHeaders(hs)[i].name])

-----------------------------------------------------------------------------
(***************************************************************************)
(* The url: host, path and query; conversions.                             *)
(***************************************************************************)
\* uriEncodeString() and uriDecodeString()
UriEncode(s) ==
  [i \in 1..Len(s) |-> IF s[i] = "/" THEN "%2F" ELSE IF s[i] = "+" THEN "%2B"
                       ELSE IF s[i] = "%2F" THEN "%252F" ELSE IF s[i] = "%2B" THEN "%252B" ELSE s[i]]
UriDecode(s) ==
  [i \in 1..Len(s) |-> IF s[i] = "%2F" THEN "/" ELSE IF s[i] = "%2B" THEN "+"
                       ELSE IF s[i] = "%252F" THEN "%2F" ELSE IF s[i] = "%252B" THEN "%2B" ELSE s[i]]

\* getRequestHost() and getCanonicalUri()
RequestHost(url)  == url.host
CanonicalUri(url) == IF url.path = "" THEN "/" ELSE url.path

Param(name, value) == [name |-> name, value |-> value]

\* a parameter left where it was in the url
InsertParamLast(ps, p) == Append(ps, p)

\* the list of getCanonicalQueryParams(): before the first parameter that is not smaller
InsertParam(ps, p) ==
  LET less(q) == RankIn(ParamOrder, q.name) < RankIn(ParamOrder, p.name)
      more(q) == ~less(q)
  IN SelectSeq(ps, less) \o <<p>> \o SelectSeq(ps, more)

\* getCanonicalQueryParams() with uriEncode
CanonicalQueryParams(query) ==
  LET sorted[n \in 0..Len(query)] ==
        IF n = 0 THEN <<>>
        ELSE InsertParam(sorted[n - 1], Param(query[n].name, UriEncode(query[n].value)))
  IN sorted[Len(query)]

-----------------------------------------------------------------------------
(***************************************************************************)
(* The signature.                                                          *)
(***************************************************************************)
\* generateSignatureDateTime(), and its first SIGNATURE_DATE_STRING_LEN characters
SignatureDateTime(t) == "t" \o ToString(t)
SignatureDate(t)     == "d" \o ToString(t \div SigDay)

\* generateCredentialScope() and generateEncodedCredentials()
CredentialScope(t)       == <<SignatureDate(t), "/", "region", "/", "service">>
EncodedCredentials(id, t) == <<"key" \o ToString(id), "/">> \o CredentialScope(t)

\* generateRequestHmac() and hexEncodedSha256()
RequestHmac(key, message) == [key |-> key, message |-> message]
Sha256(message)           == [hash |-> message]

\* generateCanonicalRequestString()
CanonicalRequestString(verb, url, headers, body) ==
  [verb |-> verb, uri |-> CanonicalUri(url), query |-> url.query, headers |-> CanonicalHeaders(headers),
   signed |-> SignedHeaders(headers), body |-> Sha256(body)]

\* generateAwsSigV4Signature(): the chain of keys from the secret, then the string to sign
SigV4(secret, t, canonical) ==
  RequestHmac([secret |-> secret, scope |-> CredentialScope(t)],
              [date |-> SignatureDateTime(t), scope |-> CredentialScope(t), request |-> Sha256(canonical)])

Secret(id) == "secret" \o ToString(id)

\* generateAwsSigV4Signature() for the request, with the credentials it points to
GenerateSignature(r) ==
  SigV4(Secret(memory[r.cred].id), r.time, CanonicalRequestString(r.verb, r.url, r.headers, r.body))

\* the X-Amz-Expires of signAwsRequestInfoQueryParam(): credentials that have run out wrap around
ExpirationInSeconds(r) ==
  LET left == (memory[r.cred].expires + 2 ^ SigWidth - r.time) % (2 ^ SigWidth)
      least == IF left < MaxExpires THEN left ELSE MaxExpires
  IN IF least > 1 THEN least ELSE 1

-----------------------------------------------------------------------------
(***************************************************************************)
(* A request.                                                              *)
(***************************************************************************)
\* the provider's object itself
CopyAwsCredentialsShallow == memory' = memory

\* copyAwsCredentials()
CopyAwsCredentials == memory' = [memory EXCEPT !.copy = memory.provider]

\* where the request finds its credentials
CopyIn(m) == IF m.copy = NoCredentials THEN "provider" ELSE "copy"

\* createRequestInfo(), with the time and the verb its caller sets
CreateRequestInfo(kind, verb, url, body) ==
  /\ request = NoRequest /\ CopyAwsCredentials
  /\ request' = [pc |-> "made", kind |-> kind, verb |-> verb, url |-> url, body |-> body, time |-> sigNow,
                 cred |-> CopyIn(memory'), headers |-> SetRequestHeader(<<>>, "user-agent", "agent")]
  /\ UNCHANGED <<wire, sigNow>>

\* connectEspSignalingClient(): the url of a master, or of a viewer with its client id
CreateConnect ==
  \E id \in ClientIds \cup {<<>>} :
    LET arn == <<Param("channel-arn", <<"arn", "+", "channel", "/", "name">>)>>
        url == [host |-> "wss", path |-> "",
                query |-> IF id = <<>> THEN arn ELSE arn \o <<Param("client-id", id)>>]
    IN CreateRequestInfo("query", "GET", url, "")

\* performEspHttpRequest(): a call of the service
CreateCall == CreateRequestInfo("header", "POST", [host |-> "https", path |-> "/call", query |-> <<>>], "body")

\* AUTH_QUERY_TEMPLATE and AUTH_QUERY_TEMPLATE_WITH_TOKEN
AuthQuery(r, hs) ==
  <<Param("algorithm", <<"sha">>), Param("credential", EncodedCredentials(memory[r.cred].id, r.time)),
    Param("date", <<SignatureDateTime(r.time)>>), Param("expires", <<"e" \o ToString(ExpirationInSeconds(r))>>),
    Param("signed-headers", SignedHeaders(hs))>>
  \o (IF memory[r.cred].token
      THEN <<Param("security-token", <<"token" \o ToString(memory[r.cred].id), "+">>)>> ELSE <<>>)

\* signAwsRequestInfoQueryParam() up to the canonical query in the url
QueryPrepares ==
  /\ request.pc = "made" /\ request.kind = "query"
  /\ LET hs == SetRequestHeader(RemoveRequestHeader(request.headers, "user-agent"), "host",
                                RequestHost(request.url))
         query == CanonicalQueryParams(request.url.query \o AuthQuery(request, hs))
     IN request' = [request EXCEPT !.pc = "prepared", !.headers = hs, !.url.query = query]
  /\ UNCHANGED <<memory, wire, sigNow>>

\* the signature, after the canonical query; the caller then drops the headers
QuerySigns ==
  /\ request.pc = "prepared" /\ request.kind = "query"
  /\ request' = [request EXCEPT !.pc = "signed", !.headers = RemoveRequestHeaders(@),
                   !.url.query = Append(@, Param("signature", GenerateSignature(request)))]
  /\ UNCHANGED <<memory, wire, sigNow>>

\* signAwsRequestInfo() up to the signature
HeaderPrepares ==
  /\ request.pc = "made" /\ request.kind = "header"
  /\ LET h1 == SetRequestHeader(request.headers, "host", RequestHost(request.url))
         h2 == SetRequestHeader(h1, "x-amz-date", SignatureDateTime(request.time))
         h3 == SetRequestHeader(h2, "content-type", "json")
         h4 == IF request.body = "" THEN h3 ELSE SetRequestHeader(h3, "content-length", "length")
     IN request' = [request EXCEPT !.pc = "prepared", !.headers = h4]
  /\ UNCHANGED <<memory, wire, sigNow>>

\* and from there: the Authorization and the token are not signed
HeaderSigns ==
  /\ request.pc = "prepared" /\ request.kind = "header"
  /\ LET auth == [credential |-> EncodedCredentials(memory[request.cred].id, request.time),
                  signed |-> SignedHeaders(request.headers), signature |-> GenerateSignature(request)]
         h1 == SetRequestHeader(request.headers, "authorization", auth)
         h2 == IF memory[request.cred].token
               THEN SetRequestHeader(h1, "x-amz-security-token", "token" \o ToString(memory[request.cred].id))
               ELSE h1
     IN request' = [request EXCEPT !.pc = "signed", !.headers = h2]
  /\ UNCHANGED <<memory, wire, sigNow>>

\* freeRequestInfo()
FreeRequestInfo == request' = NoRequest /\ memory' = [memory EXCEPT !.copy = NoCredentials]

\* the websocket or the HTTPS client sends the url, its own Host and the headers it was given
SendSigned ==
  /\ request.pc = "signed" /\ wire' = [request EXCEPT !.pc = "sent"] /\ FreeRequestInfo
  /\ UNCHANGED sigNow

\* an allocation failed or a text did not fit: the call fails before it is sent
SignFails == request.pc \in {"made", "prepared"} /\ FreeRequestInfo /\ UNCHANGED <<wire, sigNow>>

\* the provider's next credentials, with or without a token, in another task
RefreshProvider ==
  /\ memory.provider.id < SigMaxKeys
  /\ \E t \in BOOLEAN, e \in 0..2 :
       memory' = [memory EXCEPT !.provider = [id |-> @.id + 1, token |-> t, expires |-> sigNow + e]]
  /\ UNCHANGED <<request, wire, sigNow>>

SigTick == sigNow < SigMaxTime /\ sigNow' = sigNow + 1 /\ UNCHANGED <<memory, request, wire>>

SigNext ==
  \/ CreateConnect \/ CreateCall \/ QueryPrepares \/ QuerySigns \/ HeaderPrepares \/ HeaderSigns
  \/ SendSigned \/ SignFails \/ RefreshProvider \/ SigTick

-----------------------------------------------------------------------------
(***************************************************************************)
(* The service, from what it receives alone.                               *)
(***************************************************************************)
ByName(a, b) == RankIn(ParamOrder, a.name) < RankIn(ParamOrder, b.name)

\* the request as the service canonicalises it: every parameter but the signature decoded,
\* encoded and sorted; the headers it is told were signed, of those it got (Host is always sent)
ServiceQuery(w) ==
  LET unsigned == SelectSeq(w.url.query, LAMBDA p : p.name # "signature")
      again == [i \in 1..Len(unsigned) |-> Param(unsigned[i].name, UriEncode(UriDecode(unsigned[i].value)))]
  IN SortSeq(again, ByName)
ServiceHeaders(w) ==
  IF \E i \in 1..Len(w.headers) : w.headers[i].name = "host" THEN w.headers
  ELSE <<RequestHeader("host", w.url.host)>> \o w.headers

Named(s, n) == s[CHOOSE i \in 1..Len(s) : s[i].name = n].value
Words(s)    == {s[i] : i \in 1..Len(s)}

ServiceRequest(w, signed) ==
  LET heard == SelectSeq(ServiceHeaders(w), LAMBDA h : h.name \in Words(signed))
  IN [verb |-> w.verb, uri |-> CanonicalUri(w.url), query |-> ServiceQuery(w),
      headers |-> SortSeq(heard, LAMBDA a, b : RankIn(HeaderOrder, a.name) < RankIn(HeaderOrder, b.name)),
      signed |-> signed, body |-> Sha256(w.body)]

ServiceSignature(w, signed, id) == SigV4(Secret(id), w.time, ServiceRequest(w, signed))
KeyNamed(credential) == CHOOSE k \in 1..SigMaxKeys : "key" \o ToString(k) = credential[1]

\* Every request that leaves the client verifies at the service: the signature over what
\* arrived (query re-encoded and sorted, the headers named in it), under the secret of the
\* access key the request names, is the one it carries, whichever refresh of the provider
\* fell between creation, canonicalisation and signing (aws_signer_v4.c, request_info.c:90).
SignatureVerifies ==
  wire # Nothing =>
    IF wire.kind = "query"
    THEN LET q == wire.url.query
         IN Named(q, "signature") =
              ServiceSignature(wire, UriDecode(Named(q, "signed-headers")),
                               KeyNamed(UriDecode(Named(q, "credential"))))
    ELSE LET auth == Named(wire.headers, "authorization")
         IN auth.signature = ServiceSignature(wire, auth.signed, KeyNamed(auth.credential))

-----------------------------------------------------------------------------
(***************************************************************************)
(* components/signaling/kvs_signaling, port/LwsApiCalls_esp.c: signing with*)
(* a clock that may be wrong.  Every answer of an HTTPS call carries the   *)
(* server's date; checkAndStoreClockSkew() turns it into a time, compares  *)
(* it with the device's clock and keeps the difference for the state the   *)
(* state machine is in; checkAndCorrectForClockSkew() adds it to the time  *)
(* of the next request signed in that state.  The websocket's connect has  *)
(* no such answer; it is signed once with the date of the last skewed one. *)
(* Meanwhile SNTP may set the clock.                                       *)
(*                                                                         *)
(* The unit of time is a day, so that dates cross the ends of months and   *)
(* leap years; a stored skew is a number of Width bits whose top bit is its*)
(* sign.                                                                   *)
(***************************************************************************)
CONSTANTS CallStates,  \* states of the state ckState that make an HTTPS call
          SkewLimit,   \* TIME_SKEW_THRESHOLD
          SkewWidth,   \* 64
          Dates,       \* dates at which the device starts, <<year, month, day>>
          Offsets,     \* device clock minus server clock, at the start and after SNTP
          CkMaxDays,   \* bound: days that pass
          CkMaxSets    \* bound: times SNTP sets the clock

ASSUME CkAssumption == SkewLimit \in Nat /\ SkewWidth \in Nat \ {0} /\ {CkMaxDays, CkMaxSets} \subseteq Nat

VARIABLES date,       \* the server's date
          today,      \* the server's days since 1970
          off,        \* device clock minus server clock
          skewMap,    \* pEndpointToClockSkewHashMap: 0 for no entry
          serverTime, \* gServerTime: 0 for none
          ckState,    \* the state machine's current state
          call,       \* the request under way
          passed,     \* bounds: days and settings so far
          inStep      \* history: states with an answer handled since the clock was last set

ckVars == <<date, today, off, skewMap, serverTime, ckState, call, passed, inStep>>

-----------------------------------------------------------------------------
(***************************************************************************)
(* Dates.                                                                  *)
(***************************************************************************)
\* every fourth year
IsLeapYearJulian(y) == y % 4 = 0

IsLeapYear(y) == (y % 4 = 0 /\ y % 100 # 0) \/ y % 400 = 0

B2N(b) == IF b THEN 1 ELSE 0

\* days of the months before month m (1 to 12), of a year that does not leap
MonthDays == <<0, 31, 59, 90, 120, 151, 181, 212, 243, 273, 304, 334>>

YearsDays[y \in 1969..2200] == IF y < 1970 THEN 0 ELSE YearsDays[y - 1] + 365 + B2N(IsLeapYear(y))

\* utc_tm_to_epoch(): the years since 1970, the months of this one, its 29 February
UtcTmToEpoch(d) ==
  YearsDays[d[1] - 1] + MonthDays[d[2]] + B2N(d[2] > 2 /\ IsLeapYear(d[1])) + d[3] - 1

\* the server's calendar, told apart from the code's: the day after d, and the number of
\* a day counted in years that begin in March
MonthLength(y, m) ==
  IF m = 2 THEN (IF y % 400 = 0 \/ (y % 4 = 0 /\ y % 100 # 0) THEN 29 ELSE 28)
  ELSE IF m \in {4, 6, 9, 11} THEN 30 ELSE 31
DayAfter(d) ==
  IF d[3] < MonthLength(d[1], d[2]) THEN <<d[1], d[2], d[3] + 1>>
  ELSE IF d[2] < 12 THEN <<d[1], d[2] + 1, 1>> ELSE <<d[1] + 1, 1, 1>>
DayNumber(d) ==
  LET y == IF d[2] <= 2 THEN d[1] - 1 ELSE d[1]
      m == IF d[2] <= 2 THEN d[2] + 9 ELSE d[2] - 3
  IN 365 * y + y \div 4 - y \div 100 + y \div 400 + (153 * m + 2) \div 5 + d[3] - 719469

-----------------------------------------------------------------------------
(***************************************************************************)
(* The stored skew.                                                        *)
(***************************************************************************)
SignBit == 2^(SkewWidth - 1)

\* the skew checkAndStoreClockSkew() computes, 0 for a clock within the limit
SkewOf(server, device) ==
  IF server > device
  THEN IF server - device > SkewLimit THEN server - device ELSE 0
  ELSE IF device - server > SkewLimit THEN (device - server) + SignBit ELSE 0

\* the entry of a skew that is gone stays
StoredKeeping(map, s, skew) == IF skew # 0 THEN [map EXCEPT ![s] = skew] ELSE map

\* the hash table after it: replaced while there is a skew, removed once there is none
Stored(map, s, skew) == [map EXCEPT ![s] = skew]

\* checkAndCorrectForClockSkew(): the time a request is signed with in state s
Corrected(s, device) ==
  IF skewMap[s] >= SignBit THEN device - (skewMap[s] - SignBit) ELSE device + skewMap[s]

-----------------------------------------------------------------------------
NoCall == [pc |-> "idle", err |-> 0, known |-> FALSE, forced |-> FALSE]
AllStates == CallStates \cup {"connect"}

CkInit ==
  /\ date \in Dates /\ today = DayNumber(date) /\ off \in Offsets
  /\ skewMap = [s \in AllStates |-> 0] /\ serverTime = 0
  /\ ckState \in CallStates /\ call = NoCall /\ passed = <<0, 0>> /\ inStep = {}

DeviceTime == today + off

\* the state machine steps to a state and its call is signed (performHttpRequest())
CallSigned(s) ==
  /\ call.pc = "idle" /\ ckState' = s
  /\ call' = [pc |-> "call", err |-> Corrected(s, DeviceTime) - today, known |-> s \in inStep, forced |-> FALSE]
  /\ UNCHANGED <<date, today, off, skewMap, serverTime, passed, inStep>>

\* HTTP_EVENT_ON_HEADER with the date, accepted or refused alike; the map is that of the
\* state the machine is in by now
DateReceived ==
  /\ call.pc = "call"
  /\ LET skew == SkewOf(UtcTmToEpoch(date), DeviceTime)
     IN /\ skewMap' = Stored(skewMap, ckState, skew)
        /\ serverTime' = IF skew # 0 THEN UtcTmToEpoch(date) ELSE serverTime
  /\ inStep' = inStep \cup {ckState}
  /\ call' = NoCall
  /\ UNCHANGED <<date, today, off, ckState, passed>>

\* no answer, or one without a date
CallUnanswered ==
  /\ call.pc \in {"call", "connect"} /\ call' = NoCall
  /\ UNCHANGED <<date, today, off, skewMap, serverTime, ckState, passed, inStep>>

\* a refresh on another task puts the machine into another state during the call
MachineMoves(s) ==
  /\ call.pc = "call" /\ ckState' = s
  /\ UNCHANGED <<date, today, off, skewMap, serverTime, call, passed, inStep>>

\* connectEspSignalingClient(): corrected for its own state, or the server's last time, once
ConnectSigned ==
  /\ call.pc = "idle" /\ ckState' = "connect"
  /\ call' = [pc |-> "connect", known |-> FALSE, forced |-> serverTime # 0,
              err |-> (IF serverTime # 0 THEN serverTime ELSE Corrected("connect", DeviceTime)) - today]
  /\ serverTime' = 0
  /\ UNCHANGED <<date, today, off, skewMap, passed, inStep>>

SntpSets(o) ==
  /\ passed[2] < CkMaxSets /\ o # off /\ off' = o
  /\ passed' = [passed EXCEPT ![2] = @ + 1] /\ inStep' = {}
  /\ UNCHANGED <<date, today, skewMap, serverTime, ckState, call>>

DayPasses ==
  /\ passed[1] < CkMaxDays /\ date' = DayAfter(date) /\ today' = today + 1
  /\ passed' = [passed EXCEPT ![1] = @ + 1]
  /\ UNCHANGED <<off, skewMap, serverTime, ckState, call, inStep>>

CkNext ==
  \/ \E s \in CallStates : CallSigned(s) \/ MachineMoves(s)
  \/ DateReceived \/ CallUnanswered \/ ConnectSigned \/ DayPasses
  \/ \E o \in Offsets : SntpSets(o)

-----------------------------------------------------------------------------
\* A request signed in a state that has handled an answer since the clock was last set is
\* signed within the limit of the server's time (LwsApiCalls_esp.c:481 "Keep the stored
\* skew in step with the clock"): whichever way the clock was off before and is off now,
\* whatever date it is, and whichever state the answer was stored under.
SignedInStep == call.known => call.err \in (-SkewLimit)..SkewLimit
=============================================================================
