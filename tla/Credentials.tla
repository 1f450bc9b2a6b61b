---------------------------- MODULE Credentials ----------------------------
(***************************************************************************)
(* components/credential: the providers of the AWS credentials a signaling *)
(* client signs with, and the part of kvs_signaling.c that makes, aborts   *)
(* and frees them.  The IoT provider fetches under credentialLock and      *)
(* retries; the file and callback providers have no lock; the static one   *)
(* never changes.  A credentials object is a number; every create makes a  *)
(* new one.  A get hands out the provider's own object, which the client   *)
(* keeps in pAwsCredentials for the calls that follow.                     *)
(***************************************************************************)
EXTENDS Naturals, Sequences, FiniteSets

CONSTANTS Getters,    \* tasks that run the client's calls
          Kinds,      \* kinds of provider configured: "iot", "file", "callback", "static"
          Grace,      \* ..._GRACE_PERIOD
          MaxLife,    \* MAX_ENFORCED_TOKEN_EXPIRATION_DURATION
          Lifetimes,  \* how long the service's credentials live
          CrRetries,  \* maxRetries
          CrMaxTime,  \* bound: clock ticks
          CrMaxMade   \* bound: credentials objects created

ASSUME CrAssumption ==
  /\ Kinds \subseteq {"iot", "file", "callback", "static"}
  /\ {Grace, MaxLife, CrRetries, CrMaxTime, CrMaxMade} \subseteq Nat /\ Lifetimes \subseteq Nat

VARIABLES kind,      \* the provider configured
          prov,      \* the provider: "none", "made" or "freed", its object (0: NULL)
          expires,   \* expiration of every object made
          liveCreds, \* objects not freed
          credLock,  \* the holder of credentialLock, or "free"
          getter,    \* each task: where it is in a get, attempts, the object it got
          credNow,
          credAbort  \* aborted

crVars == <<kind, prov, expires, liveCreds, credLock, getter, credNow, credAbort>>

AtRest == [pc |-> "idle", tries |-> 0, got |-> 0]
Made   == Len(expires)

CrInit ==
  /\ kind \in Kinds /\ prov = [pc |-> "none", cred |-> 0]
  /\ expires = <<>> /\ liveCreds = {} /\ credLock = "free"
  /\ getter = [t \in Getters |-> AtRest] /\ credNow = 0 /\ credAbort = FALSE

-----------------------------------------------------------------------------
(***************************************************************************)
(* Objects.                                                                *)
(***************************************************************************)
\* aws_credential_create(): the next object, with its expiration
CreateCredential(exp) == Made < CrMaxMade /\ expires' = Append(expires, exp)

\* aws_credential_free()
FreeCredential == liveCreds' = liveCreds \ {prov.cred}

\* the expiration of what the service sent, fixed up to the enforced rotation
Expiration(life) == credNow + (IF life < MaxLife THEN life ELSE MaxLife)

\* convertTimestampToEpoch(): refuses a date in the past
ConvertsTimestamp(life) == life \in Nat

\* the old object freed before the new one is made, which then fails
SwapFreeingFirst(made) ==
  /\ liveCreds' = (liveCreds \ {prov.cred}) \cup made
  /\ prov' = [prov EXCEPT !.cred = IF made = {} THEN 0 ELSE CHOOSE c \in made : TRUE]

\* http_api_rsp_getIoTCredential(): the new object first, then the old one is freed; made
\* is empty when the create failed
Swap(made) ==
  IF made = {} THEN UNCHANGED <<liveCreds, prov>>
  ELSE /\ liveCreds' = (liveCreds \ {prov.cred}) \cup made
       /\ prov' = [prov EXCEPT !.cred = CHOOSE c \in made : TRUE]

\* the file and the callback provider: the old object is freed, then the new one is made
Replace(made) ==
  /\ liveCreds' = (liveCreds \ {prov.cred}) \cup made
  /\ prov' = [prov EXCEPT !.cred = IF made = {} THEN 0 ELSE CHOOSE c \in made : TRUE]

\* a refresh makes an object that lives for a while, or none
Fetched(life)  == CreateCredential(Expiration(life))
FetchedNothing == UNCHANGED expires

-----------------------------------------------------------------------------
(***************************************************************************)
(* Create and free.                                                        *)
(***************************************************************************)
\* the provider made with the object that is created with it
MadeWith(c) == prov' = [pc |-> "made", cred |-> c] /\ liveCreds' = {c}

\* createIotCredentialProviderWithTime(): one attempt to fetch is part of it
CreateIotProvider ==
  /\ \E life \in Lifetimes : ConvertsTimestamp(life) /\ Fetched(life)
  /\ MadeWith(Made + 1)

\* file_credential_provider_createWithTime(): with a first read
CreateFileProvider == (\E life \in Lifetimes : Fetched(life)) /\ MadeWith(Made + 1)

\* createCallbackCredentialProvider(): nothing is fetched yet
CreateCallbackProvider == prov' = [pc |-> "made", cred |-> 0] /\ UNCHANGED <<expires, liveCreds>>

\* createStaticCredentialProvider(), with MAX_UINT64 for the expiration
CreateStaticProvider == CreateCredential(CrMaxTime + Grace + 1) /\ MadeWith(Made + 1)

\* createCredentialProvider()
CreateProvider ==
  /\ prov.pc = "none"
  /\ \/ kind = "callback" /\ CreateCallbackProvider
     \/ kind = "iot" /\ CreateIotProvider
     \/ kind = "file" /\ CreateFileProvider
     \/ kind = "static" /\ CreateStaticProvider
  /\ UNCHANGED <<kind, credLock, getter, credNow, credAbort>>

\* a bad configuration, a missing certificate or a failed first fetch: the client is freed
\* and createKvsSignalingClient() fails; the application's init loop calls it again
CreateFails ==
  /\ prov.pc = "none" /\ UNCHANGED crVars

\* kvsSignalingAbort(): only the IoT provider can be aborted
AbortProvider ==
  /\ prov.pc = "made" /\ ~credAbort /\ credAbort' = TRUE
  /\ UNCHANGED <<kind, prov, expires, liveCreds, credLock, getter, credNow>>

\* freeKvsSignalingClient(): after the signaling client, so no call is under way
FreeProvider ==
  /\ prov.pc = "made" /\ credAbort /\ \A t \in Getters : getter[t].pc = "idle"
  /\ prov' = [pc |-> "freed", cred |-> 0] /\ FreeCredential
  /\ UNCHANGED <<kind, expires, credLock, getter, credNow, credAbort>>

-----------------------------------------------------------------------------
(***************************************************************************)
(* Get.                                                                    *)
(***************************************************************************)
\* until the object has run out
NeedsFetchLate == IF prov.cred = 0 THEN TRUE ELSE credNow > expires[prov.cred] + Grace

\* no object, or one within the grace period of its expiration
NeedsFetch == IF prov.cred = 0 THEN TRUE ELSE credNow + Grace > expires[prov.cred]

Goto(t, pc) == getter' = [getter EXCEPT ![t].pc = pc]
HandsOut(t) == getter' = [getter EXCEPT ![t] = [pc |-> "use", tries |-> 0, got |-> prov'.cred]]

\* priv_iot_credential_provider_get() up to the first attempt
IotLocks(t) ==
  /\ prov.pc = "made" /\ kind = "iot" /\ getter[t].pc = "idle" /\ credLock = "free"
  /\ UNCHANGED <<kind, prov, expires, liveCreds, credNow, credAbort>>
  /\ IF NeedsFetch THEN Goto(t, "fetch") /\ credLock' = t
     ELSE HandsOut(t) /\ UNCHANGED credLock

\* an attempt that got credentials: they are swapped in and handed out
IotFetches(t) ==
  /\ getter[t].pc = "fetch" /\ ~credAbort
  /\ \E life \in Lifetimes : ConvertsTimestamp(life) /\ Fetched(life)
  /\ Swap({Made + 1}) /\ HandsOut(t) /\ credLock' = "free"
  /\ UNCHANGED <<kind, credNow, credAbort>>

\* an attempt without: the request, the answer or the create failed
IotFails(t) ==
  /\ getter[t].pc = "fetch" /\ ~credAbort
  /\ FetchedNothing /\ Swap({})
  /\ LET last == getter[t].tries + 1 = CrRetries
     IN /\ getter' = [getter EXCEPT ![t] = IF last THEN [AtRest EXCEPT !.pc = "failed"]
                                           ELSE [getter[t] EXCEPT !.tries = @ + 1]]
        /\ credLock' = IF last THEN "free" ELSE credLock
  /\ UNCHANGED <<kind, credNow, credAbort>>

IotAborted(t) ==
  /\ getter[t].pc = "fetch" /\ credAbort
  /\ getter' = [getter EXCEPT ![t] = [AtRest EXCEPT !.pc = "failed"]] /\ credLock' = "free"
  /\ UNCHANGED <<kind, prov, expires, liveCreds, credNow, credAbort>>

\* priv_file_credential_provider_read(): an unreadable date leaves the expiration
\* uninitialised, which the enforced rotation bounds from above only
FileReads(t) ==
  /\ prov.pc = "made" /\ kind = "file" /\ getter[t].pc = "idle"
  /\ \/ ~NeedsFetch /\ UNCHANGED <<prov, expires, liveCreds>> /\ HandsOut(t)
     \/ /\ NeedsFetch
        /\ \E life \in Lifetimes, bad \in BOOLEAN :
             IF bad THEN \E e \in 0..(credNow + MaxLife) : CreateCredential(e) ELSE Fetched(life)
        /\ Replace({Made + 1}) /\ HandsOut(t)
     \/ /\ NeedsFetch   \* the file is not there or not in its format
        /\ UNCHANGED <<prov, expires, liveCreds>> /\ Goto(t, "failed")
     \/ /\ NeedsFetch   \* the create failed
        /\ FetchedNothing /\ Replace({}) /\ Goto(t, "failed")
  /\ UNCHANGED <<kind, credLock, credNow, credAbort>>

\* priv_callback_credential_provider_get() with fetchCredentialsAdapter(): every time
CallbackGets(t) ==
  /\ prov.pc = "made" /\ kind = "callback" /\ getter[t].pc = "idle"
  /\ \/ /\ \E life \in Lifetimes : CreateCredential(credNow + life)
        /\ Replace({Made + 1}) /\ HandsOut(t)
     \/ UNCHANGED <<prov, expires, liveCreds>> /\ Goto(t, "failed")
     \/ FetchedNothing /\ Replace({}) /\ Goto(t, "failed")
  /\ UNCHANGED <<kind, credLock, credNow, credAbort>>

StaticGets(t) ==
  /\ prov.pc = "made" /\ kind = "static" /\ getter[t].pc = "idle"
  /\ UNCHANGED prov /\ HandsOut(t)
  /\ UNCHANGED <<kind, expires, liveCreds, credLock, credNow, credAbort>>

\* the call is signed, or given up
GetEnds(t) ==
  /\ getter[t].pc \in {"use", "failed"} /\ getter' = [getter EXCEPT ![t] = AtRest]
  /\ UNCHANGED <<kind, prov, expires, liveCreds, credLock, credNow, credAbort>>

CredTick ==
  /\ credNow < CrMaxTime /\ credNow' = credNow + 1
  /\ \A t \in Getters : getter[t].pc # "use"    \* signing takes no time
  /\ UNCHANGED <<kind, prov, expires, liveCreds, credLock, getter, credAbort>>

CrNext ==
  \/ CreateProvider \/ CreateFails \/ AbortProvider \/ FreeProvider \/ CredTick
  \/ \E t \in Getters : \/ IotLocks(t) \/ IotFetches(t) \/ IotFails(t) \/ IotAborted(t)
                        \/ FileReads(t) \/ CallbackGets(t) \/ StaticGets(t) \/ GetEnds(t)

-----------------------------------------------------------------------------
\* The IoT provider has credentials from its creation to its free, whatever attempt fails
\* and however gets, ticks and an abort interleave (http_iot_credentials.c:361 "with the
\* old free-then-create order a failed create left the provider with no credentials at
\* all"), and they are not a freed object.
KeepsCredentials == kind = "iot" /\ prov.pc = "made" => prov.cred \in liveCreds

\* Whoever gets credentials of the IoT provider gets them unexpired: the refresh under the
\* lock is decided on the object of the last getter that held it.
HandedUnexpired ==
  \A t \in Getters : kind = "iot" /\ getter[t].pc = "use" => expires[getter[t].got] >= credNow

\* The provider has credentials and hands them out unexpired (http_iot_credentials.c).
CredentialsSound == KeepsCredentials /\ HandedUnexpired
=============================================================================
