----------------------------- MODULE AppSession -----------------------------
(***************************************************************************)
(* components/app_webrtc/src/app_webrtc.c: the streaming sessions of the   *)
(* application, on top of the KVS peer connection client (KvsPeer).        *)
(*                                                                         *)
(* Sessions are registered twice, in webrtcSessionList with                *)
(* streamingSessionCount and in a hash table keyed by peer.  Both are      *)
(* changed under sampleConfigurationObjLock by three threads:              *)
(*                                                                         *)
(*   - the signaling thread in signalingMessageReceived();                 *)
(*   - the cleanup loop sessionCleanupWait(), which frees one session      *)
(*     marked with terminateFlag per pass, and the teardown after it;      *)
(*   - an application task in app_webrtc_trigger_offer().                  *)
(*                                                                         *)
(* A thread that must free a session does so in several steps, with the    *)
(* lock held by the first two and without it by the teardown, while the    *)
(* SDK's threads and the watchdog run peerConnectionStateChangedWrapper()  *)
(* without any lock.  Heap exhaustion is not modelled.                     *)
(***************************************************************************)
EXTENDS KvsPeer, Sequences, TLC

CONSTANTS MaxStreams,     \* CONFIG_KVS_MAX_CONCURRENT_STREAMS
          EarlyPeers      \* peers whose candidates may come before their offer

ASSUME MaxStreamsAssumption == MaxStreams \in Nat \ {0}
ASSUME EarlyAssumption == EarlyPeers \subseteq Peers

VARIABLES slots,         \* webrtcSessionList: every slot, live or stale
          count,         \* streamingSessionCount
          hash,          \* pRtcPeerConnectionForRemoteClient
          pending,       \* peers with a queue of early ICE candidates
          expired,       \* those whose queue is older than the limit
          terminateFlag, \* session->terminateFlag
          announced,     \* session->connectedAnnounced
          balance,       \* PEER_CONNECTED minus PEER_DISCONNECTED raised
          sig,           \* the signaling thread in an offer
          reaping,       \* the session the cleanup loop is freeing
          api,           \* the session trigger_offer() holds after unlocking
          phase,         \* the cleanup loop, and freeAllAppWebRTCSessions()
          tear           \* sessions the teardown detached, still to be freed

appVars == <<slots, count, hash, pending, expired, terminateFlag, announced,
             balance, sig, reaping, api, phase, tear>>

vars == <<kvsVars, appVars>>

Slots == 0..(MaxStreams - 1)

Listed == {slots[i] : i \in 0..(count - 1)}

\* "replace": frees the terminated session the offer replaces; "created",
\* "sent": the new session before and after it took the offer; "failed": frees
\* the new session.
SigPlaces == {"idle", "replace", "created", "sent", "failed"}

SigIdle == [pc |-> "idle", peer |-> None, sess |-> None]

\* "left": the loop has returned; "cleared": the table is empty; "detached":
\* the list is empty and its sessions are being freed; "down": all are freed.
Phases == {"run", "left", "cleared", "detached", "down"}

TypeOK ==
  /\ KvsTypeOK
  /\ slots \in [Slots -> Sessions \cup {None}]
  /\ count \in 0..MaxStreams
  /\ hash \in [Peers -> Sessions \cup {None}]
  /\ pending \subseteq Peers /\ expired \subseteq pending
  /\ terminateFlag \in [Sessions -> BOOLEAN]
  /\ announced \in [Sessions -> BOOLEAN]
  /\ balance \in [Sessions -> -1..1]
  /\ sig \in [pc : SigPlaces, peer : Peers \cup {None},
              sess : Sessions \cup {None}]
  /\ reaping \in Sessions \cup {None}
  /\ api \in Sessions \cup {None}
  /\ phase \in Phases
  /\ tear \in Seq(Sessions)

Init ==
  /\ KvsInit
  /\ slots = [i \in Slots |-> None]
  /\ count = 0
  /\ hash = [p \in Peers |-> None]
  /\ pending = {} /\ expired = {}
  /\ terminateFlag = [s \in Sessions |-> FALSE]
  /\ announced = [s \in Sessions |-> FALSE]
  /\ balance = [s \in Sessions |-> 0]
  /\ sig = SigIdle
  /\ reaping = None
  /\ api = None
  /\ phase = "run"
  /\ tear = <<>>

\* sampleConfigurationObjLock can be taken.
ObjUnlocked == sig.pc = "idle" /\ reaping = None

\* The teardown disconnects signaling before it touches the sessions.
Receiving == phase \in {"run", "left"}

-----------------------------------------------------------------------------
(***************************************************************************)
(* peerConnectionStateChangedWrapper(), the application's half of the      *)
(* state handler, on thread t.                                             *)
(***************************************************************************)

appButEvents == <<slots, count, hash, pending, expired, sig, reaping, api,
                  phase, tear>>

kvsButAt == <<stage, peerOf, initiator, terminated, disconnectDone, active,
              sessionCount, mediaStarted, sdk>>

\* CONNECTED: the flag is stored, then the event is raised.
AnnounceConnected(s, t) ==
  /\ at[s][t] = "connected"
  /\ announced' = [announced EXCEPT ![s] = TRUE]
  /\ at' = [at EXCEPT ![s][t] = "announced"]
  /\ UNCHANGED <<kvsButAt, appButEvents, terminateFlag, balance>>

RaiseConnected(s, t) ==
  /\ at[s][t] = "announced"
  /\ balance' = [balance EXCEPT ![s] = @ + 1]
  /\ at' = [at EXCEPT ![s][t] = "idle"]
  /\ UNCHANGED <<kvsButAt, appButEvents, terminateFlag, announced>>

\* Mutant: the flag is read, not exchanged.
ExchangeAnnouncedKept(s, t) ==
  /\ at[s][t] = "ended"
  /\ UNCHANGED announced
  /\ IF announced[s]
       THEN at' = [at EXCEPT ![s][t] = "owing"] /\ UNCHANGED terminateFlag
       ELSE /\ at' = [at EXCEPT ![s][t] = "idle"]
            /\ terminateFlag' = [terminateFlag EXCEPT ![s] = TRUE]
  /\ UNCHANGED <<kvsButAt, appButEvents, balance>>

\* DISCONNECTED: exchange connectedAnnounced; a session that was never
\* announced is only marked.
ExchangeAnnounced(s, t) ==
  /\ at[s][t] = "ended"
  /\ announced' = [announced EXCEPT ![s] = FALSE]
  /\ IF announced[s]
       THEN at' = [at EXCEPT ![s][t] = "owing"] /\ UNCHANGED terminateFlag
       ELSE /\ at' = [at EXCEPT ![s][t] = "idle"]
            /\ terminateFlag' = [terminateFlag EXCEPT ![s] = TRUE]
  /\ UNCHANGED <<kvsButAt, appButEvents, balance>>

\* The owed event is raised and the session marked.
RaiseDisconnected(s, t) ==
  /\ at[s][t] = "owing"
  /\ balance' = [balance EXCEPT ![s] = @ - 1]
  /\ terminateFlag' = [terminateFlag EXCEPT ![s] = TRUE]
  /\ at' = [at EXCEPT ![s][t] = "idle"]
  /\ UNCHANGED <<kvsButAt, appButEvents, announced>>

-----------------------------------------------------------------------------
(***************************************************************************)
(* freeAppWebRTCSession(): mark the session, then destroy it.              *)
(***************************************************************************)

\* The threads that are freeing a session, and which one.
Freeing ==
  [signal   |-> IF sig.pc \in {"replace", "failed"} THEN sig.sess ELSE None,
   cleanup  |-> reaping,
   teardown |-> IF tear = <<>> THEN None ELSE Head(tear)]

BeingFreed(s) == \E th \in DOMAIN Freeing : Freeing[th] = s

FreeBegin(s) ==
  /\ BeingFreed(s)
  /\ UncountSession(s)
  /\ terminateFlag' = [terminateFlag EXCEPT ![s] = TRUE]
  /\ UNCHANGED <<slots, count, hash, pending, expired, announced, balance, sig,
                 reaping, api, phase, tear>>

FreeRemove(s) == BeingFreed(s) /\ RemoveSession(s) /\ UNCHANGED appVars

FreeClose(s) == BeingFreed(s) /\ ClosePeerConnection(s) /\ UNCHANGED appVars

FreeEnd(s) == BeingFreed(s) /\ FreePeerConnection(s) /\ UNCHANGED appVars

-----------------------------------------------------------------------------
(***************************************************************************)
(* signalingMessageReceived(), case OFFER.                                 *)
(***************************************************************************)

appButSig == <<slots, count, hash, pending, expired, terminateFlag, announced,
               balance, reaping, api, phase, tear>>

\* A re-offer on a session that is not marked: the session handles it.
Renegotiate(p) ==
  /\ ObjUnlocked /\ Receiving
  /\ hash[p] # None /\ ~terminateFlag[hash[p]]
  /\ UNCHANGED vars

\* Mutant: the last session of the list is not moved into the gap.
UnlistLastKept(s) ==
  /\ count' = count - 1
  /\ UNCHANGED slots

\* The last session of the list takes the place of the one that goes.
UnlistBySwap(s) ==
  /\ count' = IF s \in Listed THEN count - 1 ELSE count
  /\ slots' = [i \in Slots |->
                 IF i < count /\ slots[i] = s THEN slots[count - 1]
                                              ELSE slots[i]]

\* An offer for a marked session: unregister it and start to free it.
ReplaceTerminated(p) ==
  /\ ObjUnlocked /\ Receiving
  /\ hash[p] # None /\ terminateFlag[hash[p]]
  /\ hash' = [hash EXCEPT ![p] = None]
  /\ UnlistBySwap(hash[p])
  /\ sig' = [pc |-> "replace", peer |-> p, sess |-> hash[p]]
  /\ UNCHANGED <<kvsVars, pending, expired, terminateFlag, announced, balance,
                 reaping, api, phase, tear>>

\* Mutant: the session limit is not checked.
NewSessionUnlimited(p) ==
  \E s \in Sessions :
     /\ CreateSession(s, p, FALSE)
     /\ sig' = [pc |-> "created", peer |-> p, sess |-> s]
     /\ UNCHANGED appButSig

\* With no session for the peer: the limit, then create_session(), which may
\* fail and then leaves nothing behind.
NewSession(p) ==
  \/ /\ count >= MaxStreams
     /\ pending' = pending \ {p} /\ expired' = expired \ {p}
     /\ sig' = SigIdle
     /\ UNCHANGED <<kvsVars, slots, count, hash, terminateFlag, announced,
                    balance, reaping, api, phase, tear>>
  \/ /\ count < MaxStreams
     /\ sig' = SigIdle
     /\ UNCHANGED <<kvsVars, appButSig>>
  \/ /\ count < MaxStreams
     /\ \E s \in Sessions :
           /\ CreateSession(s, p, FALSE)
           /\ sig' = [pc |-> "created", peer |-> p, sess |-> s]
     /\ UNCHANGED appButSig

FreshOffer(p) == ObjUnlocked /\ Receiving /\ hash[p] = None /\ NewSession(p)

OfferAfterReplace ==
  /\ sig.pc = "replace" /\ stage[sig.sess] = "freed"
  /\ NewSession(sig.peer)

\* send_message() with the offer; a session evicted in between refuses it.
SendOffer ==
  /\ sig.pc = "created"
  /\ \/ HandleOffer(sig.sess) /\ sig' = [sig EXCEPT !.pc = "sent"]
     \/ UNCHANGED kvsVars /\ sig' = [sig EXCEPT !.pc = "failed"]
  /\ UNCHANGED appButSig

\* The peer's early candidates are submitted, whose send_message() may fail,
\* and the queue is freed in any case.
SubmitFails ==
  /\ sig.pc = "sent" /\ sig.peer \in pending
  /\ pending' = pending \ {sig.peer} /\ expired' = expired \ {sig.peer}
  /\ sig' = [sig EXCEPT !.pc = "failed"]
  /\ UNCHANGED <<kvsVars, slots, count, hash, terminateFlag, announced,
                 balance, reaping, api, phase, tear>>

\* Registration in the table and at the end of the list.
Register(s, p) ==
  /\ hash' = [hash EXCEPT ![p] = s]
  /\ slots' = [slots EXCEPT ![count] = s]
  /\ count' = count + 1

\* Mutant: the early candidates stay queued.
PublishKeepingQueue ==
  /\ sig.pc = "sent"
  /\ UNCHANGED <<pending, expired>>
  /\ Register(sig.sess, sig.peer)
  /\ sig' = SigIdle
  /\ UNCHANGED <<kvsVars, terminateFlag, announced, balance, reaping, api,
                 phase, tear>>

\* Publish last.
Publish ==
  /\ sig.pc = "sent"
  /\ sig.peer \in pending => ~terminated[sig.sess]
  /\ pending' = pending \ {sig.peer} /\ expired' = expired \ {sig.peer}
  /\ Register(sig.sess, sig.peer)
  /\ sig' = SigIdle
  /\ UNCHANGED <<kvsVars, terminateFlag, announced, balance, reaping, api,
                 phase, tear>>

OfferFailed ==
  /\ sig.pc = "failed" /\ stage[sig.sess] = "freed"
  /\ sig' = SigIdle
  /\ UNCHANGED <<kvsVars, appButSig>>

-----------------------------------------------------------------------------
(***************************************************************************)
(* signalingMessageReceived(), cases ANSWER and ICE_CANDIDATE.             *)
(***************************************************************************)

\* The answer goes to whatever slot 0 holds, whoever sent it.  The session
\* refuses it, or takes it and the sender's early candidates.  What was freed
\* may read as a NULL handle, which is refused, or as the session its memory
\* was given to since.
Answer(p) ==
  /\ ObjUnlocked /\ Receiving
  /\ slots[0] # None
  /\ \/ UNCHANGED <<pending, expired>>
     \/ /\ stage[slots[0]] = "freed" \/ ~terminated[slots[0]]
        /\ pending' = pending \ {p} /\ expired' = expired \ {p}
  /\ UNCHANGED <<kvsVars, slots, count, hash, terminateFlag, announced, balance,
                 sig, reaping, api, phase, tear>>

\* A candidate of an unknown peer opens a queue, or joins the one that is there;
\* a known peer's candidate goes to its session.
IceCandidate(p) ==
  /\ ObjUnlocked /\ Receiving
  /\ hash[p] = None => p \in EarlyPeers
  /\ pending' = IF hash[p] = None THEN pending \cup {p} ELSE pending
  /\ UNCHANGED <<kvsVars, slots, count, hash, expired, terminateFlag, announced,
                 balance, sig, reaping, api, phase, tear>>

\* A queue gets older than SAMPLE_PENDING_MESSAGE_CLEANUP_DURATION.
Expire(p) ==
  /\ p \in pending
  /\ expired' = expired \cup {p}
  /\ UNCHANGED <<kvsVars, slots, count, hash, pending, terminateFlag, announced,
                 balance, sig, reaping, api, phase, tear>>

-----------------------------------------------------------------------------
(***************************************************************************)
(* sessionCleanupWait(), its part for the sessions.                        *)
(***************************************************************************)

\* Mutant: the last slot is never looked at.
MarkedOffByOne == {i \in 0..(count - 2) : terminateFlag[slots[i]]}

Marked == {i \in 0..(count - 1) : terminateFlag[slots[i]]}

\* removeExpiredMessageQueues() at the end of a pass.
RemoveExpired == pending' = pending \ expired /\ expired' = {}

\* Mutant: a gap is left where the session was.
ShiftOutUnshifted(i) ==
  /\ slots' = [slots EXCEPT ![i] = IF count > 1 THEN slots[count - 1] ELSE None]
  /\ count' = count

\* The sessions behind slot i move down; the last slot keeps its pointer.
ShiftOut(i) ==
  /\ slots' = [j \in Slots |-> IF i <= j /\ j < count - 1 THEN slots[j + 1]
                                                          ELSE slots[j]]
  /\ count' = count - 1

\* Mutant: the pointer is read from the slot after the shift.
ReapAfterShift(i) ==
  /\ hash' = [hash EXCEPT ![peerOf[slots[i]]] = None]
  /\ ShiftOut(i)
  /\ reaping' = slots'[i]

\* Mutant: the table keeps its entry.
ReapKeepingEntry(i) ==
  /\ UNCHANGED hash
  /\ ShiftOut(i)
  /\ reaping' = slots[i]

\* The session in slot i is unregistered; the loop frees it next.
Reap(i) ==
  /\ hash' = [hash EXCEPT ![peerOf[slots[i]]] = None]
  /\ ShiftOut(i)
  /\ reaping' = slots[i]

\* One pass takes the first marked session.  The loop gives up when the table
\* does not know the session's peer.
CleanupTakes ==
  /\ phase = "run" /\ ObjUnlocked
  /\ \E i \in Marked :
        /\ \A j \in Marked : i <= j
        /\ IF hash[peerOf[slots[i]]] = None
             THEN phase' = "left" /\ UNCHANGED <<hash, slots, count, reaping>>
             ELSE Reap(i) /\ UNCHANGED phase
  /\ UNCHANGED <<kvsVars, pending, expired, terminateFlag, announced, balance,
                 sig, api, tear>>

CleanupDone ==
  /\ reaping # None /\ stage[reaping] = "freed"
  /\ RemoveExpired
  /\ reaping' = None
  /\ UNCHANGED <<kvsVars, slots, count, hash, terminateFlag, announced, balance,
                 sig, api, phase, tear>>

\* A pass with no marked session.
CleanupIdle ==
  /\ phase = "run" /\ ObjUnlocked /\ Marked = {}
  /\ RemoveExpired
  /\ UNCHANGED <<kvsVars, slots, count, hash, terminateFlag, announced, balance,
                 sig, reaping, api, phase, tear>>

\* appTerminateFlag is seen at the end of a pass.
CleanupLeaves ==
  /\ phase = "run" /\ reaping = None
  /\ phase' = "left"
  /\ UNCHANGED <<kvsVars, slots, count, hash, pending, expired, terminateFlag,
                 announced, balance, sig, reaping, api, tear>>

-----------------------------------------------------------------------------
(***************************************************************************)
(* The application's calls, and freeAllAppWebRTCSessions().                *)
(***************************************************************************)

\* app_webrtc_close_all_sessions() under streamingSessionListReadLock.
CloseAllSessions ==
  /\ phase # "down"
  /\ \E s \in Listed : ~terminateFlag[s]
  /\ terminateFlag' = [s \in Sessions |-> terminateFlag[s] \/ s \in Listed]
  /\ UNCHANGED <<kvsVars, slots, count, hash, pending, expired, announced,
                 balance, sig, reaping, api, phase, tear>>

appButRegistry == <<pending, expired, terminateFlag, announced, balance, sig,
                    reaping, phase, tear>>

\* app_webrtc_trigger_offer() under the lock: the registered session, or a new
\* one, listed first and then entered in the table.
TriggerOffer(p) ==
  /\ ObjUnlocked /\ api = None
  /\ phase = "run"
  /\ \/ /\ hash[p] # None
        /\ api' = hash[p]
        /\ UNCHANGED <<kvsVars, slots, count, hash>>
     \/ /\ hash[p] = None /\ count < MaxStreams
        /\ \E s \in Sessions :
              CreateSession(s, p, TRUE) /\ Register(s, p) /\ api' = s
  /\ UNCHANGED appButRegistry

\* ... and its use of the session after it released the lock.
TriggerOfferReturns ==
  /\ api # None
  /\ api' = None
  /\ UNCHANGED <<kvsVars, slots, count, hash, appButRegistry>>

\* The table is emptied under the object lock, ...
TeardownClears ==
  /\ phase = "left" /\ ObjUnlocked /\ api = None
  /\ hash' = [p \in Peers |-> None]
  /\ phase' = "cleared"
  /\ UNCHANGED <<kvsVars, slots, count, pending, expired, terminateFlag,
                 announced, balance, sig, reaping, api, tear>>

\* ... the list under the list lock, ...
TeardownDetaches ==
  /\ phase = "cleared"
  /\ tear' = [i \in 1..count |-> slots[i - 1]]
  /\ slots' = [i \in Slots |-> IF i < count THEN None ELSE slots[i]]
  /\ count' = 0
  /\ phase' = "detached"
  /\ UNCHANGED <<kvsVars, hash, pending, expired, terminateFlag, announced,
                 balance, sig, reaping, api>>

\* ... and the sessions are freed one after the other.
TeardownNext ==
  /\ tear # <<>> /\ stage[Head(tear)] = "freed"
  /\ tear' = Tail(tear)
  /\ UNCHANGED <<kvsVars, slots, count, hash, pending, expired, terminateFlag,
                 announced, balance, sig, reaping, api, phase>>

TeardownEnds ==
  /\ phase = "detached" /\ tear = <<>>
  /\ phase' = "down"
  /\ UNCHANGED <<kvsVars, slots, count, hash, pending, expired, terminateFlag,
                 announced, balance, sig, reaping, api, tear>>

\* Nothing is left to do.
Down == phase = "down" /\ UNCHANGED vars

-----------------------------------------------------------------------------
StateCallback(s, t) ==
  \/ AnnounceConnected(s, t)
  \/ RaiseConnected(s, t)
  \/ ExchangeAnnounced(s, t)
  \/ RaiseDisconnected(s, t)

FreeStep(s) ==
  FreeBegin(s) \/ FreeRemove(s) \/ FreeClose(s) \/ FreeEnd(s)

SdkStep(s) == (SdkConnected(s) \/ SdkEnded(s)) /\ UNCHANGED appVars

WatchdogStep(s) == (WatchdogDecides(s) \/ WatchdogEvicts(s)) /\ UNCHANGED appVars

OfferStep ==
  OfferAfterReplace \/ SendOffer \/ SubmitFails \/ Publish \/ OfferFailed

Message(p) ==
  \/ Renegotiate(p) \/ ReplaceTerminated(p) \/ FreshOffer(p)
  \/ Answer(p) \/ IceCandidate(p)

CleanupStep == CleanupTakes \/ CleanupDone \/ CleanupIdle

TeardownStep ==
  TeardownClears \/ TeardownDetaches \/ TeardownNext \/ TeardownEnds

Next ==
  \/ \E s \in Sessions, t \in Threads : StateCallback(s, t)
  \/ \E s \in Sessions : FreeStep(s) \/ SdkStep(s) \/ WatchdogStep(s)
  \/ \E p \in Peers : Message(p) \/ Expire(p) \/ TriggerOffer(p)
  \/ OfferStep \/ CleanupStep \/ CleanupLeaves
  \/ CloseAllSessions \/ TriggerOfferReturns
  \/ TeardownStep \/ Down

Spec == Init /\ [][Next]_vars

\* Every thread that is in the middle of something goes on.  The object lock
\* hands over in the order of the waiters, so a pass of the cleanup loop and
\* the teardown get it in the end although messages keep coming.
Fairness ==
  /\ \A s \in Sessions : \A t \in Threads : WF_vars(StateCallback(s, t))
  /\ \A s \in Sessions : WF_vars(WatchdogEvicts(s) /\ UNCHANGED appVars)
  /\ \A s \in Sessions : SF_vars(FreeStep(s))
  /\ WF_vars(OfferStep)
  /\ SF_vars(CleanupTakes) /\ WF_vars(CleanupDone)
  /\ SF_vars(TeardownStep) /\ WF_vars(TriggerOfferReturns)

FairSpec == Spec /\ Fairness

-----------------------------------------------------------------------------
(***************************************************************************)
(* Properties.                                                             *)
(***************************************************************************)

\* While the loop or the signaling thread can run, the list and the table
\* register the same sessions: every listed session is entered under its own
\* peer and none of them is being freed, and every entry is listed once.  So
\* the hashTableRemove() of the cleanup loop, whose failure would end the loop
\* and the application with it, always finds its key.
RegistryAgrees ==
  phase \in {"run", "left"} =>
    /\ \A i \in 0..(count - 1) :
         /\ slots[i] \in Sessions /\ stage[slots[i]] = "open"
         /\ hash[peerOf[slots[i]]] = slots[i]
         /\ \A j \in 0..(count - 1) : slots[i] = slots[j] => i = j
    /\ \A p \in Peers : hash[p] # None => hash[p] \in Listed /\ peerOf[hash[p]] = p

\* freeAppWebRTCSession() runs at most once for a session: no two threads free
\* the same one, and a session being freed is no longer in the list or in the
\* table, where another thread would find it.
OneReaper ==
  /\ \A th1, th2 \in DOMAIN Freeing :
        th1 # th2 /\ Freeing[th1] # None => Freeing[th1] # Freeing[th2]
  /\ \A s \in Sessions : BeingFreed(s) =>
        s \notin Listed /\ \A p \in Peers : hash[p] # s

\* onConnectionStateChangeHandler() and the application's callback never run on
\* a freed session: kvs_pc_destroy_session() takes statsLock, which the watchdog
\* holds while it evicts, and freePeerConnection() waits for the SDK.
NoCallbackAfterFree ==
  \A s \in Sessions : stage[s] = "freed" => \A t \in Threads : at[s][t] = "idle"

\* client->session_count is the number of active sessions less the one being
\* taken out, and the global media threads never run with no session to feed.
MediaFollowsSessions ==
  /\ sessionCount + Cardinality({s \in Sessions : stage[s] = "counted"})
       = Cardinality({p \in Peers : active[p] # None})
  /\ mediaStarted => sessionCount > 0

\* Once no callback of the session runs, the application counts it as connected
\* exactly when connectedAnnounced says so, whichever order the SDK and the
\* watchdog ran peerConnectionStateChangedWrapper() in.
EventsMatchFlag ==
  \A s \in Sessions : (\A t \in Threads : at[s][t] = "idle") =>
    balance[s] = IF announced[s] THEN 1 ELSE 0

\* Candidates that came before the offer do not stay behind: a peer whose
\* session answers its offer has no queue in
\* pPendingSignalingMessageForRemoteClient.
NoCandidateLeftBehind ==
  \A p \in Peers : hash[p] # None /\ ~initiator[hash[p]] => p \notin pending

\* The end of one session never takes another one down: the cleanup loop only
\* destroys a session that was marked, and the signaling thread only the
\* terminated session it replaces or the one whose offer failed.
LiveViewerKept ==
  [][\A s \in Sessions : stage[s] = "open" /\ stage'[s] # "open" =>
       \/ terminateFlag[s]
       \/ sig.pc = "failed" /\ sig.sess = s
       \/ phase = "detached"]_vars

\* A viewer slot is given back: a listed session that is marked is freed in the
\* end, by the cleanup loop, by a new offer of its peer or by the teardown.
SlotReclaimed ==
  \A s \in Sessions : (terminateFlag[s] /\ s \in Listed) ~> stage[s] = "freed"

\* The session an ANSWER is given to exists ("For viewer, session should already
\* exist"): when a message can be handled, slot 0 is empty or holds a session
\* that was not freed.
AnswerUsesLiveSession ==
  ObjUnlocked /\ Receiving /\ slots[0] # None => stage[slots[0]] # "freed"

\* No session is half registered or freed twice (RegistryAgrees and OneReaper).
RegistrySound == RegistryAgrees /\ OneReaper

\* Callbacks of the SDK and the watchdog run on live sessions only, and leave the
\* application with the right count of connected ones.
CallbacksSound == NoCallbackAfterFree /\ EventsMatchFlag

\* Session identifiers are interchangeable, and so are peers; for runs without a
\* liveness property.
Symmetry == Permutations(Sessions) \cup Permutations(Peers)
=============================================================================
