------------------------------ MODULE KvsPeer ------------------------------
(***************************************************************************)
(* components/kvs_webrtc/src/kvs_webrtc.c: the sessions of one KVS peer    *)
(* connection client, the table of active sessions, the count that starts  *)
(* and stops the global media threads, and the threads that run            *)
(* onConnectionStateChangeHandler() for a session:                         *)
(*                                                                         *)
(*   "sdk"       the SDK's own threads, one callback at a time;            *)
(*   "watchdog"  the stats timer, which runs the handler with DISCONNECTED *)
(*               for a session kvs_liveness_should_evict() calls dead,     *)
(*               while it holds statsLock;                                 *)
(*   "closer"    whoever runs kvs_pc_destroy_session(), because            *)
(*               closePeerConnection() reports CLOSED.                     *)
(*                                                                         *)
(* The handler ends in the application's callback, so its steps continue   *)
(* in AppSession, which extends this module.  Session identifiers are used *)
(* once: a pointer to a freed session never looks valid again.             *)
(***************************************************************************)
EXTENDS Integers, FiniteSets

CONSTANTS Peers,     \* remote peer identifiers
          Sessions,  \* session objects the run can allocate
          None       \* NULL, and "no entry" in a table

ASSUME NoneAssumption == None \notin Peers \cup Sessions

VARIABLES stage,          \* life of a session object
          peerOf,         \* session->peer_id
          initiator,      \* session->is_initiator
          terminated,     \* session->terminated
          disconnectDone, \* session->wd_disconnect_done
          active,         \* client->activeSessions, keyed by peer
          sessionCount,   \* client->session_count
          mediaStarted,   \* client->global_media_started
          sdk,            \* the SDK's connection state
          at              \* where each thread is in the state handler

kvsVars == <<stage, peerOf, initiator, terminated, disconnectDone, active,
             sessionCount, mediaStarted, sdk, at>>

Threads == {"sdk", "watchdog", "closer"}

\* "open": created; "counted": kvs_pc_destroy_session() took it out of the
\* count; "released": and out of the table; "closed": closePeerConnection() was
\* called.
Stages == {"unused", "open", "counted", "released", "closed", "freed"}

\* "none": no description set, so no connection attempt yet.
SdkStates == {"none", "new", "connected", "ended", "closed"}

\* "decided": the watchdog called the session dead and is about to run the
\* handler; "connected"/"ended": the handler is about to run the application's
\* callback; "announced"/"owing": inside that callback, before it raises
\* PEER_CONNECTED / PEER_DISCONNECTED.
Places == {"idle", "decided", "connected", "announced", "ended", "owing"}

KvsTypeOK ==
  /\ stage \in [Sessions -> Stages]
  /\ peerOf \in [Sessions -> Peers \cup {None}]
  /\ initiator \in [Sessions -> BOOLEAN]
  /\ terminated \in [Sessions -> BOOLEAN]
  /\ disconnectDone \in [Sessions -> BOOLEAN]
  /\ active \in [Peers -> Sessions \cup {None}]
  /\ sessionCount \in Nat
  /\ mediaStarted \in BOOLEAN
  /\ sdk \in [Sessions -> SdkStates]
  /\ at \in [Sessions -> [Threads -> Places]]

KvsInit ==
  /\ stage = [s \in Sessions |-> "unused"]
  /\ peerOf = [s \in Sessions |-> None]
  /\ initiator = [s \in Sessions |-> FALSE]
  /\ terminated = [s \in Sessions |-> FALSE]
  /\ disconnectDone = [s \in Sessions |-> FALSE]
  /\ active = [p \in Peers |-> None]
  /\ sessionCount = 0
  /\ mediaStarted = FALSE
  /\ sdk = [s \in Sessions |-> "none"]
  /\ at = [s \in Sessions |-> [t \in Threads |-> "idle"]]

\* Nobody iterates the table under statsLock.
StatsUnlocked == \A s \in Sessions : at[s]["watchdog"] = "idle"

-----------------------------------------------------------------------------
\* kvs_pc_create_session(), and the callbacks set on the new session.  The
\* table refuses a peer that is already in it and the code only warns; the
\* media threads are started for the first session and may fail to start.
\* An initiator's offer goes out when its callbacks are set.
CreateSession(s, p, isInitiator) ==
  /\ StatsUnlocked
  /\ stage[s] = "unused"
  /\ stage' = [stage EXCEPT ![s] = "open"]
  /\ peerOf' = [peerOf EXCEPT ![s] = p]
  /\ initiator' = [initiator EXCEPT ![s] = isInitiator]
  /\ sdk' = [sdk EXCEPT ![s] = IF isInitiator THEN "new" ELSE "none"]
  /\ active' = [active EXCEPT ![p] = IF @ = None THEN s ELSE @]
  /\ sessionCount' = sessionCount + 1
  /\ IF sessionCount = 0 /\ ~mediaStarted
       THEN mediaStarted' \in BOOLEAN
       ELSE UNCHANGED mediaStarted
  /\ UNCHANGED <<terminated, disconnectDone, at>>

\* kvs_pc_send_message() with an offer: refused once the session is terminated;
\* setting the descriptions starts the connection attempt.
HandleOffer(s) ==
  /\ ~terminated[s] /\ ~initiator[s]
  /\ sdk' = [sdk EXCEPT ![s] = IF @ = "none" THEN "new" ELSE @]
  /\ UNCHANGED <<stage, peerOf, initiator, terminated, disconnectDone, active,
                 sessionCount, mediaStarted, at>>

\* Mutant: the count is left alone when a session goes.
UncountSessionNever(s) ==
  /\ StatsUnlocked
  /\ stage[s] = "open"
  /\ stage' = [stage EXCEPT ![s] = "counted"]
  /\ UNCHANGED <<peerOf, initiator, terminated, disconnectDone, active,
                 sessionCount, mediaStarted, sdk, at>>

\* kvs_pc_destroy_session() up to the removal: looked up under statsLock, a
\* session whose peer is not in the table is not counted out.  The last one
\* stops the global media threads.
UncountSession(s) ==
  /\ StatsUnlocked
  /\ stage[s] = "open"
  /\ IF active[peerOf[s]] = None
       THEN /\ stage' = [stage EXCEPT ![s] = "released"]
            /\ terminated' = [terminated EXCEPT ![s] = TRUE]
            /\ UNCHANGED <<sessionCount, mediaStarted>>
       ELSE /\ stage' = [stage EXCEPT ![s] = "counted"]
            /\ sessionCount' = IF sessionCount > 0 THEN sessionCount - 1 ELSE 0
            /\ mediaStarted' = (mediaStarted /\ sessionCount > 1)
            /\ UNCHANGED terminated
  /\ UNCHANGED <<peerOf, initiator, disconnectDone, active, sdk, at>>

\* Mutant: statsLock is not taken.
RemoveSessionUnlocked(s) ==
  /\ stage[s] = "counted"
  /\ stage' = [stage EXCEPT ![s] = "released"]
  /\ terminated' = [terminated EXCEPT ![s] = TRUE]
  /\ active' = [active EXCEPT ![peerOf[s]] = None]
  /\ UNCHANGED <<peerOf, initiator, disconnectDone, sessionCount, mediaStarted,
                 sdk, at>>

\* The session is marked and removed under statsLock, which is taken again: the
\* removal waits for an eviction that began since.
RemoveSession(s) ==
  /\ StatsUnlocked
  /\ stage[s] = "counted"
  /\ stage' = [stage EXCEPT ![s] = "released"]
  /\ terminated' = [terminated EXCEPT ![s] = TRUE]
  /\ active' = [active EXCEPT ![peerOf[s]] = None]
  /\ UNCHANGED <<peerOf, initiator, disconnectDone, sessionCount, mediaStarted,
                 sdk, at>>

\* onConnectionStateChangeHandler(DISCONNECTED, FAILED or CLOSED) on thread t:
\* the teardown runs once, whoever comes first.
HandleEnded(s, t) ==
  /\ at' = [at EXCEPT ![s][t] = IF disconnectDone[s] THEN "idle" ELSE "ended"]
  /\ disconnectDone' = [disconnectDone EXCEPT ![s] = TRUE]
  /\ terminated' = [terminated EXCEPT ![s] = @ \/ ~disconnectDone[s]]

\* closePeerConnection() in kvs_pc_destroy_session() reports CLOSED.
ClosePeerConnection(s) ==
  /\ stage[s] = "released"
  /\ stage' = [stage EXCEPT ![s] = "closed"]
  /\ sdk' = [sdk EXCEPT ![s] = "closed"]
  /\ HandleEnded(s, "closer")
  /\ UNCHANGED <<peerOf, initiator, active, sessionCount, mediaStarted>>

\* freePeerConnection() stops the SDK's threads, so it waits for a callback
\* that is running; then the session object is freed.
FreePeerConnection(s) ==
  /\ stage[s] = "closed"
  /\ at[s]["closer"] = "idle" /\ at[s]["sdk"] = "idle"
  /\ stage' = [stage EXCEPT ![s] = "freed"]
  /\ UNCHANGED <<peerOf, initiator, terminated, disconnectDone, active,
                 sessionCount, mediaStarted, sdk, at>>

-----------------------------------------------------------------------------
\* The SDK reports CONNECTED.
SdkConnected(s) ==
  /\ stage[s] \in {"open", "counted", "released"}
  /\ sdk[s] = "new" /\ at[s]["sdk"] = "idle"
  /\ sdk' = [sdk EXCEPT ![s] = "connected"]
  /\ at' = [at EXCEPT ![s]["sdk"] = "connected"]
  /\ UNCHANGED <<stage, peerOf, initiator, terminated, disconnectDone, active,
                 sessionCount, mediaStarted>>

\* The SDK reports DISCONNECTED or FAILED.
SdkEnded(s) ==
  /\ stage[s] \in {"open", "counted", "released"}
  /\ sdk[s] \in {"new", "connected"} /\ at[s]["sdk"] = "idle"
  /\ sdk' = [sdk EXCEPT ![s] = "ended"]
  /\ HandleEnded(s, "sdk")
  /\ UNCHANGED <<stage, peerOf, initiator, active, sessionCount, mediaStarted>>

\* kvs_metricsCollectionCallback(): a session of the table that is not
\* terminated is called dead.  The deadlines are abstracted: any such session
\* may have missed one.
WatchdogDecides(s) ==
  /\ StatsUnlocked
  /\ \E p \in Peers : active[p] = s
  /\ ~terminated[s]
  /\ at' = [at EXCEPT ![s]["watchdog"] = "decided"]
  /\ UNCHANGED <<stage, peerOf, initiator, terminated, disconnectDone, active,
                 sessionCount, mediaStarted, sdk>>

WatchdogEvicts(s) ==
  /\ at[s]["watchdog"] = "decided"
  /\ HandleEnded(s, "watchdog")
  /\ UNCHANGED <<stage, peerOf, initiator, active, sessionCount, mediaStarted,
                 sdk>>

=============================================================================
