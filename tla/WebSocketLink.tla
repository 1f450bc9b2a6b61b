--------------------------- MODULE WebSocketLink ----------------------------
(***************************************************************************)
(* The signaling websocket of                                              *)
(* components/signaling/kvs_signaling/port/LwsApiCalls_esp.c: the task     *)
(* that connects it, the task of esp_websocket_client that calls the event *)
(* handler, the work queue on which received messages are handled, and the *)
(* task that aborts and frees the client (kvs_signaling.c,                 *)
(* Signaling_esp.c).                                                       *)
(*                                                                         *)
(* wsClientLock is recursive and the connecting task keeps it over the     *)
(* whole wait for the connection, so the handler's locked parts happen     *)
(* before or after that wait. As app_webrtc does, the client is freed only *)
(* after an abort and after the connecting call has returned.              *)
(***************************************************************************)
EXTENDS Naturals, Sequences

CONSTANTS MaxDials,   \* bound: websockets opened
          MaxDowns,   \* bound: times the station loses its address
          Messages,   \* number of messages the service sends, in two chunks each
          KindsOf     \* the kinds each of them may have

ASSUME WsBounds == MaxDials \in Nat \ {0} /\ MaxDowns \in Nat /\ Messages \in Nat
ASSUME WsKinds == KindsOf \in [1..Messages -> SUBSET {"OFFER", "ICE", "RECONNECT_ICE", "STATUS"}]

VARIABLES handle,     \* wsClient: NULL (0) or the number of the websocket
          sock,       \* that websocket: none, dialing, open, over
          event,      \* the event its task handles, or the step it is at
          lockHolder, \* wsClientLock, when held over several steps
          linkUp,     \* pSignalingClient->connected
          wrapUp,     \* wrapper->isConnected
          callResult, \* pSignalingClient->result
          shutdown, aborting,
          dialer,     \* where the connecting task is
          dials,      \* websockets opened so far
          netReady, netWake, outage, downs, \* the network event group, s_outageWaitEndMs
          owed,       \* an established link was lost and nobody was told
          chunks,     \* gWebSocketDataBuffer
          received,   \* chunks the service has sent
          wsJobs,     \* messages queued on the work queue
          wsJob,      \* the one being handled
          delivered,  \* messages given to the application
          sender,     \* where a send is
          killer      \* where the task is that aborts and frees the client

\* The network's bits and the sender, which most steps leave alone.
netVars  == <<netReady, netWake, outage, downs, sender>>
dataVars == <<chunks, received, wsJobs, wsJob, delivered>>
linkVars == <<handle, sock, event, lockHolder, linkUp, wrapUp, callResult>>
wsVars == <<linkVars, shutdown, aborting, dialer, dials, netVars, owed, dataVars, killer>>

WsTypeOK ==
  /\ handle \in 0..MaxDials /\ sock \in {"none", "dialing", "open", "over"}
  /\ event \in {"none", "CONNECTED", "ERROR", "DISCONNECTED", "CLOSED", "lost", "tail"}
  /\ lockHolder \in {"none", "dialer"}
  /\ linkUp \in BOOLEAN /\ wrapUp \in BOOLEAN
  /\ callResult \in {"NOT_SET", "OK", "NETWORK_TIMEOUT", "UNKNOWN", "GO_AWAY", "RECONNECT_ICE"}
  /\ shutdown \in BOOLEAN /\ aborting \in BOOLEAN
  /\ dialer \in {"idle", "net", "clear", "recheck", "netwait", "drop", "stop", "start", "loop", "failed",
                 "redrop", "restop"}
  /\ dials \in 0..MaxDials
  /\ netReady \in BOOLEAN /\ netWake \in BOOLEAN
  /\ outage \in {"unset", "running", "spent"} /\ downs \in 0..MaxDowns
  /\ owed \in BOOLEAN
  /\ chunks \in Seq(1..(2 * Messages)) /\ received \in 0..(2 * Messages)
  /\ wsJobs \in Seq(Seq(1..(2 * Messages))) /\ wsJob \in {0} \cup 1..Messages
  /\ delivered \in Seq(1..Messages)
  /\ sender \in {"idle", "mark", "write"}
  /\ killer \in {"idle", "flag", "wake", "join", "free", "stop", "drain", "freed", "leaked"}

WsInit ==
  /\ handle = 0 /\ sock = "none" /\ event = "none" /\ lockHolder = "none"
  /\ linkUp = FALSE /\ wrapUp = FALSE /\ callResult = "NOT_SET"
  /\ shutdown = FALSE /\ aborting = FALSE
  /\ dialer = "idle" /\ dials = 0
  /\ netReady = TRUE /\ netWake = FALSE /\ outage = "unset" /\ downs = 0
  /\ owed = FALSE
  /\ chunks = <<>> /\ received = 0 /\ wsJobs = <<>> /\ wsJob = 0 /\ delivered = <<>>
  /\ sender = "idle" /\ killer = "idle"

-----------------------------------------------------------------------------
(***************************************************************************)
(* terminateEspSignalingClient(): the handle is taken under the lock, then *)
(* the websocket is stopped, which waits for its task, and destroyed.      *)
(***************************************************************************)

TakeHandle ==
  /\ lockHolder = "none"
  /\ handle' = 0 /\ linkUp' = FALSE /\ wrapUp' = FALSE /\ owed' = FALSE

StopSocket ==
  /\ event = "none"
  /\ sock' = "none"

-----------------------------------------------------------------------------
(***************************************************************************)
(* waitForNetwork(), which precedes every call to the service.             *)
(***************************************************************************)

\* connectKvsSignalingClient() down to waitForNetwork(); a live link is left alone.
DialCall ==
  /\ dialer = "idle" /\ ~aborting /\ ~shutdown /\ ~linkUp
  /\ dials < MaxDials
  /\ dialer' = "net" /\ callResult' = "NOT_SET"
  /\ chunks' = <<>>
  /\ UNCHANGED <<handle, sock, event, lockHolder, linkUp, wrapUp, shutdown, aborting, dials,
                 netVars, owed, received, wsJobs, wsJob, delivered, killer>>

\* The wait is started, shared by all calls of the outage, unless it is spent.
NetCheck ==
  /\ dialer = "net"
  /\ dialer' = IF shutdown THEN "idle"
               ELSE IF netReady \/ outage = "spent" THEN "drop" ELSE "clear"
  /\ outage' = IF dialer' = "clear" THEN "running" ELSE outage
  /\ UNCHANGED <<linkVars, shutdown, aborting, dials, netReady, netWake, downs, sender, owed, dataVars, killer>>

NetClears ==
  /\ dialer = "clear" /\ dialer' = "recheck" /\ netWake' = FALSE
  /\ UNCHANGED <<linkVars, shutdown, aborting, dials, netReady, outage, downs, sender, owed, dataVars, killer>>

NetRecheckSkipped ==
  /\ dialer = "recheck" /\ dialer' = "netwait"
  /\ UNCHANGED <<linkVars, shutdown, aborting, dials, netVars, owed, dataVars, killer>>

\* Clear, then re-check: an abort before the clear has already set shutdown.
NetRecheck ==
  /\ dialer = "recheck"
  /\ dialer' = IF shutdown THEN "idle" ELSE "netwait"
  /\ UNCHANGED <<linkVars, shutdown, aborting, dials, netVars, owed, dataVars, killer>>

\* The bits end the wait.
NetWakes ==
  /\ dialer = "netwait" /\ (netReady \/ netWake)
  /\ dialer' = IF shutdown THEN "idle" ELSE "drop"
  /\ UNCHANGED <<linkVars, shutdown, aborting, dials, netVars, owed, dataVars, killer>>

\* The outage's wait ends: the call is tried.
NetTimesOut ==
  /\ dialer = "netwait" /\ ~netReady /\ ~netWake
  /\ outage' = "spent"
  /\ dialer' = IF shutdown THEN "idle" ELSE "drop"
  /\ UNCHANGED <<linkVars, shutdown, aborting, dials, netReady, netWake, downs, sender, owed, dataVars, killer>>

\* onNetworkEvent(), noteNetworkError(): the station lost its address.
NetDown ==
  /\ netReady /\ downs < MaxDowns
  /\ netReady' = FALSE /\ outage' = "unset" /\ downs' = downs + 1
  /\ UNCHANGED <<linkVars, shutdown, aborting, dialer, dials, netWake, sender, owed, dataVars, killer>>

NetUp ==
  /\ ~netReady /\ netReady' = TRUE
  /\ UNCHANGED <<linkVars, shutdown, aborting, dialer, dials, netWake, outage, downs, sender, owed, dataVars, killer>>

-----------------------------------------------------------------------------
(***************************************************************************)
(* connectEspSignalingClient().                                            *)
(***************************************************************************)

DialDrops ==
  /\ dialer = "drop" /\ TakeHandle
  /\ dialer' = IF handle = 0 THEN "start" ELSE "stop"
  /\ UNCHANGED <<sock, event, lockHolder, callResult, shutdown, aborting, dials, netVars, dataVars, killer>>

DialStops ==
  /\ dialer = "stop" /\ StopSocket /\ dialer' = "start"
  /\ UNCHANGED <<handle, event, lockHolder, linkUp, wrapUp, callResult, shutdown, aborting, dials,
                 netVars, owed, dataVars, killer>>

\* A new websocket is made and started under the lock, which stays held.
DialStarts ==
  /\ dialer = "start" /\ lockHolder = "none"
  /\ linkUp' = FALSE /\ wrapUp' = FALSE /\ callResult' = "NOT_SET"
  /\ dials' = dials + 1
  /\ \/ /\ handle' = dials + 1 /\ sock' = "dialing"
        /\ lockHolder' = "dialer" /\ dialer' = "loop"
     \/ /\ dialer' = "failed"
        /\ UNCHANGED <<handle, sock, lockHolder>>
  /\ UNCHANGED <<event, shutdown, aborting, netVars, owed, dataVars, killer>>

\* The loop polls the websocket itself: its event waits for the lock.
DialConnected ==
  /\ dialer = "loop" /\ (linkUp \/ sock = "open")
  /\ linkUp' = TRUE
  /\ callResult' = IF ~linkUp /\ callResult = "NOT_SET" THEN "OK" ELSE callResult
  /\ lockHolder' = "none" /\ dialer' = "idle"
  /\ UNCHANGED <<handle, sock, event, wrapUp, shutdown, aborting, dials, netVars, owed, dataVars, killer>>

DialFails ==
  /\ dialer = "loop" /\ ~linkUp /\ sock # "open"
  /\ shutdown \/ callResult \notin {"NOT_SET", "OK"}
  /\ lockHolder' = "none" /\ dialer' = "failed"
  /\ UNCHANGED <<handle, sock, event, linkUp, wrapUp, callResult, shutdown, aborting, dials,
                 netVars, owed, dataVars, killer>>

DialTimesOut ==
  /\ dialer = "loop" /\ ~linkUp /\ sock # "open"
  /\ ~shutdown /\ callResult \in {"NOT_SET", "OK"}
  /\ callResult' = "NETWORK_TIMEOUT"
  /\ lockHolder' = "none" /\ dialer' = "failed"
  /\ UNCHANGED <<handle, sock, event, linkUp, wrapUp, shutdown, aborting, dials, netVars, owed, dataVars, killer>>

\* A failed connect terminates what it started, and so does signalingConnectSync().
DialCleansUp ==
  /\ dialer = "failed" /\ TakeHandle
  /\ dialer' = IF handle = 0 THEN "idle" ELSE "restop"
  /\ UNCHANGED <<sock, event, lockHolder, callResult, shutdown, aborting, dials, netVars, dataVars, killer>>

\* signalingConnectSync() resets the result; the OK of a disconnect stays.
DialCleanedUp ==
  /\ dialer = "restop" /\ StopSocket
  /\ callResult' = IF shutdown \/ callResult = "OK" THEN callResult ELSE "NOT_SET"
  /\ dialer' = "idle"
  /\ UNCHANGED <<handle, event, lockHolder, linkUp, wrapUp, shutdown, aborting, dials, netVars, owed,
                 dataVars, killer>>

\* signalingDisconnectSync(): a no-op without a link or once shutting down.
Disconnects ==
  /\ dialer = "idle" /\ linkUp /\ ~shutdown /\ killer = "idle"
  /\ TakeHandle
  /\ callResult' = "OK" /\ dialer' = "restop"
  /\ UNCHANGED <<sock, event, lockHolder, shutdown, aborting, dials, netVars, dataVars, killer>>

-----------------------------------------------------------------------------
(***************************************************************************)
(* The websocket's own task.  The websocket is external: it opens, fails   *)
(* or is lost, and reports that by events, an error before the             *)
(* disconnect.  It does not reconnect by itself.                           *)
(***************************************************************************)

SocketOpens ==
  /\ sock = "dialing" /\ event = "none" /\ netReady
  /\ sock' = "open" /\ event' = "CONNECTED"
  /\ UNCHANGED <<handle, lockHolder, linkUp, wrapUp, callResult, shutdown, aborting, dialer, dials,
                 netVars, owed, dataVars, killer>>

SocketFails ==
  /\ sock \in {"dialing", "open"} /\ event = "none"
  /\ sock' = "over" /\ event' \in {"ERROR", "DISCONNECTED"}
  /\ sock = "dialing" => event' = "ERROR"
  /\ owed' = (sock = "open" /\ handle # 0)
  /\ UNCHANGED <<handle, lockHolder, linkUp, wrapUp, callResult, shutdown, aborting, dialer, dials,
                 netVars, dataVars, killer>>

\* A close frame that says the service is going away.
OnGoAway ==
  /\ sock = "open" /\ event = "none"
  /\ callResult' = "GO_AWAY"
  /\ sock' = "over" /\ event' \in {"DISCONNECTED", "CLOSED"}
  /\ owed' = (handle # 0)
  /\ UNCHANGED <<handle, lockHolder, linkUp, wrapUp, shutdown, aborting, dialer, dials, netVars, dataVars, killer>>

OnConnectedUnguarded ==
  /\ event = "CONNECTED" /\ lockHolder = "none"
  /\ event' = "none"
  /\ linkUp' = TRUE /\ wrapUp' = TRUE /\ callResult' = "OK"
  /\ UNCHANGED <<handle, sock, lockHolder, shutdown, aborting, dialer, dials, netVars, owed, dataVars, killer>>

\* Ignored once terminateEspSignalingClient() has taken the handle.
OnConnected ==
  /\ event = "CONNECTED" /\ lockHolder = "none"
  /\ event' = "none"
  /\ \/ handle = 0 /\ UNCHANGED <<linkUp, wrapUp, callResult>>
     \/ handle # 0 /\ linkUp' = TRUE /\ wrapUp' = TRUE /\ callResult' = "OK"
  /\ UNCHANGED <<handle, sock, lockHolder, shutdown, aborting, dialer, dials, netVars, owed, dataVars, killer>>

OnErrorForgetting ==
  /\ event = "ERROR"
  /\ event' = "DISCONNECTED"
  /\ linkUp' = FALSE /\ wrapUp' = FALSE /\ callResult' = "NETWORK_TIMEOUT"
  /\ UNCHANGED <<handle, sock, lockHolder, shutdown, aborting, dialer, dials, netVars, owed, dataVars, killer>>

\* isConnected stays: the disconnect that follows needs it.
OnError ==
  /\ event = "ERROR"
  /\ event' = "DISCONNECTED"
  /\ linkUp' = FALSE /\ callResult' = "NETWORK_TIMEOUT"
  /\ UNCHANGED <<handle, sock, lockHolder, wrapUp, shutdown, aborting, dialer, dials, netVars, owed, dataVars, killer>>

OnDisconnected ==
  /\ event = "DISCONNECTED" /\ lockHolder = "none"
  /\ wrapUp' = FALSE /\ linkUp' = FALSE
  /\ event' = IF wrapUp THEN "lost" ELSE "tail"
  /\ UNCHANGED <<handle, sock, lockHolder, callResult, shutdown, aborting, dialer, dials, netVars, owed, dataVars, killer>>

\* errorReportFn() is how the application learns that it has to reconnect.
OnLost ==
  /\ event = "lost" /\ event' = "tail"
  /\ \/ /\ shutdown \/ callResult = "RECONNECT_ICE"
        /\ UNCHANGED <<callResult, owed>>
     \/ /\ ~shutdown /\ callResult = "GO_AWAY"
        /\ owed' = FALSE /\ UNCHANGED callResult
     \/ /\ ~shutdown /\ callResult \notin {"GO_AWAY", "RECONNECT_ICE"}
        /\ owed' = FALSE /\ callResult' = "UNKNOWN"
  /\ UNCHANGED <<handle, sock, lockHolder, linkUp, wrapUp, shutdown, aborting, dialer, dials, netVars, dataVars, killer>>

\* freeWebSocketBuffer() ends the handling of the disconnect.
OnDisconnectedTail ==
  /\ event = "tail" /\ event' = "none"
  /\ chunks' = <<>>
  /\ UNCHANGED <<handle, sock, lockHolder, linkUp, wrapUp, callResult, shutdown, aborting, dialer, dials,
                 netVars, owed, received, wsJobs, wsJob, delivered, killer>>

OnClosed ==
  /\ event = "CLOSED" /\ event' = "none"
  /\ linkUp' = FALSE /\ owed' = FALSE
  /\ UNCHANGED <<handle, sock, lockHolder, wrapUp, callResult, shutdown, aborting, dialer, dials, netVars,
                 dataVars, killer>>

-----------------------------------------------------------------------------
(***************************************************************************)
(* Received data: appendToWebSocketBuffer() until the last chunk, then a   *)
(* job for the work queue.                                                 *)
(***************************************************************************)

LastChunkByFin(c) == TRUE
LastChunkMissed(c) == FALSE

\* The chunk that reaches payload_len; fin is set on every chunk.
LastChunk(c) == c % 2 = 0

\* After a lost connection the service goes on with the next message.
NextChunk == IF chunks = <<>> /\ received % 2 = 1 THEN received + 2 ELSE received + 1

\* WEBSOCKET_EVENT_DATA; a message that finds the work queue full is dropped.
OnData ==
  /\ sock = "open" /\ event = "none" /\ NextChunk <= 2 * Messages
  /\ received' = NextChunk
  /\ IF LastChunk(NextChunk)
     THEN /\ chunks' = <<>>
          /\ wsJobs' \in {wsJobs, Append(wsJobs, Append(chunks, NextChunk))}
     ELSE chunks' = Append(chunks, NextChunk) /\ UNCHANGED wsJobs
  /\ UNCHANGED <<linkVars, shutdown, aborting, dialer, dials, netVars, owed, wsJob, delivered, killer>>

\* The append may fail for want of memory: what was assembled is reset.
OnDataTooLarge ==
  /\ sock = "open" /\ event = "none" /\ NextChunk <= 2 * Messages
  /\ ~LastChunk(NextChunk)
  /\ received' = NextChunk + 1 /\ chunks' = <<>>
  /\ UNCHANGED <<linkVars, shutdown, aborting, dialer, dials, netVars, owed, wsJobs, wsJob, delivered, killer>>

WorkerTakesNewest ==
  /\ wsJob = 0 /\ wsJobs # <<>>
  /\ wsJob' = (wsJobs[Len(wsJobs)][2] + 1) \div 2
  /\ wsJobs' = SubSeq(wsJobs, 1, Len(wsJobs) - 1)
  /\ UNCHANGED <<linkVars, shutdown, aborting, dialer, dials, netVars, owed, chunks, received, delivered, killer>>

WorkerTakesMessage ==
  /\ wsJob = 0 /\ wsJobs # <<>>
  /\ wsJob' = (Head(wsJobs)[Len(Head(wsJobs))] + 1) \div 2
  /\ wsJobs' = Tail(wsJobs)
  /\ UNCHANGED <<linkVars, shutdown, aborting, dialer, dials, netVars, owed, chunks, received, delivered, killer>>

\* handleReceivedSignalingMessage() and kvsMessageReceivedCallback(): only the
\* kinds convertKvsToWebRtcMessage() knows reach the application.
WorkerHandlesMessage ==
  /\ wsJob # 0
  /\ \E kind \in KindsOf[wsJob] :
       /\ callResult' = IF kind = "RECONNECT_ICE" THEN kind ELSE callResult
       /\ delivered' = IF ~shutdown /\ kind \in {"OFFER", "ICE"} THEN Append(delivered, wsJob) ELSE delivered
  /\ wsJob' = 0
  /\ UNCHANGED <<handle, sock, event, lockHolder, linkUp, wrapUp, shutdown, aborting, dialer, dials,
                 netVars, owed, chunks, received, wsJobs, killer>>

-----------------------------------------------------------------------------
(***************************************************************************)
(* sendEspSignalingMessage(), sendEspWebSocketMessage().  The application  *)
(* sends nothing more once it frees the client.                            *)
(***************************************************************************)

sendRest == <<handle, sock, event, lockHolder, linkUp, callResult, shutdown, aborting, dialer, dials,
              netReady, netWake, outage, downs, owed, dataVars, killer>>

\* isConnected is read under the lock; if it is FALSE the websocket is asked.
SendChecks ==
  /\ sender = "idle" /\ killer = "idle" /\ handle # 0 /\ lockHolder = "none"
  /\ sender' = IF wrapUp THEN "write" ELSE IF sock = "open" THEN "mark" ELSE "idle"
  /\ UNCHANGED <<wrapUp, sendRest>>

\* By now the handle may have been taken.
SendMarks ==
  /\ sender = "mark" /\ lockHolder = "none"
  /\ wrapUp' = TRUE /\ sender' = "write"
  /\ UNCHANGED sendRest

\* Without a handle or a full-length write the send fails.
SendWrites ==
  /\ sender = "write" /\ sender' = "idle"
  /\ UNCHANGED <<wrapUp, sendRest>>

-----------------------------------------------------------------------------
(***************************************************************************)
(* abortKvsSignalingClient() and freeKvsSignalingClient().                 *)
(***************************************************************************)

AbortBegins ==
  /\ killer = "idle" /\ killer' = "flag" /\ aborting' = TRUE
  /\ UNCHANGED <<linkVars, shutdown, dialer, dials, netVars, owed, dataVars>>

AbortShutsDown ==
  /\ killer = "flag" /\ killer' = "wake" /\ shutdown' = TRUE
  /\ UNCHANGED <<linkVars, aborting, dialer, dials, netVars, owed, dataVars>>

\* wakeEspSignalingWaits()
AbortWakes ==
  /\ killer = "wake" /\ killer' = "join" /\ netWake' = TRUE
  /\ UNCHANGED <<linkVars, shutdown, aborting, dialer, dials, netReady, outage, downs, sender, owed, dataVars>>

\* The first drain precedes every free; a timeout leaks the client.
FreeDrains ==
  /\ killer = "join" /\ dialer = "idle" /\ sender = "idle"
  /\ \/ wsJobs = <<>> /\ wsJob = 0 /\ killer' = "free"
     \/ (wsJobs # <<>> \/ wsJob # 0) /\ killer' = "leaked"
  /\ UNCHANGED <<linkVars, shutdown, aborting, dialer, dials, netVars, owed, dataVars>>

\* freeSignaling(): terminateOngoingOperations() takes the handle ...
FreeTerminates ==
  /\ killer = "free" /\ TakeHandle
  /\ killer' = IF handle = 0 THEN "drain" ELSE "stop"
  /\ UNCHANGED <<sock, event, lockHolder, callResult, shutdown, aborting, dialer, dials, netVars, dataVars>>

\* ... stops the websocket and wakes the waits ...
FreeStops ==
  /\ killer = "stop" /\ StopSocket /\ killer' = "drain" /\ netWake' = TRUE
  /\ UNCHANGED <<handle, event, lockHolder, linkUp, wrapUp, callResult, shutdown, aborting, dialer, dials,
                 netReady, outage, downs, sender, owed, dataVars>>

FreesUndrained ==
  /\ killer = "drain" /\ killer' = "freed"
  /\ UNCHANGED <<linkVars, shutdown, aborting, dialer, dials, netVars, owed, dataVars>>

\* ... drains the jobs that arrived since, and frees unless that timed out.
Frees ==
  /\ killer = "drain"
  /\ killer' = IF wsJobs = <<>> /\ wsJob = 0 THEN "freed" ELSE "leaked"
  /\ UNCHANGED <<linkVars, shutdown, aborting, dialer, dials, netVars, owed, dataVars>>

-----------------------------------------------------------------------------
DialSteps ==
  \/ NetCheck \/ NetClears \/ NetRecheck \/ NetWakes
  \/ DialDrops \/ DialStops \/ DialStarts \/ DialConnected \/ DialFails
  \/ DialCleansUp \/ DialCleanedUp

HandlerSteps ==
  OnConnected \/ OnError \/ OnDisconnected \/ OnLost \/ OnDisconnectedTail \/ OnClosed

KillerSteps ==
  AbortShutsDown \/ AbortWakes \/ FreeDrains \/ FreeTerminates \/ FreeStops \/ Frees

WsNext ==
  \/ DialCall \/ DialSteps \/ NetTimesOut \/ DialTimesOut \/ Disconnects
  \/ NetDown \/ NetUp
  \/ SocketOpens \/ SocketFails \/ OnGoAway \/ HandlerSteps
  \/ OnData \/ OnDataTooLarge \/ WorkerTakesMessage \/ WorkerHandlesMessage
  \/ SendChecks \/ SendMarks \/ SendWrites
  \/ AbortBegins \/ KillerSteps

\* Every task runs when it can. No time limit is relied upon: NetTimesOut and
\* DialTimesOut, and what the network does, are left without fairness.
WsFairness ==
  /\ WF_wsVars(DialSteps)
  /\ WF_wsVars(HandlerSteps)
  /\ WF_wsVars(WorkerTakesMessage \/ WorkerHandlesMessage)
  /\ WF_wsVars(SendMarks \/ SendWrites)
  /\ WF_wsVars(KillerSteps)

-----------------------------------------------------------------------------
(***************************************************************************)
(* Properties.                                                             *)
(***************************************************************************)

\* The client never calls itself connected when its websocket has been taken
\* down: a CONNECTED event that arrives late does not revive the link.
\* (isConnected of the wrapper may be stale: a send sets it outside the lock
\* under which it asked.)
NoRevivedLink == linkUp => handle # 0

\* When the websocket's task has ended, the loss of an established link has
\* been reported, or taken over by a terminate, except while an ICE refresh or
\* a free is under way (esp_websocket_event_handler, DISCONNECTED).
LossReported ==
  owed /\ event = "none" /\ dialer = "idle" => shutdown \/ callResult = "RECONNECT_ICE"

\* What is queued for the worker is one message, whole: chunks of a lost
\* connection or of the message before are not in it.
MessagesWhole ==
  \A i \in 1..Len(wsJobs) :
    LET s == wsJobs[i] IN Len(s) = 2 /\ s[1] % 2 = 1 /\ s[2] = s[1] + 1

\* The application sees messages in the order the service sent them, each once.
DeliveredInOrder == \A i, j \in 1..Len(delivered) : i < j => delivered[i] < delivered[j]

\* A task that waits for the network while the client shuts down has its wake
\* bit set, or the task that aborts has yet to set it (waitForNetwork's clear
\* and re-check).
WakeNotLost ==
  dialer = "netwait" /\ shutdown => netWake \/ killer = "wake"

\* A freed client is used by nobody: not by the websocket's task, not by a job,
\* not by a connecting call.
NothingUsesFreedClient ==
  killer = "freed" =>
    handle = 0 /\ sock = "none" /\ event = "none" /\ wsJobs = <<>> /\ wsJob = 0 /\ dialer = "idle"

\* An abort ends a connecting call, wherever it waits, without its time limits.
AbortEndsCall == shutdown ~> dialer = "idle"

\* The link is never in a state the code cannot get out of: not revived after it was taken
\* down, not lost without a report, not waited for by a task nobody wakes, and not used
\* after the client was freed.
LinkSafe == NoRevivedLink /\ LossReported /\ WakeNotLost /\ NothingUsesFreedClient

\* Messages reach the application whole, in the order the service sent them and once each,
\* over a websocket that is lost and dialled again (WEBSOCKET_EVENT_DATA, the work queue).
MessagesDelivered == MessagesWhole /\ DeliveredInOrder
=============================================================================
