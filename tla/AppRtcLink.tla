---------------------------- MODULE AppRtcLink ------------------------------
(***************************************************************************)
(* The connection of the AppRTC signaling client, apprtc_signaling.c: the  *)
(* application joins and leaves a room, the websocket task reports events, *)
(* the work queue acts on them, and the reconnect timer (AUTO_REJOIN) and  *)
(* the room retry timer repair what was lost.  ws_generation tells the     *)
(* current websocket client from those that were replaced.                 *)
(***************************************************************************)
EXTENDS Naturals, Sequences, SequencesExt

CONSTANTS MaxAttempts,  \* APPRTC_MAX_RECONNECT_ATTEMPTS
          MaxRoomTries, \* MAX_ROOM_RETRY_ATTEMPTS
          Fragments,    \* reads a frame arrives in
          ArMaxFaults,    \* bound: dropped links, failed joins and starts, unanswered registrations
          MaxLost,      \* bound: fragments for which there is no memory
          MaxCalls,     \* bound: connect and disconnect calls of the application
          MaxFrames     \* bound: frames the room server sends

ASSUME ArBounds == MaxAttempts \in Nat /\ MaxRoomTries \in Nat /\ Fragments \in Nat \ {0}
                   /\ ArMaxFaults \in Nat /\ MaxLost \in Nat /\ MaxCalls \in Nat /\ MaxFrames \in Nat

VARIABLES apState,      \* apprtc_client.state
          gen,          \* ws_generation
          wsClient,     \* apprtc_client.client: the generation its events are tagged with, 0 for NULL
          sock,         \* the websocket of wsClient
          room,         \* room_id is not empty
          mutex,        \* who holds apprtc_client.mutex over a join
          attempts,     \* reconnect_attempts, up to the limit: beyond it the count no longer matters
          armed,        \* reconnect_timer runs
          roomTimer, roomTries, \* room_retry_timer runs, room_retry_attempts
          rejoin,       \* the reconnect callback between its two critical sections
          jobs,         \* ws_event_work_handler() items on the work queue
          item,         \* the item the work queue is busy with, after its check
          frame,        \* s_frame, s_frame_generation: fragments so far
          rx,           \* the fragment the server sends next
          heard,        \* frames given to message_handler
          epoch,        \* disconnect calls so far
          faults, calls, lost

connVars == <<apState, gen, wsClient, sock, room, mutex, attempts>>
timerVars == <<armed, roomTimer, roomTries, rejoin>>
dataVars == <<frame, rx, heard, lost>>
arVars == <<connVars, timerVars, dataVars, jobs, item, epoch, faults, calls>>

NoRejoin == [gen |-> 0, epoch |-> 0]
NoItem   == [ev |-> "none", gen |-> 0, parts |-> <<>>]
NoFrame  == [gen |-> 0, parts |-> <<>>]
Event(ev, g, parts) == [ev |-> ev, gen |-> g, parts |-> parts]

Fault == faults < ArMaxFaults /\ faults' = faults + 1
Call  == calls < MaxCalls /\ calls' = calls + 1

-----------------------------------------------------------------------------
(***************************************************************************)
(* connect_room(), called by the application or by the reconnect timer: it *)
(* holds the mutex while the room server answers.                          *)
(***************************************************************************)

Refused == apState \in {"CONNECTED", "CONNECTING"}

AppConnects ==
  /\ mutex = "none" /\ Call
  /\ IF Refused THEN UNCHANGED connVars
     ELSE /\ apState' = "CONNECTING" /\ room' = TRUE /\ mutex' = "app"
          /\ UNCHANGED <<gen, wsClient, sock, attempts>>
  /\ UNCHANGED <<timerVars, dataVars, jobs, item, epoch, faults>>

\* The callback joins whatever was done to the connection meanwhile.
RejoinsUnchecked ==
  /\ rejoin # NoRejoin /\ mutex = "none"
  /\ IF Refused THEN UNCHANGED <<apState, mutex, room>> /\ rejoin' = NoRejoin
     ELSE apState' = "CONNECTING" /\ mutex' = "timer" /\ room' = TRUE /\ UNCHANGED rejoin
  /\ UNCHANGED <<gen, wsClient, sock, attempts, armed, roomTimer, roomTries, dataVars, jobs, item, epoch, faults, calls>>

\* The second half of reconnect_timer_callback(): connect_room() with the generation expected.
Rejoins ==
  /\ rejoin # NoRejoin /\ mutex = "none"
  /\ IF gen # rejoin.gen \/ Refused THEN UNCHANGED <<apState, mutex, room>> /\ rejoin' = NoRejoin
     ELSE apState' = "CONNECTING" /\ mutex' = "timer" /\ room' = TRUE /\ UNCHANGED rejoin
  /\ UNCHANGED <<gen, wsClient, sock, attempts, armed, roomTimer, roomTries, dataVars, jobs, item, epoch, faults, calls>>

\* get_websocket_url() failed, or the client could not be made or started.
JoinFails ==
  /\ mutex # "none" /\ mutex' = "none"
  /\ apState' = "ERROR"
  /\ Fault \/ (sock \in {"starting", "up"} /\ UNCHANGED faults)
  /\ rejoin' = IF mutex = "timer" THEN NoRejoin ELSE rejoin
  /\ UNCHANGED <<gen, wsClient, sock, room, attempts, armed, roomTimer, roomTries, dataVars, jobs, item, epoch, calls>>

\* The join succeeded and the client starts; only a new client gets a new generation.
JoinSucceeds ==
  /\ mutex # "none" /\ mutex' = "none"
  /\ sock \notin {"starting", "up"}
  /\ IF wsClient = 0 THEN gen' = gen + 1 /\ wsClient' = gen + 1 ELSE UNCHANGED <<gen, wsClient>>
  /\ sock' = "starting"
  /\ rejoin' = IF mutex = "timer" THEN NoRejoin ELSE rejoin
  /\ UNCHANGED <<apState, room, attempts, armed, roomTimer, roomTries, dataVars, jobs, item, epoch, faults, calls>>

\* A disconnect that leaves the generation alone.
DisconnectsKeepingEvents ==
  /\ mutex = "none" /\ Call
  /\ wsClient' = 0 /\ sock' = "none" /\ apState' = "DISCONNECTED" /\ room' = FALSE /\ attempts' = 0
  /\ armed' = FALSE /\ roomTimer' = FALSE /\ epoch' = epoch + 1
  /\ UNCHANGED <<gen, mutex, roomTries, rejoin, dataVars, jobs, item, faults>>

\* apprtc_signaling_disconnect(): stop() waits for the client's task.
AppDisconnects ==
  /\ mutex = "none" /\ Call
  /\ gen' = gen + 1
  /\ wsClient' = 0 /\ sock' = "none" /\ apState' = "DISCONNECTED" /\ room' = FALSE /\ attempts' = 0
  /\ armed' = FALSE /\ roomTimer' = FALSE /\ epoch' = epoch + 1
  /\ UNCHANGED <<mutex, roomTries, rejoin, dataVars, jobs, item, faults>>

-----------------------------------------------------------------------------
(***************************************************************************)
(* The websocket: esp_websocket_client's task connects, reads and fails,   *)
(* and calls apprtc_websocket_event_handler().                             *)
(***************************************************************************)

SocketConnects ==
  /\ sock = "starting" /\ sock' = "up"
  /\ jobs' = IF wsClient = gen THEN Append(jobs, Event("CONNECTED", wsClient, <<>>)) ELSE jobs
  /\ rx' = IF rx.part = 1 THEN rx ELSE [frame |-> rx.frame + 1, part |-> 1]
  /\ UNCHANGED <<apState, gen, wsClient, room, mutex, attempts, timerVars, frame, heard, lost, item, epoch, faults, calls>>

\* DISCONNECTED and ERROR go to the work queue; either way a partial frame is dropped.
SocketDrops ==
  /\ sock \in {"starting", "up"} /\ sock' = "down" /\ Fault
  /\ \/ jobs' = Append(jobs, Event("DISCONNECTED", wsClient, <<>>))
     \/ jobs' = jobs \o <<Event("ERROR", wsClient, <<>>), Event("DISCONNECTED", wsClient, <<>>)>>
  /\ frame' = NoFrame
  /\ UNCHANGED <<apState, gen, wsClient, room, mutex, attempts, timerVars, rx, heard, lost, item, epoch, calls>>

\* CLOSED acts on the websocket task itself; its item does nothing.
SocketCloses ==
  /\ sock = "up" /\ sock' = "down" /\ Fault
  /\ apState' = "DISCONNECTED" /\ armed' = TRUE
  /\ frame' = NoFrame
  /\ UNCHANGED <<gen, wsClient, room, mutex, attempts, roomTimer, roomTries, rejoin, rx, heard, lost, jobs, item, epoch, calls>>

\* Fragments are put together as they come.
JoinedAnyway(g, f, offset) == Append(frame.parts, f)
\* Fragments are put together by their offset; one of a replaced client's frame is dropped first.
Joined(g, f, offset) ==
  LET kept == IF frame.gen = g THEN frame.parts ELSE <<>> IN
  IF offset = 0 THEN <<f>> ELSE IF Len(kept) = offset THEN Append(kept, f) ELSE <<>>

\* A DATA event with a whole frame, or the last fragment of one, becomes an item.
SocketReads ==
  /\ sock = "up" /\ rx.frame <= MaxFrames
  /\ rx' = IF rx.part = Fragments THEN [frame |-> rx.frame + 1, part |-> 1] ELSE [rx EXCEPT !.part = @ + 1]
  /\ \/ lost < MaxLost /\ lost' = lost + 1 /\ UNCHANGED <<frame, jobs>>     \* no memory for the item
     \/ /\ UNCHANGED lost
        /\ LET parts == Joined(wsClient, rx, rx.part - 1) IN
           IF Len(parts) = Fragments
           THEN frame' = NoFrame /\ jobs' = Append(jobs, Event("DATA", wsClient, parts))
           ELSE frame' = [gen |-> wsClient, parts |-> parts] /\ UNCHANGED jobs
  /\ UNCHANGED <<connVars, timerVars, heard, item, epoch, faults, calls>>

-----------------------------------------------------------------------------
(***************************************************************************)
(* ws_event_work_handler() on the work queue: the generation is compared   *)
(* once, and the connection may change while the item is handled.          *)
(***************************************************************************)

WorkTakesAny ==
  /\ item = NoItem /\ jobs # <<>>
  /\ jobs' = Tail(jobs) /\ item' = Head(jobs)
  /\ UNCHANGED <<connVars, timerVars, dataVars, epoch, faults, calls>>

WorkTakes ==
  /\ item = NoItem /\ jobs # <<>>
  /\ jobs' = Tail(jobs)
  /\ item' = IF Head(jobs).gen = gen THEN Head(jobs) ELSE NoItem
  /\ UNCHANGED <<connVars, timerVars, dataVars, epoch, faults, calls>>

\* register_with_room() and send_register(): a send on a link that is down fails.
WorkRegisters ==
  /\ item.ev = "CONNECTED"
  /\ IF wsClient = 0 THEN apState' = "ERROR" /\ item' = NoItem /\ UNCHANGED roomTimer
     ELSE /\ roomTimer' = TRUE
          /\ IF sock = "up" THEN item' = [item EXCEPT !.ev = "registered"] /\ UNCHANGED apState
             ELSE apState' = "ERROR" /\ item' = NoItem
  /\ UNCHANGED <<gen, wsClient, sock, room, mutex, attempts, armed, roomTries, rejoin, dataVars, jobs, epoch, faults, calls>>

\* After the registration: CONNECTED, and send_initial_messages() arms the timer if the link is gone.
WorkConnected ==
  /\ item.ev = "registered" /\ item' = NoItem
  /\ apState' = "CONNECTED" /\ attempts' = 0
  /\ armed' = (armed \/ wsClient = 0 \/ sock # "up")
  /\ UNCHANGED <<gen, wsClient, sock, room, mutex, roomTimer, roomTries, rejoin, dataVars, jobs, epoch, faults, calls>>

\* The timer is left alone.
WorkDisconnectedUnarmed ==
  /\ item.ev = "DISCONNECTED" /\ item' = NoItem
  /\ apState' = "DISCONNECTED"
  /\ UNCHANGED <<gen, wsClient, sock, room, mutex, attempts, timerVars, dataVars, jobs, epoch, faults, calls>>

\* A client id is kept from the first join on, so the timer is always armed.
WorkDisconnected ==
  /\ item.ev = "DISCONNECTED" /\ item' = NoItem
  /\ apState' = "DISCONNECTED" /\ armed' = TRUE
  /\ UNCHANGED <<gen, wsClient, sock, room, mutex, attempts, roomTimer, roomTries, rejoin, dataVars, jobs, epoch, faults, calls>>

WorkError ==
  /\ item.ev = "ERROR" /\ item' = NoItem
  /\ apState' = "ERROR"
  /\ UNCHANGED <<gen, wsClient, sock, room, mutex, attempts, timerVars, dataVars, jobs, epoch, faults, calls>>

\* An offer, answer or candidate for message_handler.
WorkData ==
  /\ item.ev = "DATA" /\ item' = NoItem
  /\ heard' = Append(heard, item.parts)
  /\ UNCHANGED <<connVars, timerVars, frame, rx, lost, jobs, epoch, faults, calls>>

\* The room server's answer to the registration, on the work queue as well.
RegisterAnswered ==
  /\ roomTimer /\ sock = "up" /\ item = NoItem
  /\ roomTimer' = FALSE /\ roomTries' = 0
  /\ UNCHANGED <<connVars, armed, rejoin, dataVars, jobs, item, epoch, faults, calls>>

-----------------------------------------------------------------------------
(***************************************************************************)
(* The timers, whose callbacks run one at a time on the timer task.        *)
(***************************************************************************)

RoomTimerFires ==
  /\ roomTimer /\ rejoin = NoRejoin /\ Fault
  /\ \/ /\ roomTries >= MaxRoomTries
        /\ apState' = "ERROR" /\ roomTimer' = FALSE /\ UNCHANGED <<roomTries, armed>>
     \/ /\ roomTries < MaxRoomTries /\ roomTries' = roomTries + 1
        /\ IF apState = "CONNECTED" /\ wsClient # 0 /\ sock = "up"
           THEN roomTimer' = TRUE /\ UNCHANGED <<apState, armed>>     \* registers again
           ELSE /\ roomTimer' = FALSE
                /\ IF apState = "CONNECTING" THEN UNCHANGED <<apState, armed>>
                   ELSE apState' = "DISCONNECTED" /\ armed' = TRUE
  /\ UNCHANGED <<gen, wsClient, sock, room, mutex, attempts, rejoin, dataVars, jobs, item, epoch, calls>>

\* old_client is destroyed and its handle stays in place.
TakenOverKept == sock' = "none" /\ UNCHANGED wsClient
TakenOver == sock' = "none" /\ wsClient' = 0

\* The first half of reconnect_timer_callback(), under the mutex: the client is taken over and
\* its events become stale; it is stopped and destroyed before the second half.
ReconnectFires ==
  /\ armed /\ rejoin = NoRejoin /\ mutex = "none"
  /\ armed' = FALSE
  /\ IF apState \notin {"DISCONNECTED", "ERROR"}
     THEN UNCHANGED <<connVars, rejoin>>
     ELSE IF attempts + 1 > MaxAttempts
     THEN apState' = "ERROR" /\ UNCHANGED <<gen, wsClient, sock, room, mutex, attempts, rejoin>>
     ELSE /\ attempts' = attempts + 1
          /\ IF ~room THEN UNCHANGED <<gen, wsClient, sock, rejoin>>
             ELSE TakenOver /\ gen' = gen + 1 /\ rejoin' = [gen |-> gen + 1, epoch |-> epoch]
          /\ UNCHANGED <<apState, room, mutex>>
  /\ UNCHANGED <<roomTimer, roomTries, dataVars, jobs, item, epoch, faults, calls>>

-----------------------------------------------------------------------------
ArInit ==
  /\ apState = "DISCONNECTED" /\ gen = 0 /\ wsClient = 0 /\ sock = "none" /\ room = FALSE
  /\ mutex = "none" /\ attempts = 0 /\ armed = FALSE /\ roomTimer = FALSE /\ roomTries = 0
  /\ rejoin = NoRejoin /\ jobs = <<>> /\ item = NoItem
  /\ frame = NoFrame /\ rx = [frame |-> 1, part |-> 1] /\ heard = <<>>
  /\ epoch = 0 /\ faults = 0 /\ calls = 0 /\ lost = 0

ArApp  == AppConnects \/ AppDisconnects
ArWork == WorkTakes \/ WorkRegisters \/ WorkConnected \/ WorkDisconnected \/ WorkError \/ WorkData
ArNext == \/ ArApp \/ JoinFails \/ JoinSucceeds \/ Rejoins
          \/ SocketConnects \/ SocketDrops \/ SocketCloses \/ SocketReads
          \/ ArWork \/ RegisterAnswered \/ RoomTimerFires \/ ReconnectFires

\* The work queue and the timer task run, a join and a start come to an end.
ArFairness == /\ WF_arVars(ArWork) /\ WF_arVars(JoinSucceeds \/ JoinFails) /\ WF_arVars(SocketConnects)
              /\ WF_arVars(ReconnectFires) /\ WF_arVars(Rejoins)
ArSpec == ArInit /\ [][ArNext]_arVars /\ ArFairness

-----------------------------------------------------------------------------
ArTypeOK ==
  /\ apState \in {"DISCONNECTED", "CONNECTING", "CONNECTED", "ERROR"}
  /\ gen \in Nat /\ wsClient \in 0..gen /\ sock \in {"none", "starting", "up", "down"} /\ (wsClient = 0 <=> sock = "none")
  /\ mutex \in {"none", "app", "timer"} /\ attempts \in 0..MaxAttempts /\ roomTries \in 0..MaxRoomTries
  /\ Len(frame.parts) < Fragments /\ rejoin.gen \in 0..gen

\* A rejoin belongs to the session whose link was lost: the reconnect callback, asleep between
\* taking the client over and connect_room(), never joins the room of a session the application
\* has left in the meantime (apprtc_signaling.c:926).
RejoinsOwnSession == mutex = "timer" => rejoin.epoch = epoch

\* A frame reaches the application whole and frames come in order: fragments of a lost frame or of
\* a replaced client never complete another (apprtc_signaling.c:489-519).
HeardWhole ==
  /\ \A i \in 1..Len(heard) : heard[i] = [k \in 1..Fragments |-> [frame |-> heard[i][1].frame, part |-> k]]
  /\ \A i, j \in 1..Len(heard) : i < j => heard[i][1].frame < heard[j][1].frame

\* Events of a replaced client do not tear the new connection down: when the work queue leaves
\* CONNECTED, it is for an event of the client that is current then, although the generation was
\* compared earlier (apprtc_signaling.c:578).
NoStaleTeardown ==
  [][apState = "CONNECTED" /\ apState' # "CONNECTED" /\ item # NoItem /\ item' = NoItem => item.gen = wsClient]_arVars

\* A session that lost its link is connected again, or ends in an ERROR the application is told of,
\* or was left by the application.
ArRecovers == (apState = "DISCONNECTED" /\ room) ~> (apState \in {"CONNECTED", "ERROR"} \/ ~room)

\* A session of the room server is not disturbed by an earlier one: its link is rejoined for
\* it alone, its frames are whole, and only its own events take it down.
RoomSound == [](RejoinsOwnSession /\ HeardWhole) /\ NoStaleTeardown
=============================================================================
