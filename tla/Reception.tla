----------------------------- MODULE Reception -----------------------------
(***************************************************************************)
(* The receiving side of one session (kvs_media.c, kvs_webrtc.c): its      *)
(* players are set up when an offer or an answer was applied or when the   *)
(* SDK reports CONNECTED, whichever sees media_threads_started clear       *)
(* first; nothing but the flags keeps the two tasks apart.  The SDK's      *)
(* receiving thread hands every frame to the registered handler, which     *)
(* plays it on the handle it finds; a disconnect and the end of the        *)
(* session take the players down again, before the peer connection closes. *)
(*                                                                         *)
(* A player is a number of its own; 0 is no handle.  The video player is   *)
(* set up and taken down before the audio player.                          *)
(***************************************************************************)
EXTENDS Integers, FiniteSets

CONSTANTS MaxPlayers,    \* bound: players that are created
          MaxReceived,   \* bound: frames that are received
          MaxOffers,     \* bound: offers that are applied
          MinBitrate, MaxBitrate   \* MIN_VIDEO_BITRATE, MAX_VIDEO_BITRATE

ASSUME ReAssumption ==
  /\ MaxPlayers \in Nat /\ MaxReceived \in Nat /\ MaxOffers \in Nat
  /\ MinBitrate \in Nat /\ MaxBitrate \in Nat /\ MinBitrate <= MaxBitrate

Media == {"video", "audio"}
Tasks == {"task", "sdk"}          \* the message worker, the SDK's callbacks

VARIABLES
  rxRole,      \* session->is_initiator: "initiator", "responder"
  started,     \* session->media_threads_started
  prepared,    \* session->media_players_initialized
  rxHandle,      \* session->video_player_handle, audio_player_handle
  live,        \* players created and not yet deinitialised
  playing,     \* the started ones among them
  wired,       \* transceivers whose frames go to the session's handler
  at,          \* of a task: where it is, and the player it is working on
  frame,       \* of a transceiver: the handle its handler has read
  conn,        \* the connection: "new", "up", "down", "closed"
  torn,        \* wd_disconnect_done
  twcc,        \* session->twcc_metadata: the bitrate and its lock
  rxLost,        \* players whose handle another task overwrote, or made by the
               \* SDK's task while the worker was taking the session down
  rxPlayed,      \* received frames that reached a player
  twice,       \* a player was deinitialised a second time
  made, received, offers

reVars == <<rxRole, started, prepared, rxHandle, live, playing, wired, at, frame,
            conn, torn, twcc, rxLost, rxPlayed, twice, made, received, offers>>

RxAt(pc, k, p) == [pc |-> pc, kind |-> k, player |-> p]
Idle == RxAt("idle", "video", 0)
Resting(t) == at[t].pc = "idle"
Doing(t, pc, k) == at[t].pc = pc /\ at[t].kind = k

ReTypeOK ==
  /\ rxRole \in {"initiator", "responder"}
  /\ started \in BOOLEAN /\ prepared \in BOOLEAN /\ torn \in BOOLEAN
  /\ rxHandle \in [Media -> 0..MaxPlayers]
  /\ live \subseteq 1..MaxPlayers /\ playing \subseteq live /\ rxLost \subseteq 1..MaxPlayers
  /\ wired \subseteq Media
  /\ at \in [Tasks -> [pc : {"idle", "check", "init", "start", "wire", "stop", "deinit",
                             "clear", "close", "over"},
                       kind : Media, player : 0..MaxPlayers]]
  /\ frame \in [Media -> 0..MaxPlayers]
  /\ conn \in {"new", "up", "down", "closed"}
  /\ twcc \in [rate : MinBitrate..MaxBitrate, lock : BOOLEAN]
  /\ rxPlayed \in 0..MaxReceived /\ received \in 0..MaxReceived
  /\ made \in 0..MaxPlayers /\ offers \in 0..MaxOffers /\ twice \in BOOLEAN

\* kvs_setupMediaTracks() has added both transceivers with their estimation
\* handlers, in both directions because the client receives.
ReInit ==
  /\ rxRole \in {"initiator", "responder"}
  /\ started = FALSE /\ prepared = FALSE /\ torn = FALSE /\ twice = FALSE
  /\ rxHandle = [k \in Media |-> 0] /\ frame = [k \in Media |-> 0]
  /\ live = {} /\ playing = {} /\ wired = {} /\ rxLost = {}
  /\ at = [t \in Tasks |-> Idle]
  /\ conn = "new" /\ twcc = [rate |-> MinBitrate, lock |-> TRUE]
  /\ rxPlayed = 0 /\ made = 0 /\ received = 0 /\ offers = 0

Moves(t, pc, k) == at' = [at EXCEPT ![t] = RxAt(pc, k, 0)]
Leaves(t, pc) == Moves(t, pc, "video")

----------------------------------------------------------------------------
(* Setting up *)

\* kvs_handleOffer(), kvs_handleAnswer(): the players are set up unless that
\* was done; an offer then wires the handlers, an answer
\* (kvs_media_start_reception()) sets up the players only.
DescriptionApplied ==
  /\ Resting("task") /\ offers < MaxOffers /\ conn # "closed"
  /\ rxRole = "initiator" => offers = 0
  /\ offers' = offers + 1
  /\ Leaves("task", IF ~started THEN "check"
                    ELSE IF rxRole = "responder" THEN "wire" ELSE "idle")
  /\ UNCHANGED <<rxRole, started, prepared, rxHandle, live, playing, wired, frame, conn,
                 torn, twcc, rxLost, rxPlayed, twice, made, received>>

\* onConnectionStateChangeHandler(), CONNECTED.
Connected ==
  /\ Resting("sdk") /\ conn = "new" /\ offers > 0
  /\ conn' = "up"
  /\ Leaves("sdk", IF started THEN "idle" ELSE "check")
  /\ UNCHANGED <<rxRole, started, prepared, rxHandle, live, playing, wired, frame, torn,
                 twcc, rxLost, rxPlayed, twice, made, received, offers>>

AfterSetup(t) == IF t = "task" /\ rxRole = "responder" THEN "wire" ELSE "idle"

\* The end of a player's set-up; after the audio player the flags are set.
PlayerDone(t, k) ==
  IF k = "video" THEN Moves(t, "check", "audio") /\ UNCHANGED <<prepared, started>>
  ELSE prepared' = TRUE /\ started' = TRUE /\ Leaves(t, AfterSetup(t))

\* kvs_media_setup_players(): checks the flag (once, at the first player)
\* and the handle; player->init() takes a while.
SetupChecks(t, k) ==
  /\ Doing(t, "check", k)
  /\ IF k = "video" /\ prepared
     THEN started' = TRUE /\ Leaves(t, AfterSetup(t)) /\ UNCHANGED prepared
     ELSE IF rxHandle[k] # 0 THEN PlayerDone(t, k)
     ELSE Moves(t, "init", k) /\ UNCHANGED <<prepared, started>>
  /\ UNCHANGED <<rxRole, rxHandle, live, playing, wired, frame, conn, torn, twcc, rxLost,
                 rxPlayed, twice, made, received, offers>>

Destroying == at["task"].pc \in {"stop", "deinit", "clear", "close"}

\* video_player_init(), audio_player_init(): a new player, its handle stored
\* in the session.
PlayerMade(t, k) ==
  /\ Doing(t, "init", k) /\ made < MaxPlayers
  /\ made' = made + 1
  /\ live' = live \cup {made + 1}
  /\ rxLost' = rxLost \cup ({rxHandle[k]} \ {0})
                  \cup (IF Destroying THEN {made + 1} ELSE {})
  /\ rxHandle' = [rxHandle EXCEPT ![k] = made + 1]
  /\ Moves(t, "start", k)
  /\ UNCHANGED <<rxRole, started, prepared, playing, wired, frame, conn, torn, twcc,
                 rxPlayed, twice, received, offers>>

\* A failed init clears the handle and the session goes on without a player.
PlayerNotMade(t, k) ==
  /\ Doing(t, "init", k)
  /\ rxLost' = rxLost \cup ({rxHandle[k]} \ {0})
  /\ rxHandle' = [rxHandle EXCEPT ![k] = 0]
  /\ PlayerDone(t, k)
  /\ UNCHANGED <<rxRole, live, playing, wired, frame, conn, torn, twcc, rxPlayed, twice,
                 made, received, offers>>

Deinit(p) == live' = live \ {p} /\ playing' = playing \ {p}
             /\ twice' = (twice \/ p \notin live)

\* player->start() on the session's handle.
PlayerStarts(t, k) ==
  /\ Doing(t, "start", k)
  /\ playing' = playing \cup ({rxHandle[k]} \cap live)
  /\ PlayerDone(t, k)
  /\ UNCHANGED <<rxRole, rxHandle, live, wired, frame, conn, torn, twcc, rxLost, rxPlayed,
                 twice, made, received, offers>>

\* A failed start deinitialises the player again.
PlayerStartFailsLeaking(t, k) ==
  /\ Doing(t, "start", k) /\ rxHandle[k] # 0
  /\ rxHandle' = [rxHandle EXCEPT ![k] = 0]
  /\ PlayerDone(t, k)
  /\ UNCHANGED <<rxRole, live, playing, twice, wired, frame, conn, torn, twcc, rxLost,
                 rxPlayed, made, received, offers>>
PlayerStartFails(t, k) ==
  /\ Doing(t, "start", k) /\ rxHandle[k] # 0
  /\ Deinit(rxHandle[k])
  /\ rxHandle' = [rxHandle EXCEPT ![k] = 0]
  /\ PlayerDone(t, k)
  /\ UNCHANGED <<rxRole, wired, frame, conn, torn, twcc, rxLost, rxPlayed, made, received,
                 offers>>

\* kvs_media_setup_frame_callbacks(): both transceivers get their handler.
Wires ==
  /\ at["task"].pc = "wire"
  /\ wired' = Media
  /\ Leaves("task", "idle")
  /\ UNCHANGED <<rxRole, started, prepared, rxHandle, live, playing, frame, conn, torn,
                 twcc, rxLost, rxPlayed, twice, made, received, offers>>

----------------------------------------------------------------------------
(* Receiving *)

\* kvs_media_video_frame_handler(), kvs_media_audio_frame_handler(): the
\* handle is checked, then read and played on; a frame without a player is
\* dropped.
FrameArrives(k) ==
  /\ conn = "up" /\ received < MaxReceived /\ k \in wired /\ frame[k] = 0
  /\ received' = received + 1
  /\ frame' = [frame EXCEPT ![k] = rxHandle[k]]
  /\ UNCHANGED <<rxRole, started, prepared, rxHandle, live, playing, wired, at, conn, torn,
                 twcc, rxLost, rxPlayed, twice, made, offers>>

\* play_frame(): refused unless the player is started.
FramePlays(k) ==
  /\ frame[k] # 0
  /\ rxPlayed' = IF frame[k] \in playing THEN rxPlayed + 1 ELSE rxPlayed
  /\ frame' = [frame EXCEPT ![k] = 0]
  /\ UNCHANGED <<rxRole, started, prepared, rxHandle, live, playing, wired, at, conn, torn,
                 twcc, rxLost, twice, made, received, offers>>

\* The bitrate grows while few packets are lost and shrinks with the loss,
\* between its limits.
AdjustedRate(rate, lossy) ==
  LET r == IF lossy THEN rate \div 2 ELSE rate + 1
  IN IF r < MinBitrate THEN MinBitrate ELSE IF r > MaxBitrate THEN MaxBitrate ELSE r

\* kvs_senderBandwidthEstimationHandler(): adjusts the session's bitrate under
\* its lock and reports it to the rate control (RateControl).
BandwidthEstimated(lossy) ==
  /\ conn = "up" /\ twcc.lock
  /\ twcc' = [twcc EXCEPT !.rate = AdjustedRate(@, lossy)]
  /\ UNCHANGED <<rxRole, started, prepared, rxHandle, live, playing, wired, at, frame, conn,
                 torn, rxLost, rxPlayed, twice, made, received, offers>>

----------------------------------------------------------------------------
(* Taking down *)

\* onConnectionStateChangeHandler(), DISCONNECTED: the first one only.
Disconnected ==
  /\ Resting("sdk") /\ conn = "up"
  /\ conn' = "down" /\ torn' = TRUE
  /\ Leaves("sdk", IF torn THEN "idle" ELSE "stop")
  /\ UNCHANGED <<rxRole, started, prepared, rxHandle, live, playing, wired, frame, twcc,
                 rxLost, rxPlayed, twice, made, received, offers>>

\* kvs_pc_destroy_session(): on the worker, when the application gives the
\* session up.
DestroyStarts ==
  /\ Resting("task") /\ conn # "closed" /\ offers > 0
  /\ Leaves("task", "stop")
  /\ UNCHANGED <<rxRole, started, prepared, rxHandle, live, playing, wired, frame, conn,
                 torn, twcc, rxLost, rxPlayed, twice, made, received, offers>>

StopDone(t, k) ==
  IF k = "video" THEN Moves(t, "stop", "audio")
  ELSE Leaves(t, IF t = "task" THEN "close" ELSE "idle")

\* kvs_media_stop_session(): if there is a handle, stop() ...
StopPlayer(t, k) ==
  /\ Doing(t, "stop", k)
  /\ IF rxHandle[k] = 0 THEN StopDone(t, k) /\ UNCHANGED playing
     ELSE /\ playing' = playing \ {rxHandle[k]}
          /\ at' = [at EXCEPT ![t] = RxAt("deinit", k, rxHandle[k])]
  /\ UNCHANGED <<rxRole, started, prepared, rxHandle, live, wired, frame, conn, torn, twcc,
                 rxLost, rxPlayed, twice, made, received, offers>>

\* ... deinit() ...
DeinitPlayer(t, k) ==
  /\ Doing(t, "deinit", k)
  /\ Deinit(at[t].player)
  /\ at' = [at EXCEPT ![t].pc = "clear"]
  /\ UNCHANGED <<rxRole, started, prepared, rxHandle, wired, frame, conn, torn, twcc, rxLost,
                 rxPlayed, made, received, offers>>

\* ... and the handle is cleared.
ClearHandle(t, k) ==
  /\ Doing(t, "clear", k)
  /\ rxHandle' = [rxHandle EXCEPT ![k] = 0]
  /\ rxLost' = rxLost \cup ({rxHandle[k]} \ {0, at[t].player})
  /\ StopDone(t, k)
  /\ UNCHANGED <<rxRole, started, prepared, live, playing, wired, frame, conn, torn, twcc,
                 rxPlayed, twice, made, received, offers>>

\* The estimation lock is freed and the peer connection closed: no callback
\* of the SDK runs any more.
Closes ==
  /\ at["task"].pc = "close" /\ Resting("sdk") /\ \A k \in Media : frame[k] = 0
  /\ conn' = "closed" /\ twcc' = [twcc EXCEPT !.lock = FALSE]
  /\ Leaves("task", "over")
  /\ UNCHANGED <<rxRole, started, prepared, rxHandle, live, playing, wired, frame, torn,
                 rxLost, rxPlayed, twice, made, received, offers>>

PlayerSteps(t, k) ==
  \/ SetupChecks(t, k) \/ PlayerMade(t, k) \/ PlayerNotMade(t, k)
  \/ PlayerStarts(t, k) \/ PlayerStartFails(t, k)
  \/ StopPlayer(t, k) \/ DeinitPlayer(t, k) \/ ClearHandle(t, k)

ReNext ==
  \/ DescriptionApplied \/ Connected \/ Wires
  \/ \E t \in Tasks, k \in Media : PlayerSteps(t, k)
  \/ \E k \in Media : FrameArrives(k) \/ FramePlays(k)
  \/ \E lossy \in BOOLEAN : BandwidthEstimated(lossy)
  \/ Disconnected \/ DestroyStarts \/ Closes

ReSpec == ReInit /\ [][ReNext]_reVars

----------------------------------------------------------------------------
\* Every player that runs is one the session still knows, one a task is about
\* to release, or one lost to an overlap of two tasks (its handle replaced by
\* the other's set-up, or set up while the session was taken down); a closed
\* session leaves only those behind, however its set-ups and re-offers failed.
PlayersAccounted ==
  /\ live \subseteq {rxHandle[k] : k \in Media} \cup rxLost \cup {at[t].player : t \in Tasks}
  /\ at["task"].pc = "over" => live \subseteq rxLost

=============================================================================
