---------------------------- MODULE MediaSender ----------------------------
(***************************************************************************)
(* The global media transmission of kvs_media.c: the first session starts  *)
(* it, the last one stops it.  The encoder's task hands frames to the      *)
(* "webrtc" video sink, which copies them into a short queue; one sender   *)
(* thread takes them off and writes them to every connected session; an    *)
(* audio thread does the same with the frames it reads itself.             *)
(*                                                                         *)
(* A frame is its number in the encoder's output and whether it is a key   *)
(* frame.  A frame that is not one is decodable only after the frame right *)
(* before it.                                                              *)
(***************************************************************************)
EXTENDS Naturals, Sequences, FiniteSets, SequencesExt

CONSTANTS Sessions,   \* peer connection sessions
          Senders,    \* video sender threads that may exist at once
          QDepth,     \* KVS_VIDEO_SINK_QUEUE_DEPTH
          MaxFrames,  \* bound: frames the encoder produces
          MaxHalfFrames, \* the same once a start failed halfway
          MaxStarts,  \* bound: starts of the transmission
          MsMaxFails    \* bound: allocations, creations and inits that fail

ASSUME MsAssumption == /\ QDepth \in Nat \ {0} /\ 0 \notin Senders
                       /\ {MaxFrames, MaxHalfFrames, MaxStarts, MsMaxFails} \subseteq Nat

VARIABLES
  sess,       \* sess[s]: "none", "listed", "connected" or "ended"
  seen,       \* seen[s]: number of the last video frame written to s, 0 for none
  ctl,        \* the task that adds or removes a session: where it is
  clientOn,   \* client->global_media_started
  started,    \* g_global_media.global_media_started
  terminated, \* g_global_media.terminated
  waitIdr,    \* g_sender_wait_for_idr
  vq,         \* the contents of s_video_q_store while it is initialised
  qUp,        \* s_video_q /= NULL
  sink,       \* s_video_sink: registered, enabled, gate_armed
  caps,       \* video capture handles that are started
  vHandle,    \* g_global_media.video_handle is one of them
  aHandle,    \* g_global_media.audio_handle: "none" or "live"
  vTid,       \* g_global_media.video_sender_tid, 0 for none
  snd,        \* snd[i]: a video sender thread: where it is, the item it holds
  aud,        \* the audio sender thread
  cap,        \* the encoder's task: the frame it dispatches, and where it is
  alive,      \* the items allocated and not freed
  statsBy,    \* the holder of client->statsLock
  statsValid, \* IS_VALID_MUTEX_VALUE(client->statsLock)
  starts, fails,
  half,       \* history: a start gave up halfway and left behind what it had set up
  excuses     \* history: frames whose loss the sender was not told of

msVars == <<sess, seen, ctl, clientOn, started, terminated, waitIdr, vq, qUp, sink, caps,
            vHandle, aHandle, vTid, snd, aud, cap, alive, statsBy, statsValid, starts,
            fails, half, excuses>>

global   == <<started, terminated>>
queueOf  == <<vq, qUp, sink>>
capture  == <<caps, vHandle, aHandle>>
history  == <<half, excuses>>
bounds   == <<starts, fails>>
peers    == <<sess, seen>>

NoItem == [n |-> 0, key |-> FALSE]
Off    == [pc |-> "off", item |-> NoItem]

Count == Cardinality({s \in Sessions : sess[s] # "none"})

\* A step that may fail: it does so at most MsMaxFails times.
MayFail(ok) == \/ ok /\ UNCHANGED fails
               \/ ~ok /\ fails < MsMaxFails /\ fails' = fails + 1
----------------------------------------------------------------------------
(* Sessions come and go.  Both callers hold session_count_mutex from here  *)
(* until ctl is idle again.                                                *)

SessionAdded(s) ==
  /\ ctl = "idle" /\ sess[s] = "none" /\ statsBy = "none"
  /\ sess' = [sess EXCEPT ![s] = "listed"]
  /\ IF Count = 0 /\ ~clientOn
       THEN starts < MaxStarts /\ starts' = starts + 1 /\ ctl' = "start"
       ELSE ctl' = "idle" /\ UNCHANGED starts
  /\ UNCHANGED <<seen, clientOn, global, waitIdr, queueOf, capture, vTid, snd, aud, cap, alive,
                 statsBy, statsValid, fails, history>>

Starting == {"start", "video", "queue", "thread", "audio"}

\* A session is known to the SDK's callbacks once its creation returned.
\* onConnectionStateChange: CONNECTED sets media_started, an ended state clears it.
SessionConnects(s) ==
  /\ sess[s] = "listed" /\ ctl \notin Starting
  /\ sess' = [sess EXCEPT ![s] = "connected"]
  /\ UNCHANGED <<seen, ctl, clientOn, global, waitIdr, queueOf, capture, vTid, snd, aud,
                 cap, alive, statsBy, statsValid, bounds, history>>

SessionEnds(s) ==
  /\ sess[s] = "connected"
  /\ sess' = [sess EXCEPT ![s] = "ended"]
  /\ UNCHANGED <<seen, ctl, clientOn, global, waitIdr, queueOf, capture, vTid, snd, aud,
                 cap, alive, statsBy, statsValid, bounds, history>>

\* The last session to go stops the transmission first, and its failure is
\* no reason to keep client->global_media_started.
SessionLeaves(s) ==
  /\ ctl = "idle" /\ sess[s] # "none"
  /\ ctl' = IF Count = 1 /\ clientOn THEN "stop" ELSE "remove"
  /\ sess' = [sess EXCEPT ![s] = "ended"]
  /\ UNCHANGED <<seen, clientOn, global, waitIdr, queueOf, capture, vTid, snd, aud, cap,
                 alive, statsBy, statsValid, bounds, history>>

\* Mutant: the client flag survives the stop.
SessionRemovedKeepsFlag(s) ==
  /\ ctl = "remove" /\ sess[s] = "ended" /\ statsBy = "none"
  /\ sess' = [sess EXCEPT ![s] = "none"] /\ ctl' = "idle"
  /\ clientOn' = clientOn /\ seen' = [seen EXCEPT ![s] = 0]
  /\ UNCHANGED <<global, waitIdr, queueOf, capture, vTid, snd, aud, cap, alive,
                 statsBy, statsValid, bounds, history>>

SessionRemoved(s) ==
  /\ ctl = "remove" /\ sess[s] = "ended" /\ statsBy = "none"
  /\ sess' = [sess EXCEPT ![s] = "none"] /\ ctl' = "idle"
  /\ clientOn' = (clientOn /\ Count > 1) /\ seen' = [seen EXCEPT ![s] = 0]
  /\ UNCHANGED <<global, waitIdr, queueOf, capture, vTid, snd, aud, cap, alive,
                 statsBy, statsValid, bounds, history>>
----------------------------------------------------------------------------
(* kvs_media_start_global_transmission                                     *)

StartArms ==
  /\ ctl = "start"
  /\ waitIdr' = TRUE
  /\ terminated' = (terminated /\ started)
  /\ ctl' = IF started THEN "idle" ELSE "video"
  /\ clientOn' = (clientOn \/ started)
  /\ UNCHANGED <<peers, started, queueOf, capture, vTid, snd, aud, cap, alive, statsBy,
                 statsValid, bounds, history>>

\* The capture is initialised and started; when either fails there is no
\* video, and the start goes on with the audio.
StartVideo ==
  /\ ctl = "video"
  /\ \E ok \in BOOLEAN :
       /\ MayFail(ok)
       /\ vHandle' = ok
       /\ caps' = IF ok THEN caps + 1 ELSE caps
       /\ ctl' = IF ok THEN "queue" ELSE "audio"
  /\ UNCHANGED <<peers, clientOn, global, waitIdr, queueOf, aHandle, vTid, snd, aud, cap,
                 alive, statsBy, statsValid, starts, history>>

\* What a start that gives up leaves behind stays: neither the queue nor the
\* sink nor the capture is taken back, and global_media_started is not set.
StartQueue ==
  /\ ctl = "queue" /\ cap.pc = "idle"
  /\ \E ok \in BOOLEAN :
       /\ MayFail(ok)
       /\ ctl' = IF ok THEN "thread" ELSE "idle"
       /\ half' = (half \/ ~ok)
       /\ qUp' = (qUp \/ ok)
       /\ sink' = IF ok THEN [reg |-> TRUE, on |-> TRUE,
                              gate |-> IF sink.on THEN sink.gate ELSE TRUE]
                        ELSE sink
  /\ UNCHANGED <<peers, clientOn, global, waitIdr, vq, capture, vTid, snd, aud, cap, alive,
                 statsBy, statsValid, starts, excuses>>

StartThread ==
  /\ ctl = "thread"
  /\ \/ \E i \in Senders :
          /\ snd[i].pc = "off"
          /\ vTid' = i /\ snd' = [snd EXCEPT ![i] = [pc |-> "top", item |-> NoItem]]
          /\ ctl' = "audio" /\ UNCHANGED <<fails, half>>
     \/ MayFail(FALSE) /\ ctl' = "idle" /\ half' = TRUE /\ UNCHANGED <<vTid, snd>>
  /\ UNCHANGED <<peers, clientOn, global, waitIdr, queueOf, capture, aud, cap, alive,
                 statsBy, statsValid, starts, excuses>>

\* No audio capture, an audio thread, or a thread that cannot be created.
StartAudio ==
  /\ ctl = "audio"
  /\ ctl' = "idle"
  /\ \/ /\ MayFail(FALSE) /\ UNCHANGED aud
        /\ \/ aHandle' = "none" /\ clientOn' = TRUE /\ started' = TRUE /\ UNCHANGED half
           \/ aHandle' = "live" /\ half' = TRUE /\ UNCHANGED <<clientOn, started>>
     \/ /\ aud.pc = "off" /\ aud' = [pc |-> "top", item |-> NoItem]
        /\ aHandle' = "live" /\ clientOn' = TRUE /\ started' = TRUE
        /\ UNCHANGED <<fails, half>>
  /\ UNCHANGED <<peers, terminated, waitIdr, queueOf, caps, vHandle, vTid, snd, cap, alive,
                 statsBy, statsValid, starts, excuses>>
----------------------------------------------------------------------------
(* kvs_media_stop_global_transmission                                      *)

\* video_sink_set_enabled() waits for a dispatch in progress.
StopDisables ==
  /\ ctl = "stop" /\ (started => cap.pc = "idle")
  /\ IF started
       THEN sink' = [sink EXCEPT !.on = FALSE] /\ terminated' = TRUE /\ ctl' = "join_video"
       ELSE ctl' = "remove" /\ UNCHANGED <<sink, terminated>>
  /\ UNCHANGED <<peers, clientOn, started, waitIdr, vq, qUp, capture, vTid, snd, aud, cap,
                 alive, statsBy, statsValid, bounds, history>>

\* Mutant: the stop does not wait for the video thread.
StopForgetsVideo ==
  /\ ctl = "join_video"
  /\ vTid' = 0 /\ ctl' = "join_audio"
  /\ UNCHANGED <<peers, clientOn, global, waitIdr, queueOf, capture, snd, aud, cap, alive,
                 statsBy, statsValid, bounds, history>>

StopJoinsVideo ==
  /\ ctl = "join_video" /\ (vTid # 0 => snd[vTid].pc = "off")
  /\ vTid' = 0 /\ ctl' = "join_audio"
  /\ UNCHANGED <<peers, clientOn, global, waitIdr, queueOf, capture, snd, aud, cap, alive,
                 statsBy, statsValid, bounds, history>>

\* Mutant: the stop does not wait for the audio thread.
StopForgetsAudio ==
  /\ ctl = "join_audio"
  /\ ctl' = "release"
  /\ UNCHANGED <<peers, clientOn, global, waitIdr, queueOf, capture, vTid, snd, aud, cap,
                 alive, statsBy, statsValid, bounds, history>>

StopJoinsAudio ==
  /\ ctl = "join_audio" /\ aud.pc = "off"
  /\ ctl' = "release"
  /\ UNCHANGED <<peers, clientOn, global, waitIdr, queueOf, capture, vTid, snd, aud, cap,
                 alive, statsBy, statsValid, bounds, history>>

\* Drain, unregister, release the queue, stop and deinitialise the captures.
StopReleases ==
  /\ ctl = "release" /\ cap.pc = "idle"
  /\ alive' = alive \ Range(vq)
  /\ vq' = <<>> /\ qUp' = FALSE
  /\ sink' = [reg |-> FALSE, on |-> FALSE, gate |-> FALSE]
  /\ caps' = IF vHandle THEN caps - 1 ELSE caps
  /\ vHandle' = FALSE /\ aHandle' = "none"
  /\ started' = FALSE /\ ctl' = "remove" /\ excuses' = {}
  /\ UNCHANGED <<peers, clientOn, terminated, waitIdr, vTid, snd, aud, cap, statsBy,
                 statsValid, bounds, half>>
----------------------------------------------------------------------------
(* The encoder's task: video_sink_dispatch() and kvs_video_sink_on_frame() *)

\* The encoder's output is bounded, most loosely in a first transmission without a
\* failure and most tightly once two senders may run.
FrameBound ==
  IF half THEN MaxHalfFrames
  ELSE IF starts = 1 /\ fails = 0 THEN MaxFrames ELSE MaxFrames - 1

NoteLoss(n) == excuses' = excuses \cup {n}

\* A key frame the gate has still to see clears it for the frames behind it.
KeyAhead ==
  \/ \E k \in 1..Len(vq) : vq[k].key
  \/ \E i \in Senders : snd[i].pc \in {"gate", "clear"} /\ snd[i].item.key

Dispatch(key) ==
  LET f == [n |-> cap.n + 1, key |-> key]
      taken == sink.on /\ (sink.gate => key)
  IN /\ cap.pc = "idle" /\ caps > 0 /\ cap.n < FrameBound
     /\ cap' = [n |-> f.n, key |-> key, pc |-> IF taken THEN "frame" ELSE "idle"]
     /\ sink' = [sink EXCEPT !.gate = sink.gate /\ ~taken]
     /\ UNCHANGED <<peers, ctl, clientOn, global, waitIdr, vq, qUp, capture, vTid, snd, aud,
                    alive, statsBy, statsValid, bounds, history>>

\* The early return, the allocation, and the queue.
FrameCopied ==
  /\ cap.pc = "frame"
  /\ \/ /\ ~qUp \/ terminated
        /\ cap' = [cap EXCEPT !.pc = "idle"] /\ UNCHANGED <<alive, fails, excuses>>
     \/ /\ qUp /\ ~terminated /\ MayFail(FALSE)
        /\ NoteLoss(cap.n) /\ cap' = [cap EXCEPT !.pc = "idle"] /\ UNCHANGED alive
     \/ /\ qUp /\ ~terminated
        /\ alive' = alive \cup {[n |-> cap.n, key |-> cap.key]}
        /\ cap' = [cap EXCEPT !.pc = "add"] /\ UNCHANGED <<fails, excuses>>
  /\ UNCHANGED <<peers, ctl, clientOn, global, waitIdr, queueOf, capture, vTid, snd, aud,
                 statsBy, statsValid, starts, half>>

\* Mutant: the queue takes one item more than its depth.
FrameQueuedPastFull ==
  LET item == [n |-> cap.n, key |-> cap.key]
  IN /\ cap.pc = "add"
     /\ cap' = [cap EXCEPT !.pc = "idle"]
     /\ IF Len(vq) <= QDepth
          THEN vq' = Append(vq, item) /\ UNCHANGED <<alive, waitIdr, excuses>>
          ELSE /\ alive' = alive \ {item}
               /\ waitIdr' = TRUE
               /\ IF KeyAhead THEN NoteLoss(cap.n) ELSE UNCHANGED excuses
               /\ UNCHANGED vq
     /\ UNCHANGED <<peers, ctl, clientOn, global, qUp, sink, capture, vTid, snd, aud,
                    statsBy, statsValid, bounds, half>>

\* Mutant: a rejected frame does not arm the wait for a key frame.
FrameDroppedSilently ==
  LET item == [n |-> cap.n, key |-> cap.key]
  IN /\ cap.pc = "add"
     /\ cap' = [cap EXCEPT !.pc = "idle"]
     /\ IF Len(vq) < QDepth
          THEN vq' = Append(vq, item) /\ UNCHANGED <<alive, waitIdr, excuses>>
          ELSE /\ alive' = alive \ {item}
               /\ waitIdr' = waitIdr
               /\ IF KeyAhead THEN NoteLoss(cap.n) ELSE UNCHANGED excuses
               /\ UNCHANGED vq
     /\ UNCHANGED <<peers, ctl, clientOn, global, qUp, sink, capture, vTid, snd, aud,
                    statsBy, statsValid, bounds, half>>

FrameQueued ==
  LET item == [n |-> cap.n, key |-> cap.key]
  IN /\ cap.pc = "add"
     /\ cap' = [cap EXCEPT !.pc = "idle"]
     /\ IF Len(vq) < QDepth
          THEN vq' = Append(vq, item) /\ UNCHANGED <<alive, waitIdr, excuses>>
          ELSE /\ alive' = alive \ {item}
               /\ waitIdr' = TRUE
               /\ IF KeyAhead THEN NoteLoss(cap.n) ELSE UNCHANGED excuses
               /\ UNCHANGED vq
     /\ UNCHANGED <<peers, ctl, clientOn, global, qUp, sink, capture, vTid, snd, aud,
                    statsBy, statsValid, bounds, half>>
----------------------------------------------------------------------------
(* kvs_global_video_sender_thread                                          *)

At(i, pc) == snd[i].pc = pc
Go(i, pc) == snd' = [snd EXCEPT ![i].pc = pc]
Free(i, pc) == /\ snd' = [snd EXCEPT ![i] = [pc |-> pc, item |-> NoItem]]
               /\ alive' = alive \ {snd[i].item}

SenderTakes(i) ==
  /\ At(i, "top")
  /\ \/ terminated /\ Go(i, "off") /\ UNCHANGED vq
     \/ /\ ~terminated /\ qUp /\ vq # <<>>
        /\ snd' = [snd EXCEPT ![i] = [pc |-> "gate", item |-> Head(vq)]]
        /\ vq' = Tail(vq)
  /\ UNCHANGED <<peers, ctl, clientOn, global, waitIdr, qUp, sink, capture, vTid, aud, cap,
                 alive, statsBy, statsValid, bounds, history>>

\* Mutant: the frame skipped at the gate is not freed.
SenderGateLeaks(i) ==
  /\ At(i, "gate")
  /\ IF ~waitIdr THEN Go(i, "check") /\ UNCHANGED alive
     ELSE IF snd[i].item.key THEN Go(i, "clear") /\ UNCHANGED alive
     ELSE snd' = [snd EXCEPT ![i] = [pc |-> "top", item |-> NoItem]] /\ UNCHANGED alive
  /\ UNCHANGED <<peers, ctl, clientOn, global, waitIdr, queueOf, capture, vTid, aud, cap,
                 statsBy, statsValid, bounds, history>>

SenderGate(i) ==
  /\ At(i, "gate")
  /\ IF ~waitIdr THEN Go(i, "check") /\ UNCHANGED alive
     ELSE IF snd[i].item.key THEN Go(i, "clear") /\ UNCHANGED alive
     ELSE Free(i, "top")
  /\ UNCHANGED <<peers, ctl, clientOn, global, waitIdr, queueOf, capture, vTid, aud, cap,
                 statsBy, statsValid, bounds, history>>

SenderClears(i) ==
  /\ At(i, "clear")
  /\ waitIdr' = FALSE /\ Go(i, "check")
  /\ UNCHANGED <<peers, ctl, clientOn, global, queueOf, capture, vTid, aud, cap, alive,
                 statsBy, statsValid, bounds, history>>

SenderChecks(i) ==
  /\ At(i, "check")
  /\ IF terminated THEN Free(i, "off") ELSE Go(i, "lock") /\ UNCHANGED alive
  /\ UNCHANGED <<peers, ctl, clientOn, global, waitIdr, queueOf, capture, vTid, aud, cap,
                 statsBy, statsValid, bounds, history>>

\* Mutant: the sender waits for session_count_mutex instead of trying it.
SenderLocksCount(i) ==
  /\ At(i, "lock") /\ ctl = "idle"
  /\ \/ /\ ctl = "idle" /\ Count = 0
        /\ Free(i, "top") /\ UNCHANGED <<statsBy, waitIdr, excuses>>
     \/ /\ ctl # "idle" \/ Count > 0
        /\ \/ /\ ~statsValid
              /\ Free(i, "top") /\ waitIdr' = TRUE
              /\ UNCHANGED <<statsBy, excuses>>
           \/ /\ statsValid /\ statsBy # "none"
              /\ Free(i, "top") /\ NoteLoss(snd[i].item.n)
              /\ UNCHANGED <<statsBy, waitIdr>>
           \/ /\ statsValid /\ statsBy = "none"
              /\ statsBy' = "sender" /\ Go(i, "write")
              /\ UNCHANGED <<alive, waitIdr, excuses>>
  /\ UNCHANGED <<peers, ctl, clientOn, global, queueOf, capture, vTid, aud, cap, statsValid,
                 bounds, half>>

\* Both mutexes are only tried: the task that joins this thread holds
\* session_count_mutex, and a frame that misses statsLock is dropped and
\* reported as sent.
SenderLocks(i) ==
  /\ At(i, "lock")
  /\ \/ /\ ctl = "idle" /\ Count = 0
        /\ Free(i, "top") /\ UNCHANGED <<statsBy, waitIdr, excuses>>
     \/ /\ ctl # "idle" \/ Count > 0
        /\ \/ /\ ~statsValid
              /\ Free(i, "top") /\ waitIdr' = TRUE
              /\ UNCHANGED <<statsBy, excuses>>
           \/ /\ statsValid /\ statsBy # "none"
              /\ Free(i, "top") /\ NoteLoss(snd[i].item.n)
              /\ UNCHANGED <<statsBy, waitIdr>>
           \/ /\ statsValid /\ statsBy = "none"
              /\ statsBy' = "sender" /\ Go(i, "write")
              /\ UNCHANGED <<alive, waitIdr, excuses>>
  /\ UNCHANGED <<peers, ctl, clientOn, global, queueOf, capture, vTid, aud, cap, statsValid,
                 bounds, half>>

\* hashTableIterateEntries() with kvs_session_frame_callback().
SenderWrites(i) ==
  LET f   == snd[i].item
      fed == {s \in Sessions : sess[s] = "connected"}
  IN /\ At(i, "write")
     /\ seen' = [s \in Sessions |-> IF s \in fed THEN f.n ELSE seen[s]]
     /\ excuses' = {k \in excuses : k > f.n \/ fed = {}}
     /\ statsBy' = "none" /\ Free(i, "top")
     /\ UNCHANGED <<sess, ctl, clientOn, global, waitIdr, queueOf, capture, vTid, aud, cap,
                    statsValid, bounds, half>>
----------------------------------------------------------------------------
(* kvs_global_audio_sender_thread, and others that take statsLock          *)

\* A frame is read, then sent unless the transmission was terminated or no
\* session or no lock is to be had: then it is released unsent.
AudioReads ==
  /\ aud.pc = "top"
  /\ \/ terminated /\ aud' = Off /\ UNCHANGED statsBy
     \/ /\ ~terminated /\ statsValid /\ statsBy = "none" /\ (ctl # "idle" \/ Count > 0)
        /\ aud' = [pc |-> "write", item |-> NoItem] /\ statsBy' = "audio"
  /\ UNCHANGED <<peers, ctl, clientOn, global, waitIdr, queueOf, capture, vTid, snd, cap,
                 alive, statsValid, bounds, history>>

AudioWrites ==
  /\ aud.pc = "write"
  /\ aud' = [pc |-> "top", item |-> NoItem] /\ statsBy' = "none"
  /\ UNCHANGED <<peers, ctl, clientOn, global, waitIdr, queueOf, capture, vTid, snd, cap,
                 alive, statsValid, bounds, history>>
----------------------------------------------------------------------------
MsInit ==
  /\ sess = [s \in Sessions |-> "none"] /\ seen = [s \in Sessions |-> 0]
  /\ ctl = "idle" /\ clientOn = FALSE /\ started = FALSE /\ terminated = FALSE
  /\ waitIdr = TRUE
  /\ vq = <<>> /\ qUp = FALSE /\ sink = [reg |-> FALSE, on |-> FALSE, gate |-> FALSE]
  /\ caps = 0 /\ vHandle = FALSE /\ aHandle = "none"
  /\ vTid = 0 /\ snd = [i \in Senders |-> Off] /\ aud = Off
  /\ cap = [n |-> 0, key |-> FALSE, pc |-> "idle"]
  /\ alive = {} /\ statsBy = "none" /\ statsValid \in BOOLEAN
  /\ starts = 0 /\ fails = 0 /\ half = FALSE /\ excuses = {}

MsControl == \/ StartArms \/ StartVideo \/ StartQueue \/ StartThread \/ StartAudio
             \/ StopDisables \/ StopJoinsVideo \/ StopJoinsAudio \/ StopReleases
             \/ \E s \in Sessions : SessionRemoved(s)

MsSession == \E s \in Sessions : \/ SessionAdded(s) \/ SessionConnects(s)
                                 \/ SessionEnds(s) \/ SessionLeaves(s)

MsEncoder == (\E key \in BOOLEAN : Dispatch(key)) \/ FrameCopied \/ FrameQueued

MsSender(i) == \/ SenderTakes(i) \/ SenderGate(i) \/ SenderClears(i) \/ SenderChecks(i)
               \/ SenderLocks(i) \/ SenderWrites(i)

MsAudio == AudioReads \/ AudioWrites

MsNext == MsControl \/ MsSession \/ MsEncoder \/ (\E i \in Senders : MsSender(i)) \/ MsAudio

\* Every thread keeps running: the control task once it began, the senders,
\* and the encoder inside a dispatch.
MsFairness == /\ WF_msVars(MsControl) /\ WF_msVars(FrameCopied) /\ WF_msVars(FrameQueued)
              /\ \A i \in Senders : WF_msVars(MsSender(i))
              /\ WF_msVars(MsAudio)

MsSpec == MsInit /\ [][MsNext]_msVars /\ MsFairness
----------------------------------------------------------------------------
(* Properties                                                              *)

MsTypeOK ==
  /\ \A s \in Sessions : sess[s] \in {"none", "listed", "connected", "ended"}
  /\ ctl \in {"idle", "start", "video", "queue", "thread", "audio", "stop", "join_video",
              "join_audio", "release", "remove"}
  /\ Len(vq) <= QDepth /\ caps \in Nat /\ vTid \in Senders \cup {0}
  /\ statsBy \in {"none", "sender", "audio"}
  /\ \A i \in Senders : snd[i].pc \in {"off", "top", "gate", "clear", "check", "lock",
                                       "write"}

\* Every copied frame has exactly one owner: the encoder's task that just
\* copied it, the queue, or the sender that took it off; none is leaked by a
\* full queue, a skipped frame, a termination or the release of the queue,
\* and none is freed under an owner.
ItemsOwned ==
  LET held  == {snd[i].item : i \in {j \in Senders : snd[j].item # NoItem}}
      fresh == IF cap.pc = "add" THEN {[n |-> cap.n, key |-> cap.key]} ELSE {}
  IN /\ alive = Range(vq) \cup held \cup fresh
     /\ Cardinality(alive) = Len(vq) + Cardinality(fresh)
                             + Cardinality({j \in Senders : snd[j].item # NoItem})

\* The queue's storage is released only when nobody can still reach it: no
\* frame is being copied and no sender runs, unless a start that had failed
\* halfway left a second sender behind.
QueueOutlivesUsers ==
  ~half /\ ~qUp => cap.pc # "add" /\ \A i \in Senders : snd[i].pc \in {"off", "top"}

\* A stopped transmission is quiet: no sender, no capture running, the sink
\* unregistered, so the next start begins from nothing.
StoppedIsQuiet ==
  ~started /\ ctl \in {"idle", "remove"} /\ ~half =>
     /\ \A i \in Senders : snd[i] = Off
     /\ aud = Off /\ caps = 0 /\ aHandle = "none" /\ ~sink.reg /\ vTid = 0

\* The step writes a frame that is no key frame to session s.
WritesDependent(s, i) ==
  At(i, "write") /\ ~snd[i].item.key /\ seen'[s] = snd[i].item.n /\ seen'[s] # seen[s]

\* A frame that needs its predecessor is written after a gap only when the
\* gap holds a loss the sender had no way to notice (no memory for the copy,
\* statsLock busy) or one it was told of while an older key frame was still
\* ahead of it in the queue.
GapsExcused ==
  [][half \/ \A s \in Sessions, i \in Senders :
       WritesDependent(s, i) /\ seen[s] # 0 /\ seen[s] # snd[i].item.n - 1 =>
          \E k \in excuses : seen[s] < k /\ k < snd[i].item.n]_msVars

\* The transmission counts as running on the client exactly when it is.
FlagsAgree == ctl = "idle" => (clientOn = started)

\* The media threads of a peer's session own what they use and nothing outlives a stop; and
\* a viewer never decodes past a frame it silently lost (kvs_media.c).
TransmissionSound ==
  [](ItemsOwned /\ QueueOutlivesUsers /\ StoppedIsQuiet /\ FlagsAgree) /\ GapsExcused
=============================================================================
