----------------------------- MODULE VideoPlayer -----------------------------
(***************************************************************************)
(* media_stream/src/video_player_adapter.c (the enabled half): frames      *)
(* received by the RTP thread are queued and decoded by a task of their    *)
(* own.  Both threads write wait_for_idr, the gate that keeps a frame away *)
(* from a decoder that has not seen the frames it builds on, and both      *)
(* empty the queue; neither takes a lock.                                  *)
(***************************************************************************)
EXTENDS Integers, Sequences

CONSTANTS Depth,      \* CONFIG_MEDIA_STREAM_PLAYER_QUEUE_DEPTH
          MaxFrames,  \* bound on the frames received
          MaxErrors,  \* bound on decoder errors and failed allocations
          MaxStarts   \* bound on the times the player is started

ASSUME VpAssumption == Depth \in Nat \ {0} /\ MaxFrames \in Nat /\ MaxErrors \in Nat /\ MaxStarts \in Nat

VARIABLES vp,      \* the context: running, stopping, wait_for_idr, dec
          vq,      \* the frame queue
          dtask,   \* decode_task: pc and the frame in hand
          rtp,     \* the RTP thread inside video_player_play_frame()
          vctl,    \* the control thread inside start and stop
          ref,     \* the last frame the decoder took (0: none), outside the code
          got,     \* frames received so far
          errors, starts,
          smeared, \* a frame was decoded without the one it builds on (history)
          stolen,  \* a reset or a drain crossed play_frame(), or took frames let in (history)
          reopened \* the gate was opened on queued frames that lost their reference (history)

vpVars == <<vp, vq, dtask, rtp, vctl, ref, got, errors, starts, smeared, stolen, reopened>>

\* A frame is numbered in the sender's order; a key frame needs no other.
NoFrame == [n |-> 0, key |-> FALSE]
Sentinel == [n |-> -1, key |-> FALSE]

QueueHasKey(q) == \E i \in 1 .. Len(q) : q[i].key

\* The last frame taken for decoding, and a queued delta frame that lost the one it builds on.
Taken == IF dtask.f # NoFrame THEN dtask.f.n ELSE ref
Kept(m) == m = Taken \/ \E j \in 1 .. Len(vq) : vq[j].n = m
Orphaned == \E i \in 1 .. Len(vq) : vq[i] # Sentinel /\ ~vq[i].key /\ ~Kept(vq[i].n - 1)

VpInit ==
  /\ vp = [running |-> FALSE, stopping |-> FALSE, wait |-> TRUE, dec |-> TRUE]
  /\ vq = <<>> /\ ref = 0 /\ got = 0 /\ errors = 0 /\ starts = 0
  /\ dtask = [pc |-> "gone", f |-> NoFrame]
  /\ rtp = [pc |-> "idle", f |-> NoFrame]
  /\ vctl = "idle" /\ smeared = FALSE /\ stolen = FALSE /\ reopened = FALSE

----------------------------------------------------------------------------
(* video_player_play_frame() on the RTP thread.                            *)

\* The scan, the gate, and what a key frame does to it.
PlayChecks ==
  /\ rtp.pc = "idle" /\ vp.running /\ got < MaxFrames
  /\ got' = got + 1
  /\ \E key \in BOOLEAN :
       IF vp.wait /\ ~key
       THEN UNCHANGED <<rtp, vp, reopened>>   \* dropped, a key frame is requested
       ELSE /\ rtp' = [pc |-> "room", f |-> [n |-> got + 1, key |-> key]]
            /\ vp' = [vp EXCEPT !.wait = @ /\ ~key]
            /\ reopened' = (reopened \/ (vp.wait /\ Orphaned))
  /\ UNCHANGED <<vq, dtask, vctl, ref, errors, starts, smeared, stolen>>

PlayMakesRoomQuietly ==
  /\ rtp.pc = "room"
  /\ IF Len(vq) < Depth
     THEN rtp' = [rtp EXCEPT !.pc = "send"] /\ UNCHANGED <<vp, vq>>
     ELSE IF rtp.f.key
     THEN rtp' = [rtp EXCEPT !.pc = "send"] /\ vq' = <<>> /\ UNCHANGED vp
     ELSE rtp' = [pc |-> "idle", f |-> NoFrame] /\ UNCHANGED <<vp, vq>>
  /\ UNCHANGED <<dtask, vctl, ref, got, errors, starts, smeared, stolen, reopened>>

\* A full queue: a delta frame closes the gate, a key frame empties the queue.
PlayMakesRoom ==
  /\ rtp.pc = "room"
  /\ IF Len(vq) < Depth
     THEN rtp' = [rtp EXCEPT !.pc = "send"] /\ UNCHANGED <<vp, vq>>
     ELSE IF rtp.f.key
     THEN rtp' = [rtp EXCEPT !.pc = "send"] /\ vq' = <<>> /\ UNCHANGED vp
     ELSE rtp' = [pc |-> "idle", f |-> NoFrame] /\ vp' = [vp EXCEPT !.wait = TRUE] /\ UNCHANGED vq
  /\ UNCHANGED <<dtask, vctl, ref, got, errors, starts, smeared, stolen, reopened>>

\* The copy and xQueueSend() without waiting.
PlaySends ==
  /\ rtp.pc = "send"
  /\ \/ /\ Len(vq) < Depth
        /\ vq' = Append(vq, rtp.f)
        /\ UNCHANGED <<vp, errors>>
     \/ /\ Len(vq) >= Depth
        /\ vp' = [vp EXCEPT !.wait = TRUE]
        /\ UNCHANGED <<vq, errors>>
     \/ /\ errors < MaxErrors            \* no memory
        /\ errors' = errors + 1
        /\ vp' = [vp EXCEPT !.wait = TRUE]
        /\ UNCHANGED vq
  /\ rtp' = [pc |-> "idle", f |-> NoFrame]
  /\ UNCHANGED <<dtask, vctl, ref, got, starts, smeared, stolen, reopened>>

\* video_player_clear_buffer(), on the same thread.
ClearBuffer ==
  /\ rtp.pc = "idle" /\ vctl = "idle" /\ vp.running /\ vq # <<>>
  /\ vq' = <<>>
  /\ vp' = [vp EXCEPT !.wait = TRUE]
  /\ UNCHANGED <<dtask, rtp, vctl, ref, got, errors, starts, smeared, stolen, reopened>>

----------------------------------------------------------------------------
(* decode_task().                                                          *)

TaskLoops ==
  /\ dtask.pc = "loop"
  /\ dtask' = [dtask EXCEPT !.pc = IF vp.stopping THEN "ending" ELSE "receive"]
  /\ UNCHANGED <<vp, vq, rtp, vctl, ref, got, errors, starts, smeared, stolen, reopened>>

\* xQueueReceive() without a limit, the sentinel, and the task's own look at the gate.
TaskReceives ==
  /\ dtask.pc = "receive" /\ vq # <<>>
  /\ vq' = Tail(vq)
  /\ dtask' = IF Head(vq) = Sentinel THEN [dtask EXCEPT !.pc = "ending"]
              ELSE IF vp.wait /\ ~Head(vq).key THEN [dtask EXCEPT !.pc = "loop"]
              ELSE [pc |-> "decode", f |-> Head(vq)]
  /\ UNCHANGED <<vp, rtp, vctl, ref, got, errors, starts, smeared, stolen, reopened>>

\* A decoder lost to an earlier error is made anew, or the frame is given up.
TaskRecreates ==
  /\ dtask.pc = "decode" /\ ~vp.dec
  /\ \/ /\ vp' = [vp EXCEPT !.dec = TRUE, !.wait = TRUE]
        /\ UNCHANGED <<dtask, errors, stolen>>
     \/ /\ errors < MaxErrors
        /\ errors' = errors + 1
        /\ dtask' = [pc |-> "loop", f |-> NoFrame]
        /\ stolen' = (stolen \/ ~vp.wait)
        /\ UNCHANGED vp
  /\ ref' = 0
  /\ UNCHANGED <<vq, rtp, vctl, got, starts, smeared, reopened>>

TaskDecodes ==
  /\ dtask.pc = "decode" /\ vp.dec
  /\ ref' = dtask.f.n
  /\ smeared' = (smeared \/ (~dtask.f.key /\ ref # dtask.f.n - 1))
  /\ dtask' = [pc |-> "loop", f |-> NoFrame]
  /\ UNCHANGED <<vp, vq, rtp, vctl, got, errors, starts, stolen, reopened>>

\* An error of the decoder: it is made anew, the gate closes, ...
TaskFails ==
  /\ dtask.pc = "decode" /\ vp.dec /\ errors < MaxErrors
  /\ errors' = errors + 1
  /\ \E made \in BOOLEAN : vp' = [vp EXCEPT !.dec = made, !.wait = TRUE]
  /\ ref' = 0
  /\ dtask' = [dtask EXCEPT !.pc = "empty"]
  /\ stolen' = (stolen \/ rtp.pc # "idle")
  /\ UNCHANGED <<vq, rtp, vctl, got, starts, smeared, reopened>>

\* ... then the queue is emptied.
TaskEmpties ==
  /\ dtask.pc = "empty"
  /\ vq' = <<>>
  /\ stolen' = (stolen \/ QueueHasKey(vq) \/ rtp.pc # "idle")
  /\ dtask' = [pc |-> "loop", f |-> NoFrame]
  /\ UNCHANGED <<vp, rtp, vctl, ref, got, errors, starts, smeared, reopened>>

\* Outside the loop: the queue is emptied again and the task deletes itself.
TaskEnds ==
  /\ dtask.pc = "ending"
  /\ vq' = <<>>
  /\ stolen' = (stolen \/ vq # <<>>)
  /\ dtask' = [pc |-> "gone", f |-> NoFrame]
  /\ UNCHANGED <<vp, rtp, vctl, ref, got, errors, starts, smeared, reopened>>

----------------------------------------------------------------------------
(* The control thread: video_player_start() and video_player_stop().       *)

PlayerStart ==
  /\ vctl = "idle" /\ ~vp.running /\ rtp.pc = "idle" /\ starts < MaxStarts
  /\ starts' = starts + 1
  /\ vp' = [vp EXCEPT !.stopping = FALSE, !.running = TRUE]
  /\ dtask' = [pc |-> "loop", f |-> NoFrame]
  /\ UNCHANGED <<vq, rtp, vctl, ref, got, errors, smeared, stolen, reopened>>

StopAsks ==
  /\ vctl = "idle" /\ vp.running
  /\ vp' = [vp EXCEPT !.stopping = TRUE]
  /\ vctl' = "empty"
  /\ UNCHANGED <<vq, dtask, rtp, ref, got, errors, starts, smeared, stolen, reopened>>

StopEmpties ==
  /\ vctl = "empty"
  /\ vq' = <<>>
  /\ stolen' = (stolen \/ vq # <<>>)
  /\ vctl' = "wake"
  /\ UNCHANGED <<vp, dtask, rtp, ref, got, errors, starts, smeared, reopened>>

StopWakesNot ==
  /\ vctl = "wake"
  /\ vctl' = "await"
  /\ UNCHANGED <<vp, vq, dtask, rtp, ref, got, errors, starts, smeared, stolen, reopened>>

\* The sentinel, waiting for room without a limit.
StopWakes ==
  /\ vctl = "wake" /\ Len(vq) < Depth
  /\ vq' = Append(vq, Sentinel)
  /\ vctl' = "await"
  /\ UNCHANGED <<vp, dtask, rtp, ref, got, errors, starts, smeared, stolen, reopened>>

StopReturns ==
  /\ vctl = "await" /\ dtask.pc = "gone"
  /\ vp' = [vp EXCEPT !.running = FALSE]
  /\ vctl' = "idle"
  /\ UNCHANGED <<vq, dtask, rtp, ref, got, errors, starts, smeared, stolen, reopened>>

TaskStep == TaskLoops \/ TaskReceives \/ TaskRecreates \/ TaskDecodes \/ TaskFails \/ TaskEmpties \/ TaskEnds
StopStep == StopEmpties \/ StopWakes \/ StopReturns
PlayStep == PlayMakesRoom \/ PlaySends

VpNext == PlayChecks \/ PlayStep \/ ClearBuffer \/ TaskStep \/ PlayerStart \/ StopAsks \/ StopStep
VpFairness == WF_vpVars(TaskStep) /\ WF_vpVars(StopStep) /\ WF_vpVars(PlayStep)
VpSpec == VpInit /\ [][VpNext]_vpVars /\ VpFairness

----------------------------------------------------------------------------
(* No frame is decoded by a decoder that lacks the frame before it, over   *)
(* overflows, failed allocations, decoder errors and stops, as long as no  *)
(* reset of the decoder (lines 385-387) and no drain of a stop (417, 530)  *)
(* crosses a frame on its way through play_frame(), or takes frames the    *)
(* gate has let in since (`stolen'): the gate and the queue are two steps. *)
(* Nor may the decoder fail to be made anew a second time, when a key      *)
(* frame has opened the gate (354-357): the frame is dropped, the gate     *)
(* stays open.  And the key frame that opens the gate after an overflow    *)
(* (254-260) opens it for the whole queue at once (574-576), for the delta *)
(* frames in front of it too: one of them that waits behind a frame the    *)
(* task had skipped is decoded after all (`reopened').                     *)
NoSmear == smeared => stolen \/ reopened

=============================================================================
