------------------------------ MODULE AudioPath ------------------------------
(***************************************************************************)
(* media_stream, audio in both directions.  First OpusFrameGrabber.c behind*)
(* audio_capture_adapter.c: the microphone, a task that reads it into a    *)
(* ring, the encoder task, the queue of encoded frames.  The encoder is a  *)
(* singleton that survives deinit; a handle is only a context with a flag. *)
(* Then OpusAudioPlayer.c behind audio_player_adapter.c, which shares      *)
(* nothing with it.                                                        *)
(***************************************************************************)
EXTENDS Integers, Sequences

CONSTANTS MicRing,    \* frames in mic_pcm_ring
          FrameQueue, \* CONFIG_AUDIO_FRAME_QUEUE_SIZE
          ApMaxFrames, ApMaxStarts   \* bounds

ASSUME ApAssumption == {MicRing, FrameQueue} \subseteq Nat \ {0} /\ {ApMaxFrames, ApMaxStarts} \subseteq Nat

VARIABLES enc,     \* s_enc_data: initialized, running, sem, codec, ring ("none" or TRUE)
          mic,     \* mic_pcm_ring's contents
          fq,      \* frame_queue: encoded frames
          etask,   \* audio_encoder_task: pc and frame
          rtask,   \* i2s_read_task: pc and frame
          ctx,     \* the adapter's handle: "none", "idle", "running"
          stray,   \* frames encoded since the last stop (history)
          starved, \* an init failed with the codec open and no ring (history)
          apc      \* counters: heard, starts

apVars == <<enc, mic, fq, etask, rtask, ctx, stray, starved, apc>>

ApInit ==
  /\ enc = [init |-> FALSE, running |-> FALSE, sem |-> FALSE, codec |-> FALSE, ring |-> FALSE]
  /\ mic = <<>> /\ fq = <<>> /\ ctx = "none" /\ stray = 0 /\ starved = FALSE
  /\ etask = [pc |-> "none", f |-> 0] /\ rtask = [pc |-> "none", f |-> 0]
  /\ apc = [heard |-> 0, starts |-> 0]

----------------------------------------------------------------------------
(* audio_capture_init(), _start(), _stop(), _deinit() and get_frame().     *)

\* Everything is made once; what fails before the end is undone except the open
\* codec, so that the next attempt goes past the ring.
CaptureInit ==
  /\ ctx = "none" /\ apc.starts < ApMaxStarts
  /\ apc' = [apc EXCEPT !.starts = @ + 1]
  /\ IF enc.init
     THEN ctx' = "idle" /\ UNCHANGED <<enc, etask, rtask, starved>>
     ELSE \/ /\ ctx' = "idle"
             /\ enc' = [enc EXCEPT !.init = TRUE, !.running = FALSE, !.sem = FALSE, !.codec = TRUE,
                                   !.ring = @ \/ ~enc.codec]
             /\ etask' = [pc |-> "loop", f |-> 0]
             /\ rtask' = IF enc.codec THEN rtask ELSE [pc |-> "loop", f |-> 0]
             /\ UNCHANGED starved
          \/ /\ ~enc.codec                \* the ring cannot be made
             /\ enc' = [enc EXCEPT !.codec = TRUE]
             /\ starved' = TRUE
             /\ UNCHANGED <<ctx, etask, rtask>>
          \/ UNCHANGED <<ctx, enc, etask, rtask, starved>>   \* encoder, queue or buffers
  /\ UNCHANGED <<mic, fq, stray>>

CaptureStartQuiet ==
  /\ ctx = "idle"
  /\ ctx' = "running"
  /\ enc' = [enc EXCEPT !.running = TRUE]
  /\ UNCHANGED <<mic, fq, etask, rtask, stray, starved, apc>>

CaptureStart ==
  /\ ctx = "idle"
  /\ ctx' = "running"
  /\ enc' = IF enc.running THEN enc ELSE [enc EXCEPT !.running = TRUE, !.sem = TRUE]
  /\ UNCHANGED <<mic, fq, etask, rtask, stray, starved, apc>>

CaptureStop ==
  /\ ctx = "running"
  /\ ctx' = "idle"
  /\ enc' = [enc EXCEPT !.running = FALSE]
  /\ stray' = 0
  /\ UNCHANGED <<mic, fq, etask, rtask, starved, apc>>

\* The queue is emptied; the encoder, its tasks and the ring stay.
CaptureDeinit ==
  /\ ctx = "idle"
  /\ ctx' = "none"
  /\ fq' = <<>>
  /\ UNCHANGED <<enc, mic, etask, rtask, stray, starved, apc>>

AudioGet ==
  /\ ctx = "running" /\ fq # <<>>
  /\ fq' = Tail(fq)
  /\ UNCHANGED <<enc, mic, etask, rtask, ctx, stray, starved, apc>>

----------------------------------------------------------------------------
(* i2s_read_task() and audio_encoder_task().                               *)

MicReads ==
  /\ rtask.pc = "loop" /\ enc.running /\ enc.ring /\ apc.heard < ApMaxFrames
  /\ apc' = [apc EXCEPT !.heard = @ + 1]
  /\ rtask' = [pc |-> "send", f |-> apc.heard + 1]
  /\ UNCHANGED <<enc, mic, fq, etask, ctx, stray, starved>>

\* A ring that stays full for 20 ms loses the frame.
MicSends ==
  /\ rtask.pc = "send"
  /\ mic' = IF Len(mic) < MicRing THEN Append(mic, rtask.f) ELSE mic
  /\ rtask' = [pc |-> "loop", f |-> 0]
  /\ UNCHANGED <<enc, fq, etask, ctx, stray, starved, apc>>

EncoderLoops ==
  /\ etask.pc = "loop"
  /\ etask' = [etask EXCEPT !.pc = IF enc.running THEN "receive" ELSE "take"]
  /\ UNCHANGED <<enc, mic, fq, rtask, ctx, stray, starved, apc>>

EncoderTakes ==
  /\ etask.pc = "take" /\ enc.sem
  /\ enc' = [enc EXCEPT !.sem = FALSE]
  /\ etask' = [etask EXCEPT !.pc = "receive"]
  /\ UNCHANGED <<mic, fq, rtask, ctx, stray, starved, apc>>

\* A whole frame or nothing within the time given; nothing: from the top again.
EncoderReceives ==
  /\ etask.pc = "receive"
  /\ IF mic # <<>> THEN mic' = Tail(mic) /\ etask' = [pc |-> "send", f |-> Head(mic)]
                   ELSE UNCHANGED mic /\ etask' = [pc |-> "loop", f |-> 0]
  /\ UNCHANGED <<enc, fq, rtask, ctx, stray, starved, apc>>

EncoderSendsOn ==
  /\ etask.pc = "send"
  /\ fq' = IF Len(fq) < FrameQueue THEN Append(fq, etask.f) ELSE fq
  /\ stray' = IF enc.running THEN stray ELSE stray + 1
  /\ etask' = [pc |-> "receive", f |-> 0]
  /\ UNCHANGED <<enc, mic, rtask, ctx, starved, apc>>

\* The queue waits 50 ms for room, then the frame is lost.
EncoderSends ==
  /\ etask.pc = "send"
  /\ fq' = IF Len(fq) < FrameQueue THEN Append(fq, etask.f) ELSE fq
  /\ stray' = IF enc.running THEN stray ELSE stray + 1
  /\ etask' = [pc |-> "loop", f |-> 0]
  /\ UNCHANGED <<enc, mic, rtask, ctx, starved, apc>>

EncoderStep == EncoderLoops \/ EncoderTakes \/ EncoderReceives \/ EncoderSends
MicStep == MicReads \/ MicSends
ApNext ==
  \/ CaptureInit \/ CaptureStart \/ CaptureStop \/ CaptureDeinit \/ AudioGet
  \/ MicStep \/ EncoderStep

ApFairness == WF_apVars(EncoderStep) /\ WF_apVars(MicStep)
ApSpec == ApInit /\ [][ApNext]_apVars /\ ApFairness

----------------------------------------------------------------------------
(* After a stop the encoder adds at most two frames: the one it was at     *)
(* work on, and one more when the token of a start it never had to wait    *)
(* for is still in the semaphore (lines 209-213, 582).  So what a later    *)
(* start delivers of an earlier capture is bounded.                        *)
StrayBounded == stray <= 2

----------------------------------------------------------------------------
(***************************************************************************)
(* media_stream/src/OpusAudioPlayer.c behind audio_player_adapter.c: the   *)
(* queue of received frames, the decoder task, the ring of decoded samples *)
(* (at the end) and the playback task.  The player is made once and never *)
(* taken down; a handle is a context with a flag.  A failed first          *)
(* initialisation may leave a decoder task behind, which shares the queue  *)
(* and the output buffer with the one of the next attempt.                 *)
(***************************************************************************)
CONSTANTS PlayQueue,  \* MAX_QUEUE_SIZE
          OutRing,    \* frames in the ring
          AuMaxFrames, AuMaxFaults, AuMaxInits   \* bounds

ASSUME AuAssumption == {PlayQueue, OutRing} \subseteq Nat \ {0} /\ {AuMaxFrames, AuMaxFaults, AuMaxInits} \subseteq Nat

VARIABLES player,  \* initialized, spk (the codec: "none", "closed", "open"), inits
          handle,  \* "none", "idle", "running"
          pq,      \* frame_queue
          dtasks,  \* decoder tasks: the frame each has in hand, 0 for none
          outf,    \* write_ctx.out_frame: the frame decoded into it, 0 for none
          oring,   \* samples of frames in the ring
          played,  \* what the playback task has written
          sent, faults

auVars == <<player, handle, pq, dtasks, outf, oring, played, sent, faults>>

AuInit ==
  /\ player = [init |-> FALSE, spk |-> "none", inits |-> 0]
  /\ handle = "none" /\ pq = <<>> /\ dtasks = <<>> /\ outf = 0
  /\ oring = <<>> /\ played = <<>> /\ sent = 0 /\ faults = 0

\* audio_player_init(): OpusAudioPlayerInit() has effect until it first succeeds.
\* spk: how far the speaker's codec gets; left: the tasks made when it fails.
PlayerInit ==
  /\ handle = "none" /\ player.inits < AuMaxInits
  /\ IF player.init
     THEN handle' = "idle" /\ player' = [player EXCEPT !.inits = @ + 1] /\ UNCHANGED <<pq, dtasks, outf, oring>>
     ELSE \/ /\ handle' = "idle"
             /\ player' = [init |-> TRUE, spk |-> IF player.spk = "none" THEN "open" ELSE player.spk,
                           inits |-> player.inits + 1]
             /\ dtasks' = Append(dtasks, 0) /\ pq' = <<>> /\ outf' = 0 /\ oring' = <<>>
          \/ /\ player.spk = "none"          \* the codec does not open
             /\ \E s \in {"none", "closed"} : player' = [player EXCEPT !.spk = s, !.inits = @ + 1]
             /\ pq' = <<>>
             /\ UNCHANGED <<handle, dtasks, outf, oring>>
          \/ /\ player' = [player EXCEPT !.spk = IF @ = "none" THEN "open" ELSE @, !.inits = @ + 1]
             /\ pq' = <<>> /\ outf' = 0 /\ oring' = <<>>
             /\ dtasks' \in {dtasks, Append(dtasks, 0)}   \* before and after the decoder task is made
             /\ UNCHANGED handle
  /\ UNCHANGED <<played, sent, faults>>

PlayerStart0 ==
  /\ handle = "idle"
  /\ handle' = "running"
  /\ UNCHANGED <<player, pq, dtasks, outf, oring, played, sent, faults>>

PlayerStop ==
  /\ handle = "running"
  /\ handle' = "idle"
  /\ UNCHANGED <<player, pq, dtasks, outf, oring, played, sent, faults>>

\* OpusAudioPlayerDeinit() does nothing.
PlayerDeinit ==
  /\ handle = "idle"
  /\ handle' = "none"
  /\ UNCHANGED <<player, pq, dtasks, outf, oring, played, sent, faults>>

PlayFrameFirst ==
  /\ handle = "running" /\ sent < AuMaxFrames
  /\ sent' = sent + 1
  /\ pq' = IF Len(pq) < PlayQueue THEN <<sent + 1>> \o pq ELSE pq
  /\ UNCHANGED <<player, handle, dtasks, outf, oring, played, faults>>

\* audio_player_play_frame(): a copy is queued, or dropped after 20 ms.
PlayFrame ==
  /\ handle = "running" /\ sent < AuMaxFrames
  /\ sent' = sent + 1
  /\ pq' = IF Len(pq) < PlayQueue THEN Append(pq, sent + 1) ELSE pq
  /\ UNCHANGED <<player, handle, dtasks, outf, oring, played, faults>>

DecoderReceives ==
  /\ pq # <<>>
  /\ \E t \in DOMAIN dtasks : dtasks[t] = 0 /\ dtasks' = [dtasks EXCEPT ![t] = Head(pq)]
  /\ pq' = Tail(pq)
  /\ UNCHANGED <<player, handle, outf, oring, played, sent, faults>>

\* The buffer is written whether or not this frame was decoded into it; a ring
\* that stays full for 50 ms loses it.
DecoderDecodes ==
  /\ \E t \in DOMAIN dtasks :
       /\ dtasks[t] # 0
       /\ \/ outf' = dtasks[t] /\ UNCHANGED faults
          \/ faults < AuMaxFaults /\ faults' = faults + 1 /\ UNCHANGED outf
       /\ dtasks' = [dtasks EXCEPT ![t] = 0]
       /\ oring' = IF outf' # 0 /\ Len(oring) < OutRing
                   THEN Append(oring, [n |-> outf', again |-> outf' # dtasks[t]]) ELSE oring
  /\ UNCHANGED <<player, handle, pq, played, sent>>

\* rb_read() and the speaker; without one the samples are thrown away.
Playback ==
  /\ oring # <<>>
  /\ oring' = Tail(oring)
  /\ played' = IF player.spk = "none" THEN played ELSE Append(played, Head(oring))
  /\ UNCHANGED <<player, handle, pq, dtasks, outf, sent, faults>>

AuNext ==
  \/ PlayerInit \/ PlayerStart0 \/ PlayerStop \/ PlayerDeinit \/ PlayFrame
  \/ DecoderReceives \/ DecoderDecodes \/ Playback
AuSpec == AuInit /\ [][AuNext]_auVars

----------------------------------------------------------------------------
(* Playback is in order and a frame sounds again only in the place of one  *)
(* that could not be decoded, over overflows, decode errors, stops and     *)
(* repeated inits, as long as no failed init has left a second decoder.    *)
PlayedInOrder ==
  Len(dtasks) <= 1 =>
    \A i \in 2 .. Len(played) :
      IF played[i].again THEN played[i].n >= played[i - 1].n ELSE played[i].n > played[i - 1].n

----------------------------------------------------------------------------
(***************************************************************************)
(* media_stream/src/ringbuf.c between its two users, the Opus decoder that *)
(* writes decoded samples and the playback task that reads them: one       *)
(* writer and one reader over a circular memory, a mutex, and two binary   *)
(* semaphores that are created given.  What is done while the mutex is     *)
(* held is one step.  A reader keeps its own copy of the read pointer      *)
(* while it waits.  The abort and reset calls have no caller.              *)
(***************************************************************************)
CONSTANTS RbSize,      \* size of the ring
          Chunks,      \* sizes asked for by a read or a write
          RbMaxBytes   \* bound on what is written

ASSUME RbAssumption == RbSize \in Nat \ {0, 1} /\ Chunks \subseteq Nat \ {0} /\ RbMaxBytes \in Nat

VARIABLES rb,      \* mem, rd, wr (0..RbSize), fill, canR, canW, finished, unblock
          rdr,     \* rb_read(): pc, want, ptr (the local readptr), total
          wtr,     \* rb_write(): pc, left, size (the last write_size), total
          wrote,   \* bytes copied in, numbered in order
          out      \* bytes copied out so far

rbVars == <<rb, rdr, wtr, wrote, out>>

NoRead == [pc |-> "idle", want |-> 0, ptr |-> 0, total |-> 0]
NoWrite == [pc |-> "idle", left |-> 0, size |-> 0, total |-> 0]

RbInit ==
  /\ rb = [mem |-> [i \in 0 .. RbSize - 1 |-> 0], rd |-> 0, wr |-> 0, fill |-> 0,
           canR |-> TRUE, canW |-> TRUE, finished |-> FALSE, unblock |-> FALSE]
  /\ rdr = NoRead /\ wtr = NoWrite /\ wrote = 0 /\ out = <<>>

Least(a, b) == IF a < b THEN a ELSE b

AfterBase(p, n) == IF p + n > RbSize THEN 0 ELSE p + n

\* The end of memory is a position of its own: the wrap happens at the next copy.
After(p, n) == IF p + n > RbSize THEN p + n - RbSize ELSE p + n
At(p, i) == IF p + i >= RbSize THEN p + i - RbSize ELSE p + i

----------------------------------------------------------------------------
(* rb_write().                                                             *)

Write(n) ==
  /\ wtr.pc = "idle" /\ wrote + n <= RbMaxBytes
  /\ wtr' = [NoWrite EXCEPT !.pc = "copy", !.left = n]
  /\ UNCHANGED <<rb, rdr, wrote, out>>

WriteCopiesMute ==
  /\ wtr.pc = "copy"
  /\ LET n == Least(RbSize - rb.fill, wtr.left) IN
     /\ rb' = [rb EXCEPT !.mem = [i \in DOMAIN @ |-> IF \E k \in 1 .. n : At(rb.wr, k - 1) = i
                                                     THEN wrote + (CHOOSE k \in 1 .. n : At(rb.wr, k - 1) = i)
                                                     ELSE @[i]],
                         !.wr = After(@, n), !.fill = @ + n]
     /\ wrote' = wrote + n
     /\ wtr' = [wtr EXCEPT !.left = @ - n, !.size = n, !.total = @ + n,
                           !.pc = IF wtr.left = n THEN "done" ELSE "wait"]
  /\ UNCHANGED <<rdr, out>>

\* Under the lock: what fits is copied, in two parts at the end of memory.
WriteCopies ==
  /\ wtr.pc = "copy"
  /\ LET n == Least(RbSize - rb.fill, wtr.left) IN
     /\ rb' = [rb EXCEPT !.mem = [i \in DOMAIN @ |-> IF \E k \in 1 .. n : At(rb.wr, k - 1) = i
                                                     THEN wrote + (CHOOSE k \in 1 .. n : At(rb.wr, k - 1) = i)
                                                     ELSE @[i]],
                         !.wr = After(@, n), !.fill = @ + n, !.canR = TRUE]
     /\ wrote' = wrote + n
     /\ wtr' = [wtr EXCEPT !.left = @ - n, !.size = n, !.total = @ + n,
                           !.pc = IF wtr.left = n THEN "done" ELSE "wait"]
  /\ UNCHANGED <<rdr, out>>

\* writer_finished makes it return; otherwise it waits for a read, for a limited time.
WriteWaits ==
  /\ wtr.pc = "wait"
  /\ \/ rb.finished /\ wtr' = [wtr EXCEPT !.pc = "done"] /\ UNCHANGED rb
     \/ ~rb.finished /\ rb.canW
        /\ rb' = [rb EXCEPT !.canW = FALSE]
        /\ wtr' = [wtr EXCEPT !.pc = "copy"]
     \/ ~rb.finished /\ ~rb.canW /\ wtr' = [wtr EXCEPT !.pc = "done"] /\ UNCHANGED rb
  /\ UNCHANGED <<rdr, wrote, out>>

WriteReturns ==
  /\ wtr.pc = "done"
  /\ wtr' = NoWrite
  /\ UNCHANGED <<rb, rdr, wrote, out>>

----------------------------------------------------------------------------
(* rb_read() without a limit on its waits.                                 *)

Read(n) ==
  /\ rdr.pc = "idle"
  /\ rdr' = [pc |-> "copy", want |-> n, ptr |-> rb.rd, total |-> 0]
  /\ UNCHANGED <<rb, wtr, wrote, out>>

ReadCopies ==
  /\ rdr.pc = "copy"
  /\ LET n == Least(rb.fill, rdr.want)
         p == After(rdr.ptr, n) IN
     /\ out' = out \o [k \in 1 .. n |-> rb.mem[At(rdr.ptr, k - 1)]]
     /\ rb' = [rb EXCEPT !.fill = @ - n, !.rd = p, !.canW = TRUE]
     /\ rdr' = [rdr EXCEPT !.want = @ - n, !.ptr = p, !.total = @ + n,
                           !.pc = IF rdr.want = n THEN "out" ELSE "flags"]
  /\ UNCHANGED <<wtr, wrote>>

\* Out of the lock: a flag seen here spares the wait.
ReadLooks ==
  /\ rdr.pc = "flags"
  /\ rdr' = [rdr EXCEPT !.pc = IF rb.finished \/ rb.unblock THEN "woken" ELSE "take"]
  /\ UNCHANGED <<rb, wtr, wrote, out>>

ReadTakes ==
  /\ rdr.pc = "take" /\ rb.canR
  /\ rb' = [rb EXCEPT !.canR = FALSE]
  /\ rdr' = [rdr EXCEPT !.pc = "woken"]
  /\ UNCHANGED <<wtr, wrote, out>>

ReadWoken ==
  /\ rdr.pc = "woken"
  /\ rdr' = [rdr EXCEPT !.pc = IF rb.finished \/ rb.unblock THEN "out" ELSE "copy"]
  /\ UNCHANGED <<rb, wtr, wrote, out>>

ReadReturns ==
  /\ rdr.pc = "out"
  /\ rb' = [rb EXCEPT !.unblock = FALSE]
  /\ rdr' = NoRead
  /\ UNCHANGED <<wtr, wrote, out>>

----------------------------------------------------------------------------
(* rb_signal_writer_finished() and rb_wakeup_reader(): a flag, then a give. *)

Finish ==
  /\ ~rb.finished
  /\ rb' = [rb EXCEPT !.finished = TRUE, !.canR = TRUE]
  /\ UNCHANGED <<rdr, wtr, wrote, out>>

WakeupReader ==
  /\ ~rb.unblock /\ rdr.pc # "idle"
  /\ rb' = [rb EXCEPT !.unblock = TRUE, !.canR = TRUE]
  /\ UNCHANGED <<rdr, wtr, wrote, out>>

RbReads == ReadCopies \/ ReadLooks \/ ReadTakes \/ ReadWoken \/ ReadReturns
RbWrites == WriteCopies \/ WriteWaits \/ WriteReturns
RbNext ==
  \/ \E n \in Chunks : Write(n) \/ Read(n)
  \/ RbReads \/ RbWrites \/ Finish \/ WakeupReader

RbFairness == WF_rbVars(RbReads) /\ WF_rbVars(RbWrites)
RbSpec == RbInit /\ [][RbNext]_rbVars /\ RbFairness

----------------------------------------------------------------------------
(* The ring is a queue of bytes: what was read, followed by what is stored *)
(* from the read pointer on, is everything that was written, in order, and *)
(* fill_cnt is the distance of the two pointers.                           *)
RingFifo ==
  /\ out \o [k \in 1 .. rb.fill |-> rb.mem[At(rb.rd, k - 1)]] = [k \in 1 .. wrote |-> k]
  /\ (rb.wr - rb.rd - rb.fill) % RbSize = 0
  /\ rb.fill \in 0 .. RbSize
=============================================================================
