------------------------------ MODULE VideoIf ------------------------------
(***************************************************************************)
(* The camera interface, esp_video_if.c: the V4L2 buffers, who has them    *)
(* (the driver, a reader), and every way a start can fail.  The driver is  *)
(* external: it refuses a buffer it already has and a closed descriptor,   *)
(* and STREAMOFF or a new REQBUFS takes all its buffers from it.           *)
(***************************************************************************)
EXTENDS Naturals, FiniteSets

CONSTANTS NBufs,    \* BUFFER_COUNT
          Readers,  \* who holds frames: the pump and the sinks
          MaxIoErr  \* bound: ioctls, opens and allocations that fail

ASSUME ViAssumption == NBufs \in Nat \ {0} /\ MaxIoErr \in Nat

Bufs == 1..NBufs

VARIABLES
  uvc,    \* the build: a USB camera (MMAP buffers), else MIPI (USERPTR)
  v4l2,   \* g_v4l2: there, fd (open), alloc (buffers_allocated), on (streaming); the sets
          \* mem (cap_buffer), used (fb_used), drv (with the driver), same (fb[].buf is current)
  reg,    \* s_esp_video_registered
  held,   \* held[r]: the reader's buffer, 0 for none
  late,   \* history: readers that hold a frame of before the last start or stop
  odd,    \* history: "reused": a late reader's return was taken for that of the buffer's next
          \* reader; "cut": a start of a streaming camera failed at its first buffer
  nerr

viVars == <<uvc, v4l2, reg, held, late, odd, nerr>>

NoCamera == [there |-> FALSE, fd |-> FALSE, alloc |-> FALSE, on |-> FALSE,
             mem |-> {}, used |-> {}, drv |-> {}, same |-> {}]

\* What a step of a start can end in: the state, success, and how many errors it took.
Ends(c, ok, e) == [c |-> c, ok |-> ok, e |-> e]

StreamOff(c) == [c EXCEPT !.on = FALSE, !.drv = {}]
----------------------------------------------------------------------------
\* Mutant: the descriptors of buffers in use are left alone.
QueueAllButUsed(c) ==
  {Ends([c EXCEPT !.drv = @ \cup (Bufs \ c.used)], TRUE, 0)}

\* Mutant: one buffer too many.
QueueAllOneMore(c) ==
  {Ends([c EXCEPT !.used = {}, !.drv = Bufs \cup {NBufs + 1}], TRUE, 0)}

\* queue_all_buffers(): in order, marking each unused before it is queued; a
\* failure flushes the driver unless it was the first buffer's.
QueueAll(c) ==
  LET FailsAt(b, e) ==
        Ends([c EXCEPT !.used = @ \ (1..b), !.drv = IF b > 1 THEN {} ELSE @,
                       !.on = @ /\ b = 1], FALSE, e)
      first == {b \in c.drv : \A x \in c.drv : b <= x}
  IN {FailsAt(b, 1) : b \in {b \in Bufs : \A x \in first : b < x}}
       \cup (IF c.drv = {} THEN {Ends([c EXCEPT !.used = {}, !.drv = Bufs], TRUE, 0)}
                           ELSE {FailsAt(b, 0) : b \in first})

\* restart_streaming_with_existing_buffers(): a failed STREAMON leaves them queued.
Restart(c) ==
  LET queued == QueueAll(c)
      done   == {q \in queued : q.ok}
  IN (queued \ done) \cup {Ends([q.c EXCEPT !.on = TRUE], TRUE, q.e) : q \in done}
                     \cup {Ends(q.c, FALSE, q.e + 1) : q \in done}

\* Mutant: what was mapped before the failure stays mapped.
AllocateLeaks(c) ==
  {Ends([c EXCEPT !.drv = Bufs, !.mem = Bufs, !.alloc = TRUE], TRUE, 0)}
    \cup {Ends([c EXCEPT !.drv = 1..(b - 1), !.mem = 1..(b - 1)], FALSE, 1) : b \in Bufs}

\* allocate_and_queue_buffers(): REQBUFS, then QUERYBUF, the memory and QBUF
\* for each; a failure frees the memory obtained so far.  New memory may or
\* may not be where the old was.
Allocate(c) ==
  {Ends([c EXCEPT !.drv = Bufs, !.mem = Bufs, !.alloc = TRUE, !.same = s], TRUE, 0) :
     s \in {{}, c.same}}
    \cup {Ends([c EXCEPT !.drv = 1..(b - 1), !.mem = {}], FALSE, 1) : b \in Bufs}
    \cup {Ends(c, FALSE, 1)}

\* start_streaming(): a failed STREAMON frees the buffers.
StartStreaming(c) ==
  {Ends([c EXCEPT !.on = TRUE], TRUE, 0), Ends([c EXCEPT !.mem = {}, !.alloc = FALSE], FALSE, 1)}

\* configure_camera_format(): the wanted size, the fallbacks, what the sensor has.
ConfigureFormat(c) ==
  IF c.fd THEN {Ends(c, TRUE, 0), Ends(c, FALSE, 1)} ELSE {Ends(c, FALSE, 0)}

\* One step after the other, while they succeed.
Then(outs, Step(_)) ==
  {o \in outs : ~o.ok} \cup
  UNION {{Ends(n.c, n.ok, n.e + o.e) : n \in Step(o.c)} : o \in {o \in outs : o.ok}}

\* init_camera(): open, query.
InitCameraFd(c) == {Ends([c EXCEPT !.fd = TRUE], TRUE, 0), Ends(c, FALSE, 1)}

\* free_mapped_buffers() and the close of a USB camera's restart.
Released(c) ==
  IF uvc /\ c.alloc THEN [c EXCEPT !.mem = {}, !.used = {}, !.alloc = FALSE, !.fd = FALSE,
                                      !.on = FALSE, !.drv = {}]
                       ELSE c

Fresh(c) == Then(Then(ConfigureFormat(c), Allocate), StartStreaming)

\* esp_video_if_start()
IfStart(c) ==
  IF uvc /\ c.alloc THEN Then(InitCameraFd(Released(c)), Fresh)
  ELSE IF c.alloc THEN Restart(c) ELSE Fresh(c)

\* The camera of a first init, once the hardware is up.
OpenAndStart(c) == Then(InitCameraFd([c EXCEPT !.there = TRUE]), IfStart)

Spend(o) == nerr + o.e <= MaxIoErr /\ nerr' = nerr + o.e
AllLate == late' = {r \in Readers : held[r] # 0}
----------------------------------------------------------------------------
\* esp_video_if_init() once it is there, and uvc_restart_stream()
Reinit ==
  /\ v4l2.there
  /\ \E o \in IfStart(v4l2) :
       /\ v4l2' = o.c /\ Spend(o)
       /\ odd' = IF v4l2.on /\ o.c.on /\ ~o.ok THEN odd \cup {"cut"} ELSE odd
  /\ AllLate /\ UNCHANGED <<reg, held>>

\* The first one: the hardware, once, then the camera; a failure undoes all
\* but the registration.
FirstInit ==
  /\ ~v4l2.there
  /\ \E o \in (IF reg THEN {Ends(NoCamera, TRUE, 0)}
                       ELSE {Ends(NoCamera, TRUE, 0), Ends(NoCamera, FALSE, 1)}) :
     \E n \in Then({o}, OpenAndStart) :
       /\ Spend(n)
       /\ v4l2' = IF n.ok THEN n.c ELSE NoCamera
       /\ reg' \in IF o.ok THEN {TRUE} ELSE {reg, TRUE}
  /\ AllLate /\ UNCHANGED <<held, odd>>

\* esp_video_if_stop() and _deinit()
Stop ==
  /\ v4l2.there
  /\ v4l2' = IF v4l2.fd THEN [StreamOff(v4l2) EXCEPT !.used = {}]
                        ELSE [v4l2 EXCEPT !.used = {}]
  /\ AllLate /\ UNCHANGED <<reg, held, odd, nerr>>

\* esp_video_if_cleanup()
Cleanup ==
  /\ v4l2.there /\ v4l2' = NoCamera
  /\ AllLate /\ UNCHANGED <<reg, held, odd, nerr>>

\* esp_video_if_get_frame(): only if some descriptor is unused; the driver
\* says which buffer it filled.
GetFrame(r) ==
  /\ held[r] = 0 /\ v4l2.there /\ v4l2.fd /\ v4l2.on /\ v4l2.used # Bufs
  /\ \E b \in v4l2.drv :
       /\ v4l2' = [v4l2 EXCEPT !.drv = @ \ {b}, !.used = @ \cup {b}, !.same = @ \cup {b}]
       /\ held' = [held EXCEPT ![r] = b]
  /\ late' = late \ {r}
  /\ UNCHANGED <<reg, odd, nerr>>

\* Mutant: a release is believed.
ReleaseFrameUnchecked(r) ==
  /\ held[r] # 0
  /\ v4l2' = IF v4l2.there /\ held[r] \in v4l2.mem
               THEN [v4l2 EXCEPT !.used = @ \ {held[r]}, !.drv = @ \cup {held[r]}] ELSE v4l2
  /\ held' = [held EXCEPT ![r] = 0] /\ late' = late \ {r}
  /\ UNCHANGED <<reg, odd, nerr>>

\* esp_video_if_release_frame(): a foreign frame or a double release is refused.
ReleaseFrame(r) ==
  /\ held[r] # 0
  /\ LET b == held[r]
         taken == v4l2.there /\ b \in v4l2.mem \cap v4l2.same \cap v4l2.used
     IN /\ v4l2' = IF taken THEN [v4l2 EXCEPT !.used = @ \ {b}, !.drv = @ \cup {b}] ELSE v4l2
        /\ odd' = IF taken /\ r \in late THEN odd \cup {"reused"} ELSE odd
  /\ held' = [held EXCEPT ![r] = 0] /\ late' = late \ {r}
  /\ UNCHANGED <<reg, nerr>>
----------------------------------------------------------------------------
ViInit == /\ uvc \in BOOLEAN /\ v4l2 = NoCamera /\ reg = FALSE /\ held = [r \in Readers |-> 0]
          /\ late = {} /\ odd = {} /\ nerr = 0

ViNext == /\ \/ Reinit \/ FirstInit \/ Stop \/ Cleanup
             \/ \E r \in Readers : GetFrame(r) \/ ReleaseFrame(r)
          /\ UNCHANGED uvc

\* Callers retry an init that failed.
ViSpec == ViInit /\ [][ViNext]_viVars /\ WF_viVars(ViNext /\ Reinit) /\ WF_viVars(ViNext /\ FirstInit)
----------------------------------------------------------------------------
ViTypeOK ==
  /\ \A f \in {"there", "fd", "alloc", "on"} : v4l2[f] \in BOOLEAN
  /\ \A f \in {"mem", "used", "drv", "same"} : v4l2[f] \subseteq Bufs
  /\ held \in [Readers -> 0..NBufs] /\ late \subseteq Readers /\ nerr \in 0..MaxIoErr

\* A reader's frame of the current session is its own: in mapped memory, not
\* with the driver and no other current reader's, as long as no return of an
\* earlier session's frame was taken for that of the same buffer's new frame.
ReaderSafe ==
  "reused" \notin odd => \A r \in Readers : held[r] # 0 /\ r \notin late =>
    /\ held[r] \in (v4l2.used \cap v4l2.mem) \ v4l2.drv
    /\ \A q \in Readers \ {r} : held[q] = held[r] => q \in late

\* A streaming camera has every buffer: with the driver or with a reader that
\* will return it, whatever failed or was returned late before; a restart cut
\* short at its first buffer, with the stream still on, aside.
NoBufferLost ==
  v4l2.on /\ "cut" \notin odd => \A b \in Bufs \ v4l2.drv :
               b \in v4l2.used /\ \E r \in Readers : held[r] = b /\ r \notin late

\* The driver streams into mapped memory only, and a start that failed half
\* way, at whichever step, leaves no buffer behind.
MemoryAccounted ==
  /\ v4l2.on => v4l2.drv \subseteq v4l2.mem
  /\ ~v4l2.alloc => v4l2.mem = {}
  /\ ~v4l2.there => v4l2 = NoCamera

\* Buffers of the camera are the readers' or the driver's, and none is lost.
CameraSound == ReaderSafe /\ NoBufferLost /\ MemoryAccounted
=============================================================================
