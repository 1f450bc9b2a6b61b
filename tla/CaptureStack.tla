---------------------------- MODULE CaptureStack ----------------------------
(***************************************************************************)
(* The capture side of media_stream: reference-counted capture handles     *)
(* (video_capture_adapter.c), the frame grabber with its pump task         *)
(* (esp32p4_frame_grabber.c), the camera interface (esp_video_if.c) and    *)
(* the snapshots.  The raw bus is what RawBus promises: published frames   *)
(* wait for the encoder sink or are read by it, and a drain reports        *)
(* whether all came back in time.                                          *)
(***************************************************************************)
EXTENDS Naturals, FiniteSets

CONSTANTS Handles,  \* capture handles
          Snappers, \* tasks that take snapshots
          Uvc,      \* a USB camera: every start of the stream reallocates the buffers
          MaxFails  \* bound: initialisations that fail

ASSUME CsAssumption == Uvc \in BOOLEAN /\ MaxFails \in Nat /\ IsFiniteSet(Handles)

VARIABLES
  hnd,      \* hnd[h]: "none", "init", "run", or "closing" between the halves of a deinit
  refs,     \* s_init_refs and s_start_refs
  life,     \* the holder of s_lifecycle_lock: where it is, for which handle
  enc,      \* s_p4_enc_data: up (encoder_initialized), running, sem, and s_task_parked
  vpump,    \* video_pump_task: where it is
  cam,      \* g_v4l2: open, streaming, buffers allocated
  bus,      \* the encoder sink's queued frames and whether its callback reads one
  drained,  \* s_drain_clean
  pool,     \* the encoder's output pool is allocated
  snap,     \* snap[p]: a snapshot call: where it is
  target,   \* s_snapshot.buffer's owner, 0 for none
  ssink,    \* the snapshot sink: "none", "armed" or "copies"
  nfails,
  torn,     \* history: who lost a buffer it was using to the capture's lifecycle
  snapOff,  \* history: a snapshot has stopped the stream since it was last started
  missed    \* history: some stop went on while the pump was not, or not for good, parked

csVars  == <<hnd, refs, life, enc, vpump, cam, bus, drained, pool, snap, target, ssink,
             nfails, torn, snapOff, missed>>
excused == <<snapOff, missed>>
shots   == <<snap, target, ssink>>
handles == <<hnd, refs>>

NoLife == [pc |-> "idle", h |-> 0]
LifeIn(pc) == life.pc = pc
LifeGo(pc) == life' = [life EXCEPT !.pc = pc]
Fails(ok) == \/ ok /\ UNCHANGED nfails
             \/ ~ok /\ nfails < MaxFails /\ nfails' = nfails + 1
----------------------------------------------------------------------------
(* esp_video_if.c.  `by` is who calls it.                                  *)

\* Buffers taken back from whoever uses one right now.  A snapshot's doing is
\* left out: nothing keeps it from a sink that a stop's drain gave up on.
TakenBack(by) ==
  torn' = torn \cup (IF by = "life" /\ (bus.reads \/ bus.q > 0) THEN {"sink"} ELSE {})
               \cup (IF by = "life" /\ vpump = "hold" THEN {"pump"} ELSE {})

\* Mutant: an open device is taken for a streaming one.
IfInitOnce(by, ok) ==
  /\ Fails(ok)
  /\ IF cam.bufs THEN TakenBack(by) ELSE UNCHANGED torn
  /\ cam' = IF ok /\ ~cam.open THEN [open |-> TRUE, on |-> TRUE, bufs |-> TRUE] ELSE cam
  /\ snapOff' = (~ok /\ (snapOff \/ (by = "snap" /\ cam.open)))

\* esp_video_if_init() and _start(): the first start allocates; a later one
\* queues every buffer again, on USB after it freed and reallocated them.
IfInit(by, ok) ==
  /\ Fails(ok)
  /\ IF cam.bufs THEN TakenBack(by) ELSE UNCHANGED torn
  /\ cam' = IF ok THEN [open |-> TRUE, on |-> TRUE, bufs |-> TRUE]
            ELSE IF cam.open THEN [cam EXCEPT !.on = FALSE, !.bufs = @ /\ ~Uvc]
            ELSE cam
  /\ snapOff' = (~ok /\ (snapOff \/ (by = "snap" /\ cam.open)))

\* esp_video_if_stop(), all that esp_video_if_deinit() does: requeue what is
\* used, stream off; the descriptor and the buffers stay.
IfStop(by) ==
  /\ IF cam.open THEN TakenBack(by) ELSE UNCHANGED torn
  /\ cam' = [cam EXCEPT !.on = FALSE]
----------------------------------------------------------------------------
(* video_capture_init()                                                    *)

CapInit(h) ==
  /\ LifeIn("idle") /\ hnd[h] = "none"
  /\ IF refs.init > 0
       THEN /\ refs' = [refs EXCEPT !.init = @ + 1]
            /\ hnd' = [hnd EXCEPT ![h] = "init"] /\ UNCHANGED life
       ELSE /\ life' = [pc |-> IF enc.up /\ ~drained THEN "redrain" ELSE "camera", h |-> h]
            /\ UNCHANGED handles
  /\ UNCHANGED <<enc, vpump, cam, bus, drained, pool, shots, nfails, torn, excused>>

\* The drain empties the queue, waits for the callback and gives up in time.
Drain(clean) == /\ bus' = [bus EXCEPT !.q = 0]
                /\ drained' = clean
                /\ clean => ~bus.reads

InitDrains ==
  /\ LifeIn("redrain")
  /\ \E clean \in BOOLEAN : /\ Drain(clean)
                            /\ life' = IF clean THEN [life EXCEPT !.pc = "camera"] ELSE NoLife
  /\ UNCHANGED <<handles, enc, vpump, cam, pool, shots, nfails, torn, excused>>

\* The camera (three attempts, the first time), the encoder, the sink, the
\* pump.  A first initialisation that fails later on leaves the camera on.
InitCamera ==
  /\ LifeIn("camera")
  /\ \E ok \in BOOLEAN : IfInit("life", ok) /\ life' = IF ok THEN [life EXCEPT !.pc = "rest"]
                                                             ELSE NoLife
  /\ UNCHANGED <<handles, enc, vpump, bus, drained, pool, shots, missed>>

InitRest ==
  /\ LifeIn("rest") /\ life' = NoLife
  /\ \E ok \in BOOLEAN :
       /\ Fails(ok)
       /\ IF ok THEN /\ hnd' = [hnd EXCEPT ![life.h] = "init"]
                     /\ refs' = [refs EXCEPT !.init = 1]
                     /\ enc' = [enc EXCEPT !.up = TRUE]
                     /\ vpump' = IF enc.up THEN vpump ELSE "top"
                ELSE UNCHANGED <<handles, enc, vpump>>
  /\ UNCHANGED <<cam, bus, drained, pool, shots, torn, excused>>
----------------------------------------------------------------------------
(* video_capture_start() and _stop()                                       *)

CapStart(h) ==
  /\ LifeIn("idle") /\ hnd[h] = "init"
  /\ IF refs.start = 0
       THEN /\ enc' = [enc EXCEPT !.running = TRUE]
            /\ life' = [pc |-> IF enc.running THEN "started" ELSE "give", h |-> h]
            /\ UNCHANGED handles
       ELSE /\ refs' = [refs EXCEPT !.start = @ + 1]
            /\ hnd' = [hnd EXCEPT ![h] = "run"] /\ UNCHANGED <<enc, life>>
  /\ UNCHANGED <<vpump, cam, bus, drained, pool, shots, nfails, torn, excused>>

\* Mutant: the pump is expected to see the flag.
StartGivesNothing ==
  /\ LifeIn("give") /\ LifeGo("started")
  /\ UNCHANGED <<handles, enc, vpump, cam, bus, drained, pool, shots, nfails, torn, excused>>

StartGives ==
  /\ LifeIn("give")
  /\ enc' = [enc EXCEPT !.sem = 1] /\ LifeGo("started")
  /\ UNCHANGED <<handles, vpump, cam, bus, drained, pool, shots, nfails, torn, excused>>

Started ==
  /\ LifeIn("started") /\ life' = NoLife
  /\ refs' = [refs EXCEPT !.start = 1] /\ hnd' = [hnd EXCEPT ![life.h] = "run"]
  /\ UNCHANGED <<enc, vpump, cam, bus, drained, pool, shots, nfails, torn, excused>>

\* Mutant: every handle's stop stops the encoder.
CapStopAlways(h, op) ==
  /\ LifeIn("idle") /\ hnd[h] \in {"init", "run"} /\ (op = "stop" => hnd[h] = "run")
  /\ hnd' = [hnd EXCEPT ![h] = IF op = "stop" THEN "init" ELSE "closing"]
  /\ LET runs == hnd[h] = "run"
         last == runs
     IN /\ refs' = IF runs THEN [refs EXCEPT !.start = @ - 1] ELSE refs
        /\ enc' = [enc EXCEPT !.running = @ /\ ~last]
        /\ life' = IF last /\ enc.running THEN [pc |-> "park", h |-> h] ELSE life
  /\ UNCHANGED <<vpump, cam, bus, drained, pool, shots, nfails, torn, excused>>

\* Mutant: a handle that was not started is counted as stopped too.
CapStopUnstarted(h, op) ==
  /\ LifeIn("idle") /\ hnd[h] \in {"init", "run"} /\ (op = "stop" => hnd[h] = "run")
  /\ hnd' = [hnd EXCEPT ![h] = IF op = "stop" THEN "init" ELSE "closing"]
  /\ refs' = [refs EXCEPT !.start = @ - 1]
  /\ enc' = [enc EXCEPT !.running = @ /\ refs.start > 1]
  /\ life' = IF enc.running /\ refs.start = 1 THEN [pc |-> "park", h |-> h] ELSE life
  /\ UNCHANGED <<vpump, cam, bus, drained, pool, shots, nfails, torn, excused>>

\* The last handle stops the encoder.  A deinit begins with a stop and lets
\* go of the lock before its second half.
CapStop(h, op) ==
  /\ LifeIn("idle") /\ hnd[h] \in {"init", "run"} /\ (op = "stop" => hnd[h] = "run")
  /\ hnd' = [hnd EXCEPT ![h] = IF op = "stop" THEN "init" ELSE "closing"]
  /\ LET runs == hnd[h] = "run"
         last == runs /\ refs.start = 1
     IN /\ refs' = IF runs THEN [refs EXCEPT !.start = @ - 1] ELSE refs
        /\ enc' = [enc EXCEPT !.running = @ /\ ~last]
        /\ life' = IF last /\ enc.running THEN [pc |-> "park", h |-> h] ELSE life
  /\ UNCHANGED <<vpump, cam, bus, drained, pool, shots, nfails, torn, excused>>

\* The wait for s_task_parked is bounded.
StopParks ==
  /\ LifeIn("park") /\ LifeGo("drain")
  /\ missed' = (missed \/ vpump # "take" \/ enc.sem = 1)
  /\ UNCHANGED <<handles, enc, vpump, cam, bus, drained, pool, shots, nfails, torn, snapOff>>

\* Mutant: a drain counts as clean whatever it reports.
StopDrainsUnchecked ==
  /\ LifeIn("drain") /\ life' = NoLife
  /\ bus' = [bus EXCEPT !.q = 0] /\ drained' = TRUE
  /\ UNCHANGED <<handles, enc, vpump, cam, pool, shots, nfails, torn, excused>>

StopDrains ==
  /\ LifeIn("drain") /\ life' = NoLife
  /\ \E clean \in BOOLEAN : Drain(clean)
  /\ UNCHANGED <<handles, enc, vpump, cam, pool, shots, nfails, torn, excused>>
----------------------------------------------------------------------------
(* video_capture_deinit(), after its stop                                  *)

CapDeinit(h) ==
  /\ LifeIn("idle") /\ hnd[h] = "closing"
  /\ hnd' = [hnd EXCEPT ![h] = "none"]
  /\ refs' = [refs EXCEPT !.init = @ - 1]
  /\ life' = IF refs.init > 1 THEN life
             ELSE [pc |-> IF drained THEN "free" ELSE "again", h |-> h]
  /\ UNCHANGED <<enc, vpump, cam, bus, drained, pool, shots, nfails, torn, excused>>

\* Mutant: the drain's verdict is ignored.
DeinitDrainsAnyway ==
  /\ LifeIn("again")
  /\ \E clean \in BOOLEAN : Drain(clean) /\ life' = [life EXCEPT !.pc = "free"]
  /\ UNCHANGED <<handles, enc, vpump, cam, pool, shots, nfails, torn, excused>>

\* Mutant: the drain is repeated until it is clean.
DeinitDrainsUntilClean ==
  /\ LifeIn("again")
  /\ \E clean \in BOOLEAN : /\ Drain(clean)
                            /\ life' = IF clean THEN [life EXCEPT !.pc = "free"] ELSE life
  /\ UNCHANGED <<handles, enc, vpump, cam, pool, shots, nfails, torn, excused>>

DeinitDrains ==
  /\ LifeIn("again")
  /\ \E clean \in BOOLEAN : /\ Drain(clean)
                            /\ life' = IF clean THEN [life EXCEPT !.pc = "free"] ELSE NoLife
  /\ UNCHANGED <<handles, enc, vpump, cam, pool, shots, nfails, torn, excused>>

\* Only after a clean drain: the pool is freed and the stream switched off.
DeinitFrees ==
  /\ LifeIn("free") /\ life' = NoLife
  /\ pool' = FALSE
  /\ IfStop("life")
  /\ UNCHANGED <<handles, enc, vpump, bus, drained, shots, nfails, excused>>
----------------------------------------------------------------------------
(* video_pump_task() and the encoder sink's callback                       *)

PumpLoops ==
  /\ vpump = "top"
  /\ vpump' = IF enc.running THEN "get" ELSE "take"
  /\ enc' = [enc EXCEPT !.parked = @ \/ ~enc.running]
  /\ UNCHANGED <<handles, life, cam, bus, drained, pool, shots, nfails, torn, excused>>

PumpTakes ==
  /\ vpump = "take" /\ enc.sem = 1
  /\ enc' = [enc EXCEPT !.sem = 0] /\ vpump' = "woken"
  /\ UNCHANGED <<handles, life, cam, bus, drained, pool, shots, nfails, torn, excused>>

PumpWakes ==
  /\ vpump = "woken"
  /\ enc' = [enc EXCEPT !.parked = FALSE] /\ vpump' = "get"
  /\ UNCHANGED <<handles, life, cam, bus, drained, pool, shots, nfails, torn, excused>>

\* DQBUF fails, times out, or hands over a frame of the stream.
PumpGets ==
  /\ vpump = "get"
  /\ \/ vpump' = "top"
     \/ cam.open /\ cam.on /\ vpump' = "hold"
  /\ UNCHANGED <<handles, life, enc, cam, bus, drained, pool, shots, nfails, torn, excused>>

\* A frame in a format without a sink goes back, any other is published; the
\* encoder sink keeps the newest, the snapshot sink starts its copy.
PumpPublishes ==
  /\ vpump = "hold" /\ vpump' = "top"
  /\ \/ UNCHANGED <<bus, ssink>>
     \/ /\ bus' = [bus EXCEPT !.q = 1]
        /\ ssink' = IF ssink = "armed" THEN "copies" ELSE ssink
  /\ UNCHANGED <<handles, life, enc, cam, drained, pool, snap, target, nfails, torn, excused>>

SinkTakes ==
  /\ bus.q = 1 /\ ~bus.reads
  /\ bus' = [q |-> 0, reads |-> TRUE]
  /\ pool' = TRUE
  /\ UNCHANGED <<handles, life, enc, vpump, cam, drained, shots, nfails, torn, excused>>

SinkDone ==
  /\ bus.reads /\ bus' = [bus EXCEPT !.reads = FALSE]
  /\ UNCHANGED <<handles, life, enc, vpump, cam, drained, pool, shots, nfails, torn, excused>>
----------------------------------------------------------------------------
(* video_capture_get_snapshot(), which does not take the lifecycle lock    *)

SnapGo(p, pc) == snap' = [snap EXCEPT ![p] = pc]

SnapBegins(p) ==
  /\ snap[p] = "idle" /\ SnapGo(p, IF enc.running THEN "set" ELSE "direct")
  /\ UNCHANGED <<handles, life, enc, vpump, cam, bus, drained, pool, target, ssink, nfails,
                 torn, excused>>

\* The intercept names its buffer before it finds out whether another
\* request is in flight.
SnapSets(p) ==
  /\ snap[p] = "set"
  /\ IF enc.running THEN target' = p /\ SnapGo(p, "arm")
                    ELSE UNCHANGED target /\ SnapGo(p, "idle")
  /\ UNCHANGED <<handles, life, enc, vpump, cam, bus, drained, pool, ssink, nfails, torn,
                 excused>>

SnapArms(p) ==
  /\ snap[p] = "arm"
  /\ IF ssink = "none"
       THEN ssink' = "armed" /\ SnapGo(p, "wait")
       ELSE UNCHANGED ssink /\ SnapGo(p, "idle")
  /\ UNCHANGED <<handles, life, enc, vpump, cam, bus, drained, pool, target, nfails, torn,
                 excused>>

\* snapshot_sink_on_frame(): one copy, then the request is done.
SnapCopied ==
  /\ ssink = "copies" /\ ssink' = "armed"
  /\ UNCHANGED <<handles, life, enc, vpump, cam, bus, drained, pool, snap, target, nfails,
                 torn, excused>>

\* Mutant: the sink is left to itself, its callback not waited for.
SnapReturnsEarly(p) ==
  /\ snap[p] = "wait"
  /\ ssink' = IF ssink = "armed" THEN "none" ELSE ssink
  /\ SnapGo(p, "idle")
  /\ UNCHANGED <<handles, life, enc, vpump, cam, bus, drained, pool, target, nfails, torn,
                 excused>>

\* Copied or timed out: unregistering the sink waits for its callback.
SnapReturns(p) ==
  /\ snap[p] = "wait" /\ ssink = "armed"
  /\ ssink' = "none" /\ SnapGo(p, "idle")
  /\ UNCHANGED <<handles, life, enc, vpump, cam, bus, drained, pool, target, nfails, torn,
                 excused>>

\* The direct grab starts the interface, reads a few frames and stops it.
SnapStarts(p) ==
  /\ snap[p] = "direct"
  /\ \E ok \in BOOLEAN : IfInit("snap", ok) /\ SnapGo(p, IF ok THEN "grab" ELSE "idle")
  /\ UNCHANGED <<handles, life, enc, vpump, bus, drained, pool, target, ssink, missed>>

SnapStops(p) ==
  /\ snap[p] = "grab" /\ SnapGo(p, "idle")
  /\ IfStop("snap") /\ snapOff' = TRUE
  /\ UNCHANGED <<handles, life, enc, vpump, bus, drained, pool, target, ssink, nfails, missed>>
----------------------------------------------------------------------------
CsInit ==
  /\ hnd = [h \in Handles |-> "none"] /\ refs = [init |-> 0, start |-> 0] /\ life = NoLife
  /\ enc = [up |-> FALSE, running |-> FALSE, sem |-> 0, parked |-> TRUE]
  /\ vpump = "none" /\ cam = [open |-> FALSE, on |-> FALSE, bufs |-> FALSE]
  /\ bus = [q |-> 0, reads |-> FALSE] /\ drained = TRUE /\ pool = FALSE
  /\ snap = [p \in Snappers |-> "idle"] /\ target = 0
  /\ ssink = "none"
  /\ nfails = 0 /\ torn = {} /\ snapOff = FALSE /\ missed = FALSE

CsCall == \E h \in Handles : \/ CapInit(h) \/ CapStart(h) \/ CapDeinit(h)
                             \/ \E op \in {"stop", "deinit"} : CapStop(h, op)
CsLife == \/ InitDrains \/ InitCamera \/ InitRest \/ StartGives \/ Started \/ StopParks
          \/ StopDrains \/ DeinitDrains \/ DeinitFrees
CsPump == PumpLoops \/ PumpTakes \/ PumpWakes \/ PumpGets \/ PumpPublishes
CsSnap(p) == \/ SnapSets(p) \/ SnapArms(p) \/ SnapReturns(p) \/ SnapStarts(p) \/ SnapStops(p)

CsNext == \/ CsCall \/ CsLife \/ CsPump \/ SinkTakes \/ SinkDone \/ SnapCopied
          \/ \E p \in Snappers : SnapBegins(p) \/ CsSnap(p)

\* Every task runs on; callbacks return.
CsFairness == /\ WF_csVars(CsLife) /\ WF_csVars(CsPump) /\ WF_csVars(SinkTakes \/ SinkDone)
              /\ WF_csVars(SnapCopied) /\ \A p \in Snappers : WF_csVars(CsSnap(p))

CsSpec == CsInit /\ [][CsNext]_csVars /\ CsFairness
----------------------------------------------------------------------------
(* Properties                                                              *)

CsTypeOK ==
  /\ \A h \in Handles : hnd[h] \in {"none", "init", "run", "closing"}
  /\ refs \in [init : 0..Cardinality(Handles), start : 0..Cardinality(Handles)]
  /\ life.pc \in {"idle", "redrain", "camera", "rest", "give", "started", "park", "drain",
                  "again", "free"}
  /\ vpump \in {"none", "top", "take", "woken", "get", "hold"}
  /\ cam \in [open : BOOLEAN, on : BOOLEAN, bufs : BOOLEAN] /\ bus.q \in {0, 1}
  /\ nfails \in 0..MaxFails

\* The encoder runs exactly while some handle is started, whatever mix of
\* starts, stops and deinits the handles' owners do, and the counts are the
\* handles.
RunsForStarted ==
  LifeIn("idle") =>
    /\ refs.init = Cardinality({h \in Handles : hnd[h] # "none"})
    /\ refs.start = Cardinality({h \in Handles : hnd[h] = "run"})
    /\ enc.running = (refs.start > 0)

\* No capture buffer is requeued, and on USB unmapped, under the pump or a
\* sink by an init, a stop or a deinit of the capture, even if a drain gave
\* up on that sink, as long as every stop met a parked pump.
BuffersKept == ~missed => torn = {}

\* The encoder's output pool is not freed under the callback that writes into
\* it, as long as every stop met a parked pump.
PoolKept == ~missed /\ bus.reads => pool

\* A running capture has its stream on, unless a snapshot switched it off.
StreamServed == enc.running /\ ~snapOff /\ LifeIn("idle") => cam.on

\* The snapshot's copy goes into the buffer of a call that has not returned.
SnapshotTargetAlive == ssink = "copies" => snap[target] # "idle"

\* A started capture reaches its pump: the token given before the pump blocks, or while an
\* earlier stop still waited, is not lost.
TokenKept == enc.running /\ vpump = "take" => enc.sem = 1 \/ LifeIn("give")

\* Starts, stops and deinits of several owners, the pump, the sinks and a snapshot leave the
\* camera's buffers to whoever uses them and the capture running for who started it.
CaptureSound ==
  RunsForStarted /\ BuffersKept /\ PoolKept /\ StreamServed /\ SnapshotTargetAlive /\ TokenKept
=============================================================================
