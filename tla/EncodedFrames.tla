--------------------------- MODULE EncodedFrames ---------------------------
(***************************************************************************)
(* Where encoded frames come from.                                         *)
(*                                                                         *)
(* First, from a captured access unit to the encoded-frame sinks: the      *)
(* encoder sink's task (esp32p4_frame_grabber.c), with the hardware        *)
(* encoder or passing through a camera's own H.264, and the registry that  *)
(* hands each encoded frame to its sinks (video_sink.c).  Every P-frame    *)
(* needs the frame before it.                                              *)
(*                                                                         *)
(* Then the file-backed video sources of media_stream.c, which publish to  *)
(* the same sinks: several may be started, the first one runs the pump     *)
(* that publishes, and a stop of the owner hands the pump on.  Each source *)
(* is driven by one task of its own.  What is read from the sample pack is *)
(* data: pump and get_frame() each have a position and a buffer.           *)
(***************************************************************************)
EXTENDS Naturals, FiniteSets

CONSTANTS EncSinks,    \* slots of s_sinks
          MaxSeq,      \* bound: access units published
          EsMaxStarts, \* bound: starts of the grabber
          Sources,     \* file_video_capture_state_t objects
          MaxSources,  \* FILE_VIDEO_MAX_SOURCES
          MaxMem       \* bound: allocations and task creations that fail

ASSUME EsAssumption == MaxSeq \in Nat /\ EsMaxStarts \in Nat /\ IsFiniteSet(EncSinks)
ASSUME FsAssumption == /\ MaxSources \in Nat \ {0} /\ MaxMem \in Nat
                       /\ IsFiniteSet(Sources) /\ "none" \notin Sources

VARIABLES
  through,  \* the build: passthrough, else the hardware encoder
  seq,      \* s_seq of the bus
  waiting,  \* the frame in the sink's queue, NoAU for none
  work,     \* the frame the sink's callback has, and where it is
  coded,    \* the hardware encoder's frames so far
  lastSeq,  \* s_pt_last_seq
  esWaitIdr,  \* s_wait_for_idr
  esStart,  \* esp32p4_frame_grabber_start() between its two assignments
  esStarts,
  esink,    \* esink[s]: use, enabled, gate
  count,    \* s_enabled_count
  got,      \* got[s]: number of the last frame delivered to s
  broken,   \* history: sinks that got a P-frame without its predecessor
  spoilt    \* history: "overlap": a callback ran during a start; "hole": the hardware
            \* encoder's frame was lost

esVars == <<through, seq, waiting, work, coded, lastSeq, esWaitIdr, esStart, esStarts, esink, count,
            got, broken, spoilt>>
gates == <<lastSeq, esWaitIdr, esStart, esStarts>>
sinks == <<esink, count, got, broken>>

NoAU == [n |-> 0, idr |-> FALSE]
NoWork == [pc |-> "idle", au |-> NoAU]
NoESink == [use |-> FALSE, enabled |-> FALSE, gate |-> FALSE]
----------------------------------------------------------------------------
\* The bus numbers every unit; one that finds the queue full is dropped or
\* drops the one that waits.
Publish ==
  /\ seq < MaxSeq /\ seq' = seq + 1
  /\ \E idr \in BOOLEAN : waiting' \in {[n |-> seq + 1, idr |-> idr]} \cup ({waiting} \ {NoAU})
  /\ UNCHANGED <<through, work, coded, gates, sinks, spoilt>>

\* The stop's drain.
DropWaiting == /\ waiting # NoAU /\ waiting' = NoAU
               /\ UNCHANGED <<through, seq, work, coded, gates, sinks, spoilt>>

\* Mutant: what the queue dropped is not noticed.
UnitBeginsBlind ==
  /\ work.pc = "idle" /\ waiting # NoAU /\ waiting' = NoAU /\ through
  /\ LET drop == esWaitIdr /\ ~waiting.idr
     IN /\ esWaitIdr' = drop
        /\ lastSeq' = waiting.n
        /\ work' = IF drop THEN NoWork ELSE [pc |-> "coded", au |-> waiting]
  /\ spoilt' = IF esStart THEN spoilt \cup {"overlap"} ELSE spoilt
  /\ UNCHANGED <<through, seq, coded, esStart, esStarts, sinks>>

\* h264_passthrough_sink_on_frame() up to the pool: a gap in the numbers, or
\* an earlier loss, waits for the next IDR.
UnitBegins ==
  /\ work.pc = "idle" /\ waiting # NoAU /\ waiting' = NoAU
  /\ through
  /\ LET gap  == lastSeq # 0 /\ waiting.n # lastSeq + 1
         drop == (esWaitIdr \/ gap) /\ ~waiting.idr
     IN /\ esWaitIdr' = drop
        /\ lastSeq' = waiting.n
        /\ work' = IF drop THEN NoWork ELSE [pc |-> "coded", au |-> waiting]
  /\ spoilt' = IF esStart THEN spoilt \cup {"overlap"} ELSE spoilt
  /\ UNCHANGED <<through, seq, coded, esStart, esStarts, sinks>>

\* h264_raw_sink_on_frame(): the encoder numbers what it codes, and its first
\* frame is an IDR.
UnitEncoded ==
  /\ work.pc = "idle" /\ waiting # NoAU /\ waiting' = NoAU
  /\ ~through
  /\ \/ UNCHANGED <<work, coded>>
     \/ /\ coded' = coded + 1
        /\ \E idr \in BOOLEAN : /\ coded = 0 => idr
                                /\ work' = [pc |-> "coded", au |-> [n |-> coded + 1, idr |-> idr]]
  /\ UNCHANGED <<through, seq, gates, sinks, spoilt>>

\* Mutant: a lost unit is only logged.
PoolFailsQuietly ==
  /\ work.pc = "coded" /\ work' = NoWork
  /\ spoilt' = IF through THEN spoilt ELSE spoilt \cup {"hole"}
  /\ UNCHANGED <<through, seq, waiting, coded, gates, sinks>>

\* enc_pool_take() without memory: the passthrough waits for the next IDR, the
\* hardware path does not.
PoolFails ==
  /\ work.pc = "coded" /\ work' = NoWork
  /\ esWaitIdr' = (esWaitIdr \/ through)
  /\ spoilt' = IF through THEN (IF esStart THEN spoilt \cup {"overlap"} ELSE spoilt)
               ELSE spoilt \cup {"hole"}
  /\ UNCHANGED <<through, seq, waiting, coded, lastSeq, esStart, esStarts, sinks>>

\* video_sink_dispatch(), with the lock held throughout: each enabled sink
\* whose gate is open, or opens on this keyframe.  A callback may unregister
\* its own sink (`quits`); the unlocked look at the count may be stale only
\* before the lock.
DispatchUnit ==
  /\ work.pc = "coded" /\ work' = NoWork
  /\ LET au == work.au
         to == {s \in EncSinks : esink[s].use /\ esink[s].enabled
                                 /\ (esink[s].gate => au.idr)}
     IN \E quits \in SUBSET to :
          IF count = 0 THEN quits = {} /\ UNCHANGED sinks
          ELSE /\ esink' = [s \in EncSinks |->
                              IF s \in quits THEN NoESink
                              ELSE IF s \in to THEN [esink[s] EXCEPT !.gate = FALSE] ELSE esink[s]]
               /\ count' = count - Cardinality(quits)
               /\ got' = [s \in EncSinks |-> IF s \in to THEN au.n ELSE got[s]]
               /\ broken' = broken \cup {s \in to : ~au.idr /\ got[s] # au.n - 1}
  /\ spoilt' = IF esStart THEN spoilt \cup {"overlap"} ELSE spoilt
  /\ UNCHANGED <<through, seq, waiting, coded, gates>>
----------------------------------------------------------------------------
\* esp32p4_frame_grabber_start(): first the wait for an IDR, then the number.
\* Publishing goes on meanwhile only if a stop gave up on pump or sink.
StartWaits ==
  /\ ~esStart /\ esStarts < EsMaxStarts
  /\ esStarts' = esStarts + 1 /\ esStart' = TRUE /\ esWaitIdr' = TRUE
  /\ spoilt' = IF work # NoWork THEN spoilt \cup {"overlap"} ELSE spoilt
  /\ UNCHANGED <<through, seq, waiting, work, coded, lastSeq, sinks>>

StartForgets ==
  /\ esStart /\ esStart' = FALSE /\ lastSeq' = 0
  /\ UNCHANGED <<through, seq, waiting, work, coded, esWaitIdr, esStarts, sinks, spoilt>>

\* video_sink_register()
RegisterSink(s) ==
  /\ ~esink[s].use
  /\ esink' = [esink EXCEPT ![s] = [NoESink EXCEPT !.use = TRUE]]
  /\ got' = [got EXCEPT ![s] = 0]
  /\ UNCHANGED <<through, seq, waiting, work, coded, gates, count, broken, spoilt>>

\* Mutant: a sink that is enabled again goes on where it was.
EnableSinkUngated(s, on) ==
  /\ esink[s].use /\ esink[s].enabled # on
  /\ esink' = [esink EXCEPT ![s].enabled = on]
  /\ count' = IF on THEN count + 1 ELSE count - 1
  /\ UNCHANGED <<through, seq, waiting, work, coded, gates, got, broken, spoilt>>

\* video_sink_set_enabled(): enabling arms the gate.
EnableSink(s, on) ==
  /\ esink[s].use /\ esink[s].enabled # on
  /\ esink' = [esink EXCEPT ![s].enabled = on, ![s].gate = @ \/ on]
  /\ count' = IF on THEN count + 1 ELSE count - 1
  /\ UNCHANGED <<through, seq, waiting, work, coded, gates, got, broken, spoilt>>

\* Mutant: the count is left to the disable.
UnregisterSinkUncounted(s) ==
  /\ esink[s].use /\ esink' = [esink EXCEPT ![s] = NoESink]
  /\ UNCHANGED <<through, seq, waiting, work, coded, gates, count, got, broken, spoilt>>

\* video_sink_unregister()
UnregisterSink(s) ==
  /\ esink[s].use /\ esink' = [esink EXCEPT ![s] = NoESink]
  /\ count' = IF esink[s].enabled THEN count - 1 ELSE count
  /\ UNCHANGED <<through, seq, waiting, work, coded, gates, got, broken, spoilt>>
----------------------------------------------------------------------------
EsInit ==
  /\ through \in BOOLEAN /\ seq = 0 /\ waiting = NoAU /\ work = NoWork /\ coded = 0
  /\ lastSeq = 0 /\ esWaitIdr = TRUE /\ esStart = FALSE /\ esStarts = 0
  /\ esink = [s \in EncSinks |-> NoESink] /\ count = 0 /\ got = [s \in EncSinks |-> 0]
  /\ broken = {} /\ spoilt = {}

EsSink(s) == \/ RegisterSink(s) \/ UnregisterSink(s)
             \/ \E on \in BOOLEAN : EnableSink(s, on)

EsNext == \/ Publish \/ DropWaiting \/ UnitBegins \/ UnitEncoded \/ PoolFails \/ DispatchUnit
          \/ StartWaits \/ StartForgets \/ \E s \in EncSinks : EsSink(s)

EsSpec == EsInit /\ [][EsNext]_esVars
----------------------------------------------------------------------------
\* Each sink gets a decodable stream: it begins with a keyframe and every
\* P-frame follows the frame delivered before, over queue drops, failed
\* allocations, restarts, and sinks that come and go.  Left aside: a start that
\* overlaps a callback, and a frame the hardware path loses for want of memory.
Decodable == spoilt = {} => broken = {}

\* The count that lets the dispatcher skip a frame without the lock is the
\* number of enabled sinks, so a frame is skipped only if nobody wants it.
CountMatches == count = Cardinality({s \in EncSinks : esink[s].enabled})

\* Every encoded sink gets a decodable stream, and no frame it wants is skipped.
StreamsSound == Decodable /\ CountMatches
----------------------------------------------------------------------------
(* Sources that play a file                                                *)

NoSource == "none"

VARIABLES
  file,   \* file[s]: "none", "idle" or "started", and where its stop is: "no", "waits", "gives"
  table,  \* s_file_video_started
  owner,  \* s_file_video_pump_owner
  task,   \* task[s]: the source's pump: "none", "reads", "sends" or "done"
  nmem

fsVars == <<file, table, owner, task, nmem>>

MemFails(ok) == \/ ok /\ UNCHANGED nmem
                \/ ~ok /\ nmem < MaxMem /\ nmem' = nmem + 1
----------------------------------------------------------------------------
\* file_video_capture_init_impl()
FileInit(s) ==
  /\ file[s].st = "none"
  /\ \E ok \in BOOLEAN : /\ MemFails(ok)
                         /\ file' = IF ok THEN [file EXCEPT ![s].st = "idle"] ELSE file
  /\ UNCHANGED <<table, owner, task>>

\* Mutant: whoever starts runs a pump.
FileStartAlways(s) ==
  /\ file[s] = [st |-> "idle", stop |-> "no"] /\ Cardinality(table) < MaxSources
  /\ file' = [file EXCEPT ![s].st = "started"] /\ table' = table \cup {s}
  /\ owner' = s /\ task' = [task EXCEPT ![s] = "reads"]
  /\ UNCHANGED nmem

\* file_video_capture_start_impl(), all of it under the lock: a free slot; the
\* first one takes the pump, and without a pump it is not started.
FileStart(s) ==
  /\ file[s] = [st |-> "idle", stop |-> "no"] /\ Cardinality(table) < MaxSources
  /\ \E ok \in BOOLEAN :
       /\ IF owner = NoSource THEN MemFails(ok) ELSE ok /\ UNCHANGED nmem
       /\ file' = IF ok THEN [file EXCEPT ![s].st = "started"] ELSE file
       /\ table' = IF ok THEN table \cup {s} ELSE table
       /\ IF ok /\ owner = NoSource
            THEN owner' = s /\ task' = [task EXCEPT ![s] = "reads"]
            ELSE UNCHANGED <<owner, task>>

\* file_video_capture_stop_impl(), its first half
FileStop(s) ==
  /\ file[s] = [st |-> "started", stop |-> "no"]
  /\ file' = [file EXCEPT ![s] = [st |-> "idle", stop |-> IF owner = s THEN "waits" ELSE "no"]]
  /\ table' = table \ {s}
  /\ UNCHANGED <<owner, task, nmem>>

\* Mutant: the pump is not waited for.
PumpDoneUnawaited(s) ==
  /\ file[s].stop = "waits" /\ file' = [file EXCEPT ![s].stop = "gives"]
  /\ UNCHANGED <<table, owner, task, nmem>>

\* The owner waits until its pump has said that it is done.
PumpDone(s) ==
  /\ file[s].stop = "waits" /\ task[s] = "done"
  /\ file' = [file EXCEPT ![s].stop = "gives"] /\ task' = [task EXCEPT ![s] = "none"]
  /\ UNCHANGED <<table, owner, nmem>>

\* Mutant: the pump stops with its owner.
HandOverNot(s) ==
  /\ file[s].stop = "gives" /\ file' = [file EXCEPT ![s].stop = "no"]
  /\ owner' = NoSource
  /\ UNCHANGED <<table, task, nmem>>

\* The handover: the first started source that manages to create a pump.
HandOver(s) ==
  /\ file[s].stop = "gives" /\ file' = [file EXCEPT ![s].stop = "no"]
  /\ \E fail \in SUBSET table :
       /\ nmem + Cardinality(fail) <= MaxMem /\ nmem' = nmem + Cardinality(fail)
       /\ IF fail = table THEN owner' = NoSource /\ UNCHANGED task
          ELSE \E n \in table \ fail : owner' = n /\ task' = [task EXCEPT ![n] = "reads"]
  /\ UNCHANGED table

\* file_video_capture_deinit_impl(), after its stop
FileDeinit(s) ==
  /\ file[s] = [st |-> "idle", stop |-> "no"]
  /\ file' = [file EXCEPT ![s].st = "none"]
  /\ UNCHANGED <<table, owner, task, nmem>>

\* Mutant: started is looked at only when the pump begins.
PumpReadsOn(s) ==
  /\ task[s] = "reads" /\ task' = [task EXCEPT ![s] = "sends"]
  /\ UNCHANGED <<file, table, owner, nmem>>

\* file_video_pump(): reads into its own buffer, or finds itself stopped.
PumpReads(s) ==
  /\ task[s] = "reads"
  /\ \/ task' = [task EXCEPT ![s] = IF file[s].st = "started" THEN "sends" ELSE "done"]
     \/ file[s].st = "started" /\ UNCHANGED task   \* no sink enabled, or no memory
  /\ UNCHANGED <<file, table, owner, nmem>>

\* video_sink_dispatch() of what it read.
PumpSends(s) ==
  /\ task[s] = "sends" /\ task' = [task EXCEPT ![s] = "reads"]
  /\ UNCHANGED <<file, table, owner, nmem>>
----------------------------------------------------------------------------
FsInit ==
  /\ file = [s \in Sources |-> [st |-> "none", stop |-> "no"]] /\ table = {} /\ owner = NoSource
  /\ task = [s \in Sources |-> "none"] /\ nmem = 0

FsTask(s) == PumpReads(s) \/ PumpSends(s)
FsStop(s) == PumpDone(s) \/ HandOver(s)
FsNext == \E s \in Sources : \/ FileInit(s) \/ FileStart(s) \/ FileStop(s) \/ FileDeinit(s)
                             \/ FsStop(s) \/ FsTask(s)

\* The pump task runs, and a stop goes on once it may.
FsSpec == FsInit /\ [][FsNext]_fsVars
            /\ \A s \in Sources : WF_fsVars(FsTask(s)) /\ WF_fsVars(FsStop(s))
----------------------------------------------------------------------------
\* At most one pump publishes at a time, it is the owner's, and a source is
\* freed only after its pump is gone: no handover, however starts, stops and
\* deinits of the sources interleave, leaves a pump on freed memory.
OnePump == \A s \in Sources : task[s] \in {"reads", "sends"} =>
             /\ owner = s /\ file[s].st # "none"
             /\ \A o \in Sources \ {s} : task[o] \notin {"reads", "sends"}

\* While a source is started somebody pumps, unless a pump could not be created.
PumpKeptGoing == table # {} /\ nmem = 0 /\ (\A s \in Sources : file[s].stop = "no")
                   => owner \in table /\ task[owner] \in {"reads", "sends"}

\* Sources that share a file have one pump, and have one as long as one of them is started.
FilesSound == OnePump /\ PumpKeptGoing
=============================================================================
