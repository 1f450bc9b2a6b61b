------------------------------- MODULE RawBus -------------------------------
(***************************************************************************)
(* The raw-frame bus of video_raw_bus.c: the capture pump publishes camera *)
(* buffers to the registered sinks, which share them by reference; the     *)
(* last holder gives the buffer back to the driver.  A push sink has a     *)
(* task of the bus, a pull sink a task of the application, an inline sink  *)
(* runs on the pump.  One control task registers, switches, unregisters    *)
(* and drains.                                                             *)
(***************************************************************************)
EXTENDS Naturals, Sequences, FiniteSets, FiniteSetsExt

CONSTANTS Slots,    \* the camera's buffers
          Sinks,    \* entries of s_sinks, numbered in table order
          Configs,  \* what a sink may be registered with: [mode, push, depth, over]
          LoanCap,  \* LOAN_CAP
          GenMod,   \* values of raw_slot_t.generation (256)
          NoSlot, Pump, Ctl

ASSUME RbAssumption == /\ LoanCap \in Nat /\ GenMod \in Nat \ {0} /\ Sinks \subseteq Nat
                       /\ NoSlot \notin Slots /\ Pump \notin Sinks /\ Ctl \notin Sinks /\ Pump # Ctl
                       /\ IsFiniteSet(Slots) /\ IsFiniteSet(Sinks)
                       /\ Configs \subseteq [mode : {"inline", "passthrough", "converted"}, push : BOOLEAN,
                                              depth : Nat, over : {"new", "old", "block"}]

VARIABLES
  slot,     \* s_slots[]: refs, gen, counted
  pinned,   \* s_pinned
  driver,   \* the buffers the driver has
  ret,      \* ret[t]: the buffer thread t is about to give back, outside s_slot_lock
  tab,      \* s_sinks[]: use, on, cfg, q, infl, held, drefs, run
  pump,     \* the publish under way: where it is, its slot, the sinks still to be offered it
  cons,     \* cons[s]: the sink's task or pull consumer: where it is and its frame
  rbCtl       \* the control task: where it is, its operation, the sinks to drain, the frame

rbVars  == <<slot, pinned, driver, ret, tab, pump, cons, rbCtl>>
buffers == <<slot, pinned, ret>>

NoConfig == [mode |-> "none", push |-> FALSE, depth |-> 0, over |-> "new"]
NoSink   == [use |-> FALSE, on |-> FALSE, cfg |-> NoConfig, q |-> <<>>, infl |-> 0,
             held |-> FALSE, drefs |-> 0, run |-> FALSE]
NoFrame  == [slot |-> NoSlot, gen |-> 0]
IdleCtl  == [pc |-> "idle", op |-> "none", todo |-> {}, f |-> NoFrame]
NoPublish == [pc |-> "idle", slot |-> NoSlot, todo |-> {}]
Idle(t)  == ret[t] = NoSlot

Cap(s)  == tab[s].cfg.depth + 1
QLen(s) == IF tab[s].cfg.depth = 0 THEN 1 ELSE tab[s].cfg.depth
First(S) == CHOOSE s \in S : \A r \in S : s <= r

Borrows(c) == c.mode \in {"passthrough", "converted"}
Committed  == MapThenSumSet(Cap, {s \in Sinks : tab[s].use /\ Borrows(tab[s].cfg)})

\* Mutant: the buffer goes back one reference early.
DropRefEarly(t, f) ==
  IF f.slot = NoSlot \/ slot[f.slot].gen # f.gen \/ slot[f.slot].refs = 0
    THEN UNCHANGED buffers
    ELSE LET last == slot[f.slot].refs <= 2
             paid == last /\ slot[f.slot].counted
         IN /\ slot' = [slot EXCEPT ![f.slot].refs = @ - 1,
                                    ![f.slot].counted = @ /\ ~last]
            /\ pinned' = IF paid THEN pinned - 1 ELSE pinned
            /\ ret' = IF last THEN [ret EXCEPT ![t] = f.slot] ELSE ret

\* Mutant: the loan is not taken off the counter.
DropRefStillCharged(t, f) ==
  IF f.slot = NoSlot \/ slot[f.slot].gen # f.gen \/ slot[f.slot].refs = 0
    THEN UNCHANGED buffers
    ELSE LET last == slot[f.slot].refs = 1
         IN /\ slot' = [slot EXCEPT ![f.slot].refs = @ - 1,
                                    ![f.slot].counted = @ /\ ~last]
            /\ pinned' = pinned
            /\ ret' = IF last THEN [ret EXCEPT ![t] = f.slot] ELSE ret

(* slot_release() and frame_release(): a stale generation or a slot without *)
(* references is refused; the last reference gives the buffer back.        *)
DropRef(t, f) ==
  IF f.slot = NoSlot \/ slot[f.slot].gen # f.gen \/ slot[f.slot].refs = 0
    THEN UNCHANGED buffers
    ELSE LET last == slot[f.slot].refs = 1
             paid == last /\ slot[f.slot].counted
         IN /\ slot' = [slot EXCEPT ![f.slot].refs = @ - 1,
                                    ![f.slot].counted = @ /\ ~last]
            /\ pinned' = IF paid THEN pinned - 1 ELSE pinned
            /\ ret' = IF last THEN [ret EXCEPT ![t] = f.slot] ELSE ret

\* esp_video_if_release_frame(), after s_slot_lock was let go.
ReturnBuffer(t) ==
  /\ ret[t] # NoSlot
  /\ driver' = driver \cup {ret[t]} /\ ret' = [ret EXCEPT ![t] = NoSlot]
  /\ UNCHANGED <<slot, pinned, tab, pump, cons, rbCtl>>
----------------------------------------------------------------------------
(* video_raw_bus_publish(), on the pump                                    *)

PumpIn(pc) == pump.pc = pc /\ Idle(Pump)

PublishBegins(sl) ==
  /\ PumpIn("idle") /\ sl \in driver
  /\ driver' = driver \ {sl}
  /\ slot' = [slot EXCEPT ![sl] = [refs |-> 1, gen |-> (@.gen + 1) % GenMod,
                                   counted |-> FALSE]]
  /\ pump' = [pc |-> "snap", slot |-> sl, todo |-> {}]
  /\ UNCHANGED <<pinned, ret, tab, cons, rbCtl>>

\* The table is read once, and every sink on the list is kept by a
\* dispatch reference.
PublishSnapshot ==
  LET list == {s \in Sinks : tab[s].use /\ tab[s].on}
  IN /\ PumpIn("snap")
     /\ tab' = [s \in Sinks |-> IF s \in list THEN [tab[s] EXCEPT !.drefs = @ + 1]
                                              ELSE tab[s]]
     /\ pump' = [pump EXCEPT !.pc = "offer", !.todo = list]
     /\ UNCHANGED <<buffers, driver, cons, rbCtl>>

ThisFrame == [slot |-> pump.slot, gen |-> slot[pump.slot].gen]
OffersTo(s) == PumpIn("offer") /\ pump.todo # {} /\ s = First(pump.todo)
Offered == pump' = [pump EXCEPT !.pc = "next"]

\* Mutants: the sink's limit is off by one; the loan budget is not looked at.
AtLimitOffByOne(s) == tab[s].infl > Cap(s)
NoLoanUnchecked == FALSE

AtLimit(s) == tab[s].infl >= Cap(s)
NoLoan == ~slot[pump.slot].counted /\ pinned >= LoanCap
CanTake(s) == ~AtLimit(s) /\ ~NoLoan /\ Len(tab[s].q) < QLen(s)

\* The fps_limit gate rejects the frame, or an inline sink's callback ran.
OfferPassed(s) ==
  /\ OffersTo(s) /\ Offered
  /\ UNCHANGED <<buffers, driver, tab, cons, rbCtl>>

\* Mutant: the queued frame takes no reference.
OfferTakenUnreferenced(s) ==
  /\ OffersTo(s) /\ tab[s].cfg.mode # "inline" /\ CanTake(s) /\ Offered
  /\ tab' = [tab EXCEPT ![s].q = Append(@, ThisFrame), ![s].infl = @ + 1]
  /\ slot' = [slot EXCEPT ![pump.slot].counted = TRUE]
  /\ pinned' = IF slot[pump.slot].counted THEN pinned ELSE pinned + 1
  /\ UNCHANGED <<ret, driver, cons, rbCtl>>

OfferTaken(s) ==
  /\ OffersTo(s) /\ tab[s].cfg.mode # "inline" /\ CanTake(s) /\ Offered
  /\ tab' = [tab EXCEPT ![s].q = Append(@, ThisFrame), ![s].infl = @ + 1]
  /\ slot' = [slot EXCEPT ![pump.slot].refs = @ + 1, ![pump.slot].counted = TRUE]
  /\ pinned' = IF slot[pump.slot].counted THEN pinned ELSE pinned + 1
  /\ UNCHANGED <<ret, driver, cons, rbCtl>>

\* Mutant: the evicted frame keeps its reference.
OfferEvictsLeaking(s) ==
  /\ OffersTo(s) /\ tab[s].cfg.mode # "inline" /\ ~CanTake(s)
  /\ tab[s].cfg.over = "old" /\ tab[s].q # <<>>
  /\ tab' = [tab EXCEPT ![s].q = Tail(@), ![s].infl = @ - 1]
  /\ UNCHANGED <<buffers, driver, pump, cons, rbCtl>>

\* DROP_OLD: the oldest queued frame is evicted and the offer repeated.
OfferEvicts(s) ==
  /\ OffersTo(s) /\ tab[s].cfg.mode # "inline" /\ ~CanTake(s)
  /\ tab[s].cfg.over = "old" /\ tab[s].q # <<>>
  /\ DropRef(Pump, Head(tab[s].q))
  /\ tab' = [tab EXCEPT ![s].q = Tail(@), ![s].infl = @ - 1]
  /\ UNCHANGED <<driver, pump, cons, rbCtl>>

\* DROP_NEW; DROP_OLD with nothing to evict; BLOCK once the wait for
\* s_freed_sem timed out, which halt() and unregister() only cut short.
OfferDropped(s) ==
  /\ OffersTo(s) /\ tab[s].cfg.mode # "inline" /\ ~CanTake(s)
  /\ ~(tab[s].cfg.over = "old" /\ tab[s].q # <<>>)
  /\ Offered
  /\ UNCHANGED <<buffers, driver, tab, cons, rbCtl>>

\* Mutant: the sink stays on the list.
PublishNextRepeats ==
  LET s == First(pump.todo)
  IN /\ PumpIn("next")
     /\ pump' = [pump EXCEPT !.pc = "offer"]
     /\ UNCHANGED <<buffers, driver, tab, cons, rbCtl>>

PublishNext ==
  LET s == First(pump.todo)
  IN /\ PumpIn("next")
     /\ tab' = [tab EXCEPT ![s].drefs = @ - 1]
     /\ pump' = [pump EXCEPT !.pc = "offer", !.todo = @ \ {s}]
     /\ UNCHANGED <<buffers, driver, cons, rbCtl>>

PublishEnds ==
  /\ PumpIn("offer") /\ pump.todo = {}
  /\ DropRef(Pump, ThisFrame)
  /\ pump' = NoPublish
  /\ UNCHANGED <<driver, tab, cons, rbCtl>>
----------------------------------------------------------------------------
(* sink_task(), and video_raw_sink_acquire() / _release() of a pull sink   *)

ConsIn(s, pc) == cons[s].pc = pc /\ Idle(s)
ConsGo(s, pc, f) == cons' = [cons EXCEPT ![s] = [pc |-> pc, f |-> f]]

\* A frame goes to the conversion first, if there is one.
Takes(s) ==
  /\ ConsIn(s, "idle") /\ tab[s].use /\ tab[s].q # <<>>
  /\ IF tab[s].cfg.push THEN tab[s].run ELSE ~tab[s].held
  /\ LET conv == tab[s].cfg.mode = "converted"
     IN /\ ConsGo(s, IF conv THEN "convert" ELSE "hand", Head(tab[s].q))
        /\ tab' = [tab EXCEPT ![s].q = Tail(@), ![s].held = ~conv /\ ~tab[s].cfg.push]
  /\ UNCHANGED <<buffers, driver, pump, rbCtl>>

\* sink_convert(): the camera's buffer is released whatever happens; when
\* there is no converter the sink is disabled.  A pull consumer does this in its
\* own acquire(), which may outlast the bounded wait of an unregister.
Converts(s) ==
  /\ ConsIn(s, "convert")
  /\ DropRef(s, cons[s].f)
  /\ \/ ConsGo(s, "hand", NoFrame)
        /\ tab' = [tab EXCEPT ![s].held = ~tab[s].cfg.push]
     \/ ConsGo(s, "failed", NoFrame)
        /\ \E on \in {tab[s].on, FALSE} : tab' = [tab EXCEPT ![s].on = on]
  /\ UNCHANGED <<driver, pump, rbCtl>>

ConvertFailed(s) ==
  /\ ConsIn(s, "failed")
  /\ tab' = IF tab[s].use THEN [tab EXCEPT ![s].infl = @ - 1] ELSE tab
  /\ ConsGo(s, IF tab[s].use THEN "idle" ELSE "none", NoFrame)
  /\ UNCHANGED <<buffers, driver, pump, rbCtl>>

\* The callback returned, or the pull consumer releases.  The count goes
\* down before the reference.
Finishes(s) ==
  /\ ConsIn(s, "hand") /\ tab[s].use
  /\ tab' = [tab EXCEPT ![s].infl = @ - 1, ![s].held = FALSE]
  /\ ConsGo(s, "release", cons[s].f)
  /\ UNCHANGED <<buffers, driver, pump, rbCtl>>

Releases(s) ==
  /\ ConsIn(s, "release")
  /\ DropRef(s, cons[s].f)
  /\ ConsGo(s, IF tab[s].use THEN "idle" ELSE "none", NoFrame)
  /\ UNCHANGED <<driver, tab, pump, rbCtl>>

\* A release after the sink was unregistered is refused: "lost" keeps the
\* frame nobody gives back.
ReleaseRefused(s) ==
  /\ ConsIn(s, "hand") /\ ~tab[s].use
  /\ ConsGo(s, "lost", cons[s].f)
  /\ UNCHANGED <<buffers, driver, tab, pump, rbCtl>>

TaskParks(s) ==
  /\ ConsIn(s, "idle") /\ tab[s].use /\ tab[s].cfg.push /\ ~tab[s].run
  /\ ConsGo(s, "parked", NoFrame)
  /\ UNCHANGED <<buffers, driver, tab, pump, rbCtl>>
----------------------------------------------------------------------------
(* The control task                                                        *)

CtlIn(pc) == rbCtl.pc = pc /\ Idle(Ctl)

\* The claim of a sink that borrows must fit into what is left to loan.
\* The entry's former consumer is done with it, and nobody registers the same
\* consumer twice.
Register(c) ==
  LET free == {s \in Sinks : ~tab[s].use}
      s    == First(free)
  IN
  /\ CtlIn("idle") /\ free # {} /\ cons[s].pc = "none" /\ ret[s] = NoSlot
  /\ \A r \in Sinks : tab[r].cfg # c
  /\ Borrows(c) => Committed + c.depth + 1 <= LoanCap
  /\ tab' = [tab EXCEPT ![s] = [NoSink EXCEPT !.use = TRUE, !.cfg = c, !.run = c.push]]
  /\ ConsGo(s, IF c.mode = "inline" THEN "none" ELSE "idle", NoFrame)
  /\ UNCHANGED <<buffers, driver, pump, rbCtl>>

Enable(s) ==
  /\ CtlIn("idle") /\ tab[s].use
  /\ tab' = [tab EXCEPT ![s].on = TRUE]
  /\ UNCHANGED <<buffers, driver, pump, cons, rbCtl>>

Disable(s) ==
  /\ CtlIn("idle") /\ tab[s].use
  /\ tab' = [tab EXCEPT ![s].on = FALSE]
  /\ rbCtl' = [IdleCtl EXCEPT !.pc = "drain", !.op = "disable", !.todo = {s}]
  /\ UNCHANGED <<buffers, driver, pump, cons>>

Unregister(s) ==
  /\ CtlIn("idle") /\ tab[s].use
  /\ tab' = [tab EXCEPT ![s].on = FALSE]
  /\ rbCtl' = [IdleCtl EXCEPT !.pc = "dispatch", !.op = "unregister", !.todo = {s}]
  /\ UNCHANGED <<buffers, driver, pump, cons>>

\* Mutants: the dispatch is not waited for; the task is not told to end.
DispatchIgnored(s) ==
  /\ CtlIn("dispatch") /\ s \in rbCtl.todo
  /\ tab' = [tab EXCEPT ![s].run = FALSE]
  /\ rbCtl' = [rbCtl EXCEPT !.pc = "drain"]
  /\ UNCHANGED <<buffers, driver, pump, cons>>

DispatchOverTaskRuns(s) ==
  /\ CtlIn("dispatch") /\ s \in rbCtl.todo /\ tab[s].drefs = 0
  /\ rbCtl' = [rbCtl EXCEPT !.pc = "drain"]
  /\ UNCHANGED <<buffers, driver, tab, pump, cons>>

\* The wait for dispatch_refs = 0 has no bound.
DispatchOver(s) ==
  /\ CtlIn("dispatch") /\ s \in rbCtl.todo /\ tab[s].drefs = 0
  /\ tab' = [tab EXCEPT ![s].run = FALSE]
  /\ rbCtl' = [rbCtl EXCEPT !.pc = "drain"]
  /\ UNCHANGED <<buffers, driver, pump, cons>>

\* sink_drain(), one sink of rbCtl.todo after the other.
Drained == First(rbCtl.todo)

DrainPops ==
  /\ CtlIn("drain") /\ tab[Drained].q # <<>>
  /\ tab' = [tab EXCEPT ![Drained].q = Tail(@)]
  /\ rbCtl' = [rbCtl EXCEPT !.pc = "account", !.f = Head(tab[Drained].q)]
  /\ UNCHANGED <<buffers, driver, pump, cons>>

DrainAccounts ==
  /\ CtlIn("account")
  /\ tab' = [tab EXCEPT ![Drained].infl = @ - 1]
  /\ rbCtl' = [rbCtl EXCEPT !.pc = "release"]
  /\ UNCHANGED <<buffers, driver, pump, cons>>

DrainReleases ==
  /\ CtlIn("release")
  /\ DropRef(Ctl, rbCtl.f)
  /\ rbCtl' = [rbCtl EXCEPT !.pc = "drain", !.f = NoFrame]
  /\ UNCHANGED <<driver, tab, pump, cons>>

AfterDrain == CASE rbCtl.op = "disable"    -> IdleCtl
                [] rbCtl.op = "unregister" -> [rbCtl EXCEPT !.pc = "join"]
                [] rbCtl.op = "drain"      -> [rbCtl EXCEPT !.pc = "wait", !.todo = {}]

DrainMoves ==
  /\ CtlIn("drain") /\ tab[Drained].q = <<>>
  /\ rbCtl' = IF Cardinality(rbCtl.todo) = 1 THEN AfterDrain
                                         ELSE [rbCtl EXCEPT !.todo = @ \ {Drained}]
  /\ UNCHANGED <<buffers, driver, tab, pump, cons>>

\* A push sink's task is joined, however long it takes; a pull consumer that
\* keeps its frame is waited for and then left with it.
Unregistered(s) ==
  /\ CtlIn("join") /\ s \in rbCtl.todo
  /\ tab[s].cfg.mode # "inline" /\ tab[s].cfg.push => cons[s].pc = "parked"
  /\ tab' = [tab EXCEPT ![s] = NoSink]
  /\ cons' = IF cons[s].pc \in {"parked", "idle"}
               THEN [cons EXCEPT ![s] = [pc |-> "none", f |-> NoFrame]] ELSE cons
  /\ rbCtl' = IdleCtl
  /\ UNCHANGED <<buffers, driver, pump>>

DrainBegins ==
  LET used == {s \in Sinks : tab[s].use}
  IN /\ CtlIn("idle")
     /\ rbCtl' = [IdleCtl EXCEPT !.pc = IF used = {} THEN "wait" ELSE "drain",
                               !.op = "drain", !.todo = used]
     /\ UNCHANGED <<buffers, driver, tab, pump, cons>>

\* Mutant: only the counts are looked at.
DrainLooksClean == \A s \in Sinks : tab[s].infl = 0

\* What video_raw_bus_drain() returns.
DrainIsClean == /\ \A s \in Sinks : tab[s].infl = 0
                /\ \A sl \in Slots : slot[sl].refs = 0

\* The wait for the consumers is bounded: the verdict may come before them.
DrainVerdict ==
  /\ CtlIn("wait")
  /\ rbCtl' = IdleCtl
  /\ UNCHANGED <<buffers, driver, tab, pump, cons>>
----------------------------------------------------------------------------
RbInit ==
  /\ slot = [sl \in Slots |-> [refs |-> 0, gen |-> 0, counted |-> FALSE]]
  /\ pinned = 0 /\ driver = Slots
  /\ ret = [t \in Sinks \cup {Pump, Ctl} |-> NoSlot]
  /\ tab = [s \in Sinks |-> NoSink]
  /\ pump = NoPublish
  /\ cons = [s \in Sinks |-> [pc |-> "none", f |-> NoFrame]]
  /\ rbCtl = IdleCtl

PumpStep == \/ PublishSnapshot \/ PublishNext \/ PublishEnds
            \/ \E s \in Sinks : \/ OfferPassed(s) \/ OfferTaken(s)
                                \/ OfferEvicts(s) \/ OfferDropped(s)

ConsStep(s) == \/ Takes(s) \/ Converts(s) \/ ConvertFailed(s) \/ Finishes(s)
               \/ Releases(s) \/ ReleaseRefused(s) \/ TaskParks(s)

CtlCall == \/ \E s \in Sinks : Enable(s) \/ Disable(s) \/ Unregister(s)
           \/ \E c \in Configs : Register(c)
           \/ DrainBegins

CtlStep == \/ \E s \in Sinks : DispatchOver(s) \/ Unregistered(s)
           \/ DrainPops \/ DrainAccounts \/ DrainReleases \/ DrainMoves \/ DrainVerdict

RbNext == \/ \E sl \in Slots : PublishBegins(sl)
          \/ PumpStep \/ CtlCall \/ CtlStep
          \/ \E s \in Sinks : ConsStep(s)
          \/ \E t \in Sinks \cup {Pump, Ctl} : ReturnBuffer(t)

\* Every task runs; a push callback and the pull consumer come to an end.
RbFairness == /\ WF_rbVars(PumpStep) /\ WF_rbVars(CtlStep)
              /\ \A s \in Sinks : WF_rbVars(ConsStep(s))
              /\ \A t \in Sinks \cup {Pump, Ctl} : WF_rbVars(ReturnBuffer(t))

RbSpec == RbInit /\ [][RbNext]_rbVars /\ RbFairness
----------------------------------------------------------------------------
(* Properties                                                              *)

Frames == [slot : Slots \cup {NoSlot}, gen : 0..GenMod-1]

RbTypeOK ==
  /\ slot \in [Slots -> [refs : Nat, gen : 0..GenMod-1, counted : BOOLEAN]]
  /\ pinned \in 0..LoanCap
  /\ driver \subseteq Slots
  /\ ret \in [Sinks \cup {Pump, Ctl} -> Slots \cup {NoSlot}]
  /\ \A s \in Sinks : /\ tab[s].infl \in Nat /\ tab[s].drefs \in {0, 1}
                       /\ tab[s].q \in Seq(Frames) /\ cons[s].f \in Frames
  /\ pump.todo \subseteq Sinks /\ rbCtl.todo \subseteq Sinks

\* Who holds a reference to slot sl: the publisher, the queues, the sinks'
\* tasks and consumers, the control task with a frame it drained.
Queued(sl)  == UNION {{s} \X {k \in DOMAIN tab[s].q : tab[s].q[k].slot = sl} : s \in Sinks}
InHand(sl)  == {s \in Sinks : cons[s].f.slot = sl}
Holders(sl) == Cardinality(Queued(sl)) + Cardinality(InHand(sl))
               + (IF pump.slot = sl THEN 1 ELSE 0)
               + (IF rbCtl.f.slot = sl THEN 1 ELSE 0)

\* Each reference a slot counts belongs to exactly one holder, through
\* eviction, drains, failed conversions and unregistered sinks.
RefsMatchHolders == \A sl \in Slots : slot[sl].refs = Holders(sl)

\* A buffer is in one place: with the driver, on its way back in one thread,
\* or referenced.  So it is never given back twice, nor while a sink reads it.
OnePlace ==
  \A sl \in Slots : LET back == {t \in DOMAIN ret : ret[t] = sl}
                     IN (IF sl \in driver THEN 1 ELSE 0) + Cardinality(back)
                        + (IF slot[sl].refs > 0 THEN 1 ELSE 0) = 1

\* Every frame held by anybody has its slot's generation: the stale-release
\* check of slot_release() never has to refuse one.
FramesCurrent ==
  /\ \A s \in Sinks : \A k \in 1..Len(tab[s].q) : tab[s].q[k].gen = slot[tab[s].q[k].slot].gen
  /\ \A s \in Sinks : cons[s].f.slot # NoSlot => cons[s].f.gen = slot[cons[s].f.slot].gen
  /\ rbCtl.f.slot # NoSlot => rbCtl.f.gen = slot[rbCtl.f.slot].gen

\* The loan counter is the number of buffers out with the sinks, so the
\* camera always keeps its reserve.
PinnedMatches == /\ pinned = Cardinality({sl \in Slots : slot[sl].counted})
                 /\ \A sl \in Slots : slot[sl].counted => slot[sl].refs > 0

\* A sink's in_flight is what it has queued and in hand, and never more than
\* queue_depth + 1.
InFlightMatches ==
  \A s \in Sinks : tab[s].use =>
     /\ tab[s].infl = Len(tab[s].q)
           + (IF cons[s].pc \in {"convert", "failed", "hand"} THEN 1 ELSE 0)
           + (IF rbCtl.pc = "account" /\ Drained = s THEN 1 ELSE 0)
     /\ tab[s].infl <= Cap(s)

\* A sink is gone only when no dispatch is inside it, its queue is empty and
\* its task parked; a pull consumer at most keeps the frame it had.
GoneIsQuiet ==
  /\ \A s \in Sinks : ~tab[s].use => /\ s \notin pump.todo /\ tab[s].q = <<>>
                                      /\ cons[s].pc \in {"none", "convert", "failed", "hand", "release", "lost"}
  /\ \A s \in Sinks : tab[s].drefs = (IF s \in pump.todo THEN 1 ELSE 0)

\* A drain that reports clean, run while the pump is parked, leaves no frame
\* with anybody: what the capture buffers and the encoder own may be freed.
CleanMeansClean ==
  [][DrainVerdict /\ DrainIsClean /\ pump.pc = "idle" =>
       \A sl \in Slots : Holders(sl) = 0 /\ ~slot[sl].counted]_rbVars

\* The bus accounts for every buffer: each reference has one holder, each buffer one place,
\* the two counters are right, and a sink that is gone or a drain that is clean holds none.
BusSound ==
  /\ [](/\ RefsMatchHolders /\ OnePlace /\ FramesCurrent
        /\ PinnedMatches /\ InFlightMatches /\ GoneIsQuiet)
  /\ CleanMeansClean
=============================================================================
