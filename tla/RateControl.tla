----------------------------- MODULE RateControl -----------------------------
(***************************************************************************)
(* media_stream/src/video_rate_ctrl.c: one controller per transport climbs *)
(* and descends a ladder of (fps, bitrate) rungs on its own evidence; the  *)
(* slowest eligible one decides for the single encoder.  All operations    *)
(* run under one lock and are atomic here; the encoder task pulls the      *)
(* bitrate and the frame-rate pin through atomics.  The averages of send   *)
(* times and queue levels are abstracted to the verdict they give, the     *)
(* cached `stale' flag to the time of the last report, on which it depends. *)
(* Times are ticks.                                                        *)
(***************************************************************************)
EXTENDS Integers, Sequences, FiniteSets, FiniteSetsExt

CONSTANTS Senders,      \* controllers of s_ctrl[] fed by send times and a network estimate
          Queuers,      \* controllers fed by the level of a queue
          Ladder,       \* LADDER: records fps, pct
          MaxRate,      \* max_bitrate_bps
          MinRates,     \* values of min_bitrate_bps; the least is MIN_BITRATE_BPS
          ResFloor,     \* vrate_resolution_floor_bps()
          PinFloor,     \* vrate_pinned_floor_raw()
          CameraFps, FpsFloor,
          Ceilings,     \* network ceilings; 0 for none
          StartLevel,   \* START_LEVEL
          StaleTicks, DwellTicks, MinReports, DecayTicks, PinTicks, EvalTicks, RecoverTicks,
          RcMaxTime, RcMaxOps   \* bounds on the clock and on calls that configure

ASSUME RcAssumption ==
  /\ Ladder \in Seq([fps : Nat, pct : 0 .. 100]) /\ Len(Ladder) > StartLevel
  /\ \A i, j \in 1 .. Len(Ladder) : i <= j => Ladder[j].pct <= Ladder[i].pct
  /\ {MaxRate, ResFloor, PinFloor, CameraFps, FpsFloor, StartLevel} \subseteq Nat /\ MaxRate > 0
  /\ MinRates \subseteq Nat \ {0} /\ MinRates # {} /\ Ceilings \subseteq Nat
  /\ {StaleTicks, DwellTicks, MinReports, DecayTicks, PinTicks, EvalTicks, RecoverTicks} \subseteq Nat
  /\ {RcMaxTime, RcMaxOps} \subseteq Nat

VARIABLES agg,     \* s_agg
          ctl,     \* s_ctrl
          pub,     \* s_pub_target_fps, s_pending_bitrate, s_pending_pin, s_stale_check_us
          encRate, \* the bitrate the encoder runs at (external)
          clock, rcOps,
          frozen,  \* no lever was left at some time (history)
          loose    \* the pin was released by a controller's descent (history)

Ctrls == Senders \cup Queuers
rcVars == <<agg, ctl, pub, encRate, clock, rcOps, frozen, loose>>

NeverTicks == RcMaxTime + StaleTicks + 1   \* INT64_MAX
NoSince == -1
Deepest == Len(Ladder) - 1

Free == [used |-> FALSE, on |-> FALSE, level |-> 0, fps |-> 0, bps |-> 0, ceil |-> 0,
         since |-> NoSince, seen |-> 0, bar |-> 0, barAt |-> 0, last |-> 0, next |-> 0]

RcInit ==
  /\ agg = [inited |-> FALSE, fpsAct |-> FALSE, bitAct |-> FALSE, min |-> 0, req |-> 0,
            wanted |-> FALSE, pinned |-> FALSE, released |-> 0]
  /\ ctl = [c \in Ctrls |-> Free]
  /\ pub = [fps |-> 0, rate |-> 0, pin |-> -1, check |-> 0]
  /\ encRate = 0 /\ clock = 0 /\ rcOps = 0 /\ frozen = FALSE /\ loose = FALSE

----------------------------------------------------------------------------
(* The ladder under the floors in force.                                   *)

Upper(x, y) == IF x < y THEN y ELSE x
Lower(x, y) == IF x < y THEN x ELSE y

FloorOf(a) ==
  Lower(MaxRate, Upper(Upper(a.min, ResFloor), IF a.pinned THEN PinFloor ELSE 0))

RungBitrate(a, l) == Upper((MaxRate * Ladder[l + 1].pct) \div 100, FloorOf(a))

RungFps(a, l) ==
  LET f == IF Ladder[l + 1].fps = 0 THEN CameraFps ELSE Ladder[l + 1].fps IN
  IF a.fpsAct THEN Lower(Upper(f, FpsFloor), CameraFps) ELSE CameraFps

\* The last rung that differs from the one above it in something the encoder sees.
DeepestUseful(a) ==
  Max({0} \cup {l \in 1 .. Deepest : \/ RungFps(a, l) # RungFps(a, l - 1)
                                     \/ RungBitrate(a, l) # RungBitrate(a, l - 1)})

EffMax(a, c) ==
  Upper(FloorOf(a), IF c.ceil # 0 THEN Lower(c.ceil, MaxRate) ELSE MaxRate)

CeilingLevel(a, c) ==
  LET fit == {l \in 0 .. Deepest : RungBitrate(a, l) <= EffMax(a, c)} IN
  IF fit = {} THEN Deepest ELSE Min(fit)

ApplyLevelUncapped(a, c, l) ==
  LET lv == Lower(DeepestUseful(a), l) IN
  [c EXCEPT !.level = lv, !.fps = RungFps(a, lv), !.bps = RungBitrate(a, lv)]

ApplyLevel(a, c, l) ==
  LET lv == Lower(DeepestUseful(a), Upper(l, CeilingLevel(a, c))) IN
  [c EXCEPT !.level = lv, !.fps = RungFps(a, lv), !.bps = RungBitrate(a, lv)]

StartAt(a) == IF a.fpsAct THEN StartLevel ELSE 0

ResetSignal(c) == [c EXCEPT !.since = NoSince, !.seen = 0, !.next = 0]

IsStale(c) == clock - c.last > StaleTicks
Eligible(cs) == {c \in Ctrls : cs[c].used /\ cs[c].on /\ ~IsStale(cs[c])}
Inert(a) == a.inited /\ ~a.fpsAct /\ ~a.bitAct

\* vrate_rearbitrate(): the slowest of the eligible controllers, the re-assertion of
\* the pin, and when staleness could matter next.  Its effect on agg and pub.
Rearbitrate(a, cs, p) ==
  LET es == Eligible(cs)
      bps == Min({cs[c].bps : c \in es})
      repin == a.wanted /\ ~a.pinned /\ bps >= PinFloor /\ clock - a.released >= PinTicks IN
  IF Inert(a) THEN <<a, [p EXCEPT !.check = NeverTicks]>>
  ELSE IF ~a.inited THEN <<a, [p EXCEPT !.fps = 0, !.check = NeverTicks]>>
  ELSE IF es = {}
  THEN <<[a EXCEPT !.req = MaxRate],
         [p EXCEPT !.fps = 0, !.rate = IF a.req # MaxRate THEN MaxRate ELSE @, !.check = NeverTicks]>>
  ELSE <<[a EXCEPT !.req = bps, !.pinned = @ \/ repin],
         [p EXCEPT !.fps = Min({cs[c].fps : c \in es}),
                   !.rate = IF a.req # bps THEN bps ELSE @,
                   !.pin = IF repin THEN 1 ELSE @,
                   !.check = Min({cs[c].last + StaleTicks : c \in es})]>>

\* An operation leaves a, cs and p, and re-arbitrates them or not.
Settle(a, cs, p, again) ==
  LET r == IF again THEN Rearbitrate(a, cs, p) ELSE <<a, p>> IN
  /\ agg' = r[1] /\ pub' = r[2] /\ ctl' = cs
  /\ frozen' = (frozen \/ Inert(a))

----------------------------------------------------------------------------
(* Configuration.                                                          *)

RateInitPending(fpsAct) ==
  /\ rcOps < RcMaxOps /\ rcOps' = rcOps + 1
  /\ LET a == [agg EXCEPT !.inited = TRUE, !.fpsAct = fpsAct, !.bitAct = TRUE, !.req = MaxRate,
                          !.min = Lower(Min(MinRates), MaxRate), !.pinned = agg.wanted, !.released = 0]
         Seed(c) == [ResetSignal(c) EXCEPT !.last = clock, !.bar = 0, !.barAt = clock]
         cs == [c \in Ctrls |-> IF ~ctl[c].used THEN ctl[c]
                                ELSE IF ctl[c].on THEN ApplyLevel(a, Seed(ctl[c]), StartAt(a)) ELSE Seed(ctl[c])]
     IN Settle(a, cs, pub, TRUE)
  /\ encRate' = MaxRate
  /\ UNCHANGED <<clock, loose>>

\* video_rate_ctrl_init(): the encoder was made anew at its maximum.
RateInit(fpsAct) ==
  /\ rcOps < RcMaxOps /\ rcOps' = rcOps + 1
  /\ LET a == [agg EXCEPT !.inited = TRUE, !.fpsAct = fpsAct, !.bitAct = TRUE, !.req = MaxRate,
                          !.min = Lower(Min(MinRates), MaxRate), !.pinned = agg.wanted, !.released = 0]
         Seed(c) == [ResetSignal(c) EXCEPT !.last = clock, !.bar = 0, !.barAt = clock]
         cs == [c \in Ctrls |-> IF ~ctl[c].used THEN ctl[c]
                                ELSE IF ctl[c].on THEN ApplyLevel(a, Seed(ctl[c]), StartAt(a)) ELSE Seed(ctl[c])]
     IN Settle(a, cs, [pub EXCEPT !.rate = 0], TRUE)
  /\ encRate' = MaxRate
  /\ UNCHANGED <<clock, loose>>

Create(c) ==
  /\ rcOps < RcMaxOps /\ rcOps' = rcOps + 1
  /\ ~ctl[c].used
  /\ LET n == [Free EXCEPT !.used = TRUE, !.last = clock] IN
     ctl' = [ctl EXCEPT ![c] = IF agg.inited THEN ApplyLevel(agg, n, StartAt(agg)) ELSE n]
  /\ UNCHANGED <<agg, pub, encRate, clock, frozen, loose>>

DestroyQuiet(c) ==
  /\ rcOps < RcMaxOps /\ rcOps' = rcOps + 1
  /\ ctl[c].used
  /\ Settle(agg, [ctl EXCEPT ![c] = Free], pub, FALSE)
  /\ UNCHANGED <<encRate, clock, loose>>

Destroy(c) ==
  /\ rcOps < RcMaxOps /\ rcOps' = rcOps + 1
  /\ ctl[c].used
  /\ Settle(agg, [ctl EXCEPT ![c] = Free], pub, TRUE)
  /\ UNCHANGED <<encRate, clock, loose>>

Enable(c) ==
  /\ rcOps < RcMaxOps /\ rcOps' = rcOps + 1
  /\ ctl[c].used
  /\ LET n == [ResetSignal(ctl[c]) EXCEPT !.on = ~ctl[c].on, !.last = clock] IN
     Settle(agg, [ctl EXCEPT ![c] = IF n.on /\ agg.inited THEN ApplyLevel(agg, n, StartAt(agg)) ELSE n], pub, TRUE)
  /\ UNCHANGED <<encRate, clock, loose>>

SetMin(m) ==
  /\ rcOps < RcMaxOps /\ rcOps' = rcOps + 1
  /\ Lower(m, MaxRate) # agg.min /\ agg.inited
  /\ LET a == [agg EXCEPT !.min = Lower(m, MaxRate)] IN
     Settle(a, [c \in Ctrls |-> IF ctl[c].used THEN ApplyLevel(a, ctl[c], ctl[c].level) ELSE ctl[c]], pub, TRUE)
  /\ UNCHANGED <<encRate, clock, loose>>

\* Not re-arbitrated.
SetActuable(b) ==
  /\ rcOps < RcMaxOps /\ rcOps' = rcOps + 1
  /\ agg.inited /\ agg.bitAct # b
  /\ Settle([agg EXCEPT !.bitAct = b], ctl, pub, FALSE)
  /\ UNCHANGED <<encRate, clock, loose>>

\* vrate_set_pin(), by the operator or by the actuator that reports what it did.
SetPin(pinned, request) ==
  /\ rcOps < RcMaxOps /\ rcOps' = rcOps + 1
  /\ LET a == [agg EXCEPT !.wanted = IF request THEN pinned ELSE @, !.pinned = pinned,
                          !.released = IF request THEN 0 ELSE IF ~pinned THEN clock ELSE @]
         moved == agg.inited /\ agg.pinned # pinned
     IN Settle(a, [c \in Ctrls |-> IF moved /\ ctl[c].used /\ ctl[c].on
                                   THEN ApplyLevel(a, ctl[c], ctl[c].level) ELSE ctl[c]], pub, moved)
  /\ UNCHANGED <<encRate, clock, loose>>

\* video_rate_ctrl_set_network_ceiling_bps(): acted on only when the level moves.
SetCeiling(c, bps) ==
  /\ rcOps < RcMaxOps /\ rcOps' = rcOps + 1
  /\ ctl[c].used /\ ctl[c].ceil # bps
  /\ LET n == [ctl[c] EXCEPT !.ceil = bps]
         m == IF n.on /\ agg.inited THEN ApplyLevel(agg, n, n.level) ELSE n
     IN Settle(agg, [ctl EXCEPT ![c] = m], pub, m.level # n.level)
  /\ UNCHANGED <<encRate, clock, loose>>

----------------------------------------------------------------------------
(* Reports.                                                                *)

\* vrate_step_down(): the level that congested becomes a bar for recovery, and the
\* bottom of a pinned ladder gives the pin up.
StepDown(a, c, jump) ==
  LET barred == [c EXCEPT !.since = NoSince, !.seen = 0, !.barAt = clock,
                          !.bar = IF c.level + 1 > @ THEN Lower(c.level + 1, Deepest) ELSE @]
      bottom == c.level >= DeepestUseful(a)
      freed == [a EXCEPT !.pinned = FALSE, !.released = clock] IN
  IF Inert(a) THEN <<a, [c EXCEPT !.since = NoSince, !.seen = 0], FALSE>>
  ELSE IF bottom /\ ~a.pinned THEN <<a, barred, FALSE>>
  ELSE LET b == IF bottom THEN freed ELSE a IN
       IF c.level >= Deepest THEN <<b, barred, bottom>>
       ELSE <<b, ApplyLevel(b, barred, Lower(c.level + jump, Deepest)), bottom>>

\* vrate_mark_healthy(): a dwell with enough reports, then a rung up, or two when idle,
\* never above the bar.
MarkHealthy(a, c, idle) ==
  LET began == IF c.since = NoSince THEN [c EXCEPT !.since = clock, !.seen = 0] ELSE c
      ripe == clock - began.since >= DwellTicks /\ began.seen >= MinReports
      n == [began EXCEPT !.since = NoSince, !.seen = 0,
                         !.bar = IF @ > 0 /\ clock - c.barAt >= DecayTicks THEN @ - 1 ELSE @,
                         !.barAt = IF c.bar > 0 /\ clock - @ >= DecayTicks THEN clock ELSE @]
      up == IF idle /\ c.level >= n.bar + 3 THEN c.level - 2 ELSE c.level - 1 IN
  IF ~ripe THEN began
  ELSE IF c.level = 0 THEN [began EXCEPT !.since = NoSince, !.seen = 0]
  ELSE IF c.level <= n.bar THEN n
  ELSE ApplyLevel(a, n, Upper(up, n.bar))

RateCounted(c) ==
  [c EXCEPT !.last = clock, !.seen = IF c.since = NoSince THEN 0 ELSE Lower(@ + 1, MinReports)]

\* What a verdict does to the controller: a, the controller, whether the pin went.
Judged(c, v) ==
  CASE v.kind = "congested" -> StepDown(agg, c, v.by)
    [] v.kind = "healthy"   -> <<agg, MarkHealthy(agg, c, v.by = 2), FALSE>>
    [] OTHER                -> <<agg, [c EXCEPT !.since = NoSince, !.seen = 0], FALSE>>

Verdicts == [kind : {"congested"}, by : 1 .. 3] \cup [kind : {"healthy"}, by : 1 .. 2] \cup [kind : {"between"}, by : {0}]

\* video_rate_ctrl_report_send_ms(): judged at every report.
ReportSend(c) ==
  /\ ctl[c].used /\ ctl[c].on /\ agg.inited
  /\ \E v \in Verdicts :
       LET r == Judged(RateCounted(ctl[c]), v) IN
       /\ Settle(r[1], [ctl EXCEPT ![c] = r[2]],
                 IF r[3] THEN [pub EXCEPT !.pin = 0] ELSE pub, r[2].level # ctl[c].level \/ IsStale(ctl[c]))
       /\ loose' = (loose \/ r[3])
  /\ UNCHANGED <<encRate, clock, rcOps>>

\* video_rate_ctrl_report_queue() and _report_overflow(): judged when next is due; an
\* overflow is a congestion of two rungs.
ReportQueue(c) ==
  /\ ctl[c].used /\ ctl[c].on /\ agg.inited
  /\ IF clock < ctl[c].next
     THEN Settle(agg, [ctl EXCEPT ![c] = RateCounted(@)], pub, IsStale(ctl[c])) /\ UNCHANGED loose
     ELSE \E v \in Verdicts :
            LET n == [RateCounted(ctl[c]) EXCEPT !.next = clock + (IF v.kind = "congested" THEN EvalTicks ELSE RecoverTicks)]
                r == Judged(n, v) IN
            /\ Settle(r[1], [ctl EXCEPT ![c] = r[2]],
                      IF r[3] THEN [pub EXCEPT !.pin = 0] ELSE pub, r[2].level # ctl[c].level \/ IsStale(ctl[c]))
            /\ loose' = (loose \/ r[3])
  /\ UNCHANGED <<encRate, clock, rcOps>>

----------------------------------------------------------------------------
(* The encoder task.                                                       *)

\* video_rate_ctrl_pull_bitrate_bps(): staleness is noticed here, then the value goes.
PullBitrate ==
  /\ LET due == clock >= pub.check
         r == IF due THEN Rearbitrate(agg, ctl, pub) ELSE <<agg, pub>> IN
     /\ agg' = r[1]
     /\ encRate' = IF r[2].rate # 0 THEN r[2].rate ELSE encRate
     /\ pub' = [r[2] EXCEPT !.rate = 0]
  /\ UNCHANGED <<ctl, clock, rcOps, frozen, loose>>

\* video_rate_ctrl_pull_fps_pin(), whose caller reports what it did.
PullPin ==
  /\ pub.pin # -1
  /\ LET pinned == pub.pin = 1
         a == [agg EXCEPT !.pinned = pinned, !.released = IF ~pinned THEN clock ELSE @]
         moved == agg.inited /\ agg.pinned # pinned
     IN Settle(a, [c \in Ctrls |-> IF moved /\ ctl[c].used /\ ctl[c].on
                                   THEN ApplyLevel(a, ctl[c], ctl[c].level) ELSE ctl[c]],
               [pub EXCEPT !.pin = -1], moved)
  /\ UNCHANGED <<encRate, clock, rcOps, loose>>

RcTick ==
  /\ clock < RcMaxTime
  /\ clock' = clock + 1
  /\ UNCHANGED <<agg, ctl, pub, encRate, rcOps, frozen, loose>>

RcNext ==
  \/ \E b \in BOOLEAN : RateInit(b) \/ SetActuable(b) \/ SetPin(b, TRUE)
  \/ \E c \in Ctrls : Create(c) \/ Destroy(c) \/ Enable(c)
  \/ \E c \in Senders : ReportSend(c) \/ \E b \in Ceilings : SetCeiling(c, b)
  \/ \E c \in Queuers : ReportQueue(c)
  \/ \E m \in MinRates : SetMin(m)
  \/ PullBitrate \/ PullPin \/ RcTick

RcSpec == RcInit /\ [][RcNext]_rcVars

----------------------------------------------------------------------------
(* The encoder runs at what was last asked of it, or the difference is     *)
(* waiting to be pulled: no update is lost between the lock and the atomic *)
(* exchange, over inits, expiries and descents.                            *)
RequestReaches == agg.inited => (IF pub.rate # 0 THEN pub.rate ELSE encRate) = agg.req

(* Worst sink wins: the request is the least target of the controllers     *)
(* that count, those gone stale since the next deadline was set included   *)
(* until the encoder's next pull; as long as there was always a lever and  *)
(* no descent has released the pin, which re-applies one controller only.  *)
WorstWins ==
  (agg.inited /\ ~frozen /\ ~loose) =>
    LET on == {c \in Ctrls : ctl[c].used /\ ctl[c].on}
        es == Eligible(ctl) IN
    \/ es = {} /\ agg.req = MaxRate
    \/ es # {} /\ agg.req = Min({ctl[c].bps : c \in es})
    \/ clock >= pub.check /\ \E s \in SUBSET on : es \subseteq s /\ s # {} /\ agg.req = Min({ctl[c].bps : c \in s})

(* A network estimate is never exceeded by more than the floors demand,    *)
(* unless the floor sank by another controller's release of the pin.       *)
CeilingRespected ==
  \A c \in Ctrls : (agg.inited /\ ctl[c].used /\ ctl[c].on /\ ~loose) => ctl[c].bps <= EffMax(agg, ctl[c])

\* The encoder is asked for what the worst of the sinks can take, and gets that request.
RateSound == RequestReaches /\ WorstWins /\ CeilingRespected
=============================================================================
