----------------------------- MODULE PeerProofs -----------------------------
(***************************************************************************)
(* Theorems about what a peer connection stands on: RateControl, for any   *)
(* number of controllers of both kinds, every ladder that falls, every     *)
(* floor, ceiling and delay; then VideoPlayer and AudioPath, for every     *)
(* depth of their queues and size of their rings.                          *)
(***************************************************************************)
EXTENDS MCPeers, FiniteSetTheorems, SequenceTheorems, TLAPS

\* A set of numbers that is not empty has a least one.
LEMMA LeastIn ==
  ASSUME NEW S \in SUBSET Nat, S # {}
  PROVE  Min(S) \in S /\ \A y \in S : Min(S) <= y
  <1> DEFINE Below == {0..n : n \in S}
  <1>1. \A n \in Nat : IsFiniteSet(0..n)
    BY FS_Interval
  <1>2. Below \subseteq FiniteSubsetsOf(Nat) /\ Below # {}
    <2>1. ASSUME NEW n \in S
          PROVE  0..n \in FiniteSubsetsOf(Nat)
      BY <1>1 DEF FiniteSubsetsOf
    <2> QED
      BY <2>1
  <1>3. IsWellFoundedOn(StrictSubsetOrdering(Nat), FiniteSubsetsOf(Nat))
    BY FS_StrictSubsetOrderingWellFounded
  <1> HIDE DEF Below
  <1>4. PICK x \in Below : \A y \in Below : <<y, x>> \notin StrictSubsetOrdering(Nat)
    BY <1>2, <1>3, WFMin
  <1>5. PICK n \in S : x = 0..n
    BY DEF Below
  <1>6. ASSUME NEW r \in S, ~(n <= r)
        PROVE  FALSE
    <2>1. 0..r \in Below
      BY DEF Below
    <2>2. r \in Nat /\ n \in Nat /\ r < n
      BY <1>6
    <2>3. 0..r \subseteq 0..n /\ 0..r # 0..n /\ 0..n \subseteq Nat
      <3>1. n \in 0..n /\ n \notin 0..r
        BY <2>2
      <3> QED
        BY <2>2, <3>1
    <2>4. <<0..r, 0..n>> \in StrictSubsetOrdering(Nat)
      BY <2>3 DEF StrictSubsetOrdering
    <2> QED
      BY <2>1, <2>4, <1>4, <1>5
  <1>7. \E m \in S : \A y \in S : m <= y
    BY <1>6
  <1> QED
    BY <1>7 DEF Min

\* A set of numbers up to some bound that is not empty has a greatest one.
LEMMA GreatestIn ==
  ASSUME NEW n \in Nat, NEW S \in SUBSET (0..n), S # {}
  PROVE  Max(S) \in S /\ \A y \in S : y <= Max(S)
  <1> DEFINE T == {n - x : x \in S}
  <1>1. T \in SUBSET Nat /\ T # {}
    <2>1. ASSUME NEW x \in S
          PROVE  n - x \in Nat
      OBVIOUS
    <2> QED
      BY <2>1
  <1> HIDE DEF T
  <1>2. Min(T) \in T /\ \A y \in T : Min(T) <= y
    BY <1>1, LeastIn
  <1>3. PICK m \in S : Min(T) = n - m
    BY <1>2 DEF T
  <1>4. ASSUME NEW y \in S
        PROVE  m >= y
    <2>1. n - y \in T
      BY DEF T
    <2>2. n - m <= n - y
      BY <1>2, <1>3, <2>1
    <2> QED
      BY <2>2
  <1>5. \E x \in S : \A y \in S : x >= y
    BY <1>4
  <1>6. Max(S) \in S /\ \A y \in S : Max(S) >= y
    BY <1>5 DEF Max
  <1> QED
    BY <1>6

----------------------------------------------------------------------------
(* The ladder.                                                             *)

Raw(l) == (MaxRate * Ladder[l + 1].pct) \div 100
Aggs   == [inited : BOOLEAN, fpsAct : BOOLEAN, bitAct : BOOLEAN, min : Nat, req : Nat,
           wanted : BOOLEAN, pinned : BOOLEAN, released : Nat]
Recs   == [used : BOOLEAN, on : BOOLEAN, level : 0..Deepest, fps : Nat, bps : Nat,
           ceil : Ceilings \cup {0}, since : Int, seen : Nat, bar : Nat, barAt : Nat,
           last : Nat, next : Nat]
Pubs   == [fps : Nat, rate : Nat, pin : {-1, 0, 1}, check : Nat]

\* The constants, one by one.
LEMMA RcConstants ==
  /\ MaxRate \in Nat \ {0} /\ ResFloor \in Nat /\ PinFloor \in Nat /\ CameraFps \in Nat
  /\ FpsFloor \in Nat /\ StartLevel \in Nat /\ Deepest \in Nat /\ StartLevel <= Deepest
  /\ MinRates \subseteq Nat \ {0} /\ MinRates # {} /\ Ceilings \cup {0} \subseteq Nat
  /\ \A l \in 0..Deepest : Ladder[l + 1].pct \in 0..100 /\ Ladder[l + 1].fps \in Nat
  /\ \A k \in 0..Deepest, l \in 0..Deepest : k <= l => Ladder[l + 1].pct <= Ladder[k + 1].pct
  /\ StaleTicks \in Nat /\ DwellTicks \in Nat /\ MinReports \in Nat /\ DecayTicks \in Nat
  /\ PinTicks \in Nat /\ EvalTicks \in Nat /\ RecoverTicks \in Nat /\ NeverTicks \in Nat
  <1>0. Ladder \in Seq([fps : Nat, pct : 0 .. 100]) /\ Len(Ladder) > StartLevel /\ StartLevel \in Nat
    BY RcAssumption
  <1>1. Len(Ladder) \in Nat /\ Deepest \in Nat /\ Deepest + 1 = Len(Ladder) /\ StartLevel <= Deepest
    BY <1>0, LenProperties DEF Deepest
  <1>2. \A l \in 0..Deepest : l + 1 \in 1..Len(Ladder)
    BY <1>1
  <1>3. \A l \in 0..Deepest : Ladder[l + 1] \in [fps : Nat, pct : 0 .. 100]
    BY <1>0, <1>2, ElementOfSeq
  <1>4. \A l \in 0..Deepest : Ladder[l + 1].pct \in 0..100 /\ Ladder[l + 1].fps \in Nat
    BY <1>3
  <1>5. \A k \in 0..Deepest, l \in 0..Deepest : k <= l => Ladder[l + 1].pct <= Ladder[k + 1].pct
    <2>1. \A i \in 1..Len(Ladder), j \in 1..Len(Ladder) : i <= j => Ladder[j].pct <= Ladder[i].pct
      BY RcAssumption
    <2>2. ASSUME NEW k \in 0..Deepest, NEW l \in 0..Deepest, k <= l
          PROVE  Ladder[l + 1].pct <= Ladder[k + 1].pct
      <3>1. k + 1 \in 1..Len(Ladder) /\ l + 1 \in 1..Len(Ladder) /\ k + 1 <= l + 1
        BY <1>1, <2>2
      <3> QED
        BY <2>1, <3>1
    <2> QED
      BY <2>2
  <1>6. /\ MaxRate \in Nat \ {0} /\ ResFloor \in Nat /\ PinFloor \in Nat /\ CameraFps \in Nat
        /\ FpsFloor \in Nat
        /\ MinRates \subseteq Nat \ {0} /\ MinRates # {} /\ Ceilings \cup {0} \subseteq Nat
    <2>1. \A x \in {MaxRate, ResFloor, PinFloor, CameraFps, FpsFloor, StartLevel} : x \in Nat
      BY RcAssumption
    <2>2. MaxRate > 0 /\ MinRates \subseteq Nat \ {0} /\ MinRates # {} /\ Ceilings \subseteq Nat
      BY RcAssumption
    <2> QED
      BY <2>1, <2>2
  <1>7. /\ StaleTicks \in Nat /\ DwellTicks \in Nat /\ MinReports \in Nat /\ DecayTicks \in Nat
        /\ PinTicks \in Nat /\ EvalTicks \in Nat /\ RecoverTicks \in Nat /\ NeverTicks \in Nat
    <2>1. \A x \in {StaleTicks, DwellTicks, MinReports, DecayTicks, PinTicks, EvalTicks, RecoverTicks,
                      RcMaxTime, RcMaxOps} : x \in Nat
      BY RcAssumption
    <2> QED
      BY <2>1 DEF NeverTicks
  <1> QED
    BY <1>0, <1>1, <1>4, <1>5, <1>6, <1>7

\* A deeper rung has no higher bitrate, and none has more than the maximum.
LEMMA RawFalls ==
  /\ \A l \in 0..Deepest : Raw(l) \in 0..MaxRate
  /\ \A k \in 0..Deepest, l \in 0..Deepest : k <= l => Raw(l) <= Raw(k)
  <1>1. ASSUME NEW x \in Nat, NEW y \in Nat, x <= y
        PROVE  MaxRate * x <= MaxRate * y
    <2> DEFINE m == MaxRate
    <2>1. m \in Nat
      BY RcConstants
    <2> HIDE DEF m
    <2>2. m * (y - x) >= 0
      BY <1>1, <2>1
    <2>3. m * y = m * x + m * (y - x)
      BY <2>1
    <2>4. m * x <= m * y
      BY <2>1, <2>2, <2>3
    <2> QED
      BY <2>4 DEF m
  <1>2. \A x \in Nat : MaxRate * x \in Nat
    BY RcConstants
  <1>3. ASSUME NEW x \in Nat, NEW y \in Nat, x <= y
        PROVE  x \div 100 <= y \div 100 /\ x \div 100 \in Nat
    BY <1>3, Z3
  <1>4. (MaxRate * 100) \div 100 = MaxRate
    BY RcConstants
  <1>5. ASSUME NEW l \in 0..Deepest
        PROVE  Raw(l) \in 0..MaxRate
    <2> DEFINE p == Ladder[l + 1].pct
    <2>1. p \in 0..100
      BY RcConstants
    <2> HIDE DEF p
    <2>2. MaxRate * p <= MaxRate * 100 /\ MaxRate * p \in Nat /\ MaxRate * 100 \in Nat
      BY <1>1, <1>2, <2>1
    <2>3. (MaxRate * p) \div 100 <= MaxRate
      BY <1>3, <1>4, <2>2
    <2>4. (MaxRate * p) \div 100 \in Nat
      BY <2>2
    <2> QED
      BY <2>3, <2>4, RcConstants DEF Raw, p
  <1>6. ASSUME NEW k \in 0..Deepest, NEW l \in 0..Deepest, k <= l
        PROVE  Raw(l) <= Raw(k)
    <2> DEFINE p == Ladder[l + 1].pct
               q == Ladder[k + 1].pct
    <2>1. p \in 0..100 /\ q \in 0..100 /\ p <= q
      BY <1>6, RcConstants
    <2> HIDE DEF p, q
    <2>2. MaxRate * p <= MaxRate * q /\ MaxRate * p \in Nat /\ MaxRate * q \in Nat
      BY <1>1, <1>2, <2>1
    <2>3. (MaxRate * p) \div 100 <= (MaxRate * q) \div 100
      BY <1>3, <2>2
    <2> QED
      BY <2>3 DEF Raw, p, q
  <1> QED
    BY <1>5, <1>6

\* What the floor, a rung and the ceiling of a controller are.
LEMMA Floors ==
  ASSUME NEW a \in Aggs
  PROVE  /\ FloorOf(a) \in 0..MaxRate /\ (a.min >= 1 => FloorOf(a) >= 1)
         /\ \A l \in 0..Deepest : /\ RungBitrate(a, l) = Upper(Raw(l), FloorOf(a))
                                  /\ RungBitrate(a, l) \in FloorOf(a)..MaxRate
                                  /\ RungFps(a, l) \in Nat
         /\ \A k \in 0..Deepest, l \in 0..Deepest : k <= l => RungBitrate(a, l) <= RungBitrate(a, k)
         /\ \A c \in Recs : EffMax(a, c) \in Nat
  <1>0. a.min \in Nat /\ a.pinned \in BOOLEAN /\ a.fpsAct \in BOOLEAN
    BY DEF Aggs
  <1>1. FloorOf(a) \in 0..MaxRate /\ (a.min >= 1 => FloorOf(a) >= 1)
    BY <1>0, RcConstants DEF FloorOf, Lower, Upper
  <1>2. \A l \in 0..Deepest : RungBitrate(a, l) = Upper(Raw(l), FloorOf(a))
    BY DEF RungBitrate, Raw
  <1>3. \A l \in 0..Deepest : RungBitrate(a, l) \in FloorOf(a)..MaxRate
    BY <1>1, <1>2, RawFalls, RcConstants DEF Upper
  <1>4. ASSUME NEW l \in 0..Deepest
        PROVE  RungFps(a, l) \in Nat
    <2>1. Ladder[l + 1].fps \in Nat /\ CameraFps \in Nat /\ FpsFloor \in Nat
      BY RcConstants
    <2> QED
      BY <2>1 DEF RungFps, Lower, Upper
  <1>5. ASSUME NEW k \in 0..Deepest, NEW l \in 0..Deepest, k <= l
        PROVE  RungBitrate(a, l) <= RungBitrate(a, k)
    <2>1. Raw(l) <= Raw(k) /\ Raw(l) \in Nat /\ Raw(k) \in Nat
      BY <1>5, RawFalls, RcConstants
    <2> QED
      BY <1>1, <1>2, <2>1, RcConstants DEF Upper
  <1>6. ASSUME NEW c \in Recs
        PROVE  EffMax(a, c) \in Nat
    <2>1. c.ceil \in Nat
      BY RcConstants DEF Recs
    <2> QED
      BY <1>1, <2>1, RcConstants DEF EffMax, Upper, Lower
  <1> QED
    BY <1>1, <1>2, <1>3, <1>4, <1>5, <1>6

\* Every estimate of the network can pay for the last rung, or there is none.
EstimatesPayLastRung == \A b \in Ceilings : b = 0 \/ Raw(Deepest) <= b

\* The rungs below the deepest useful one are no slower than it is.
LEMMA UsefulRungs ==
  ASSUME NEW a \in Aggs
  PROVE  /\ DeepestUseful(a) \in 0..Deepest
         /\ \A l \in DeepestUseful(a)..Deepest : RungBitrate(a, l) = RungBitrate(a, DeepestUseful(a))
  <1> DEFINE Differs(l) == \/ RungFps(a, l) # RungFps(a, l - 1)
                           \/ RungBitrate(a, l) # RungBitrate(a, l - 1)
             S == {0} \cup {l \in 1 .. Deepest : Differs(l)}
             d == DeepestUseful(a)
  <1>1. Deepest \in Nat
    BY RcConstants
  <1>2. S \in SUBSET (0..Deepest) /\ S # {} /\ d = Max(S)
    BY <1>1 DEF DeepestUseful
  <1>3. d \in S /\ \A y \in S : y <= d
    <2> HIDE DEF S, d
    <2> QED
      BY <1>1, <1>2, GreatestIn
  <1>4. d \in 0..Deepest
    BY <1>2, <1>3
  <1>5. \A l \in 1..Deepest : l > d => RungBitrate(a, l) = RungBitrate(a, l - 1)
    <2>1. ASSUME NEW l \in 1..Deepest, l > d
          PROVE  RungBitrate(a, l) = RungBitrate(a, l - 1)
      <3>1. ~Differs(l)
        <4>1. l \notin S
          BY <1>3, <1>4, <2>1
        <4> QED
          BY <4>1
      <3> QED
        BY <3>1
    <2> QED
      BY <2>1
  <1>6. ASSUME NEW x \in d..Deepest, RungBitrate(a, x) # RungBitrate(a, d)
        PROVE  FALSE
    <2> DEFINE W == {l \in d..Deepest : RungBitrate(a, l) # RungBitrate(a, d)}
    <2> HIDE DEF d, S
    <2>1. W \in SUBSET Nat /\ x \in W
      BY <1>1, <1>4, <1>6
    <2>2. Min(W) \in W /\ \A y \in W : Min(W) <= y
      BY <2>1, LeastIn
    <2>3. PICK m \in W : \A y \in W : m <= y
      BY <2>2
    <2>4. m > d /\ m \in 1..Deepest /\ m - 1 \in d..Deepest
      BY <1>1, <1>4, <2>3
    <2>5. m - 1 \notin W
      BY <2>1, <2>3, <2>4
    <2>6. RungBitrate(a, m - 1) = RungBitrate(a, d) /\ RungBitrate(a, m) # RungBitrate(a, d)
      BY <2>3, <2>4, <2>5
    <2> QED
      BY <1>5, <2>4, <2>6
  <1> QED
    BY <1>4, <1>6

\* The ceiling's level is a rung, one whose bitrate the estimate allows.
LEMMA CeilingRung ==
  ASSUME NEW a \in Aggs, NEW c \in Recs
  PROVE  /\ CeilingLevel(a, c) \in 0..Deepest
         /\ EstimatesPayLastRung => RungBitrate(a, CeilingLevel(a, c)) <= EffMax(a, c)
  <1> DEFINE fit == {l \in 0 .. Deepest : RungBitrate(a, l) <= EffMax(a, c)}
  <1>1. Deepest \in 0..Deepest
    BY RcConstants
  <1>2. CASE fit = {}
    <2>1. CeilingLevel(a, c) = Deepest
      BY <1>2 DEF CeilingLevel
    <2>2. ASSUME EstimatesPayLastRung
          PROVE  RungBitrate(a, Deepest) <= EffMax(a, c)
      <3>1. /\ RungBitrate(a, Deepest) = Upper(Raw(Deepest), FloorOf(a))
            /\ FloorOf(a) \in 0..MaxRate /\ Raw(Deepest) \in 0..MaxRate
        BY <1>1, Floors, RawFalls
      <3>2. c.ceil \in Nat /\ (c.ceil = 0 \/ Raw(Deepest) <= c.ceil)
        BY <2>2, RcConstants DEF Recs, EstimatesPayLastRung
      <3> QED
        BY <3>1, <3>2, RcConstants DEF EffMax, Upper, Lower
    <2> QED
      BY <1>1, <2>1, <2>2
  <1>3. CASE fit # {}
    <2>1. fit \in SUBSET Nat /\ CeilingLevel(a, c) = Min(fit)
      BY <1>3, RcConstants DEF CeilingLevel
    <2>2. Min(fit) \in fit
      <3> HIDE DEF fit
      <3> QED
        BY <1>3, <2>1, LeastIn
    <2> QED
      BY <2>1, <2>2
  <1> QED
    BY <1>2, <1>3

\* The controller that ApplyLevel() leaves.
LEMMA Applied ==
  ASSUME NEW a \in Aggs, NEW c \in Recs, NEW l \in Int
  PROVE  LET r == ApplyLevel(a, c, l) IN
         /\ r \in Recs
         /\ r.used = c.used /\ r.on = c.on /\ r.ceil = c.ceil /\ r.last = c.last
         /\ r.bps = RungBitrate(a, r.level) /\ EffMax(a, r) = EffMax(a, c)
         /\ EstimatesPayLastRung => r.bps <= EffMax(a, r)
         /\ a.min >= 1 => r.bps >= 1
  <1> DEFINE d == DeepestUseful(a)
             k == CeilingLevel(a, c)
             lv == Lower(d, Upper(l, k))
             r == ApplyLevel(a, c, l)
  <1>1. d \in 0..Deepest /\ k \in 0..Deepest
    BY UsefulRungs, CeilingRung
  <1>2. lv \in 0..Deepest /\ (lv >= k \/ (lv = d /\ d < k))
    <2> HIDE DEF d, k
    <2>1. Deepest \in Nat
      BY RcConstants
    <2>2. Upper(l, k) \in Nat /\ Upper(l, k) >= k
      BY <1>1, <2>1 DEF Upper
    <2> QED
      BY <1>1, <2>1, <2>2 DEF Lower
  <1>3. /\ r = [c EXCEPT !.level = lv, !.fps = RungFps(a, lv), !.bps = RungBitrate(a, lv)]
        /\ RungFps(a, lv) \in Nat /\ RungBitrate(a, lv) \in FloorOf(a)..MaxRate /\ FloorOf(a) \in Nat
        /\ a.min >= 1 => FloorOf(a) >= 1
    BY <1>2, Floors, RcConstants DEF ApplyLevel
  <1>4. EstimatesPayLastRung => RungBitrate(a, lv) <= EffMax(a, c)
    <2> SUFFICES ASSUME EstimatesPayLastRung
                 PROVE  RungBitrate(a, lv) <= EffMax(a, c)
      OBVIOUS
    <2>0. RungBitrate(a, k) <= EffMax(a, c)
      BY CeilingRung
    <2>1. CASE lv >= k
      <3>1. RungBitrate(a, lv) <= RungBitrate(a, k)
        BY <1>1, <1>2, <2>1, Floors
      <3>2. RungBitrate(a, lv) \in Nat /\ RungBitrate(a, k) \in Nat /\ EffMax(a, c) \in Nat
        BY <1>1, <1>2, Floors, RcConstants
      <3> QED
        BY <2>0, <3>1, <3>2
    <2>2. CASE lv = d /\ d < k
      <3>1. k \in d..Deepest
        BY <1>1, <2>2
      <3>2. RungBitrate(a, k) = RungBitrate(a, d)
        <4>1. \A x \in d..Deepest : RungBitrate(a, x) = RungBitrate(a, d)
          BY UsefulRungs
        <4> HIDE DEF d, k
        <4> QED
          BY <3>1, <4>1
      <3> QED
        BY <2>0, <2>2, <3>2
    <2> QED
      BY <1>2, <2>1, <2>2
  <1> HIDE DEF lv, r
  <1>5. /\ r \in Recs /\ r.level = lv /\ r.bps = RungBitrate(a, lv)
        /\ r.used = c.used /\ r.on = c.on /\ r.ceil = c.ceil /\ r.last = c.last
    <2>1. RungBitrate(a, lv) \in Nat
      BY <1>3, RcConstants
    <2>2. RungFps(a, lv) \in Nat /\ r = [c EXCEPT !.level = lv, !.fps = RungFps(a, lv), !.bps = RungBitrate(a, lv)]
      BY <1>3
    <2>3. ASSUME NEW f \in Nat, NEW b \in Nat, r = [c EXCEPT !.level = lv, !.fps = f, !.bps = b]
          PROVE  /\ r \in Recs /\ r.level = lv /\ r.bps = b
                 /\ r.used = c.used /\ r.on = c.on /\ r.ceil = c.ceil /\ r.last = c.last
      BY <1>2, <2>3 DEF Recs
    <2> QED
      BY <2>1, <2>2, <2>3
  <1>6. EffMax(a, r) = EffMax(a, c)
    BY <1>5 DEF EffMax
  <1>7. a.min >= 1 => r.bps >= 1
    BY <1>3, <1>5, RcConstants
  <1>8. r.bps = RungBitrate(a, r.level) /\ (EstimatesPayLastRung => r.bps <= EffMax(a, r))
    BY <1>4, <1>5, <1>6
  <1> QED
    BY <1>5, <1>6, <1>7, <1>8 DEF r

----------------------------------------------------------------------------
(* Arbitration.                                                            *)

\* What some controllers ask for together, and what the encoder runs at or is about to.
Target(cs, s) == IF s = {} THEN MaxRate ELSE Min({cs[c].bps : c \in s})
PullsOwed(p, e)    == IF p.rate # 0 THEN p.rate ELSE e

\* An arbitration that finds controllers that count.
LEMMA ArbitratedSome ==
  ASSUME NEW a \in Aggs, NEW cs \in [Ctrls -> Recs], NEW p \in Pubs, clock \in Nat,
         a.inited, ~Inert(a), Eligible(cs) # {}, \A c \in Eligible(cs) : cs[c].bps >= 1
  PROVE  LET r == Rearbitrate(a, cs, p) IN
         /\ r[1] \in Aggs /\ r[2] \in Pubs
         /\ r[1].inited = a.inited /\ r[1].fpsAct = a.fpsAct /\ r[1].bitAct = a.bitAct
         /\ r[1].min = a.min /\ r[1].wanted = a.wanted
         /\ a.pinned => r[1].pinned
         /\ a.wanted = a.pinned => r[1].pinned = a.pinned /\ r[2].pin = p.pin
         /\ r[1].req = Target(cs, Eligible(cs))
         /\ \A c \in Eligible(cs) : r[2].check <= cs[c].last + StaleTicks
         /\ \A e : PullsOwed(p, e) = a.req => PullsOwed(r[2], e) = r[1].req
  <1> DEFINE es == Eligible(cs)
             B == {cs[c].bps : c \in es}
             F == {cs[c].fps : c \in es}
             D == {cs[c].last + StaleTicks : c \in es}
             bps == Min(B)
             repin == a.wanted /\ ~a.pinned /\ bps >= PinFloor /\ clock - a.released >= PinTicks
             q == [p EXCEPT !.fps = Min(F),
                            !.rate = IF a.req # bps THEN bps ELSE @,
                            !.pin = IF repin THEN 1 ELSE @,
                            !.check = Min(D)]
             n == [a EXCEPT !.req = bps, !.pinned = @ \/ repin]
  <1>1. \A c \in es : c \in Ctrls /\ cs[c] \in Recs
    BY DEF Eligible
  <1>2. \A c \in es : cs[c].bps \in Nat \ {0} /\ cs[c].fps \in Nat /\ cs[c].last + StaleTicks \in Nat
    BY <1>1, RcConstants DEF Recs
  <1>3. B \in SUBSET Nat /\ B # {} /\ F \in SUBSET Nat /\ F # {} /\ D \in SUBSET Nat /\ D # {}
    BY <1>2
  <1>4. bps \in B /\ Min(F) \in F /\ Min(D) \in D /\ \A d \in D : Min(D) <= d
    <2> HIDE DEF B, F, D
    <2> QED
      BY <1>3, LeastIn
  <1>5. bps \in Nat \ {0} /\ Min(F) \in Nat /\ Min(D) \in Nat
    BY <1>2, <1>3, <1>4
  <1>6. \A c \in es : Min(D) <= cs[c].last + StaleTicks
    BY <1>4
  <1>7. Rearbitrate(a, cs, p) = <<n, q>> /\ bps = Target(cs, es)
    BY DEF Rearbitrate, Target
  <1> HIDE DEF B, F, D, bps, es, repin
  <1>8. /\ n \in Aggs /\ n.inited = a.inited /\ n.fpsAct = a.fpsAct /\ n.bitAct = a.bitAct
        /\ n.min = a.min /\ n.wanted = a.wanted /\ n.req = bps /\ n.pinned = (a.pinned \/ repin)
    <2>1. repin \in BOOLEAN
      BY DEF repin
    <2> HIDE DEF repin
    <2> QED
      BY <1>5, <2>1 DEF Aggs
  <1>9. /\ q \in Pubs /\ q.rate = (IF a.req # bps THEN bps ELSE p.rate)
        /\ q.pin = (IF repin THEN 1 ELSE p.pin) /\ q.check = Min(D)
    BY <1>5 DEF Pubs
  <1>10. a.wanted = a.pinned => ~repin
    BY DEF repin
  <1>11. a.pinned \in BOOLEAN /\ a.wanted \in BOOLEAN /\ a.req \in Nat
    BY DEF Aggs
  <1>12. ASSUME NEW e, PullsOwed(p, e) = a.req
         PROVE  PullsOwed(q, e) = bps
    BY <1>5, <1>9, <1>12 DEF PullsOwed
  <1>13. (a.pinned => n.pinned) /\ (a.wanted = a.pinned => n.pinned = a.pinned /\ q.pin = p.pin)
    BY <1>8, <1>9, <1>10, <1>11
  <1> HIDE DEF n, q
  <1>14. /\ n \in Aggs /\ q \in Pubs
         /\ n.inited = a.inited /\ n.fpsAct = a.fpsAct /\ n.bitAct = a.bitAct
         /\ n.min = a.min /\ n.wanted = a.wanted /\ n.req = Target(cs, es)
         /\ \A c \in es : q.check <= cs[c].last + StaleTicks
         /\ \A e : PullsOwed(p, e) = a.req => PullsOwed(q, e) = n.req
    BY <1>6, <1>7, <1>8, <1>9, <1>12
  <1>15. Rearbitrate(a, cs, p)[1] = n /\ Rearbitrate(a, cs, p)[2] = q
    BY <1>7
  <1> QED
    BY <1>13, <1>14, <1>15 DEF es

\* An arbitration in general.
LEMMA Arbitrated ==
  ASSUME NEW a \in Aggs, NEW cs \in [Ctrls -> Recs], NEW p \in Pubs, clock \in Nat,
         a.inited => \A c \in Eligible(cs) : cs[c].bps >= 1
  PROVE  LET r == Rearbitrate(a, cs, p) IN
         /\ r[1] \in Aggs /\ r[2] \in Pubs
         /\ r[1].inited = a.inited /\ r[1].fpsAct = a.fpsAct /\ r[1].bitAct = a.bitAct
         /\ r[1].min = a.min /\ r[1].wanted = a.wanted
         /\ a.pinned => r[1].pinned
         /\ a.wanted = a.pinned => r[1].pinned = a.pinned /\ r[2].pin = p.pin
         /\ a.inited /\ ~Inert(a) => /\ r[1].req = Target(cs, Eligible(cs))
                                     /\ \A c \in Eligible(cs) : r[2].check <= cs[c].last + StaleTicks
         /\ a.inited => \A e : PullsOwed(p, e) = a.req => PullsOwed(r[2], e) = r[1].req
  <1> DEFINE r == Rearbitrate(a, cs, p)
  <1>0. MaxRate \in Nat \ {0} /\ NeverTicks \in Nat
    BY RcConstants
  <1>1. CASE Inert(a)
    <2> DEFINE q == [p EXCEPT !.check = NeverTicks]
    <2>1. r = <<a, q>>
      BY <1>1 DEF Rearbitrate
    <2>2. q \in Pubs /\ q.pin = p.pin /\ q.rate = p.rate
      BY <1>0 DEF Pubs
    <2>3. \A e : PullsOwed(q, e) = PullsOwed(p, e)
      BY <2>2 DEF PullsOwed
    <2> HIDE DEF q
    <2> QED
      BY <1>1, <2>1, <2>2, <2>3
  <1>2. CASE ~Inert(a) /\ ~a.inited
    <2> DEFINE q == [p EXCEPT !.fps = 0, !.check = NeverTicks]
    <2>1. r = <<a, q>>
      BY <1>2 DEF Rearbitrate
    <2>2. q \in Pubs /\ q.pin = p.pin
      BY <1>0 DEF Pubs
    <2> HIDE DEF q
    <2> QED
      BY <1>2, <2>1, <2>2
  <1>3. CASE ~Inert(a) /\ a.inited /\ Eligible(cs) = {}
    <2> DEFINE q == [p EXCEPT !.fps = 0, !.rate = IF a.req # MaxRate THEN MaxRate ELSE @,
                              !.check = NeverTicks]
               n == [a EXCEPT !.req = MaxRate]
    <2>1. r = <<n, q>>
      BY <1>3 DEF Rearbitrate
    <2>2. q \in Pubs /\ q.pin = p.pin /\ q.rate = (IF a.req # MaxRate THEN MaxRate ELSE p.rate)
      BY <1>0 DEF Pubs
    <2>3. /\ n \in Aggs /\ n.inited = a.inited /\ n.fpsAct = a.fpsAct /\ n.bitAct = a.bitAct
          /\ n.min = a.min /\ n.wanted = a.wanted /\ n.req = MaxRate /\ n.pinned = a.pinned
      BY <1>0 DEF Aggs
    <2>4. ASSUME NEW e, PullsOwed(p, e) = a.req
          PROVE  PullsOwed(q, e) = n.req
      BY <1>0, <2>2, <2>3, <2>4 DEF PullsOwed
    <2>5. Target(cs, Eligible(cs)) = MaxRate
      BY <1>3 DEF Target
    <2> HIDE DEF q, n
    <2>6. r[1] = n /\ r[2] = q
      BY <2>1
    <2> HIDE DEF r
    <2>7. /\ r[1].req = Target(cs, Eligible(cs))
          /\ \A e : PullsOwed(p, e) = a.req => PullsOwed(r[2], e) = r[1].req
      BY <2>3, <2>4, <2>5, <2>6
    <2>8. \A c \in Eligible(cs) : r[2].check <= cs[c].last + StaleTicks
      BY <1>3
    <2> QED
      BY <2>2, <2>3, <2>6, <2>7, <2>8 DEF r
  <1>4. CASE ~Inert(a) /\ a.inited /\ Eligible(cs) # {}
    BY <1>4, ArbitratedSome
  <1> QED
    BY <1>1, <1>2, <1>3, <1>4

----------------------------------------------------------------------------
(* The rate control: the inductive invariant.                              *)

TurnedOn(cs) == {c \in Ctrls : cs[c].used /\ cs[c].on}

RcTypes ==
  /\ agg \in Aggs /\ ctl \in [Ctrls -> Recs] /\ pub \in Pubs
  /\ encRate \in Nat /\ clock \in Nat /\ frozen \in BOOLEAN /\ loose \in BOOLEAN

\* A controller that takes part has a target, and one that its rung and its estimate give.
Targets(a, c) == a.inited /\ c.used /\ c.on => c.bps >= 1
Fits(a, c)    == a.inited /\ c.used /\ c.on =>
                   c.bps = RungBitrate(a, c.level) /\ (EstimatesPayLastRung => c.bps <= EffMax(a, c))

\* The encoder runs at the request or is about to, with rate e; the pin is as the operator
\* wanted it unless it is loose.
Ready(a, cs, p, e, l) ==
  /\ a.inited => a.min >= 1 /\ PullsOwed(p, e) = a.req
  /\ ~l => a.wanted = a.pinned /\ p.pin = -1
  /\ \A c \in Ctrls : cs[c].last <= clock /\ Targets(a, cs[c]) /\ (~l => Fits(a, cs[c]))

\* The request is that of the controllers in s: those that count, and some that went stale
\* after the deadline.
Worst(a, cs, p, s) ==
  /\ s \subseteq TurnedOn(cs) /\ Eligible(cs) \subseteq s
  /\ a.req = Target(cs, s)
  /\ \A c \in s : p.check <= cs[c].last + StaleTicks

RcWorst == agg.inited /\ ~frozen /\ ~loose => \E s \in SUBSET Ctrls : Worst(agg, ctl, pub, s)

RcInv ==
  /\ RcTypes
  /\ Ready(agg, ctl, pub, encRate, loose)
  /\ Inert(agg) => frozen
  /\ RcWorst

\* Before the first configuration nothing takes part.
LEMMA RcInvInit == RcInit => RcInv
  <1> SUFFICES ASSUME RcInit
               PROVE  RcInv
    OBVIOUS
  <1>1. agg.inited = FALSE /\ agg \in Aggs /\ ~Inert(agg) /\ agg.wanted = agg.pinned
    BY DEF RcInit, Aggs, Inert
  <1>2. Free \in Recs /\ Free.on = FALSE /\ Free.last = 0
    BY RcConstants DEF Free, Recs, NoSince
  <1>3. pub \in Pubs /\ pub.pin = -1 /\ ctl \in [Ctrls -> Recs] /\ \A c \in Ctrls : ctl[c] = Free
    BY <1>2 DEF RcInit, Pubs
  <1>4. encRate \in Nat /\ clock = 0 /\ frozen = FALSE /\ loose = FALSE
    BY DEF RcInit
  <1>5. Ready(agg, ctl, pub, encRate, loose)
    BY <1>1, <1>2, <1>3, <1>4 DEF Ready, Targets, Fits
  <1> QED
    BY <1>1, <1>3, <1>4, <1>5 DEF RcInv, RcTypes, RcWorst

\* Floors and ceilings do not change with what arbitration changes.
LEMMA SameFloors ==
  ASSUME NEW a, NEW b, b.min = a.min, b.pinned = a.pinned
  PROVE  /\ \A l : RungBitrate(b, l) = RungBitrate(a, l)
         /\ \A c : EffMax(b, c) = EffMax(a, c)
  BY DEF RungBitrate, EffMax, FloorOf

\* An operation that settles what it left.
LEMMA LevelSettled ==
  ASSUME NEW a \in Aggs, NEW cs \in [Ctrls -> Recs], NEW p \in Pubs, NEW again \in BOOLEAN,
         RcTypes, Settle(a, cs, p, again), clock' = clock, encRate' \in Nat, loose' \in BOOLEAN,
         Ready(a, cs, p, encRate', loose'),
         ~again /\ a.inited /\ ~Inert(a) /\ ~frozen /\ ~loose' => \E s \in SUBSET Ctrls : Worst(a, cs, p, s)
  PROVE  RcInv'
  <1>0. clock \in Nat /\ frozen \in BOOLEAN
    BY DEF RcTypes
  <1>1. ctl' = cs /\ frozen' = (frozen \/ Inert(a)) /\ frozen' \in BOOLEAN
    BY <1>0 DEF Settle
  <1>2. CASE ~again
    <2>1. agg' = a /\ pub' = p
      BY <1>2 DEF Settle
    <2>2. RcTypes'
      BY <1>0, <1>1, <2>1 DEF RcTypes
    <2>3. Ready(agg, ctl, pub, encRate, loose)'
      BY <1>1, <2>1 DEF Ready, Targets, Fits, PullsOwed, RungBitrate, EffMax, FloorOf
    <2>4. Inert(agg)' => frozen'
      BY <1>1, <2>1 DEF Inert
    <2>5. RcWorst'
      <3>1. agg'.inited /\ ~frozen' /\ ~loose' => \E s \in SUBSET Ctrls : Worst(a, cs, p, s)
        BY <1>0, <1>1, <1>2, <2>1
      <3>2. \A s : Worst(a, cs, p, s) => Worst(agg, ctl, pub, s)'
        BY <1>1, <2>1 DEF Worst, TurnedOn, Eligible, IsStale, Target
      <3> QED
        BY <3>1, <3>2 DEF RcWorst
    <2> QED
      BY <2>2, <2>3, <2>4, <2>5 DEF RcInv
  <1>3. CASE again
    <2> DEFINE r == Rearbitrate(a, cs, p)
    <2>1. agg' = r[1] /\ pub' = r[2]
      BY <1>3 DEF Settle
    <2>2. a.inited => \A c \in Eligible(cs) : cs[c].bps >= 1
      BY DEF Ready, Targets, Eligible
    <2>3. /\ agg' \in Aggs /\ pub' \in Pubs
          /\ agg'.inited = a.inited /\ agg'.fpsAct = a.fpsAct /\ agg'.bitAct = a.bitAct
          /\ agg'.min = a.min /\ agg'.wanted = a.wanted
          /\ a.wanted = a.pinned => agg'.pinned = a.pinned /\ pub'.pin = p.pin
          /\ a.inited /\ ~Inert(a) => /\ agg'.req = Target(cs, Eligible(cs))
                                      /\ \A c \in Eligible(cs) : pub'.check <= cs[c].last + StaleTicks
          /\ a.inited => \A e : PullsOwed(p, e) = a.req => PullsOwed(pub', e) = agg'.req
      BY <1>0, <2>1, <2>2, Arbitrated
    <2>4. RcTypes'
      BY <1>0, <1>1, <2>3 DEF RcTypes
    <2>5. Ready(agg, ctl, pub, encRate, loose)'
      <3>1. agg'.inited => agg'.min >= 1 /\ PullsOwed(pub', encRate') = agg'.req
        BY <2>3 DEF Ready
      <3>2. ~loose' => agg'.wanted = agg'.pinned /\ pub'.pin = -1
        BY <2>3 DEF Ready
      <3>3. \A c \in Ctrls : cs[c].last <= clock /\ Targets(agg', cs[c])
        BY <2>3 DEF Ready, Targets
      <3>4. ASSUME ~loose', NEW c \in Ctrls
            PROVE  Fits(agg', cs[c])
        <4>1. Fits(a, cs[c]) /\ agg'.min = a.min /\ agg'.pinned = a.pinned /\ agg'.inited = a.inited
          BY <2>3, <3>4 DEF Ready
        <4>2. RungBitrate(agg', cs[c].level) = RungBitrate(a, cs[c].level)
              /\ EffMax(agg', cs[c]) = EffMax(a, cs[c])
          BY <4>1, SameFloors
        <4> QED
          BY <4>1, <4>2 DEF Fits
      <3> QED
        BY <1>1, <3>1, <3>2, <3>3, <3>4 DEF Ready, Targets, Fits, PullsOwed, RungBitrate, EffMax, FloorOf
    <2>6. Inert(agg)' => frozen'
      BY <1>1, <2>3 DEF Inert
    <2>7. RcWorst'
      <3>1. agg'.inited /\ ~frozen' => a.inited /\ ~Inert(a)
        BY <1>1, <2>3
      <3>2. ASSUME agg'.inited, ~frozen'
            PROVE  Worst(agg', cs, pub', Eligible(cs))
        BY <2>3, <3>1, <3>2 DEF Worst, Eligible, TurnedOn
      <3>3. \A s : Worst(agg', cs, pub', s) => Worst(agg, ctl, pub, s)'
        BY <1>1 DEF Worst, TurnedOn, Eligible, IsStale, Target
      <3>4. Eligible(cs) \in SUBSET Ctrls
        BY DEF Eligible
      <3> QED
        BY <3>2, <3>3, <3>4 DEF RcWorst
    <2> QED
      BY <2>4, <2>5, <2>6, <2>7 DEF RcInv
  <1> QED
    BY <1>2, <1>3

\* A request stays the worst's while nobody's target moves and only reports come.
LEMMA StaysWorst ==
  ASSUME RcInv, agg.inited, ~frozen, ~loose, NEW a, NEW cs, NEW p,
         a.req = agg.req, p.check = pub.check, cs \in [Ctrls -> Recs],
         \A d \in Ctrls : ctl[d].used /\ ctl[d].on =>
            cs[d].used /\ cs[d].on /\ cs[d].bps = ctl[d].bps /\ cs[d].last >= ctl[d].last,
         Eligible(cs) \subseteq Eligible(ctl)
  PROVE  \E s \in SUBSET Ctrls : Worst(a, cs, p, s)
  <1>1. PICK s \in SUBSET Ctrls : Worst(agg, ctl, pub, s)
    BY DEF RcInv, RcWorst
  <1>2. \A d \in s : d \in Ctrls /\ cs[d].used /\ cs[d].on /\ cs[d].bps = ctl[d].bps /\ cs[d].last >= ctl[d].last
    BY <1>1 DEF Worst, TurnedOn
  <1>3. {cs[c].bps : c \in s} = {ctl[c].bps : c \in s}
    BY <1>2
  <1>4. Target(cs, s) = Target(ctl, s)
    BY <1>3 DEF Target
  <1>5. \A d \in s : pub.check <= cs[d].last + StaleTicks
    <2>1. pub.check \in Nat /\ StaleTicks \in Nat
      BY RcConstants DEF RcInv, RcTypes, Pubs
    <2>2. \A d \in s : cs[d].last \in Nat /\ ctl[d].last \in Nat /\ pub.check <= ctl[d].last + StaleTicks
      BY <1>1, <1>2 DEF RcInv, RcTypes, Recs, Worst
    <2> QED
      BY <1>2, <2>1, <2>2
  <1>6. s \subseteq TurnedOn(cs) /\ Eligible(cs) \subseteq s
    BY <1>1, <1>2 DEF TurnedOn, Worst
  <1> QED
    BY <1>1, <1>4, <1>5, <1>6 DEF Worst

----------------------------------------------------------------------------
(* What the operations make of one controller.                             *)

\* Two controllers that have the same target from the same rung.
Alike(n, c) == n.used = c.used /\ n.on = c.on /\ n.level = c.level /\ n.bps = c.bps /\ n.ceil = c.ceil

\* What does not touch the target leaves it fit.
LEMMA AlikeFits ==
  ASSUME NEW a, NEW n, NEW c, Alike(n, c)
  PROVE  (Targets(a, n) <=> Targets(a, c)) /\ (Fits(a, n) <=> Fits(a, c))
  <1>1. EffMax(a, n) = EffMax(a, c)
    BY DEF Alike, EffMax
  <1> QED
    BY <1>1 DEF Alike, Targets, Fits

\* ApplyLevel() makes a controller fit.
LEMMA AppliedFits ==
  \A a \in Aggs, c \in Recs, l \in Int : (a.inited => a.min >= 1) =>
    /\ ApplyLevel(a, c, l) \in Recs
    /\ ApplyLevel(a, c, l).used = c.used /\ ApplyLevel(a, c, l).on = c.on
    /\ ApplyLevel(a, c, l).last = c.last
    /\ Targets(a, ApplyLevel(a, c, l)) /\ Fits(a, ApplyLevel(a, c, l))
  <1> SUFFICES ASSUME NEW a \in Aggs, NEW c \in Recs, NEW l \in Int, a.inited => a.min >= 1
               PROVE  LET r == ApplyLevel(a, c, l) IN
                      /\ r \in Recs /\ r.used = c.used /\ r.on = c.on /\ r.last = c.last
                      /\ Targets(a, r) /\ Fits(a, r)
    OBVIOUS
  <1> DEFINE r == ApplyLevel(a, c, l)
  <1>1. /\ r \in Recs
        /\ r.used = c.used /\ r.on = c.on /\ r.ceil = c.ceil /\ r.last = c.last
        /\ r.bps = RungBitrate(a, r.level) /\ EffMax(a, r) = EffMax(a, c)
        /\ EstimatesPayLastRung => r.bps <= EffMax(a, r)
        /\ a.min >= 1 => r.bps >= 1
    BY Applied
  <1> HIDE DEF EstimatesPayLastRung, r
  <1>2. /\ r \in Recs /\ r.used = c.used /\ r.on = c.on /\ r.last = c.last
        /\ Targets(a, r) /\ Fits(a, r)
    BY <1>1 DEF Targets, Fits
  <1> QED
    BY <1>2 DEF r

\* vrate_reset_signal().
LEMMA ResetAlike ==
  ASSUME NEW c \in Recs, NEW r, r = ResetSignal(c)
  PROVE  r \in Recs /\ Alike(r, c) /\ r.last = c.last
  <1>1. ASSUME NEW k \in Int, NEW q, q = [c EXCEPT !.since = k, !.seen = 0, !.next = 0]
        PROVE  q \in Recs /\ Alike(q, c) /\ q.last = c.last
    BY <1>1 DEF Recs, Alike
  <1>2. NoSince \in Int /\ r = [c EXCEPT !.since = NoSince, !.seen = 0, !.next = 0]
    BY DEF ResetSignal, NoSince
  <1> QED
    BY <1>1, <1>2

\* A report is counted.
LEMMA CountedAlike ==
  ASSUME NEW c \in Recs, clock \in Nat, NEW n, n = RateCounted(c)
  PROVE  n \in Recs /\ Alike(n, c) /\ n.last = clock
  <1> DEFINE k == IF c.since = NoSince THEN 0 ELSE Lower(c.seen + 1, MinReports)
  <1>1. n = [c EXCEPT !.last = clock, !.seen = k]
    BY DEF RateCounted
  <1>2. k \in Nat
    BY RcConstants DEF Recs, Lower
  <1> HIDE DEF k
  <1> QED
    BY <1>1, <1>2 DEF Recs, Alike

\* vrate_step_down().
LEMMA SteppedDown ==
  ASSUME NEW a \in Aggs, a.inited => a.min >= 1, NEW c \in Recs, Targets(a, c), NEW j \in Nat,
         clock \in Nat, NEW r, r = StepDown(a, c, j)
  PROVE  /\ r[1] \in Aggs /\ r[2] \in Recs /\ r[3] \in BOOLEAN
         /\ r[1].inited = a.inited /\ r[1].fpsAct = a.fpsAct /\ r[1].bitAct = a.bitAct
         /\ r[1].min = a.min /\ r[1].req = a.req
         /\ r[2].used = c.used /\ r[2].on = c.on /\ r[2].last = c.last
         /\ Targets(r[1], r[2])
         /\ ~r[3] => r[1] = a /\ (Fits(a, c) => Fits(a, r[2]))
  <1> DEFINE barred == [c EXCEPT !.since = NoSince, !.seen = 0, !.barAt = clock,
                                 !.bar = IF c.level + 1 > @ THEN Lower(c.level + 1, Deepest) ELSE @]
             bottom == c.level >= DeepestUseful(a)
             freed == [a EXCEPT !.pinned = FALSE, !.released = clock]
             b == IF bottom THEN freed ELSE a
             still == [c EXCEPT !.since = NoSince, !.seen = 0]
             lv == Lower(c.level + j, Deepest)
  <1>0. NoSince \in Int /\ Deepest \in Nat /\ c.level \in 0..Deepest /\ c.bar \in Nat
    BY RcConstants DEF NoSince, Recs
  <1>1. barred \in Recs /\ Alike(barred, c) /\ barred.last = c.last
    <2> DEFINE k == IF c.level + 1 > c.bar THEN Lower(c.level + 1, Deepest) ELSE c.bar
    <2>1. k \in Nat
      BY <1>0 DEF Lower
    <2>2. barred = [c EXCEPT !.since = NoSince, !.seen = 0, !.barAt = clock, !.bar = k]
      OBVIOUS
    <2> HIDE DEF k, barred
    <2> QED
      BY <1>0, <2>1, <2>2 DEF Recs, Alike
  <1>2. still \in Recs /\ Alike(still, c) /\ still.last = c.last
    BY <1>0 DEF Recs, Alike
  <1>3. /\ freed \in Aggs /\ freed.inited = a.inited /\ freed.fpsAct = a.fpsAct
        /\ freed.bitAct = a.bitAct /\ freed.min = a.min /\ freed.req = a.req
    BY DEF Aggs
  <1>4. /\ b \in Aggs /\ b.inited = a.inited /\ b.fpsAct = a.fpsAct
        /\ b.bitAct = a.bitAct /\ b.min = a.min /\ b.req = a.req /\ (~bottom => b = a)
    BY <1>3
  <1>5. lv \in Int
    BY <1>0 DEF Lower
  <1> HIDE DEF barred, bottom, freed, b, still, lv
  <1>6. CASE Inert(a)
    <2>1. r = <<a, still, FALSE>>
      BY <1>6 DEF StepDown, still
    <2>2. r[1] = a /\ r[2] = still /\ r[3] = FALSE
      BY <2>1
    <2>3. Targets(a, still) /\ (Fits(a, c) => Fits(a, still))
      BY <1>2, AlikeFits
    <2> QED
      BY <1>2, <2>2, <2>3 DEF Alike
  <1>7. CASE ~Inert(a) /\ bottom /\ ~a.pinned
    <2>1. r = <<a, barred, FALSE>>
      BY <1>7 DEF StepDown, barred, bottom
    <2>2. r[1] = a /\ r[2] = barred /\ r[3] = FALSE
      BY <2>1
    <2>3. Targets(a, barred) /\ (Fits(a, c) => Fits(a, barred))
      BY <1>1, AlikeFits
    <2> QED
      BY <1>1, <2>2, <2>3 DEF Alike
  <1>8. CASE ~Inert(a) /\ ~(bottom /\ ~a.pinned) /\ c.level >= Deepest
    <2>0. r = <<b, barred, bottom>> /\ bottom \in BOOLEAN
      BY <1>8 DEF StepDown, barred, bottom, b, freed
    <2>1. r[1] = b /\ r[2] = barred /\ r[3] = bottom /\ bottom \in BOOLEAN
      BY <2>0
    <2>2. Targets(b, barred) /\ (Fits(a, c) => Fits(a, barred))
      BY <1>1, <1>4, AlikeFits DEF Targets, Alike
    <2> QED
      BY <1>1, <1>4, <2>1, <2>2 DEF Alike
  <1>9. CASE ~Inert(a) /\ ~(bottom /\ ~a.pinned) /\ ~(c.level >= Deepest)
    <2>0. r = <<b, ApplyLevel(b, barred, lv), bottom>> /\ bottom \in BOOLEAN
      BY <1>9 DEF StepDown, barred, bottom, b, freed, lv
    <2>1. r[1] = b /\ r[2] = ApplyLevel(b, barred, lv) /\ r[3] = bottom /\ bottom \in BOOLEAN
      BY <2>0
    <2>2. /\ r[2] \in Recs /\ r[2].used = barred.used /\ r[2].on = barred.on /\ r[2].last = barred.last
          /\ Targets(b, r[2]) /\ Fits(b, r[2])
      <3>1. b \in Aggs /\ (b.inited => b.min >= 1) /\ barred \in Recs /\ lv \in Int
        BY <1>1, <1>4, <1>5
      <3> QED
        BY <2>1, <3>1, AppliedFits
    <2> QED
      BY <1>1, <1>4, <2>1, <2>2 DEF Alike
  <1> QED
    BY <1>6, <1>7, <1>8, <1>9

\* vrate_mark_healthy().
LEMMA MarkedHealthy ==
  ASSUME NEW a \in Aggs, a.inited => a.min >= 1, NEW c \in Recs, Targets(a, c), NEW idle \in BOOLEAN,
         clock \in Nat, NEW r, r = MarkHealthy(a, c, idle)
  PROVE  /\ r \in Recs /\ r.used = c.used /\ r.on = c.on /\ r.last = c.last
         /\ Targets(a, r) /\ (Fits(a, c) => Fits(a, r))
  <1> DEFINE began == IF c.since = NoSince THEN [c EXCEPT !.since = clock, !.seen = 0] ELSE c
             ripe == clock - began.since >= DwellTicks /\ began.seen >= MinReports
             n == [began EXCEPT !.since = NoSince, !.seen = 0,
                         !.bar = IF @ > 0 /\ clock - c.barAt >= DecayTicks THEN @ - 1 ELSE @,
                         !.barAt = IF c.bar > 0 /\ clock - @ >= DecayTicks THEN clock ELSE @]
             up == IF idle /\ c.level >= n.bar + 3 THEN c.level - 2 ELSE c.level - 1
             top == [began EXCEPT !.since = NoSince, !.seen = 0]
  <1>0. NoSince \in Int /\ clock \in Int /\ c.level \in Nat
    BY RcConstants DEF NoSince, Recs
  <1>1. began \in Recs /\ Alike(began, c) /\ began.last = c.last
    BY <1>0 DEF Recs, Alike
  <1> HIDE DEF began
  <1>2. top \in Recs /\ Alike(top, c) /\ top.last = c.last
    BY <1>0, <1>1 DEF Recs, Alike
  <1>3. n \in Recs /\ Alike(n, c) /\ n.last = c.last
    <2> DEFINE k == IF began.bar > 0 /\ clock - c.barAt >= DecayTicks THEN began.bar - 1 ELSE began.bar
               t == IF c.bar > 0 /\ clock - began.barAt >= DecayTicks THEN clock ELSE began.barAt
    <2>1. began.bar \in Nat /\ began.barAt \in Nat
      BY <1>1 DEF Recs
    <2>2. k \in Nat /\ t \in Nat
      BY <2>1
    <2>3. n = [began EXCEPT !.since = NoSince, !.seen = 0, !.bar = k, !.barAt = t]
      OBVIOUS
    <2> HIDE DEF k, t, n
    <2> QED
      BY <1>0, <1>1, <2>2, <2>3 DEF Recs, Alike
  <1> HIDE DEF n, top, ripe
  <1>4. Upper(up, n.bar) \in Int
    <2>1. n.bar \in Nat
      BY <1>3 DEF Recs
    <2> QED
      BY <1>0, <2>1 DEF Upper
  <1> HIDE DEF up
  <1>5. r \in {began, top, n} \/ r = ApplyLevel(a, n, Upper(up, n.bar))
    BY DEF MarkHealthy, began, top, n, up, ripe
  <1>6. CASE r \in {began, top, n}
    <2>1. Alike(r, c) /\ r \in Recs /\ r.last = c.last
      BY <1>1, <1>2, <1>3, <1>6
    <2> QED
      BY <2>1, AlikeFits DEF Alike
  <1>7. CASE r = ApplyLevel(a, n, Upper(up, n.bar))
    BY <1>3, <1>4, <1>7, AppliedFits DEF Alike
  <1> QED
    BY <1>5, <1>6, <1>7

\* The verdict on a report.
LEMMA JudgedFits ==
  ASSUME agg \in Aggs, agg.inited => agg.min >= 1, NEW c \in Recs, Targets(agg, c), NEW v \in Verdicts,
         clock \in Nat, NEW r, r = Judged(c, v)
  PROVE  /\ r[1] \in Aggs /\ r[2] \in Recs /\ r[3] \in BOOLEAN
         /\ r[1].inited = agg.inited /\ r[1].min = agg.min /\ r[1].req = agg.req
         /\ r[2].used = c.used /\ r[2].on = c.on /\ r[2].last = c.last
         /\ Targets(r[1], r[2])
         /\ ~r[3] => r[1] = agg /\ (Fits(agg, c) => Fits(agg, r[2]))
  <1>0. v.by \in Nat
    BY DEF Verdicts
  <1>1. CASE v.kind = "congested"
    <2>1. r = StepDown(agg, c, v.by)
      BY <1>1 DEF Judged
    <2> QED
      BY <1>0, <2>1, SteppedDown
  <1>2. CASE v.kind = "healthy"
    <2> DEFINE m == MarkHealthy(agg, c, v.by = 2)
    <2>1. r = <<agg, m, FALSE>>
      BY <1>2 DEF Judged
    <2>2. (v.by = 2) \in BOOLEAN
      OBVIOUS
    <2>3. /\ m \in Recs /\ m.used = c.used /\ m.on = c.on /\ m.last = c.last
          /\ Targets(agg, m) /\ (Fits(agg, c) => Fits(agg, m))
      BY <2>2, MarkedHealthy
    <2> HIDE DEF m
    <2>4. r[1] = agg /\ r[2] = m /\ r[3] = FALSE
      BY <2>1
    <2> QED
      BY <2>3, <2>4
  <1>3. CASE v.kind \notin {"congested", "healthy"}
    <2> DEFINE m == [c EXCEPT !.since = NoSince, !.seen = 0]
    <2>1. r = <<agg, m, FALSE>>
      BY <1>3 DEF Judged
    <2>2. m \in Recs /\ Alike(m, c) /\ m.last = c.last
      <3>1. ASSUME NEW k \in Int, NEW q, q = [c EXCEPT !.since = k, !.seen = 0]
            PROVE  q \in Recs /\ Alike(q, c) /\ q.last = c.last
        BY <3>1 DEF Recs, Alike
      <3>2. NoSince \in Int
        BY DEF NoSince
      <3> QED
        BY <3>1, <3>2
    <2> HIDE DEF m
    <2>3. Targets(agg, m) /\ (Fits(agg, c) => Fits(agg, m))
      BY <2>2, AlikeFits
    <2>4. r[1] = agg /\ r[2] = m /\ r[3] = FALSE
      BY <2>1
    <2> QED
      BY <2>2, <2>3, <2>4 DEF Alike
  <1> QED
    BY <1>1, <1>2, <1>3

----------------------------------------------------------------------------
(* The steps.                                                              *)

\* A report leaves controller k as m, and gives the pin up if g.
LEMMA Reported ==
  ASSUME RcInv, NEW k \in Ctrls, ctl[k].used, ctl[k].on, agg.inited,
         NEW a \in Aggs, NEW m \in Recs, NEW g \in BOOLEAN,
         a.inited = agg.inited, a.min = agg.min, a.req = agg.req,
         m.used, m.on, m.last = clock, Targets(a, m),
         ~g => a = agg /\ (Fits(agg, ctl[k]) => Fits(agg, m)),
         Settle(a, [ctl EXCEPT ![k] = m], IF g THEN [pub EXCEPT !.pin = 0] ELSE pub,
                m.level # ctl[k].level \/ IsStale(ctl[k])),
         loose' = (loose \/ g), encRate' = encRate, clock' = clock
  PROVE  RcInv'
  <1> DEFINE cs == [ctl EXCEPT ![k] = m]
             p == IF g THEN [pub EXCEPT !.pin = 0] ELSE pub
             again == m.level # ctl[k].level \/ IsStale(ctl[k])
  <1>0. /\ RcTypes /\ Ready(agg, ctl, pub, encRate, loose) /\ loose \in BOOLEAN
        /\ ctl \in [Ctrls -> Recs] /\ pub \in Pubs /\ clock \in Nat /\ agg \in Aggs
    BY DEF RcInv, RcTypes
  <1>1. cs \in [Ctrls -> Recs] /\ cs[k] = m /\ \A d \in Ctrls : d # k => cs[d] = ctl[d]
    BY <1>0
  <1>2. p \in Pubs /\ p.rate = pub.rate /\ p.check = pub.check /\ (~g => p = pub)
    BY <1>0 DEF Pubs
  <1>3. Settle(a, cs, p, again) /\ again \in BOOLEAN
    BY DEF IsStale
  <1> HIDE DEF cs, p
  <1>4. Ready(a, cs, p, encRate', loose')
    <2>1. a.inited => a.min >= 1 /\ PullsOwed(p, encRate') = a.req
      BY <1>0, <1>2 DEF Ready, PullsOwed
    <2>2. ~loose' => a.wanted = a.pinned /\ p.pin = -1
      BY <1>0, <1>2 DEF Ready
    <2>3. ASSUME NEW d \in Ctrls
          PROVE  cs[d].last <= clock /\ Targets(a, cs[d]) /\ (~loose' => Fits(a, cs[d]))
      <3>1. CASE d = k
        BY <1>0, <1>1, <3>1 DEF Ready
      <3>2. CASE d # k
        BY <1>0, <1>1, <3>2 DEF Ready, Targets
      <3> QED
        BY <3>1, <3>2
    <2> QED
      BY <2>1, <2>2, <2>3 DEF Ready
  <1>5. ASSUME ~again, a.inited, ~Inert(a), ~frozen, ~loose'
        PROVE  \E s \in SUBSET Ctrls : Worst(a, cs, p, s)
    <2>1. ~loose /\ ~g /\ a = agg /\ p = pub
      BY <1>0, <1>2, <1>5
    <2>2. Fits(agg, ctl[k]) /\ Fits(agg, m)
      BY <1>0, <2>1 DEF Ready
    <2>3. m.bps = ctl[k].bps
      BY <1>5, <2>2 DEF Fits
    <2>4. \A d \in Ctrls : ctl[d].used /\ ctl[d].on =>
            cs[d].used /\ cs[d].on /\ cs[d].bps = ctl[d].bps /\ cs[d].last >= ctl[d].last
      <3>1. \A d \in Ctrls : ctl[d].last \in Nat /\ ctl[d].last <= clock
        BY <1>0 DEF Ready, Recs
      <3> QED
        BY <1>1, <2>3, <3>1
    <2>5. Eligible(cs) \subseteq Eligible(ctl)
      BY <1>1, <1>5 DEF Eligible
    <2> QED
      BY <1>1, <1>5, <2>1, <2>4, <2>5, StaysWorst
  <1>6. encRate' \in Nat /\ loose' \in BOOLEAN
    BY <1>0 DEF RcTypes
  <1> HIDE DEF again
  <1> QED
    BY <1>0, <1>1, <1>2, <1>3, <1>4, <1>5, <1>6, LevelSettled

\* video_rate_ctrl_report_send_ms().
LEMMA ReportSendInv ==
  ASSUME RcInv, NEW k \in Ctrls, ReportSend(k)
  PROVE  RcInv'
  <1>0. /\ agg \in Aggs /\ ctl[k] \in Recs /\ clock \in Nat /\ (agg.inited => agg.min >= 1)
        /\ Targets(agg, ctl[k])
    BY DEF RcInv, RcTypes, Ready
  <1>1. ctl[k].used /\ ctl[k].on /\ agg.inited /\ encRate' = encRate /\ clock' = clock
    BY DEF ReportSend
  <1>2. PICK v \in Verdicts :
          LET r == Judged(RateCounted(ctl[k]), v) IN
          /\ Settle(r[1], [ctl EXCEPT ![k] = r[2]],
                    IF r[3] THEN [pub EXCEPT !.pin = 0] ELSE pub, r[2].level # ctl[k].level \/ IsStale(ctl[k]))
          /\ loose' = (loose \/ r[3])
    BY DEF ReportSend
  <1> DEFINE n == RateCounted(ctl[k])
             r == Judged(n, v)
  <1>3. n \in Recs /\ Alike(n, ctl[k]) /\ n.last = clock
    BY <1>0, CountedAlike
  <1>4. Targets(agg, n) /\ (Fits(agg, n) <=> Fits(agg, ctl[k])) /\ n.used /\ n.on
    BY <1>0, <1>1, <1>3, AlikeFits DEF Alike
  <1> HIDE DEF n
  <1>5. /\ r[1] \in Aggs /\ r[2] \in Recs /\ r[3] \in BOOLEAN
        /\ r[1].inited = agg.inited /\ r[1].min = agg.min /\ r[1].req = agg.req
        /\ r[2].used = n.used /\ r[2].on = n.on /\ r[2].last = n.last
        /\ Targets(r[1], r[2])
        /\ ~r[3] => r[1] = agg /\ (Fits(agg, n) => Fits(agg, r[2]))
    BY <1>0, <1>3, <1>4, JudgedFits
  <1>6. /\ Settle(r[1], [ctl EXCEPT ![k] = r[2]],
                  IF r[3] THEN [pub EXCEPT !.pin = 0] ELSE pub, r[2].level # ctl[k].level \/ IsStale(ctl[k]))
        /\ loose' = (loose \/ r[3])
    BY <1>2 DEF n
  <1> HIDE DEF r
  <1> QED
    BY <1>1, <1>3, <1>4, <1>5, <1>6, Reported

\* video_rate_ctrl_report_queue().
LEMMA ReportQueueInv ==
  ASSUME RcInv, NEW k \in Ctrls, ReportQueue(k)
  PROVE  RcInv'
  <1>0. /\ agg \in Aggs /\ ctl[k] \in Recs /\ clock \in Nat /\ (agg.inited => agg.min >= 1)
        /\ Targets(agg, ctl[k]) /\ loose \in BOOLEAN
    BY DEF RcInv, RcTypes, Ready
  <1>1. ctl[k].used /\ ctl[k].on /\ agg.inited /\ encRate' = encRate /\ clock' = clock
    BY DEF ReportQueue
  <1> DEFINE q == RateCounted(ctl[k])
  <1>2. q \in Recs /\ Alike(q, ctl[k]) /\ q.last = clock
    BY <1>0, CountedAlike
  <1>3. Targets(agg, q) /\ (Fits(agg, q) <=> Fits(agg, ctl[k])) /\ q.used /\ q.on /\ q.level = ctl[k].level
    BY <1>0, <1>1, <1>2, AlikeFits DEF Alike
  <1>4. CASE clock < ctl[k].next
    <2>1. Settle(agg, [ctl EXCEPT ![k] = q], pub, IsStale(ctl[k])) /\ loose' = loose
      BY <1>4 DEF ReportQueue
    <2> HIDE DEF q
    <2>2. q.level # ctl[k].level \/ IsStale(ctl[k]) <=> IsStale(ctl[k])
      BY <1>3
    <2>3. Settle(agg, [ctl EXCEPT ![k] = q], IF FALSE THEN [pub EXCEPT !.pin = 0] ELSE pub,
                 q.level # ctl[k].level \/ IsStale(ctl[k]))
      BY <2>1, <1>3 DEF Settle
    <2>4. loose' = (loose \/ FALSE)
      BY <1>0, <2>1
    <2> QED
      BY <1>0, <1>1, <1>2, <1>3, <2>3, <2>4, Reported
  <1>5. CASE ~(clock < ctl[k].next)
    <2>1. PICK v \in Verdicts :
            LET n == [RateCounted(ctl[k]) EXCEPT !.next = clock + (IF v.kind = "congested" THEN EvalTicks ELSE RecoverTicks)]
                r == Judged(n, v) IN
            /\ Settle(r[1], [ctl EXCEPT ![k] = r[2]],
                      IF r[3] THEN [pub EXCEPT !.pin = 0] ELSE pub, r[2].level # ctl[k].level \/ IsStale(ctl[k]))
            /\ loose' = (loose \/ r[3])
      BY <1>5 DEF ReportQueue
    <2> DEFINE n == [q EXCEPT !.next = clock + (IF v.kind = "congested" THEN EvalTicks ELSE RecoverTicks)]
               r == Judged(n, v)
    <2>2. /\ Settle(r[1], [ctl EXCEPT ![k] = r[2]],
                    IF r[3] THEN [pub EXCEPT !.pin = 0] ELSE pub, r[2].level # ctl[k].level \/ IsStale(ctl[k]))
          /\ loose' = (loose \/ r[3])
      BY <2>1
    <2> HIDE DEF q
    <2>3. n \in Recs /\ Alike(n, q) /\ n.last = clock
      <3> DEFINE t == clock + (IF v.kind = "congested" THEN EvalTicks ELSE RecoverTicks)
      <3>1. t \in Nat
        BY <1>0, RcConstants
      <3>2. n = [q EXCEPT !.next = t]
        OBVIOUS
      <3> HIDE DEF t, n
      <3> QED
        BY <1>2, <3>1, <3>2 DEF Recs, Alike
    <2> HIDE DEF n
    <2>4. Targets(agg, n) /\ (Fits(agg, n) <=> Fits(agg, q)) /\ n.used /\ n.on
      BY <1>3, <2>3, AlikeFits DEF Alike
    <2>5. /\ r[1] \in Aggs /\ r[2] \in Recs /\ r[3] \in BOOLEAN
          /\ r[1].inited = agg.inited /\ r[1].min = agg.min /\ r[1].req = agg.req
          /\ r[2].used = n.used /\ r[2].on = n.on /\ r[2].last = n.last
          /\ Targets(r[1], r[2])
          /\ ~r[3] => r[1] = agg /\ (Fits(agg, n) => Fits(agg, r[2]))
      BY <1>0, <2>3, <2>4, JudgedFits
    <2> HIDE DEF r
    <2> QED
      BY <1>1, <1>3, <2>2, <2>3, <2>4, <2>5, Reported
  <1> QED
    BY <1>4, <1>5

\* What a configuration must leave of every controller.
LEMMA Reconfigured ==
  ASSUME RcInv, NEW a \in Aggs, NEW cs \in [Ctrls -> Recs], NEW p \in Pubs, NEW again \in BOOLEAN,
         Settle(a, cs, p, again), clock' = clock, loose' = loose, encRate' \in Nat,
         a.inited => a.min >= 1 /\ PullsOwed(p, encRate') = a.req,
         ~loose => a.wanted = a.pinned /\ p.pin = -1,
         \A d \in Ctrls : cs[d].last <= clock /\ Targets(a, cs[d]) /\ (~loose => Fits(a, cs[d])),
         ~again /\ a.inited /\ ~frozen /\ ~loose =>
            /\ agg.inited /\ a.req = agg.req /\ p.check = pub.check
            /\ \A d \in Ctrls : ctl[d].used /\ ctl[d].on =>
                 cs[d].used /\ cs[d].on /\ cs[d].bps = ctl[d].bps /\ cs[d].last >= ctl[d].last
            /\ Eligible(cs) \subseteq Eligible(ctl)
  PROVE  RcInv'
  <1>0. RcTypes /\ loose \in BOOLEAN
    BY DEF RcInv, RcTypes
  <1>1. Ready(a, cs, p, encRate', loose')
    BY DEF Ready
  <1>2. ASSUME ~again, a.inited, ~Inert(a), ~frozen, ~loose
        PROVE  \E s \in SUBSET Ctrls : Worst(a, cs, p, s)
    BY <1>2, StaysWorst
  <1> QED
    BY <1>0, <1>1, <1>2, LevelSettled

\* What every controller is left with when some are put on their rung again.
LEMMA Reapplied ==
  ASSUME RcInv, NEW a \in Aggs, a.inited => a.min >= 1, a.inited = agg.inited,
         NEW moves \in SUBSET Ctrls,
         ~loose => \A d \in Ctrls \ moves : Fits(agg, ctl[d]) => Fits(a, ctl[d]),
         NEW cs, cs = [d \in Ctrls |-> IF d \in moves THEN ApplyLevel(a, ctl[d], ctl[d].level) ELSE ctl[d]]
  PROVE  /\ cs \in [Ctrls -> Recs]
         /\ \A d \in Ctrls : cs[d].last <= clock /\ Targets(a, cs[d]) /\ (~loose => Fits(a, cs[d]))
  <1>0. ctl \in [Ctrls -> Recs] /\ Ready(agg, ctl, pub, encRate, loose)
    BY DEF RcInv, RcTypes
  <1>1. ASSUME NEW d \in Ctrls
        PROVE  cs[d] \in Recs /\ cs[d].last <= clock /\ Targets(a, cs[d]) /\ (~loose => Fits(a, cs[d]))
    <2>0. /\ ctl[d] \in Recs /\ ctl[d].level \in Int /\ ctl[d].last <= clock
          /\ Targets(agg, ctl[d]) /\ (~loose => Fits(agg, ctl[d]))
      BY <1>0, RcConstants DEF Ready, Recs
    <2>1. CASE d \in moves
      <3>1. cs[d] = ApplyLevel(a, ctl[d], ctl[d].level)
        BY <2>1
      <3> QED
        BY <2>0, <3>1, AppliedFits
    <2>2. CASE d \notin moves
      <3>1. cs[d] = ctl[d]
        BY <2>2
      <3>2. Targets(a, ctl[d])
        BY <2>0 DEF Targets
      <3> QED
        BY <2>0, <2>2, <3>1, <3>2
    <2> QED
      BY <2>1, <2>2
  <1> QED
    BY <1>1

\* One controller is replaced.
LEMMA Replaced ==
  ASSUME RcInv, NEW k \in Ctrls, NEW m \in Recs, m.last <= clock, Targets(agg, m), Fits(agg, m),
         NEW cs, cs = [ctl EXCEPT ![k] = m]
  PROVE  /\ cs \in [Ctrls -> Recs] /\ cs[k] = m /\ \A d \in Ctrls : d # k => cs[d] = ctl[d]
         /\ \A d \in Ctrls : cs[d].last <= clock /\ Targets(agg, cs[d]) /\ (~loose => Fits(agg, cs[d]))
  <1>0. ctl \in [Ctrls -> Recs] /\ Ready(agg, ctl, pub, encRate, loose)
    BY DEF RcInv, RcTypes
  <1>1. cs \in [Ctrls -> Recs] /\ cs[k] = m /\ \A d \in Ctrls : d # k => cs[d] = ctl[d]
    BY <1>0
  <1> QED
    BY <1>0, <1>1 DEF Ready

\* video_rate_ctrl_create(): a controller that does not take part yet.
LEMMA CreateInv ==
  ASSUME RcInv, NEW k \in Ctrls, Create(k)
  PROVE  RcInv'
  <1> DEFINE n == [Free EXCEPT !.used = TRUE, !.last = clock]
             m == IF agg.inited THEN ApplyLevel(agg, n, StartAt(agg)) ELSE n
             cs == [ctl EXCEPT ![k] = m]
  <1>0. /\ agg \in Aggs /\ pub \in Pubs /\ clock \in Nat /\ encRate \in Nat /\ loose \in BOOLEAN
        /\ frozen \in BOOLEAN /\ Ready(agg, ctl, pub, encRate, loose) /\ ctl \in [Ctrls -> Recs]
        /\ Inert(agg) => frozen
    BY DEF RcInv, RcTypes
  <1>1. n \in Recs /\ ~n.on /\ n.last = clock
    <2>1. Free \in Recs /\ Free.on = FALSE
      BY RcConstants DEF Free, Recs, NoSince
    <2> QED
      BY <1>0, <2>1 DEF Recs
  <1>2. StartAt(agg) \in Int
    BY RcConstants DEF StartAt
  <1> HIDE DEF n
  <1>3. m \in Recs /\ ~m.on /\ m.last = clock
    <2>1. ASSUME agg.inited
          PROVE  LET r == ApplyLevel(agg, n, StartAt(agg)) IN r \in Recs /\ r.on = n.on /\ r.last = n.last
      BY <1>0, <1>1, <1>2, AppliedFits DEF Ready
    <2> QED
      BY <1>1, <2>1
  <1>4. /\ ~ctl[k].used /\ agg' = agg /\ pub' = pub /\ ctl' = cs /\ frozen' = frozen
        /\ encRate' = encRate /\ clock' = clock /\ loose' = loose
    BY DEF Create, n
  <1> HIDE DEF m
  <1>5. Settle(agg, cs, pub, FALSE)
    BY <1>0, <1>4 DEF Settle
  <1> HIDE DEF cs
  <1>6. m.last <= clock /\ Targets(agg, m) /\ Fits(agg, m)
    BY <1>0, <1>3 DEF Targets, Fits
  <1>7. /\ cs \in [Ctrls -> Recs] /\ cs[k] = m /\ \A d \in Ctrls : d # k => cs[d] = ctl[d]
        /\ \A d \in Ctrls : cs[d].last <= clock /\ Targets(agg, cs[d]) /\ (~loose => Fits(agg, cs[d]))
    BY <1>3, <1>6, Replaced DEF cs
  <1>8. \A d \in Ctrls : ctl[d].used /\ ctl[d].on => cs[d] = ctl[d]
    BY <1>4, <1>7
  <1>9. Eligible(cs) \subseteq Eligible(ctl)
    BY <1>3, <1>7 DEF Eligible
  <1>10. \A d \in Ctrls : ctl[d].last \in Nat
    BY <1>0 DEF Recs
  <1>11. \A d \in Ctrls : ctl[d].used /\ ctl[d].on =>
            cs[d].used /\ cs[d].on /\ cs[d].bps = ctl[d].bps /\ cs[d].last >= ctl[d].last
    BY <1>8, <1>10
  <1>12. /\ agg.inited => agg.min >= 1 /\ PullsOwed(pub, encRate') = agg.req
         /\ ~loose => agg.wanted = agg.pinned /\ pub.pin = -1
    BY <1>0, <1>4 DEF Ready
  <1>13. encRate' \in Nat /\ FALSE \in BOOLEAN /\ clock' = clock /\ loose' = loose
    BY <1>0, <1>4
  <1> QED
    BY <1>0, <1>5, <1>7, <1>9, <1>11, <1>12, <1>13, Reconfigured

\* video_rate_ctrl_destroy().
LEMMA DestroyInv ==
  ASSUME RcInv, NEW k \in Ctrls, Destroy(k)
  PROVE  RcInv'
  <1> DEFINE cs == [ctl EXCEPT ![k] = Free]
  <1>0. /\ agg \in Aggs /\ pub \in Pubs /\ clock \in Nat /\ encRate \in Nat /\ loose \in BOOLEAN
        /\ Ready(agg, ctl, pub, encRate, loose)
    BY DEF RcInv, RcTypes
  <1>1. Free \in Recs /\ ~Free.on /\ Free.last <= clock
    BY <1>0, RcConstants DEF Free, Recs, NoSince
  <1>2. Targets(agg, Free) /\ Fits(agg, Free)
    BY <1>1 DEF Targets, Fits
  <1>3. /\ cs \in [Ctrls -> Recs]
        /\ \A d \in Ctrls : cs[d].last <= clock /\ Targets(agg, cs[d]) /\ (~loose => Fits(agg, cs[d]))
    BY <1>1, <1>2, Replaced
  <1>4. Settle(agg, cs, pub, TRUE) /\ encRate' = encRate /\ clock' = clock /\ loose' = loose
    BY DEF Destroy
  <1> HIDE DEF cs
  <1> QED
    BY <1>0, <1>3, <1>4, Reconfigured DEF Ready

\* video_rate_ctrl_set_enabled().
LEMMA EnableInv ==
  ASSUME RcInv, NEW k \in Ctrls, Enable(k)
  PROVE  RcInv'
  <1> DEFINE z == ResetSignal(ctl[k])
             n == [z EXCEPT !.on = ~ctl[k].on, !.last = clock]
             m == IF n.on /\ agg.inited THEN ApplyLevel(agg, n, StartAt(agg)) ELSE n
             cs == [ctl EXCEPT ![k] = m]
  <1>0. /\ agg \in Aggs /\ pub \in Pubs /\ clock \in Nat /\ encRate \in Nat /\ loose \in BOOLEAN
        /\ Ready(agg, ctl, pub, encRate, loose) /\ ctl[k] \in Recs
    BY DEF RcInv, RcTypes
  <1>1. z \in Recs
    BY <1>0, ResetAlike
  <1>2. n \in Recs /\ n.last = clock /\ n.on \in BOOLEAN
    <2> HIDE DEF z
    <2>1. (~ctl[k].on) \in BOOLEAN
      OBVIOUS
    <2>2. ASSUME NEW x \in BOOLEAN, NEW q, q = [z EXCEPT !.on = x, !.last = clock]
          PROVE  q \in Recs /\ q.last = clock /\ q.on \in BOOLEAN
      BY <1>0, <1>1, <2>2 DEF Recs
    <2> QED
      BY <2>1, <2>2
  <1>3. StartAt(agg) \in Int
    BY RcConstants DEF StartAt
  <1>4. /\ Settle(agg, cs, pub, TRUE) /\ encRate' = encRate /\ clock' = clock /\ loose' = loose
    BY DEF Enable
  <1> HIDE DEF n, z
  <1>5. m \in Recs /\ m.last <= clock /\ Targets(agg, m) /\ Fits(agg, m)
    <2>1. CASE n.on /\ agg.inited
      <3>1. m = ApplyLevel(agg, n, StartAt(agg))
        BY <2>1
      <3> HIDE DEF m
      <3>2. m \in Recs /\ m.last = n.last /\ Targets(agg, m) /\ Fits(agg, m)
        BY <1>0, <1>2, <1>3, <3>1, AppliedFits DEF Ready
      <3> QED
        BY <1>0, <1>2, <3>2
    <2>2. CASE ~(n.on /\ agg.inited)
      BY <1>0, <1>2, <2>2 DEF Targets, Fits
    <2> QED
      BY <2>1, <2>2
  <1> HIDE DEF m
  <1>6. /\ cs \in [Ctrls -> Recs]
        /\ \A d \in Ctrls : cs[d].last <= clock /\ Targets(agg, cs[d]) /\ (~loose => Fits(agg, cs[d]))
    BY <1>5, Replaced
  <1> HIDE DEF cs
  <1> QED
    BY <1>0, <1>4, <1>6, Reconfigured DEF Ready

\* video_rate_ctrl_set_network_ceiling_bps().
LEMMA SetCeilingInv ==
  ASSUME RcInv, NEW k \in Ctrls, NEW b \in Ceilings, SetCeiling(k, b)
  PROVE  RcInv'
  <1> DEFINE n == [ctl[k] EXCEPT !.ceil = b]
             m == IF n.on /\ agg.inited THEN ApplyLevel(agg, n, n.level) ELSE n
             cs == [ctl EXCEPT ![k] = m]
             again == m.level # n.level
  <1>0. /\ agg \in Aggs /\ pub \in Pubs /\ clock \in Nat /\ encRate \in Nat /\ loose \in BOOLEAN
        /\ Ready(agg, ctl, pub, encRate, loose) /\ ctl \in [Ctrls -> Recs] /\ ctl[k] \in Recs
        /\ ctl[k].level \in Int /\ ctl[k].used
    BY RcConstants DEF RcInv, RcTypes, Recs, SetCeiling
  <1>1. /\ n \in Recs /\ n.last = ctl[k].last /\ n.on = ctl[k].on /\ n.used = ctl[k].used
        /\ n.level = ctl[k].level /\ n.bps = ctl[k].bps
    BY <1>0 DEF Recs
  <1>2. Settle(agg, cs, pub, again) /\ encRate' = encRate /\ clock' = clock /\ loose' = loose
    BY DEF SetCeiling
  <1> HIDE DEF n
  <1>3. m \in Recs /\ m.last = n.last /\ m.on = n.on /\ m.used = n.used /\ Targets(agg, m) /\ Fits(agg, m)
    <2>1. CASE n.on /\ agg.inited
      <3>1. m = ApplyLevel(agg, n, n.level)
        BY <2>1
      <3> HIDE DEF m
      <3> QED
        BY <1>0, <1>1, <3>1, AppliedFits DEF Ready
    <2>2. CASE ~(n.on /\ agg.inited)
      BY <1>0, <1>1, <2>2 DEF Targets, Fits
    <2> QED
      BY <2>1, <2>2
  <1> HIDE DEF m
  <1>4. m.last <= clock
    BY <1>0, <1>1, <1>3 DEF Ready
  <1>5. /\ cs \in [Ctrls -> Recs] /\ cs[k] = m /\ \A d \in Ctrls : d # k => cs[d] = ctl[d]
        /\ \A d \in Ctrls : cs[d].last <= clock /\ Targets(agg, cs[d]) /\ (~loose => Fits(agg, cs[d]))
    BY <1>3, <1>4, Replaced
  <1>6. ASSUME ~again, agg.inited, ~loose, ctl[k].on
        PROVE  m.bps = ctl[k].bps
    <2>1. Fits(agg, ctl[k]) /\ Fits(agg, m)
      BY <1>0, <1>3, <1>6 DEF Ready
    <2> QED
      BY <1>0, <1>1, <1>3, <1>6, <2>1 DEF Fits
  <1> HIDE DEF cs
  <1>7. ASSUME ~again, agg.inited, ~loose
        PROVE  \A d \in Ctrls : ctl[d].used /\ ctl[d].on =>
                 cs[d].used /\ cs[d].on /\ cs[d].bps = ctl[d].bps /\ cs[d].last >= ctl[d].last
    <2>1. \A d \in Ctrls : ctl[d].last \in Nat
      BY <1>0 DEF Recs
    <2> QED
      BY <1>1, <1>3, <1>5, <1>6, <1>7, <2>1
  <1>8. Eligible(cs) \subseteq Eligible(ctl)
    BY <1>0, <1>1, <1>3, <1>5 DEF Eligible, IsStale
  <1>9. again \in BOOLEAN
    OBVIOUS
  <1> HIDE DEF again
  <1> QED
    BY <1>0, <1>2, <1>5, <1>7, <1>8, <1>9, Reconfigured DEF Ready

\* video_rate_ctrl_init(): the least of the minima is the minimum.
LEMMA RateInitInv ==
  ASSUME RcInv, NEW f \in BOOLEAN, RateInit(f)
  PROVE  RcInv'
  <1> DEFINE low == Lower(Min(MinRates), MaxRate)
             a == [agg EXCEPT !.inited = TRUE, !.fpsAct = f, !.bitAct = TRUE, !.req = MaxRate,
                          !.min = low, !.pinned = agg.wanted, !.released = 0]
             Seed(c) == [ResetSignal(c) EXCEPT !.last = clock, !.bar = 0, !.barAt = clock]
             cs == [c \in Ctrls |-> IF ~ctl[c].used THEN ctl[c]
                                    ELSE IF ctl[c].on THEN ApplyLevel(a, Seed(ctl[c]), StartAt(a)) ELSE Seed(ctl[c])]
             p == [pub EXCEPT !.rate = 0]
  <1>0. /\ agg \in Aggs /\ pub \in Pubs /\ clock \in Nat /\ loose \in BOOLEAN
        /\ Ready(agg, ctl, pub, encRate, loose) /\ ctl \in [Ctrls -> Recs] /\ MaxRate \in Nat \ {0}
    BY RcConstants DEF RcInv, RcTypes
  <1>1. low \in Nat /\ low >= 1
    <2>1. MinRates \in SUBSET Nat /\ MinRates # {} /\ \A x \in MinRates : x >= 1
      BY RcConstants
    <2>2. Min(MinRates) \in MinRates
      BY <2>1, LeastIn
    <2>3. Min(MinRates) \in Nat /\ Min(MinRates) >= 1
      BY <2>1, <2>2
    <2> QED
      BY <1>0, <2>3 DEF Lower
  <1>2. Settle(a, cs, p, TRUE) /\ encRate' = MaxRate /\ clock' = clock /\ loose' = loose
    BY DEF RateInit
  <1> HIDE DEF low
  <1>3. /\ a \in Aggs /\ a.inited /\ a.min = low /\ a.req = MaxRate /\ a.pinned = agg.wanted
        /\ a.wanted = agg.wanted
    BY <1>0, <1>1 DEF Aggs
  <1> HIDE DEF a
  <1>4. ASSUME NEW d \in Ctrls
        PROVE  cs[d] \in Recs /\ cs[d].last <= clock /\ Targets(a, cs[d]) /\ Fits(a, cs[d])
    <2>0. ctl[d] \in Recs /\ ctl[d].last <= clock
      BY <1>0 DEF Ready
    <2>1. StartAt(a) \in Int
      BY RcConstants DEF StartAt
    <2> DEFINE z == ResetSignal(ctl[d])
               n == Seed(ctl[d])
    <2>2. z \in Recs /\ Alike(z, ctl[d])
      BY <2>0, ResetAlike
    <2>3. n = [z EXCEPT !.last = clock, !.bar = 0, !.barAt = clock]
      OBVIOUS
    <2>4. CASE ~ctl[d].used
      <3>1. cs[d] = ctl[d]
        BY <2>4
      <3> QED
        BY <2>0, <2>4, <3>1 DEF Targets, Fits
    <2>5. CASE ctl[d].used /\ ctl[d].on
      <3>1. cs[d] = ApplyLevel(a, n, StartAt(a))
        BY <2>5
      <3> HIDE DEF z, n, cs
      <3>2. n \in Recs /\ n.last = clock
        BY <1>0, <2>2, <2>3 DEF Recs
      <3>3. cs[d] \in Recs /\ cs[d].last = n.last /\ Targets(a, cs[d]) /\ Fits(a, cs[d])
        BY <1>1, <1>3, <2>1, <3>1, <3>2, AppliedFits
      <3> QED
        BY <1>0, <3>2, <3>3
    <2>6. CASE ctl[d].used /\ ~ctl[d].on
      <3>1. cs[d] = n
        BY <2>6
      <3> HIDE DEF z, n, cs
      <3>2. n \in Recs /\ n.last = clock /\ n.on = z.on
        BY <1>0, <2>2, <2>3 DEF Recs
      <3> QED
        BY <1>0, <2>2, <2>6, <3>1, <3>2 DEF Targets, Fits, Alike
    <2> QED
      BY <2>4, <2>5, <2>6
  <1>5. cs \in [Ctrls -> Recs]
    BY <1>4
  <1>6. p \in Pubs /\ p.rate = 0 /\ p.pin = pub.pin
    BY <1>0 DEF Pubs
  <1>7. /\ a.inited => a.min >= 1 /\ PullsOwed(p, encRate') = a.req
        /\ ~loose => a.wanted = a.pinned /\ p.pin = -1
    BY <1>0, <1>1, <1>2, <1>3, <1>6 DEF PullsOwed, Ready
  <1> HIDE DEF cs, p
  <1>8. encRate' \in Nat
    BY <1>0, <1>2
  <1> QED
    BY <1>2, <1>3, <1>4, <1>5, <1>6, <1>7, <1>8, Reconfigured

\* video_rate_ctrl_set_min_bitrate().
LEMMA SetMinInv ==
  ASSUME RcInv, NEW m \in MinRates, SetMin(m)
  PROVE  RcInv'
  <1> DEFINE low == Lower(m, MaxRate)
             a == [agg EXCEPT !.min = low]
             moves == {c \in Ctrls : ctl[c].used}
             cs == [c \in Ctrls |-> IF c \in moves THEN ApplyLevel(a, ctl[c], ctl[c].level) ELSE ctl[c]]
  <1>0. /\ agg \in Aggs /\ pub \in Pubs /\ clock \in Nat /\ loose \in BOOLEAN /\ encRate \in Nat
        /\ Ready(agg, ctl, pub, encRate, loose) /\ agg.inited
    BY DEF RcInv, RcTypes, SetMin
  <1>1. low \in Nat /\ low >= 1
    <2>1. m \in Nat /\ m >= 1 /\ MaxRate \in Nat /\ MaxRate >= 1
      BY RcConstants
    <2> QED
      BY <2>1 DEF Lower
  <1>2. /\ Settle(a, [c \in Ctrls |-> IF ctl[c].used THEN ApplyLevel(a, ctl[c], ctl[c].level) ELSE ctl[c]], pub, TRUE)
        /\ encRate' = encRate /\ clock' = clock /\ loose' = loose
    BY DEF SetMin
  <1>3. cs = [c \in Ctrls |-> IF ctl[c].used THEN ApplyLevel(a, ctl[c], ctl[c].level) ELSE ctl[c]]
    OBVIOUS
  <1>4. Settle(a, cs, pub, TRUE)
    BY <1>2, <1>3
  <1> HIDE DEF low
  <1>5. /\ a \in Aggs /\ a.inited = agg.inited /\ a.min = low /\ a.req = agg.req
        /\ a.pinned = agg.pinned /\ a.wanted = agg.wanted
    BY <1>0, <1>1 DEF Aggs
  <1> HIDE DEF a
  <1>6. \A d \in Ctrls \ moves : Fits(a, ctl[d])
    BY DEF Fits
  <1>7. moves \in SUBSET Ctrls
    OBVIOUS
  <1> HIDE DEF moves
  <1>8. /\ cs \in [Ctrls -> Recs]
        /\ \A d \in Ctrls : cs[d].last <= clock /\ Targets(a, cs[d]) /\ (~loose => Fits(a, cs[d]))
    BY <1>1, <1>5, <1>6, <1>7, Reapplied
  <1> HIDE DEF cs
  <1>9. /\ a.inited => a.min >= 1 /\ PullsOwed(pub, encRate') = a.req
        /\ ~loose => a.wanted = a.pinned /\ pub.pin = -1
    BY <1>0, <1>1, <1>2, <1>5 DEF Ready
  <1> QED
    BY <1>0, <1>2, <1>4, <1>5, <1>8, <1>9, Reconfigured

\* video_rate_ctrl_set_bitrate_actuable(): nothing is arbitrated.
LEMMA SetActuableInv ==
  ASSUME RcInv, NEW b \in BOOLEAN, SetActuable(b)
  PROVE  RcInv'
  <1> DEFINE a == [agg EXCEPT !.bitAct = b]
  <1>0. /\ agg \in Aggs /\ pub \in Pubs /\ clock \in Nat /\ loose \in BOOLEAN /\ encRate \in Nat
        /\ Ready(agg, ctl, pub, encRate, loose) /\ agg.inited /\ ctl \in [Ctrls -> Recs]
    BY DEF RcInv, RcTypes, SetActuable
  <1>1. Settle(a, ctl, pub, FALSE) /\ encRate' = encRate /\ clock' = clock /\ loose' = loose
    BY DEF SetActuable
  <1>2. /\ a \in Aggs /\ a.inited = agg.inited /\ a.min = agg.min /\ a.req = agg.req
        /\ a.pinned = agg.pinned /\ a.wanted = agg.wanted
    BY <1>0 DEF Aggs
  <1> HIDE DEF a
  <1>3. \A d \in Ctrls : Fits(agg, ctl[d]) => Fits(a, ctl[d])
    BY <1>2 DEF Fits, RungBitrate, EffMax, FloorOf
  <1>4. \A d \in Ctrls : ctl[d].last <= clock /\ Targets(a, ctl[d]) /\ (~loose => Fits(a, ctl[d]))
    BY <1>0, <1>2, <1>3 DEF Ready, Targets
  <1>5. /\ a.inited => a.min >= 1 /\ PullsOwed(pub, encRate') = a.req
        /\ ~loose => a.wanted = a.pinned /\ pub.pin = -1
    BY <1>0, <1>1, <1>2 DEF Ready
  <1>6. \A d \in Ctrls : ctl[d].last >= ctl[d].last
    BY <1>0 DEF Recs
  <1>7. FALSE \in BOOLEAN
    OBVIOUS
  <1> QED
    BY <1>0, <1>1, <1>2, <1>4, <1>5, <1>6, <1>7, Reconfigured

\* The pin as it is set, by request or by the actuator; a is what that leaves of agg.
LEMMA PinSet ==
  ASSUME RcInv, NEW a \in Aggs, NEW p \in Pubs, NEW b \in BOOLEAN,
         a.inited = agg.inited, a.min = agg.min, a.req = agg.req, a.pinned = b,
         p.rate = pub.rate, p.check = pub.check, ~loose => a.wanted = b /\ p.pin = -1,
         Settle(a, [c \in Ctrls |-> IF (agg.inited /\ agg.pinned # b) /\ ctl[c].used /\ ctl[c].on
                                    THEN ApplyLevel(a, ctl[c], ctl[c].level) ELSE ctl[c]],
                p, agg.inited /\ agg.pinned # b),
         encRate' = encRate, clock' = clock, loose' = loose
  PROVE  RcInv'
  <1> DEFINE moved == agg.inited /\ agg.pinned # b
             moves == {c \in Ctrls : moved /\ ctl[c].used /\ ctl[c].on}
             cs == [c \in Ctrls |-> IF c \in moves THEN ApplyLevel(a, ctl[c], ctl[c].level) ELSE ctl[c]]
  <1>0. /\ agg \in Aggs /\ pub \in Pubs /\ clock \in Nat /\ loose \in BOOLEAN /\ encRate \in Nat
        /\ Ready(agg, ctl, pub, encRate, loose) /\ ctl \in [Ctrls -> Recs] /\ moved \in BOOLEAN
    BY DEF RcInv, RcTypes, Aggs
  <1>1. cs = [c \in Ctrls |-> IF moved /\ ctl[c].used /\ ctl[c].on
                              THEN ApplyLevel(a, ctl[c], ctl[c].level) ELSE ctl[c]]
    OBVIOUS
  <1>2. Settle(a, cs, p, moved)
    BY <1>1
  <1>3. \A d \in Ctrls \ moves : Fits(agg, ctl[d]) => Fits(a, ctl[d])
    BY DEF Fits, RungBitrate, EffMax, FloorOf
  <1>4. moves \in SUBSET Ctrls /\ (~moved => moves = {})
    OBVIOUS
  <1> HIDE DEF moves
  <1>5. /\ cs \in [Ctrls -> Recs]
        /\ \A d \in Ctrls : cs[d].last <= clock /\ Targets(a, cs[d]) /\ (~loose => Fits(a, cs[d]))
    BY <1>0, <1>3, <1>4, Reapplied DEF Ready
  <1>6. ASSUME ~moved
        PROVE  cs = ctl
    BY <1>0, <1>4, <1>6
  <1>7. /\ a.inited => a.min >= 1 /\ PullsOwed(p, encRate') = a.req
        /\ ~loose => a.wanted = a.pinned /\ p.pin = -1
    BY <1>0 DEF Ready, PullsOwed
  <1>8. \A d \in Ctrls : ctl[d].last >= ctl[d].last
    BY <1>0 DEF Recs
  <1> HIDE DEF cs, moved
  <1> QED
    BY <1>0, <1>2, <1>5, <1>6, <1>7, <1>8, Reconfigured

\* vrate_set_pin(), by the operator.
LEMMA SetPinInv ==
  ASSUME RcInv, NEW b \in BOOLEAN, SetPin(b, TRUE)
  PROVE  RcInv'
  <1> DEFINE a == [agg EXCEPT !.wanted = b, !.pinned = b, !.released = 0]
  <1>0. agg \in Aggs /\ pub \in Pubs /\ Ready(agg, ctl, pub, encRate, loose)
    BY DEF RcInv, RcTypes
  <1>1. /\ a \in Aggs /\ a.inited = agg.inited /\ a.min = agg.min /\ a.req = agg.req
        /\ a.pinned = b /\ a.wanted = b
    BY <1>0 DEF Aggs
  <1>2. a = [agg EXCEPT !.wanted = IF TRUE THEN b ELSE @, !.pinned = b,
                        !.released = IF TRUE THEN 0 ELSE IF ~b THEN clock ELSE @]
    OBVIOUS
  <1>3. /\ Settle(a, [c \in Ctrls |-> IF (agg.inited /\ agg.pinned # b) /\ ctl[c].used /\ ctl[c].on
                                      THEN ApplyLevel(a, ctl[c], ctl[c].level) ELSE ctl[c]],
                  pub, agg.inited /\ agg.pinned # b)
        /\ encRate' = encRate /\ clock' = clock /\ loose' = loose
    BY <1>2 DEF SetPin
  <1> HIDE DEF a
  <1>4. ~loose => a.wanted = b /\ pub.pin = -1
    BY <1>0, <1>1 DEF Ready
  <1> QED
    BY <1>0, <1>1, <1>3, <1>4, PinSet

\* video_rate_ctrl_pull_fps_pin(): there is a pin to hand over only after a release.
LEMMA PullPinInv ==
  ASSUME RcInv, PullPin
  PROVE  RcInv'
  <1> DEFINE b == pub.pin = 1
             t == IF ~b THEN clock ELSE agg.released
             a == [agg EXCEPT !.pinned = b, !.released = t]
             p == [pub EXCEPT !.pin = -1]
  <1>0. agg \in Aggs /\ pub \in Pubs /\ Ready(agg, ctl, pub, encRate, loose) /\ clock \in Nat
    BY DEF RcInv, RcTypes
  <1>1. loose
    BY <1>0 DEF PullPin, Ready
  <1>2. a = [agg EXCEPT !.pinned = b, !.released = IF ~b THEN clock ELSE @]
    OBVIOUS
  <1>3. /\ Settle(a, [c \in Ctrls |-> IF (agg.inited /\ agg.pinned # b) /\ ctl[c].used /\ ctl[c].on
                                      THEN ApplyLevel(a, ctl[c], ctl[c].level) ELSE ctl[c]],
                  p, agg.inited /\ agg.pinned # b)
        /\ encRate' = encRate /\ clock' = clock /\ loose' = loose
    BY <1>2 DEF PullPin
  <1>4. t \in Nat /\ b \in BOOLEAN
    BY <1>0 DEF Aggs
  <1> HIDE DEF t, b
  <1>5. /\ a \in Aggs /\ a.inited = agg.inited /\ a.min = agg.min /\ a.req = agg.req /\ a.pinned = b
    BY <1>0, <1>4 DEF Aggs
  <1>6. p \in Pubs /\ p.rate = pub.rate /\ p.check = pub.check
    BY <1>0 DEF Pubs
  <1> HIDE DEF a, p
  <1> QED
    BY <1>1, <1>3, <1>4, <1>5, <1>6, PinSet

\* video_rate_ctrl_pull_bitrate_bps(): what was owed is handed over.
LEMMA PullBitrateInv ==
  ASSUME RcInv, PullBitrate
  PROVE  RcInv'
  <1> DEFINE due == clock >= pub.check
             r == IF due THEN Rearbitrate(agg, ctl, pub) ELSE <<agg, pub>>
             q == r[2]
             e == PullsOwed(q, encRate)
  <1>0. /\ agg \in Aggs /\ pub \in Pubs /\ clock \in Nat /\ loose \in BOOLEAN /\ encRate \in Nat
        /\ frozen \in BOOLEAN
        /\ Ready(agg, ctl, pub, encRate, loose) /\ ctl \in [Ctrls -> Recs] /\ (Inert(agg) => frozen)
    BY DEF RcInv, RcTypes
  <1>1. /\ agg' = r[1] /\ encRate' = e /\ pub' = [q EXCEPT !.rate = 0]
        /\ ctl' = ctl /\ clock' = clock /\ frozen' = frozen /\ loose' = loose
    BY DEF PullBitrate, PullsOwed
  <1>2. /\ r[1] \in Aggs /\ q \in Pubs
        /\ r[1].inited = agg.inited /\ r[1].fpsAct = agg.fpsAct /\ r[1].bitAct = agg.bitAct
        /\ r[1].min = agg.min /\ r[1].wanted = agg.wanted
        /\ agg.wanted = agg.pinned => r[1].pinned = agg.pinned /\ q.pin = pub.pin
        /\ agg.inited => e = r[1].req
        /\ agg.inited /\ ~frozen /\ ~loose =>
             \E s \in SUBSET Ctrls : /\ s \subseteq TurnedOn(ctl) /\ Eligible(ctl) \subseteq s /\ r[1].req = Target(ctl, s)
                                     /\ \A c \in s : q.check <= ctl[c].last + StaleTicks
    <2>1. CASE due
      <3>1. r = Rearbitrate(agg, ctl, pub)
        BY <2>1
      <3>2. agg.inited => \A c \in Eligible(ctl) : ctl[c].bps >= 1
        BY <1>0 DEF Ready, Targets, Eligible
      <3>3. Eligible(ctl) \subseteq TurnedOn(ctl) /\ TurnedOn(ctl) \subseteq Ctrls
        BY DEF Eligible, TurnedOn
      <3>4. agg.inited => PullsOwed(pub, encRate) = agg.req
        BY <1>0 DEF Ready
      <3> HIDE DEF r
      <3>5. /\ r[1] \in Aggs /\ r[2] \in Pubs
            /\ r[1].inited = agg.inited /\ r[1].fpsAct = agg.fpsAct /\ r[1].bitAct = agg.bitAct
            /\ r[1].min = agg.min /\ r[1].wanted = agg.wanted
            /\ agg.wanted = agg.pinned => r[1].pinned = agg.pinned /\ r[2].pin = pub.pin
            /\ agg.inited /\ ~Inert(agg) => /\ r[1].req = Target(ctl, Eligible(ctl))
                                            /\ \A c \in Eligible(ctl) : r[2].check <= ctl[c].last + StaleTicks
            /\ agg.inited => \A x : PullsOwed(pub, x) = agg.req => PullsOwed(r[2], x) = r[1].req
        BY <1>0, <3>1, <3>2, Arbitrated
      <3>6. agg.inited => e = r[1].req
        BY <3>4, <3>5
      <3> HIDE DEF e
      <3>7. ASSUME agg.inited, ~frozen
            PROVE  \E s \in SUBSET Ctrls :
                      /\ s \subseteq TurnedOn(ctl) /\ Eligible(ctl) \subseteq s /\ r[1].req = Target(ctl, s)
                      /\ \A c \in s : r[2].check <= ctl[c].last + StaleTicks
        <4>1. Eligible(ctl) \in SUBSET Ctrls
          BY <3>3
        <4> QED
          BY <1>0, <3>3, <3>5, <3>7, <4>1
      <3> QED
        BY <3>5, <3>6, <3>7
    <2>2. CASE ~due
      <3>1. r = <<agg, pub>>
        BY <2>2
      <3> HIDE DEF r
      <3>2. r[1] = agg /\ q = pub
        BY <3>1
      <3>3. agg.inited => e = agg.req
        BY <1>0, <3>2 DEF Ready
      <3> HIDE DEF q, e
      <3> QED
        BY <1>0, <3>2, <3>3 DEF RcInv, RcWorst, Worst
    <2> QED
      BY <2>1, <2>2
  <1> HIDE DEF q, r, due
  <1>3. e \in Nat
    BY <1>0, <1>2 DEF PullsOwed, Pubs
  <1> HIDE DEF e
  <1>4. pub' \in Pubs /\ pub'.rate = 0 /\ pub'.pin = q.pin /\ pub'.check = q.check
    BY <1>1, <1>2 DEF Pubs
  <1>5. RcTypes'
    BY <1>0, <1>1, <1>2, <1>3, <1>4 DEF RcTypes
  <1>6. Ready(agg, ctl, pub, encRate, loose)'
    <2>1. agg'.inited => agg'.min >= 1 /\ PullsOwed(pub', encRate') = agg'.req
      BY <1>0, <1>1, <1>2, <1>4 DEF Ready, PullsOwed
    <2>2. ~loose => agg'.wanted = agg'.pinned /\ pub'.pin = -1
      BY <1>0, <1>1, <1>2, <1>4 DEF Ready
    <2>3. \A c \in Ctrls : ctl[c].last <= clock /\ Targets(agg', ctl[c])
      BY <1>0, <1>1, <1>2 DEF Ready, Targets
    <2>4. ASSUME ~loose, NEW c \in Ctrls
          PROVE  Fits(agg', ctl[c])
      <3>1. Fits(agg, ctl[c]) /\ agg'.min = agg.min /\ agg'.pinned = agg.pinned /\ agg'.inited = agg.inited
        BY <1>0, <1>1, <1>2, <2>4 DEF Ready
      <3> QED
        BY <3>1 DEF Fits, RungBitrate, EffMax, FloorOf
    <2>5. (agg.inited => agg.min >= 1 /\ PullsOwed(pub, encRate) = agg.req)'
      BY <2>1 DEF PullsOwed
    <2>6. (\A c \in Ctrls : ctl[c].last <= clock /\ Targets(agg, ctl[c]))'
      BY <1>1, <2>3 DEF Targets
    <2>7. (~loose => \A c \in Ctrls : Fits(agg, ctl[c]))'
      BY <1>1, <2>4 DEF Fits, RungBitrate, EffMax, FloorOf
    <2>8. (~loose => agg.wanted = agg.pinned /\ pub.pin = -1)'
      BY <1>1, <2>2
    <2> QED
      BY <2>5, <2>6, <2>7, <2>8 DEF Ready
  <1>7. Inert(agg)' => frozen'
    BY <1>0, <1>1, <1>2 DEF Inert
  <1>8. RcWorst'
    <2>1. ASSUME agg.inited, ~frozen, ~loose
          PROVE  \E s \in SUBSET Ctrls : Worst(agg, ctl, pub, s)'
      <3>1. PICK s \in SUBSET Ctrls :
              /\ s \subseteq TurnedOn(ctl) /\ Eligible(ctl) \subseteq s /\ r[1].req = Target(ctl, s)
              /\ \A c \in s : q.check <= ctl[c].last + StaleTicks
        BY <1>2, <2>1
      <3>2. /\ TurnedOn(ctl)' = TurnedOn(ctl) /\ Eligible(ctl)' = Eligible(ctl) /\ Target(ctl, s)' = Target(ctl, s)
            /\ agg'.req = r[1].req /\ pub'.check = q.check /\ ctl' = ctl
        BY <1>1, <1>4 DEF TurnedOn, Eligible, IsStale, Target
      <3> HIDE DEF TurnedOn, Eligible, Target
      <3>3. Worst(agg, ctl, pub, s)'
        BY <3>1, <3>2 DEF Worst
      <3> QED
        BY <3>3
    <2> QED
      BY <1>1, <1>2, <2>1 DEF RcWorst
  <1> QED
    BY <1>5, <1>6, <1>7, <1>8 DEF RcInv

\* Time passes: fewer controllers count.
LEMMA RcTickInv ==
  ASSUME RcInv, RcTick
  PROVE  RcInv'
  <1>0. RcTypes /\ Ready(agg, ctl, pub, encRate, loose) /\ clock' = clock + 1 /\ clock \in Nat
    BY DEF RcInv, RcTypes, RcTick
  <1>1. /\ agg' = agg /\ ctl' = ctl /\ pub' = pub /\ encRate' = encRate
        /\ frozen' = frozen /\ loose' = loose
    BY DEF RcTick
  <1>2. RcTypes'
    BY <1>0, <1>1 DEF RcTypes
  <1>3. \A c \in Ctrls : ctl[c].last \in Nat /\ (ctl[c].last <= clock => ctl[c].last <= clock')
    BY <1>0 DEF RcTypes, Recs
  <1>4. Ready(agg, ctl, pub, encRate, loose)'
    BY <1>0, <1>1, <1>3 DEF Ready, Targets, Fits, PullsOwed, RungBitrate, EffMax, FloorOf
  <1>5. Inert(agg)' => frozen'
    BY <1>1 DEF RcInv, Inert
  <1>6. ASSUME NEW c \in Ctrls, IsStale(ctl[c])
        PROVE  IsStale(ctl[c])'
    BY <1>0, <1>1, <1>3, <1>6, RcConstants DEF IsStale
  <1>7. Eligible(ctl)' \subseteq Eligible(ctl)
    BY <1>1, <1>6 DEF Eligible
  <1>8. \A s : Worst(agg, ctl, pub, s) => Worst(agg, ctl, pub, s)'
    BY <1>1, <1>7 DEF Worst, TurnedOn, Target
  <1>9. RcWorst'
    BY <1>1, <1>8 DEF RcInv, RcWorst
  <1> QED
    BY <1>2, <1>4, <1>5, <1>9 DEF RcInv

\* Nothing happens.
LEMMA RcStutters ==
  ASSUME RcInv, UNCHANGED rcVars
  PROVE  RcInv'
  <1>0. /\ agg' = agg /\ ctl' = ctl /\ pub' = pub /\ encRate' = encRate /\ clock' = clock
        /\ frozen' = frozen /\ loose' = loose
    BY DEF rcVars
  <1>1. RcTypes'
    BY <1>0 DEF RcInv, RcTypes
  <1>2. Ready(agg, ctl, pub, encRate, loose)'
    BY <1>0 DEF RcInv, Ready, Targets, Fits, PullsOwed, RungBitrate, EffMax, FloorOf
  <1>3. Inert(agg)' => frozen'
    BY <1>0 DEF RcInv, Inert
  <1>4. \A s : Worst(agg, ctl, pub, s) => Worst(agg, ctl, pub, s)'
    BY <1>0 DEF Worst, TurnedOn, Target, Eligible, IsStale
  <1>5. RcWorst'
    BY <1>0, <1>4 DEF RcInv, RcWorst
  <1> QED
    BY <1>1, <1>2, <1>3, <1>5 DEF RcInv

----------------------------------------------------------------------------
(* The theorems.                                                           *)

\* The invariant says what the encoder is asked for.
LEMMA InvReaches == RcInv => RequestReaches
  BY DEF RcInv, Ready, PullsOwed, RequestReaches

LEMMA InvWorst == RcInv => WorstWins
  <1> SUFFICES ASSUME RcInv, agg.inited, ~frozen, ~loose
               PROVE  LET on == {c \in Ctrls : ctl[c].used /\ ctl[c].on}
                          es == Eligible(ctl) IN
                      \/ es = {} /\ agg.req = MaxRate
                      \/ es # {} /\ agg.req = Min({ctl[c].bps : c \in es})
                      \/ clock >= pub.check /\ \E s \in SUBSET on :
                           es \subseteq s /\ s # {} /\ agg.req = Min({ctl[c].bps : c \in s})
    BY DEF WorstWins
  <1>1. PICK s \in SUBSET Ctrls : Worst(agg, ctl, pub, s)
    BY DEF RcInv, RcWorst
  <1>2. CASE s = Eligible(ctl)
    BY <1>1, <1>2 DEF Worst, Target
  <1>3. CASE s # Eligible(ctl)
    <2>1. PICK d \in s : d \notin Eligible(ctl)
      BY <1>1, <1>3 DEF Worst
    <2>2. d \in Ctrls /\ IsStale(ctl[d]) /\ pub.check <= ctl[d].last + StaleTicks
      BY <1>1, <2>1 DEF Worst, TurnedOn, Eligible
    <2>3. clock >= pub.check
      <3>1. ctl[d].last \in Nat /\ pub.check \in Nat /\ clock \in Nat
        BY <2>2 DEF RcInv, RcTypes, Recs, Pubs
      <3> QED
        BY <2>2, <3>1, RcConstants DEF IsStale
    <2>4. s # {} /\ agg.req = Min({ctl[c].bps : c \in s}) /\ Eligible(ctl) \subseteq s
      BY <1>1, <2>1 DEF Worst, Target
    <2>5. s \in SUBSET {c \in Ctrls : ctl[c].used /\ ctl[c].on}
      BY <1>1 DEF Worst, TurnedOn
    <2> QED
      BY <2>3, <2>4, <2>5
  <1> QED
    BY <1>2, <1>3

LEMMA InvCeiling == RcInv /\ EstimatesPayLastRung => CeilingRespected
  BY DEF RcInv, Ready, Fits, CeilingRespected

\* The request and the targets are right after every operation, every report, every pull of
\* the encoder task and at every time, for every ladder that falls and any number of sinks.
THEOREM RateInductive == RcSpec => []RcInv
  <1>1. RcInit => RcInv
    BY RcInvInit
  <1>2. RcInv /\ [RcNext]_rcVars => RcInv'
    <2> SUFFICES ASSUME RcInv, [RcNext]_rcVars
                 PROVE  RcInv'
      OBVIOUS
    <2>1. ASSUME NEW b \in BOOLEAN, RateInit(b) \/ SetActuable(b) \/ SetPin(b, TRUE)
          PROVE  RcInv'
      BY <2>1, RateInitInv, SetActuableInv, SetPinInv
    <2>2. ASSUME NEW c \in Ctrls, Create(c) \/ Destroy(c) \/ Enable(c)
          PROVE  RcInv'
      BY <2>2, CreateInv, DestroyInv, EnableInv
    <2>3. ASSUME NEW c \in Senders, ReportSend(c) \/ \E b \in Ceilings : SetCeiling(c, b)
          PROVE  RcInv'
      <3>1. c \in Ctrls
        BY DEF Ctrls
      <3> QED
        BY <2>3, <3>1, ReportSendInv, SetCeilingInv
    <2>4. ASSUME NEW c \in Queuers, ReportQueue(c)
          PROVE  RcInv'
      <3>1. c \in Ctrls
        BY DEF Ctrls
      <3> QED
        BY <2>4, <3>1, ReportQueueInv
    <2>5. ASSUME NEW m \in MinRates, SetMin(m)
          PROVE  RcInv'
      BY <2>5, SetMinInv
    <2>6. CASE PullBitrate
      BY <2>6, PullBitrateInv
    <2>7. CASE PullPin
      BY <2>7, PullPinInv
    <2>8. CASE RcTick
      BY <2>8, RcTickInv
    <2>9. CASE UNCHANGED rcVars
      BY <2>9, RcStutters
    <2> QED
      BY <2>1, <2>2, <2>3, <2>4, <2>5, <2>6, <2>7, <2>8, <2>9 DEF RcNext
  <1> QED
    BY <1>1, <1>2, PTL DEF RcSpec

\* No update is lost between the lock and the encoder's pull, and the worst sink wins
\* (vrate_rearbitrate(), video_rate_ctrl_pull_bitrate_bps()), whatever the estimates are.
THEOREM RateArbitrated == RcSpec => [](RequestReaches /\ WorstWins)
  <1>1. RcInv => RequestReaches /\ WorstWins
    BY InvReaches, InvWorst
  <1> QED
    BY <1>1, RateInductive, PTL

\* And no target exceeds its estimate, where the estimates pay for the last rung of the
\* ladder (vrate_apply_level(), which stops there).
THEOREM RateCorrect == EstimatesPayLastRung => (RcSpec => []RateSound)
  <1> SUFFICES ASSUME EstimatesPayLastRung
               PROVE  RcSpec => []RateSound
    OBVIOUS
  <1>1. RcInv => RateSound
    BY InvReaches, InvWorst, InvCeiling DEF RateSound
  <1> QED
    BY <1>1, RateInductive, PTL

----------------------------------------------------------------------------
(* VideoPlayer: the gate and the queue.                                    *)

\* What is appended to a sequence comes last, and the rest stays where it is.
LEMMA AppendFacts ==
  ASSUME NEW S, NEW q \in Seq(S), NEW f \in S
  PROVE  /\ Append(q, f) \in Seq(S) /\ Len(q) \in Nat /\ Len(Append(q, f)) = Len(q) + 1
         /\ \A i \in 1 .. Len(q) : i \in 1 .. Len(q) + 1 /\ Append(q, f)[i] = q[i]
         /\ \A i \in 1 .. Len(q) + 1 :
              (i \in 1 .. Len(q) /\ Append(q, f)[i] = q[i]) \/ (i = Len(q) + 1 /\ Append(q, f)[i] = f)
         /\ Len(q) + 1 \in 1 .. Len(q) + 1 /\ Append(q, f)[Len(q) + 1] = f
  <1>1. Append(q, f) \in Seq(S) /\ Len(q) \in Nat /\ Len(Append(q, f)) = Len(q) + 1
    OBVIOUS
  <1>2. \A i \in 1 .. Len(q) : i \in 1 .. Len(q) + 1 /\ Append(q, f)[i] = q[i]
    OBVIOUS
  <1>3. Append(q, f)[Len(q) + 1] = f
    OBVIOUS
  <1>4. \A i \in 1 .. Len(q) + 1 : i \in 1 .. Len(q) \/ i = Len(q) + 1
    BY <1>1
  <1> QED
    BY <1>1, <1>2, <1>3, <1>4

VpFrame == [n : Int, key : BOOLEAN]
VpContext == [running : BOOLEAN, stopping : BOOLEAN, wait : BOOLEAN, dec : BOOLEAN]
VpTask == [pc : {"gone", "loop", "receive", "decode", "empty", "ending"}, f : VpFrame]
VpCall == [pc : {"idle", "room", "send"}, f : VpFrame]
VpTypeOK ==
  /\ vp \in VpContext /\ vq \in Seq(VpFrame) /\ dtask \in VpTask /\ rtp \in VpCall
  /\ vctl \in {"idle", "empty", "wake", "await"}
  /\ ref \in Int /\ got \in Nat

\* The task has a frame in hand while it decodes one or recovers from it, and none once it
\* is gone, as it is whenever the player does not run.
VpControl ==
  /\ dtask.pc \in {"decode", "empty"} => dtask.f.n \in 1 .. got
  /\ dtask.pc \notin {"decode", "empty"} => dtask.f = NoFrame
  /\ ~vp.running => dtask.pc = "gone" /\ vctl = "idle"

\* Frames are queued, taken and decoded in the order they came, and the first one let in
\* was a key frame; a decoder that is lost has taken none, and one that failed forgot all.
FirstWaits == got = 0 => vp.wait
TakenCame == Taken <= got
QueuedCame ==
  \A i \in 1 .. Len(vq) :
     vq[i] = Sentinel \/ (vq[i].n \in 1 .. got /\ Taken < vq[i].n /\ (vq[i].key \/ vq[i].n > 1))
QueuedInOrder ==
  \A i, j \in 1 .. Len(vq) : i < j /\ vq[i] # Sentinel /\ vq[j] # Sentinel => vq[i].n < vq[j].n
DecodedCame == dtask.pc = "decode" => (dtask.f.key \/ dtask.f.n > 1)
CallIsLast ==
  rtp.pc # "idle" =>
    /\ rtp.f.n = got /\ got > 0 /\ Taken < got /\ (rtp.f.key \/ got > 1)
    /\ \A i \in 1 .. Len(vq) : vq[i].n < got
LostTookNone == ~vp.dec \/ dtask.pc = "empty" => ref = 0
VpOrder ==
  FirstWaits /\ TakenCame /\ QueuedCame /\ QueuedInOrder /\ DecodedCame /\ CallIsLast /\ LostTookNone

\* While the gate is open, every frame on its way to the decoder finds the one it builds on
\* taken or queued before it, and so will the next to come; a queue that is to be emptied
\* after an error holds the key frame that opened the gate since.
QueuedKept == \A i \in 1 .. Len(vq) : vq[i] # Sentinel /\ ~vq[i].key => Kept(vq[i].n - 1)
CallKept == rtp.pc # "idle" /\ ~rtp.f.key => Kept(rtp.f.n - 1)
NextKept == rtp.pc = "idle" => Kept(got)
OpenedByKey == dtask.pc = "empty" => QueueHasKey(vq) \/ (rtp.pc # "idle" /\ rtp.f.key)
DecodesNext == dtask.pc = "decode" => dtask.f.key \/ ref = dtask.f.n - 1
VpChain ==
  /\ ~vp.wait => QueuedKept /\ CallKept /\ NextKept /\ OpenedByKey
  /\ DecodesNext

VpInv == /\ VpTypeOK /\ VpControl /\ VpOrder
         /\ ~stolen /\ ~reopened => ~smeared /\ VpChain

\* The records the steps make.
LEMMA VpRecords ==
  /\ \A v \in VpContext : \A b \in BOOLEAN :
       /\ [v EXCEPT !.wait = b] \in VpContext
       /\ [v EXCEPT !.stopping = TRUE] \in VpContext
       /\ [v EXCEPT !.running = FALSE] \in VpContext
       /\ [v EXCEPT !.stopping = FALSE, !.running = TRUE] \in VpContext
       /\ \A d \in BOOLEAN : [v EXCEPT !.dec = d, !.wait = b] \in VpContext
  /\ \A t \in VpTask : \A p \in {"loop", "receive", "empty", "ending"} : [t EXCEPT !.pc = p] \in VpTask
  /\ \A r \in VpCall : [r EXCEPT !.pc = "send"] \in VpCall
  /\ \A f \in VpFrame : /\ [pc |-> "decode", f |-> f] \in VpTask
                        /\ [pc |-> "room", f |-> f] \in VpCall
  /\ [pc |-> "loop", f |-> NoFrame] \in VpTask /\ [pc |-> "gone", f |-> NoFrame] \in VpTask
  /\ [pc |-> "idle", f |-> NoFrame] \in VpCall
  /\ \A n \in Int : \A key \in BOOLEAN : [n |-> n, key |-> key] \in VpFrame
  /\ NoFrame \in VpFrame /\ Sentinel \in VpFrame
  <1>1. NoFrame \in VpFrame /\ Sentinel \in VpFrame
    BY DEF VpFrame, NoFrame, Sentinel
  <1>2. \A n \in Int : \A key \in BOOLEAN : [n |-> n, key |-> key] \in VpFrame
    BY DEF VpFrame
  <1> QED
    BY <1>1, <1>2 DEF VpContext, VpTask, VpCall

\* The queues they make.
LEMMA VpQueues ==
  /\ <<>> \in Seq(VpFrame)
  /\ \A q \in Seq(VpFrame) : \A f \in VpFrame : Append(q, f) \in Seq(VpFrame)
  OBVIOUS

\* The values stay of their types.
LEMMA VpTypes ==
  ASSUME VpTypeOK, VpNext
  PROVE  VpTypeOK'
  <1> USE VpAssumption
  <1>1. CASE PlayChecks
    <2>1. PICK key \in BOOLEAN : IF vp.wait /\ ~key
                                 THEN UNCHANGED <<rtp, vp, reopened>>
                                 ELSE /\ rtp' = [pc |-> "room", f |-> [n |-> got + 1, key |-> key]]
                                      /\ vp' = [vp EXCEPT !.wait = @ /\ ~key]
                                      /\ reopened' = (reopened \/ (vp.wait /\ Orphaned))
      BY <1>1 DEF PlayChecks
    <2>2. PICK b \in BOOLEAN : b = (vp.wait /\ ~key)
      OBVIOUS
    <2>3. [n |-> got + 1, key |-> key] \in VpFrame
      <3>1. got + 1 \in Int
        BY DEF VpTypeOK
      <3> QED
        BY <3>1, VpRecords
    <2>4. vp' \in VpContext /\ rtp' \in VpCall
      <3>1. CASE vp.wait /\ ~key
        BY <2>1, <3>1 DEF VpTypeOK
      <3>2. CASE ~(vp.wait /\ ~key)
        <4>1. vp' = [vp EXCEPT !.wait = b]
          BY <2>1, <2>2, <3>2
        <4> QED
          BY <2>1, <2>3, <3>2, <4>1, VpRecords DEF VpTypeOK
      <3> QED
        BY <3>1, <3>2
    <2> QED
      BY <1>1, <2>4 DEF PlayChecks, VpTypeOK
  <1>2. CASE PlayMakesRoom
    BY <1>2, VpRecords, VpQueues DEF PlayMakesRoom, VpTypeOK
  <1>3. CASE PlaySends
    <2>1. rtp.f \in VpFrame /\ rtp' \in VpCall
      BY <1>3, VpRecords DEF PlaySends, VpTypeOK, VpCall
    <2>2. CASE Len(vq) < Depth /\ vq' = Append(vq, rtp.f) /\ UNCHANGED <<vp, errors>>
      BY <1>3, <2>1, <2>2, VpQueues DEF PlaySends, VpTypeOK
    <2>3. CASE vp' = [vp EXCEPT !.wait = TRUE] /\ UNCHANGED vq
      BY <1>3, <2>1, <2>3, VpRecords DEF PlaySends, VpTypeOK
    <2> QED
      BY <1>3, <2>2, <2>3 DEF PlaySends
  <1>4. CASE ClearBuffer
    BY <1>4, VpRecords, VpQueues DEF ClearBuffer, VpTypeOK
  <1>5. CASE TaskLoops
    BY <1>5, VpRecords, VpQueues DEF TaskLoops, VpTypeOK
  <1>6. CASE TaskReceives
    <2>1. Head(vq) \in VpFrame /\ Tail(vq) \in Seq(VpFrame)
      BY <1>6 DEF TaskReceives, VpTypeOK
    <2> QED
      BY <1>6, <2>1, VpRecords DEF TaskReceives, VpTypeOK
  <1>7. CASE TaskRecreates
    <2>1. vp' \in VpContext /\ dtask' \in VpTask /\ ref' = 0
      BY <1>7, VpRecords DEF TaskRecreates, VpTypeOK
    <2> QED
      BY <1>7, <2>1 DEF TaskRecreates, VpTypeOK
  <1>8. CASE TaskDecodes
    <2>1. dtask.f \in VpFrame /\ dtask.f.n \in Int
      BY DEF VpTypeOK, VpTask, VpFrame
    <2> QED
      BY <1>8, <2>1, VpRecords DEF TaskDecodes, VpTypeOK
  <1>9. CASE TaskFails
    <2>1. PICK remade \in BOOLEAN : vp' = [vp EXCEPT !.dec = remade, !.wait = TRUE]
      BY <1>9 DEF TaskFails
    <2>2. vp' \in VpContext /\ dtask' \in VpTask /\ ref' = 0
      <3>1. [vp EXCEPT !.dec = remade, !.wait = TRUE] \in VpContext
        BY VpRecords DEF VpTypeOK
      <3> QED
        BY <1>9, <2>1, <3>1, VpRecords DEF TaskFails, VpTypeOK
    <2> QED
      BY <1>9, <2>2 DEF TaskFails, VpTypeOK
  <1>10. CASE TaskEmpties
    BY <1>10, VpRecords, VpQueues DEF TaskEmpties, VpTypeOK
  <1>11. CASE TaskEnds
    BY <1>11, VpRecords, VpQueues DEF TaskEnds, VpTypeOK
  <1>12. CASE PlayerStart
    BY <1>12, VpRecords, VpQueues DEF PlayerStart, VpTypeOK
  <1>13. CASE StopAsks
    BY <1>13, VpRecords, VpQueues DEF StopAsks, VpTypeOK
  <1>14. CASE StopEmpties
    BY <1>14, VpRecords, VpQueues DEF StopEmpties, VpTypeOK
  <1>15. CASE StopWakes
    BY <1>15, VpRecords, VpQueues DEF StopWakes, VpTypeOK
  <1>16. CASE StopReturns
    BY <1>16, VpRecords, VpQueues DEF StopReturns, VpTypeOK
  <1> QED
    BY <1>1, <1>2, <1>3, <1>4, <1>5, <1>6, <1>7, <1>8, <1>9, <1>10, <1>11, <1>12, <1>13, <1>14, <1>15, <1>16 DEF VpNext, PlayStep, TaskStep, StopStep


\* What an arrival does, part by part; the lemmas after it say the same of the other steps.
LEMMA CheckParts ==
  ASSUME VpTypeOK, PlayChecks
  PROVE  /\ got' = got + 1 /\ UNCHANGED <<vq, dtask, ref, smeared, stolen, vctl>> /\ vp.running /\ rtp.pc = "idle"
         /\ \/ vp.wait /\ UNCHANGED <<rtp, vp, reopened>>
            \/ /\ rtp'.pc = "room" /\ rtp'.f.n = got + 1
               /\ vp'.dec = vp.dec /\ vp'.running = vp.running
               /\ rtp'.f.key \in BOOLEAN /\ (vp.wait => rtp'.f.key)
               /\ vp'.wait <=> vp.wait /\ ~rtp'.f.key
               /\ reopened' <=> reopened \/ (vp.wait /\ Orphaned)
  <1>1. PICK key \in BOOLEAN : IF vp.wait /\ ~key
                               THEN UNCHANGED <<rtp, vp, reopened>>
                               ELSE /\ rtp' = [pc |-> "room", f |-> [n |-> got + 1, key |-> key]]
                                    /\ vp' = [vp EXCEPT !.wait = @ /\ ~key]
                                    /\ reopened' = (reopened \/ (vp.wait /\ Orphaned))
    BY DEF PlayChecks
  <1>2. CASE vp.wait /\ ~key
    BY <1>1, <1>2 DEF PlayChecks
  <1>3. CASE ~(vp.wait /\ ~key)
    <2>1. /\ rtp' = [pc |-> "room", f |-> [n |-> got + 1, key |-> key]]
          /\ vp' = [vp EXCEPT !.wait = vp.wait /\ ~key]
          /\ reopened' = (reopened \/ (vp.wait /\ Orphaned))
      BY <1>1, <1>3
    <2>2. rtp'.pc = "room" /\ rtp'.f.n = got + 1 /\ rtp'.f.key = key
      BY <2>1
    <2>3. vp'.dec = vp.dec /\ vp'.running = vp.running /\ (vp'.wait <=> vp.wait /\ ~key)
      BY <2>1 DEF VpTypeOK, VpContext
    <2> QED
      BY <1>3, <2>1, <2>2, <2>3 DEF PlayChecks
  <1> QED
    BY <1>2, <1>3

LEMMA SendParts ==
  ASSUME VpTypeOK, PlaySends
  PROVE  /\ rtp.pc = "send" /\ rtp'.pc = "idle" /\ UNCHANGED <<dtask, vctl, ref, got, smeared, stolen, reopened>>
         /\ vp'.dec = vp.dec /\ vp'.running = vp.running
         /\ \/ /\ vp'.wait = vp.wait /\ vq' \in Seq(VpFrame) /\ Len(vq') = Len(vq) + 1
               /\ \A i \in 1 .. Len(vq) : i \in 1 .. Len(vq') /\ vq'[i] = vq[i]
               /\ \A i \in 1 .. Len(vq') :
                    (i \in 1 .. Len(vq) /\ vq'[i] = vq[i]) \/ (i = Len(vq) + 1 /\ vq'[i] = rtp.f)
               /\ Len(vq) + 1 \in 1 .. Len(vq') /\ vq'[Len(vq) + 1] = rtp.f
            \/ vp'.wait = TRUE /\ UNCHANGED vq
  <1>1. rtp.f \in VpFrame /\ rtp'.pc = "idle"
    BY DEF PlaySends, VpTypeOK, VpCall
  <1>2. CASE Len(vq) < Depth /\ vq' = Append(vq, rtp.f) /\ UNCHANGED <<vp, errors>>
    BY <1>1, <1>2, AppendFacts DEF PlaySends, VpTypeOK
  <1>3. CASE vp' = [vp EXCEPT !.wait = TRUE] /\ UNCHANGED vq
    BY <1>1, <1>3 DEF PlaySends, VpTypeOK, VpContext
  <1> QED
    BY <1>2, <1>3 DEF PlaySends

LEMMA RoomParts ==
  ASSUME VpTypeOK, PlayMakesRoom
  PROVE  /\ rtp.pc = "room" /\ UNCHANGED <<dtask, vctl, ref, got, smeared, stolen, reopened>>
         /\ vp'.dec = vp.dec /\ vp'.running = vp.running
         /\ \/ rtp'.pc = "send" /\ rtp'.f = rtp.f /\ vp'.wait = vp.wait /\ (vq' = vq \/ (rtp.f.key /\ vq' = <<>>))
            \/ rtp'.pc = "idle" /\ vp'.wait = TRUE /\ vq' = vq
  <1>1. CASE rtp' = [rtp EXCEPT !.pc = "send"] /\ UNCHANGED <<vp, vq>>
    BY <1>1 DEF PlayMakesRoom, VpTypeOK, VpCall
  <1>2. CASE rtp.f.key /\ rtp' = [rtp EXCEPT !.pc = "send"] /\ vq' = <<>> /\ UNCHANGED vp
    BY <1>2 DEF PlayMakesRoom, VpTypeOK, VpCall
  <1>3. CASE rtp' = [pc |-> "idle", f |-> NoFrame] /\ vp' = [vp EXCEPT !.wait = TRUE] /\ UNCHANGED vq
    BY <1>3 DEF PlayMakesRoom, VpTypeOK, VpContext
  <1> QED
    BY <1>1, <1>2, <1>3 DEF PlayMakesRoom

LEMMA ReceiveParts ==
  ASSUME VpTypeOK, TaskReceives
  PROVE  /\ dtask.pc = "receive" /\ UNCHANGED <<vp, rtp, vctl, ref, got, smeared, stolen, reopened>>
         /\ vq' \in Seq(VpFrame) /\ Len(vq) > 0 /\ Len(vq') = Len(vq) - 1 /\ Len(vq') \in Nat
         /\ \A i \in 1 .. Len(vq') : vq'[i] = vq[i + 1]
         /\ vq[1] \in VpFrame
         /\ \/ vq[1] = Sentinel /\ dtask'.pc = "ending" /\ dtask'.f = dtask.f
            \/ vq[1] # Sentinel /\ vp.wait /\ ~vq[1].key /\ dtask'.pc = "loop" /\ dtask'.f = dtask.f
            \/ /\ vq[1] # Sentinel /\ (vp.wait => vq[1].key)
               /\ dtask'.pc = "decode" /\ dtask'.f = vq[1]
  <1>1. /\ vq' = Tail(vq) /\ Head(vq) = vq[1] /\ vq[1] \in VpFrame /\ Len(vq) > 0
        /\ vq' \in Seq(VpFrame) /\ Len(vq') = Len(vq) - 1 /\ Len(vq') \in Nat
        /\ \A i \in 1 .. Len(vq') : vq'[i] = vq[i + 1]
    BY DEF TaskReceives, VpTypeOK
  <1>2. CASE Head(vq) = Sentinel
    BY <1>1, <1>2 DEF TaskReceives, VpTypeOK, VpTask
  <1>3. CASE Head(vq) # Sentinel /\ vp.wait /\ ~Head(vq).key
    BY <1>1, <1>3 DEF TaskReceives, VpTypeOK, VpTask
  <1>4. CASE Head(vq) # Sentinel /\ ~(vp.wait /\ ~Head(vq).key)
    BY <1>1, <1>4 DEF TaskReceives, VpTypeOK, VpTask
  <1> QED
    BY <1>2, <1>3, <1>4

LEMMA RecreateParts ==
  ASSUME VpTypeOK, TaskRecreates
  PROVE  /\ dtask.pc = "decode" /\ ~vp.dec /\ ref' = 0 /\ UNCHANGED <<vq, rtp, vctl, got, smeared, reopened>>
         /\ \/ vp'.dec = TRUE /\ vp'.wait = TRUE /\ vp'.running = vp.running /\ UNCHANGED <<dtask, stolen>>
            \/ dtask'.pc = "loop" /\ dtask'.f = NoFrame /\ UNCHANGED vp /\ (stolen' <=> stolen \/ ~vp.wait)
  <1>1. CASE vp' = [vp EXCEPT !.dec = TRUE, !.wait = TRUE] /\ UNCHANGED <<dtask, errors, stolen>>
    BY <1>1 DEF TaskRecreates, VpTypeOK, VpContext
  <1>2. CASE dtask' = [pc |-> "loop", f |-> NoFrame] /\ UNCHANGED vp /\ stolen' = (stolen \/ ~vp.wait)
    BY <1>2 DEF TaskRecreates
  <1> QED
    BY <1>1, <1>2 DEF TaskRecreates


LEMMA FailParts ==
  ASSUME VpTypeOK, TaskFails
  PROVE  /\ dtask.pc = "decode" /\ vp.dec /\ ref' = 0 /\ vp'.wait = TRUE /\ vp'.running = vp.running
         /\ dtask'.pc = "empty" /\ dtask'.f = dtask.f /\ (stolen' <=> stolen \/ rtp.pc # "idle")
         /\ UNCHANGED <<vq, rtp, vctl, got, smeared, reopened>>
  BY DEF TaskFails, VpTypeOK, VpContext, VpTask

LEMMA ClearParts ==
  ASSUME VpTypeOK, ClearBuffer
  PROVE  /\ vq' = <<>> /\ rtp.pc = "idle" /\ vp.running /\ vp'.wait = TRUE /\ vp'.running = vp.running /\ vp'.dec = vp.dec
         /\ UNCHANGED <<dtask, rtp, vctl, ref, got, smeared, stolen, reopened>>
  BY DEF ClearBuffer, VpTypeOK, VpContext

LEMMA LoopParts ==
  ASSUME VpTypeOK, TaskLoops
  PROVE  /\ dtask.pc = "loop" /\ dtask'.f = dtask.f /\ dtask'.pc \in {"ending", "receive"}
         /\ UNCHANGED <<vp, vq, rtp, vctl, ref, got, smeared, stolen, reopened>>
  BY DEF TaskLoops, VpTypeOK, VpTask

LEMMA StartParts ==
  ASSUME VpTypeOK, PlayerStart
  PROVE  /\ vctl = "idle" /\ ~vp.running /\ rtp.pc = "idle" /\ vp'.running = TRUE /\ vp'.wait = vp.wait /\ vp'.dec = vp.dec
         /\ dtask'.pc = "loop" /\ dtask'.f = NoFrame
         /\ UNCHANGED <<vq, rtp, vctl, ref, got, smeared, stolen, reopened>>
  BY DEF PlayerStart, VpTypeOK, VpContext, VpTask

LEMMA AskParts ==
  ASSUME VpTypeOK, StopAsks
  PROVE  /\ vctl = "idle" /\ vp.running /\ vp'.running = vp.running /\ vp'.wait = vp.wait /\ vp'.dec = vp.dec
         /\ UNCHANGED <<vq, dtask, rtp, ref, got, smeared, stolen, reopened>>
  BY DEF StopAsks, VpTypeOK, VpContext

LEMMA WakeParts ==
  ASSUME VpTypeOK, StopWakes
  PROVE  /\ UNCHANGED <<vp, dtask, rtp, ref, got, smeared, stolen, reopened>> /\ vctl = "wake"
         /\ vq' \in Seq(VpFrame) /\ Len(vq') = Len(vq) + 1
         /\ \A i \in 1 .. Len(vq) : i \in 1 .. Len(vq') /\ vq'[i] = vq[i]
         /\ \A i \in 1 .. Len(vq') :
              (i \in 1 .. Len(vq) /\ vq'[i] = vq[i]) \/ (i = Len(vq) + 1 /\ vq'[i] = Sentinel)
  <1>1. Sentinel \in VpFrame /\ vq' = Append(vq, Sentinel)
    BY VpRecords DEF StopWakes
  <1> QED
    BY <1>1, AppendFacts DEF StopWakes, VpTypeOK

LEMMA ReturnParts ==
  ASSUME VpTypeOK, StopReturns
  PROVE  /\ dtask.pc = "gone" /\ vp'.running = FALSE /\ vp'.wait = vp.wait /\ vp'.dec = vp.dec /\ vctl' = "idle"
         /\ UNCHANGED <<vq, dtask, rtp, ref, got, smeared, stolen, reopened>>
  BY DEF StopReturns, VpTypeOK, VpContext

LEMMA GoneParts ==
  ASSUME TaskEmpties \/ TaskEnds
  PROVE  /\ dtask'.pc # "decode" /\ dtask'.pc # "empty" /\ dtask'.f = NoFrame
  BY DEF TaskEmpties, TaskEnds

LEMMA DecodeParts ==
  ASSUME TaskDecodes
  PROVE  /\ dtask.pc = "decode" /\ vp.dec /\ ref' = dtask.f.n /\ dtask'.pc = "loop" /\ dtask'.f = NoFrame
         /\ (smeared' <=> smeared \/ (~dtask.f.key /\ ref # dtask.f.n - 1))
         /\ UNCHANGED <<vp, vq, rtp, vctl, got, stolen, reopened>>
  BY DEF TaskDecodes

\* The numbers a state holds.
LEMMA VpNumbers ==
  ASSUME VpTypeOK
  PROVE  /\ ref \in Int /\ got \in Nat /\ Len(vq) \in Nat /\ dtask.f.n \in Int /\ rtp.f.n \in Int
         /\ \A i \in 1 .. Len(vq) : vq[i].n \in Int
         /\ NoFrame.n = 0 /\ Len(<<>>) = 0 /\ Sentinel.n = -1 /\ ~Sentinel.key
         /\ dtask.pc \in {"gone", "loop", "receive", "decode", "empty", "ending"}
         /\ rtp.pc \in {"idle", "room", "send"}
  <1>1. ASSUME NEW i \in 1 .. Len(vq)
        PROVE  vq[i].n \in Int
    <2>1. vq[i] \in VpFrame
      BY DEF VpTypeOK
    <2> QED
      BY <2>1 DEF VpFrame
  <1>2. dtask.f.n \in Int /\ rtp.f.n \in Int
    BY DEF VpTypeOK, VpFrame, VpTask, VpCall
  <1> QED
    BY <1>1, <1>2 DEF VpTypeOK, VpTask, VpCall, NoFrame, Sentinel

\* The task's place and its frame go together.
LEMMA VpControlStep ==
  ASSUME VpTypeOK, VpControl, VpOrder, VpNext
  PROVE  VpControl'
  <1> USE VpAssumption
  <1>1. CASE PlayChecks
    BY <1>1, CheckParts, VpNumbers DEF VpControl
  <1>2. CASE PlayMakesRoom
    BY <1>2, RoomParts, VpNumbers DEF VpControl
  <1>3. CASE PlaySends
    BY <1>3, SendParts, VpNumbers DEF VpControl
  <1>4. CASE ClearBuffer
    BY <1>4, ClearParts, VpNumbers DEF VpControl
  <1>5. CASE TaskLoops
    BY <1>5, LoopParts, VpNumbers DEF VpControl
  <1>6. CASE TaskReceives
    <2>1. \/ dtask'.pc \in {"ending", "loop"} /\ dtask'.f = dtask.f
          \/ dtask'.pc = "decode" /\ dtask'.f.n \in 1 .. got
      <3>1. vq[1] # Sentinel => vq[1].n \in 1 .. got
        BY <1>6, ReceiveParts, VpNumbers DEF VpOrder, QueuedCame
      <3> QED
        BY <1>6, <3>1, ReceiveParts
    <2>2. dtask.pc = "receive" /\ got' = got /\ vp' = vp /\ vctl' = vctl
      BY <1>6, ReceiveParts
    <2> QED
      BY <2>1, <2>2 DEF VpControl
  <1>7. CASE TaskRecreates
    BY <1>7, RecreateParts, VpNumbers DEF VpControl
  <1>8. CASE TaskDecodes
    BY <1>8, DecodeParts, VpNumbers DEF VpControl
  <1>9. CASE TaskFails
    BY <1>9, FailParts, VpNumbers DEF VpControl
  <1>10. CASE TaskEmpties
    BY <1>10, GoneParts, VpNumbers DEF TaskEmpties, VpControl
  <1>11. CASE TaskEnds
    BY <1>11, GoneParts, VpNumbers DEF TaskEnds, VpControl
  <1>12. CASE PlayerStart
    BY <1>12, StartParts, VpNumbers DEF VpControl
  <1>13. CASE StopAsks
    BY <1>13, AskParts, VpNumbers DEF VpControl
  <1>14. CASE StopEmpties
    BY <1>14, VpNumbers DEF StopEmpties, VpControl
  <1>15. CASE StopWakes
    BY <1>15, WakeParts, VpNumbers DEF VpControl
  <1>16. CASE StopReturns
    BY <1>16, ReturnParts, VpNumbers DEF VpControl
  <1> QED
    BY <1>1, <1>2, <1>3, <1>4, <1>5, <1>6, <1>7, <1>8, <1>9, <1>10, <1>11, <1>12, <1>13, <1>14, <1>15, <1>16 DEF VpNext, PlayStep, TaskStep, StopStep

\* No step lets frames overtake each other.
LEMMA VpOrderStep ==
  ASSUME VpTypeOK, VpTypeOK', VpControl, VpControl', VpOrder, VpNext
  PROVE  VpOrder'
  <1> USE VpAssumption
  <1>1. CASE PlayChecks
    BY <1>1, CheckParts, VpNumbers DEF VpControl, VpOrder, FirstWaits, TakenCame, QueuedCame, QueuedInOrder, DecodedCame, CallIsLast, LostTookNone, Taken
  <1>2. CASE PlayMakesRoom
    <2>1. FirstWaits'
      BY <1>2, RoomParts, VpNumbers DEF FirstWaits, VpControl, VpOrder, FirstWaits, TakenCame, QueuedCame, QueuedInOrder, DecodedCame, CallIsLast, LostTookNone, Taken
    <2>2. TakenCame'
      BY <1>2, RoomParts, VpNumbers DEF TakenCame, VpControl, VpOrder, FirstWaits, TakenCame, QueuedCame, QueuedInOrder, DecodedCame, CallIsLast, LostTookNone, Taken
    <2>3. QueuedCame'
      <3>1. (vq' = vq \/ vq' = <<>>) /\ UNCHANGED <<dtask, ref, got>>
        BY <1>2, RoomParts
      <3>2. CASE vq' = vq
        BY <3>1, <3>2 DEF VpOrder, QueuedCame, Taken
      <3>3. CASE vq' = <<>>
        BY <3>3 DEF QueuedCame
      <3> QED
        BY <3>1, <3>2, <3>3
    <2>4. QueuedInOrder'
      <3>1. vq' = vq \/ vq' = <<>>
        BY <1>2, RoomParts
      <3>2. CASE vq' = vq
        BY <3>1, <3>2 DEF VpOrder, QueuedInOrder
      <3>3. CASE vq' = <<>>
        BY <3>3 DEF QueuedInOrder
      <3> QED
        BY <3>1, <3>2, <3>3
    <2>5. DecodedCame'
      BY <1>2, RoomParts, VpNumbers DEF DecodedCame, VpControl, VpOrder, FirstWaits, TakenCame, QueuedCame, QueuedInOrder, DecodedCame, CallIsLast, LostTookNone, Taken
    <2>6. CallIsLast'
      <3>1. rtp'.pc # "idle" => rtp'.f = rtp.f /\ rtp.pc = "room" /\ (vq' = vq \/ vq' = <<>>)
        BY <1>2, RoomParts
      <3>2. Taken' = Taken /\ got' = got
        BY <1>2, RoomParts DEF Taken
      <3>3. rtp.pc = "room" => /\ rtp.f.n = got /\ got > 0 /\ Taken < got /\ (rtp.f.key \/ got > 1)
                               /\ \A i \in 1 .. Len(vq) : vq[i].n < got
        BY DEF VpOrder, CallIsLast
      <3>4. ASSUME rtp'.pc # "idle"
            PROVE  \A i \in 1 .. Len(vq') : vq'[i].n < got'
        <4>1. CASE vq' = vq
          BY <3>1, <3>2, <3>3, <3>4, <4>1
        <4>2. CASE vq' = <<>>
          BY <4>2
        <4> QED
          BY <3>1, <3>4, <4>1, <4>2
      <3> QED
        BY <3>1, <3>2, <3>3, <3>4 DEF CallIsLast
    <2>7. LostTookNone'
      BY <1>2, RoomParts, VpNumbers DEF LostTookNone, VpControl, VpOrder, FirstWaits, TakenCame, QueuedCame, QueuedInOrder, DecodedCame, CallIsLast, LostTookNone, Taken
    <2> QED
      BY <2>1, <2>2, <2>3, <2>4, <2>5, <2>6, <2>7 DEF VpOrder
  <1>3. CASE PlaySends
    <2>1. FirstWaits'
      BY <1>3, SendParts, VpNumbers DEF FirstWaits, VpControl, VpOrder, FirstWaits, TakenCame, QueuedCame, QueuedInOrder, DecodedCame, CallIsLast, LostTookNone, Taken
    <2>2. TakenCame'
      BY <1>3, SendParts, VpNumbers DEF TakenCame, VpControl, VpOrder, FirstWaits, TakenCame, QueuedCame, QueuedInOrder, DecodedCame, CallIsLast, LostTookNone, Taken
    <2>3. QueuedCame'
      <3>1. ASSUME NEW i \in 1 .. Len(vq'), vq'[i] # Sentinel
            PROVE  vq'[i].n \in 1 .. got' /\ Taken' < vq'[i].n /\ (vq'[i].key \/ vq'[i].n > 1)
        <4>1. Taken' = Taken /\ got' = got
          BY <1>3, SendParts DEF Taken
        <4>2. CASE i \in 1 .. Len(vq) /\ vq'[i] = vq[i]
          BY <3>1, <4>1, <4>2 DEF VpOrder, QueuedCame
        <4>3. CASE vq'[i] = rtp.f
          <5>1. rtp.f.n = got /\ got > 0 /\ Taken < got /\ (rtp.f.key \/ got > 1)
            BY <1>3, SendParts DEF VpOrder, CallIsLast
          <5> QED
            BY <4>1, <4>3, <5>1, VpNumbers
        <4> QED
          BY <1>3, <4>2, <4>3, SendParts, VpNumbers
      <3> QED
        BY <3>1 DEF QueuedCame
    <2>4. QueuedInOrder'
      <3>1. ASSUME NEW i \in 1 .. Len(vq'), NEW j \in 1 .. Len(vq'), i < j, vq'[i] # Sentinel, vq'[j] # Sentinel
            PROVE  vq'[i].n < vq'[j].n
        <4>1. CASE i \in 1 .. Len(vq) /\ j \in 1 .. Len(vq) /\ vq'[i] = vq[i] /\ vq'[j] = vq[j]
          BY <3>1, <4>1 DEF VpOrder, QueuedInOrder
        <4>2. CASE i \in 1 .. Len(vq) /\ vq'[i] = vq[i] /\ vq'[j] = rtp.f
          <5>1. rtp.f.n = got /\ vq[i].n < got
            BY <1>3, <4>2, SendParts DEF VpOrder, CallIsLast
          <5> QED
            BY <4>2, <5>1
        <4>3. CASE UNCHANGED vq
          BY <3>1, <4>3 DEF VpOrder, QueuedInOrder
        <4>4. CASE vq' # vq
          <5>1. /\ (i \in 1 .. Len(vq) /\ vq'[i] = vq[i]) \/ (i = Len(vq) + 1 /\ vq'[i] = rtp.f)
                /\ (j \in 1 .. Len(vq) /\ vq'[j] = vq[j]) \/ (j = Len(vq) + 1 /\ vq'[j] = rtp.f)
            BY <1>3, <4>4, SendParts
          <5>2. ~(i = Len(vq) + 1 /\ j \in 1 .. Len(vq)) /\ ~(i = Len(vq) + 1 /\ j = Len(vq) + 1)
            BY <3>1, VpNumbers
          <5> QED
            BY <4>1, <4>2, <5>1, <5>2
        <4> QED
          BY <4>3, <4>4
      <3> QED
        BY <3>1 DEF QueuedInOrder
    <2>5. DecodedCame'
      BY <1>3, SendParts, VpNumbers DEF DecodedCame, VpControl, VpOrder, FirstWaits, TakenCame, QueuedCame, QueuedInOrder, DecodedCame, CallIsLast, LostTookNone, Taken
    <2>6. CallIsLast'
      BY <1>3, SendParts, VpNumbers DEF CallIsLast, VpControl, VpOrder, FirstWaits, TakenCame, QueuedCame, QueuedInOrder, DecodedCame, CallIsLast, LostTookNone, Taken
    <2>7. LostTookNone'
      BY <1>3, SendParts, VpNumbers DEF LostTookNone, VpControl, VpOrder, FirstWaits, TakenCame, QueuedCame, QueuedInOrder, DecodedCame, CallIsLast, LostTookNone, Taken
    <2> QED
      BY <2>1, <2>2, <2>3, <2>4, <2>5, <2>6, <2>7 DEF VpOrder
  <1>4. CASE ClearBuffer
    <2>1. FirstWaits'
      BY <1>4, ClearParts, VpNumbers DEF FirstWaits, VpControl, VpOrder, FirstWaits, TakenCame, QueuedCame, QueuedInOrder, DecodedCame, CallIsLast, LostTookNone, Taken
    <2>2. TakenCame'
      BY <1>4, ClearParts, VpNumbers DEF TakenCame, VpControl, VpOrder, FirstWaits, TakenCame, QueuedCame, QueuedInOrder, DecodedCame, CallIsLast, LostTookNone, Taken
    <2>3. QueuedCame'
      BY <1>4, ClearParts, VpNumbers DEF QueuedCame, VpControl, VpOrder, FirstWaits, TakenCame, QueuedCame, QueuedInOrder, DecodedCame, CallIsLast, LostTookNone, Taken
    <2>4. QueuedInOrder'
      BY <1>4, ClearParts, VpNumbers DEF QueuedInOrder, VpControl, VpOrder, FirstWaits, TakenCame, QueuedCame, QueuedInOrder, DecodedCame, CallIsLast, LostTookNone, Taken
    <2>5. DecodedCame'
      BY <1>4, ClearParts, VpNumbers DEF DecodedCame, VpControl, VpOrder, FirstWaits, TakenCame, QueuedCame, QueuedInOrder, DecodedCame, CallIsLast, LostTookNone, Taken
    <2>6. CallIsLast'
      BY <1>4, ClearParts, VpNumbers DEF CallIsLast, VpControl, VpOrder, FirstWaits, TakenCame, QueuedCame, QueuedInOrder, DecodedCame, CallIsLast, LostTookNone, Taken
    <2>7. LostTookNone'
      BY <1>4, ClearParts, VpNumbers DEF LostTookNone, VpControl, VpOrder, FirstWaits, TakenCame, QueuedCame, QueuedInOrder, DecodedCame, CallIsLast, LostTookNone, Taken
    <2> QED
      BY <2>1, <2>2, <2>3, <2>4, <2>5, <2>6, <2>7 DEF VpOrder
  <1>5. CASE TaskLoops
    BY <1>5, LoopParts, VpNumbers DEF VpControl, VpOrder, FirstWaits, TakenCame, QueuedCame, QueuedInOrder, DecodedCame, CallIsLast, LostTookNone, Taken
  <1>6. CASE TaskReceives
    <2>1. FirstWaits'
      BY <1>6, ReceiveParts, VpNumbers DEF FirstWaits, VpControl, VpOrder, FirstWaits, TakenCame, QueuedCame, QueuedInOrder, DecodedCame, CallIsLast, LostTookNone, Taken
    <2>2. TakenCame'
      BY <1>6, ReceiveParts, VpNumbers DEF TakenCame, VpControl, VpOrder, FirstWaits, TakenCame, QueuedCame, QueuedInOrder, DecodedCame, CallIsLast, LostTookNone, Taken
    <2>3. QueuedCame'
      <3>1. ASSUME NEW i \in 1 .. Len(vq'), vq'[i] # Sentinel
            PROVE  vq'[i].n \in 1 .. got' /\ Taken' < vq'[i].n /\ (vq'[i].key \/ vq'[i].n > 1)
        <4>1. i + 1 \in 1 .. Len(vq) /\ 1 \in 1 .. Len(vq) /\ vq'[i] = vq[i + 1] /\ got' = got
          BY <1>6, ReceiveParts, VpNumbers
        <4>2. vq[i + 1].n \in 1 .. got /\ Taken < vq[i + 1].n /\ (vq[i + 1].key \/ vq[i + 1].n > 1)
          BY <3>1, <4>1 DEF VpOrder, QueuedCame
        <4>3. vq[1] # Sentinel => vq[1].n < vq[i + 1].n
          BY <3>1, <4>1, 1 < i + 1 DEF VpOrder, QueuedInOrder
        <4>4. Taken' = Taken \/ (vq[1] # Sentinel /\ (Taken' = vq[1].n \/ Taken' = ref))
          BY <1>6, ReceiveParts DEF Taken
        <4>5. Taken = ref
          BY <1>6, ReceiveParts DEF Taken, VpControl
        <4> QED
          BY <4>1, <4>2, <4>3, <4>4, <4>5
      <3> QED
        BY <3>1 DEF QueuedCame
    <2>4. QueuedInOrder'
      <3>1. ASSUME NEW i \in 1 .. Len(vq'), NEW j \in 1 .. Len(vq'), i < j, vq'[i] # Sentinel, vq'[j] # Sentinel
            PROVE  vq'[i].n < vq'[j].n
        <4>1. /\ i + 1 \in 1 .. Len(vq) /\ vq'[i] = vq[i + 1] /\ j + 1 \in 1 .. Len(vq) /\ vq'[j] = vq[j + 1]
              /\ i + 1 < j + 1
          BY <1>6, <3>1, ReceiveParts, VpNumbers
        <4> QED
          BY <3>1, <4>1 DEF VpOrder, QueuedInOrder
      <3> QED
        BY <3>1 DEF QueuedInOrder
    <2>5. DecodedCame'
      BY <1>6, ReceiveParts, VpNumbers DEF DecodedCame, VpControl, VpOrder, FirstWaits, TakenCame, QueuedCame, QueuedInOrder, DecodedCame, CallIsLast, LostTookNone, Taken
    <2>6. CallIsLast'
      <3>1. /\ rtp' = rtp /\ got' = got /\ 1 \in 1 .. Len(vq)
            /\ \A i \in 1 .. Len(vq') : i + 1 \in 1 .. Len(vq) /\ vq'[i] = vq[i + 1]
        BY <1>6, ReceiveParts, VpNumbers
      <3>2. Taken' = Taken \/ Taken' = vq[1].n
        <4>1. Taken = ref
          BY <1>6, ReceiveParts DEF Taken, VpControl
        <4>2. Taken' = Taken \/ Taken' = vq[1].n \/ Taken' = ref
          BY <1>6, ReceiveParts DEF Taken
        <4> QED
          BY <4>1, <4>2
      <3>3. rtp.pc # "idle" => /\ rtp.f.n = got /\ got > 0 /\ Taken < got /\ (rtp.f.key \/ got > 1)
                               /\ \A i \in 1 .. Len(vq) : vq[i].n < got
        BY DEF VpOrder, CallIsLast
      <3> QED
        BY <3>1, <3>2, <3>3 DEF CallIsLast
    <2>7. LostTookNone'
      BY <1>6, ReceiveParts, VpNumbers DEF LostTookNone, VpControl, VpOrder, FirstWaits, TakenCame, QueuedCame, QueuedInOrder, DecodedCame, CallIsLast, LostTookNone, Taken
    <2> QED
      BY <2>1, <2>2, <2>3, <2>4, <2>5, <2>6, <2>7 DEF VpOrder
  <1>7. CASE TaskRecreates
    <2>1. FirstWaits'
      BY <1>7, RecreateParts, VpNumbers DEF FirstWaits, VpControl, VpOrder, FirstWaits, TakenCame, QueuedCame, QueuedInOrder, DecodedCame, CallIsLast, LostTookNone, Taken
    <2>2. TakenCame'
      BY <1>7, RecreateParts, VpNumbers DEF TakenCame, VpControl, VpOrder, FirstWaits, TakenCame, QueuedCame, QueuedInOrder, DecodedCame, CallIsLast, LostTookNone, Taken
    <2>3. QueuedCame'
      <3>1. vq' = vq /\ got' = got
        BY <1>7, RecreateParts
      <3>2. Taken' = Taken \/ (Taken' = 0)
        BY <1>7, RecreateParts DEF Taken, NoFrame
      <3> QED
        BY <3>1, <3>2, VpNumbers DEF VpOrder, QueuedCame
    <2>4. QueuedInOrder'
      BY <1>7, RecreateParts, VpNumbers DEF QueuedInOrder, VpControl, VpOrder, FirstWaits, TakenCame, QueuedCame, QueuedInOrder, DecodedCame, CallIsLast, LostTookNone, Taken
    <2>5. DecodedCame'
      BY <1>7, RecreateParts, VpNumbers DEF DecodedCame, VpControl, VpOrder, FirstWaits, TakenCame, QueuedCame, QueuedInOrder, DecodedCame, CallIsLast, LostTookNone, Taken
    <2>6. CallIsLast'
      BY <1>7, RecreateParts, VpNumbers DEF CallIsLast, VpControl, VpOrder, FirstWaits, TakenCame, QueuedCame, QueuedInOrder, DecodedCame, CallIsLast, LostTookNone, Taken
    <2>7. LostTookNone'
      BY <1>7, RecreateParts, VpNumbers DEF LostTookNone, VpControl, VpOrder, FirstWaits, TakenCame, QueuedCame, QueuedInOrder, DecodedCame, CallIsLast, LostTookNone, Taken
    <2> QED
      BY <2>1, <2>2, <2>3, <2>4, <2>5, <2>6, <2>7 DEF VpOrder
  <1>8. CASE TaskDecodes
    BY <1>8, DecodeParts, VpNumbers DEF VpControl, VpOrder, FirstWaits, TakenCame, QueuedCame, QueuedInOrder, DecodedCame, CallIsLast, LostTookNone, Taken
  <1>9. CASE TaskFails
    BY <1>9, FailParts, VpNumbers DEF VpControl, VpOrder, FirstWaits, TakenCame, QueuedCame, QueuedInOrder, DecodedCame, CallIsLast, LostTookNone, Taken
  <1>10. CASE TaskEmpties
    <2>1. FirstWaits'
      BY <1>10, GoneParts, VpNumbers DEF TaskEmpties, FirstWaits, VpControl, VpOrder, FirstWaits, TakenCame, QueuedCame, QueuedInOrder, DecodedCame, CallIsLast, LostTookNone, Taken
    <2>2. TakenCame'
      BY <1>10, GoneParts, VpNumbers DEF TaskEmpties, TakenCame, VpControl, VpOrder, FirstWaits, TakenCame, QueuedCame, QueuedInOrder, DecodedCame, CallIsLast, LostTookNone, Taken
    <2>3. QueuedCame'
      BY <1>10, GoneParts, VpNumbers DEF TaskEmpties, QueuedCame, VpControl, VpOrder, FirstWaits, TakenCame, QueuedCame, QueuedInOrder, DecodedCame, CallIsLast, LostTookNone, Taken
    <2>4. QueuedInOrder'
      BY <1>10, GoneParts, VpNumbers DEF TaskEmpties, QueuedInOrder, VpControl, VpOrder, FirstWaits, TakenCame, QueuedCame, QueuedInOrder, DecodedCame, CallIsLast, LostTookNone, Taken
    <2>5. DecodedCame'
      BY <1>10, GoneParts, VpNumbers DEF TaskEmpties, DecodedCame, VpControl, VpOrder, FirstWaits, TakenCame, QueuedCame, QueuedInOrder, DecodedCame, CallIsLast, LostTookNone, Taken
    <2>6. CallIsLast'
      BY <1>10, GoneParts, VpNumbers DEF TaskEmpties, CallIsLast, VpControl, VpOrder, FirstWaits, TakenCame, QueuedCame, QueuedInOrder, DecodedCame, CallIsLast, LostTookNone, Taken
    <2>7. LostTookNone'
      BY <1>10, GoneParts, VpNumbers DEF TaskEmpties, LostTookNone, VpControl, VpOrder, FirstWaits, TakenCame, QueuedCame, QueuedInOrder, DecodedCame, CallIsLast, LostTookNone, Taken
    <2> QED
      BY <2>1, <2>2, <2>3, <2>4, <2>5, <2>6, <2>7 DEF VpOrder
  <1>11. CASE TaskEnds
    BY <1>11, GoneParts, VpNumbers DEF TaskEnds, VpControl, VpOrder, FirstWaits, TakenCame, QueuedCame, QueuedInOrder, DecodedCame, CallIsLast, LostTookNone, Taken
  <1>12. CASE PlayerStart
    BY <1>12, StartParts, VpNumbers DEF VpControl, VpOrder, FirstWaits, TakenCame, QueuedCame, QueuedInOrder, DecodedCame, CallIsLast, LostTookNone, Taken
  <1>13. CASE StopAsks
    BY <1>13, AskParts, VpNumbers DEF VpControl, VpOrder, FirstWaits, TakenCame, QueuedCame, QueuedInOrder, DecodedCame, CallIsLast, LostTookNone, Taken
  <1>14. CASE StopEmpties
    BY <1>14, VpNumbers DEF StopEmpties, VpControl, VpOrder, FirstWaits, TakenCame, QueuedCame, QueuedInOrder, DecodedCame, CallIsLast, LostTookNone, Taken
  <1>15. CASE StopWakes
    <2>1. FirstWaits'
      BY <1>15, WakeParts, VpNumbers DEF FirstWaits, VpControl, VpOrder, FirstWaits, TakenCame, QueuedCame, QueuedInOrder, DecodedCame, CallIsLast, LostTookNone, Taken
    <2>2. TakenCame'
      BY <1>15, WakeParts, VpNumbers DEF TakenCame, VpControl, VpOrder, FirstWaits, TakenCame, QueuedCame, QueuedInOrder, DecodedCame, CallIsLast, LostTookNone, Taken
    <2>3. QueuedCame'
      BY <1>15, WakeParts, VpNumbers DEF QueuedCame, VpControl, VpOrder, FirstWaits, TakenCame, QueuedCame, QueuedInOrder, DecodedCame, CallIsLast, LostTookNone, Taken
    <2>4. QueuedInOrder'
      BY <1>15, WakeParts, VpNumbers DEF QueuedInOrder, VpControl, VpOrder, FirstWaits, TakenCame, QueuedCame, QueuedInOrder, DecodedCame, CallIsLast, LostTookNone, Taken
    <2>5. DecodedCame'
      BY <1>15, WakeParts, VpNumbers DEF DecodedCame, VpControl, VpOrder, FirstWaits, TakenCame, QueuedCame, QueuedInOrder, DecodedCame, CallIsLast, LostTookNone, Taken
    <2>6. CallIsLast'
      BY <1>15, WakeParts, VpNumbers DEF CallIsLast, VpControl, VpOrder, FirstWaits, TakenCame, QueuedCame, QueuedInOrder, DecodedCame, CallIsLast, LostTookNone, Taken
    <2>7. LostTookNone'
      BY <1>15, WakeParts, VpNumbers DEF LostTookNone, VpControl, VpOrder, FirstWaits, TakenCame, QueuedCame, QueuedInOrder, DecodedCame, CallIsLast, LostTookNone, Taken
    <2> QED
      BY <2>1, <2>2, <2>3, <2>4, <2>5, <2>6, <2>7 DEF VpOrder
  <1>16. CASE StopReturns
    BY <1>16, ReturnParts, VpNumbers DEF VpControl, VpOrder, FirstWaits, TakenCame, QueuedCame, QueuedInOrder, DecodedCame, CallIsLast, LostTookNone, Taken
  <1> QED
    BY <1>1, <1>2, <1>3, <1>4, <1>5, <1>6, <1>7, <1>8, <1>9, <1>10, <1>11, <1>12, <1>13, <1>14, <1>15, <1>16 DEF VpNext, PlayStep, TaskStep, StopStep

\* The histories stay.
LEMMA VpExcuses ==
  ASSUME VpTypeOK, VpNext
  PROVE  (stolen => stolen') /\ (reopened => reopened')
  <1>1. CASE PlayChecks
    BY <1>1, CheckParts
  <1>2. CASE PlayStep
    BY <1>2 DEF PlayStep, PlayMakesRoom, PlaySends
  <1>3. CASE TaskRecreates
    <2>1. (stolen' <=> stolen \/ ~vp.wait) \/ stolen' = stolen
      BY <1>3 , RecreateParts
    <2>2. reopened' = reopened
      BY <1>3, RecreateParts
    <2> QED
      BY <2>1, <2>2
  <1>4. CASE TaskFails
    BY <1>4, FailParts
  <1>5. CASE TaskEmpties \/ TaskEnds
    <2>1. CASE TaskEmpties
      BY <2>1 DEF TaskEmpties
    <2>2. CASE TaskEnds
      BY <2>2 DEF TaskEnds
    <2> QED
      BY <1>5, <2>1, <2>2
  <1>6. CASE TaskLoops \/ TaskReceives \/ TaskDecodes
    BY <1>6 DEF TaskLoops, TaskReceives, TaskDecodes
  <1>7. CASE StopStep
    <2>1. CASE StopEmpties
      BY <2>1 DEF StopEmpties
    <2>2. CASE StopWakes \/ StopReturns
      BY <2>2 DEF StopWakes, StopReturns
    <2> QED
      BY <1>7, <2>1, <2>2 DEF StopStep
  <1>8. CASE ClearBuffer \/ PlayerStart \/ StopAsks
    BY <1>8 DEF ClearBuffer, PlayerStart, StopAsks
  <1> QED
    BY <1>1, <1>2, <1>3, <1>4, <1>5, <1>6, <1>7, <1>8 DEF VpNext, TaskStep

\* As long as no drain or reset crosses a frame on its way and no orphan is queued when the
\* gate opens, the gate lets in only what the decoder can decode.
LEMMA VpChainStep ==
  ASSUME VpTypeOK, VpTypeOK', VpControl, VpControl', VpOrder, VpOrder', ~stolen /\ ~reopened => VpChain, VpNext,
         ~stolen', ~reopened'
  PROVE  VpChain'
  <1> USE VpAssumption
  <1>0. ~stolen /\ ~reopened /\ VpChain
    BY VpExcuses
  <1>1. CASE PlayChecks
    <2>1. /\ got' = got + 1 /\ UNCHANGED <<vq, dtask, ref>> /\ rtp.pc = "idle" /\ Taken' = Taken
      BY <1>1, CheckParts DEF Taken
    <2>2. DecodesNext'
      BY <1>0, <2>1 DEF VpChain, DecodesNext
    <2>3. SUFFICES ASSUME ~vp'.wait
                   PROVE  QueuedKept' /\ CallKept' /\ NextKept' /\ OpenedByKey'
      BY <2>2 DEF VpChain
    <2>4. /\ rtp'.pc = "room" /\ rtp'.f.n = got + 1 /\ (vp.wait => rtp'.f.key /\ ~Orphaned)
      BY <1>1, <2>3, CheckParts
    <2>5. QueuedKept
      BY <1>0, <2>4 DEF VpChain, Orphaned, QueuedKept
    <2>6. QueuedKept'
      BY <2>1, <2>5 DEF QueuedKept, Kept
    <2>7. CallKept'
      <3>1. ~rtp'.f.key => Kept(got)
        BY <1>0, <2>1, <2>4 DEF VpChain, NextKept
      <3>2. rtp'.f.n - 1 = got
        BY <2>4, VpNumbers
      <3> QED
        BY <2>1, <3>1, <3>2 DEF CallKept, Kept
    <2>8. OpenedByKey'
      BY <1>0, <2>1, <2>4 DEF VpChain, OpenedByKey
    <2> QED
      BY <2>4, <2>6, <2>7, <2>8 DEF NextKept
  <1>2. CASE PlayMakesRoom
    <2>1. /\ dtask' = dtask /\ ref' = ref /\ got' = got /\ (vq' = vq \/ (rtp.f.key /\ vq' = <<>>))
          /\ rtp.pc = "room"
          /\ (vp'.wait = vp.wait /\ rtp'.pc = "send" /\ rtp'.f = rtp.f) \/ vp'.wait = TRUE
      BY <1>2, RoomParts
    <2>2. DecodesNext'
      BY <1>0, <2>1 DEF VpChain, DecodesNext
    <2>3. CASE vq' = vq
      BY <1>0, <2>1, <2>2, <2>3
      DEF VpChain, QueuedKept, CallKept, NextKept, OpenedByKey, Kept, Taken, QueueHasKey
    <2>4. CASE rtp.f.key /\ vq' = <<>>
      BY <1>0, <2>1, <2>2, <2>4 DEF VpChain, QueuedKept, CallKept, NextKept, OpenedByKey
    <2> QED
      BY <2>1, <2>3, <2>4
  <1>3. CASE PlaySends
    <2>1. DecodesNext'
      BY <1>0, <1>3, SendParts DEF VpChain, DecodesNext
    <2>2. SUFFICES ASSUME ~vp'.wait
                   PROVE  QueuedKept' /\ CallKept' /\ NextKept' /\ OpenedByKey'
      BY <2>1 DEF VpChain
    <2>3. /\ vp'.wait = vp.wait /\ rtp.pc = "send" /\ rtp'.pc = "idle" /\ UNCHANGED <<dtask, ref, got>>
          /\ \A i \in 1 .. Len(vq) : i \in 1 .. Len(vq') /\ vq'[i] = vq[i]
          /\ \A i \in 1 .. Len(vq') :
               (i \in 1 .. Len(vq) /\ vq'[i] = vq[i]) \/ (i = Len(vq) + 1 /\ vq'[i] = rtp.f)
          /\ Len(vq) + 1 \in 1 .. Len(vq') /\ vq'[Len(vq) + 1] = rtp.f
      BY <1>3, <2>2, SendParts
    <2>4. QueuedKept /\ CallKept /\ OpenedByKey
      BY <1>0, <2>2, <2>3 DEF VpChain
    <2>5. ASSUME NEW m, Kept(m)
          PROVE  Kept(m)'
      BY <2>3, <2>5 DEF Kept, Taken
    <2>6. QueuedKept'
      BY <2>3, <2>4, <2>5 DEF QueuedKept, CallKept
    <2>7. NextKept'
      <3>1. rtp.f.n = got
        BY <2>3 DEF VpOrder, CallIsLast
      <3> QED
        BY <2>3, <3>1 DEF NextKept, Kept
    <2>8. OpenedByKey'
      BY <2>3, <2>4 DEF OpenedByKey, QueueHasKey
    <2> QED
      BY <2>3, <2>6, <2>7, <2>8 DEF CallKept
  <1>4. CASE ClearBuffer
    BY <1>0, <1>4, ClearParts, VpNumbers DEF VpControl, VpOrder, VpChain, Orphaned, Kept, Taken, QueueHasKey, FirstWaits, TakenCame, QueuedCame, QueuedInOrder, DecodedCame, CallIsLast, LostTookNone, QueuedKept, CallKept, NextKept, OpenedByKey, DecodesNext
  <1>5. CASE TaskLoops
    BY <1>0, <1>5, LoopParts, VpNumbers DEF VpControl, VpOrder, VpChain, Orphaned, Kept, Taken, QueueHasKey, FirstWaits, TakenCame, QueuedCame, QueuedInOrder, DecodedCame, CallIsLast, LostTookNone, QueuedKept, CallKept, NextKept, OpenedByKey, DecodesNext
  <1>6. CASE TaskReceives
    <2>1. /\ UNCHANGED <<vp, rtp, ref, got>> /\ 1 \in 1 .. Len(vq) /\ dtask.pc = "receive" /\ Taken = ref
          /\ \A i \in 1 .. Len(vq') : i + 1 \in 1 .. Len(vq) /\ vq'[i] = vq[i + 1]
          /\ \A j \in 1 .. Len(vq) : j = 1 \/ (j - 1 \in 1 .. Len(vq') /\ vq'[j - 1] = vq[j])
      <3>1. Taken = ref /\ dtask.pc = "receive"
        BY <1>6, ReceiveParts DEF VpControl, Taken
      <3>2. ASSUME NEW j \in 1 .. Len(vq), j # 1
            PROVE  j - 1 \in 1 .. Len(vq') /\ vq'[j - 1] = vq[j]
        <4>1. j - 1 \in 1 .. Len(vq')
          BY <1>6, <3>2, ReceiveParts, VpNumbers
        <4>2. vq'[j - 1] = vq[(j - 1) + 1]
          BY <1>6, <4>1, ReceiveParts
        <4> QED
          BY <4>1, <4>2
      <3>3. /\ UNCHANGED <<vp, rtp, ref, got>> /\ Len(vq) > 0 /\ Len(vq) \in Nat /\ Len(vq') = Len(vq) - 1
            /\ \A i \in 1 .. Len(vq') : vq'[i] = vq[i + 1]
        BY <1>6, ReceiveParts, VpNumbers
      <3>4. 1 \in 1 .. Len(vq) /\ \A i \in 1 .. Len(vq') : i + 1 \in 1 .. Len(vq) /\ vq'[i] = vq[i + 1]
        BY <3>3
      <3> QED
        BY <3>1, <3>2, <3>3, <3>4
    <2>2. vq[1] # Sentinel => /\ vq[1].n \in 1 .. got /\ ref < vq[1].n
                              /\ \A j \in 1 .. Len(vq) : j # 1 /\ vq[j] # Sentinel => vq[1].n < vq[j].n
      <3>1. SUFFICES ASSUME vq[1] # Sentinel
                     PROVE  /\ vq[1].n \in 1 .. got /\ ref < vq[1].n
                            /\ \A j \in 1 .. Len(vq) : j # 1 /\ vq[j] # Sentinel => vq[1].n < vq[j].n
        OBVIOUS
      <3>2. vq[1].n \in 1 .. got /\ ref < vq[1].n
        BY <2>1, <3>1 DEF VpOrder, QueuedCame
      <3>3. ASSUME NEW j \in 1 .. Len(vq), j # 1, vq[j] # Sentinel
            PROVE  vq[1].n < vq[j].n
        <4>1. 1 < j
          BY <3>3, VpNumbers
        <4> QED
          BY <2>1, <3>1, <3>3, <4>1 DEF VpOrder, QueuedInOrder
      <3> QED
        BY <3>2, <3>3
    <2>3. DecodesNext'
      <3>1. SUFFICES ASSUME dtask'.pc = "decode", ~dtask'.f.key
                     PROVE  ref' = dtask'.f.n - 1
        BY DEF DecodesNext
      <3>2. vq[1] # Sentinel /\ ~vq[1].key /\ ~vp.wait /\ dtask'.f = vq[1]
        BY <1>6, <3>1, ReceiveParts
      <3>3. Kept(vq[1].n - 1)
        BY <1>0, <2>1, <3>2 DEF VpChain, QueuedKept
      <3>4. ASSUME NEW j \in 1 .. Len(vq), vq[j].n = vq[1].n - 1
            PROVE  FALSE
        BY <2>1, <2>2, <3>2, <3>4, VpNumbers
      <3> QED
        BY <2>1, <3>2, <3>3, <3>4 DEF Kept
    <2>4. SUFFICES ASSUME ~vp.wait
                   PROVE  QueuedKept' /\ CallKept' /\ NextKept' /\ OpenedByKey'
      BY <2>1, <2>3 DEF VpChain
    <2>5. \/ vq[1] = Sentinel /\ Taken' = ref
          \/ vq[1] # Sentinel /\ (Taken' = vq[1].n \/ Taken' = ref)
      BY <1>6, <2>1, <2>4, ReceiveParts DEF VpControl, Taken
    <2>6. dtask'.pc # "empty" /\ (vq[1] # Sentinel => dtask'.f = vq[1])
      BY <1>6, <2>4, ReceiveParts
    <2>7. vq[1] # Sentinel => Taken' = vq[1].n
      BY <2>2, <2>6, VpNumbers DEF Taken
    <2> DEFINE KeptThen(m) == m = Taken' \/ \E j \in 1 .. Len(vq') : vq'[j].n = m
    <2>8. ASSUME NEW m \in Nat, Kept(m), vq[1] # Sentinel => vq[1].n <= m
          PROVE  KeptThen(m)
      <3>1. CASE m = Taken
        BY <2>1, <2>2, <2>5, <2>8, <3>1, VpNumbers
      <3>2. CASE m = vq[1].n
        BY <2>7, <2>8, <3>2, VpNumbers
      <3>3. ASSUME NEW j \in 1 .. Len(vq), j # 1, vq[j].n = m
            PROVE  KeptThen(m)
        BY <2>1, <3>3
      <3> QED
        BY <2>8, <3>1, <3>2, <3>3 DEF Kept
    <2> HIDE DEF KeptThen
    <2>9. QueuedKept /\ CallKept /\ NextKept
      BY <1>0, <2>4 DEF VpChain
    <2>10. QueuedKept'
      <3>1. ASSUME NEW i \in 1 .. Len(vq'), vq'[i] # Sentinel, ~vq'[i].key
            PROVE  KeptThen(vq'[i].n - 1)
        <4>1. i + 1 \in 1 .. Len(vq) /\ i + 1 # 1 /\ vq'[i] = vq[i + 1]
          BY <2>1, <3>1
        <4>2. Kept(vq[i + 1].n - 1) /\ vq[i + 1].n - 1 \in Nat
          BY <2>9, <3>1, <4>1 DEF QueuedKept, VpOrder, QueuedCame
        <4>3. vq[1] # Sentinel => vq[1].n <= vq[i + 1].n - 1
          BY <2>2, <3>1, <4>1, <4>2, VpNumbers
        <4> DEFINE m == vq[i + 1].n - 1
        <4>4. m \in Nat /\ Kept(m) /\ (vq[1] # Sentinel => vq[1].n <= m)
          BY <4>2, <4>3
        <4> HIDE DEF m
        <4>5. KeptThen(m)
          BY <2>8, <4>4
        <4> QED
          BY <4>1, <4>5 DEF m
      <3> QED
        BY <3>1 DEF QueuedKept, Kept, KeptThen
    <2>11. CallKept'
      <3>1. SUFFICES ASSUME rtp.pc # "idle", ~rtp.f.key
                     PROVE  KeptThen(got - 1)
        BY <2>1 DEF CallKept, Kept, KeptThen, VpOrder, CallIsLast
      <3> DEFINE m == got - 1
      <3>2. m \in Nat /\ Kept(m) /\ (vq[1] # Sentinel => vq[1].n <= m)
        BY <2>1, <2>9, <3>1, VpNumbers DEF CallKept, VpOrder, CallIsLast
      <3> HIDE DEF m
      <3>3. KeptThen(m)
        BY <2>8, <3>2
      <3> QED
        BY <2>1, <3>3 DEF m
    <2>12. NextKept'
      <3>1. rtp.pc = "idle" => KeptThen(got)
        BY <2>1, <2>2, <2>8, <2>9, VpNumbers DEF NextKept
      <3> QED
        BY <2>1, <3>1 DEF NextKept, Kept, KeptThen
    <2> QED
      BY <2>6, <2>10, <2>11, <2>12 DEF OpenedByKey
  <1>7. CASE TaskRecreates
    BY <1>0, <1>7, RecreateParts, VpNumbers DEF VpControl, VpOrder, VpChain, Orphaned, Kept, Taken, QueueHasKey, FirstWaits, TakenCame, QueuedCame, QueuedInOrder, DecodedCame, CallIsLast, LostTookNone, QueuedKept, CallKept, NextKept, OpenedByKey, DecodesNext
  <1>8. CASE TaskDecodes
    BY <1>0, <1>8, DecodeParts, VpNumbers DEF VpControl, VpOrder, VpChain, Orphaned, Kept, Taken, QueueHasKey, FirstWaits, TakenCame, QueuedCame, QueuedInOrder, DecodedCame, CallIsLast, LostTookNone, QueuedKept, CallKept, NextKept, OpenedByKey, DecodesNext
  <1>9. CASE TaskFails
    BY <1>0, <1>9, FailParts, VpNumbers DEF VpControl, VpOrder, VpChain, Orphaned, Kept, Taken, QueueHasKey, FirstWaits, TakenCame, QueuedCame, QueuedInOrder, DecodedCame, CallIsLast, LostTookNone, QueuedKept, CallKept, NextKept, OpenedByKey, DecodesNext
  <1>10. CASE TaskEmpties
    BY <1>0, <1>10, GoneParts, VpNumbers DEF TaskEmpties, VpControl, VpOrder, VpChain, Orphaned, Kept, Taken, QueueHasKey, FirstWaits, TakenCame, QueuedCame, QueuedInOrder, DecodedCame, CallIsLast, LostTookNone, QueuedKept, CallKept, NextKept, OpenedByKey, DecodesNext
  <1>11. CASE TaskEnds
    <2>1. vq = <<>> /\ vq' = <<>> /\ UNCHANGED <<vp, rtp, got, ref>>
      BY <1>11 DEF TaskEnds
    <2>2. Taken' = Taken /\ (dtask'.pc \in {"decode", "empty"} => dtask' = dtask)
      BY <1>11 DEF TaskEnds, Taken, VpControl
    <2> QED
      BY <1>0, <2>1, <2>2
      DEF VpChain, QueuedKept, CallKept, NextKept, OpenedByKey, DecodesNext, Kept, QueueHasKey
  <1>12. CASE PlayerStart
    BY <1>0, <1>12, StartParts, VpNumbers DEF VpControl, VpOrder, VpChain, Orphaned, Kept, Taken, QueueHasKey, FirstWaits, TakenCame, QueuedCame, QueuedInOrder, DecodedCame, CallIsLast, LostTookNone, QueuedKept, CallKept, NextKept, OpenedByKey, DecodesNext
  <1>13. CASE StopAsks
    BY <1>0, <1>13, AskParts, VpNumbers DEF VpControl, VpOrder, VpChain, Orphaned, Kept, Taken, QueueHasKey, FirstWaits, TakenCame, QueuedCame, QueuedInOrder, DecodedCame, CallIsLast, LostTookNone, QueuedKept, CallKept, NextKept, OpenedByKey, DecodesNext
  <1>14. CASE StopEmpties
    <2>1. vq = <<>> /\ vq' = <<>> /\ UNCHANGED <<vp, rtp, got, ref>>
      BY <1>14 DEF StopEmpties
    <2>2. Taken' = Taken /\ (dtask'.pc \in {"decode", "empty"} => dtask' = dtask)
      BY <1>14 DEF StopEmpties, Taken, VpControl
    <2> QED
      BY <1>0, <2>1, <2>2
      DEF VpChain, QueuedKept, CallKept, NextKept, OpenedByKey, DecodesNext, Kept, QueueHasKey
  <1>15. CASE StopWakes
    <2>1. /\ UNCHANGED <<vp, dtask, rtp, ref, got>>
          /\ \A i \in 1 .. Len(vq) : i \in 1 .. Len(vq') /\ vq'[i] = vq[i]
          /\ \A i \in 1 .. Len(vq') :
               (i \in 1 .. Len(vq) /\ vq'[i] = vq[i]) \/ (i = Len(vq) + 1 /\ vq'[i] = Sentinel)
      BY <1>15, WakeParts
    <2>2. ASSUME NEW m, Kept(m)
          PROVE  Kept(m)'
      BY <2>1, <2>2 DEF Kept, Taken
    <2>3. DecodesNext' /\ (OpenedByKey => OpenedByKey')
      BY <1>0, <2>1 DEF VpChain, DecodesNext, OpenedByKey, QueueHasKey
    <2>4. (QueuedKept => QueuedKept') /\ (CallKept => CallKept') /\ (NextKept => NextKept')
      BY <2>1, <2>2 DEF QueuedKept, CallKept, NextKept
    <2> QED
      BY <1>0, <2>1, <2>3, <2>4 DEF VpChain
  <1>16. CASE StopReturns
    BY <1>0, <1>16, ReturnParts, VpNumbers DEF VpControl, VpOrder, VpChain, Orphaned, Kept, Taken, QueueHasKey, FirstWaits, TakenCame, QueuedCame, QueuedInOrder, DecodedCame, CallIsLast, LostTookNone, QueuedKept, CallKept, NextKept, OpenedByKey, DecodesNext
  <1> QED
    BY <1>1, <1>2, <1>3, <1>4, <1>5, <1>6, <1>7, <1>8, <1>9, <1>10, <1>11, <1>12, <1>13, <1>14, <1>15, <1>16 DEF VpNext, PlayStep, TaskStep, StopStep

\* No frame is damaged by the steps that decode none, nor by one whose frame follows.
LEMMA VpInvStep ==
  ASSUME VpInv, [VpNext]_vpVars
  PROVE  VpInv'
  <1>1. CASE UNCHANGED vpVars
    BY <1>1 DEF vpVars, VpInv, VpTypeOK, VpControl, VpOrder, FirstWaits, TakenCame, QueuedCame, QueuedInOrder, DecodedCame,
                CallIsLast, LostTookNone, VpChain, QueuedKept, CallKept, NextKept, OpenedByKey, DecodesNext, Kept, Taken
  <1>2. CASE VpNext
    <2>1. VpTypeOK' /\ VpControl' /\ VpOrder'
      BY <1>2, VpTypes, VpControlStep, VpOrderStep DEF VpInv
    <2>2. ASSUME ~stolen', ~reopened'
          PROVE  VpChain' /\ ~smeared'
      <3>1. VpChain'
        BY <1>2, <2>1, <2>2, VpChainStep DEF VpInv
      <3>2. ~stolen /\ ~reopened
        BY <1>2, <2>2, VpExcuses DEF VpInv
      <3>3. ~smeared /\ DecodesNext
        BY <3>2 DEF VpInv, VpChain
      <3>4. smeared' => smeared \/ (dtask.pc = "decode" /\ ~dtask.f.key /\ ref # dtask.f.n - 1)
        <4>1. CASE TaskDecodes
          BY <4>1, DecodeParts
        <4>2. CASE ~TaskDecodes
          BY <1>2, <4>2 DEF VpNext, PlayStep, TaskStep, StopStep, PlayChecks, PlayMakesRoom, PlaySends, ClearBuffer,
             TaskLoops, TaskReceives, TaskRecreates, TaskFails, TaskEmpties, TaskEnds, PlayerStart, StopAsks, StopEmpties,
             StopWakes, StopReturns
        <4> QED
          BY <4>1, <4>2
      <3> QED
        BY <3>1, <3>3, <3>4 DEF DecodesNext
    <2> QED
      BY <2>1, <2>2 DEF VpInv
  <1> QED
    BY <1>1, <1>2

\* The player starts with its gate shut, an empty queue and no task.
LEMMA VpInvInit ==
  ASSUME VpInit
  PROVE  VpInv
  <1>1. /\ vq = <<>> /\ vq \in Seq(VpFrame) /\ Len(vq) = 0
        /\ vp.wait = TRUE /\ vp.dec = TRUE /\ vp.running = FALSE /\ vp \in VpContext
        /\ dtask.pc = "gone" /\ dtask.f = NoFrame /\ rtp.pc = "idle" /\ dtask \in VpTask /\ rtp \in VpCall
        /\ ref = 0 /\ got = 0 /\ vctl = "idle" /\ ~smeared
    BY VpRecords, VpQueues DEF VpInit, VpContext, VpTask, VpCall
  <1>2. VpTypeOK /\ VpControl
    BY <1>1 DEF VpTypeOK, VpControl
  <1>3. VpOrder /\ VpChain
    BY <1>1 DEF VpOrder, FirstWaits, TakenCame, QueuedCame, QueuedInOrder, DecodedCame, CallIsLast, LostTookNone,
                VpChain, DecodesNext, Taken
  <1> QED
    BY <1>1, <1>2, <1>3 DEF VpInv

----------------------------------------------------------------------------
(* AudioPath: the microphone.                                              *)

Encoders == [init : BOOLEAN, running : BOOLEAN, sem : BOOLEAN, codec : BOOLEAN, ring : BOOLEAN]
EncoderTasks == [pc : {"none", "loop", "take", "receive", "send"}, f : Nat]

\* Of an ended capture the encoder still adds the frame it is at work on and one for the
\* token of the semaphore, and these three are two at the most.
AtWork == IF etask.pc \in {"receive", "send"} THEN 1 ELSE 0
Token == IF enc.sem THEN 1 ELSE 0
MicrophoneInv ==
  /\ enc \in Encoders /\ etask.pc \in {"none", "loop", "take", "receive", "send"}
  /\ etask = [pc |-> etask.pc, f |-> etask.f]
  /\ stray \in 0 .. 2
  /\ ~enc.running => stray + AtWork + Token <= 2
  /\ ~enc.init => ~enc.running /\ ~enc.sem /\ etask.pc = "none"
  /\ ctx # "none" => enc.init

\* What an init does to the encoder.
LEMMA MicrophoneInitParts ==
  ASSUME MicrophoneInv, CaptureInit
  PROVE  \/ ctx' \in {ctx, "idle"} /\ (ctx' = "idle" => enc.init \/ ctx = "idle") /\ UNCHANGED <<enc, etask, stray>>
         \/ /\ ~enc.init /\ enc' \in Encoders /\ enc'.init /\ ~enc'.running /\ ~enc'.sem
            /\ etask' = [pc |-> "loop", f |-> 0] /\ stray' = stray
         \/ /\ enc' = [enc EXCEPT !.codec = TRUE] /\ UNCHANGED <<ctx, etask, stray>>
  <1>1. stray' = stray
    BY DEF CaptureInit
  <1>2. CASE enc.init /\ ctx' = "idle" /\ UNCHANGED <<enc, etask, rtask, starved>>
    BY <1>1, <1>2
  <1>3. CASE /\ ~enc.init /\ etask' = [pc |-> "loop", f |-> 0]
             /\ enc' = [enc EXCEPT !.init = TRUE, !.running = FALSE, !.sem = FALSE, !.codec = TRUE, !.ring = @ \/ ~enc.codec]
    <2>1. PICK b \in BOOLEAN : b = (enc.ring \/ ~enc.codec)
      OBVIOUS
    <2>2. enc' = [enc EXCEPT !.init = TRUE, !.running = FALSE, !.sem = FALSE, !.codec = TRUE, !.ring = b]
      BY <1>3, <2>1
    <2>3. enc' \in Encoders /\ enc'.init /\ ~enc'.running /\ ~enc'.sem
      BY <2>2 DEF MicrophoneInv, Encoders
    <2> QED
      BY <1>1, <1>3, <2>3
  <1>4. CASE enc' = [enc EXCEPT !.codec = TRUE] /\ UNCHANGED <<ctx, etask, rtask>>
    BY <1>1, <1>4
  <1>5. CASE UNCHANGED <<ctx, enc, etask, rtask, starved>>
    BY <1>1, <1>5 DEF CaptureInit
  <1> QED
    BY <1>2, <1>3, <1>4, <1>5 DEF CaptureInit

\* Every step keeps within that budget.
LEMMA MicrophoneStep ==
  ASSUME MicrophoneInv, ApNext
  PROVE  MicrophoneInv'
  <1> USE DEF MicrophoneInv, AtWork, Token
  <1>1. CASE CaptureInit
    <2>1. CASE ctx' \in {ctx, "idle"} /\ (ctx' = "idle" => enc.init \/ ctx = "idle") /\ UNCHANGED <<enc, etask, stray>>
      BY <2>1
    <2>2. CASE /\ ~enc.init /\ enc' \in Encoders /\ enc'.init /\ ~enc'.running /\ ~enc'.sem
               /\ etask' = [pc |-> "loop", f |-> 0] /\ stray' = stray
      BY <2>2
    <2>3. CASE enc' = [enc EXCEPT !.codec = TRUE] /\ UNCHANGED <<ctx, etask, stray>>
      BY <2>3 DEF Encoders
    <2> QED
      BY <1>1, <2>1, <2>2, <2>3, MicrophoneInitParts
  <1>2. CASE CaptureStart
    <2>1. enc' \in Encoders /\ enc'.init = enc.init /\ enc'.running
      BY <1>2 DEF CaptureStart, Encoders
    <2> QED
      BY <1>2, <2>1 DEF CaptureStart
  <1>3. CASE CaptureStop
    <2>1. enc' \in Encoders /\ enc'.init = enc.init /\ enc'.sem = enc.sem /\ ~enc'.running
      BY <1>3 DEF CaptureStop, Encoders
    <2> QED
      BY <1>3, <2>1 DEF CaptureStop
  <1>4. CASE CaptureDeinit
    BY <1>4 DEF CaptureDeinit
  <1>5. CASE AudioGet
    BY <1>5 DEF AudioGet
  <1>6. CASE MicStep
    BY <1>6 DEF MicStep, MicReads, MicSends
  <1>7. CASE EncoderLoops
    <2>1. etask'.pc \in {"receive", "take"} /\ (~enc.running => etask'.pc = "take")
          /\ etask' = [pc |-> etask'.pc, f |-> etask'.f]
      BY <1>7 DEF EncoderLoops
    <2> QED
      BY <1>7, <2>1 DEF EncoderLoops
  <1>8. CASE EncoderTakes
    <2>1. enc' \in Encoders /\ enc'.init = enc.init /\ enc'.running = enc.running /\ ~enc'.sem
      BY <1>8 DEF EncoderTakes, Encoders
    <2> QED
      BY <1>8, <2>1 DEF EncoderTakes
  <1>9. CASE EncoderReceives
    BY <1>9 DEF EncoderReceives
  <1>10. CASE EncoderSends
    BY <1>10 DEF EncoderSends
  <1> QED
    BY <1>1, <1>2, <1>3, <1>4, <1>5, <1>6, <1>7, <1>8, <1>9, <1>10 DEF ApNext, EncoderStep

\* At the start nothing has been encoded.
LEMMA MicrophoneStart ==
  (ApInit => MicrophoneInv) /\ (MicrophoneInv /\ [ApNext]_apVars => MicrophoneInv')
  <1>1. ApInit => MicrophoneInv
    BY DEF ApInit, MicrophoneInv, Encoders, AtWork, Token
  <1>2. ASSUME MicrophoneInv, [ApNext]_apVars
        PROVE  MicrophoneInv'
    <2>1. CASE UNCHANGED apVars
      BY <1>2, <2>1 DEF apVars, MicrophoneInv, AtWork, Token
    <2> QED
      BY <1>2, <2>1, MicrophoneStep
  <1> QED
    BY <1>1, <1>2

----------------------------------------------------------------------------
(* AudioPath: the speaker.                                                 *)

\* A sound follows another: it is of a later frame, or repeats the one before.
Samples == [n : Nat, again : BOOLEAN]
FollowsOn(a, b) == IF b.again THEN b.n >= a.n ELSE b.n > a.n
AuTypes ==
  /\ pq \in Seq(Nat) /\ dtasks \in Seq(Nat) /\ outf \in Nat /\ sent \in Nat
  /\ oring \in Seq(Samples) /\ played \in Seq(Samples)

\* Frames wait in the order they came.
PqOrder ==
  /\ \A i, j \in 1 .. Len(pq) : i < j => pq[i] < pq[j]
  /\ \A i \in 1 .. Len(pq) : pq[i] > 0 /\ pq[i] <= sent
  /\ outf <= sent /\ \A t \in 1 .. Len(dtasks) : dtasks[t] <= sent

\* With one decoder, what sounded, what is in the ring, the buffer, the frame in the
\* decoder's hand and the queue follow each other.
Above(m) ==
  /\ m > outf
  /\ \A i \in 1 .. Len(played) : m > played[i].n
  /\ \A i \in 1 .. Len(oring) : m > oring[i].n
SoundsFollow ==
  /\ \A i, j \in 1 .. Len(played) : i < j => FollowsOn(played[i], played[j])
  /\ \A i, j \in 1 .. Len(oring) : i < j => FollowsOn(oring[i], oring[j])
  /\ \A i \in 1 .. Len(played) : \A j \in 1 .. Len(oring) : FollowsOn(played[i], oring[j])
SoundsSent ==
  /\ \A i \in 1 .. Len(played) : played[i].n <= sent /\ (outf # 0 => played[i].n <= outf)
  /\ \A i \in 1 .. Len(oring) : oring[i].n <= sent /\ (outf # 0 => oring[i].n <= outf)
HandAbove == \A t \in 1 .. Len(dtasks) : dtasks[t] # 0 => Above(dtasks[t])
QueueAbove == \A i \in 1 .. Len(pq) : Above(pq[i]) /\ \A t \in 1 .. Len(dtasks) : pq[i] > dtasks[t]
OneDecoder == SoundsFollow /\ SoundsSent /\ HandAbove /\ QueueAbove

SpeakerInv == AuTypes /\ PqOrder /\ (Len(dtasks) <= 1 => OneDecoder)

\* The tail is the sequence one place on.
LEMMA TailFacts ==
  ASSUME NEW S, NEW q \in Seq(S), q # <<>>
  PROVE  /\ Tail(q) \in Seq(S) /\ Len(q) \in Nat /\ Len(Tail(q)) = Len(q) - 1 /\ Head(q) = q[1]
         /\ 1 \in 1 .. Len(q) /\ q[1] \in S
         /\ \A i \in 1 .. Len(Tail(q)) : i + 1 \in 1 .. Len(q) /\ 1 < i + 1 /\ Tail(q)[i] = q[i + 1]
  <1>1. Tail(q) \in Seq(S) /\ Len(q) \in Nat /\ Len(Tail(q)) = Len(q) - 1 /\ Len(q) # 0 /\ Head(q) = q[1]
    OBVIOUS
  <1>2. \A i \in 1 .. Len(Tail(q)) : Tail(q)[i] = q[i + 1]
    OBVIOUS
  <1> QED
    BY <1>1, <1>2

\* The numbers a state holds.
LEMMA SpeakerNumbers ==
  ASSUME AuTypes
  PROVE  /\ Len(pq) \in Nat /\ Len(dtasks) \in Nat /\ Len(played) \in Nat /\ Len(oring) \in Nat
         /\ outf \in Nat /\ sent \in Nat
         /\ \A i \in 1 .. Len(pq) : pq[i] \in Nat
         /\ \A t \in 1 .. Len(dtasks) : dtasks[t] \in Nat
         /\ \A i \in 1 .. Len(played) : played[i].n \in Nat /\ played[i].again \in BOOLEAN
         /\ \A i \in 1 .. Len(oring) : oring[i].n \in Nat /\ oring[i].again \in BOOLEAN
         /\ DOMAIN dtasks = 1 .. Len(dtasks)
  <1>1. Len(pq) \in Nat /\ Len(dtasks) \in Nat /\ Len(played) \in Nat /\ Len(oring) \in Nat
    BY DEF AuTypes
  <1>2. /\ \A i \in 1 .. Len(pq) : pq[i] \in Nat
        /\ \A t \in 1 .. Len(dtasks) : dtasks[t] \in Nat
        /\ DOMAIN dtasks = 1 .. Len(dtasks)
    BY DEF AuTypes
  <1>3. ASSUME NEW i \in 1 .. Len(played)
        PROVE  played[i].n \in Nat /\ played[i].again \in BOOLEAN
    <2>1. played[i] \in Samples
      BY DEF AuTypes
    <2> QED
      BY <2>1 DEF Samples
  <1>4. ASSUME NEW i \in 1 .. Len(oring)
        PROVE  oring[i].n \in Nat /\ oring[i].again \in BOOLEAN
    <2>1. oring[i] \in Samples
      BY DEF AuTypes
    <2> QED
      BY <2>1 DEF Samples
  <1> QED
    BY <1>1, <1>2, <1>3, <1>4 DEF AuTypes

\* An init, failed or not, may add a decoder and empties what is after it.
LEMMA SpeakerInitStep ==
  ASSUME SpeakerInv, PlayerInit
  PROVE  SpeakerInv'
  <1>1. /\ UNCHANGED <<played, sent>> /\ (dtasks' = dtasks \/ dtasks' = Append(dtasks, 0))
        /\ \/ UNCHANGED <<pq, outf, oring, dtasks>>
           \/ pq' = <<>> /\ UNCHANGED <<outf, oring, dtasks>>
           \/ pq' = <<>> /\ outf' = 0 /\ oring' = <<>>
    BY DEF PlayerInit
  <1>2. /\ dtasks' \in Seq(Nat) /\ Len(dtasks) <= Len(dtasks') /\ Len(dtasks) \in Nat /\ Len(dtasks') \in Nat
        /\ \A t \in 1 .. Len(dtasks') : (t \in 1 .. Len(dtasks) /\ dtasks'[t] = dtasks[t]) \/ dtasks'[t] = 0
    <2>1. dtasks \in Seq(Nat) /\ 0 \in Nat
      BY DEF SpeakerInv, AuTypes
    <2>2. CASE dtasks' = Append(dtasks, 0)
      BY <2>1, <2>2, AppendFacts
    <2>3. CASE dtasks' = dtasks
      BY <2>1, <2>3
    <2> QED
      BY <1>1, <2>2, <2>3
  <1>3. CASE UNCHANGED <<pq, outf, oring, dtasks>>
    BY <1>1, <1>3 DEF SpeakerInv, AuTypes, PqOrder, OneDecoder, SoundsFollow, SoundsSent, HandAbove, QueueAbove, Above
  <1>4. CASE pq' = <<>> /\ UNCHANGED <<outf, oring, dtasks>>
    BY <1>1, <1>4 DEF SpeakerInv, AuTypes, PqOrder, OneDecoder, SoundsFollow, SoundsSent, HandAbove, QueueAbove, Above
  <1>5. CASE pq' = <<>> /\ outf' = 0 /\ oring' = <<>>
    <2>1. AuTypes' /\ PqOrder'
      <3>1. ASSUME NEW t \in 1 .. Len(dtasks')
            PROVE  dtasks'[t] <= sent
        <4>1. CASE t \in 1 .. Len(dtasks) /\ dtasks'[t] = dtasks[t]
          BY <4>1 DEF SpeakerInv, PqOrder
        <4>2. CASE dtasks'[t] = 0
          BY <4>2, SpeakerNumbers DEF SpeakerInv
        <4> QED
          BY <1>2, <4>1, <4>2
      <3> QED
        BY <1>1, <1>2, <1>5, <3>1, SpeakerNumbers DEF SpeakerInv, AuTypes, PqOrder
    <2>2. ASSUME Len(dtasks') <= 1
          PROVE  OneDecoder'
      <3>1. OneDecoder
        BY <1>2, <2>2 DEF SpeakerInv
      <3>2. SoundsFollow' /\ SoundsSent' /\ QueueAbove'
        BY <1>1, <1>5, <3>1 DEF OneDecoder, SoundsFollow, SoundsSent, QueueAbove
      <3>3. HandAbove'
        <4>1. ASSUME NEW t \in 1 .. Len(dtasks'), dtasks'[t] # 0
              PROVE  Above(dtasks[t])'
          <5>1. t \in 1 .. Len(dtasks) /\ dtasks'[t] = dtasks[t] /\ Above(dtasks[t])
            BY <1>2, <3>1, <4>1 DEF OneDecoder, HandAbove
          <5> QED
            BY <1>1, <1>5, <4>1, <5>1, SpeakerNumbers DEF Above, SpeakerInv
        <4> QED
          BY <4>1 DEF HandAbove
      <3> QED
        BY <3>2, <3>3 DEF OneDecoder
    <2> QED
      BY <2>1, <2>2 DEF SpeakerInv
  <1> QED
    BY <1>1, <1>3, <1>4, <1>5

\* A frame is queued behind all that came before.
LEMMA SpeakerFrameStep ==
  ASSUME SpeakerInv, PlayFrame
  PROVE  SpeakerInv'
  <1>1. /\ UNCHANGED <<dtasks, outf, oring, played>> /\ sent' = sent + 1
        /\ (pq' = pq \/ pq' = Append(pq, sent + 1))
    BY DEF PlayFrame
  <1>2. pq \in Seq(Nat) /\ sent + 1 \in Nat /\ sent \in Nat
    BY DEF SpeakerInv, AuTypes
  <1>3. /\ pq' \in Seq(Nat)
        /\ \A i \in 1 .. Len(pq') : (i \in 1 .. Len(pq) /\ pq'[i] = pq[i]) \/ (i = Len(pq) + 1 /\ pq'[i] = sent + 1)
    <2>1. CASE pq' = Append(pq, sent + 1)
      BY <1>2, <2>1, AppendFacts
    <2>2. CASE pq' = pq
      BY <1>2, <2>2
    <2> QED
      BY <1>1, <2>1, <2>2
  <1>4. AuTypes'
    BY <1>1, <1>2, <1>3 DEF SpeakerInv, AuTypes
  <1>5. PqOrder'
    <2>1. \A i \in 1 .. Len(pq) : pq[i] < sent + 1
      BY <1>2, SpeakerNumbers DEF SpeakerInv, PqOrder
    <2>2. ASSUME NEW i \in 1 .. Len(pq'), NEW j \in 1 .. Len(pq'), i < j
          PROVE  pq'[i] < pq'[j]
      <3>1. i \in 1 .. Len(pq) /\ pq'[i] = pq[i]
        <4>1. Len(pq) \in Nat /\ i \in Int /\ j \in Int
          BY <1>3, SpeakerNumbers DEF SpeakerInv
        <4>2. j \in 1 .. Len(pq) \/ j = Len(pq) + 1
          BY <1>3
        <4> QED
          BY <1>3, <2>2, <4>1, <4>2
      <3> QED
        BY <1>3, <2>1, <2>2, <3>1 DEF SpeakerInv, PqOrder
    <2>3. ASSUME NEW i \in 1 .. Len(pq')
          PROVE  pq'[i] > 0 /\ pq'[i] <= sent'
      <3>1. CASE i \in 1 .. Len(pq) /\ pq'[i] = pq[i]
        BY <1>1, <1>2, <3>1, SpeakerNumbers DEF SpeakerInv, PqOrder
      <3>2. CASE pq'[i] = sent + 1
        BY <1>1, <1>2, <3>2
      <3> QED
        BY <1>3, <3>1, <3>2
    <2>4. outf' <= sent' /\ \A t \in 1 .. Len(dtasks') : dtasks'[t] <= sent'
      BY <1>1, <1>2, SpeakerNumbers DEF SpeakerInv, PqOrder
    <2> QED
      BY <2>2, <2>3, <2>4 DEF PqOrder
  <1>6. ASSUME Len(dtasks') <= 1
        PROVE  OneDecoder'
    <2>1. OneDecoder
      BY <1>1, <1>6 DEF SpeakerInv
    <2>2. SoundsFollow' /\ HandAbove'
      BY <1>1, <2>1 DEF OneDecoder, SoundsFollow, HandAbove, Above
    <2>3. SoundsSent'
      BY <1>1, <2>1, SpeakerNumbers DEF OneDecoder, SoundsSent, SpeakerInv
    <2>4. Above(sent + 1) /\ \A t \in 1 .. Len(dtasks) : sent + 1 > dtasks[t]
      <3>1. outf <= sent /\ \A t \in 1 .. Len(dtasks) : dtasks[t] <= sent
        BY DEF SpeakerInv, PqOrder
      <3>2. /\ \A i \in 1 .. Len(played) : played[i].n <= sent
            /\ \A i \in 1 .. Len(oring) : oring[i].n <= sent
        BY <2>1 DEF OneDecoder, SoundsSent
      <3>3. /\ outf \in Nat /\ \A t \in 1 .. Len(dtasks) : dtasks[t] \in Nat
            /\ \A i \in 1 .. Len(played) : played[i].n \in Nat
            /\ \A i \in 1 .. Len(oring) : oring[i].n \in Nat
        BY SpeakerNumbers DEF SpeakerInv
      <3>4. \A m \in Nat : m <= sent => sent + 1 > m
        BY <1>2
      <3> QED
        BY <3>1, <3>2, <3>3, <3>4 DEF Above
    <2>5. QueueAbove'
      BY <1>1, <1>3, <2>1, <2>4 DEF OneDecoder, QueueAbove, Above
    <2> QED
      BY <2>2, <2>3, <2>5 DEF OneDecoder
  <1> QED
    BY <1>4, <1>5, <1>6 DEF SpeakerInv

\* The first of the queue is taken.
LEMMA DecoderReceivesStep ==
  ASSUME SpeakerInv, DecoderReceives
  PROVE  SpeakerInv'
  <1>1. PICK t \in 1 .. Len(dtasks) : dtasks[t] = 0 /\ dtasks' = [dtasks EXCEPT ![t] = Head(pq)]
    BY SpeakerNumbers DEF DecoderReceives, SpeakerInv
  <1>2. pq # <<>> /\ pq' = Tail(pq) /\ UNCHANGED <<outf, oring, played, sent>>
    BY DEF DecoderReceives
  <1>3. /\ pq' \in Seq(Nat) /\ Len(pq) \in Nat /\ Len(pq') = Len(pq) - 1 /\ Head(pq) = pq[1]
        /\ 1 \in 1 .. Len(pq) /\ pq[1] \in Nat
        /\ \A i \in 1 .. Len(pq') : i + 1 \in 1 .. Len(pq) /\ 1 < i + 1 /\ pq'[i] = pq[i + 1]
    BY <1>2, TailFacts DEF SpeakerInv, AuTypes
  <1>4. /\ dtasks' \in Seq(Nat) /\ Len(dtasks') = Len(dtasks) /\ dtasks'[t] = pq[1]
        /\ \A s \in 1 .. Len(dtasks) : s # t => dtasks'[s] = dtasks[s]
    BY <1>1, <1>3 DEF SpeakerInv, AuTypes
  <1>5. AuTypes'
    BY <1>2, <1>3, <1>4 DEF SpeakerInv, AuTypes
  <1>6. PqOrder'
    <2>1. \A s \in 1 .. Len(dtasks') : dtasks'[s] <= sent
      BY <1>3, <1>4 DEF SpeakerInv, PqOrder
    <2>2. \A i \in 1 .. Len(pq') : pq'[i] > 0 /\ pq'[i] <= sent
      BY <1>3 DEF SpeakerInv, PqOrder
    <2>3. ASSUME NEW i \in 1 .. Len(pq'), NEW j \in 1 .. Len(pq'), i < j
          PROVE  pq'[i] < pq'[j]
      <3>1. i + 1 \in 1 .. Len(pq) /\ j + 1 \in 1 .. Len(pq) /\ i + 1 < j + 1 /\ pq'[i] = pq[i + 1] /\ pq'[j] = pq[j + 1]
        BY <1>3, <2>3
      <3> QED
        BY <3>1 DEF SpeakerInv, PqOrder
    <2> QED
      BY <1>2, <2>1, <2>2, <2>3 DEF SpeakerInv, PqOrder
  <1>7. ASSUME Len(dtasks') <= 1
        PROVE  OneDecoder'
    <2>1. OneDecoder /\ \A s \in 1 .. Len(dtasks) : s = t
      BY <1>4, <1>7, SpeakerNumbers DEF SpeakerInv
    <2>2. SoundsFollow' /\ SoundsSent'
      BY <1>2, <2>1 DEF OneDecoder, SoundsFollow, SoundsSent
    <2>3. \A i \in 1 .. Len(pq) : Above(pq[i])
      BY <2>1 DEF OneDecoder, QueueAbove
    <2>4. HandAbove'
      BY <1>2, <1>3, <1>4, <2>1, <2>3 DEF HandAbove, Above
    <2>5. QueueAbove'
      <3>1. ASSUME NEW i \in 1 .. Len(pq')
            PROVE  Above(pq[i])' /\ \A s \in 1 .. Len(dtasks') : pq'[i] > dtasks'[s]
        <4>1. i + 1 \in 1 .. Len(pq) /\ pq'[i] = pq[i + 1] /\ pq[1] < pq[i + 1]
          BY <1>3, <3>1 DEF SpeakerInv, PqOrder
        <4>2. Above(pq[i + 1])
          BY <2>3, <4>1
        <4>3. pq'[i] > pq[1]
          BY <1>3, <4>1, SpeakerNumbers DEF SpeakerInv
        <4> QED
          BY <1>2, <1>4, <2>1, <4>1, <4>2, <4>3 DEF Above
      <3> QED
        BY <3>1 DEF QueueAbove
    <2> QED
      BY <2>2, <2>4, <2>5 DEF OneDecoder
  <1> QED
    BY <1>5, <1>6, <1>7 DEF SpeakerInv

\* The first of the ring sounds, or is thrown away.
LEMMA PlaybackStep ==
  ASSUME SpeakerInv, Playback
  PROVE  SpeakerInv'
  <1>1. /\ oring # <<>> /\ oring' = Tail(oring) /\ UNCHANGED <<pq, dtasks, outf, sent>>
        /\ (played' = played \/ played' = Append(played, Head(oring)))
    BY DEF Playback
  <1>2. /\ oring' \in Seq(Samples) /\ Len(oring) \in Nat /\ Len(oring') = Len(oring) - 1 /\ Head(oring) = oring[1]
        /\ 1 \in 1 .. Len(oring) /\ oring[1] \in Samples
        /\ \A i \in 1 .. Len(oring') : i + 1 \in 1 .. Len(oring) /\ 1 < i + 1 /\ oring'[i] = oring[i + 1]
    BY <1>1, TailFacts DEF SpeakerInv, AuTypes
  <1>3. /\ played' \in Seq(Samples) /\ Len(played) \in Nat
        /\ \A i \in 1 .. Len(played') :
             (i \in 1 .. Len(played) /\ played'[i] = played[i]) \/ (i = Len(played) + 1 /\ played'[i] = oring[1])
    <2>1. played \in Seq(Samples)
      BY DEF SpeakerInv, AuTypes
    <2>2. CASE played' = Append(played, oring[1])
      BY <1>2, <2>1, <2>2, AppendFacts
    <2>3. CASE played' = played
      BY <2>1, <2>3
    <2> QED
      BY <1>1, <1>2, <2>2, <2>3
  <1>4. AuTypes' /\ PqOrder'
    BY <1>1, <1>2, <1>3 DEF SpeakerInv, AuTypes, PqOrder
  <1>5. ASSUME Len(dtasks') <= 1
        PROVE  OneDecoder'
    <2>1. OneDecoder
      BY <1>1, <1>5 DEF SpeakerInv
    <2>2. SoundsFollow'
      <3>1. \A i, j \in 1 .. Len(played') : i < j => FollowsOn(played'[i], played'[j])
        <4>1. ASSUME NEW i \in 1 .. Len(played'), NEW j \in 1 .. Len(played'), i < j
              PROVE  FollowsOn(played'[i], played'[j])
          <5>1. i \in 1 .. Len(played) /\ played'[i] = played[i]
            BY <1>3, <4>1
          <5> QED
            BY <1>2, <1>3, <2>1, <4>1, <5>1 DEF OneDecoder, SoundsFollow
        <4> QED
          BY <4>1
      <3>2. \A i, j \in 1 .. Len(oring') : i < j => FollowsOn(oring'[i], oring'[j])
        <4>1. ASSUME NEW i \in 1 .. Len(oring'), NEW j \in 1 .. Len(oring'), i < j
              PROVE  FollowsOn(oring'[i], oring'[j])
          <5>1. i + 1 < j + 1 /\ i + 1 \in 1 .. Len(oring) /\ j + 1 \in 1 .. Len(oring)
            BY <1>2, <4>1
          <5> QED
            BY <1>2, <2>1, <4>1, <5>1 DEF OneDecoder, SoundsFollow
        <4> QED
          BY <4>1
      <3>3. \A i \in 1 .. Len(played') : \A j \in 1 .. Len(oring') : FollowsOn(played'[i], oring'[j])
        BY <1>2, <1>3, <2>1 DEF OneDecoder, SoundsFollow
      <3> QED
        BY <3>1, <3>2, <3>3 DEF SoundsFollow
    <2>3. SoundsSent'
      BY <1>1, <1>2, <1>3, <2>1 DEF OneDecoder, SoundsSent
    <2>4. \A m : Above(m) => (Above(m))'
      BY <1>1, <1>2, <1>3 DEF Above
    <2>5. HandAbove' /\ QueueAbove'
      <3>1. HandAbove /\ QueueAbove
        BY <2>1 DEF OneDecoder
      <3> QED
        BY <1>1, <1>2, <1>3, <3>1 DEF HandAbove, QueueAbove, Above
    <2> QED
      BY <2>2, <2>3, <2>5 DEF OneDecoder
  <1> QED
    BY <1>4, <1>5 DEF SpeakerInv

\* What is stored again was in the buffer; what is new is later than all.
LEMMA DecoderDecodesStep ==
  ASSUME SpeakerInv, DecoderDecodes
  PROVE  SpeakerInv'
  <1>1. PICK t \in 1 .. Len(dtasks) :
          /\ dtasks[t] # 0
          /\ outf' = dtasks[t] \/ outf' = outf
          /\ dtasks' = [dtasks EXCEPT ![t] = 0]
          /\ oring' = IF outf' # 0 /\ Len(oring) < OutRing
                      THEN Append(oring, [n |-> outf', again |-> outf' # dtasks[t]]) ELSE oring
    BY SpeakerNumbers DEF DecoderDecodes, SpeakerInv
  <1>2. UNCHANGED <<pq, played, sent>>
    BY DEF DecoderDecodes
  <1>3. /\ dtasks' \in Seq(Nat) /\ Len(dtasks') = Len(dtasks) /\ dtasks'[t] = 0
        /\ \A s \in 1 .. Len(dtasks) : s # t => dtasks'[s] = dtasks[s]
    BY <1>1 DEF SpeakerInv, AuTypes
  <1>4. PICK b \in BOOLEAN : b = (outf' # dtasks[t])
    OBVIOUS
  <1>5. [n |-> outf', again |-> b] \in Samples /\ outf' \in Nat
    BY <1>1, SpeakerNumbers DEF Samples, SpeakerInv
  <1> DEFINE new == [n |-> outf', again |-> b]
  <1>6. new.n = outf' /\ new.again = b /\ new \in Samples
    BY <1>5
  <1>7. oring' = oring \/ (oring' = Append(oring, new) /\ outf' # 0)
    BY <1>1, <1>4
  <1> HIDE DEF new
  <1>8. /\ oring' \in Seq(Samples) /\ Len(oring) \in Nat
        /\ \A i \in 1 .. Len(oring') :
             \/ i \in 1 .. Len(oring) /\ oring'[i] = oring[i]
             \/ i = Len(oring) + 1 /\ oring'[i] = new /\ outf' # 0
    <2>1. oring \in Seq(Samples)
      BY DEF SpeakerInv, AuTypes
    <2>2. CASE oring' = Append(oring, new) /\ outf' # 0
      BY <1>6, <2>1, <2>2, AppendFacts
    <2>3. CASE oring' = oring
      BY <2>1, <2>3
    <2> QED
      BY <1>7, <2>2, <2>3
  <1>9. AuTypes'
    BY <1>2, <1>3, <1>5, <1>8 DEF SpeakerInv, AuTypes
  <1>10. PqOrder'
    BY <1>1, <1>2, <1>3, SpeakerNumbers DEF SpeakerInv, PqOrder
  <1>11. ASSUME Len(dtasks') <= 1
         PROVE  OneDecoder'
    <2>1. OneDecoder /\ \A s \in 1 .. Len(dtasks) : s = t
      BY <1>3, <1>11, SpeakerNumbers DEF SpeakerInv
    <2>2. HandAbove' /\ QueueAbove'
      <3>1. HandAbove'
        BY <1>3, <2>1 DEF HandAbove
      <3>2. ASSUME NEW i \in 1 .. Len(pq)
            PROVE  Above(pq[i]) /\ pq[i] > dtasks[t] /\ pq[i] \in Nat /\ pq[i] > 0
        BY <2>1, <3>2, SpeakerNumbers DEF OneDecoder, QueueAbove, SpeakerInv, PqOrder
      <3>3. ASSUME NEW i \in 1 .. Len(pq)
            PROVE  pq[i] > outf' /\ (\A j \in 1 .. Len(oring') : pq[i] > oring'[j].n)
        <4>1. pq[i] > outf'
          BY <1>1, <3>2 DEF Above
        <4> QED
          BY <1>6, <1>8, <3>2, <4>1 DEF Above
      <3> QED
        BY <1>2, <1>3, <2>1, <3>1, <3>2, <3>3 DEF QueueAbove, Above
    <2>3. Above(dtasks[t]) /\ dtasks[t] \in Nat /\ dtasks[t] <= sent
      BY <1>1, <2>1, SpeakerNumbers DEF OneDecoder, HandAbove, SpeakerInv, PqOrder
    <2>4. SoundsSent'
      <3>1. outf' <= sent /\ outf <= outf'
        BY <1>1, <2>3, SpeakerNumbers DEF Above, SpeakerInv, PqOrder
      <3>2. ASSUME NEW i \in 1 .. Len(played)
            PROVE  played[i].n <= sent /\ (outf' # 0 => played[i].n <= outf')
        BY <1>1, <2>1, <2>3, SpeakerNumbers DEF Above, OneDecoder, SoundsSent, SpeakerInv
      <3>3. ASSUME NEW i \in 1 .. Len(oring)
            PROVE  oring[i].n <= sent /\ (outf' # 0 => oring[i].n <= outf')
        BY <1>1, <2>1, <2>3, SpeakerNumbers DEF Above, OneDecoder, SoundsSent, SpeakerInv
      <3> QED
        BY <1>2, <1>5, <1>6, <1>8, <3>1, <3>2, <3>3 DEF SoundsSent
    <2>5. ASSUME NEW a \in Samples, dtasks[t] > a.n, outf # 0 => a.n <= outf, outf' # 0
          PROVE  FollowsOn(a, new)
      <3>1. a.n \in Nat
        BY DEF Samples
      <3>2. CASE outf' = dtasks[t]
        BY <1>4, <1>6, <2>3, <2>5, <3>1, <3>2 DEF FollowsOn
      <3>3. CASE outf' = outf
        <4>1. outf' # dtasks[t]
          BY <2>3, <3>3, SpeakerNumbers DEF Above, SpeakerInv
        <4>2. new.again
          BY <1>4, <1>6, <4>1
        <4> QED
          BY <1>5, <1>6, <2>5, <3>1, <3>3, <4>2 DEF FollowsOn
      <3> QED
        BY <1>1, <3>2, <3>3
    <2>6. ASSUME outf' # 0
          PROVE  /\ \A i \in 1 .. Len(played) : FollowsOn(played[i], new)
                 /\ \A i \in 1 .. Len(oring) : FollowsOn(oring[i], new)
      <3>1. ASSUME NEW i \in 1 .. Len(played)
            PROVE  FollowsOn(played[i], new)
        <4>1. played[i] \in Samples
          BY DEF SpeakerInv, AuTypes
        <4> QED
          BY <2>1, <2>3, <2>5, <2>6, <4>1 DEF Above, OneDecoder, SoundsSent
      <3>2. ASSUME NEW i \in 1 .. Len(oring)
            PROVE  FollowsOn(oring[i], new)
        <4>1. oring[i] \in Samples
          BY DEF SpeakerInv, AuTypes
        <4> QED
          BY <2>1, <2>3, <2>5, <2>6, <4>1 DEF Above, OneDecoder, SoundsSent
      <3> QED
        BY <3>1, <3>2
    <2>7. SoundsFollow'
      <3>1. \A i, j \in 1 .. Len(oring') : i < j => FollowsOn(oring'[i], oring'[j])
        <4>1. ASSUME NEW i \in 1 .. Len(oring'), NEW j \in 1 .. Len(oring'), i < j
              PROVE  FollowsOn(oring'[i], oring'[j])
          <5>1. i \in 1 .. Len(oring) /\ oring'[i] = oring[i]
            BY <1>8, <4>1
          <5> QED
            BY <1>8, <2>1, <2>6, <4>1, <5>1 DEF OneDecoder, SoundsFollow
        <4> QED
          BY <4>1
      <3> QED
        BY <1>2, <1>8, <2>1, <2>6, <3>1 DEF OneDecoder, SoundsFollow
    <2> QED
      BY <2>2, <2>4, <2>7 DEF OneDecoder
  <1> QED
    BY <1>9, <1>10, <1>11 DEF SpeakerInv

\* The order holds at the start and with every step, and it is what is asked of the playback.
LEMMA SpeakerInductive ==
  (AuInit => SpeakerInv) /\ (SpeakerInv /\ [AuNext]_auVars => SpeakerInv') /\ (SpeakerInv => PlayedInOrder)
  <1>1. AuInit => SpeakerInv
    <2>1. ASSUME AuInit
          PROVE  SpeakerInv
      <3>1. pq = <<>> /\ dtasks = <<>> /\ outf = 0 /\ oring = <<>> /\ played = <<>> /\ sent = 0
        BY <2>1 DEF AuInit
      <3>2. AuTypes
        BY <3>1 DEF AuTypes
      <3> QED
        BY <3>1, <3>2 DEF SpeakerInv, PqOrder, OneDecoder, SoundsFollow, SoundsSent, HandAbove, QueueAbove
    <2> QED
      BY <2>1
  <1>2. ASSUME SpeakerInv, [AuNext]_auVars
        PROVE  SpeakerInv'
    <2>1. CASE PlayerStart0 \/ PlayerStop \/ PlayerDeinit \/ UNCHANGED auVars
      <3>1. UNCHANGED <<pq, dtasks, outf, oring, played, sent>>
        BY <2>1 DEF PlayerStart0, PlayerStop, PlayerDeinit, auVars
      <3> QED
        BY <1>2, <3>1 DEF SpeakerInv, AuTypes, PqOrder, OneDecoder, SoundsFollow, SoundsSent, HandAbove, QueueAbove, Above
    <2> QED
      BY <1>2, <2>1, SpeakerInitStep, SpeakerFrameStep, DecoderReceivesStep, DecoderDecodesStep, PlaybackStep DEF AuNext
  <1>3. ASSUME SpeakerInv
        PROVE  PlayedInOrder
    <2>1. ASSUME Len(dtasks) <= 1, NEW i \in 2 .. Len(played)
          PROVE  FollowsOn(played[i - 1], played[i])
      <3>1. i - 1 \in 1 .. Len(played) /\ i \in 1 .. Len(played) /\ i - 1 < i
        BY <1>3, SpeakerNumbers DEF SpeakerInv
      <3> QED
        BY <1>3, <2>1, <3>1 DEF SpeakerInv, OneDecoder, SoundsFollow
    <2> QED
      BY <2>1 DEF PlayedInOrder, FollowsOn
  <1> QED
    BY <1>1, <1>2, <1>3

----------------------------------------------------------------------------
(* AudioPath: the ring of samples.                                         *)

Rings == [mem : [0 .. RbSize - 1 -> Int], rd : 0 .. RbSize, wr : 0 .. RbSize, fill : 0 .. RbSize,
          canR : BOOLEAN, canW : BOOLEAN, finished : BOOLEAN, unblock : BOOLEAN]
RdrPcs == {"idle", "copy", "flags", "take", "woken", "out"}
Readers == [pc : RdrPcs, want : Nat, ptr : 0 .. RbSize, total : Nat]
Writers == [pc : {"idle", "copy", "wait", "done"}, left : Nat, size : Nat, total : Nat]

RbTypes == rb \in Rings /\ rdr \in Readers /\ wtr \in Writers /\ wrote \in Nat /\ out \in Seq(Int)
AllCounted == Len(out) + rb.fill = wrote
ReadInOrder == \A i \in 1 .. Len(out) : out[i] = i
StoredInOrder == \A k \in 1 .. rb.fill : rb.mem[At(rb.rd, k - 1)] = Len(out) + k
Distance == rb.wr - rb.rd - rb.fill \in {-2 * RbSize, -RbSize, 0, RbSize}
OwnPointer == rdr.pc # "idle" => rdr.ptr = rb.rd
RingInv == RbTypes /\ AllCounted /\ ReadInOrder /\ StoredInOrder /\ Distance /\ OwnPointer

\* The numbers a state holds.
LEMMA RingNumbers ==
  ASSUME RbTypes
  PROVE  /\ RbSize \in Nat /\ RbSize > 1
         /\ rb.rd \in 0 .. RbSize /\ rb.wr \in 0 .. RbSize /\ rb.fill \in 0 .. RbSize
         /\ rb.mem \in [0 .. RbSize - 1 -> Int] /\ DOMAIN rb.mem = 0 .. RbSize - 1
         /\ rdr.want \in Nat /\ rdr.ptr \in 0 .. RbSize /\ wtr.left \in Nat /\ wrote \in Nat
         /\ out \in Seq(Int) /\ Len(out) \in Nat
  BY RbAssumption DEF RbTypes, Rings, Readers, Writers

\* A function on 1 .. n is a sequence of n elements.
LEMMA Sequence ==
  ASSUME NEW n \in Nat, NEW b \in [1 .. n -> Int]
  PROVE  b \in Seq(Int) /\ Len(b) = n
  OBVIOUS

\* The distances are multiples of the size.
LEMMA Multiples ==
  ASSUME NEW R \in Nat \ {0}, NEW d \in {-2 * R, -R, 0, R}
  PROVE  d % R = 0
  <1>1. 0 % R = 0 /\ R % R = 0
    OBVIOUS
  <1>2. (-R) % R = 0
    OBVIOUS
  <1>3. (-2 * R) % R = 0
    OBVIOUS
  <1> QED
    BY <1>1, <1>2, <1>3

\* What the steps that copy nothing leave alone.
LEMMA QuietStep ==
  ASSUME RingInv, RbTypes', UNCHANGED <<wrote, out>>,
         rb'.mem = rb.mem, rb'.rd = rb.rd, rb'.wr = rb.wr, rb'.fill = rb.fill,
         rdr'.pc # "idle" => rdr'.ptr = rb.rd
  PROVE  RingInv'
  BY DEF RingInv, AllCounted, ReadInOrder, StoredInOrder, Distance, OwnPointer

\* Bytes are stored where no stored byte is, and found again where they were put.
LEMMA WritePlaces ==
  ASSUME NEW R \in Nat \ {0}, R = RbSize, NEW rd \in 0 .. R, NEW wr \in 0 .. R, NEW fill \in 0 .. R,
         NEW n \in 0 .. R - fill, wr - rd - fill \in {-2 * R, -R, 0, R}
  PROVE  /\ \A k \in 1 .. fill : At(rd, k - 1) \in 0 .. R - 1 /\ \A j \in 1 .. n : At(wr, j - 1) # At(rd, k - 1)
         /\ \A j \in 1 .. n : At(rd, fill + j - 1) = At(wr, j - 1) /\ At(wr, j - 1) \in 0 .. R - 1
         /\ \A j \in 1 .. n : \A l \in 1 .. n : At(wr, j - 1) = At(wr, l - 1) => j = l
         /\ After(wr, n) \in 0 .. R
         /\ After(wr, n) - rd - (fill + n) \in {-2 * R, -R, 0, R}
  <1>1. \A k \in 1 .. fill : At(rd, k - 1) \in 0 .. R - 1 /\ \A j \in 1 .. n : At(wr, j - 1) # At(rd, k - 1)
    BY DEF At
  <1>2. \A j \in 1 .. n : At(rd, fill + j - 1) = At(wr, j - 1) /\ At(wr, j - 1) \in 0 .. R - 1
    BY DEF At
  <1>3. \A j \in 1 .. n : \A l \in 1 .. n : At(wr, j - 1) = At(wr, l - 1) => j = l
    BY DEF At
  <1>4. After(wr, n) \in 0 .. R /\ (After(wr, n) = wr + n \/ After(wr, n) = wr + n - R)
    BY DEF After
  <1>5. After(wr, n) - rd - (fill + n) \in {-2 * R, -R, 0, R}
    BY <1>4
  <1> QED
    BY <1>1, <1>2, <1>3, <1>4, <1>5

\* Bytes left are found from the new read pointer on.
LEMMA ReadPlaces ==
  ASSUME NEW R \in Nat \ {0}, R = RbSize, NEW rd \in 0 .. R, NEW wr \in 0 .. R, NEW fill \in 0 .. R,
         NEW n \in 0 .. fill, wr - rd - fill \in {-2 * R, -R, 0, R}
  PROVE  /\ \A k \in 1 .. fill - n : At(After(rd, n), k - 1) = At(rd, n + k - 1)
         /\ After(rd, n) \in 0 .. R
         /\ wr - After(rd, n) - (fill - n) \in {-2 * R, -R, 0, R}
  <1>1. \A k \in 1 .. fill - n : At(After(rd, n), k - 1) = At(rd, n + k - 1)
    BY DEF At, After
  <1>2. After(rd, n) \in 0 .. R /\ (After(rd, n) = rd + n \/ After(rd, n) = rd + n - R)
    BY DEF After
  <1>3. wr - After(rd, n) - (fill - n) \in {-2 * R, -R, 0, R}
    BY <1>2
  <1> QED
    BY <1>1, <1>2, <1>3

\* A write puts its bytes behind those stored.
LEMMA WriteCopiesStep ==
  ASSUME RingInv, WriteCopies
  PROVE  RingInv'
  <1> DEFINE n == Least(RbSize - rb.fill, wtr.left)
             Mem == [i \in DOMAIN rb.mem |-> IF \E k \in 1 .. n : At(rb.wr, k - 1) = i
                                             THEN wrote + (CHOOSE k \in 1 .. n : At(rb.wr, k - 1) = i)
                                             ELSE rb.mem[i]]
  <1>1. /\ rb' = [rb EXCEPT !.mem = Mem, !.wr = After(rb.wr, n), !.fill = rb.fill + n, !.canR = TRUE]
        /\ wrote' = wrote + n
        /\ wtr' = [wtr EXCEPT !.left = wtr.left - n, !.size = n, !.total = wtr.total + n,
                              !.pc = IF wtr.left = n THEN "done" ELSE "wait"]
        /\ UNCHANGED <<rdr, out>>
    BY DEF WriteCopies
  <1>2. n \in 0 .. RbSize - rb.fill /\ n <= wtr.left /\ n \in Nat
    BY RingNumbers DEF RingInv, Least
  <1> DEFINE Place(j) == At(rb.wr, j - 1)
  <1> HIDE DEF n
  <1>3. /\ \A k \in 1 .. rb.fill : At(rb.rd, k - 1) \in 0 .. RbSize - 1 /\ \A j \in 1 .. n : Place(j) # At(rb.rd, k - 1)
        /\ \A j \in 1 .. n : At(rb.rd, rb.fill + j - 1) = Place(j) /\ Place(j) \in 0 .. RbSize - 1
        /\ \A j \in 1 .. n : \A l \in 1 .. n : Place(j) = Place(l) => j = l
        /\ After(rb.wr, n) \in 0 .. RbSize
        /\ After(rb.wr, n) - rb.rd - (rb.fill + n) \in {-2 * RbSize, -RbSize, 0, RbSize}
    <2>1. /\ RbSize \in Nat \ {0} /\ rb.rd \in 0 .. RbSize /\ rb.wr \in 0 .. RbSize /\ rb.fill \in 0 .. RbSize
          /\ rb.wr - rb.rd - rb.fill \in {-2 * RbSize, -RbSize, 0, RbSize}
      BY RingNumbers DEF RingInv, Distance
    <2> QED
      BY <1>2, <2>1, WritePlaces
  <1>4. /\ \A j \in 1 .. n : Mem[Place(j)] = wrote + j
        /\ \A i \in 0 .. RbSize - 1 : (\A j \in 1 .. n : Place(j) # i) => Mem[i] = rb.mem[i]
        /\ Mem \in [0 .. RbSize - 1 -> Int]
    <2>1. DOMAIN rb.mem = 0 .. RbSize - 1 /\ rb.mem \in [0 .. RbSize - 1 -> Int] /\ wrote \in Nat
      BY RingNumbers DEF RingInv
    <2>2. ASSUME NEW j \in 1 .. n
          PROVE  (CHOOSE k \in 1 .. n : Place(k) = Place(j)) = j
      BY <1>3
    <2>3. \A j \in 1 .. n : Mem[Place(j)] = wrote + j
      BY <1>3, <2>1, <2>2
    <2>4. \A i \in 0 .. RbSize - 1 : (\A j \in 1 .. n : Place(j) # i) => Mem[i] = rb.mem[i]
      BY <2>1
    <2>5. ASSUME NEW i \in 0 .. RbSize - 1
          PROVE  Mem[i] \in Int
      <3>1. CASE \A j \in 1 .. n : Place(j) # i
        BY <2>1, <2>4, <3>1
      <3>2. ASSUME NEW j \in 1 .. n, Place(j) = i
            PROVE  Mem[i] \in Int
        <4>1. wrote + j \in Int
          BY <1>2, <2>1
        <4> HIDE DEF Mem, Place
        <4> QED
          BY <2>3, <3>2, <4>1
      <3> QED
        BY <3>1, <3>2
    <2> QED
      BY <2>1, <2>3, <2>4, <2>5
  <1> HIDE DEF Mem
  <1>5. /\ rb'.mem = Mem /\ rb'.wr = After(rb.wr, n) /\ rb'.fill = rb.fill + n /\ rb'.rd = rb.rd /\ rb' \in Rings
    <2>1. rb.fill + n \in 0 .. RbSize
      BY <1>2, RingNumbers DEF RingInv
    <2> QED
      BY <1>1, <1>3, <1>4, <2>1 DEF RingInv, RbTypes, Rings
  <1>6. RbTypes'
    <2>1. wtr.left - n \in Nat /\ wtr.total + n \in Nat /\ wrote + n \in Nat
      BY <1>2, RingNumbers DEF RingInv, RbTypes, Writers
    <2>2. wtr' \in Writers
      BY <1>1, <1>2, <2>1 DEF RingInv, RbTypes, Writers
    <2> QED
      BY <1>1, <1>5, <2>1, <2>2 DEF RingInv, RbTypes
  <1>7. AllCounted' /\ ReadInOrder' /\ Distance' /\ OwnPointer'
    BY <1>1, <1>2, <1>3, <1>5, RingNumbers DEF RingInv, AllCounted, ReadInOrder, Distance, OwnPointer
  <1>8. StoredInOrder'
    <2>1. ASSUME NEW k \in 1 .. rb.fill + n
          PROVE  Mem[At(rb.rd, k - 1)] = Len(out) + k
      <3>1. CASE k \in 1 .. rb.fill
        BY <1>3, <1>4, <3>1 DEF RingInv, StoredInOrder
      <3>2. ASSUME NEW j \in 1 .. n, k = rb.fill + j
            PROVE  Mem[At(rb.rd, k - 1)] = Len(out) + k
        <4>1. At(rb.rd, k - 1) = Place(j)
          <5>1. At(rb.rd, rb.fill + j - 1) = Place(j)
            BY <1>3
          <5>2. k - 1 = rb.fill + j - 1
            <6>1. rb.fill \in Nat /\ j \in Int
              BY <1>2, RingNumbers DEF RingInv
            <6> QED
              BY <3>2, <6>1
          <5> HIDE DEF Place
          <5> QED
            BY <5>1, <5>2
        <4> HIDE DEF Place
        <4>2. Mem[At(rb.rd, k - 1)] = wrote + j
          BY <1>4, <4>1
        <4>3. Len(out) + rb.fill = wrote /\ Len(out) \in Nat /\ rb.fill \in Nat /\ j \in Int
          BY <1>2, RingNumbers DEF RingInv, AllCounted
        <4> QED
          BY <3>2, <4>2, <4>3
      <3>3. k \notin 1 .. rb.fill => k - rb.fill \in 1 .. n /\ k = rb.fill + (k - rb.fill)
        <4>1. n \in Nat /\ rb.fill \in Nat /\ k \in Int /\ 1 <= k /\ k <= rb.fill + n
          <5>1. rb.fill \in Nat
            BY RingNumbers DEF RingInv
          <5> QED
            BY <1>2, <5>1
        <4> QED
          BY <4>1
      <3> QED
        BY <3>1, <3>2, <3>3
    <2> QED
      BY <1>1, <1>5, <2>1 DEF StoredInOrder
  <1> QED
    BY <1>6, <1>7, <1>8 DEF RingInv

\* A read takes the first of those stored.
LEMMA ReadCopiesStep ==
  ASSUME RingInv, ReadCopies
  PROVE  RingInv'
  <1> DEFINE n == Least(rb.fill, rdr.want)
             Bytes == [k \in 1 .. n |-> rb.mem[At(rb.rd, k - 1)]]
  <1> DEFINE p == After(rb.rd, n)
  <1>1. /\ rdr.pc = "copy" /\ rdr.ptr = rb.rd
        /\ out' = out \o Bytes
        /\ rb' = [rb EXCEPT !.fill = rb.fill - n, !.rd = p, !.canW = TRUE]
        /\ rdr' = [rdr EXCEPT !.want = rdr.want - n, !.ptr = p, !.total = rdr.total + n,
                              !.pc = IF rdr.want = n THEN "out" ELSE "flags"]
        /\ UNCHANGED <<wtr, wrote>>
    BY DEF ReadCopies, RingInv, OwnPointer
  <1>2. n \in 0 .. rb.fill /\ n <= rdr.want /\ n \in Nat
    BY RingNumbers DEF RingInv, Least
  <1> HIDE DEF n
  <1>3. /\ \A k \in 1 .. rb.fill - n : At(p, k - 1) = At(rb.rd, n + k - 1)
        /\ p \in 0 .. RbSize
        /\ rb.wr - p - (rb.fill - n) \in {-2 * RbSize, -RbSize, 0, RbSize}
    <2>1. /\ RbSize \in Nat \ {0} /\ rb.rd \in 0 .. RbSize /\ rb.wr \in 0 .. RbSize /\ rb.fill \in 0 .. RbSize
          /\ rb.wr - rb.rd - rb.fill \in {-2 * RbSize, -RbSize, 0, RbSize}
      BY RingNumbers DEF RingInv, Distance
    <2> QED
      BY <1>2, <2>1, ReadPlaces DEF p
  <1> HIDE DEF p
  <1>4. \A k \in 1 .. n : Bytes[k] = Len(out) + k
    <2>1. \A k \in 1 .. n : k \in 1 .. rb.fill
      BY <1>2, RingNumbers DEF RingInv
    <2> QED
      BY <2>1 DEF RingInv, StoredInOrder
  <1>5. Bytes \in Seq(Int) /\ Len(Bytes) = n
    <2>1. \A k \in 1 .. n : Bytes[k] \in Int
      BY <1>2, <1>4, RingNumbers DEF RingInv
    <2>2. Bytes \in [1 .. n -> Int]
      BY <2>1
    <2> HIDE DEF Bytes
    <2> QED
      BY <1>2, <2>2, Sequence
  <1> HIDE DEF Bytes
  <1>6. /\ out' \in Seq(Int) /\ Len(out') = Len(out) + n /\ Len(out) \in Nat
        /\ \A i \in 1 .. Len(out') : (i \in 1 .. Len(out) /\ out'[i] = out[i]) \/
                                     (i - Len(out) \in 1 .. n /\ out'[i] = Bytes[i - Len(out)])
    <2>1. out \in Seq(Int) /\ Len(out) \in Nat
      BY RingNumbers DEF RingInv
    <2>2. out' \in Seq(Int) /\ Len(out') = Len(out) + n
      BY <1>1, <1>5, <2>1, ConcatProperties
    <2>3. ASSUME NEW i \in 1 .. Len(out')
          PROVE  (i \in 1 .. Len(out) /\ out'[i] = out[i]) \/ (i - Len(out) \in 1 .. n /\ out'[i] = Bytes[i - Len(out)])
      BY <1>1, <1>2, <1>5, <2>1, <2>2
    <2> QED
      BY <2>1, <2>2, <2>3
  <1>7. /\ rb'.mem = rb.mem /\ rb'.wr = rb.wr /\ rb'.fill = rb.fill - n /\ rb'.rd = p /\ rb' \in Rings
    <2>1. rb.fill - n \in 0 .. RbSize
      BY <1>2, RingNumbers DEF RingInv
    <2> QED
      BY <1>1, <1>3, <2>1 DEF RingInv, RbTypes, Rings
  <1>8. RbTypes' /\ rdr'.ptr = p
    <2>1. rdr.want - n \in Nat /\ rdr.total + n \in Nat
      BY <1>2, RingNumbers DEF RingInv, RbTypes, Readers
    <2>2. rdr' \in Readers /\ rdr'.ptr = p
      BY <1>1, <1>3, <2>1 DEF RingInv, RbTypes, Readers, RdrPcs
    <2> QED
      BY <1>1, <1>6, <1>7, <2>2 DEF RingInv, RbTypes
  <1>9. AllCounted' /\ Distance' /\ OwnPointer'
    BY <1>1, <1>2, <1>3, <1>6, <1>7, <1>8, RingNumbers DEF RingInv, AllCounted, Distance, OwnPointer
  <1>10. ReadInOrder'
    <2>1. ASSUME NEW i \in 1 .. Len(out')
          PROVE  out'[i] = i
      <3>1. CASE i \in 1 .. Len(out) /\ out'[i] = out[i]
        BY <3>1 DEF RingInv, ReadInOrder
      <3>2. CASE i - Len(out) \in 1 .. n /\ out'[i] = Bytes[i - Len(out)]
        <4>1. out'[i] = Len(out) + (i - Len(out))
          BY <1>4, <3>2
        <4> QED
          BY <1>6, <4>1
      <3> QED
        BY <1>6, <3>1, <3>2
    <2> QED
      BY <2>1 DEF ReadInOrder
  <1>11. StoredInOrder'
    <2>1. ASSUME NEW k \in 1 .. rb.fill - n
          PROVE  rb.mem[At(p, k - 1)] = Len(out) + n + k
      <3>1. n + k \in 1 .. rb.fill /\ At(p, k - 1) = At(rb.rd, (n + k) - 1)
        BY <1>2, <1>3, RingNumbers DEF RingInv
      <3>2. rb.mem[At(rb.rd, (n + k) - 1)] = Len(out) + (n + k)
        BY <3>1 DEF RingInv, StoredInOrder
      <3> QED
        BY <1>2, <1>6, <3>1, <3>2
    <2> QED
      BY <1>6, <1>7, <2>1 DEF StoredInOrder
  <1> QED
    BY <1>8, <1>9, <1>10, <1>11 DEF RingInv

\* Only the two copies move bytes.
LEMMA RingStep ==
  ASSUME RingInv, RbNext
  PROVE  RingInv'
  <1>0. RbTypes /\ (rdr.pc # "idle" => rdr.ptr = rb.rd)
    BY DEF RingInv, OwnPointer
  <1> USE DEF RbTypes, Rings, Readers, Writers, RdrPcs
  <1>1. ASSUME NEW n \in Chunks, Write(n)
        PROVE  RingInv'
    <2>1. n \in Nat
      BY RbAssumption
    <2>2. RbTypes' /\ UNCHANGED <<rb, rdr, wrote, out>>
      BY <1>0, <1>1, <2>1 DEF Write, NoWrite
    <2> QED
      BY <1>0, <2>2, QuietStep
  <1>2. ASSUME NEW n \in Chunks, Read(n)
        PROVE  RingInv'
    <2>1. n \in Nat
      BY RbAssumption
    <2>2. RbTypes' /\ UNCHANGED <<rb, wtr, wrote, out>> /\ rdr'.ptr = rb.rd
      BY <1>0, <1>2, <2>1 DEF Read
    <2> QED
      BY <1>0, <2>2, QuietStep
  <1>3. CASE WriteWaits
    <2>1. /\ RbTypes' /\ UNCHANGED <<rdr, wrote, out>>
          /\ rb'.mem = rb.mem /\ rb'.rd = rb.rd /\ rb'.wr = rb.wr /\ rb'.fill = rb.fill
      <3>1. CASE wtr' = [wtr EXCEPT !.pc = "done"] /\ UNCHANGED rb
        BY <1>0, <1>3, <3>1 DEF WriteWaits
      <3>2. CASE wtr' = [wtr EXCEPT !.pc = "copy"] /\ rb' = [rb EXCEPT !.canW = FALSE]
        BY <1>0, <1>3, <3>2 DEF WriteWaits
      <3> QED
        BY <1>3, <3>1, <3>2 DEF WriteWaits
    <2> QED
      BY <1>0, <2>1, QuietStep
  <1>4. CASE WriteReturns
    <2>1. RbTypes' /\ UNCHANGED <<rb, rdr, wrote, out>>
      BY <1>0, <1>4 DEF WriteReturns, NoWrite
    <2> QED
      BY <1>0, <2>1, QuietStep
  <1>5. CASE ReadLooks
    <2>1. /\ RbTypes' /\ UNCHANGED <<rb, wtr, wrote, out>> /\ rdr.pc # "idle" /\ rdr'.ptr = rdr.ptr
      BY <1>0, <1>5 DEF ReadLooks
    <2> QED
      BY <1>0, <2>1, QuietStep
  <1>6. CASE ReadTakes
    <2>1. /\ RbTypes' /\ UNCHANGED <<wtr, wrote, out>> /\ rdr.pc # "idle" /\ rdr'.ptr = rdr.ptr
          /\ rb'.mem = rb.mem /\ rb'.rd = rb.rd /\ rb'.wr = rb.wr /\ rb'.fill = rb.fill
      BY <1>0, <1>6 DEF ReadTakes
    <2> QED
      BY <1>0, <2>1, QuietStep
  <1>7. CASE ReadWoken
    <2>1. /\ RbTypes' /\ UNCHANGED <<rb, wtr, wrote, out>> /\ rdr.pc # "idle" /\ rdr'.ptr = rdr.ptr
      BY <1>0, <1>7 DEF ReadWoken
    <2> QED
      BY <1>0, <2>1, QuietStep
  <1>8. CASE ReadReturns
    <2>1. /\ RbTypes' /\ UNCHANGED <<wtr, wrote, out>> /\ rdr'.pc = "idle"
          /\ rb'.mem = rb.mem /\ rb'.rd = rb.rd /\ rb'.wr = rb.wr /\ rb'.fill = rb.fill
      <3>1. NoRead \in Readers /\ NoRead.pc = "idle"
        BY RbAssumption DEF NoRead
      <3>2. /\ rb' \in Rings
            /\ rb'.mem = rb.mem /\ rb'.rd = rb.rd /\ rb'.wr = rb.wr /\ rb'.fill = rb.fill
        BY <1>0, <1>8 DEF ReadReturns
      <3> QED
        BY <1>0, <1>8, <3>1, <3>2 DEF ReadReturns
    <2> QED
      BY <1>0, <2>1, QuietStep
  <1>9. CASE Finish
    <2>1. /\ RbTypes' /\ UNCHANGED <<rdr, wtr, wrote, out>>
          /\ rb'.mem = rb.mem /\ rb'.rd = rb.rd /\ rb'.wr = rb.wr /\ rb'.fill = rb.fill
      BY <1>0, <1>9 DEF Finish
    <2> QED
      BY <1>0, <2>1, QuietStep
  <1>10. CASE WakeupReader
    <2>1. /\ RbTypes' /\ UNCHANGED <<rdr, wtr, wrote, out>>
          /\ rb'.mem = rb.mem /\ rb'.rd = rb.rd /\ rb'.wr = rb.wr /\ rb'.fill = rb.fill
      BY <1>0, <1>10 DEF WakeupReader
    <2> QED
      BY <1>0, <2>1, QuietStep
  <1> QED
    BY <1>1, <1>2, <1>3, <1>4, <1>5, <1>6, <1>7, <1>8, <1>9, <1>10, WriteCopiesStep, ReadCopiesStep
    DEF RbNext, RbReads, RbWrites

\* Read and stored bytes together are what was written.
LEMMA RingIsFifo ==
  ASSUME RingInv
  PROVE  RingFifo
  <1> DEFINE Rest == [k \in 1 .. rb.fill |-> rb.mem[At(rb.rd, k - 1)]]
             All == [k \in 1 .. wrote |-> k]
  <1>1. Rest \in Seq(Int) /\ Len(Rest) = rb.fill /\ \A k \in 1 .. rb.fill : Rest[k] = Len(out) + k
    <2>1. \A k \in 1 .. rb.fill : Rest[k] = Len(out) + k
      BY DEF RingInv, StoredInOrder
    <2>2. rb.fill \in Nat /\ Len(out) \in Nat
      BY RingNumbers DEF RingInv
    <2>3. \A k \in 1 .. rb.fill : Rest[k] \in Int
      <3> HIDE DEF Rest
      <3> QED
        BY <2>1, <2>2
    <2>4. Rest \in [1 .. rb.fill -> Int]
      BY <2>3
    <2> HIDE DEF Rest
    <2> QED
      BY <2>1, <2>2, <2>4, Sequence
  <1> HIDE DEF Rest
  <1>2. All \in Seq(Int) /\ Len(All) = wrote /\ \A k \in 1 .. wrote : All[k] = k
    BY RingNumbers DEF RingInv
  <1> HIDE DEF All
  <1>3. out \o Rest \in Seq(Int) /\ Len(out \o Rest) = wrote
    BY <1>1, RingNumbers DEF RingInv, AllCounted
  <1>4. ASSUME NEW i \in 1 .. wrote
        PROVE  (out \o Rest)[i] = i
    <2>1. Len(out) \in Nat /\ out \in Seq(Int) /\ Len(out) + rb.fill = wrote /\ rb.fill \in Nat
      BY RingNumbers DEF RingInv, AllCounted
    <2>2. CASE i \in 1 .. Len(out)
      BY <1>1, <2>1, <2>2 DEF RingInv, ReadInOrder
    <2>3. CASE i - Len(out) \in 1 .. rb.fill
      <3>1. (out \o Rest)[i] = Rest[i - Len(out)]
        BY <1>1, <2>1, <2>3
      <3>2. Rest[i - Len(out)] = Len(out) + (i - Len(out))
        BY <1>1, <2>3
      <3> QED
        BY <2>1, <3>1, <3>2
    <2>4. i \in 1 .. Len(out) \/ i - Len(out) \in 1 .. rb.fill
      BY <2>1
    <2> QED
      BY <2>2, <2>3, <2>4
  <1>5. out \o Rest = All
    BY <1>2, <1>3, <1>4, SeqEqual
  <1>6. (rb.wr - rb.rd - rb.fill) % RbSize = 0
    <2>1. RbSize \in Nat \ {0} /\ rb.wr - rb.rd - rb.fill \in {-2 * RbSize, -RbSize, 0, RbSize}
      BY RingNumbers DEF RingInv, Distance
    <2> QED
      BY <2>1, Multiples
  <1> QED
    BY <1>5, <1>6, RingNumbers DEF RingFifo, RingInv, Rest, All

\* The ring starts empty.
LEMMA RingStart ==
  (RbInit => RingInv) /\ (RingInv /\ [RbNext]_rbVars => RingInv')
  <1>1. ASSUME RbInit
        PROVE  RingInv
    <2>1. /\ rb.mem = [i \in 0 .. RbSize - 1 |-> 0] /\ rb.rd = 0 /\ rb.wr = 0 /\ rb.fill = 0
          /\ rb \in Rings
      BY <1>1, RbAssumption DEF RbInit, Rings
    <2>2. rdr \in Readers /\ wtr \in Writers /\ rdr.pc = "idle" /\ wrote = 0 /\ out = <<>>
      BY <1>1, RbAssumption DEF RbInit, Readers, Writers, RdrPcs, NoRead, NoWrite
    <2>3. RbTypes
      BY <2>1, <2>2 DEF RbTypes
    <2> QED
      BY <2>1, <2>2, <2>3 DEF RingInv, AllCounted, ReadInOrder, StoredInOrder, Distance, OwnPointer
  <1>2. ASSUME RingInv, UNCHANGED rbVars
        PROVE  RingInv'
    BY <1>2 DEF rbVars, RingInv, RbTypes, AllCounted, ReadInOrder, StoredInOrder, Distance, OwnPointer
  <1> QED
    BY <1>1, <1>2, RingStep

----------------------------------------------------------------------------
\* The video player's gate (video_player_play_frame(), decode_task()) lets no frame reach a
\* decoder that lacks the one before it, for any depth of the queue and any number of frames,
\* errors and restarts, outside the races NoSmear names.
THEOREM VideoInductive == VpSpec => []VpInv
  BY VpInvInit, VpInvStep, PTL DEF VpSpec

\* rb_read() and rb_write() are a queue of bytes, for every size of the ring and every request.
THEOREM RingInductive == RbSpec => []RingInv
  BY RingStart, PTL DEF RbSpec

\* The four parts of the media path between the wire and the devices, together.
PlaybackInv == VpInv /\ RingInv /\ MicrophoneInv /\ SpeakerInv

\* Each step of the run is one of a part, the others stand still.
LEMMA PlaybackInvStep ==
  ASSUME PlaybackInv, [PeersNext]_peersVars
  PROVE  PlaybackInv'
  <1>1. /\ [VpNext]_vpVars /\ [RbNext]_rbVars /\ [ApNext]_apVars /\ [AuNext]_auVars
    <2>1. CASE UNCHANGED playVars
      BY <2>1 DEF playVars
    <2>2. CASE Play("video", VpNext, <<rbVars, apVars, auVars>>)
      BY <2>2 DEF Play
    <2>3. CASE Play("ring", RbNext, <<vpVars, apVars, auVars>>)
      BY <2>3 DEF Play
    <2>4. CASE Play("microphone", ApNext, <<vpVars, rbVars, auVars>>)
      BY <2>4 DEF Play
    <2>5. CASE Play("speaker", AuNext, <<vpVars, rbVars, apVars>>)
      BY <2>5 DEF Play
    <2> QED
      BY <2>1, <2>2, <2>3, <2>4, <2>5 DEF PeersNext, Conn, Util, peersVars
  <1> QED
    BY <1>1, VpInvStep, RingStart, MicrophoneStart, SpeakerInductive DEF PlaybackInv

\* What the run checks of recording and playing holds for every size of the rings and queues
\* and any number of frames, errors, starts and stops.
THEOREM PlaybackCorrect == PeersSpec => []PlaybackSound
  <1>1. PeersInit => PlaybackInv
    BY VpInvInit, RingStart, MicrophoneStart, SpeakerInductive DEF PeersInit, PlaybackInv
  <1>2. PlaybackInv /\ [PeersNext]_peersVars => PlaybackInv'
    BY PlaybackInvStep
  <1>3. PlaybackInv => PlaybackSound
    <2>1. VpInv => NoSmear
      BY DEF VpInv, NoSmear
    <2>2. MicrophoneInv => StrayBounded
      BY DEF MicrophoneInv, StrayBounded
    <2> QED
      BY <2>1, <2>2, RingIsFifo, SpeakerInductive DEF PlaybackInv, PlaybackSound
  <1> QED
    BY <1>1, <1>2, <1>3, PTL DEF PeersSpec
=============================================================================
