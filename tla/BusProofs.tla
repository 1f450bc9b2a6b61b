----------------------------- MODULE BusProofs ------------------------------
(***************************************************************************)
(* Theorems about RawBus, for every set of buffers and of sinks, every     *)
(* choice of configurations, every loan limit and every modulus of the     *)
(* generation.                                                             *)
(***************************************************************************)
EXTENDS RawBus, FiniteSetTheorems, SequenceTheorems, TLAPS

Frame   == [slot : Slots, gen : 0..GenMod-1]
SlotRec == [refs : Nat, gen : 0..GenMod-1, counted : BOOLEAN]
Threads == Sinks \cup {Pump, Ctl}
Cfgs    == Configs \cup {NoConfig}
Entry   == [use : BOOLEAN, on : BOOLEAN, cfg : Cfgs, q : Seq(Frame),
            infl : Int, held : BOOLEAN, drefs : Int, run : BOOLEAN]
PumpPcs == {"idle", "snap", "offer", "next"}
ConsPcs == {"none", "idle", "convert", "failed", "hand", "release", "lost", "parked"}
CtlPcs  == {"idle", "drain", "account", "release", "dispatch", "join", "wait"}
CtlOps  == {"none", "disable", "unregister", "drain"}

(* First(): a set of sinks that is not empty has a smallest element.       *)

\* First() of a set of sinks that is not empty is one of them.
LEMMA FirstIn ==
  ASSUME NEW S \in SUBSET Sinks, S # {}
  PROVE  First(S) \in S
  <1> DEFINE Below == {0..n : n \in S}
  <1>1. S \subseteq Nat
    BY RbAssumption
  <1>2. \A n \in Nat : IsFiniteSet(0..n)
    BY FS_Interval
  <1>3. Below \subseteq FiniteSubsetsOf(Nat) /\ Below # {}
    <2>1. ASSUME NEW n \in S
          PROVE  0..n \in FiniteSubsetsOf(Nat)
      BY <1>1, <1>2 DEF FiniteSubsetsOf
    <2> QED
      BY <2>1
  <1>4. IsWellFoundedOn(StrictSubsetOrdering(Nat), FiniteSubsetsOf(Nat))
    BY FS_StrictSubsetOrderingWellFounded
  <1> HIDE DEF Below
  <1>5. PICK x \in Below : \A y \in Below : <<y, x>> \notin StrictSubsetOrdering(Nat)
    BY <1>3, <1>4, WFMin
  <1>6. PICK n \in S : x = 0..n
    BY DEF Below
  <1>7. ASSUME NEW r \in S, ~(n <= r)
        PROVE  FALSE
    <2>1. 0..r \in Below
      BY DEF Below
    <2>2. r \in Nat /\ n \in Nat /\ r < n
      BY <1>1, <1>7
    <2>3. 0..r \subseteq 0..n /\ 0..r # 0..n /\ 0..n \subseteq Nat
      <3>1. n \in 0..n /\ n \notin 0..r
        BY <2>2
      <3> QED
        BY <2>2, <3>1
    <2>4. <<0..r, 0..n>> \in StrictSubsetOrdering(Nat)
      BY <2>3 DEF StrictSubsetOrdering
    <2> QED
      BY <2>1, <2>4, <1>5, <1>6
  <1> QED
    BY <1>7 DEF First

\* Two sets have as many elements when a function pairs them off.
LEMMA SameSize ==
  ASSUME NEW S, NEW T, IsFiniteSet(S), NEW f \in [S -> T],
         \A a \in S, b \in S : f[a] = f[b] => a = b,
         \A z \in T : \E y \in S : f[y] = z
  PROVE  Cardinality(T) = Cardinality(S)
  <1>1. f \in Injection(S, T)
    BY DEF Injection, IsInjective
  <1>2. f \in Surjection(S, T)
    BY DEF Surjection
  <1>3. ExistsBijection(S, T)
    BY <1>1, <1>2 DEF ExistsBijection, Bijection
  <1> QED
    BY <1>3, FS_Bijection

(* Who holds a slot: the holders of Queued() and InHand() in a table t and *)
(* a list of tasks c.                                                      *)

QueuedIn(t, sl) == UNION {{s} \X {k \in DOMAIN t[s].q : t[s].q[k].slot = sl} : s \in Sinks}
HandsIn(c, sl)  == {s \in Sinks : c[s].f.slot = sl}

\* A member of QueuedIn is a place in a sink's queue with a frame of the slot.
LEMMA QueuedMember ==
  ASSUME NEW t, NEW sl, NEW x
  PROVE  x \in QueuedIn(t, sl) <=>
           \E s \in Sinks : \E k \in DOMAIN t[s].q : x = <<s, k>> /\ t[s].q[k].slot = sl
  BY DEF QueuedIn

\* A slot is queued in finitely many places.
LEMMA QueuedFinite ==
  ASSUME NEW t, NEW sl, \A s \in Sinks : t[s].q \in Seq(Frame)
  PROVE  IsFiniteSet(QueuedIn(t, sl))
  <1> DEFINE Part(s) == {s} \X {k \in DOMAIN t[s].q : t[s].q[k].slot = sl}
             F == [s \in Sinks |-> Part(s)]
             Parts == {Part(s) : s \in Sinks}
  <1>1. F \in Surjection(Sinks, Parts)
    BY DEF Surjection
  <1>2. IsFiniteSet(Parts)
    <2> HIDE DEF F, Parts
    <2> QED
      BY <1>1, RbAssumption, FS_Surjection
  <1>3. ASSUME NEW s \in Sinks
        PROVE  IsFiniteSet(Part(s))
    <2> DEFINE K == {k \in DOMAIN t[s].q : t[s].q[k].slot = sl}
    <2>1. DOMAIN t[s].q = 1..Len(t[s].q) /\ Len(t[s].q) \in Nat
      BY LenProperties
    <2>2. IsFiniteSet(1..Len(t[s].q))
      BY <2>1, FS_Interval
    <2>3. K \in SUBSET (1..Len(t[s].q))
      BY <2>1
    <2> HIDE DEF K
    <2>4. IsFiniteSet(K)
      BY <2>2, <2>3, FS_Subset
    <2>5. IsFiniteSet({s} \X K)
      BY <2>4, FS_Singleton, FS_Product
    <2> QED
      BY <2>5 DEF K
  <1>4. \A T \in Parts : IsFiniteSet(T)
    BY <1>3
  <1> HIDE DEF Part, F
  <1>5. IsFiniteSet(UNION Parts)
    <2> HIDE DEF Parts
    <2> QED
      BY <1>2, <1>4, FS_UNION
  <1> QED
    BY <1>5 DEF QueuedIn, Part

\* Tables with the same queues queue a slot in the same places.
LEMMA QueuedSame ==
  ASSUME NEW t, NEW u, NEW sl, \A s \in Sinks : u[s].q = t[s].q
  PROVE  QueuedIn(u, sl) = QueuedIn(t, sl)
  <1>1. \A x : x \in QueuedIn(u, sl) <=> x \in QueuedIn(t, sl)
    BY QueuedMember
  <1> QED
    BY <1>1

\* The count of a slot's queued frames after one frame joined a queue.
LEMMA QueuedAppend ==
  ASSUME NEW t, NEW u, NEW s \in Sinks, NEW f \in Frame, NEW sl,
         \A r \in Sinks : t[r].q \in Seq(Frame),
         \A r \in Sinks \ {s} : u[r].q = t[r].q,
         u[s].q = Append(t[s].q, f)
  PROVE  Cardinality(QueuedIn(u, sl)) =
           Cardinality(QueuedIn(t, sl)) + (IF f.slot = sl THEN 1 ELSE 0)
  <1> DEFINE n == Len(t[s].q) + 1
             x == <<s, n>>
  <1>1. /\ DOMAIN t[s].q = 1..(n-1) /\ n \in Nat
        /\ DOMAIN u[s].q = 1..n
        /\ \A k \in 1..(n-1) : u[s].q[k] = t[s].q[k]
        /\ u[s].q[n] = f
    BY LenProperties, AppendProperties
  <1> HIDE DEF n
  <1>2. IsFiniteSet(QueuedIn(t, sl))
    BY QueuedFinite
  <1>3. x \notin QueuedIn(t, sl)
    BY <1>1, QueuedMember
  <1>4. ASSUME NEW y, y # x
        PROVE  y \in QueuedIn(u, sl) <=> y \in QueuedIn(t, sl)
    <2>1. ASSUME NEW k
          PROVE  (k \in DOMAIN u[s].q /\ y = <<s, k>> /\ u[s].q[k].slot = sl)
                   <=> (k \in DOMAIN t[s].q /\ y = <<s, k>> /\ t[s].q[k].slot = sl)
      BY <1>1, <1>4
    <2>2. (\E k \in DOMAIN u[s].q : y = <<s, k>> /\ u[s].q[k].slot = sl)
            <=> (\E k \in DOMAIN t[s].q : y = <<s, k>> /\ t[s].q[k].slot = sl)
      BY <2>1
    <2>3. ASSUME NEW r \in Sinks
          PROVE  (\E k \in DOMAIN u[r].q : y = <<r, k>> /\ u[r].q[k].slot = sl)
                   <=> (\E k \in DOMAIN t[r].q : y = <<r, k>> /\ t[r].q[k].slot = sl)
      <3>1. CASE r = s
        BY <2>2, <3>1
      <3>2. CASE r # s
        BY <3>2
      <3> QED
        BY <3>1, <3>2
    <2> QED
      BY <2>3, QueuedMember
  <1>5. x \in QueuedIn(u, sl) <=> f.slot = sl
    BY <1>1, QueuedMember
  <1>6. CASE f.slot = sl
    <2>1. QueuedIn(u, sl) = QueuedIn(t, sl) \cup {x}
      <3>1. \A y : y \in QueuedIn(u, sl) <=> y \in QueuedIn(t, sl) \cup {x}
        BY <1>4, <1>5, <1>6
      <3> QED
        BY <3>1
    <2> QED
      BY <2>1, <1>2, <1>3, <1>6, FS_AddElement
  <1>7. CASE f.slot # sl
    <2>1. QueuedIn(u, sl) = QueuedIn(t, sl)
      <3>1. \A y : y \in QueuedIn(u, sl) <=> y \in QueuedIn(t, sl)
        BY <1>3, <1>4, <1>5, <1>7
      <3> QED
        BY <3>1
    <2>2. Cardinality(QueuedIn(t, sl)) \in Nat
      BY <1>2, FS_CardinalityType
    <2> QED
      BY <2>1, <2>2, <1>7
  <1> QED
    BY <1>6, <1>7

\* The same after one frame left the head of a queue.
LEMMA QueuedTail ==
  ASSUME NEW t, NEW u, NEW s \in Sinks, NEW sl,
         \A r \in Sinks : t[r].q \in Seq(Frame),
         \A r \in Sinks \ {s} : u[r].q = t[r].q,
         t[s].q # <<>>, u[s].q = Tail(t[s].q)
  PROVE  Cardinality(QueuedIn(t, sl)) =
           Cardinality(QueuedIn(u, sl)) + (IF Head(t[s].q).slot = sl THEN 1 ELSE 0)
  <1> DEFINE n == Len(t[s].q)
             x == <<s, 1>>
             S == QueuedIn(u, sl)
             T == QueuedIn(t, sl) \ {x}
             f == [y \in S |-> IF y[1] = s THEN <<s, y[2] + 1>> ELSE y]
  <1>1. /\ n \in Nat \ {0} /\ DOMAIN t[s].q = 1..n
        /\ DOMAIN u[s].q = 1..(n-1)
        /\ \A k \in 1..(n-1) : u[s].q[k] = t[s].q[k+1]
        /\ Head(t[s].q) = t[s].q[1]
    <2>1. n \in Nat \ {0} /\ DOMAIN t[s].q = 1..n
      BY LenProperties, EmptySeq
    <2>2. /\ Tail(t[s].q) \in Seq(Frame) /\ Len(Tail(t[s].q)) = n - 1
          /\ \A k \in 1..(n-1) : Tail(t[s].q)[k] = t[s].q[k+1]
      BY HeadTailProperties
    <2>3. DOMAIN Tail(t[s].q) = 1..(n-1)
      BY <2>2, LenProperties
    <2> QED
      BY <2>1, <2>2, <2>3
  <1> HIDE DEF n
  <1>2. IsFiniteSet(QueuedIn(t, sl))
    BY QueuedFinite
  <1>3. x \in QueuedIn(t, sl) <=> Head(t[s].q).slot = sl
    BY <1>1, QueuedMember
  <1>4. IsFiniteSet(S)
    <2>1. u[s].q \in Seq(Frame)
      BY HeadTailProperties
    <2> QED
      BY <2>1, QueuedFinite
  <1>5. ASSUME NEW y \in S
        PROVE  /\ f[y] \in T
               /\ y[1] = s => y = <<s, y[2]>> /\ y[2] \in Nat
    <2>1. PICK r \in Sinks : \E k \in DOMAIN u[r].q : y = <<r, k>> /\ u[r].q[k].slot = sl
      BY <1>5, QueuedMember
    <2>k. PICK k \in DOMAIN u[r].q : y = <<r, k>> /\ u[r].q[k].slot = sl
      BY <2>1
    <2>2. CASE r = s
      <3>1. k \in 1..(n-1) /\ u[s].q[k].slot = sl
        BY <1>1, <2>k, <2>2
      <3>2. k + 1 \in DOMAIN t[s].q /\ t[s].q[k+1].slot = sl /\ k + 1 # 1 /\ k \in Nat
        BY <1>1, <3>1
      <3>3. f[y] = <<s, k + 1>>
        BY <2>k, <2>2
      <3> QED
        BY <2>k, <2>2, <3>2, <3>3, QueuedMember
    <2>3. CASE r # s
      <3>1. f[y] = y /\ y[1] # s
        BY <2>k, <2>3
      <3>2. y \in QueuedIn(t, sl)
        BY <2>k, <2>3, QueuedMember
      <3> QED
        BY <3>1, <3>2, <2>k, <2>3
    <2> QED
      BY <2>2, <2>3
  <1>6. ASSUME NEW a \in S, NEW b \in S, f[a] = f[b]
        PROVE  a = b
    <2>1. (a[1] = s => f[a] = <<s, a[2] + 1>>) /\ (a[1] # s => f[a] = a)
      OBVIOUS
    <2>2. (b[1] = s => f[b] = <<s, b[2] + 1>>) /\ (b[1] # s => f[b] = b)
      OBVIOUS
    <2> HIDE DEF f
    <2>3. CASE a[1] = s /\ b[1] = s
      <3>1. a[2] + 1 = b[2] + 1
        BY <1>6, <2>1, <2>2, <2>3
      <3> QED
        BY <3>1, <2>3, <1>5
    <2>4. CASE a[1] # s /\ b[1] # s
      BY <1>6, <2>1, <2>2, <2>4
    <2>5. CASE (a[1] = s) # (b[1] = s)
      BY <1>6, <2>1, <2>2, <2>5
    <2> QED
      BY <2>3, <2>4, <2>5
  <1>7. ASSUME NEW z \in T
        PROVE  \E y \in S : f[y] = z
    <2>1. PICK r \in Sinks : \E k \in DOMAIN t[r].q : z = <<r, k>> /\ t[r].q[k].slot = sl
      BY QueuedMember
    <2>k. PICK k \in DOMAIN t[r].q : z = <<r, k>> /\ t[r].q[k].slot = sl
      BY <2>1
    <2>2. CASE r = s
      <3>1. k # 1
        BY <2>k, <2>2
      <3>2. k - 1 \in DOMAIN u[s].q /\ u[s].q[k-1].slot = sl /\ (k - 1) + 1 = k
        BY <1>1, <2>k, <2>2, <3>1
      <3>3. <<s, k-1>> \in S
        BY <3>2, QueuedMember
      <3>4. f[<<s, k-1>>] = <<s, k>>
        BY <3>2, <3>3
      <3> QED
        BY <3>3, <3>4, <2>k, <2>2
    <2>3. CASE r # s
      <3>1. z \in S
        BY <2>k, <2>3, QueuedMember
      <3>2. f[z] = z
        BY <3>1, <2>k, <2>3
      <3> QED
        BY <3>1, <3>2
    <2> QED
      BY <2>2, <2>3
  <1>8. f \in [S -> T]
    BY <1>5
  <1> HIDE DEF f, S, T
  <1>9. Cardinality(T) = Cardinality(S)
    BY <1>4, <1>6, <1>7, <1>8, SameSize
  <1>10. Cardinality(T) = IF x \in QueuedIn(t, sl) THEN Cardinality(QueuedIn(t, sl)) - 1
                                                   ELSE Cardinality(QueuedIn(t, sl))
    BY <1>2, FS_RemoveElement DEF T
  <1>11. Cardinality(QueuedIn(t, sl)) \in Nat
    BY <1>2, FS_CardinalityType
  <1> QED
    BY <1>3, <1>9, <1>10, <1>11 DEF S

\* The count of the tasks that hold a slot after one task's frame changed.
LEMMA HandChange ==
  ASSUME NEW c, NEW d, NEW s \in Sinks, NEW sl,
         \A r \in Sinks \ {s} : d[r].f.slot = c[r].f.slot
  PROVE  Cardinality(HandsIn(d, sl)) + (IF c[s].f.slot = sl THEN 1 ELSE 0) =
           Cardinality(HandsIn(c, sl)) + (IF d[s].f.slot = sl THEN 1 ELSE 0)
  <1>1. IsFiniteSet(HandsIn(c, sl)) /\ IsFiniteSet(HandsIn(d, sl))
    BY RbAssumption, FS_Subset DEF HandsIn
  <1>2. Cardinality(HandsIn(c, sl)) \in Nat /\ Cardinality(HandsIn(d, sl)) \in Nat
    BY <1>1, FS_CardinalityType
  <1>3. HandsIn(c, sl) \ {s} = HandsIn(d, sl) \ {s}
    BY DEF HandsIn
  <1>4. /\ s \in HandsIn(c, sl) <=> c[s].f.slot = sl
        /\ s \in HandsIn(d, sl) <=> d[s].f.slot = sl
    BY DEF HandsIn
  <1>5. Cardinality(HandsIn(c, sl) \ {s}) =
          IF s \in HandsIn(c, sl) THEN Cardinality(HandsIn(c, sl)) - 1
                                  ELSE Cardinality(HandsIn(c, sl))
    BY <1>1, FS_RemoveElement
  <1>6. Cardinality(HandsIn(d, sl) \ {s}) =
          IF s \in HandsIn(d, sl) THEN Cardinality(HandsIn(d, sl)) - 1
                                  ELSE Cardinality(HandsIn(d, sl))
    BY <1>1, FS_RemoveElement
  <1>7. Cardinality(HandsIn(c, sl) \ {s}) = Cardinality(HandsIn(d, sl) \ {s})
    BY <1>3
  <1> HIDE DEF HandsIn
  <1> QED
    BY <1>2, <1>4, <1>5, <1>6, <1>7

(* The inductive invariant.                                                *)

CtlRec == [pc : CtlPcs, op : CtlOps, todo : SUBSET Sinks, f : Frames]

BusTypes ==
  /\ slot \in [Slots -> SlotRec]
  /\ pinned \in Int /\ driver \in SUBSET Slots
  /\ ret \in [Threads -> Slots \cup {NoSlot}]
  /\ tab \in [Sinks -> Entry]
  /\ pump \in [pc : PumpPcs, slot : Slots \cup {NoSlot}, todo : SUBSET Sinks]
  /\ cons \in [Sinks -> [pc : ConsPcs, f : Frames]]
  /\ rbCtl \in CtlRec

\* Where each of the three kinds of task holds a frame and has sinks to visit.
PumpShape ==
  /\ pump.pc = "idle" <=> pump.slot = NoSlot
  /\ pump.pc \in {"idle", "snap"} => pump.todo = {}
  /\ pump.pc = "next" => pump.todo # {}

ConsShape ==
  \A s \in Sinks : cons[s].f.slot # NoSlot => cons[s].pc \in {"convert", "hand", "release", "lost"}

CtlShape ==
  /\ rbCtl.f.slot # NoSlot => rbCtl.pc \in {"account", "release"}
  /\ rbCtl.pc \in {"drain", "account", "release"} => rbCtl.todo # {} /\ rbCtl.op # "none"
  /\ rbCtl.pc = "idle" => rbCtl.op = "none"
  /\ rbCtl.pc \in {"dispatch", "join"} => rbCtl.op = "unregister"
  /\ rbCtl.op = "unregister" => \E s \in Sinks : rbCtl.todo = {s}

\* What an unregister under way has made sure of, as far as it came.
Leaving ==
  rbCtl.op = "unregister" =>
    \A s \in rbCtl.todo : /\ ~tab[s].on
                          /\ rbCtl.pc # "dispatch" => s \notin pump.todo
                          /\ rbCtl.pc = "join" => tab[s].q = <<>>

\* A buffer is with the driver or in one thread's hands exactly when no
\* reference to it is left.
Places ==
  /\ \A sl \in driver : slot[sl].refs = 0 /\ \A t \in Threads : ret[t] # sl
  /\ \A t \in Threads : ret[t] # NoSlot =>
       /\ slot[ret[t]].refs = 0
       /\ \A r \in Threads : ret[r] = ret[t] => r = t
  /\ \A sl \in Slots : slot[sl].refs = 0 => sl \in driver \/ \E t \in Threads : ret[t] = sl

BusInv == /\ BusTypes /\ PumpShape /\ ConsShape /\ CtlShape /\ Leaving
          /\ RefsMatchHolders /\ Places /\ FramesCurrent
          /\ PinnedMatches /\ InFlightMatches /\ GoneIsQuiet

----------------------------------------------------------------------------
(* Types                                                                   *)

\* The fields of a configuration that the steps read.
LEMMA CfgHas ==
  ASSUME NEW c \in Cfgs
  PROVE  c.push \in BOOLEAN /\ c.depth \in Nat
  <1>1. CASE c = NoConfig
    BY <1>1 DEF NoConfig
  <1>2. CASE c \in Configs
    BY <1>2, RbAssumption
  <1> QED
    BY <1>1, <1>2 DEF Cfgs

\* The fields of a sink's entry and of its task.
LEMMA EntryHas ==
  ASSUME BusTypes, NEW s \in Sinks
  PROVE  /\ tab[s] \in Entry /\ tab[s].q \in Seq(Frame) /\ tab[s].infl \in Int
         /\ tab[s].drefs \in Int /\ tab[s].use \in BOOLEAN /\ tab[s].on \in BOOLEAN
         /\ tab[s].held \in BOOLEAN /\ tab[s].run \in BOOLEAN /\ tab[s].cfg \in Cfgs
         /\ tab[s].cfg.push \in BOOLEAN /\ tab[s].cfg.depth \in Nat
         /\ cons[s].pc \in ConsPcs /\ cons[s].f \in Frames /\ s \in Nat
  <1>1. tab[s] \in Entry /\ cons[s] \in [pc : ConsPcs, f : Frames] /\ s \in Nat
    BY RbAssumption DEF BusTypes
  <1>2. cons[s].pc \in ConsPcs /\ cons[s].f \in Frames
    BY <1>1
  <1>3. /\ tab[s].q \in Seq(Frame) /\ tab[s].infl \in Int
        /\ tab[s].drefs \in Int /\ tab[s].use \in BOOLEAN /\ tab[s].on \in BOOLEAN
        /\ tab[s].held \in BOOLEAN /\ tab[s].run \in BOOLEAN /\ tab[s].cfg \in Cfgs
    BY <1>1 DEF Entry
  <1> QED
    BY <1>1, <1>2, <1>3, CfgHas

\* A table with one entry replaced.
LEMMA EntrySet ==
  ASSUME BusTypes, NEW s \in Sinks, NEW e \in Entry, tab' = [tab EXCEPT ![s] = e]
  PROVE  /\ tab' \in [Sinks -> Entry]
         /\ tab'[s] = e /\ \A r \in Sinks \ {s} : tab'[r] = tab[r]
  BY DEF BusTypes

\* The first frame of a queue, and what follows it.
LEMMA HeadFrame ==
  ASSUME BusTypes, NEW s \in Sinks, tab[s].q # <<>>
  PROVE  /\ Head(tab[s].q) \in Frame /\ Head(tab[s].q) \in Frames
         /\ Tail(tab[s].q) \in Seq(Frame)
  <1>1. tab[s].q \in Seq(Frame)
    BY EntryHas
  <1>2. Head(tab[s].q) \in Frame /\ Tail(tab[s].q) \in Seq(Frame)
    BY <1>1, HeadTailProperties
  <1>3. Frame \subseteq Frames
    BY DEF Frame, Frames
  <1> QED
    BY <1>2, <1>3

\* A slot with its count and flag replaced.
LEMMA SlotUpdate ==
  ASSUME NEW r \in SlotRec, NEW n \in Nat, NEW b \in BOOLEAN
  PROVE  /\ [r EXCEPT !.refs = n, !.counted = b] \in SlotRec
         /\ [r EXCEPT !.refs = n, !.counted = b].refs = n
         /\ [r EXCEPT !.refs = n, !.counted = b].gen = r.gen
         /\ [r EXCEPT !.refs = n, !.counted = b].counted = b
  BY DEF SlotRec

\* slot_release() keeps the types.
LEMMA DropRefTypes ==
  ASSUME BusTypes, NEW t \in Threads, NEW f \in Frames, DropRef(t, f)
  PROVE  /\ slot' \in [Slots -> SlotRec]
         /\ pinned' \in Int /\ ret' \in [Threads -> Slots \cup {NoSlot}]
  <1>1. CASE f.slot = NoSlot \/ slot[f.slot].gen # f.gen \/ slot[f.slot].refs = 0
    BY <1>1 DEF DropRef, buffers, BusTypes
  <1>2. CASE ~(f.slot = NoSlot \/ slot[f.slot].gen # f.gen \/ slot[f.slot].refs = 0)
    <2>1. f.slot \in Slots
      BY <1>2 DEF Frames
    <2> DEFINE last == slot[f.slot].refs = 1
               e == [slot[f.slot] EXCEPT !.refs = @ - 1, !.counted = @ /\ ~last]
    <2>2. slot[f.slot] \in SlotRec /\ slot[f.slot].refs # 0
      BY <1>2, <2>1 DEF BusTypes
    <2>3. e \in SlotRec
      <3>1. slot[f.slot].refs - 1 \in Nat
        BY <2>2 DEF SlotRec
      <3>2. (slot[f.slot].counted /\ ~last) \in BOOLEAN
        OBVIOUS
      <3> HIDE DEF last
      <3> QED
        BY <2>2, <3>1, <3>2, SlotUpdate
    <2>4. slot' = [slot EXCEPT ![f.slot] = e]
      BY <1>2, <2>1 DEF DropRef, BusTypes
    <2>5. slot' \in [Slots -> SlotRec]
      BY <2>3, <2>4, <2>1 DEF BusTypes
    <2>6. pinned' \in Int
      BY <1>2 DEF DropRef, BusTypes
    <2>7. ret' \in [Threads -> Slots \cup {NoSlot}]
      BY <1>2, <2>1 DEF DropRef, BusTypes
    <2> QED
      BY <2>5, <2>6, <2>7
  <1> QED
    BY <1>1, <1>2

\* The constants of the initial state have their types.
LEMMA Tiny ==
  /\ NoFrame \in Frames /\ NoSink \in Entry
  /\ IdleCtl \in CtlRec
  /\ NoPublish \in [pc : PumpPcs, slot : Slots \cup {NoSlot}, todo : SUBSET Sinks]
  /\ Sinks \subseteq Threads /\ Pump \in Threads /\ Ctl \in Threads
  BY RbAssumption, EmptySeq DEF NoFrame, NoSink, Cfgs, Frames, Entry, IdleCtl, CtlRec, NoPublish,
       CtlPcs, CtlOps, PumpPcs, Threads

\* The fields of an entry that actions change.
LEMMA EntryFlag ==
  ASSUME NEW e \in Entry, NEW b \in BOOLEAN
  PROVE  /\ [e EXCEPT !.on = b] \in Entry
         /\ [e EXCEPT !.run = b] \in Entry
         /\ [e EXCEPT !.held = b] \in Entry
  BY DEF Entry

\* An entry with a counter replaced.
LEMMA EntryCount ==
  ASSUME NEW e \in Entry, NEW n \in Int
  PROVE  /\ [e EXCEPT !.drefs = n] \in Entry
         /\ [e EXCEPT !.infl = n] \in Entry
         /\ [e EXCEPT !.infl = n, !.held = FALSE] \in Entry
  BY DEF Entry

\* An entry with its queue replaced.
LEMMA EntryQueue ==
  ASSUME NEW e \in Entry, NEW q \in Seq(Frame)
  PROVE  /\ [e EXCEPT !.q = q] \in Entry
         /\ \A n \in Int : [e EXCEPT !.q = q, !.infl = n] \in Entry
         /\ \A b \in BOOLEAN : [e EXCEPT !.q = q, !.held = b] \in Entry
  BY DEF Entry

\* The next entries of the table, one lemma for each way an action changes it.
LEMMA TakenTab ==
  ASSUME BusTypes, NEW s \in Sinks, OfferTaken(s), pump.slot # NoSlot
  PROVE  /\ ThisFrame \in Frame /\ ThisFrame \in Frames
         /\ tab' \in [Sinks -> Entry]
         /\ tab'[s] = [tab[s] EXCEPT !.q = Append(tab[s].q, ThisFrame), !.infl = tab[s].infl + 1]
         /\ \A r \in Sinks \ {s} : tab'[r] = tab[r]
  <1> DEFINE e == [tab[s] EXCEPT !.q = Append(tab[s].q, ThisFrame), !.infl = tab[s].infl + 1]
  <1>1. pump.slot \in Slots
    BY DEF BusTypes
  <1>2. ThisFrame \in Frame /\ ThisFrame \in Frames
    BY <1>1 DEF ThisFrame, Frame, Frames, BusTypes, SlotRec
  <1>3. Append(tab[s].q, ThisFrame) \in Seq(Frame)
    BY <1>2, EntryHas, AppendProperties
  <1>4. e \in Entry
    <2>1. tab[s].infl + 1 \in Int /\ tab[s] \in Entry
      BY EntryHas
    <2> QED
      BY <2>1, <1>3, EntryQueue
  <1>5. tab' = [tab EXCEPT ![s] = e]
    BY DEF OfferTaken, BusTypes
  <1> HIDE DEF e
  <1> QED
    BY <1>2, <1>4, <1>5, EntrySet DEF e

\* DROP_OLD: the oldest frame leaves the queue, the count goes down.
LEMMA EvictsTab ==
  ASSUME BusTypes, NEW s \in Sinks, OfferEvicts(s)
  PROVE  /\ tab' \in [Sinks -> Entry]
         /\ tab'[s] = [tab[s] EXCEPT !.q = Tail(tab[s].q), !.infl = tab[s].infl - 1]
         /\ \A r \in Sinks \ {s} : tab'[r] = tab[r]
  <1> DEFINE e == [tab[s] EXCEPT !.q = Tail(tab[s].q), !.infl = tab[s].infl - 1]
  <1>1. e \in Entry
    <2>1. tab[s].infl - 1 \in Int /\ tab[s] \in Entry
      BY EntryHas
    <2>2. Tail(tab[s].q) \in Seq(Frame)
      BY HeadFrame DEF OfferEvicts
    <2> QED
      BY <2>1, <2>2, EntryQueue
  <1>2. tab' = [tab EXCEPT ![s] = e]
    BY DEF OfferEvicts, BusTypes
  <1> HIDE DEF e
  <1> QED
    BY <1>1, <1>2, EntrySet DEF e

\* The frame a consumer takes leaves the queue.
LEMMA TakesTab ==
  ASSUME BusTypes, NEW s \in Sinks, Takes(s)
  PROVE  /\ tab' \in [Sinks -> Entry]
         /\ \E b \in BOOLEAN : tab'[s] = [tab[s] EXCEPT !.q = Tail(tab[s].q), !.held = b]
         /\ \A r \in Sinks \ {s} : tab'[r] = tab[r]
  <1> DEFINE b == ~(tab[s].cfg.mode = "converted") /\ ~tab[s].cfg.push
             e == [tab[s] EXCEPT !.q = Tail(tab[s].q), !.held = b]
  <1>1. b \in BOOLEAN
    OBVIOUS
  <1>2. tab' = [tab EXCEPT ![s] = e]
    BY DEF Takes, BusTypes
  <1> HIDE DEF b
  <1>3. e \in Entry
    <2>1. Tail(tab[s].q) \in Seq(Frame) /\ tab[s] \in Entry
      BY HeadFrame, EntryHas DEF Takes
    <2> QED
      BY <1>1, <2>1, EntryQueue
  <1>4. /\ tab' \in [Sinks -> Entry] /\ tab'[s] = e
        /\ \A r \in Sinks \ {s} : tab'[r] = tab[r]
    <2> HIDE DEF e
    <2> QED
      BY <1>2, <1>3, EntrySet
  <1> QED
    BY <1>1, <1>4

\* A conversion touches a flag of the entry only.
LEMMA ConvertsTab ==
  ASSUME BusTypes, NEW s \in Sinks, Converts(s)
  PROVE  /\ tab' \in [Sinks -> Entry]
         /\ \E b \in BOOLEAN : \/ tab'[s] = [tab[s] EXCEPT !.held = b]
                               \/ tab'[s] = [tab[s] EXCEPT !.on = b] /\ (b => tab[s].on)
         /\ \A r \in Sinks \ {s} : tab'[r] = tab[r]
  <1>1. PICK b \in BOOLEAN : \/ tab' = [tab EXCEPT ![s].held = b]
                             \/ tab' = [tab EXCEPT ![s].on = b] /\ (b => tab[s].on)
    <2>1. CASE tab' = [tab EXCEPT ![s].held = ~tab[s].cfg.push]
      BY <2>1
    <2>2. CASE \E on \in {tab[s].on, FALSE} : tab' = [tab EXCEPT ![s].on = on]
      BY <2>2, EntryHas
    <2> QED
      BY <2>1, <2>2 DEF Converts
  <1>2. CASE tab' = [tab EXCEPT ![s].held = b]
    <2> DEFINE e == [tab[s] EXCEPT !.held = b]
    <2>1. e \in Entry /\ tab' = [tab EXCEPT ![s] = e]
      BY <1>2, EntryHas, EntryFlag DEF BusTypes
    <2> QED
      BY <2>1, EntrySet
  <1>3. CASE tab' = [tab EXCEPT ![s].on = b] /\ (b => tab[s].on)
    <2> DEFINE e == [tab[s] EXCEPT !.on = b]
    <2>1. e \in Entry /\ tab' = [tab EXCEPT ![s] = e]
      BY <1>3, EntryHas, EntryFlag DEF BusTypes
    <2> QED
      BY <2>1, <1>3, EntrySet
  <1> QED
    BY <1>1, <1>2, <1>3

\* A failed conversion takes the frame off the count of a sink still registered.
LEMMA ConvertFailedTab ==
  ASSUME BusTypes, NEW s \in Sinks, ConvertFailed(s)
  PROVE  /\ tab' \in [Sinks -> Entry]
         /\ IF tab[s].use THEN tab'[s] = [tab[s] EXCEPT !.infl = tab[s].infl - 1]
                          ELSE tab'[s] = tab[s]
         /\ \A r \in Sinks \ {s} : tab'[r] = tab[r]
  <1> DEFINE e == [tab[s] EXCEPT !.infl = tab[s].infl - 1]
  <1>1. CASE tab[s].use
    <2>1. e \in Entry /\ tab' = [tab EXCEPT ![s] = e]
      <3>1. tab[s].infl - 1 \in Int /\ tab[s] \in Entry
        BY EntryHas
      <3>2. e \in Entry
        BY <3>1, EntryCount
      <3> QED
        BY <1>1, <3>2 DEF BusTypes, ConvertFailed
    <2> HIDE DEF e
    <2> QED
      BY <2>1, <1>1, EntrySet DEF e
  <1>2. CASE ~tab[s].use
    BY <1>2 DEF ConvertFailed, BusTypes
  <1> QED
    BY <1>1, <1>2

\* A consumer done with its frame takes it off the count.
LEMMA FinishesTab ==
  ASSUME BusTypes, NEW s \in Sinks, Finishes(s)
  PROVE  /\ tab' \in [Sinks -> Entry]
         /\ tab'[s] = [tab[s] EXCEPT !.infl = tab[s].infl - 1, !.held = FALSE]
         /\ \A r \in Sinks \ {s} : tab'[r] = tab[r]
  <1> DEFINE e == [tab[s] EXCEPT !.infl = tab[s].infl - 1, !.held = FALSE]
  <1>1. e \in Entry
    <2>1. tab[s].infl - 1 \in Int /\ tab[s] \in Entry
      BY EntryHas
    <2> QED
      BY <2>1, EntryCount
  <1>2. tab' = [tab EXCEPT ![s] = e]
    BY DEF Finishes, BusTypes
  <1> HIDE DEF e
  <1> QED
    BY <1>1, <1>2, EntrySet DEF e

\* Enable, Disable, Unregister, and the end of the wait for the dispatch.
LEMMA SwitchTab ==
  ASSUME BusTypes, NEW s \in Sinks, NEW b \in BOOLEAN,
         \/ tab' = [tab EXCEPT ![s].on = b] \/ tab' = [tab EXCEPT ![s].run = b]
  PROVE  /\ tab' \in [Sinks -> Entry]
         /\ \/ tab'[s] = [tab[s] EXCEPT !.on = b] /\ tab' = [tab EXCEPT ![s].on = b]
            \/ tab'[s] = [tab[s] EXCEPT !.run = b] /\ tab' = [tab EXCEPT ![s].run = b]
         /\ \A r \in Sinks \ {s} : tab'[r] = tab[r]
  <1>1. CASE tab' = [tab EXCEPT ![s].on = b]
    <2> DEFINE e == [tab[s] EXCEPT !.on = b]
    <2>1. e \in Entry /\ tab' = [tab EXCEPT ![s] = e]
      BY <1>1, EntryHas, EntryFlag DEF BusTypes
    <2> QED
      BY <2>1, <1>1, EntrySet
  <1>2. CASE tab' = [tab EXCEPT ![s].run = b]
    <2> DEFINE e == [tab[s] EXCEPT !.run = b]
    <2>1. e \in Entry /\ tab' = [tab EXCEPT ![s] = e]
      BY <1>2, EntryHas, EntryFlag DEF BusTypes
    <2> QED
      BY <2>1, <1>2, EntrySet
  <1> QED
    BY <1>1, <1>2

\* The publish moves on: one dispatch reference less.
LEMMA NextTab ==
  ASSUME BusTypes, NEW s \in Sinks, s = First(pump.todo), PublishNext
  PROVE  /\ tab' \in [Sinks -> Entry]
         /\ tab'[s] = [tab[s] EXCEPT !.drefs = tab[s].drefs - 1]
         /\ \A r \in Sinks \ {s} : tab'[r] = tab[r]
  <1> DEFINE e == [tab[s] EXCEPT !.drefs = tab[s].drefs - 1]
  <1>1. e \in Entry
    <2>1. tab[s].drefs - 1 \in Int /\ tab[s] \in Entry
      BY EntryHas
    <2> QED
      BY <2>1, EntryCount
  <1>2. tab' = [tab EXCEPT ![s] = e]
    BY DEF PublishNext, BusTypes
  <1> HIDE DEF e
  <1> QED
    BY <1>1, <1>2, EntrySet DEF e

\* The publish begins: one dispatch reference more for every sink on the list.
LEMMA SnapshotTab ==
  ASSUME BusTypes, PublishSnapshot
  PROVE  /\ tab' \in [Sinks -> Entry]
         /\ \A s \in Sinks : tab'[s] = IF tab[s].use /\ tab[s].on
                                         THEN [tab[s] EXCEPT !.drefs = tab[s].drefs + 1]
                                         ELSE tab[s]
  <1>1. \A s \in Sinks : tab'[s] = IF tab[s].use /\ tab[s].on
                                     THEN [tab[s] EXCEPT !.drefs = tab[s].drefs + 1]
                                     ELSE tab[s]
    BY DEF PublishSnapshot
  <1>2. ASSUME NEW s \in Sinks
        PROVE  tab'[s] \in Entry
    <2>1. tab[s].drefs + 1 \in Int /\ tab[s] \in Entry
      BY EntryHas
    <2> QED
      BY <1>1, <2>1, EntryCount
  <1>3. tab' = [s \in Sinks |-> tab'[s]]
    BY DEF PublishSnapshot
  <1> QED
    BY <1>1, <1>2, <1>3

\* A registered sink starts with an empty queue, disabled.
LEMMA RegisterTab ==
  ASSUME BusTypes, NEW c \in Configs, NEW s \in Sinks, s = First({r \in Sinks : ~tab[r].use}),
         Register(c)
  PROVE  /\ tab' \in [Sinks -> Entry]
         /\ tab'[s].use = TRUE /\ tab'[s].on = FALSE /\ tab'[s].cfg = c /\ tab'[s].q = <<>>
         /\ tab'[s].infl = 0 /\ tab'[s].drefs = 0
         /\ \A r \in Sinks \ {s} : tab'[r] = tab[r]
  <1> DEFINE e == [NoSink EXCEPT !.use = TRUE, !.cfg = c, !.run = c.push]
  <1>1. c \in Cfgs /\ c.push \in BOOLEAN
    BY CfgHas DEF Cfgs
  <1>2. NoSink \in Entry
    BY Tiny
  <1>3. e \in Entry
    BY <1>1, <1>2 DEF Entry
  <1>4. /\ e.use = TRUE /\ e.on = FALSE /\ e.cfg = c /\ e.q = <<>>
        /\ e.infl = 0 /\ e.drefs = 0
    BY DEF NoSink
  <1>5. tab' = [tab EXCEPT ![s] = e]
    BY DEF Register
  <1> HIDE DEF e
  <1> QED
    BY <1>3, <1>4, <1>5, EntrySet

\* An unregistered sink leaves an empty entry.
LEMMA UnregisteredTab ==
  ASSUME BusTypes, NEW s \in Sinks, Unregistered(s)
  PROVE  /\ tab' \in [Sinks -> Entry]
         /\ tab'[s] = NoSink
         /\ \A r \in Sinks \ {s} : tab'[r] = tab[r]
  BY Tiny, EntrySet DEF Unregistered

\* A drain takes a frame off the queue, then off the count.
LEMMA DrainTab ==
  ASSUME BusTypes, NEW s \in Sinks, s = Drained, DrainPops \/ DrainAccounts
  PROVE  /\ tab' \in [Sinks -> Entry]
         /\ DrainPops => tab'[s] = [tab[s] EXCEPT !.q = Tail(tab[s].q)]
         /\ DrainAccounts => tab'[s] = [tab[s] EXCEPT !.infl = tab[s].infl - 1]
         /\ \A r \in Sinks \ {s} : tab'[r] = tab[r]
  <1>1. CASE DrainPops
    <2> DEFINE e == [tab[s] EXCEPT !.q = Tail(tab[s].q)]
    <2>1. e \in Entry
      <3>1. Tail(tab[s].q) \in Seq(Frame) /\ tab[s] \in Entry
        BY <1>1, HeadFrame, EntryHas DEF DrainPops
      <3> QED
        BY <3>1, EntryQueue
    <2>2. tab' = [tab EXCEPT ![s] = e]
      BY <1>1 DEF DrainPops, BusTypes
    <2>3. ~DrainAccounts
      BY <1>1 DEF DrainPops, DrainAccounts, CtlIn
    <2> HIDE DEF e
    <2> QED
      BY <2>1, <2>2, <2>3, EntrySet DEF e
  <1>2. CASE DrainAccounts
    <2> DEFINE e == [tab[s] EXCEPT !.infl = tab[s].infl - 1]
    <2>1. e \in Entry
      <3>1. tab[s].infl - 1 \in Int /\ tab[s] \in Entry
        BY EntryHas
      <3> QED
        BY <3>1, EntryCount
    <2>2. tab' = [tab EXCEPT ![s] = e]
      BY <1>2 DEF DrainAccounts, BusTypes
    <2>3. ~DrainPops
      BY <1>2 DEF DrainPops, DrainAccounts, CtlIn
    <2> HIDE DEF e
    <2> QED
      BY <2>1, <2>2, <2>3, EntrySet DEF e
  <1> QED
    BY <1>1, <1>2

\* The sink being drained is one of those to drain.
LEMMA DrainedIn ==
  ASSUME BusTypes, CtlShape, rbCtl.pc \in {"drain", "account", "release"}
  PROVE  Drained \in rbCtl.todo /\ Drained \in Sinks
  BY FirstIn DEF BusTypes, CtlRec, CtlShape, Drained

\* The sink offered the frame is one of those to offer it to.
LEMMA OfferedIn ==
  ASSUME BusTypes, NEW s \in Sinks, OffersTo(s)
  PROVE  s \in pump.todo /\ pump.pc = "offer"
  BY FirstIn DEF BusTypes, OffersTo, PumpIn

\* A task's move changes that task only.
LEMMA ConsSet ==
  ASSUME BusTypes, NEW s \in Sinks, NEW pc \in ConsPcs, NEW f \in Frames, ConsGo(s, pc, f)
  PROVE  /\ cons' \in [Sinks -> [pc : ConsPcs, f : Frames]]
         /\ cons'[s].pc = pc /\ cons'[s].f = f
         /\ \A r \in Sinks \ {s} : cons'[r] = cons[r]
  BY DEF BusTypes, ConsGo

\* The reference a queued frame takes.
LEMMA TakenSlot ==
  ASSUME BusTypes, NEW s \in Sinks, OfferTaken(s), pump.slot \in Slots
  PROVE  /\ slot' \in [Slots -> SlotRec]
         /\ slot'[pump.slot].refs = slot[pump.slot].refs + 1
         /\ slot'[pump.slot].gen = slot[pump.slot].gen
         /\ slot'[pump.slot].counted = TRUE
         /\ \A sl \in Slots \ {pump.slot} : slot'[sl] = slot[sl]
  <1> DEFINE e == [slot[pump.slot] EXCEPT !.refs = slot[pump.slot].refs + 1, !.counted = TRUE]
  <1>1. slot \in [Slots -> SlotRec]
    BY DEF BusTypes, SlotRec
  <1>2. slot[pump.slot] \in SlotRec /\ slot[pump.slot].refs + 1 \in Nat
    BY <1>1 DEF SlotRec
  <1>3. /\ e \in SlotRec /\ e.refs = slot[pump.slot].refs + 1
        /\ e.gen = slot[pump.slot].gen /\ e.counted = TRUE
    BY <1>2, SlotUpdate
  <1>4. slot' = [slot EXCEPT ![pump.slot] = e]
    BY <1>1 DEF OfferTaken
  <1> HIDE DEF e
  <1> QED
    BY <1>1, <1>3, <1>4

\* The pump's steps keep the types.
LEMMA PumpTypes ==
  ASSUME BusInv, PumpStep
  PROVE  BusTypes'
  <1>t. BusTypes /\ PumpShape
    BY DEF BusInv
  <1>f. pump.slot # NoSlot => ThisFrame \in Frames
    BY <1>t DEF ThisFrame, Frames, BusTypes, SlotRec
  <1>1. CASE PublishSnapshot
    <2>1. tab' \in [Sinks -> Entry]
      BY <1>t, <1>1, SnapshotTab
    <2>2. pump' \in [pc : PumpPcs, slot : Slots \cup {NoSlot}, todo : SUBSET Sinks]
      BY <1>t, <1>1 DEF PublishSnapshot, BusTypes, PumpPcs
    <2> QED
      BY <1>t, <1>1, <2>1, <2>2 DEF PublishSnapshot, BusTypes, buffers
  <1>2. CASE PublishNext
    <2>1. First(pump.todo) \in Sinks
      BY <1>t, <1>2, FirstIn DEF PublishNext, PumpIn, PumpShape, BusTypes
    <2>2. tab' \in [Sinks -> Entry]
      BY <1>t, <1>2, <2>1, NextTab
    <2>3. pump' \in [pc : PumpPcs, slot : Slots \cup {NoSlot}, todo : SUBSET Sinks]
      BY <1>t, <1>2 DEF PublishNext, BusTypes, PumpPcs
    <2> QED
      BY <1>t, <1>2, <2>2, <2>3 DEF PublishNext, BusTypes, buffers
  <1>3. CASE PublishEnds
    <2>1. pump.slot # NoSlot
      BY <1>t, <1>3 DEF PublishEnds, PumpIn, PumpShape
    <2>2. /\ slot' \in [Slots -> SlotRec]
          /\ pinned' \in Int /\ ret' \in [Threads -> Slots \cup {NoSlot}]
      BY <1>t, <1>f, <1>3, <2>1, DropRefTypes, Tiny DEF PublishEnds
    <2> QED
      BY <1>t, <1>3, <2>2, Tiny DEF PublishEnds, BusTypes, SlotRec
  <1>4. ASSUME NEW s \in Sinks, OfferPassed(s) \/ OfferDropped(s)
        PROVE  BusTypes'
    <2>1. pump' \in [pc : PumpPcs, slot : Slots \cup {NoSlot}, todo : SUBSET Sinks]
      BY <1>t, <1>4 DEF OfferPassed, OfferDropped, Offered, BusTypes, PumpPcs
    <2> QED
      BY <1>t, <1>4, <2>1 DEF OfferPassed, OfferDropped, BusTypes, buffers
  <1>5. ASSUME NEW s \in Sinks, OfferTaken(s)
        PROVE  BusTypes'
    <2>1. pump.slot \in Slots
      BY <1>t, <1>5, OfferedIn DEF OfferTaken, PumpShape, BusTypes
    <2>2. tab' \in [Sinks -> Entry]
      BY <1>t, <1>5, <2>1, RbAssumption, TakenTab
    <2>3. pump' \in [pc : PumpPcs, slot : Slots \cup {NoSlot}, todo : SUBSET Sinks]
      BY <1>t, <1>5 DEF OfferTaken, Offered, BusTypes, PumpPcs
    <2>4. slot' \in [Slots -> SlotRec]
      BY <1>t, <1>5, <2>1, TakenSlot
    <2>5. pinned' \in Int
      <3>1. pinned \in Int
        BY <1>t DEF BusTypes
      <3>2. pinned' = pinned \/ pinned' = pinned + 1
        BY <1>5 DEF OfferTaken
      <3> QED
        BY <3>1, <3>2
    <2> QED
      <3>1. UNCHANGED <<ret, driver, cons, rbCtl>>
        BY <1>5 DEF OfferTaken
      <3> QED
        BY <1>t, <3>1, <2>2, <2>3, <2>4, <2>5 DEF BusTypes, SlotRec
  <1>6. ASSUME NEW s \in Sinks, OfferEvicts(s)
        PROVE  BusTypes'
    <2>1. Head(tab[s].q) \in Frames
      BY <1>t, <1>6, HeadFrame DEF OfferEvicts
    <2>2. /\ slot' \in [Slots -> SlotRec]
          /\ pinned' \in Int /\ ret' \in [Threads -> Slots \cup {NoSlot}]
      BY <1>t, <1>6, <2>1, DropRefTypes, Tiny DEF OfferEvicts
    <2>3. tab' \in [Sinks -> Entry]
      BY <1>t, <1>6, EvictsTab
    <2> QED
      BY <1>t, <1>6, <2>2, <2>3 DEF OfferEvicts, BusTypes, SlotRec
  <1> QED
    BY <1>1, <1>2, <1>3, <1>4, <1>5, <1>6 DEF PumpStep

\* A step of a consumer keeps the types.
LEMMA ConsTypes ==
  ASSUME BusInv, NEW s \in Sinks, ConsStep(s)
  PROVE  BusTypes'
  <1>t. BusTypes
    BY DEF BusInv
  <1>s. s \in Threads /\ NoFrame \in Frames
    BY Tiny
  <1>c. cons[s].f \in Frames
    BY <1>t, EntryHas
  <1>1. CASE Takes(s)
    <2>1. tab' \in [Sinks -> Entry]
      BY <1>t, <1>1, TakesTab
    <2>2. Head(tab[s].q) \in Frames
      BY <1>t, <1>1, HeadFrame DEF Takes
    <2>3. cons' \in [Sinks -> [pc : ConsPcs, f : Frames]]
      <3>1. CASE ConsGo(s, "convert", Head(tab[s].q))
        BY <1>t, <2>2, <3>1, ConsSet DEF ConsPcs
      <3>2. CASE ConsGo(s, "hand", Head(tab[s].q))
        BY <1>t, <2>2, <3>2, ConsSet DEF ConsPcs
      <3> QED
        BY <1>1, <3>1, <3>2 DEF Takes
    <2> QED
      BY <1>t, <1>1, <2>1, <2>3 DEF Takes, BusTypes, buffers
  <1>2. CASE Converts(s)
    <2>1. tab' \in [Sinks -> Entry]
      BY <1>t, <1>2, ConvertsTab
    <2>2. /\ slot' \in [Slots -> SlotRec]
          /\ pinned' \in Int /\ ret' \in [Threads -> Slots \cup {NoSlot}]
      BY <1>t, <1>s, <1>c, <1>2, DropRefTypes DEF Converts
    <2>3. cons' \in [Sinks -> [pc : ConsPcs, f : Frames]]
      <3>1. CASE ConsGo(s, "hand", NoFrame)
        BY <1>t, <1>s, <3>1, ConsSet DEF ConsPcs
      <3>2. CASE ConsGo(s, "failed", NoFrame)
        BY <1>t, <1>s, <3>2, ConsSet DEF ConsPcs
      <3> QED
        BY <1>2, <3>1, <3>2 DEF Converts
    <2> QED
      BY <1>t, <1>2, <2>1, <2>2, <2>3 DEF Converts, BusTypes, SlotRec
  <1>3. CASE ConvertFailed(s)
    <2>1. tab' \in [Sinks -> Entry]
      BY <1>t, <1>3, ConvertFailedTab
    <2>2. cons' \in [Sinks -> [pc : ConsPcs, f : Frames]]
      <3>1. CASE ConsGo(s, "idle", NoFrame)
        BY <1>t, <1>s, <3>1, ConsSet DEF ConsPcs
      <3>2. CASE ConsGo(s, "none", NoFrame)
        BY <1>t, <1>s, <3>2, ConsSet DEF ConsPcs
      <3> QED
        BY <1>3, <3>1, <3>2 DEF ConvertFailed
    <2> QED
      BY <1>t, <1>3, <2>1, <2>2 DEF ConvertFailed, BusTypes, buffers
  <1>4. CASE Finishes(s)
    <2>1. tab' \in [Sinks -> Entry]
      BY <1>t, <1>4, FinishesTab
    <2>2. cons' \in [Sinks -> [pc : ConsPcs, f : Frames]]
      BY <1>t, <1>c, <1>4, ConsSet DEF ConsPcs, Finishes
    <2> QED
      BY <1>t, <1>4, <2>1, <2>2 DEF Finishes, BusTypes, buffers
  <1>5. CASE Releases(s)
    <2>1. cons' \in [Sinks -> [pc : ConsPcs, f : Frames]]
      <3>1. CASE ConsGo(s, "idle", NoFrame)
        BY <1>t, <1>s, <3>1, ConsSet DEF ConsPcs
      <3>2. CASE ConsGo(s, "none", NoFrame)
        BY <1>t, <1>s, <3>2, ConsSet DEF ConsPcs
      <3> QED
        BY <1>5, <3>1, <3>2 DEF Releases
    <2>2. /\ slot' \in [Slots -> SlotRec]
          /\ pinned' \in Int /\ ret' \in [Threads -> Slots \cup {NoSlot}]
      BY <1>t, <1>s, <1>c, <1>5, DropRefTypes DEF Releases
    <2> QED
      BY <1>t, <1>5, <2>1, <2>2 DEF Releases, BusTypes, SlotRec
  <1>6. CASE ReleaseRefused(s)
    <2>1. cons' \in [Sinks -> [pc : ConsPcs, f : Frames]]
      BY <1>t, <1>c, <1>6, ConsSet DEF ConsPcs, ReleaseRefused
    <2> QED
      BY <1>t, <1>6, <2>1 DEF ReleaseRefused, BusTypes, buffers
  <1>7. CASE TaskParks(s)
    <2>1. cons' \in [Sinks -> [pc : ConsPcs, f : Frames]]
      BY <1>t, <1>s, <1>7, ConsSet DEF ConsPcs, TaskParks
    <2> QED
      BY <1>t, <1>7, <2>1 DEF TaskParks, BusTypes, buffers
  <1> QED
    BY <1>1, <1>2, <1>3, <1>4, <1>5, <1>6, <1>7 DEF ConsStep

\* The control task's record with fields replaced.
LEMMA CtlSet ==
  ASSUME NEW c, c \in CtlRec
  PROVE  /\ \A p \in CtlPcs : [c EXCEPT !.pc = p] \in CtlRec
         /\ \A p \in CtlPcs, f \in Frames :
              [c EXCEPT !.pc = p, !.f = f] \in CtlRec
         /\ \A T \in SUBSET Sinks :
              [c EXCEPT !.todo = T] \in CtlRec
         /\ \A p \in CtlPcs, o \in CtlOps, T \in SUBSET Sinks :
              [c EXCEPT !.pc = p, !.op = o, !.todo = T] \in CtlRec
         /\ \A p \in CtlPcs, T \in SUBSET Sinks :
              [c EXCEPT !.pc = p, !.todo = T] \in CtlRec
  BY DEF CtlRec

\* What the control task does after a drained sink was the last of its list.
LEMMA AfterDrainIs ==
  ASSUME BusTypes, CtlShape, rbCtl.pc = "drain"
  PROVE  \/ rbCtl.op = "disable" /\ AfterDrain = IdleCtl
         \/ rbCtl.op = "unregister" /\ AfterDrain = [rbCtl EXCEPT !.pc = "join"]
         \/ rbCtl.op = "drain" /\ AfterDrain = [rbCtl EXCEPT !.pc = "wait", !.todo = {}]
  <1>1. rbCtl.op \in {"disable", "unregister", "drain"}
    BY DEF BusTypes, CtlRec, CtlOps, CtlShape
  <1>2. CASE rbCtl.op = "disable"
    BY <1>2 DEF AfterDrain
  <1>3. CASE rbCtl.op = "unregister"
    BY <1>3 DEF AfterDrain
  <1>4. CASE rbCtl.op = "drain"
    BY <1>4 DEF AfterDrain
  <1> QED
    BY <1>1, <1>2, <1>3, <1>4

\* The entry a registration takes is a free one.
LEMMA RegisteredIn ==
  ASSUME NEW c, Register(c)
  PROVE  /\ First({s \in Sinks : ~tab[s].use}) \in Sinks
         /\ ~tab[First({s \in Sinks : ~tab[s].use})].use
  <1>1. {s \in Sinks : ~tab[s].use} # {}
    BY DEF Register
  <1> QED
    BY <1>1, FirstIn

\* A step of the control task keeps the types.
LEMMA CtlTypes ==
  ASSUME BusInv, CtlCall \/ CtlStep
  PROVE  BusTypes'
  <1>t. BusTypes /\ CtlShape
    BY DEF BusInv
  <1>c. rbCtl \in CtlRec /\ IdleCtl \in CtlRec /\ NoFrame \in Frames
    BY <1>t, Tiny DEF BusTypes
  <1>1. ASSUME NEW s \in Sinks, Enable(s) \/ Disable(s) \/ Unregister(s)
        PROVE  BusTypes'
    <2>1. tab' \in [Sinks -> Entry]
      <3>1. tab' = [tab EXCEPT ![s].on = TRUE] \/ tab' = [tab EXCEPT ![s].on = FALSE]
        BY <1>1 DEF Enable, Disable, Unregister
      <3> QED
        BY <1>t, <3>1, SwitchTab
    <2>2. rbCtl' \in CtlRec
      <3>1. CASE Enable(s)
        BY <1>c, <3>1 DEF Enable
      <3>2. CASE Disable(s)
        <4>1. rbCtl' = [IdleCtl EXCEPT !.pc = "drain", !.op = "disable", !.todo = {s}]
          BY <3>2 DEF Disable
        <4>2. "drain" \in CtlPcs /\ "disable" \in CtlOps /\ {s} \in SUBSET Sinks
          BY DEF CtlPcs, CtlOps
        <4> QED
          BY <1>c, <4>1, <4>2, CtlSet
      <3>3. CASE Unregister(s)
        <4>1. rbCtl' = [IdleCtl EXCEPT !.pc = "dispatch", !.op = "unregister", !.todo = {s}]
          BY <3>3 DEF Unregister
        <4>2. "dispatch" \in CtlPcs /\ "unregister" \in CtlOps /\ {s} \in SUBSET Sinks
          BY DEF CtlPcs, CtlOps
        <4> QED
          BY <1>c, <4>1, <4>2, CtlSet
      <3> QED
        BY <1>1, <3>1, <3>2, <3>3
    <2>3. UNCHANGED <<slot, pinned, ret, driver, pump, cons>>
      BY <1>1 DEF Enable, Disable, Unregister, buffers
    <2> QED
      BY <1>t, <2>1, <2>2, <2>3 DEF BusTypes
  <1>2. ASSUME NEW c \in Configs, Register(c)
        PROVE  BusTypes'
    <2> DEFINE s == First({r \in Sinks : ~tab[r].use})
    <2>0. s \in Sinks
      BY <1>2, RegisteredIn
    <2>1. tab' \in [Sinks -> Entry]
      BY <1>t, <1>2, <2>0, RegisterTab
    <2>2. ConsGo(s, "none", NoFrame) \/ ConsGo(s, "idle", NoFrame)
      BY <1>2 DEF Register
    <2> HIDE DEF s
    <2>3. cons' \in [Sinks -> [pc : ConsPcs, f : Frames]]
      BY <1>t, <1>c, <2>0, <2>2, ConsSet DEF ConsPcs
    <2>4. UNCHANGED <<slot, pinned, ret, driver, pump, rbCtl>>
      BY <1>2 DEF Register, buffers
    <2> QED
      BY <1>t, <2>1, <2>3, <2>4 DEF BusTypes
  <1>3. CASE DrainBegins
    <2>1. rbCtl' \in CtlRec
      BY <1>3, <1>c, CtlSet DEF DrainBegins, CtlPcs, CtlOps
    <2> QED
      BY <1>t, <1>3, <2>1 DEF DrainBegins, BusTypes, buffers
  <1>4. ASSUME NEW s \in Sinks, DispatchOver(s)
        PROVE  BusTypes'
    <2>1. tab' \in [Sinks -> Entry]
      BY <1>t, <1>4, SwitchTab DEF DispatchOver
    <2>2. rbCtl' \in CtlRec
      BY <1>4, <1>c, CtlSet DEF DispatchOver, CtlPcs
    <2> QED
      BY <1>t, <1>4, <2>1, <2>2 DEF DispatchOver, BusTypes, buffers
  <1>5. ASSUME NEW s \in Sinks, Unregistered(s)
        PROVE  BusTypes'
    <2>1. tab' \in [Sinks -> Entry]
      BY <1>t, <1>5, UnregisteredTab
    <2>2. cons' \in [Sinks -> [pc : ConsPcs, f : Frames]]
      BY <1>t, <1>c, <1>5 DEF Unregistered, BusTypes, NoFrame, ConsPcs
    <2> QED
      BY <1>t, <1>c, <1>5, <2>1, <2>2 DEF Unregistered, BusTypes, buffers
  <1>6. CASE DrainPops
    <2>0. Drained \in Sinks
      BY <1>t, <1>6, DrainedIn DEF DrainPops, CtlIn
    <2>1. tab' \in [Sinks -> Entry]
      BY <1>t, <1>6, <2>0, DrainTab
    <2>2. Head(tab[Drained].q) \in Frames
      BY <1>t, <1>6, <2>0, HeadFrame DEF DrainPops
    <2>3. rbCtl' \in CtlRec
      BY <1>6, <1>c, <2>2, CtlSet DEF DrainPops, CtlPcs
    <2> QED
      BY <1>t, <1>6, <2>1, <2>3 DEF DrainPops, BusTypes, buffers
  <1>7. CASE DrainAccounts
    <2>0. Drained \in Sinks
      BY <1>t, <1>7, DrainedIn DEF DrainAccounts, CtlIn
    <2>1. tab' \in [Sinks -> Entry]
      BY <1>t, <1>7, <2>0, DrainTab
    <2>2. rbCtl' \in CtlRec
      BY <1>7, <1>c, CtlSet DEF DrainAccounts, CtlPcs
    <2> QED
      BY <1>t, <1>7, <2>1, <2>2 DEF DrainAccounts, BusTypes, buffers
  <1>8. CASE DrainReleases
    <2>1. rbCtl' \in CtlRec
      <3>1. rbCtl' = [rbCtl EXCEPT !.pc = "drain", !.f = NoFrame]
        BY <1>8 DEF DrainReleases
      <3>2. "drain" \in CtlPcs
        BY DEF CtlPcs
      <3> QED
        BY <1>c, <3>1, <3>2, CtlSet
    <2>2. rbCtl.f \in Frames
      BY <1>c DEF CtlRec
    <2>3. /\ slot' \in [Slots -> SlotRec]
          /\ pinned' \in Int /\ ret' \in [Threads -> Slots \cup {NoSlot}]
      BY <1>t, <1>8, <2>2, Tiny, DropRefTypes DEF DrainReleases
    <2>4. UNCHANGED <<driver, tab, pump, cons>>
      BY <1>8 DEF DrainReleases
    <2> QED
      BY <1>t, <2>1, <2>3, <2>4 DEF BusTypes
  <1>9. CASE DrainMoves
    <2>1. AfterDrain \in CtlRec
      <3>p. "join" \in CtlPcs /\ "wait" \in CtlPcs /\ {} \in SUBSET Sinks
        BY DEF CtlPcs
      <3>1. [rbCtl EXCEPT !.pc = "join"] \in CtlRec
        BY <1>c, <3>p, CtlSet
      <3>2. [rbCtl EXCEPT !.pc = "wait", !.todo = {}] \in CtlRec
        BY <1>c, <3>p, CtlSet
      <3>3. rbCtl.pc = "drain"
        BY <1>9 DEF DrainMoves, CtlIn
      <3>4. \/ AfterDrain = IdleCtl
            \/ AfterDrain = [rbCtl EXCEPT !.pc = "join"]
            \/ AfterDrain = [rbCtl EXCEPT !.pc = "wait", !.todo = {}]
        BY <1>t, <3>3, AfterDrainIs
      <3> QED
        BY <1>c, <3>1, <3>2, <3>4
    <2>2. [rbCtl EXCEPT !.todo = rbCtl.todo \ {Drained}] \in CtlRec
      <3>1. rbCtl.todo \ {Drained} \in SUBSET Sinks
        BY <1>c DEF CtlRec
      <3> QED
        BY <1>c, <3>1, CtlSet
    <2> QED
      BY <1>t, <1>9, <2>1, <2>2 DEF DrainMoves, BusTypes, buffers
  <1>10. CASE DrainVerdict
    BY <1>t, <1>c, <1>10 DEF DrainVerdict, BusTypes, buffers
  <1> QED
    BY <1>1, <1>2, <1>3, <1>4, <1>5, <1>6, <1>7, <1>8, <1>9, <1>10 DEF CtlCall, CtlStep

\* Every step keeps the types.
LEMMA TypesStep ==
  ASSUME BusInv, RbNext
  PROVE  BusTypes'
  <1>t. BusTypes
    BY DEF BusInv
  <1>1. ASSUME NEW sl \in Slots, PublishBegins(sl)
        PROVE  BusTypes'
    <2>1. (slot[sl].gen + 1) % GenMod \in 0..GenMod-1
      <3>1. slot[sl].gen + 1 \in Nat
        <4>1. slot[sl].gen \in 0..GenMod-1
          BY <1>t DEF BusTypes, SlotRec
        <4> QED
          BY <4>1, RbAssumption
      <3> QED
        BY <3>1, RbAssumption
    <2>2. slot' \in [Slots -> SlotRec]
      BY <1>t, <1>1, <2>1 DEF PublishBegins, BusTypes, SlotRec
    <2>3. pump' \in [pc : PumpPcs, slot : Slots \cup {NoSlot}, todo : SUBSET Sinks]
      BY <1>1 DEF PublishBegins, PumpPcs
    <2>4. driver' \in SUBSET Slots
      BY <1>t, <1>1 DEF PublishBegins, BusTypes
    <2> QED
      BY <1>t, <1>1, <2>2, <2>3, <2>4 DEF PublishBegins, BusTypes, SlotRec
  <1>2. ASSUME NEW t \in Threads, ReturnBuffer(t)
        PROVE  BusTypes'
    <2>1. driver' \in SUBSET Slots /\ ret' \in [Threads -> Slots \cup {NoSlot}]
      BY <1>t, <1>2 DEF ReturnBuffer, BusTypes
    <2> QED
      BY <1>t, <1>2, <2>1 DEF ReturnBuffer, BusTypes
  <1> QED
    BY <1>1, <1>2, PumpTypes, ConsTypes, CtlTypes DEF RbNext, Threads
----------------------------------------------------------------------------
(* Control                                                                 *)

\* Only a publish moves the pump, only ConsStep() a task that is registered,
\* only the control task its own state.
LEMMA Movers ==
  ASSUME RbNext
  PROVE  /\ (\E s \in Sinks : ConsStep(s)) \/ CtlCall \/ CtlStep
              \/ (\E t \in Threads : ReturnBuffer(t)) => pump' = pump
         /\ (\E sl \in Slots : PublishBegins(sl)) \/ PumpStep
              \/ (\E t \in Threads : ReturnBuffer(t)) => cons' = cons /\ rbCtl' = rbCtl
         /\ (\E s \in Sinks : ConsStep(s)) => rbCtl' = rbCtl
         /\ (\E sl \in Slots : PublishBegins(sl)) \/ (\E t \in Threads : ReturnBuffer(t))
              => tab' = tab
  <1>1. ASSUME NEW s \in Sinks, ConsStep(s)
        PROVE  pump' = pump /\ rbCtl' = rbCtl
    <2>1. CASE Takes(s)
      BY <2>1 DEF Takes
    <2>2. CASE Converts(s) \/ ConvertFailed(s)
      BY <2>2 DEF Converts, ConvertFailed
    <2>3. CASE Finishes(s)
      BY <2>3 DEF Finishes
    <2>4. CASE Releases(s) \/ ReleaseRefused(s)
      BY <2>4 DEF Releases, ReleaseRefused
    <2>5. CASE TaskParks(s)
      BY <2>5 DEF TaskParks
    <2> QED
      BY <1>1, <2>1, <2>2, <2>3, <2>4, <2>5 DEF ConsStep
  <1>2. ASSUME CtlCall
        PROVE  pump' = pump
    BY <1>2 DEF CtlCall, Enable, Disable, Unregister, Register, DrainBegins
  <1>3. ASSUME CtlStep
        PROVE  pump' = pump
    BY <1>3 DEF CtlStep, DispatchOver, Unregistered, DrainPops, DrainAccounts, DrainReleases,
                DrainMoves, DrainVerdict
  <1>4. ASSUME NEW t \in Threads, ReturnBuffer(t)
        PROVE  pump' = pump /\ cons' = cons /\ rbCtl' = rbCtl /\ tab' = tab
    BY <1>4 DEF ReturnBuffer
  <1>5. ASSUME NEW sl \in Slots, PublishBegins(sl)
        PROVE  cons' = cons /\ rbCtl' = rbCtl /\ tab' = tab
    BY <1>5 DEF PublishBegins
  <1>6. ASSUME PumpStep
        PROVE  cons' = cons /\ rbCtl' = rbCtl
    BY <1>6 DEF PumpStep, PublishSnapshot, PublishNext, PublishEnds, OfferPassed, OfferTaken,
                OfferEvicts, OfferDropped
  <1> QED
    BY <1>1, <1>2, <1>3, <1>4, <1>5, <1>6

\* RbNext, by who moves.
LEMMA WhoMoves ==
  ASSUME RbNext
  PROVE  \/ \E sl \in Slots : PublishBegins(sl)
         \/ PumpStep \/ CtlCall \/ CtlStep
         \/ \E s \in Sinks : ConsStep(s)
         \/ \E t \in Threads : ReturnBuffer(t)
  BY DEF RbNext, Threads

\* The publisher has a slot exactly while it publishes.
LEMMA PumpShapeStep ==
  ASSUME BusInv, RbNext
  PROVE  PumpShape'
  <1>t. BusTypes /\ PumpShape
    BY DEF BusInv
  <1>1. CASE pump' = pump
    BY <1>t, <1>1 DEF PumpShape
  <1>2. ASSUME NEW sl \in Slots, PublishBegins(sl)
        PROVE  PumpShape'
    BY <1>2, RbAssumption DEF PublishBegins, PumpShape
  <1>3. CASE PumpStep
    <2>0. pump \in [pc : PumpPcs, slot : Slots \cup {NoSlot}, todo : SUBSET Sinks]
      BY <1>t DEF BusTypes
    <2>1. CASE PublishSnapshot
      BY <1>t, <2>0, <2>1 DEF PublishSnapshot, PumpIn, PumpShape
    <2>2. CASE PublishNext
      BY <1>t, <2>0, <2>2 DEF PublishNext, PumpIn, PumpShape
    <2>3. CASE PublishEnds
      BY <2>3 DEF PublishEnds, NoPublish, PumpShape
    <2>4. ASSUME NEW s \in Sinks,
                 OfferPassed(s) \/ OfferTaken(s) \/ OfferEvicts(s) \/ OfferDropped(s)
          PROVE  PumpShape'
      <3>1. s \in pump.todo /\ pump.pc = "offer"
        BY <1>t, <2>4, OfferedIn DEF OfferPassed, OfferTaken, OfferEvicts, OfferDropped
      <3>2. pump' = pump \/ pump' = [pump EXCEPT !.pc = "next"]
        BY <2>4 DEF OfferPassed, OfferTaken, OfferEvicts, OfferDropped, Offered
      <3> QED
        BY <1>t, <2>0, <3>1, <3>2 DEF PumpShape
    <2> QED
      BY <1>3, <2>1, <2>2, <2>3, <2>4 DEF PumpStep
  <1> QED
    BY <1>1, <1>2, <1>3, Movers, WhoMoves

\* A consumer has a frame only between taking it and releasing it.
LEMMA ConsShapeStep ==
  ASSUME BusInv, RbNext
  PROVE  ConsShape'
  <1>t. BusTypes /\ ConsShape
    BY DEF BusInv
  <1>1. CASE cons' = cons
    BY <1>t, <1>1 DEF ConsShape
  <1>2. ASSUME NEW s \in Sinks, NEW pc \in ConsPcs, NEW f \in Frames, ConsGo(s, pc, f),
               f.slot # NoSlot => pc \in {"convert", "hand", "release", "lost"}
        PROVE  ConsShape'
    <2>1. /\ cons'[s].pc = pc /\ cons'[s].f = f
          /\ \A r \in Sinks \ {s} : cons'[r] = cons[r]
      BY <1>t, <1>2, ConsSet
    <2> QED
      BY <1>t, <1>2, <2>1 DEF ConsShape
  <1>n. NoFrame \in Frames /\ NoFrame.slot = NoSlot
    BY Tiny DEF NoFrame
  <1>3. ASSUME NEW s \in Sinks, ConsStep(s)
        PROVE  ConsShape'
    <2>f. cons[s].f \in Frames
      BY <1>t, EntryHas
    <2>1. CASE Takes(s)
      <3>1. Head(tab[s].q) \in Frames
        BY <1>t, <2>1, HeadFrame DEF Takes
      <3>2. ConsGo(s, "convert", Head(tab[s].q)) \/ ConsGo(s, "hand", Head(tab[s].q))
        BY <2>1 DEF Takes
      <3> QED
        BY <1>2, <3>1, <3>2 DEF ConsPcs
    <2>2. CASE Converts(s)
      <3>1. ConsGo(s, "hand", NoFrame) \/ ConsGo(s, "failed", NoFrame)
        BY <2>2 DEF Converts
      <3> QED
        BY <1>2, <1>n, <3>1 DEF ConsPcs
    <2>3. CASE ConvertFailed(s) \/ Releases(s)
      <3>1. ConsGo(s, "idle", NoFrame) \/ ConsGo(s, "none", NoFrame)
        BY <2>3 DEF ConvertFailed, Releases
      <3> QED
        BY <1>2, <1>n, <3>1 DEF ConsPcs
    <2>4. CASE Finishes(s) \/ ReleaseRefused(s)
      <3>1. ConsGo(s, "release", cons[s].f) \/ ConsGo(s, "lost", cons[s].f)
        BY <2>4 DEF Finishes, ReleaseRefused
      <3> QED
        BY <1>2, <2>f, <3>1 DEF ConsPcs
    <2>5. CASE TaskParks(s)
      BY <1>2, <1>n, <2>5 DEF TaskParks, ConsPcs
    <2> QED
      BY <1>3, <2>1, <2>2, <2>3, <2>4, <2>5 DEF ConsStep
  <1>4. CASE CtlCall
    <2>1. ASSUME NEW c \in Configs, Register(c)
          PROVE  ConsShape'
      <3> DEFINE s == First({r \in Sinks : ~tab[r].use})
      <3>1. s \in Sinks
        BY <2>1, RegisteredIn
      <3>2. ConsGo(s, IF c.mode = "inline" THEN "none" ELSE "idle", NoFrame)
        BY <2>1 DEF Register
      <3> HIDE DEF s
      <3>3. ConsGo(s, "none", NoFrame) \/ ConsGo(s, "idle", NoFrame)
        BY <3>2
      <3> QED
        BY <1>2, <1>n, <3>1, <3>3 DEF ConsPcs
    <2>2. (\E c \in Configs : Register(c)) \/ cons' = cons
      BY <1>4 DEF CtlCall, Enable, Disable, Unregister, DrainBegins
    <2> QED
      BY <1>1, <2>1, <2>2
  <1>5. CASE CtlStep
    <2>1. ASSUME NEW s \in Sinks, Unregistered(s)
          PROVE  ConsShape'
      <3>1. cons' = cons \/ ConsGo(s, "none", NoFrame)
        BY <2>1 DEF Unregistered, ConsGo, NoFrame
      <3> QED
        BY <1>1, <1>2, <1>n, <3>1 DEF ConsPcs
    <2>2. (\E s \in Sinks : Unregistered(s)) \/ cons' = cons
      BY <1>5 DEF CtlStep, DispatchOver, DrainPops, DrainAccounts, DrainReleases, DrainMoves,
                  DrainVerdict
    <2> QED
      BY <1>1, <2>1, <2>2
  <1> QED
    BY <1>1, <1>3, <1>4, <1>5, Movers, WhoMoves

\* The last sink of a drain is the one left in its set.
LEMMA OneLeft ==
  ASSUME BusTypes, CtlShape, rbCtl.pc = "drain"
  PROVE  /\ Cardinality(rbCtl.todo) # 1 => rbCtl.todo \ {Drained} # {} /\ rbCtl.op # "unregister"
         /\ rbCtl.op = "unregister" => rbCtl.todo = {Drained}
  <1>1. rbCtl.todo # {} /\ Drained \in rbCtl.todo
    BY DrainedIn DEF CtlShape
  <1>2. ASSUME rbCtl.todo = {Drained}
        PROVE  Cardinality(rbCtl.todo) = 1
    BY <1>2, FS_Singleton
  <1>3. rbCtl.op = "unregister" => rbCtl.todo = {Drained}
    BY <1>1 DEF CtlShape
  <1>4. rbCtl.todo \ {Drained} = {} => rbCtl.todo = {Drained}
    BY <1>1
  <1> QED
    BY <1>2, <1>3, <1>4

\* The control task has a frame only while it accounts for one.
LEMMA CtlShapeStep ==
  ASSUME BusInv, RbNext
  PROVE  CtlShape'
  <1>t. BusTypes /\ CtlShape /\ rbCtl \in CtlRec
    BY DEF BusInv, BusTypes
  <1>1. CASE rbCtl' = rbCtl
    BY <1>t, <1>1 DEF CtlShape
  <1>2. CASE rbCtl' = IdleCtl
    BY <1>2 DEF CtlShape, IdleCtl, NoFrame
  <1>3. CASE CtlCall
    <2>1. ASSUME NEW s \in Sinks, Disable(s)
          PROVE  CtlShape'
      BY <2>1 DEF CtlShape, Disable, IdleCtl, NoFrame
    <2>2. ASSUME NEW s \in Sinks, Unregister(s)
          PROVE  CtlShape'
      BY <2>2 DEF CtlShape, Unregister, IdleCtl, NoFrame
    <2>3. CASE DrainBegins
      BY <2>3 DEF CtlShape, DrainBegins, IdleCtl, NoFrame
    <2>4. \/ \E s \in Sinks : Disable(s) \/ Unregister(s)
          \/ DrainBegins \/ rbCtl' = rbCtl
      BY <1>3 DEF CtlCall, Enable, Register
    <2> QED
      BY <1>1, <2>1, <2>2, <2>3, <2>4
  <1>4. CASE CtlStep
    <2>1. ASSUME NEW s \in Sinks, DispatchOver(s)
          PROVE  CtlShape'
      BY <1>t, <2>1 DEF DispatchOver, CtlIn, CtlShape, CtlRec
    <2>2. CASE DrainPops
      BY <1>t, <2>2 DEF DrainPops, CtlIn, CtlShape, CtlRec
    <2>3. CASE DrainAccounts
      BY <1>t, <2>3 DEF DrainAccounts, CtlIn, CtlShape, CtlRec
    <2>4. CASE DrainReleases
      BY <1>t, <2>4 DEF DrainReleases, CtlIn, CtlShape, CtlRec, NoFrame
    <2>5. CASE DrainMoves
      <3>0. rbCtl.pc = "drain"
        BY <2>5 DEF DrainMoves, CtlIn
      <3>1. CASE Cardinality(rbCtl.todo) = 1
        <4>0. rbCtl' = AfterDrain
          BY <2>5, <3>1 DEF DrainMoves
        <4>1. CASE AfterDrain = IdleCtl
          BY <1>2, <4>0, <4>1
        <4>2. CASE rbCtl.op = "unregister" /\ AfterDrain = [rbCtl EXCEPT !.pc = "join"]
          BY <1>t, <3>0, <4>0, <4>2 DEF CtlShape, CtlRec
        <4>3. CASE rbCtl.op = "drain" /\ AfterDrain = [rbCtl EXCEPT !.pc = "wait", !.todo = {}]
          BY <1>t, <3>0, <4>0, <4>3 DEF CtlShape, CtlRec
        <4> QED
          BY <1>t, <3>0, <4>1, <4>2, <4>3, AfterDrainIs
      <3>2. CASE Cardinality(rbCtl.todo) # 1
        <4>1. rbCtl' = [rbCtl EXCEPT !.todo = rbCtl.todo \ {Drained}]
          BY <2>5, <3>2 DEF DrainMoves
        <4>2. rbCtl.todo \ {Drained} # {} /\ rbCtl.op # "unregister"
          BY <1>t, <3>0, <3>2, OneLeft
        <4> QED
          BY <1>t, <3>0, <4>1, <4>2 DEF CtlShape, CtlRec
      <3> QED
        BY <3>1, <3>2
    <2>6. CASE DrainVerdict \/ \E s \in Sinks : Unregistered(s)
      BY <1>2, <2>6 DEF DrainVerdict, Unregistered
    <2> QED
      BY <1>4, <2>1, <2>2, <2>3, <2>4, <2>5, <2>6 DEF CtlStep
  <1> QED
    BY <1>1, <1>3, <1>4, Movers, WhoMoves

\* A task changes its own sink's entry only.
LEMMA OtherTab ==
  ASSUME BusTypes, NEW s \in Sinks, ConsStep(s), NEW r \in Sinks, r # s
  PROVE  tab'[r] = tab[r]
  <1>1. CASE Takes(s)
    BY <1>1, TakesTab
  <1>2. CASE Converts(s)
    BY <1>2, ConvertsTab
  <1>3. CASE ConvertFailed(s)
    BY <1>3, ConvertFailedTab
  <1>4. CASE Finishes(s)
    BY <1>4, FinishesTab
  <1>5. CASE Releases(s) \/ ReleaseRefused(s) \/ TaskParks(s)
    BY <1>5 DEF Releases, ReleaseRefused, TaskParks
  <1> QED
    BY <1>1, <1>2, <1>3, <1>4, <1>5 DEF ConsStep

\* The parts of a sink's entry that a step of the pump or of a consumer leaves alone.
LEMMA TabKept ==
  ASSUME BusInv, PumpStep \/ \E s \in Sinks : ConsStep(s), NEW r \in Sinks
  PROVE  /\ tab'[r].use = tab[r].use /\ tab'[r].cfg = tab[r].cfg
         /\ tab'[r].on => tab[r].on
         /\ tab[r].q = <<>> /\ r \notin pump.todo => tab'[r].q = <<>>
  <1>t. BusTypes /\ PumpShape
    BY DEF BusInv
  <1>e. tab[r] \in Entry
    BY <1>t, EntryHas
  <1> DEFINE Kept == /\ tab'[r].use = tab[r].use /\ tab'[r].cfg = tab[r].cfg
                     /\ tab'[r].on => tab[r].on
                     /\ tab[r].q = <<>> /\ r \notin pump.todo => tab'[r].q = <<>>
  <1>0. CASE tab'[r] = tab[r]
    BY <1>0
  <1>1. CASE PublishSnapshot
    BY <1>t, <1>e, <1>1, SnapshotTab DEF Entry
  <1>2. CASE PublishNext
    <2>1. First(pump.todo) \in Sinks
      BY <1>t, <1>2, FirstIn DEF PublishNext, PumpIn, PumpShape, BusTypes
    <2>2. r = First(pump.todo) => tab'[r] = [tab[r] EXCEPT !.drefs = tab[r].drefs - 1]
      BY <1>t, <1>2, NextTab
    <2>3. r # First(pump.todo) => tab'[r] = tab[r]
      BY <1>t, <1>2, <2>1, NextTab
    <2> QED
      BY <1>e, <2>2, <2>3 DEF Entry
  <1>3. CASE PublishEnds
    BY <1>3 DEF PublishEnds
  <1>4. ASSUME NEW s \in Sinks,
               OfferPassed(s) \/ OfferTaken(s) \/ OfferEvicts(s) \/ OfferDropped(s)
        PROVE  Kept
    <2>1. CASE OfferPassed(s) \/ OfferDropped(s)
      BY <2>1 DEF OfferPassed, OfferDropped
    <2>2. CASE OfferTaken(s)
      <3>1. s \in pump.todo /\ pump.slot # NoSlot
        BY <1>t, <2>2, OfferedIn DEF OfferTaken, PumpShape
      <3>2. /\ tab'[s] = [tab[s] EXCEPT !.q = Append(tab[s].q, ThisFrame), !.infl = tab[s].infl + 1]
            /\ r # s => tab'[r] = tab[r]
        BY <1>t, <2>2, <3>1, TakenTab
      <3>3. CASE r = s
        BY <1>e, <3>1, <3>2, <3>3 DEF Entry
      <3> QED
        BY <1>0, <3>2, <3>3
    <2>3. CASE OfferEvicts(s)
      <3>1. /\ tab'[s] = [tab[s] EXCEPT !.q = Tail(tab[s].q), !.infl = tab[s].infl - 1]
            /\ r # s => tab'[r] = tab[r]
        BY <1>t, <2>3, EvictsTab
      <3>2. tab[s].q # <<>>
        BY <2>3 DEF OfferEvicts
      <3>3. CASE r = s
        BY <1>e, <3>1, <3>2, <3>3 DEF Entry
      <3> QED
        BY <1>0, <3>1, <3>3
    <2> QED
      BY <1>4, <2>1, <2>2, <2>3
  <1>5. ASSUME NEW s \in Sinks, ConsStep(s)
        PROVE  Kept
    <2>0. CASE r # s
      <3>1. tab'[r] = tab[r]
        BY <1>t, <1>5, <2>0, OtherTab
      <3> QED
        BY <3>1
    <2>1. CASE r = s /\ Takes(s)
      <3>1. PICK b \in BOOLEAN : tab'[r] = [tab[r] EXCEPT !.q = Tail(tab[r].q), !.held = b]
        BY <1>t, <2>1, TakesTab
      <3>2. tab[r].q # <<>>
        BY <2>1 DEF Takes
      <3> QED
        BY <1>e, <3>1, <3>2 DEF Entry
    <2>2. CASE r = s /\ Converts(s)
      <3>1. PICK b \in BOOLEAN : \/ tab'[r] = [tab[r] EXCEPT !.held = b]
                                 \/ tab'[r] = [tab[r] EXCEPT !.on = b] /\ (b => tab[r].on)
        BY <1>t, <2>2, ConvertsTab
      <3> QED
        BY <1>e, <3>1 DEF Entry
    <2>3. CASE r = s /\ ConvertFailed(s)
      <3>1. \/ tab'[r] = [tab[r] EXCEPT !.infl = tab[r].infl - 1]
            \/ tab'[r] = tab[r]
        BY <1>t, <2>3, ConvertFailedTab
      <3> QED
        BY <1>e, <3>1 DEF Entry
    <2>4. CASE r = s /\ Finishes(s)
      <3>1. tab'[r] = [tab[r] EXCEPT !.infl = tab[r].infl - 1, !.held = FALSE]
        BY <1>t, <2>4, FinishesTab
      <3> QED
        BY <1>e, <3>1 DEF Entry
    <2>5. CASE Releases(s) \/ ReleaseRefused(s) \/ TaskParks(s)
      BY <2>5 DEF Releases, ReleaseRefused, TaskParks
    <2> QED
      BY <1>5, <2>0, <2>1, <2>2, <2>3, <2>4, <2>5 DEF ConsStep
  <1> QED
    BY <1>1, <1>2, <1>3, <1>4, <1>5 DEF PumpStep

\* Only the list a publish takes of the table brings a sink into a dispatch.
LEMMA TodoKept ==
  ASSUME BusInv, (\E sl \in Slots : PublishBegins(sl)) \/ PumpStep, NEW s \in Sinks,
         s \notin pump.todo, ~(tab[s].use /\ tab[s].on)
  PROVE  s \notin pump'.todo
  <1>t. pump \in [pc : PumpPcs, slot : Slots \cup {NoSlot}, todo : SUBSET Sinks]
    BY DEF BusInv, BusTypes
  <1>1. CASE PublishSnapshot
    BY <1>t, <1>1 DEF PublishSnapshot
  <1>2. CASE PublishNext
    BY <1>t, <1>2 DEF PublishNext
  <1>3. CASE PublishEnds \/ \E sl \in Slots : PublishBegins(sl)
    BY <1>3 DEF PublishEnds, PublishBegins, NoPublish
  <1>4. ASSUME NEW r \in Sinks,
               OfferPassed(r) \/ OfferTaken(r) \/ OfferEvicts(r) \/ OfferDropped(r)
        PROVE  s \notin pump'.todo
    <2>1. pump' = pump \/ pump' = [pump EXCEPT !.pc = "next"]
      BY <1>4 DEF OfferPassed, OfferTaken, OfferEvicts, OfferDropped, Offered
    <2> QED
      BY <1>t, <2>1
  <1> QED
    BY <1>1, <1>2, <1>3, <1>4 DEF PumpStep

\* The control task's own steps on the table.
LEMMA CtlStepTab ==
  ASSUME BusInv, NEW r \in Sinks
  PROVE  /\ \A s \in Sinks : Enable(s) \/ Disable(s) \/ Unregister(s) =>
              /\ tab'[r].use = tab[r].use /\ tab'[r].cfg = tab[r].cfg
              /\ tab'[r].q = tab[r].q /\ tab'[r].infl = tab[r].infl
              /\ tab'[r].drefs = tab[r].drefs
              /\ (Disable(s) \/ Unregister(s)) /\ r = s => ~tab'[r].on
         /\ \A s \in Sinks : DispatchOver(s) =>
              /\ tab'[r].use = tab[r].use /\ tab'[r].cfg = tab[r].cfg
              /\ tab'[r].q = tab[r].q /\ tab'[r].infl = tab[r].infl
              /\ tab'[r].drefs = tab[r].drefs /\ tab'[r].on = tab[r].on
         /\ DrainPops =>
              /\ tab'[r].use = tab[r].use /\ tab'[r].cfg = tab[r].cfg
              /\ tab'[r].q = (IF r = Drained THEN Tail(tab[r].q) ELSE tab[r].q)
              /\ tab'[r].infl = tab[r].infl
              /\ tab'[r].drefs = tab[r].drefs /\ tab'[r].on = tab[r].on
         /\ DrainAccounts =>
              /\ tab'[r].use = tab[r].use /\ tab'[r].cfg = tab[r].cfg
              /\ tab'[r].q = tab[r].q
              /\ tab'[r].infl = (IF r = Drained THEN tab[r].infl - 1 ELSE tab[r].infl)
              /\ tab'[r].drefs = tab[r].drefs /\ tab'[r].on = tab[r].on
         /\ (DrainReleases \/ DrainMoves \/ DrainVerdict \/ DrainBegins) => tab' = tab
  <1>t. BusTypes /\ CtlShape
    BY DEF BusInv
  <1>e. tab[r] \in Entry
    BY <1>t, EntryHas
  <1>1. ASSUME NEW s \in Sinks, Enable(s) \/ Disable(s) \/ Unregister(s)
        PROVE  /\ tab'[r].use = tab[r].use /\ tab'[r].cfg = tab[r].cfg
               /\ tab'[r].q = tab[r].q /\ tab'[r].infl = tab[r].infl
               /\ tab'[r].drefs = tab[r].drefs
               /\ (Disable(s) \/ Unregister(s)) /\ r = s => ~tab'[r].on
    <2>1. CASE r = s
      <3>1. PICK b \in BOOLEAN : /\ tab' = [tab EXCEPT ![s].on = b]
                                 /\ Disable(s) \/ Unregister(s) => ~b
        <4>1. CASE Enable(s) /\ ~(Disable(s) \/ Unregister(s))
          BY <4>1 DEF Enable
        <4>2. CASE Disable(s) \/ Unregister(s)
          BY <4>2 DEF Disable, Unregister
        <4> QED
          BY <1>1, <4>1, <4>2
      <3>2. tab' = [tab EXCEPT ![s] = [tab[s] EXCEPT !.on = b]]
        BY <1>t, <3>1 DEF BusTypes
      <3>3. tab'[r] = [tab[r] EXCEPT !.on = b]
        BY <1>t, <2>1, <3>2 DEF BusTypes
      <3> QED
        BY <1>e, <3>1, <3>3 DEF Entry
    <2>2. CASE r # s
      <3>1. tab'[r] = tab[r]
        BY <1>t, <1>1, <2>2 DEF Enable, Disable, Unregister, BusTypes
      <3> QED
        BY <2>2, <3>1
    <2> QED
      BY <2>1, <2>2
  <1>2. ASSUME NEW s \in Sinks, DispatchOver(s)
        PROVE  /\ tab'[r].use = tab[r].use /\ tab'[r].cfg = tab[r].cfg
               /\ tab'[r].q = tab[r].q /\ tab'[r].infl = tab[r].infl
               /\ tab'[r].drefs = tab[r].drefs /\ tab'[r].on = tab[r].on
    <2>1. tab' = [tab EXCEPT ![s] = [tab[s] EXCEPT !.run = FALSE]]
      BY <1>t, <1>2 DEF DispatchOver, BusTypes
    <2>2. r = s => tab'[r] = [tab[r] EXCEPT !.run = FALSE]
      BY <1>t, <2>1 DEF BusTypes
    <2>3. r # s => tab'[r] = tab[r]
      BY <1>t, <2>1 DEF BusTypes
    <2> QED
      BY <1>e, <2>2, <2>3 DEF Entry
  <1>3. ASSUME DrainPops
        PROVE  /\ tab'[r].use = tab[r].use /\ tab'[r].cfg = tab[r].cfg
               /\ tab'[r].q = (IF r = Drained THEN Tail(tab[r].q) ELSE tab[r].q)
               /\ tab'[r].infl = tab[r].infl
               /\ tab'[r].drefs = tab[r].drefs /\ tab'[r].on = tab[r].on
    <2>1. Drained \in Sinks
      BY <1>t, <1>3, DrainedIn DEF DrainPops, CtlIn
    <2>2. /\ tab'[Drained] = [tab[Drained] EXCEPT !.q = Tail(tab[Drained].q)]
          /\ r # Drained => tab'[r] = tab[r]
      BY <1>t, <1>3, <2>1, DrainTab
    <2>3. CASE r = Drained
      BY <1>e, <2>2, <2>3 DEF Entry
    <2> QED
      BY <2>2, <2>3
  <1>4. ASSUME DrainAccounts
        PROVE  /\ tab'[r].use = tab[r].use /\ tab'[r].cfg = tab[r].cfg
               /\ tab'[r].q = tab[r].q
               /\ tab'[r].infl = (IF r = Drained THEN tab[r].infl - 1 ELSE tab[r].infl)
               /\ tab'[r].drefs = tab[r].drefs /\ tab'[r].on = tab[r].on
    <2>1. Drained \in Sinks
      BY <1>t, <1>4, DrainedIn DEF DrainAccounts, CtlIn
    <2>2. /\ tab'[Drained] = [tab[Drained] EXCEPT !.infl = tab[Drained].infl - 1]
          /\ r # Drained => tab'[r] = tab[r]
      BY <1>t, <1>4, <2>1, DrainTab
    <2>3. CASE r = Drained
      BY <1>e, <2>2, <2>3 DEF Entry
    <2> QED
      BY <2>2, <2>3
  <1>5. (DrainReleases \/ DrainMoves \/ DrainVerdict \/ DrainBegins) => tab' = tab
    BY DEF DrainReleases, DrainMoves, DrainVerdict, DrainBegins
  <1> QED
    BY <1>1, <1>2, <1>3, <1>4, <1>5

\* What an unregister has made sure of stays true until it ends.
LEMMA LeavingStep ==
  ASSUME BusInv, RbNext
  PROVE  Leaving'
  <1>t. BusTypes /\ CtlShape /\ Leaving /\ rbCtl \in CtlRec
    BY DEF BusInv, BusTypes
  <1>i. rbCtl.todo \subseteq Sinks
    BY <1>t DEF CtlRec
  <1>1. CASE \E t \in Threads : ReturnBuffer(t)
    BY <1>t, <1>1, Movers DEF Leaving
  <1>2. CASE (\E sl \in Slots : PublishBegins(sl)) \/ PumpStep \/ \E s \in Sinks : ConsStep(s)
    <2>1. rbCtl' = rbCtl
      BY <1>2, Movers
    <2>2. ASSUME NEW s \in rbCtl.todo, rbCtl.op = "unregister"
          PROVE  /\ ~tab'[s].on
                 /\ rbCtl.pc # "dispatch" => s \notin pump'.todo
                 /\ rbCtl.pc = "join" => tab'[s].q = <<>>
      <3>0. /\ ~tab[s].on /\ s \in Sinks
            /\ rbCtl.pc # "dispatch" => s \notin pump.todo
            /\ rbCtl.pc = "join" => tab[s].q = <<>>
        BY <1>t, <1>i, <2>2 DEF Leaving
      <3>1. CASE \E sl \in Slots : PublishBegins(sl)
        BY <3>0, <3>1, Movers, TodoKept
      <3>2. CASE PumpStep
        BY <3>0, <3>2, TabKept, TodoKept
      <3>3. CASE \E r \in Sinks : ConsStep(r)
        BY <3>0, <3>3, TabKept, Movers
      <3> QED
        BY <1>2, <3>1, <3>2, <3>3
    <2> QED
      BY <2>1, <2>2 DEF Leaving
  <1>3. CASE CtlCall
    <2>1. CASE rbCtl' = rbCtl
      <3>1. CtlIn("idle")
        <4>1. CASE DrainBegins
          BY <4>1 DEF DrainBegins
        <4>2. CASE \E c \in Configs : Register(c)
          BY <4>2 DEF Register
        <4>3. CASE \E s \in Sinks : Enable(s) \/ Disable(s) \/ Unregister(s)
          BY <4>3 DEF Enable, Disable, Unregister
        <4> QED
          BY <1>3, <4>1, <4>2, <4>3 DEF CtlCall
      <3> QED
        BY <1>t, <2>1, <3>1 DEF CtlShape, Leaving, CtlIn
    <2>2. ASSUME NEW s \in Sinks, Unregister(s)
          PROVE  Leaving'
      <3>1. ~tab'[s].on
        BY <2>2, CtlStepTab
      <3>2. rbCtl'.pc = "dispatch" /\ rbCtl'.todo = {s}
        BY <2>2 DEF Unregister, IdleCtl
      <3> QED
        BY <3>1, <3>2 DEF Leaving
    <2>3. ASSUME NEW s \in Sinks, Disable(s)
          PROVE  Leaving'
      BY <2>3 DEF Disable, IdleCtl, Leaving
    <2>4. CASE DrainBegins
      BY <2>4 DEF DrainBegins, IdleCtl, Leaving
    <2>5. \/ \E s \in Sinks : Disable(s) \/ Unregister(s)
          \/ DrainBegins \/ rbCtl' = rbCtl
      BY <1>3 DEF CtlCall, Enable, Register
    <2> QED
      BY <2>1, <2>2, <2>3, <2>4, <2>5
  <1>4. CASE CtlStep
    <2>p. pump' = pump
      BY <1>4, Movers
    <2>1. ASSUME NEW s \in Sinks, DispatchOver(s)
          PROVE  Leaving'
      <3>1. rbCtl.pc = "dispatch" /\ s \in rbCtl.todo /\ tab[s].drefs = 0
        BY <2>1 DEF DispatchOver, CtlIn
      <3>2. rbCtl.op = "unregister" /\ rbCtl.todo = {s}
        BY <1>t, <3>1 DEF CtlShape
      <3>3. s \notin pump.todo
        BY <3>1 DEF BusInv, GoneIsQuiet
      <3>4. ~tab[s].on /\ ~tab'[s].on
        BY <1>t, <2>1, <3>1, <3>2, CtlStepTab DEF Leaving
      <3>5. rbCtl'.pc = "drain" /\ rbCtl'.todo = {s}
        BY <1>t, <2>1, <3>2 DEF DispatchOver, CtlRec
      <3> QED
        BY <2>p, <3>3, <3>4, <3>5 DEF Leaving
    <2>2. CASE DrainPops \/ DrainAccounts \/ DrainReleases
      <3>1. /\ rbCtl'.op = rbCtl.op /\ rbCtl'.todo = rbCtl.todo /\ rbCtl'.pc # "join"
            /\ rbCtl.pc # "dispatch"
        BY <1>t, <2>2 DEF DrainPops, DrainAccounts, DrainReleases, CtlRec, CtlIn
      <3>2. ASSUME NEW s \in rbCtl.todo
            PROVE  tab'[s].on = tab[s].on
        BY <1>i, <2>2, <3>2, CtlStepTab
      <3> QED
        BY <1>t, <2>p, <3>1, <3>2 DEF Leaving
    <2>3. CASE DrainMoves
      <3>0. rbCtl.pc = "drain" /\ tab[Drained].q = <<>> /\ tab' = tab
        BY <2>3 DEF DrainMoves, CtlIn
      <3>1. rbCtl' = AfterDrain \/ rbCtl' = [rbCtl EXCEPT !.todo = rbCtl.todo \ {Drained}]
        BY <2>3 DEF DrainMoves
      <3>2. CASE rbCtl' = AfterDrain
        <4>1. CASE rbCtl' = IdleCtl
          BY <4>1 DEF IdleCtl, Leaving
        <4>2. CASE rbCtl.op = "unregister" /\ rbCtl' = [rbCtl EXCEPT !.pc = "join"]
          <5>1. rbCtl.todo = {Drained}
            BY <1>t, <3>0, <4>2, OneLeft
          <5>2. rbCtl'.todo = rbCtl.todo /\ rbCtl'.pc = "join"
            BY <1>t, <4>2 DEF CtlRec
          <5>3. ~tab[Drained].on /\ Drained \notin pump.todo
            BY <1>t, <3>0, <4>2, <5>1 DEF Leaving
          <5> QED
            BY <2>p, <3>0, <5>1, <5>2, <5>3 DEF Leaving
        <4>3. CASE rbCtl.op = "drain" /\ rbCtl' = [rbCtl EXCEPT !.pc = "wait", !.todo = {}]
          BY <1>t, <4>3 DEF CtlRec, Leaving
        <4> QED
          BY <1>t, <3>0, <3>2, <4>1, <4>2, <4>3, AfterDrainIs
      <3>3. CASE rbCtl' = [rbCtl EXCEPT !.todo = rbCtl.todo \ {Drained}]
        <4>1. /\ rbCtl'.op = rbCtl.op /\ rbCtl'.pc = "drain"
              /\ rbCtl'.todo = rbCtl.todo \ {Drained}
          BY <1>t, <3>0, <3>3 DEF CtlRec
        <4> QED
          BY <1>t, <2>p, <3>0, <4>1 DEF Leaving
      <3> QED
        BY <3>1, <3>2, <3>3
    <2>4. CASE DrainVerdict \/ \E s \in Sinks : Unregistered(s)
      BY <2>4 DEF DrainVerdict, Unregistered, IdleCtl, Leaving
    <2> QED
      BY <1>4, <2>1, <2>2, <2>3, <2>4 DEF CtlStep
  <1> QED
    BY <1>1, <1>2, <1>3, <1>4, WhoMoves

\* A sink's dispatch reference is its place in the publish under way.
DispatchRefs == \A s \in Sinks : tab[s].drefs = (IF s \in pump.todo THEN 1 ELSE 0)

\* What is true of an entry nobody uses.
Unused(s) == /\ s \notin pump.todo /\ tab[s].q = <<>>
             /\ cons[s].pc \in {"none", "convert", "failed", "hand", "release", "lost"}

\* GoneIsQuiet by its two parts, before and after a step.
LEMMA QuietParts ==
  /\ GoneIsQuiet <=> DispatchRefs /\ \A s \in Sinks : ~tab[s].use => Unused(s)
  /\ GoneIsQuiet' <=> DispatchRefs' /\ \A s \in Sinks : ~tab'[s].use => Unused(s)'
  BY DEF GoneIsQuiet, DispatchRefs, Unused

\* dispatch_refs is one exactly for the sinks the publish still visits.
LEMMA DispatchRefsStep ==
  ASSUME BusInv, RbNext
  PROVE  DispatchRefs'
  <1>t. BusTypes /\ PumpShape /\ CtlShape /\ Leaving /\ DispatchRefs
        /\ pump \in [pc : PumpPcs, slot : Slots \cup {NoSlot}, todo : SUBSET Sinks]
    BY QuietParts DEF BusInv, BusTypes
  <1>e. \A r \in Sinks : tab[r] \in Entry /\ tab[r].drefs \in Int
    BY <1>t, EntryHas
  <1>0. ASSUME \A r \in Sinks : tab'[r].drefs = tab[r].drefs, pump'.todo = pump.todo
        PROVE  DispatchRefs'
    BY <1>t, <1>0 DEF DispatchRefs
  <1>1. ASSUME NEW sl \in Slots, PublishBegins(sl)
        PROVE  DispatchRefs'
    <2>1. pump.todo = {} /\ pump'.todo = {} /\ tab' = tab
      BY <1>t, <1>1 DEF PublishBegins, PumpIn, PumpShape
    <2> QED
      BY <1>0, <2>1
  <1>2. CASE \E t \in Threads : ReturnBuffer(t)
    BY <1>0, <1>2, Movers
  <1>3. CASE PublishSnapshot
    <2>1. pump.todo = {} /\ pump'.todo = {s \in Sinks : tab[s].use /\ tab[s].on}
      BY <1>t, <1>3 DEF PublishSnapshot, PumpIn, PumpShape
    <2>2. ASSUME NEW r \in Sinks
          PROVE  tab'[r].drefs = (IF r \in pump'.todo THEN 1 ELSE 0)
      <3>1. tab[r].drefs = 0 /\ tab[r] \in Entry
        BY <1>t, <1>e, <2>1 DEF DispatchRefs
      <3>2. CASE tab[r].use /\ tab[r].on
        <4>1. tab'[r] = [tab[r] EXCEPT !.drefs = tab[r].drefs + 1]
          BY <1>t, <1>3, <3>2, SnapshotTab
        <4>2. tab'[r].drefs = tab[r].drefs + 1
          BY <3>1, <4>1 DEF Entry
        <4> QED
          BY <2>1, <3>1, <3>2, <4>2
      <3>3. CASE ~(tab[r].use /\ tab[r].on)
        <4>1. tab'[r] = tab[r]
          BY <1>t, <1>3, <3>3, SnapshotTab
        <4> QED
          BY <2>1, <3>1, <3>3, <4>1
      <3> QED
        BY <3>2, <3>3
    <2> QED
      BY <2>2 DEF DispatchRefs
  <1>4. CASE PublishNext
    <2> DEFINE s == First(pump.todo)
    <2>1. s \in pump.todo /\ s \in Sinks
      BY <1>t, <1>4, FirstIn DEF PublishNext, PumpIn, PumpShape
    <2>2. pump'.todo = pump.todo \ {s}
      BY <1>t, <1>4 DEF PublishNext
    <2>3. /\ tab'[s] = [tab[s] EXCEPT !.drefs = tab[s].drefs - 1]
          /\ \A r \in Sinks \ {s} : tab'[r] = tab[r]
      BY <1>t, <1>4, <2>1, NextTab
    <2> HIDE DEF s
    <2>4. tab'[s].drefs = tab[s].drefs - 1 /\ tab[s].drefs = 1
      BY <1>t, <1>e, <2>1, <2>3 DEF Entry, DispatchRefs
    <2>5. ASSUME NEW r \in Sinks
          PROVE  tab'[r].drefs = (IF r \in pump'.todo THEN 1 ELSE 0)
      <3>1. CASE r = s
        BY <2>2, <2>4, <3>1
      <3>2. CASE r # s
        <4>1. tab'[r] = tab[r] /\ (r \in pump'.todo <=> r \in pump.todo)
          BY <2>2, <2>3, <3>2
        <4> QED
          BY <1>t, <4>1 DEF DispatchRefs
      <3> QED
        BY <3>1, <3>2
    <2> QED
      BY <2>5 DEF DispatchRefs
  <1>5. CASE PublishEnds
    BY <1>t, <1>5, <1>0 DEF PublishEnds, NoPublish, PumpIn
  <1>6. ASSUME NEW s \in Sinks,
               OfferPassed(s) \/ OfferTaken(s) \/ OfferEvicts(s) \/ OfferDropped(s)
        PROVE  DispatchRefs'
    <2>1. pump'.todo = pump.todo
      <3>1. pump' = pump \/ pump' = [pump EXCEPT !.pc = "next"]
        BY <1>6 DEF OfferPassed, OfferTaken, OfferEvicts, OfferDropped, Offered
      <3> QED
        BY <1>t, <3>1
    <2>2. ASSUME NEW r \in Sinks
          PROVE  tab'[r].drefs = tab[r].drefs
      <3>1. CASE OfferPassed(s) \/ OfferDropped(s)
        BY <3>1 DEF OfferPassed, OfferDropped
      <3>2. CASE OfferTaken(s)
        <4>1. pump.slot # NoSlot
          BY <1>t, <3>2, OfferedIn DEF OfferTaken, PumpShape
        <4>2. /\ tab'[s] = [tab[s] EXCEPT !.q = Append(tab[s].q, ThisFrame), !.infl = tab[s].infl + 1]
              /\ r # s => tab'[r] = tab[r]
          BY <1>t, <3>2, <4>1, TakenTab
        <4>3. tab'[s].drefs = tab[s].drefs
          BY <1>e, <4>2 DEF Entry
        <4> QED
          BY <4>2, <4>3
      <3>3. CASE OfferEvicts(s)
        <4>2. /\ tab'[s] = [tab[s] EXCEPT !.q = Tail(tab[s].q), !.infl = tab[s].infl - 1]
              /\ r # s => tab'[r] = tab[r]
          BY <1>t, <3>3, EvictsTab
        <4>3. tab'[s].drefs = tab[s].drefs
          BY <1>e, <4>2 DEF Entry
        <4> QED
          BY <4>2, <4>3
      <3> QED
        BY <1>6, <3>1, <3>2, <3>3
    <2> QED
      BY <1>0, <2>1, <2>2
  <1>7. ASSUME NEW s \in Sinks, ConsStep(s)
        PROVE  DispatchRefs'
    <2>1. pump' = pump
      BY <1>7, Movers
    <2>2. tab'[s].drefs = tab[s].drefs /\ \A r \in Sinks \ {s} : tab'[r] = tab[r]
      <3>1. CASE Takes(s)
        <4>1. /\ \E b \in BOOLEAN : tab'[s] = [tab[s] EXCEPT !.q = Tail(tab[s].q), !.held = b]
              /\ \A r \in Sinks \ {s} : tab'[r] = tab[r]
          BY <1>t, <3>1, TakesTab
        <4> QED
          BY <1>e, <4>1 DEF Entry
      <3>2. CASE Converts(s)
        <4>1. /\ \E b \in BOOLEAN : \/ tab'[s] = [tab[s] EXCEPT !.held = b]
                                    \/ tab'[s] = [tab[s] EXCEPT !.on = b]
              /\ \A r \in Sinks \ {s} : tab'[r] = tab[r]
          BY <1>t, <3>2, ConvertsTab
        <4> QED
          BY <1>e, <4>1 DEF Entry
      <3>3. CASE ConvertFailed(s)
        <4>1. /\ tab'[s] = [tab[s] EXCEPT !.infl = tab[s].infl - 1] \/ tab'[s] = tab[s]
              /\ \A r \in Sinks \ {s} : tab'[r] = tab[r]
          BY <1>t, <3>3, ConvertFailedTab
        <4> QED
          BY <1>e, <4>1 DEF Entry
      <3>4. CASE Finishes(s)
        <4>1. /\ tab'[s] = [tab[s] EXCEPT !.infl = tab[s].infl - 1, !.held = FALSE]
              /\ \A r \in Sinks \ {s} : tab'[r] = tab[r]
          BY <1>t, <3>4, FinishesTab
        <4> QED
          BY <1>e, <4>1 DEF Entry
      <3>5. CASE Releases(s) \/ ReleaseRefused(s) \/ TaskParks(s)
        BY <3>5 DEF Releases, ReleaseRefused, TaskParks
      <3> QED
        BY <1>7, <3>1, <3>2, <3>3, <3>4, <3>5 DEF ConsStep
    <2> QED
      BY <1>0, <2>1, <2>2
  <1>8. CASE CtlCall \/ CtlStep
    <2>p. pump' = pump
      BY <1>8, Movers
    <2>1. ASSUME NEW c \in Configs, Register(c)
          PROVE  DispatchRefs'
      <3> DEFINE s == First({r \in Sinks : ~tab[r].use})
      <3>1. s \in Sinks /\ ~tab[s].use
        BY <2>1, RegisteredIn
      <3>2. tab'[s].drefs = 0 /\ \A r \in Sinks \ {s} : tab'[r] = tab[r]
        BY <1>t, <2>1, <3>1, RegisterTab
      <3>3. s \notin pump.todo
        BY <3>1, QuietParts DEF BusInv, Unused
      <3> HIDE DEF s
      <3> QED
        BY <1>t, <2>p, <3>1, <3>2, <3>3 DEF DispatchRefs
    <2>2. ASSUME NEW s \in Sinks, Unregistered(s)
          PROVE  DispatchRefs'
      <3>1. tab'[s] = NoSink /\ \A r \in Sinks \ {s} : tab'[r] = tab[r]
        BY <1>t, <2>2, UnregisteredTab
      <3>2. rbCtl.pc = "join" /\ s \in rbCtl.todo
        BY <2>2 DEF Unregistered, CtlIn
      <3>3. s \notin pump.todo
        BY <1>t, <3>2 DEF CtlShape, Leaving
      <3> QED
        BY <1>t, <2>p, <3>1, <3>3 DEF DispatchRefs, NoSink
    <2>3. CASE ~((\E c \in Configs : Register(c)) \/ \E s \in Sinks : Unregistered(s))
      <3>1. ASSUME NEW r \in Sinks
            PROVE  tab'[r].drefs = tab[r].drefs
        BY <1>8, <2>3, CtlStepTab DEF CtlCall, CtlStep
      <3> QED
        BY <1>0, <2>p, <3>1
    <2> QED
      BY <2>1, <2>2, <2>3
  <1> QED
    BY <1>1, <1>2, <1>3, <1>4, <1>5, <1>6, <1>7, <1>8, WhoMoves DEF PumpStep

\* Where a step leaves a task of a sink.
LEMMA ConsMoves ==
  ASSUME BusInv, NEW s \in Sinks, ConsStep(s)
  PROVE  /\ \A r \in Sinks \ {s} : cons'[r] = cons[r]
         /\ Takes(s) => cons'[s].pc \in {"convert", "hand"}
         /\ Converts(s) => cons'[s].pc \in {"hand", "failed"}
         /\ ConvertFailed(s) \/ Releases(s) => cons'[s].pc = (IF tab[s].use THEN "idle" ELSE "none")
         /\ Finishes(s) => cons'[s].pc = "release"
         /\ ReleaseRefused(s) => cons'[s].pc = "lost"
         /\ TaskParks(s) => cons'[s].pc = "parked"
  <1>t. BusTypes
    BY DEF BusInv
  <1>n. NoFrame \in Frames /\ cons[s].f \in Frames
    BY <1>t, Tiny, EntryHas
  <1>0. ASSUME NEW pc \in ConsPcs, NEW f \in Frames, ConsGo(s, pc, f)
        PROVE  cons'[s].pc = pc /\ \A r \in Sinks \ {s} : cons'[r] = cons[r]
    BY <1>t, <1>0, ConsSet
  <1>1. CASE Takes(s)
    <2>1. Head(tab[s].q) \in Frames
      BY <1>t, <1>1, HeadFrame DEF Takes
    <2>2. ConsGo(s, "convert", Head(tab[s].q)) \/ ConsGo(s, "hand", Head(tab[s].q))
      BY <1>1 DEF Takes
    <2>3. cons[s].pc = "idle"
      BY <1>1 DEF Takes, ConsIn
    <2>4. /\ cons'[s].pc \in {"convert", "hand"}
          /\ \A r \in Sinks \ {s} : cons'[r] = cons[r]
      BY <1>0, <2>1, <2>2 DEF ConsPcs
    <2>5. TaskParks(s) => cons'[s].pc = "parked"
      BY <1>n, <1>0 DEF TaskParks, ConsPcs
    <2> QED
      BY <2>3, <2>4, <2>5 DEF Converts, ConvertFailed, Releases, Finishes, ReleaseRefused, ConsIn
  <1>2. CASE Converts(s)
    <2>1. ConsGo(s, "hand", NoFrame) \/ ConsGo(s, "failed", NoFrame)
      BY <1>2 DEF Converts
    <2>2. /\ cons'[s].pc \in {"hand", "failed"}
          /\ \A r \in Sinks \ {s} : cons'[r] = cons[r]
      BY <1>n, <1>0, <2>1 DEF ConsPcs
    <2>3. cons[s].pc = "convert"
      BY <1>2 DEF Converts, ConsIn
    <2> QED
      BY <2>2, <2>3 DEF Takes, ConvertFailed, Releases, Finishes, ReleaseRefused, TaskParks, ConsIn
  <1>3. CASE ConvertFailed(s) \/ Releases(s)
    <2>1. ConsGo(s, IF tab[s].use THEN "idle" ELSE "none", NoFrame)
      BY <1>3 DEF ConvertFailed, Releases
    <2>2. (IF tab[s].use THEN "idle" ELSE "none") \in ConsPcs
      BY DEF ConsPcs
    <2>3. /\ cons'[s].pc = (IF tab[s].use THEN "idle" ELSE "none")
          /\ \A r \in Sinks \ {s} : cons'[r] = cons[r]
      BY <1>n, <1>0, <2>1, <2>2
    <2>4. cons[s].pc \in {"failed", "release"}
      BY <1>3 DEF ConvertFailed, Releases, ConsIn
    <2> QED
      BY <2>3, <2>4 DEF Takes, Converts, Finishes, ReleaseRefused, TaskParks, ConsIn
  <1>4. CASE Finishes(s)
    <2>1. ConsGo(s, "release", cons[s].f)
      BY <1>4 DEF Finishes
    <2>2. cons'[s].pc = "release" /\ \A r \in Sinks \ {s} : cons'[r] = cons[r]
      BY <1>n, <1>0, <2>1 DEF ConsPcs
    <2>3. cons[s].pc = "hand" /\ tab[s].use
      BY <1>4 DEF Finishes, ConsIn
    <2> QED
      BY <2>2, <2>3 DEF Takes, Converts, ConvertFailed, Releases, ReleaseRefused, TaskParks, ConsIn
  <1>5. CASE ReleaseRefused(s)
    <2>1. ConsGo(s, "lost", cons[s].f)
      BY <1>5 DEF ReleaseRefused
    <2>2. cons'[s].pc = "lost" /\ \A r \in Sinks \ {s} : cons'[r] = cons[r]
      BY <1>n, <1>0, <2>1 DEF ConsPcs
    <2>3. cons[s].pc = "hand" /\ ~tab[s].use
      BY <1>5 DEF ReleaseRefused, ConsIn
    <2> QED
      BY <2>2, <2>3 DEF Takes, Converts, ConvertFailed, Releases, Finishes, TaskParks, ConsIn
  <1>6. CASE TaskParks(s) /\ ~Takes(s)
    <2>1. ConsGo(s, "parked", NoFrame)
      BY <1>6 DEF TaskParks
    <2>2. cons'[s].pc = "parked" /\ \A r \in Sinks \ {s} : cons'[r] = cons[r]
      BY <1>n, <1>0, <2>1 DEF ConsPcs
    <2>3. cons[s].pc = "idle"
      BY <1>6 DEF TaskParks, ConsIn
    <2> QED
      BY <1>6, <2>2, <2>3 DEF Converts, ConvertFailed, Releases, Finishes, ReleaseRefused, ConsIn
  <1> QED
    BY <1>1, <1>2, <1>3, <1>4, <1>5, <1>6 DEF ConsStep

\* An entry not in use stays out of the publish, empty, without a task.
LEMMA GoneStep ==
  ASSUME BusInv, RbNext, NEW r \in Sinks, ~tab'[r].use
  PROVE  Unused(r)'
  <1>t. BusTypes /\ CtlShape /\ Leaving /\ cons[r].pc \in ConsPcs
    BY EntryHas DEF BusInv
  <1>0. ASSUME ~tab[r].use
        PROVE  Unused(r)
    BY <1>0, QuietParts DEF BusInv
  <1>1. CASE \E t \in Threads : ReturnBuffer(t)
    BY <1>0, <1>1, Movers DEF Unused
  <1>2. CASE (\E sl \in Slots : PublishBegins(sl)) \/ PumpStep
    <2>1. cons' = cons /\ tab'[r].use = tab[r].use
      BY <1>2, Movers, TabKept
    <2>2. Unused(r)
      BY <1>0, <2>1
    <2>3. r \notin pump'.todo
      BY <1>2, <2>1, <2>2, TodoKept DEF Unused
    <2>4. tab'[r].q = <<>>
      BY <1>2, <2>2, Movers, TabKept DEF Unused
    <2> QED
      BY <2>1, <2>2, <2>3, <2>4 DEF Unused
  <1>3. ASSUME NEW s \in Sinks, ConsStep(s)
        PROVE  Unused(r)'
    <2>1. pump' = pump /\ tab'[r].use = tab[r].use
      BY <1>3, Movers, TabKept
    <2>2. Unused(r)
      BY <1>0, <2>1
    <2>3. tab'[r].q = <<>>
      BY <1>3, <2>2, TabKept DEF Unused
    <2>4. cons'[r].pc \in {"none", "convert", "failed", "hand", "release", "lost"}
      <3>1. CASE r # s
        BY <1>3, <2>2, <3>1, ConsMoves DEF Unused
      <3>2. CASE r = s
        <4>1. ~TaskParks(s)
          BY <2>1, <3>2 DEF TaskParks
        <4>2. ConvertFailed(s) \/ Releases(s) => cons'[r].pc = "none"
          BY <1>3, <2>1, <3>2, ConsMoves
        <4> QED
          BY <1>3, <3>2, <4>1, <4>2, ConsMoves DEF ConsStep
      <3> QED
        BY <3>1, <3>2
    <2> QED
      BY <2>1, <2>2, <2>3, <2>4 DEF Unused
  <1>4. CASE CtlCall \/ CtlStep
    <2>p. pump' = pump
      BY <1>4, Movers
    <2>1. ASSUME NEW c \in Configs, Register(c)
          PROVE  Unused(r)'
      <3> DEFINE s == First({x \in Sinks : ~tab[x].use})
      <3>1. s \in Sinks /\ ~tab[s].use
        BY <2>1, RegisteredIn
      <3>2. tab'[s].use /\ \A x \in Sinks \ {s} : tab'[x] = tab[x]
        BY <1>t, <2>1, <3>1, RegisterTab
      <3>3. ConsGo(s, "none", NoFrame) \/ ConsGo(s, "idle", NoFrame)
        BY <2>1 DEF Register
      <3> HIDE DEF s
      <3>4. r # s
        BY <3>2
      <3>5. cons'[r] = cons[r] /\ tab'[r] = tab[r]
        BY <1>t, <3>1, <3>2, <3>3, <3>4, ConsSet, Tiny DEF ConsPcs
      <3> QED
        BY <1>0, <2>p, <3>5 DEF Unused
    <2>2. ASSUME NEW s \in Sinks, Unregistered(s)
          PROVE  Unused(r)'
      <3>1. tab'[s] = NoSink /\ \A x \in Sinks \ {s} : tab'[x] = tab[x]
        BY <1>t, <2>2, UnregisteredTab
      <3>c. /\ \A x \in Sinks \ {s} : cons'[x] = cons[x]
            /\ cons'[s].pc = (IF cons[s].pc \in {"parked", "idle"} THEN "none" ELSE cons[s].pc)
        BY <1>t, <2>2 DEF Unregistered, BusTypes
      <3>2. CASE r # s
        BY <1>0, <2>p, <3>1, <3>c, <3>2 DEF Unused
      <3>3. CASE r = s
        <4>1. rbCtl.pc = "join" /\ s \in rbCtl.todo
          BY <2>2 DEF Unregistered, CtlIn
        <4>2. s \notin pump.todo
          BY <1>t, <4>1 DEF CtlShape, Leaving
        <4>3. cons'[r].pc \in {"none", "convert", "failed", "hand", "release", "lost"}
          BY <1>t, <3>c, <3>3 DEF ConsPcs
        <4> QED
          BY <2>p, <3>1, <3>3, <4>2, <4>3 DEF Unused, NoSink
      <3> QED
        BY <3>2, <3>3
    <2>3. CASE ~((\E c \in Configs : Register(c)) \/ \E s \in Sinks : Unregistered(s))
      <3>1. cons' = cons
        BY <1>4, <2>3 DEF CtlCall, CtlStep, Enable, Disable, Unregister, DrainBegins, DispatchOver,
              DrainPops, DrainAccounts, DrainReleases, DrainMoves, DrainVerdict
      <3>2. /\ tab'[r].use = tab[r].use
            /\ tab'[r].q = tab[r].q \/ DrainPops
        BY <1>4, <2>3, CtlStepTab DEF CtlCall, CtlStep
      <3>3. Unused(r)
        BY <1>0, <3>2
      <3>4. ASSUME DrainPops
            PROVE  tab'[r].q = tab[r].q
        <4>1. tab[Drained].q # <<>>
          BY <3>4 DEF DrainPops
        <4>2. r # Drained
          BY <3>3, <4>1 DEF Unused
        <4>3. tab'[r].q = (IF r = Drained THEN Tail(tab[r].q) ELSE tab[r].q)
          BY <3>4, CtlStepTab
        <4> QED
          BY <4>2, <4>3
      <3> QED
        BY <2>p, <3>1, <3>2, <3>3, <3>4 DEF Unused
    <2> QED
      BY <2>1, <2>2, <2>3
  <1> QED
    BY <1>1, <1>2, <1>3, <1>4, WhoMoves

\* Every step keeps GoneIsQuiet.
LEMMA QuietStep ==
  ASSUME BusInv, RbNext
  PROVE  GoneIsQuiet'
  BY DispatchRefsStep, GoneStep, QuietParts
----------------------------------------------------------------------------
(* The counts of the sinks                                                 *)

Busy(r)    == IF cons[r].pc \in {"convert", "failed", "hand"} THEN 1 ELSE 0
Drawn(r)   == IF rbCtl.pc = "account" /\ Drained = r THEN 1 ELSE 0
InFlight(r) == tab[r].use => /\ tab[r].infl = Len(tab[r].q) + Busy(r) + Drawn(r)
                             /\ tab[r].infl <= tab[r].cfg.depth + 1

\* InFlightMatches sink by sink, before and after a step.
LEMMA InFlightParts ==
  /\ InFlightMatches <=> \A r \in Sinks : InFlight(r)
  /\ InFlightMatches' <=> \A r \in Sinks : InFlight(r)'
  BY DEF InFlightMatches, InFlight, Busy, Drawn, Cap

\* A sink's task and the drain account for one frame at most each.
LEMMA OneOrNone ==
  ASSUME NEW r
  PROVE  /\ Busy(r) \in {0, 1} /\ Drawn(r) \in {0, 1}
         /\ Busy(r)' \in {0, 1} /\ Drawn(r)' \in {0, 1}
  <1>1. Busy(r) \in {0, 1}
    BY DEF Busy
  <1>2. Drawn(r) \in {0, 1}
    BY DEF Drawn
  <1>3. Busy(r)' \in {0, 1}
    BY DEF Busy
  <1>4. Drawn(r)' \in {0, 1}
    BY DEF Drawn
  <1> QED
    BY <1>1, <1>2, <1>3, <1>4

\* A count that moves with what it counts, or goes down with it, stays right.
LEMMA InFlightMoves ==
  ASSUME BusTypes, NEW r \in Sinks, InFlight(r), NEW d \in {0, 1},
         tab'[r].use = tab[r].use, tab'[r].cfg = tab[r].cfg,
         tab'[r].infl = tab[r].infl - d,
         Len(tab'[r].q) + Busy(r)' + Drawn(r)' = Len(tab[r].q) + Busy(r) + Drawn(r) - d
  PROVE  InFlight(r)'
  <1>1. tab[r].infl \in Int /\ tab[r].cfg.depth \in Nat /\ tab[r].q \in Seq(Frame)
    BY EntryHas
  <1>2. Len(tab[r].q) \in Nat
    BY <1>1, LenProperties
  <1>3. Busy(r) \in {0, 1} /\ Drawn(r) \in {0, 1}
    BY DEF Busy, Drawn
  <1> DEFINE n == Len(tab[r].q)  m == Len(tab'[r].q) + Busy(r)' + Drawn(r)'
  <1>4. CASE tab[r].use
    <2>1. tab[r].infl = n + Busy(r) + Drawn(r) /\ tab[r].infl <= tab[r].cfg.depth + 1
      BY <1>4 DEF InFlight
    <2>2. tab'[r].infl = m
      BY <1>1, <1>2, <1>3, <2>1
    <2>3. tab'[r].infl <= tab'[r].cfg.depth + 1
      BY <1>1, <2>1
    <2> QED
      BY <2>2, <2>3 DEF InFlight
  <1>5. CASE ~tab[r].use
    BY <1>5 DEF InFlight
  <1> QED
    BY <1>4, <1>5

\* A step of the publish keeps a sink's in_flight right.
LEMMA InFlightPump ==
  ASSUME BusInv, PumpStep, NEW r \in Sinks
  PROVE  InFlight(r)'
  <1>t. BusTypes /\ PumpShape /\ InFlight(r)
    BY InFlightParts DEF BusInv
  <1>e. /\ tab[r] \in Entry /\ tab[r].infl \in Int /\ tab[r].cfg.depth \in Nat
        /\ tab[r].q \in Seq(Frame) /\ Len(tab[r].q) \in Nat
    BY <1>t, EntryHas, LenProperties
  <1>c. cons' = cons /\ rbCtl' = rbCtl
    BY Movers DEF RbNext
  <1>b. /\ Busy(r)' = Busy(r) /\ Drawn(r)' = Drawn(r)
        /\ Busy(r) \in {0, 1} /\ Drawn(r) \in {0, 1}
    <2>1. Busy(r)' = Busy(r)
      BY <1>c DEF Busy
    <2>2. Drawn(r)' = Drawn(r)
      BY <1>c DEF Drawn, Drained
    <2> QED
      BY <2>1, <2>2, OneOrNone
  <1>k. tab'[r].use = tab[r].use /\ tab'[r].cfg = tab[r].cfg
    BY TabKept
  <1>0. ASSUME tab'[r].infl = tab[r].infl, tab'[r].q = tab[r].q
        PROVE  InFlight(r)'
    <2>1. tab'[r].infl = tab[r].infl - 0
      BY <1>0, <1>e
    <2>2. Len(tab'[r].q) + Busy(r)' + Drawn(r)' = Len(tab[r].q) + Busy(r) + Drawn(r) - 0
      BY <1>0, <1>e, <1>b
    <2> QED
      BY <1>t, <1>k, <2>1, <2>2, InFlightMoves
  <1>1. CASE PublishSnapshot
    <2>1. \/ tab'[r] = [tab[r] EXCEPT !.drefs = tab[r].drefs + 1]
          \/ tab'[r] = tab[r]
      BY <1>t, <1>1, SnapshotTab
    <2> QED
      BY <1>0, <1>e, <2>1 DEF Entry
  <1>2. CASE PublishNext
    <2>1. First(pump.todo) \in Sinks
      BY <1>t, <1>2, FirstIn DEF PublishNext, PumpIn, PumpShape, BusTypes
    <2>2. \/ tab'[r] = [tab[r] EXCEPT !.drefs = tab[r].drefs - 1]
          \/ tab'[r] = tab[r]
      BY <1>t, <1>2, <2>1, NextTab
    <2> QED
      BY <1>0, <1>e, <2>2 DEF Entry
  <1>3. CASE PublishEnds
    BY <1>0, <1>3 DEF PublishEnds
  <1>4. ASSUME NEW s \in Sinks, OfferPassed(s) \/ OfferDropped(s)
        PROVE  InFlight(r)'
    BY <1>0, <1>4 DEF OfferPassed, OfferDropped
  <1>5. ASSUME NEW s \in Sinks, OfferTaken(s)
        PROVE  InFlight(r)'
    <2>1. pump.slot # NoSlot
      BY <1>t, <1>5, OfferedIn DEF OfferTaken, PumpShape
    <2>2. /\ tab'[s] = [tab[s] EXCEPT !.q = Append(tab[s].q, ThisFrame), !.infl = tab[s].infl + 1]
          /\ r # s => tab'[r] = tab[r]
          /\ ThisFrame \in Frame
      BY <1>t, <1>5, <2>1, TakenTab
    <2>3. CASE r # s
      BY <1>0, <2>2, <2>3
    <2>4. CASE r = s
      <3>1. /\ tab'[r].q = Append(tab[r].q, ThisFrame) /\ tab'[r].infl = tab[r].infl + 1
            /\ tab'[r].use = tab[r].use /\ tab'[r].cfg = tab[r].cfg
        BY <1>e, <2>2, <2>4 DEF Entry
      <3>2. Len(tab'[r].q) = Len(tab[r].q) + 1
        BY <1>e, <2>2, <3>1, AppendProperties
      <3>3. ~(tab[r].infl >= tab[r].cfg.depth + 1)
        BY <1>5, <2>4 DEF OfferTaken, CanTake, AtLimit, Cap
      <3>4. tab[r].use => tab'[r].infl = Len(tab'[r].q) + Busy(r)' + Drawn(r)'
        BY <1>t, <1>e, <1>b, <3>1, <3>2 DEF InFlight
      <3>5. tab'[r].infl <= tab'[r].cfg.depth + 1
        BY <1>e, <3>1, <3>3
      <3> QED
        BY <3>1, <3>4, <3>5 DEF InFlight
    <2> QED
      BY <2>3, <2>4
  <1>6. ASSUME NEW s \in Sinks, OfferEvicts(s)
        PROVE  InFlight(r)'
    <2>2. /\ tab'[s] = [tab[s] EXCEPT !.q = Tail(tab[s].q), !.infl = tab[s].infl - 1]
          /\ r # s => tab'[r] = tab[r]
          /\ tab[s].q # <<>>
      BY <1>t, <1>6, EvictsTab DEF OfferEvicts
    <2>3. CASE r # s
      BY <1>0, <2>2, <2>3
    <2>4. CASE r = s
      <3>1. tab'[r].q = Tail(tab[r].q) /\ tab'[r].infl = tab[r].infl - 1
        BY <1>e, <2>2, <2>4 DEF Entry
      <3>2. Len(tab'[r].q) = Len(tab[r].q) - 1
        BY <1>e, <2>2, <2>4, <3>1, HeadTailProperties
      <3>3. Len(tab'[r].q) + Busy(r)' + Drawn(r)' = Len(tab[r].q) + Busy(r) + Drawn(r) - 1
        BY <1>e, <1>b, <3>2
      <3> QED
        BY <1>t, <1>k, <3>1, <3>3, InFlightMoves
    <2> QED
      BY <2>3, <2>4
  <1> QED
    BY <1>1, <1>2, <1>3, <1>4, <1>5, <1>6 DEF PumpStep

\* A step of a consumer keeps a sink's in_flight right.
LEMMA InFlightCons ==
  ASSUME BusInv, NEW s \in Sinks, ConsStep(s), NEW r \in Sinks
  PROVE  InFlight(r)'
  <1>t. BusTypes /\ InFlight(r)
    BY InFlightParts DEF BusInv
  <1>e. /\ tab[r] \in Entry /\ tab[r].infl \in Int /\ tab[r].cfg.depth \in Nat
        /\ tab[r].q \in Seq(Frame) /\ Len(tab[r].q) \in Nat
    BY <1>t, EntryHas, LenProperties
  <1>c. rbCtl' = rbCtl
    BY Movers DEF RbNext
  <1>b. /\ Drawn(r)' = Drawn(r)
        /\ Busy(r) \in {0, 1} /\ Drawn(r) \in {0, 1} /\ Busy(r)' \in {0, 1}
    <2>1. Drawn(r)' = Drawn(r)
      BY <1>c DEF Drawn, Drained
    <2> QED
      BY <2>1, OneOrNone
  <1>k. tab'[r].use = tab[r].use /\ tab'[r].cfg = tab[r].cfg
    BY TabKept
  <1>0. ASSUME tab'[r].infl = tab[r].infl,
               Len(tab'[r].q) + Busy(r)' = Len(tab[r].q) + Busy(r), Len(tab'[r].q) \in Int
        PROVE  InFlight(r)'
    <2>1. tab'[r].infl = tab[r].infl - 0
      BY <1>0, <1>e
    <2>2. Len(tab'[r].q) + Busy(r)' + Drawn(r)' = Len(tab[r].q) + Busy(r) + Drawn(r) - 0
      BY <1>0, <1>e, <1>b
    <2> QED
      BY <1>t, <1>k, <2>1, <2>2, InFlightMoves
  <1>1. CASE r # s
    <2>1. cons'[r] = cons[r] /\ Busy(r)' = Busy(r)
      BY <1>1, ConsMoves DEF Busy
    <2>2. tab'[r] = tab[r]
      BY <1>t, <1>1, OtherTab
    <2> QED
      BY <1>0, <1>e, <1>b, <2>1, <2>2
  <1>2. CASE r = s
    <2>1. CASE Takes(s)
      <3>1. tab'[r].q = Tail(tab[r].q) /\ tab'[r].infl = tab[r].infl
        <4>1. PICK b \in BOOLEAN : tab'[r] = [tab[r] EXCEPT !.q = Tail(tab[r].q), !.held = b]
          BY <1>t, <1>2, <2>1, TakesTab
        <4> QED
          BY <1>e, <4>1 DEF Entry
      <3>2. tab[r].q # <<>> /\ cons[r].pc = "idle"
        BY <1>2, <2>1 DEF Takes, ConsIn
      <3>3. Len(tab'[r].q) = Len(tab[r].q) - 1
        BY <1>e, <3>1, <3>2, HeadTailProperties
      <3>4. Busy(r) = 0 /\ Busy(r)' = 1
        BY <1>2, <2>1, <3>2, ConsMoves DEF Busy
      <3> QED
        BY <1>0, <1>e, <3>1, <3>3, <3>4
    <2>2. CASE Converts(s)
      <3>1. tab'[r].q = tab[r].q /\ tab'[r].infl = tab[r].infl
        <4>1. \E b \in BOOLEAN : \/ tab'[r] = [tab[r] EXCEPT !.held = b]
                                 \/ tab'[r] = [tab[r] EXCEPT !.on = b]
          BY <1>t, <1>2, <2>2, ConvertsTab
        <4> QED
          BY <1>e, <4>1 DEF Entry
      <3>2. Busy(r) = 1 /\ Busy(r)' = 1
        BY <1>2, <2>2, ConsMoves DEF Busy, Converts, ConsIn
      <3> QED
        BY <1>0, <1>e, <3>1, <3>2
    <2>3. CASE ConvertFailed(s)
      <3>1. CASE tab[r].use
        <4>1. tab'[r] = [tab[r] EXCEPT !.infl = tab[r].infl - 1]
          BY <1>t, <1>2, <2>3, <3>1, ConvertFailedTab
        <4>2. tab'[r].q = tab[r].q /\ tab'[r].infl = tab[r].infl - 1
          BY <1>e, <4>1 DEF Entry
        <4>3. Busy(r) = 1
          BY <1>2, <2>3 DEF Busy, ConvertFailed, ConsIn
        <4>4. Busy(r)' = 0
          BY <1>2, <2>3, <3>1, ConsMoves DEF Busy
        <4>5. Len(tab'[r].q) + Busy(r)' + Drawn(r)' = Len(tab[r].q) + Busy(r) + Drawn(r) - 1
          BY <1>e, <1>b, <4>2, <4>3, <4>4
        <4> QED
          BY <1>t, <1>k, <4>2, <4>5, InFlightMoves
      <3>2. CASE ~tab[r].use
        BY <1>k, <3>2 DEF InFlight
      <3> QED
        BY <3>1, <3>2
    <2>4. CASE Finishes(s)
      <3>1. tab'[r] = [tab[r] EXCEPT !.infl = tab[r].infl - 1, !.held = FALSE]
        BY <1>t, <1>2, <2>4, FinishesTab
      <3>2. tab'[r].q = tab[r].q /\ tab'[r].infl = tab[r].infl - 1
        BY <1>e, <3>1 DEF Entry
      <3>3. Busy(r) = 1
        BY <1>2, <2>4 DEF Busy, Finishes, ConsIn
      <3>4. Busy(r)' = 0
        BY <1>2, <2>4, ConsMoves DEF Busy
      <3>5. Len(tab'[r].q) + Busy(r)' + Drawn(r)' = Len(tab[r].q) + Busy(r) + Drawn(r) - 1
        BY <1>e, <1>b, <3>2, <3>3, <3>4
      <3> QED
        BY <1>t, <1>k, <3>2, <3>5, InFlightMoves
    <2>5. CASE Releases(s)
      <3>1. tab' = tab /\ cons[r].pc = "release"
        BY <1>2, <2>5 DEF Releases, ConsIn
      <3>2. Busy(r) = 0 /\ Busy(r)' = 0
        BY <1>2, <2>5, <3>1, ConsMoves DEF Busy
      <3> QED
        BY <1>0, <1>e, <3>1, <3>2
    <2>6. CASE ReleaseRefused(s)
      BY <1>2, <1>k, <2>6 DEF ReleaseRefused, InFlight
    <2>7. CASE TaskParks(s)
      <3>1. tab' = tab /\ cons[r].pc = "idle"
        BY <1>2, <2>7 DEF TaskParks, ConsIn
      <3>2. Busy(r) = 0 /\ Busy(r)' = 0
        BY <1>2, <2>7, <3>1, ConsMoves DEF Busy
      <3> QED
        BY <1>0, <1>e, <3>1, <3>2
    <2> QED
      BY <2>1, <2>2, <2>3, <2>4, <2>5, <2>6, <2>7 DEF ConsStep
  <1> QED
    BY <1>1, <1>2

\* A step of the control task keeps a sink's in_flight right.
LEMMA InFlightCtl ==
  ASSUME BusInv, CtlCall \/ CtlStep, NEW r \in Sinks
  PROVE  InFlight(r)'
  <1>t. BusTypes /\ CtlShape /\ Leaving /\ InFlight(r) /\ rbCtl \in CtlRec
    BY InFlightParts DEF BusInv, BusTypes
  <1>e. /\ tab[r] \in Entry /\ tab[r].infl \in Int /\ tab[r].cfg.depth \in Nat
        /\ tab[r].q \in Seq(Frame) /\ Len(tab[r].q) \in Nat
    BY <1>t, EntryHas, LenProperties
  <1>0. ASSUME tab'[r].use = tab[r].use, tab'[r].cfg = tab[r].cfg,
               tab'[r].infl = tab[r].infl, tab'[r].q = tab[r].q,
               Busy(r)' = Busy(r), Drawn(r)' = Drawn(r)
        PROVE  InFlight(r)'
    <2>1. tab'[r].infl = tab[r].infl - 0
      BY <1>0, <1>e
    <2>2. Len(tab'[r].q) + Busy(r)' + Drawn(r)' = Len(tab[r].q) + Busy(r) + Drawn(r) - 0
      BY <1>0, <1>e, OneOrNone
    <2> QED
      BY <1>t, <1>0, <2>1, <2>2, InFlightMoves
  <1>1. ASSUME NEW c \in Configs, Register(c)
        PROVE  InFlight(r)'
    <2> DEFINE s == First({x \in Sinks : ~tab[x].use})
    <2>0. s \in Sinks /\ ~tab[s].use
      BY <1>1, RegisteredIn
    <2>1. /\ tab'[s].cfg = c /\ tab'[s].q = <<>> /\ tab'[s].infl = 0
          /\ \A x \in Sinks \ {s} : tab'[x] = tab[x]
      BY <1>t, <1>1, <2>0, RegisterTab
    <2>2. ConsGo(s, "none", NoFrame) \/ ConsGo(s, "idle", NoFrame)
      BY <1>1 DEF Register
    <2>3. rbCtl.pc = "idle" /\ rbCtl' = rbCtl
      BY <1>1 DEF Register, CtlIn
    <2> HIDE DEF s
    <2>4. /\ cons'[s].pc \in {"none", "idle"}
          /\ \A x \in Sinks \ {s} : cons'[x] = cons[x]
      BY <1>t, <2>0, <2>2, ConsSet, Tiny DEF ConsPcs
    <2>5. Drawn(r) = 0 /\ Drawn(r)' = 0
      BY <2>3 DEF Drawn
    <2>6. CASE r = s
      <3>1. Busy(r)' = 0
        BY <2>4, <2>6 DEF Busy
      <3>2. Len(tab'[r].q) = 0
        BY <2>1, <2>6, EmptySeq
      <3>3. c.depth \in Nat
        BY CfgHas DEF Cfgs
      <3>4. tab'[r].infl = 0 /\ tab'[r].cfg.depth = c.depth
        BY <2>1, <2>6
      <3>5. tab'[r].infl = Len(tab'[r].q) + Busy(r)' + Drawn(r)'
        BY <2>5, <3>1, <3>2, <3>4
      <3>6. tab'[r].infl <= tab'[r].cfg.depth + 1
        BY <3>3, <3>4
      <3> QED
        BY <3>5, <3>6 DEF InFlight
    <2>7. CASE r # s
      <3>1. tab'[r] = tab[r] /\ cons'[r] = cons[r]
        BY <2>1, <2>4, <2>7
      <3>2. Busy(r)' = Busy(r)
        BY <3>1 DEF Busy
      <3> QED
        BY <1>0, <2>5, <3>1, <3>2
    <2> QED
      BY <2>6, <2>7
  <1>2. ASSUME NEW s \in Sinks, Unregistered(s)
        PROVE  InFlight(r)'
    <2>1. tab'[s] = NoSink /\ \A x \in Sinks \ {s} : tab'[x] = tab[x]
      BY <1>t, <1>2, UnregisteredTab
    <2>2. CASE r = s
      BY <2>1, <2>2 DEF NoSink, InFlight
    <2>3. CASE r # s
      <3>1. tab'[r] = tab[r] /\ cons'[r] = cons[r]
        BY <1>t, <1>2, <2>1, <2>3 DEF Unregistered, BusTypes
      <3>2. Busy(r)' = Busy(r)
        BY <3>1 DEF Busy
      <3>3. Drawn(r) = 0
        BY <1>2 DEF Unregistered, CtlIn, Drawn
      <3>4. Drawn(r)' = 0
        BY <1>2 DEF Unregistered, IdleCtl, Drawn
      <3> QED
        BY <1>0, <3>1, <3>2, <3>3, <3>4
    <2> QED
      BY <2>2, <2>3
  <1>3. CASE DrainPops
    <2>1. /\ tab'[r].use = tab[r].use /\ tab'[r].cfg = tab[r].cfg
          /\ tab'[r].q = (IF r = Drained THEN Tail(tab[r].q) ELSE tab[r].q)
          /\ tab'[r].infl = tab[r].infl
      BY <1>3, CtlStepTab
    <2>2. Busy(r)' = Busy(r)
      BY <1>3 DEF DrainPops, Busy
    <2>3. rbCtl.pc = "drain" /\ tab[Drained].q # <<>>
      BY <1>3 DEF DrainPops, CtlIn
    <2>4. rbCtl'.pc = "account" /\ rbCtl'.todo = rbCtl.todo
      BY <1>t, <1>3 DEF DrainPops, CtlRec
    <2>5. Drawn(r) = 0
      BY <2>3 DEF Drawn
    <2>6. Drawn(r)' = (IF Drained = r THEN 1 ELSE 0)
      BY <2>4 DEF Drawn, Drained
    <2>7. CASE r = Drained
      <3>1. Len(tab'[r].q) = Len(tab[r].q) - 1
        BY <1>e, <2>1, <2>3, <2>7, HeadTailProperties
      <3>2. Len(tab'[r].q) + Busy(r)' + Drawn(r)' = Len(tab[r].q) + Busy(r) + Drawn(r) - 0
        BY <1>e, <2>2, <2>5, <2>6, <2>7, <3>1, OneOrNone
      <3>3. tab'[r].infl = tab[r].infl - 0
        BY <1>e, <2>1
      <3> QED
        BY <1>t, <2>1, <3>2, <3>3, InFlightMoves
    <2>8. CASE r # Drained
      BY <1>0, <2>1, <2>2, <2>5, <2>6, <2>8
    <2> QED
      BY <2>7, <2>8
  <1>4. CASE DrainAccounts
    <2>1. /\ tab'[r].use = tab[r].use /\ tab'[r].cfg = tab[r].cfg
          /\ tab'[r].q = tab[r].q
          /\ tab'[r].infl = (IF r = Drained THEN tab[r].infl - 1 ELSE tab[r].infl)
      BY <1>4, CtlStepTab
    <2>2. Busy(r)' = Busy(r)
      BY <1>4 DEF DrainAccounts, Busy
    <2>3. Drawn(r) = (IF Drained = r THEN 1 ELSE 0)
      BY <1>4 DEF DrainAccounts, CtlIn, Drawn
    <2>4. rbCtl'.pc = "release"
      BY <1>t, <1>4 DEF DrainAccounts, CtlRec
    <2>5. Drawn(r)' = 0
      BY <2>4 DEF Drawn
    <2>6. CASE r = Drained
      <3>1. tab'[r].infl = tab[r].infl - 1
        BY <2>1, <2>6
      <3>2. Len(tab'[r].q) + Busy(r)' + Drawn(r)' = Len(tab[r].q) + Busy(r) + Drawn(r) - 1
        BY <1>e, <2>1, <2>2, <2>3, <2>5, <2>6, OneOrNone
      <3> QED
        BY <1>t, <2>1, <3>1, <3>2, InFlightMoves
    <2>7. CASE r # Drained
      BY <1>0, <2>1, <2>2, <2>3, <2>5, <2>7
    <2> QED
      BY <2>6, <2>7
  <1>5. CASE ~(\/ (\E c \in Configs : Register(c)) \/ (\E s \in Sinks : Unregistered(s))
               \/ DrainPops \/ DrainAccounts)
    <2>1. cons' = cons
      BY <1>5 DEF CtlCall, CtlStep, Enable, Disable, Unregister, DrainBegins, DispatchOver,
            DrainReleases, DrainMoves, DrainVerdict
    <2>2. Busy(r)' = Busy(r)
      BY <2>1 DEF Busy
    <2>3. /\ tab'[r].use = tab[r].use /\ tab'[r].cfg = tab[r].cfg
          /\ tab'[r].q = tab[r].q /\ tab'[r].infl = tab[r].infl
      BY <1>5, CtlStepTab DEF CtlCall, CtlStep
    <2>4. rbCtl.pc # "account" /\ rbCtl'.pc # "account"
      <3>1. ASSUME NEW s \in Sinks, Enable(s) \/ Disable(s) \/ Unregister(s)
            PROVE  rbCtl.pc # "account" /\ rbCtl'.pc # "account"
        <4>1. rbCtl.pc = "idle"
          BY <3>1 DEF Enable, Disable, Unregister, CtlIn
        <4>2. CASE Enable(s)
          BY <4>1, <4>2 DEF Enable
        <4>3. CASE Disable(s)
          BY <4>1, <4>3 DEF Disable, IdleCtl
        <4>4. CASE Unregister(s)
          BY <4>1, <4>4 DEF Unregister, IdleCtl
        <4> QED
          BY <3>1, <4>2, <4>3, <4>4
      <3>2. ASSUME NEW s \in Sinks, DispatchOver(s)
            PROVE  rbCtl.pc # "account" /\ rbCtl'.pc # "account"
        BY <1>t, <3>2 DEF DispatchOver, CtlIn, CtlRec
      <3>v. CASE DrainVerdict
        BY <3>v DEF DrainVerdict, CtlIn, IdleCtl
      <3>3. CASE DrainBegins
        <4>1. rbCtl.pc = "idle"
          BY <3>3 DEF DrainBegins, CtlIn
        <4>2. CASE {s \in Sinks : tab[s].use} = {}
          <5>1. rbCtl' = [IdleCtl EXCEPT !.pc = "wait", !.op = "drain",
                                         !.todo = {s \in Sinks : tab[s].use}]
            BY <3>3, <4>2 DEF DrainBegins
          <5> QED
            BY <4>1, <5>1 DEF IdleCtl
        <4>3. CASE {s \in Sinks : tab[s].use} # {}
          <5>1. rbCtl' = [IdleCtl EXCEPT !.pc = "drain", !.op = "drain",
                                         !.todo = {s \in Sinks : tab[s].use}]
            BY <3>3, <4>3 DEF DrainBegins
          <5> QED
            BY <4>1, <5>1 DEF IdleCtl
        <4> QED
          BY <4>2, <4>3
      <3>4. CASE DrainReleases
        BY <1>t, <3>4 DEF DrainReleases, CtlIn, CtlRec
      <3>5. CASE DrainMoves
        <4>1. rbCtl.pc = "drain"
          BY <3>5 DEF DrainMoves, CtlIn
        <4>2. rbCtl' = AfterDrain \/ rbCtl' = [rbCtl EXCEPT !.todo = rbCtl.todo \ {Drained}]
          BY <3>5 DEF DrainMoves
        <4>3. CASE rbCtl' = IdleCtl
          BY <4>1, <4>3 DEF IdleCtl
        <4>4. CASE \/ rbCtl' = [rbCtl EXCEPT !.pc = "join"]
                   \/ rbCtl' = [rbCtl EXCEPT !.pc = "wait", !.todo = {}]
                   \/ rbCtl' = [rbCtl EXCEPT !.todo = rbCtl.todo \ {Drained}]
          BY <1>t, <4>1, <4>4 DEF CtlRec
        <4> QED
          BY <1>t, <4>1, <4>2, <4>3, <4>4, AfterDrainIs
      <3>6. \/ \E s \in Sinks : Enable(s) \/ Disable(s) \/ Unregister(s)
            \/ \E s \in Sinks : DispatchOver(s)
            \/ DrainVerdict \/ DrainBegins \/ DrainReleases \/ DrainMoves
        BY <1>5 DEF CtlCall, CtlStep
      <3> QED
        BY <3>1, <3>2, <3>v, <3>3, <3>4, <3>5, <3>6
    <2>5. Drawn(r) = 0 /\ Drawn(r)' = 0
      BY <2>4 DEF Drawn
    <2> QED
      BY <1>0, <2>2, <2>3, <2>5
  <1> QED
    BY <1>1, <1>2, <1>3, <1>4, <1>5

\* Every step keeps InFlightMatches.
LEMMA InFlightStep ==
  ASSUME BusInv, RbNext
  PROVE  InFlightMatches'
  <1>1. CASE (\E sl \in Slots : PublishBegins(sl)) \/ (\E t \in Threads : ReturnBuffer(t))
    <2>1. tab' = tab /\ cons' = cons /\ rbCtl' = rbCtl
      BY <1>1, Movers
    <2> QED
      BY <2>1 DEF BusInv, InFlightMatches, Cap, Drained
  <1> QED
    BY <1>1, WhoMoves, InFlightPump, InFlightCons, InFlightCtl, InFlightParts

----------------------------------------------------------------------------
(* What a step does to the buffers and to those who hold them: nothing,    *)
(* one reference more, one less, a buffer taken from the driver or given   *)
(* back to it.                                                             *)

\* f is a frame that a queue, a task or the control task has.
Held(f) == \/ \E s \in Sinks : \E k \in 1..Len(tab[s].q) : f = tab[s].q[k]
           \/ \E s \in Sinks : f = cons[s].f
           \/ f = rbCtl.f

HeldKept == \A f : Held(f)' => Held(f) \/ f.slot = NoSlot

Keeps ==
  /\ UNCHANGED <<slot, pinned, ret, driver>> /\ HeldKept
  /\ \A sl \in Slots : Holders(sl)' = Holders(sl)

Gives(t, f) ==
  /\ DropRef(t, f) /\ ret[t] = NoSlot /\ driver' = driver /\ HeldKept
  /\ f.slot # NoSlot => f.gen = slot[f.slot].gen
  /\ \A sl \in Slots : Holders(sl) = Holders(sl)' + (IF f.slot = sl THEN 1 ELSE 0)

Shares(x) ==
  /\ pump.slot = x
  /\ slot' \in [Slots -> SlotRec]
  /\ slot'[x].refs = slot[x].refs + 1 /\ slot'[x].gen = slot[x].gen /\ slot'[x].counted = TRUE
  /\ \A sl \in Slots \ {x} : slot'[sl] = slot[sl]
  /\ pinned' = (IF slot[x].counted THEN pinned ELSE pinned + 1)
  /\ ret' = ret /\ driver' = driver
  /\ \A f : Held(f)' => Held(f) \/ f = [slot |-> x, gen |-> slot[x].gen]
  /\ \A sl \in Slots : Holders(sl)' = Holders(sl) + (IF x = sl THEN 1 ELSE 0)

\* The four kinds of holders of a slot, before and after a step.
LEMMA HolderParts ==
  ASSUME NEW sl
  PROVE  /\ Holders(sl) = Cardinality(QueuedIn(tab, sl)) + Cardinality(HandsIn(cons, sl))
               + (IF pump.slot = sl THEN 1 ELSE 0) + (IF rbCtl.f.slot = sl THEN 1 ELSE 0)
         /\ Holders(sl)' = Cardinality(QueuedIn(tab', sl)) + Cardinality(HandsIn(cons', sl))
               + (IF pump'.slot = sl THEN 1 ELSE 0) + (IF rbCtl'.f.slot = sl THEN 1 ELSE 0)
  <1>1. Queued(sl) = QueuedIn(tab, sl) /\ Queued(sl)' = QueuedIn(tab', sl)
    BY DEF Queued, QueuedIn
  <1>2. InHand(sl) = HandsIn(cons, sl) /\ InHand(sl)' = HandsIn(cons', sl)
    BY DEF InHand, HandsIn
  <1> QED
    BY <1>1, <1>2 DEF Holders

\* The counts of holders are numbers.
LEMMA HolderCounts ==
  ASSUME NEW sl, NEW t \in [Sinks -> Entry], NEW c
  PROVE  Cardinality(QueuedIn(t, sl)) \in Nat /\ Cardinality(HandsIn(c, sl)) \in Nat
  <1>1. \A s \in Sinks : t[s].q \in Seq(Frame)
    BY DEF Entry
  <1>2. IsFiniteSet(QueuedIn(t, sl))
    BY <1>1, QueuedFinite
  <1>3. IsFiniteSet(HandsIn(c, sl))
    BY RbAssumption, FS_Subset DEF HandsIn
  <1> QED
    BY <1>2, <1>3, FS_CardinalityType

\* Tasks with the same slots in hand hold a slot alike.
LEMMA HandsSame ==
  ASSUME NEW c, NEW d, NEW sl, \A s \in Sinks : d[s].f.slot = c[s].f.slot
  PROVE  HandsIn(d, sl) = HandsIn(c, sl)
  BY DEF HandsIn

\* Frames that were held and are held still, those that moved from one holder to
\* another, and none new.
LEMMA HeldKeptBy ==
  ASSUME BusTypes,
         \A s \in Sinks : \/ tab'[s].q = tab[s].q
                          \/ tab[s].q # <<>> /\ tab'[s].q = Tail(tab[s].q),
         \A s \in Sinks : Held(cons'[s].f) \/ cons'[s].f.slot = NoSlot,
         Held(rbCtl'.f) \/ rbCtl'.f.slot = NoSlot
  PROVE  HeldKept
  <1> SUFFICES ASSUME NEW f, Held(f)'
               PROVE  Held(f) \/ f.slot = NoSlot
    BY DEF HeldKept
  <1>1. ASSUME NEW s \in Sinks, NEW k \in 1..Len(tab'[s].q), f = tab'[s].q[k]
        PROVE  Held(f)
    <2>1. tab[s].q \in Seq(Frame)
      BY EntryHas
    <2>2. CASE tab'[s].q = tab[s].q
      BY <1>1, <2>2 DEF Held
    <2>3. CASE tab[s].q # <<>> /\ tab'[s].q = Tail(tab[s].q)
      <3>1. /\ Len(tab'[s].q) = Len(tab[s].q) - 1 /\ Len(tab[s].q) \in Nat
            /\ \A i \in 1..Len(tab'[s].q) : tab'[s].q[i] = tab[s].q[i+1]
        BY <2>1, <2>3, HeadTailProperties, LenProperties
      <3>2. k + 1 \in 1..Len(tab[s].q) /\ f = tab[s].q[k+1]
        BY <1>1, <3>1
      <3> QED
        BY <3>2 DEF Held
    <2> QED
      BY <2>2, <2>3
  <1>2. \/ \E s \in Sinks : \E k \in 1..Len(tab'[s].q) : f = tab'[s].q[k]
        \/ \E s \in Sinks : f = cons'[s].f
        \/ f = rbCtl'.f
    BY DEF Held
  <1> QED
    BY <1>1, <1>2

\* The places of a slot after one frame left the head of a queue of the table.
LEMMA QueueLost ==
  ASSUME NEW s \in Sinks, NEW sl,
         \A r \in Sinks : tab[r].q \in Seq(Frame),
         \A r \in Sinks \ {s} : tab'[r].q = tab[r].q,
         tab[s].q # <<>>, tab'[s].q = Tail(tab[s].q)
  PROVE  Cardinality(QueuedIn(tab, sl)) =
           Cardinality(QueuedIn(tab', sl)) + (IF Head(tab[s].q).slot = sl THEN 1 ELSE 0)
  BY QueuedTail

\* The first frame of a queue is held, and is a frame of a slot.
LEMMA HeadHeld ==
  ASSUME BusTypes, NEW s \in Sinks, tab[s].q # <<>>
  PROVE  Held(Head(tab[s].q)) /\ Head(tab[s].q) \in Frames /\ Head(tab[s].q).slot # NoSlot
  <1>1. tab[s].q \in Seq(Frame)
    BY EntryHas
  <1>2. /\ Len(tab[s].q) \in Nat \ {0} /\ Head(tab[s].q) = tab[s].q[1]
        /\ Head(tab[s].q) \in Frame
    BY <1>1, HeadTailProperties, LenProperties, EmptySeq
  <1>3. 1 \in 1..Len(tab[s].q)
    BY <1>2
  <1>4. Head(tab[s].q) \in Frames /\ Head(tab[s].q).slot # NoSlot
    BY <1>2, RbAssumption DEF Frame, Frames
  <1>5. Held(Head(tab[s].q))
    BY <1>2, <1>3 DEF Held
  <1> QED
    BY <1>4, <1>5

\* Neither a queue nor a task's or the control task's frame changed.
LEMMA Untouched ==
  ASSUME BusTypes, \A s \in Sinks : tab'[s].q = tab[s].q,
         \A s \in Sinks : \/ cons'[s].f = cons[s].f
                          \/ cons'[s].f.slot = NoSlot /\ cons[s].f.slot = NoSlot,
         \/ rbCtl'.f = rbCtl.f
         \/ rbCtl'.f.slot = NoSlot /\ rbCtl.f.slot = NoSlot
  PROVE  /\ HeldKept
         /\ \A sl : QueuedIn(tab', sl) = QueuedIn(tab, sl)
         /\ \A sl : HandsIn(cons', sl) = HandsIn(cons, sl)
         /\ pump'.slot = pump.slot => \A sl : Holders(sl)' = Holders(sl)
  <1>1. \A s \in Sinks : Held(cons'[s].f) \/ cons'[s].f.slot = NoSlot
    BY DEF Held
  <1>2. Held(rbCtl'.f) \/ rbCtl'.f.slot = NoSlot
    BY DEF Held
  <1>3. HeldKept
    BY <1>1, <1>2, HeldKeptBy
  <1>4. ASSUME NEW sl
        PROVE  QueuedIn(tab', sl) = QueuedIn(tab, sl) /\ HandsIn(cons', sl) = HandsIn(cons, sl)
    <2>1. \A s \in Sinks : cons'[s].f.slot = cons[s].f.slot
      OBVIOUS
    <2> QED
      BY <2>1, QueuedSame, HandsSame
  <1>5. ASSUME NEW sl, pump'.slot = pump.slot
        PROVE  Holders(sl)' = Holders(sl)
    <2>1. rbCtl'.f.slot = rbCtl.f.slot
      OBVIOUS
    <2> QED
      BY <2>1, <1>4, <1>5, HolderParts
  <1> QED
    BY <1>3, <1>4, <1>5

\* Held frames carry their slot's generation.
LEMMA CurrentParts ==
  /\ BusTypes => (FramesCurrent <=>
       \A f : Held(f) /\ f.slot # NoSlot => f.gen = slot[f.slot].gen)
  /\ BusTypes' => (FramesCurrent' <=>
       \A f : Held(f)' /\ f.slot # NoSlot => f.gen = slot'[f.slot].gen)
  <1>1. ASSUME BusTypes
        PROVE  FramesCurrent <=> \A f : Held(f) /\ f.slot # NoSlot => f.gen = slot[f.slot].gen
    <2>1. \A s \in Sinks : \A k \in 1..Len(tab[s].q) : tab[s].q[k].slot # NoSlot
      <3>1. ASSUME NEW s \in Sinks, NEW k \in 1..Len(tab[s].q)
            PROVE  tab[s].q[k].slot # NoSlot
        <4>1. tab[s].q \in Seq(Frame)
          BY <1>1, EntryHas
        <4>2. tab[s].q[k] \in Frame
          BY <4>1, ElementOfSeq
        <4> QED
          BY <4>2, RbAssumption DEF Frame
      <3> QED
        BY <3>1
    <2> QED
      BY <2>1 DEF FramesCurrent, Held
  <1>2. ASSUME BusTypes'
        PROVE  FramesCurrent' <=> \A f : Held(f)' /\ f.slot # NoSlot => f.gen = slot'[f.slot].gen
    <2>1. \A s \in Sinks : \A k \in 1..Len(tab'[s].q) : tab'[s].q[k].slot # NoSlot
      <3>1. ASSUME NEW s \in Sinks, NEW k \in 1..Len(tab'[s].q)
            PROVE  tab'[s].q[k].slot # NoSlot
        <4>1. tab' \in [Sinks -> Entry]
          BY <1>2 DEF BusTypes
        <4>2. tab'[s].q \in Seq(Frame)
          BY <4>1 DEF Entry
        <4>3. tab'[s].q[k] \in Frame
          BY <4>2, ElementOfSeq
        <4> QED
          BY <4>3, RbAssumption DEF Frame
      <3> QED
        BY <3>1
    <2> QED
      BY <2>1 DEF FramesCurrent, Held
  <1> QED
    BY <1>1, <1>2

\* What a step of the publish does to the buffers and their holders.
LEMMA PumpEffect ==
  ASSUME BusInv, PumpStep
  PROVE  Keeps \/ (\E f \in Frames : Gives(Pump, f)) \/ (\E x \in Slots : Shares(x))
  <1>t. BusTypes /\ PumpShape /\ FramesCurrent
    BY DEF BusInv
  <1>q. \A s \in Sinks : tab[s] \in Entry /\ tab[s].q \in Seq(Frame)
    BY <1>t, EntryHas
  <1>1. CASE PublishSnapshot \/ PublishNext
             \/ \E s \in Sinks : OfferPassed(s) \/ OfferDropped(s)
    <2>1. \A r \in Sinks : tab'[r].q = tab[r].q
      <3> TAKE r \in Sinks
      <3>0. tab[r] \in Entry
        BY <1>q
      <3>1. CASE PublishSnapshot
        BY <1>t, <3>0, <3>1, SnapshotTab DEF Entry
      <3>2. CASE PublishNext
        <4>1. First(pump.todo) \in Sinks
          BY <1>t, <3>2, FirstIn DEF PublishNext, PumpIn, PumpShape, BusTypes
        <4>2. r = First(pump.todo) => tab'[r] = [tab[r] EXCEPT !.drefs = tab[r].drefs - 1]
          BY <1>t, <3>2, NextTab
        <4>3. r # First(pump.todo) => tab'[r] = tab[r]
          BY <1>t, <3>2, <4>1, NextTab
        <4> QED
          BY <3>0, <4>2, <4>3 DEF Entry
      <3>3. CASE \E s \in Sinks : OfferPassed(s) \/ OfferDropped(s)
        BY <3>3 DEF OfferPassed, OfferDropped
      <3> QED
        BY <1>1, <3>1, <3>2, <3>3
    <2>2. pump'.slot = pump.slot
      BY <1>t, <1>1 DEF PublishSnapshot, PublishNext, OfferPassed, OfferDropped, Offered, BusTypes
    <2>3. cons' = cons /\ rbCtl' = rbCtl /\ UNCHANGED <<slot, pinned, ret, driver>>
      BY <1>1 DEF PublishSnapshot, PublishNext, OfferPassed, OfferDropped, buffers
    <2>4. HeldKept /\ \A sl : Holders(sl)' = Holders(sl)
      BY <1>t, <2>1, <2>2, <2>3, Untouched
    <2> QED
      BY <2>3, <2>4 DEF Keeps
  <1>2. CASE PublishEnds
    <2>1. pump.slot \in Slots /\ ThisFrame \in Frames
      BY <1>t, <1>2 DEF PublishEnds, PumpIn, PumpShape, BusTypes, ThisFrame, Frames, SlotRec
    <2>2. tab' = tab /\ cons' = cons /\ rbCtl' = rbCtl /\ pump'.slot = NoSlot
      BY <1>2 DEF PublishEnds, NoPublish
    <2>3. /\ HeldKept
          /\ \A sl : QueuedIn(tab', sl) = QueuedIn(tab, sl)
          /\ \A sl : HandsIn(cons', sl) = HandsIn(cons, sl)
      BY <1>t, <2>2, Untouched
    <2>4. ThisFrame.slot = pump.slot /\ ThisFrame.gen = slot[pump.slot].gen
      BY DEF ThisFrame
    <2>5. ASSUME NEW sl \in Slots
          PROVE  Holders(sl) = Holders(sl)' + (IF ThisFrame.slot = sl THEN 1 ELSE 0)
      <3>1. Cardinality(QueuedIn(tab, sl)) \in Nat /\ Cardinality(HandsIn(cons, sl)) \in Nat
        BY <1>t, HolderCounts DEF BusTypes
      <3>2. sl # NoSlot
        BY RbAssumption
      <3> QED
        BY <2>2, <2>3, <2>4, <3>1, <3>2, HolderParts
    <2>6. Gives(Pump, ThisFrame)
      BY <1>2, <2>3, <2>4, <2>5 DEF Gives, PublishEnds, PumpIn, Idle
    <2> QED
      BY <2>1, <2>6
  <1>3. ASSUME NEW s \in Sinks, OfferTaken(s)
        PROVE  Shares(pump.slot) /\ pump.slot \in Slots
    <2>1. pump.slot # NoSlot /\ pump.slot \in Slots
      BY <1>t, <1>3 DEF OfferTaken, OffersTo, PumpIn, PumpShape, BusTypes
    <2>2. /\ ThisFrame \in Frame
          /\ tab' \in [Sinks -> Entry]
          /\ tab'[s] = [tab[s] EXCEPT !.q = Append(tab[s].q, ThisFrame), !.infl = tab[s].infl + 1]
          /\ \A r \in Sinks \ {s} : tab'[r] = tab[r]
      BY <1>t, <1>3, <2>1, TakenTab
    <2>3. tab'[s].q = Append(tab[s].q, ThisFrame)
      BY <1>q, <2>2 DEF Entry
    <2>4. /\ slot' \in [Slots -> SlotRec]
          /\ slot'[pump.slot].refs = slot[pump.slot].refs + 1
          /\ slot'[pump.slot].gen = slot[pump.slot].gen
          /\ slot'[pump.slot].counted = TRUE
          /\ \A sl \in Slots \ {pump.slot} : slot'[sl] = slot[sl]
      BY <1>t, <1>3, <2>1, TakenSlot
    <2>5. /\ cons' = cons /\ rbCtl' = rbCtl /\ ret' = ret /\ driver' = driver
          /\ pinned' = (IF slot[pump.slot].counted THEN pinned ELSE pinned + 1)
      BY <1>3 DEF OfferTaken
    <2>6. pump'.slot = pump.slot
      BY <1>t, <1>3 DEF OfferTaken, Offered, BusTypes
    <2>7. ASSUME NEW sl \in Slots
          PROVE  Holders(sl)' = Holders(sl) + (IF pump.slot = sl THEN 1 ELSE 0)
      <3>1. Cardinality(QueuedIn(tab', sl)) =
              Cardinality(QueuedIn(tab, sl)) + (IF ThisFrame.slot = sl THEN 1 ELSE 0)
        <4>1. \A r \in Sinks : tab[r].q \in Seq(Frame)
          BY <1>q
        <4>2. \A r \in Sinks \ {s} : tab'[r].q = tab[r].q
          BY <2>2
        <4> QED
          <5>1. tab'[s].q = Append(tab[s].q, ThisFrame) /\ ThisFrame \in Frame
            BY <2>2, <2>3
          <5> QED
            BY <4>1, <4>2, <5>1, QueuedAppend
      <3>2. ThisFrame.slot = pump.slot
        BY DEF ThisFrame
      <3>3. Cardinality(QueuedIn(tab, sl)) \in Nat /\ Cardinality(HandsIn(cons, sl)) \in Nat
        BY <1>t, HolderCounts DEF BusTypes
      <3> QED
        BY <2>5, <2>6, <3>1, <3>2, <3>3, HolderParts
    <2>8. ASSUME NEW f, Held(f)'
          PROVE  Held(f) \/ f = [slot |-> pump.slot, gen |-> slot[pump.slot].gen]
      <3>1. \/ \E r \in Sinks : \E k \in 1..Len(tab'[r].q) : f = tab'[r].q[k]
            \/ \E r \in Sinks : f = cons'[r].f
            \/ f = rbCtl'.f
        BY <2>8 DEF Held
      <3>2. ASSUME NEW r \in Sinks, NEW k \in 1..Len(tab'[r].q), f = tab'[r].q[k]
            PROVE  Held(f) \/ f = ThisFrame
        <4>1. CASE r # s
          BY <2>2, <3>2, <4>1 DEF Held
        <4>2. CASE r = s
          <5>1. /\ Len(tab'[s].q) = Len(tab[s].q) + 1 /\ Len(tab[s].q) \in Nat
                /\ \A i \in 1..Len(tab[s].q) : tab'[s].q[i] = tab[s].q[i]
                /\ tab'[s].q[Len(tab[s].q) + 1] = ThisFrame
            BY <1>q, <2>2, <2>3, AppendProperties, LenProperties
          <5>2. CASE k = Len(tab[s].q) + 1
            BY <3>2, <4>2, <5>1, <5>2
          <5>3. CASE k # Len(tab[s].q) + 1
            <6>1. k \in 1..Len(tab[s].q)
              BY <4>2, <5>1, <5>3
            <6>2. f = tab[s].q[k]
              BY <3>2, <4>2, <5>1, <6>1
            <6> QED
              BY <6>1, <6>2 DEF Held
          <5> QED
            BY <5>2, <5>3
        <4> QED
          BY <4>1, <4>2
      <3> QED
        BY <2>5, <3>1, <3>2 DEF Held, ThisFrame
    <2> QED
      BY <2>1, <2>4, <2>5, <2>7, <2>8 DEF Shares
  <1>4. ASSUME NEW s \in Sinks, OfferEvicts(s)
        PROVE  \E f \in Frames : Gives(Pump, f)
    <2> DEFINE f == Head(tab[s].q)
    <2>1. tab[s].q # <<>> /\ DropRef(Pump, f) /\ ret[Pump] = NoSlot
      BY <1>4 DEF OfferEvicts, OffersTo, PumpIn, Idle
    <2>2. f \in Frames /\ Held(f) /\ f.slot # NoSlot
      BY <1>t, <2>1, HeadHeld
    <2>3. f.gen = slot[f.slot].gen
      <3> HIDE DEF f
      <3> QED
        BY <1>t, <2>2, CurrentParts
    <2>4. /\ tab'[s] = [tab[s] EXCEPT !.q = Tail(tab[s].q), !.infl = tab[s].infl - 1]
          /\ \A r \in Sinks \ {s} : tab'[r] = tab[r]
      BY <1>t, <1>4, EvictsTab
    <2>5. tab'[s].q = Tail(tab[s].q)
      BY <1>q, <2>4 DEF Entry
    <2>6. cons' = cons /\ rbCtl' = rbCtl /\ pump' = pump /\ driver' = driver
      BY <1>4 DEF OfferEvicts
    <2>7. HeldKept
      <3>1. \A r \in Sinks : \/ tab'[r].q = tab[r].q
                             \/ tab[r].q # <<>> /\ tab'[r].q = Tail(tab[r].q)
        BY <2>1, <2>4, <2>5
      <3>2. (\A r \in Sinks : Held(cons'[r].f)) /\ Held(rbCtl'.f)
        BY <2>6 DEF Held
      <3> QED
        BY <1>t, <3>1, <3>2, HeldKeptBy
    <2>8. ASSUME NEW sl \in Slots
          PROVE  Holders(sl) = Holders(sl)' + (IF f.slot = sl THEN 1 ELSE 0)
      <3>1. Cardinality(QueuedIn(tab, sl)) =
              Cardinality(QueuedIn(tab', sl)) + (IF f.slot = sl THEN 1 ELSE 0)
        <4>1. \A r \in Sinks : tab[r].q \in Seq(Frame)
          BY <1>q
        <4>2. \A r \in Sinks \ {s} : tab'[r].q = tab[r].q
          BY <2>4
        <4> QED
          <5>1. tab[s].q # <<>> /\ tab'[s].q = Tail(tab[s].q)
            BY <2>1, <2>5
          <5> QED
            BY <4>1, <4>2, <5>1, QueueLost
      <3>2. tab' \in [Sinks -> Entry]
        BY <1>t, <1>4, EvictsTab
      <3>3. Cardinality(QueuedIn(tab', sl)) \in Nat /\ Cardinality(HandsIn(cons, sl)) \in Nat
        BY <3>2, HolderCounts
      <3> HIDE DEF f
      <3> QED
        BY <2>6, <3>1, <3>3, HolderParts
    <2>9. Gives(Pump, f)
      <3> HIDE DEF f
      <3> QED
        BY <2>1, <2>3, <2>6, <2>7, <2>8 DEF Gives
    <2> QED
      BY <2>2, <2>9
  <1> QED
    BY <1>1, <1>2, <1>3, <1>4 DEF PumpStep

\* What remains with task s and with the others after s took a step.
LEMMA ConsFrames ==
  ASSUME BusInv, NEW s \in Sinks, ConsStep(s)
  PROVE  /\ \A r \in Sinks \ {s} : cons'[r] = cons[r]
         /\ Takes(s) => cons'[s].f = Head(tab[s].q)
         /\ Converts(s) \/ ConvertFailed(s) \/ Releases(s) \/ TaskParks(s) => cons'[s].f = NoFrame
         /\ Finishes(s) \/ ReleaseRefused(s) => cons'[s].f = cons[s].f
  <1>t. BusTypes
    BY DEF BusInv
  <1>n. NoFrame \in Frames /\ cons[s].f \in Frames
    BY <1>t, Tiny, EntryHas
  <1>0. ASSUME NEW pc \in ConsPcs, NEW f \in Frames, ConsGo(s, pc, f)
        PROVE  cons'[s].f = f
    BY <1>t, <1>0, ConsSet
  <1>1. Takes(s) => cons'[s].f = Head(tab[s].q)
    <2> SUFFICES ASSUME Takes(s)
                 PROVE  cons'[s].f = Head(tab[s].q)
      OBVIOUS
    <2>1. Head(tab[s].q) \in Frames
      BY <1>t, HeadFrame DEF Takes
    <2>2. ConsGo(s, "convert", Head(tab[s].q)) \/ ConsGo(s, "hand", Head(tab[s].q))
      BY DEF Takes
    <2> QED
      BY <1>0, <2>1, <2>2 DEF ConsPcs
  <1>2. Converts(s) \/ ConvertFailed(s) \/ Releases(s) \/ TaskParks(s) => cons'[s].f = NoFrame
    <2> SUFFICES ASSUME Converts(s) \/ ConvertFailed(s) \/ Releases(s) \/ TaskParks(s)
                 PROVE  cons'[s].f = NoFrame
      OBVIOUS
    <2>1. \E pc \in ConsPcs : ConsGo(s, pc, NoFrame)
      BY DEF Converts, ConvertFailed, Releases, TaskParks, ConsPcs
    <2> QED
      BY <1>0, <1>n, <2>1
  <1>3. Finishes(s) \/ ReleaseRefused(s) => cons'[s].f = cons[s].f
    BY <1>0, <1>n DEF Finishes, ReleaseRefused, ConsPcs
  <1>4. \A r \in Sinks \ {s} : cons'[r] = cons[r]
    BY ConsMoves
  <1> QED
    BY <1>1, <1>2, <1>3, <1>4

\* What a step of a consumer does to them.
LEMMA ConsEffect ==
  ASSUME BusInv, NEW s \in Sinks, ConsStep(s)
  PROVE  Keeps \/ \E f \in Frames : Gives(s, f)
  <1>t. BusTypes /\ ConsShape /\ FramesCurrent
    BY DEF BusInv
  <1>q. \A r \in Sinks : tab[r] \in Entry /\ tab[r].q \in Seq(Frame)
    BY <1>t, EntryHas
  <1>c. cons[s].f \in Frames /\ \A r \in Sinks \ {s} : cons'[r] = cons[r]
    BY <1>t, EntryHas, ConsFrames
  <1>o. \A r \in Sinks \ {s} : tab'[r] = tab[r]
    BY <1>t, OtherTab
  <1>p. pump' = pump /\ rbCtl' = rbCtl /\ driver' = driver
    BY DEF ConsStep, Takes, Converts, ConvertFailed, Finishes, Releases, ReleaseRefused, TaskParks
  <1>n. NoFrame.slot = NoSlot
    BY DEF NoFrame
  <1>1. CASE Takes(s)
    <2>1. cons[s].f.slot = NoSlot /\ tab[s].q # <<>>
      BY <1>t, <1>1 DEF Takes, ConsIn, ConsShape
    <2>2. cons'[s].f = Head(tab[s].q)
      BY <1>1, ConsFrames
    <2>3. tab' \in [Sinks -> Entry] /\ \E b \in BOOLEAN : tab'[s] = [tab[s] EXCEPT !.q = Tail(tab[s].q), !.held = b]
      BY <1>t, <1>1, TakesTab
    <2>4. tab'[s].q = Tail(tab[s].q)
      BY <1>q, <2>3 DEF Entry
    <2>5. UNCHANGED <<slot, pinned, ret>>
      BY <1>1 DEF Takes, buffers
    <2>6. HeldKept
      <3>1. \A r \in Sinks : \/ tab'[r].q = tab[r].q
                             \/ tab[r].q # <<>> /\ tab'[r].q = Tail(tab[r].q)
        BY <1>o, <2>1, <2>4
      <3>2. Held(Head(tab[s].q))
        BY <1>t, <2>1, HeadHeld
      <3>3. \A r \in Sinks : Held(cons'[r].f) \/ cons'[r].f.slot = NoSlot
        <4> TAKE r \in Sinks
        <4>1. CASE r = s
          BY <2>2, <3>2, <4>1
        <4>2. CASE r # s
          BY <1>c, <4>2 DEF Held
        <4> QED
          BY <4>1, <4>2
      <3>4. Held(rbCtl'.f)
        BY <1>p DEF Held
      <3> QED
        BY <1>t, <3>1, <3>3, <3>4, HeldKeptBy
    <2>7. ASSUME NEW sl \in Slots
          PROVE  Holders(sl)' = Holders(sl)
      <3> DEFINE h == IF Head(tab[s].q).slot = sl THEN 1 ELSE 0
      <3>1. Cardinality(QueuedIn(tab, sl)) = Cardinality(QueuedIn(tab', sl)) + h
        <4>1. \A r \in Sinks : tab[r].q \in Seq(Frame)
          BY <1>q
        <4>2. \A r \in Sinks \ {s} : tab'[r].q = tab[r].q
          BY <1>o
        <4>3. tab[s].q # <<>> /\ tab'[s].q = Tail(tab[s].q)
          BY <2>1, <2>4
        <4> QED
          BY <4>1, <4>2, <4>3, QueueLost
      <3>2. Cardinality(HandsIn(cons', sl)) = Cardinality(HandsIn(cons, sl)) + h
        <4>1. \A r \in Sinks \ {s} : cons'[r].f.slot = cons[r].f.slot
          BY <1>c
        <4>2. Cardinality(HandsIn(cons', sl)) + (IF cons[s].f.slot = sl THEN 1 ELSE 0) =
              Cardinality(HandsIn(cons, sl)) + (IF cons'[s].f.slot = sl THEN 1 ELSE 0)
          BY <4>1, HandChange
        <4>3. cons[s].f.slot # sl
          BY <2>1, RbAssumption
        <4>4. Cardinality(HandsIn(cons', sl)) \in Nat
          BY <2>3, HolderCounts
        <4> QED
          BY <2>2, <4>2, <4>3, <4>4
      <3>3. /\ Cardinality(QueuedIn(tab', sl)) \in Nat /\ Cardinality(HandsIn(cons, sl)) \in Nat
            /\ h \in {0, 1}
        BY <2>3, HolderCounts
      <3> HIDE DEF h
      <3> QED
        BY <1>p, <3>1, <3>2, <3>3, HolderParts
    <2> QED
      BY <1>p, <2>5, <2>6, <2>7 DEF Keeps
  <1>2. CASE ConvertFailed(s) \/ Finishes(s) \/ ReleaseRefused(s) \/ (TaskParks(s) /\ ~Takes(s))
    <2>1. tab'[s].q = tab[s].q
      <3>1. CASE ConvertFailed(s)
        <4>1. \/ tab'[s] = [tab[s] EXCEPT !.infl = tab[s].infl - 1]
              \/ tab'[s] = tab[s]
          BY <1>t, <3>1, ConvertFailedTab
        <4> QED
          BY <1>q, <4>1 DEF Entry
      <3>2. CASE Finishes(s)
        <4>1. tab'[s] = [tab[s] EXCEPT !.infl = tab[s].infl - 1, !.held = FALSE]
          BY <1>t, <3>2, FinishesTab
        <4> QED
          BY <1>q, <4>1 DEF Entry
      <3>3. CASE ReleaseRefused(s) \/ TaskParks(s)
        BY <3>3 DEF ReleaseRefused, TaskParks
      <3> QED
        BY <1>2, <3>1, <3>2, <3>3
    <2>2. \/ cons'[s].f = cons[s].f
          \/ cons'[s].f.slot = NoSlot /\ cons[s].f.slot = NoSlot
      <3>1. CASE Finishes(s) \/ ReleaseRefused(s)
        BY <3>1, ConsFrames
      <3>2. CASE ConvertFailed(s) \/ TaskParks(s)
        <4>1. cons[s].pc \in {"failed", "idle"}
          BY <3>2 DEF ConvertFailed, TaskParks, ConsIn
        <4> QED
          BY <1>t, <1>n, <3>2, <4>1, ConsFrames DEF ConsShape
      <3> QED
        BY <1>2, <3>1, <3>2
    <2>3. UNCHANGED <<slot, pinned, ret>>
      BY <1>2 DEF ConvertFailed, Finishes, ReleaseRefused, TaskParks, buffers
    <2>4. \A r \in Sinks : tab'[r].q = tab[r].q
      BY <1>o, <2>1
    <2>5. \A r \in Sinks : \/ cons'[r].f = cons[r].f
                           \/ cons'[r].f.slot = NoSlot /\ cons[r].f.slot = NoSlot
      BY <1>c, <2>2
    <2>6. HeldKept /\ \A sl : Holders(sl)' = Holders(sl)
      BY <1>t, <1>p, <2>4, <2>5, Untouched
    <2> QED
      BY <1>p, <2>3, <2>6 DEF Keeps
  <1>3. CASE Converts(s) \/ Releases(s)
    <2> DEFINE f == cons[s].f
    <2>1. DropRef(s, f) /\ ret[s] = NoSlot
      BY <1>3 DEF Converts, Releases, ConsIn, Idle
    <2>2. Held(f)
      BY DEF Held
    <2>3. f.slot # NoSlot => f.gen = slot[f.slot].gen
      <3> HIDE DEF f
      <3> QED
        BY <1>t, <2>2, CurrentParts
    <2>4. cons'[s].f = NoFrame
      BY <1>3, ConsFrames
    <2>5. \A r \in Sinks : tab'[r].q = tab[r].q
      <3>1. CASE Converts(s)
        <4>1. PICK b \in BOOLEAN : \/ tab'[s] = [tab[s] EXCEPT !.held = b]
                                   \/ tab'[s] = [tab[s] EXCEPT !.on = b] /\ (b => tab[s].on)
          BY <1>t, <3>1, ConvertsTab
        <4>2. tab'[s].q = tab[s].q
          BY <1>q, <4>1 DEF Entry
        <4> QED
          BY <1>o, <4>2
      <3>2. CASE Releases(s)
        BY <3>2 DEF Releases
      <3> QED
        BY <1>3, <3>1, <3>2
    <2>6. HeldKept
      <3>1. \A r \in Sinks : Held(cons'[r].f) \/ cons'[r].f.slot = NoSlot
        <4> TAKE r \in Sinks
        <4>1. CASE r = s
          BY <1>n, <2>4, <4>1
        <4>2. CASE r # s
          BY <1>c, <4>2 DEF Held
        <4> QED
          BY <4>1, <4>2
      <3>2. Held(rbCtl'.f)
        BY <1>p DEF Held
      <3> QED
        BY <1>t, <2>5, <3>1, <3>2, HeldKeptBy
    <2>7. ASSUME NEW sl \in Slots
          PROVE  Holders(sl) = Holders(sl)' + (IF f.slot = sl THEN 1 ELSE 0)
      <3>1. QueuedIn(tab', sl) = QueuedIn(tab, sl)
        BY <2>5, QueuedSame
      <3>2. Cardinality(HandsIn(cons', sl)) + (IF f.slot = sl THEN 1 ELSE 0) =
            Cardinality(HandsIn(cons, sl)) + (IF cons'[s].f.slot = sl THEN 1 ELSE 0)
        <4>1. \A r \in Sinks \ {s} : cons'[r].f.slot = cons[r].f.slot
          BY <1>c
        <4> QED
          BY <4>1, HandChange
      <3>3. cons'[s].f.slot # sl
        BY <1>n, <2>4, RbAssumption
      <3>4. /\ Cardinality(QueuedIn(tab, sl)) \in Nat /\ Cardinality(HandsIn(cons, sl)) \in Nat
            /\ Cardinality(HandsIn(cons', sl)) \in Nat
        BY <1>t, HolderCounts DEF BusTypes
      <3> HIDE DEF f
      <3> QED
        BY <1>p, <3>1, <3>2, <3>3, <3>4, HolderParts
    <2>8. Gives(s, f)
      <3> HIDE DEF f
      <3> QED
        BY <1>p, <2>1, <2>3, <2>6, <2>7 DEF Gives
    <2> QED
      BY <1>c, <2>8
  <1> QED
    BY <1>1, <1>2, <1>3 DEF ConsStep

\* What the control task's frame is after its step.
LEMMA CtlFrames ==
  ASSUME BusInv, CtlCall \/ CtlStep
  PROVE  /\ ~DrainPops => \/ rbCtl'.f = rbCtl.f
                          \/ rbCtl'.f = NoFrame /\ (DrainReleases \/ rbCtl.f.slot = NoSlot)
         /\ DrainPops => rbCtl'.f = Head(tab[Drained].q) /\ rbCtl.f.slot = NoSlot
         /\ DrainReleases => rbCtl'.f = NoFrame
  <1>t. CtlShape /\ BusTypes /\ rbCtl \in CtlRec
    BY DEF BusInv, BusTypes
  <1>i. IdleCtl.f = NoFrame
    BY DEF IdleCtl
  <1>1. ASSUME NEW s \in Sinks, Enable(s) \/ Disable(s) \/ Unregister(s)
        PROVE  rbCtl'.f = rbCtl.f \/ (rbCtl'.f = NoFrame /\ rbCtl.f.slot = NoSlot)
    <2>1. rbCtl.f.slot = NoSlot
      BY <1>t, <1>1 DEF Enable, Disable, Unregister, CtlIn, CtlShape
    <2>2. CASE Enable(s)
      BY <2>2 DEF Enable
    <2>3. CASE Disable(s) \/ Unregister(s)
      BY <2>1, <2>3 DEF Disable, Unregister, IdleCtl
    <2> QED
      BY <1>1, <2>2, <2>3
  <1>2. ASSUME NEW c \in Configs, Register(c)
        PROVE  rbCtl' = rbCtl
    BY <1>2 DEF Register
  <1>3. ASSUME DrainBegins
        PROVE  rbCtl'.f = rbCtl.f \/ (rbCtl'.f = NoFrame /\ rbCtl.f.slot = NoSlot)
    <2>1. rbCtl.f.slot = NoSlot
      BY <1>t, <1>3 DEF DrainBegins, CtlIn, CtlShape
    <2>2. \E p \in CtlPcs, T \in SUBSET Sinks :
            rbCtl' = [IdleCtl EXCEPT !.pc = p, !.op = "drain", !.todo = T]
      BY <1>3 DEF DrainBegins, CtlPcs
    <2>3. rbCtl'.f = NoFrame
      BY <2>2 DEF IdleCtl
    <2> QED
      BY <2>1, <2>3
  <1>4. ASSUME NEW s \in Sinks, DispatchOver(s)
        PROVE  rbCtl'.f = rbCtl.f
    BY <1>t, <1>4 DEF DispatchOver, CtlRec
  <1>5. ASSUME NEW s \in Sinks, Unregistered(s)
        PROVE  rbCtl'.f = NoFrame /\ rbCtl.f.slot = NoSlot
    BY <1>t, <1>i, <1>5 DEF Unregistered, CtlIn, CtlShape
  <1>6. DrainPops => /\ rbCtl'.f = Head(tab[Drained].q) /\ rbCtl.f.slot = NoSlot
                     /\ rbCtl.pc = "drain"
    BY <1>t DEF DrainPops, CtlIn, CtlShape, CtlRec
  <1>7. ASSUME DrainAccounts
        PROVE  rbCtl'.f = rbCtl.f \/ (rbCtl'.f = NoFrame /\ rbCtl.f.slot = NoSlot)
    BY <1>t, <1>7 DEF DrainAccounts, CtlRec
  <1>8. DrainReleases => rbCtl'.f = NoFrame /\ rbCtl.pc = "release"
    BY <1>t DEF DrainReleases, CtlRec, CtlIn
  <1>9. ASSUME DrainMoves
        PROVE  rbCtl'.f = rbCtl.f \/ (rbCtl'.f = NoFrame /\ rbCtl.f.slot = NoSlot)
    <2>1. rbCtl.pc = "drain" /\ rbCtl.f.slot = NoSlot
      BY <1>t, <1>9 DEF DrainMoves, CtlIn, CtlShape
    <2>2. rbCtl' = AfterDrain \/ rbCtl' = [rbCtl EXCEPT !.todo = rbCtl.todo \ {Drained}]
      BY <1>9 DEF DrainMoves
    <2>3. \/ rbCtl' = IdleCtl
          \/ rbCtl' = [rbCtl EXCEPT !.pc = "join"]
          \/ rbCtl' = [rbCtl EXCEPT !.pc = "wait", !.todo = {}]
          \/ rbCtl' = [rbCtl EXCEPT !.todo = rbCtl.todo \ {Drained}]
      BY <1>t, <2>1, <2>2, AfterDrainIs
    <2>4. rbCtl'.f = rbCtl.f \/ rbCtl'.f = NoFrame
      BY <1>t, <1>i, <2>3 DEF CtlRec
    <2> QED
      BY <2>1, <2>4
  <1>10. ASSUME DrainVerdict
        PROVE  rbCtl'.f = rbCtl.f \/ (rbCtl'.f = NoFrame /\ rbCtl.f.slot = NoSlot)
    BY <1>t, <1>i, <1>10 DEF DrainVerdict, CtlIn, CtlShape
  <1>11. ~DrainPops => \/ rbCtl'.f = rbCtl.f
                       \/ rbCtl'.f = NoFrame /\ (DrainReleases \/ rbCtl.f.slot = NoSlot)
    BY <1>1, <1>2, <1>3, <1>4, <1>5, <1>7, <1>8, <1>9, <1>10 DEF CtlCall, CtlStep
  <1> QED
    BY <1>6, <1>8, <1>11

\* Registration and unregistration change an entry whose queue is empty and a task
\* that has no frame or keeps the one it has.
LEMMA EntryMoves ==
  ASSUME BusInv, NEW s \in Sinks,
         \/ Unregistered(s)
         \/ s = First({r \in Sinks : ~tab[r].use}) /\ \E c \in Configs : Register(c)
  PROVE  /\ \A r \in Sinks : tab'[r].q = tab[r].q
         /\ \A r \in Sinks : \/ cons'[r].f = cons[r].f
                             \/ cons'[r].f.slot = NoSlot /\ cons[r].f.slot = NoSlot
         /\ UNCHANGED <<slot, pinned, ret, driver, pump>>
  <1>t. BusTypes /\ ConsShape /\ CtlShape /\ Leaving /\ GoneIsQuiet
    BY DEF BusInv
  <1>n. NoFrame.slot = NoSlot /\ NoFrame \in Frames
    BY Tiny DEF NoFrame
  <1>1. CASE Unregistered(s)
    <2>1. tab'[s] = NoSink /\ \A r \in Sinks \ {s} : tab'[r] = tab[r]
      BY <1>t, <1>1, UnregisteredTab
    <2>2. tab[s].q = <<>>
      BY <1>t, <1>1 DEF Unregistered, CtlIn, CtlShape, Leaving
    <2>3. \A r \in Sinks : tab'[r].q = tab[r].q
      BY <2>1, <2>2 DEF NoSink
    <2>4. CASE cons[s].pc \in {"parked", "idle"}
      <3>1. cons' = [cons EXCEPT ![s] = [pc |-> "none", f |-> NoFrame]]
        BY <1>1, <2>4 DEF Unregistered
      <3>2. cons'[s].f = NoFrame /\ \A r \in Sinks \ {s} : cons'[r] = cons[r]
        BY <1>t, <3>1 DEF BusTypes
      <3>3. cons[s].f.slot = NoSlot
        BY <1>t, <2>4 DEF ConsShape
      <3> QED
        BY <1>1, <1>n, <2>3, <3>2, <3>3 DEF Unregistered, buffers
    <2>5. CASE cons[s].pc \notin {"parked", "idle"}
      BY <1>1, <2>3, <2>5 DEF Unregistered, buffers
    <2> QED
      BY <2>4, <2>5
  <1>2. ASSUME NEW c \in Configs, Register(c), s = First({r \in Sinks : ~tab[r].use})
        PROVE  /\ \A r \in Sinks : tab'[r].q = tab[r].q
               /\ \A r \in Sinks : \/ cons'[r].f = cons[r].f
                                   \/ cons'[r].f.slot = NoSlot /\ cons[r].f.slot = NoSlot
               /\ UNCHANGED <<slot, pinned, ret, driver, pump>>
    <2>1. ~tab[s].use
      BY <1>2, RegisteredIn
    <2>2. tab'[s].q = <<>> /\ \A r \in Sinks \ {s} : tab'[r] = tab[r]
      BY <1>t, <1>2, RegisterTab
    <2>3. tab[s].q = <<>>
      BY <1>t, <2>1 DEF GoneIsQuiet
    <2>4. ConsGo(s, "none", NoFrame) \/ ConsGo(s, "idle", NoFrame)
      BY <1>2 DEF Register
    <2>5. cons'[s].f = NoFrame /\ \A r \in Sinks \ {s} : cons'[r] = cons[r]
      BY <1>t, <1>n, <2>4, ConsSet DEF ConsPcs
    <2>6. cons[s].f.slot = NoSlot
      BY <1>t, <1>2 DEF Register, ConsShape
    <2>7. UNCHANGED <<slot, pinned, ret, driver, pump>>
      BY <1>2 DEF Register, buffers
    <2> QED
      BY <1>n, <2>2, <2>3, <2>5, <2>6, <2>7
  <1> QED
    BY <1>1, <1>2

\* What a step of the control task does to them.
LEMMA CtlEffect ==
  ASSUME BusInv, CtlCall \/ CtlStep
  PROVE  Keeps \/ \E f \in Frames : Gives(Ctl, f)
  <1>t. BusTypes /\ CtlShape /\ FramesCurrent /\ rbCtl \in CtlRec
    BY DEF BusInv, BusTypes
  <1>q. \A r \in Sinks : tab[r] \in Entry /\ tab[r].q \in Seq(Frame)
    BY <1>t, EntryHas
  <1>n. NoFrame.slot = NoSlot
    BY DEF NoFrame
  <1>1. CASE DrainPops
    <2>0. Drained \in Sinks /\ tab[Drained].q # <<>>
      BY <1>t, <1>1, DrainedIn DEF DrainPops, CtlIn
    <2>1. \A r \in Sinks : tab'[r].q = (IF r = Drained THEN Tail(tab[r].q) ELSE tab[r].q)
      BY <1>1, CtlStepTab
    <2>2. rbCtl'.f = Head(tab[Drained].q) /\ rbCtl.f.slot = NoSlot
      BY <1>1, CtlFrames
    <2>3. UNCHANGED <<slot, pinned, ret, driver, pump, cons>>
      BY <1>1 DEF DrainPops, buffers
    <2>4. HeldKept
      <3>1. \A r \in Sinks : \/ tab'[r].q = tab[r].q
                             \/ tab[r].q # <<>> /\ tab'[r].q = Tail(tab[r].q)
        BY <2>0, <2>1
      <3>2. Held(rbCtl'.f)
        BY <1>t, <2>0, <2>2, HeadHeld
      <3>3. \A r \in Sinks : Held(cons'[r].f)
        BY <2>3 DEF Held
      <3> QED
        BY <1>t, <3>1, <3>2, <3>3, HeldKeptBy
    <2>5. ASSUME NEW sl \in Slots
          PROVE  Holders(sl)' = Holders(sl)
      <3>1. Cardinality(QueuedIn(tab, sl)) =
              Cardinality(QueuedIn(tab', sl)) + (IF Head(tab[Drained].q).slot = sl THEN 1 ELSE 0)
        <4>1. \A r \in Sinks : tab[r].q \in Seq(Frame)
          BY <1>q
        <4>2. \A r \in Sinks \ {Drained} : tab'[r].q = tab[r].q
          BY <2>1
        <4>3. tab[Drained].q # <<>> /\ tab'[Drained].q = Tail(tab[Drained].q)
          BY <2>0, <2>1
        <4> QED
          BY <2>0, <4>1, <4>2, <4>3, QueueLost
      <3>2. rbCtl.f.slot # sl
        BY <2>2, RbAssumption
      <3>3. tab' \in [Sinks -> Entry]
        BY <1>t, <1>1, <2>0, DrainTab
      <3>4. Cardinality(QueuedIn(tab', sl)) \in Nat /\ Cardinality(HandsIn(cons, sl)) \in Nat
        BY <3>3, HolderCounts
      <3> QED
        BY <2>2, <2>3, <3>1, <3>2, <3>4, HolderParts
    <2> QED
      BY <2>3, <2>4, <2>5 DEF Keeps
  <1>2. CASE DrainReleases
    <2> DEFINE f == rbCtl.f
    <2>1. DropRef(Ctl, f) /\ ret[Ctl] = NoSlot /\ f \in Frames
      BY <1>t, <1>2 DEF DrainReleases, CtlIn, Idle, CtlRec
    <2>2. Held(f)
      BY DEF Held
    <2>3. f.slot # NoSlot => f.gen = slot[f.slot].gen
      <3> HIDE DEF f
      <3> QED
        BY <1>t, <2>2, CurrentParts
    <2>4. rbCtl'.f = NoFrame
      BY <1>2, CtlFrames
    <2>5. UNCHANGED <<driver, tab, pump, cons>>
      BY <1>2 DEF DrainReleases
    <2>6. HeldKept
      <3>1. \A r \in Sinks : Held(cons'[r].f)
        BY <2>5 DEF Held
      <3>2. \A r \in Sinks : tab'[r].q = tab[r].q
        BY <2>5
      <3> QED
        BY <1>t, <1>n, <2>4, <3>1, <3>2, HeldKeptBy
    <2>7. ASSUME NEW sl \in Slots
          PROVE  Holders(sl) = Holders(sl)' + (IF f.slot = sl THEN 1 ELSE 0)
      <3>1. rbCtl'.f.slot # sl
        BY <1>n, <2>4, RbAssumption
      <3>2. Cardinality(QueuedIn(tab, sl)) \in Nat /\ Cardinality(HandsIn(cons, sl)) \in Nat
        BY <1>t, HolderCounts DEF BusTypes
      <3>3. Holders(sl) = Cardinality(QueuedIn(tab, sl)) + Cardinality(HandsIn(cons, sl))
               + (IF pump.slot = sl THEN 1 ELSE 0) + (IF f.slot = sl THEN 1 ELSE 0)
        BY HolderParts
      <3>4. Holders(sl)' = Cardinality(QueuedIn(tab, sl)) + Cardinality(HandsIn(cons, sl))
               + (IF pump.slot = sl THEN 1 ELSE 0)
        BY <2>5, <3>1, <3>2, HolderParts
      <3> HIDE DEF f
      <3> QED
        BY <3>2, <3>3, <3>4
    <2>8. Gives(Ctl, f)
      <3> HIDE DEF f
      <3> QED
        BY <2>1, <2>3, <2>5, <2>6, <2>7 DEF Gives
    <2> QED
      BY <2>1, <2>8
  <1>3. CASE ~DrainPops /\ ~DrainReleases
    <2>1. \/ rbCtl'.f = rbCtl.f
          \/ rbCtl'.f.slot = NoSlot /\ rbCtl.f.slot = NoSlot
      BY <1>n, <1>3, CtlFrames
    <2>2. /\ \A r \in Sinks : tab'[r].q = tab[r].q
          /\ \A r \in Sinks : \/ cons'[r].f = cons[r].f
                              \/ cons'[r].f.slot = NoSlot /\ cons[r].f.slot = NoSlot
          /\ UNCHANGED <<slot, pinned, ret, driver, pump>>
      <3>1. ASSUME NEW c \in Configs, Register(c)
            PROVE  <2>2!:
        BY <3>1, RegisteredIn, EntryMoves
      <3>2. ASSUME NEW s \in Sinks, Unregistered(s)
            PROVE  <2>2!:
        BY <3>2, EntryMoves
      <3>3. CASE ~(\/ \E c \in Configs : Register(c)
                   \/ \E s \in Sinks : Unregistered(s))
        <4>1. UNCHANGED <<slot, pinned, ret, driver, pump, cons>>
          BY <1>3, <3>3 DEF CtlCall, CtlStep, Enable, Disable, Unregister, DrainBegins,
             DispatchOver, DrainAccounts, DrainMoves, DrainVerdict, buffers
        <4>2. \A r \in Sinks : tab'[r].q = tab[r].q
          BY <1>3, <3>3, CtlStepTab DEF CtlCall, CtlStep
        <4> QED
          BY <4>1, <4>2
      <3> QED
        BY <3>1, <3>2, <3>3
    <2>3. HeldKept /\ \A sl : Holders(sl)' = Holders(sl)
      <3>1. pump'.slot = pump.slot
        BY <2>2
      <3> QED
        BY <1>t, <2>1, <2>2, <3>1, Untouched
    <2> QED
      BY <2>2, <2>3 DEF Keeps
  <1> QED
    BY <1>1, <1>2, <1>3

\* Every step of the bus has one of the five effects.
LEMMA Effects ==
  ASSUME BusInv, RbNext
  PROVE  \/ Keeps
         \/ \E t \in Threads, f \in Frames : Gives(t, f)
         \/ \E x \in Slots : Shares(x)
         \/ \E sl \in Slots : PublishBegins(sl)
         \/ \E t \in Threads : ReturnBuffer(t)
  BY WhoMoves, PumpEffect, ConsEffect, CtlEffect, Tiny

----------------------------------------------------------------------------
(* References, places, generations and the loan counter.                   *)

\* slot_release() of a current frame of a referenced slot, field by field.
LEMMA DropFacts ==
  ASSUME BusTypes, NEW t \in Threads, NEW f \in Frames, DropRef(t, f),
         f.slot # NoSlot, f.gen = slot[f.slot].gen, slot[f.slot].refs # 0
  PROVE  /\ f.slot \in Slots
         /\ slot'[f.slot].refs = slot[f.slot].refs - 1
         /\ slot'[f.slot].gen = slot[f.slot].gen
         /\ slot'[f.slot].counted = (slot[f.slot].counted /\ ~(slot[f.slot].refs = 1))
         /\ \A sl \in Slots \ {f.slot} : slot'[sl] = slot[sl]
         /\ pinned' = (IF slot[f.slot].refs = 1 /\ slot[f.slot].counted THEN pinned - 1 ELSE pinned)
         /\ ret' = (IF slot[f.slot].refs = 1 THEN [ret EXCEPT ![t] = f.slot] ELSE ret)
  <1> DEFINE x == f.slot
             last == slot[x].refs = 1
             e == [slot[x] EXCEPT !.refs = slot[x].refs - 1, !.counted = slot[x].counted /\ ~last]
  <1>1. x \in Slots /\ slot[x] \in SlotRec /\ slot \in [Slots -> SlotRec]
    BY DEF Frames, BusTypes
  <1>2. slot[x].refs \in Nat \ {0} /\ slot[x].counted \in BOOLEAN
    BY <1>1 DEF SlotRec
  <1>3. /\ slot' = [slot EXCEPT ![x].refs = slot[x].refs - 1,
                                ![x].counted = slot[x].counted /\ ~last]
        /\ pinned' = (IF last /\ slot[x].counted THEN pinned - 1 ELSE pinned)
        /\ ret' = (IF last THEN [ret EXCEPT ![t] = x] ELSE ret)
    BY DEF DropRef
  <1>4. slot' = [slot EXCEPT ![x] = e]
    BY <1>1, <1>3
  <1>5. slot'[x] = e /\ \A sl \in Slots \ {x} : slot'[sl] = slot[sl]
    <2> HIDE DEF e
    <2> QED
      BY <1>1, <1>4
  <1>6. slot[x].refs - 1 \in Nat /\ (slot[x].counted /\ ~last) \in BOOLEAN
    BY <1>2
  <1>7. /\ e.refs = slot[x].refs - 1 /\ e.gen = slot[x].gen
        /\ e.counted = (slot[x].counted /\ ~last)
    <2>1. PICK r : r = slot[x]
      OBVIOUS
    <2>2. r \in SlotRec
      BY <1>1, <2>1
    <2>3. PICK n \in Nat : n = slot[x].refs - 1
      BY <1>6
    <2>4. PICK b \in BOOLEAN : b = (slot[x].counted /\ ~last)
      BY <1>6
    <2>5. e = [r EXCEPT !.refs = n, !.counted = b]
      BY <2>1, <2>3, <2>4
    <2> HIDE DEF e
    <2>6. e.refs = n /\ e.gen = r.gen /\ e.counted = b
      <3>1. /\ [r EXCEPT !.refs = n, !.counted = b].refs = n
            /\ [r EXCEPT !.refs = n, !.counted = b].gen = r.gen
            /\ [r EXCEPT !.refs = n, !.counted = b].counted = b
        BY <2>2 DEF SlotRec
      <3> QED
        BY <2>5, <3>1
    <2> HIDE DEF x, last
    <2> QED
      BY <2>1, <2>3, <2>4, <2>6
  <1> QED
    BY <1>1, <1>3, <1>5, <1>7

\* A slot that somebody holds a frame of has holders.
LEMMA HeldCounts ==
  ASSUME BusTypes, NEW f, Held(f), f.slot \in Slots
  PROVE  Holders(f.slot) \in Nat \ {0}
  <1> DEFINE sl == f.slot
  <1>1. Cardinality(QueuedIn(tab, sl)) \in Nat /\ Cardinality(HandsIn(cons, sl)) \in Nat
    BY HolderCounts DEF BusTypes
  <1>2. IsFiniteSet(QueuedIn(tab, sl)) /\ IsFiniteSet(HandsIn(cons, sl))
    <2>1. \A s \in Sinks : tab[s].q \in Seq(Frame)
      BY EntryHas
    <2>2. IsFiniteSet(QueuedIn(tab, sl))
      BY <2>1, QueuedFinite
    <2>3. IsFiniteSet(HandsIn(cons, sl))
      BY RbAssumption, FS_Subset DEF HandsIn
    <2> QED
      BY <2>2, <2>3
  <1>3. CASE f = rbCtl.f
    <2>1. rbCtl.f.slot = sl
      BY <1>3
    <2> HIDE DEF sl
    <2>2. Holders(sl) \in Nat \ {0}
      BY <1>1, <2>1, HolderParts
    <2> QED
      BY <2>2 DEF sl
  <1>4. CASE \E s \in Sinks : f = cons[s].f
    <2>1. HandsIn(cons, sl) # {}
      BY <1>4 DEF HandsIn
    <2>2. Cardinality(HandsIn(cons, sl)) # 0
      BY <1>2, <2>1, FS_EmptySet
    <2> HIDE DEF sl
    <2>3. Holders(sl) \in Nat \ {0}
      BY <1>1, <2>2, HolderParts
    <2> QED
      BY <2>3 DEF sl
  <1>5. ASSUME NEW s \in Sinks, NEW k \in 1..Len(tab[s].q), f = tab[s].q[k]
        PROVE  Holders(sl) \in Nat \ {0}
    <2>1. DOMAIN tab[s].q = 1..Len(tab[s].q)
      BY EntryHas, LenProperties
    <2>2. <<s, k>> \in QueuedIn(tab, sl)
      BY <1>5, <2>1, QueuedMember
    <2>3. Cardinality(QueuedIn(tab, sl)) # 0
      BY <1>2, <2>2, FS_EmptySet
    <2> HIDE DEF sl
    <2> QED
      BY <1>1, <2>3, HolderParts
  <1> QED
    BY <1>3, <1>4, <1>5 DEF Held

\* The publisher's slot is referenced.
LEMMA PublishedHeld ==
  ASSUME BusInv, pump.slot \in Slots
  PROVE  slot[pump.slot].refs \in Nat \ {0}
  <1>1. BusTypes /\ slot[pump.slot].refs = Holders(pump.slot)
    BY DEF BusInv, RefsMatchHolders
  <1>2. /\ Cardinality(QueuedIn(tab, pump.slot)) \in Nat
        /\ Cardinality(HandsIn(cons, pump.slot)) \in Nat
    BY <1>1, HolderCounts DEF BusTypes
  <1> QED
    BY <1>1, <1>2, HolderParts

\* A frame given back is either none, or its slot is referenced and current.
LEMMA GiveCases ==
  ASSUME BusInv, BusTypes', NEW t \in Threads, NEW f \in Frames, Gives(t, f)
  PROVE  \/ f.slot = NoSlot /\ UNCHANGED <<slot, pinned, ret>>
         \/ /\ f.slot \in Slots /\ f.gen = slot[f.slot].gen
            /\ slot[f.slot].refs \in Nat \ {0}
  <1>t. BusTypes /\ RefsMatchHolders
    BY DEF BusInv
  <1>1. CASE f.slot = NoSlot
    BY <1>1 DEF Gives, DropRef, buffers
  <1>2. CASE f.slot # NoSlot
    <2>1. f.slot \in Slots /\ f.gen = slot[f.slot].gen
      BY <1>2 DEF Gives, Frames
    <2>2. Holders(f.slot) = Holders(f.slot)' + 1
      BY <2>1 DEF Gives
    <2>3. /\ Cardinality(QueuedIn(tab', f.slot)) \in Nat
          /\ Cardinality(HandsIn(cons', f.slot)) \in Nat
      BY HolderCounts DEF BusTypes
    <2>4. Holders(f.slot)' \in Nat
      BY <2>3, HolderParts
    <2>5. slot[f.slot].refs = Holders(f.slot)
      BY <1>t, <2>1 DEF RefsMatchHolders
    <2> QED
      BY <2>1, <2>2, <2>4, <2>5
  <1> QED
    BY <1>1, <1>2

\* The new publish takes a buffer that nobody holds.
LEMMA BeginFacts ==
  ASSUME BusInv, NEW x \in Slots, PublishBegins(x)
  PROVE  /\ slot[x].refs = 0 /\ ~slot[x].counted
         /\ slot'[x].refs = 1 /\ slot'[x].counted = FALSE
         /\ \A sl \in Slots \ {x} : slot'[sl] = slot[sl]
         /\ driver' = driver \ {x} /\ pump.slot = NoSlot /\ pump'.slot = x
         /\ UNCHANGED <<pinned, ret, tab, cons, rbCtl>>
  <1>t. BusTypes /\ PumpShape /\ Places /\ PinnedMatches
    BY DEF BusInv
  <1>1. slot[x].refs = 0
    BY <1>t DEF PublishBegins, Places
  <1>2. ~slot[x].counted
    BY <1>t, <1>1 DEF PinnedMatches
  <1>3. /\ slot'[x] = [refs |-> 1, gen |-> (slot[x].gen + 1) % GenMod, counted |-> FALSE]
        /\ \A sl \in Slots \ {x} : slot'[sl] = slot[sl]
    BY <1>t DEF PublishBegins, BusTypes
  <1>4. pump.slot = NoSlot /\ pump'.slot = x
    BY <1>t DEF PublishBegins, PumpIn, PumpShape
  <1> QED
    BY <1>1, <1>2, <1>3, <1>4 DEF PublishBegins

\* Every step keeps a slot's count equal to its holders.
LEMMA RefsStep ==
  ASSUME BusInv, RbNext, BusTypes'
  PROVE  RefsMatchHolders'
  <1>t. BusTypes /\ RefsMatchHolders
    BY DEF BusInv
  <1> SUFFICES ASSUME NEW sl \in Slots
               PROVE  slot'[sl].refs = Holders(sl)'
    BY DEF RefsMatchHolders
  <1>0. slot[sl].refs = Holders(sl) /\ slot[sl].refs \in Nat
    BY <1>t DEF RefsMatchHolders, BusTypes, SlotRec
  <1>n. Holders(sl)' \in Nat
    <2>1. /\ Cardinality(QueuedIn(tab', sl)) \in Nat
          /\ Cardinality(HandsIn(cons', sl)) \in Nat
      BY HolderCounts DEF BusTypes
    <2> QED
      BY <2>1, HolderParts
  <1>1. CASE Keeps
    BY <1>0, <1>1 DEF Keeps
  <1>2. ASSUME NEW t \in Threads, NEW f \in Frames, Gives(t, f)
        PROVE  slot'[sl].refs = Holders(sl)'
    <2>1. Holders(sl) = Holders(sl)' + (IF f.slot = sl THEN 1 ELSE 0)
      BY <1>2 DEF Gives
    <2>2. CASE f.slot = NoSlot /\ slot' = slot
      BY <1>0, <1>n, <2>1, <2>2, RbAssumption
    <2>3. CASE f.slot \in Slots /\ f.gen = slot[f.slot].gen /\ slot[f.slot].refs \in Nat \ {0}
      <3>1. /\ slot'[f.slot].refs = slot[f.slot].refs - 1
            /\ \A r \in Slots \ {f.slot} : slot'[r] = slot[r]
        BY <1>t, <1>2, <2>3, RbAssumption, DropFacts DEF Gives
      <3> QED
        BY <1>0, <1>n, <2>1, <3>1
    <2> QED
      BY <1>2, <2>2, <2>3, GiveCases
  <1>3. ASSUME NEW x \in Slots, Shares(x)
        PROVE  slot'[sl].refs = Holders(sl)'
    BY <1>0, <1>3 DEF Shares
  <1>4. ASSUME NEW x \in Slots, PublishBegins(x)
        PROVE  slot'[sl].refs = Holders(sl)'
    <2>1. /\ slot[x].refs = 0 /\ slot'[x].refs = 1
          /\ \A r \in Slots \ {x} : slot'[r] = slot[r]
          /\ pump.slot = NoSlot /\ pump'.slot = x
          /\ UNCHANGED <<tab, cons, rbCtl>>
      BY <1>4, BeginFacts
    <2>2. Cardinality(QueuedIn(tab, sl)) \in Nat /\ Cardinality(HandsIn(cons, sl)) \in Nat
      BY <1>t, HolderCounts DEF BusTypes
    <2>3. Holders(sl)' = Holders(sl) + (IF x = sl THEN 1 ELSE 0)
      BY <2>1, <2>2, HolderParts, RbAssumption
    <2>4. slot'[sl].refs = slot[sl].refs + (IF x = sl THEN 1 ELSE 0)
      BY <1>0, <2>1
    <2> QED
      BY <1>0, <2>3, <2>4
  <1>5. ASSUME NEW t \in Threads, ReturnBuffer(t)
        PROVE  slot'[sl].refs = Holders(sl)'
    <2>1. UNCHANGED <<slot, tab, pump, cons, rbCtl>>
      BY <1>5 DEF ReturnBuffer
    <2> QED
      BY <1>0, <2>1, HolderParts
  <1> QED
    BY <1>1, <1>2, <1>3, <1>4, <1>5, Effects

\* Every step keeps a buffer in one place.
LEMMA PlacesStep ==
  ASSUME BusInv, RbNext, BusTypes'
  PROVE  Places'
  <1>t. BusTypes /\ Places /\ PumpShape
    BY DEF BusInv
  <1>r. /\ \A sl \in Slots : slot[sl].refs \in Nat
        /\ \A t \in Threads : ret[t] \in Slots \cup {NoSlot}
        /\ driver \subseteq Slots /\ NoSlot \notin Slots
        /\ ret \in [Threads -> Slots \cup {NoSlot}]
    BY <1>t, RbAssumption DEF BusTypes, SlotRec
  <1>1. CASE Keeps
    <2>1. slot' = slot /\ ret' = ret /\ driver' = driver
      BY <1>1 DEF Keeps
    <2> QED
      BY <1>t, <2>1 DEF Places
  <1>2. ASSUME NEW t \in Threads, NEW f \in Frames, Gives(t, f)
        PROVE  Places'
    <2>d. driver' = driver /\ ret[t] = NoSlot
      BY <1>2 DEF Gives
    <2>1. CASE slot' = slot /\ ret' = ret
      BY <1>t, <2>d, <2>1 DEF Places
    <2>2. CASE f.slot \in Slots /\ f.gen = slot[f.slot].gen /\ slot[f.slot].refs \in Nat \ {0}
      <3> DEFINE x == f.slot
      <3>1. /\ slot'[x].refs = slot[x].refs - 1
            /\ \A sl \in Slots \ {x} : slot'[sl] = slot[sl]
            /\ ret' = (IF slot[x].refs = 1 THEN [ret EXCEPT ![t] = x] ELSE ret)
        BY <1>t, <1>2, <2>2, RbAssumption, DropFacts DEF Gives
      <3>2. x \notin driver /\ \A r \in Threads : ret[r] # x
        BY <1>t, <2>2, RbAssumption DEF Places
      <3>3. x \in Slots /\ slot[x].refs \in Nat \ {0}
        BY <2>2
      <3> HIDE DEF x
      <3>4. CASE slot[x].refs = 1
        <4>1. ret'[t] = x /\ \A r \in Threads \ {t} : ret'[r] = ret[r]
          BY <1>r, <3>1, <3>4
        <4>2. slot'[x].refs = 0
          BY <3>1, <3>4
        <4>3. \A sl \in driver' : slot'[sl].refs = 0 /\ \A r \in Threads : ret'[r] # sl
          BY <1>t, <1>r, <2>d, <3>1, <3>2, <4>1 DEF Places
        <4>4. ASSUME NEW r \in Threads, ret'[r] # NoSlot
              PROVE  slot'[ret'[r]].refs = 0 /\ \A q \in Threads : ret'[q] = ret'[r] => q = r
          <5>1. CASE r = t
            BY <3>2, <4>1, <4>2, <5>1
          <5>2. CASE r # t
            <6>1. ret'[r] = ret[r] /\ ret[r] \in Slots \ {x}
              BY <1>r, <3>2, <4>1, <4>4, <5>2
            <6>2. slot'[ret[r]].refs = 0
              BY <1>t, <3>1, <6>1, RbAssumption DEF Places
            <6>3. \A q \in Threads : ret[q] = ret[r] => q = r
              BY <1>t, <6>1, RbAssumption DEF Places
            <6> QED
              BY <4>1, <6>1, <6>2, <6>3
          <5> QED
            BY <5>1, <5>2
        <4>5. ASSUME NEW sl \in Slots, slot'[sl].refs = 0
              PROVE  sl \in driver' \/ \E r \in Threads : ret'[r] = sl
          <5>1. CASE sl = x
            BY <4>1, <5>1
          <5>2. CASE sl # x
            <6>1. slot[sl].refs = 0
              BY <3>1, <4>5, <5>2
            <6>2. sl \in driver \/ \E r \in Threads : ret[r] = sl
              BY <1>t, <6>1 DEF Places
            <6>3. ASSUME NEW r \in Threads, ret[r] = sl
                  PROVE  ret'[r] = sl
              BY <1>r, <2>d, <4>1, <6>3
            <6> QED
              BY <2>d, <6>2, <6>3
          <5> QED
            BY <5>1, <5>2
        <4> QED
          BY <4>3, <4>4, <4>5 DEF Places
      <3>5. CASE slot[x].refs # 1
        <4>1. ret' = ret /\ slot'[x].refs # 0
          BY <3>1, <3>3, <3>5
        <4>2. \A sl \in driver' : slot'[sl].refs = 0 /\ \A r \in Threads : ret'[r] # sl
          BY <1>t, <1>r, <2>d, <3>1, <3>2, <4>1 DEF Places
        <4>3. ASSUME NEW r \in Threads, ret'[r] # NoSlot
              PROVE  slot'[ret'[r]].refs = 0 /\ \A q \in Threads : ret'[q] = ret'[r] => q = r
          <5>1. ret[r] \in Slots \ {x} /\ ret'[r] = ret[r]
            BY <1>r, <3>2, <4>1, <4>3
          <5>2. slot[ret[r]].refs = 0 /\ \A q \in Threads : ret[q] = ret[r] => q = r
            BY <1>t, <5>1, RbAssumption DEF Places
          <5> QED
            BY <3>1, <4>1, <5>1, <5>2
        <4>4. ASSUME NEW sl \in Slots, slot'[sl].refs = 0
              PROVE  sl \in driver' \/ \E r \in Threads : ret'[r] = sl
          <5>1. slot[sl].refs = 0
            BY <3>1, <4>1, <4>4
          <5>2. sl \in driver \/ \E r \in Threads : ret[r] = sl
            BY <1>t, <5>1 DEF Places
          <5> QED
            BY <2>d, <4>1, <5>2
        <4> QED
          BY <4>2, <4>3, <4>4 DEF Places
      <3> QED
        BY <3>4, <3>5
    <2> QED
      BY <1>2, <2>1, <2>2, GiveCases
  <1>3. ASSUME NEW x \in Slots, Shares(x)
        PROVE  Places'
    <2>1. slot[x].refs \in Nat \ {0}
      BY <1>3, PublishedHeld DEF Shares
    <2>2. /\ slot'[x].refs = slot[x].refs + 1
          /\ \A sl \in Slots \ {x} : slot'[sl] = slot[sl]
          /\ ret' = ret /\ driver' = driver
      BY <1>3 DEF Shares
    <2>3. x \notin driver /\ \A r \in Threads : ret[r] # x
      BY <1>t, <2>1, RbAssumption DEF Places
    <2>4. \A sl \in driver' : slot'[sl].refs = 0 /\ \A r \in Threads : ret'[r] # sl
      BY <1>t, <1>r, <2>2, <2>3 DEF Places
    <2>5. ASSUME NEW r \in Threads, ret'[r] # NoSlot
          PROVE  slot'[ret'[r]].refs = 0 /\ \A q \in Threads : ret'[q] = ret'[r] => q = r
      <3>1. ret[r] \in Slots \ {x} /\ ret'[r] = ret[r]
        BY <1>r, <2>2, <2>3, <2>5
      <3>2. slot[ret[r]].refs = 0 /\ \A q \in Threads : ret[q] = ret[r] => q = r
        BY <1>t, <3>1, RbAssumption DEF Places
      <3> QED
        BY <2>2, <3>1, <3>2
    <2>6. ASSUME NEW sl \in Slots, slot'[sl].refs = 0
          PROVE  sl \in driver' \/ \E r \in Threads : ret'[r] = sl
      <3>1. slot[sl].refs = 0
        BY <2>1, <2>2, <2>6
      <3> QED
        BY <1>t, <2>2, <3>1 DEF Places
    <2> QED
      BY <2>4, <2>5, <2>6 DEF Places
  <1>4. ASSUME NEW x \in Slots, PublishBegins(x)
        PROVE  Places'
    <2>1. /\ slot'[x].refs = 1 /\ driver' = driver \ {x} /\ ret' = ret
          /\ \A sl \in Slots \ {x} : slot'[sl] = slot[sl]
      BY <1>4, BeginFacts
    <2>2. x \in driver
      BY <1>4 DEF PublishBegins
    <2>3. \A r \in Threads : ret[r] # x
      BY <1>t, <2>2 DEF Places
    <2>4. \A sl \in driver' : slot'[sl].refs = 0 /\ \A r \in Threads : ret'[r] # sl
      BY <1>t, <1>r, <2>1 DEF Places
    <2>5. ASSUME NEW r \in Threads, ret'[r] # NoSlot
          PROVE  slot'[ret'[r]].refs = 0 /\ \A q \in Threads : ret'[q] = ret'[r] => q = r
      <3>1. ret[r] \in Slots \ {x} /\ ret'[r] = ret[r]
        BY <1>r, <2>1, <2>3, <2>5
      <3>2. slot[ret[r]].refs = 0 /\ \A q \in Threads : ret[q] = ret[r] => q = r
        BY <1>t, <3>1, RbAssumption DEF Places
      <3> QED
        BY <2>1, <3>1, <3>2
    <2>6. ASSUME NEW sl \in Slots, slot'[sl].refs = 0
          PROVE  sl \in driver' \/ \E r \in Threads : ret'[r] = sl
      <3>1. sl # x /\ slot[sl].refs = 0
        BY <2>1, <2>6
      <3> QED
        BY <1>t, <2>1, <3>1 DEF Places
    <2> QED
      BY <2>4, <2>5, <2>6 DEF Places
  <1>5. ASSUME NEW t \in Threads, ReturnBuffer(t)
        PROVE  Places'
    <2>1. /\ ret[t] \in Slots /\ driver' = driver \cup {ret[t]} /\ slot' = slot
          /\ ret'[t] = NoSlot /\ \A r \in Threads \ {t} : ret'[r] = ret[r]
      BY <1>r, <1>5 DEF ReturnBuffer
    <2>2. slot[ret[t]].refs = 0 /\ \A r \in Threads : ret[r] = ret[t] => r = t
      BY <1>t, <2>1, RbAssumption DEF Places
    <2>3. \A sl \in driver' : slot'[sl].refs = 0 /\ \A r \in Threads : ret'[r] # sl
      <3>1. ASSUME NEW sl \in driver
            PROVE  slot'[sl].refs = 0 /\ \A r \in Threads : ret'[r] # sl
        <4>1. slot[sl].refs = 0 /\ \A r \in Threads : ret[r] # sl
          BY <1>t, <3>1 DEF Places
        <4> QED
          BY <1>r, <2>1, <3>1, <4>1
      <3>2. slot'[ret[t]].refs = 0 /\ \A r \in Threads : ret'[r] # ret[t]
        BY <1>r, <2>1, <2>2
      <3> QED
        BY <2>1, <3>1, <3>2
    <2>4. ASSUME NEW r \in Threads, ret'[r] # NoSlot
          PROVE  slot'[ret'[r]].refs = 0 /\ \A q \in Threads : ret'[q] = ret'[r] => q = r
      <3>1. r # t /\ ret'[r] = ret[r] /\ ret[r] # NoSlot
        BY <2>1, <2>4
      <3>2. slot[ret[r]].refs = 0 /\ \A q \in Threads : ret[q] = ret[r] => q = r
        BY <1>t, <3>1 DEF Places
      <3> QED
        BY <2>1, <3>1, <3>2
    <2>5. ASSUME NEW sl \in Slots, slot'[sl].refs = 0
          PROVE  sl \in driver' \/ \E r \in Threads : ret'[r] = sl
      <3>1. sl \in driver \/ \E r \in Threads : ret[r] = sl
        BY <1>t, <2>1, <2>5 DEF Places
      <3> QED
        BY <2>1, <3>1
    <2> QED
      BY <2>3, <2>4, <2>5 DEF Places
  <1> QED
    BY <1>1, <1>2, <1>3, <1>4, <1>5, Effects

\* Every step keeps held frames current: a slot is published anew only when nobody holds it.
LEMMA CurrentStep ==
  ASSUME BusInv, RbNext, BusTypes'
  PROVE  FramesCurrent'
  <1>t. BusTypes /\ RefsMatchHolders
    BY DEF BusInv
  <1>0. \A f : Held(f) /\ f.slot # NoSlot => f.gen = slot[f.slot].gen
    BY CurrentParts DEF BusInv
  <1>f. ASSUME NEW f, Held(f)', f.slot # NoSlot
        PROVE  f.slot \in Slots
    <2>1. ASSUME NEW s \in Sinks, NEW k \in 1..Len(tab'[s].q), f = tab'[s].q[k]
          PROVE  f \in Frame
      <3>1. tab'[s].q \in Seq(Frame)
        BY DEF BusTypes, Entry
      <3> QED
        BY <2>1, <3>1, ElementOfSeq
    <2>2. \/ \E s \in Sinks : \E k \in 1..Len(tab'[s].q) : f = tab'[s].q[k]
          \/ \E s \in Sinks : f = cons'[s].f
          \/ f = rbCtl'.f
      BY <1>f DEF Held
    <2>3. f \in Frame \/ f \in Frames
      BY <2>1, <2>2 DEF BusTypes, CtlRec
    <2> QED
      BY <1>f, <2>3 DEF Frame, Frames
  <1> SUFFICES ASSUME NEW f, Held(f)', f.slot # NoSlot
               PROVE  f.gen = slot'[f.slot].gen
    BY CurrentParts
  <1>s. f.slot \in Slots
    BY <1>f
  <1>1. CASE Keeps
    <2>1. Held(f) /\ slot' = slot
      BY <1>1 DEF Keeps, HeldKept
    <2> QED
      BY <1>0, <2>1
  <1>2. ASSUME NEW t \in Threads, NEW g \in Frames, Gives(t, g)
        PROVE  f.gen = slot'[f.slot].gen
    <2>1. Held(f)
      BY <1>2 DEF Gives, HeldKept
    <2>2. f.gen = slot[f.slot].gen
      BY <1>0, <2>1
    <2>3. CASE slot' = slot
      BY <2>2, <2>3
    <2>4. CASE g.slot \in Slots /\ g.gen = slot[g.slot].gen /\ slot[g.slot].refs \in Nat \ {0}
      <3>1. /\ slot'[g.slot].gen = slot[g.slot].gen
            /\ \A sl \in Slots \ {g.slot} : slot'[sl] = slot[sl]
        BY <1>t, <1>2, <2>4, RbAssumption, DropFacts DEF Gives
      <3> QED
        BY <1>s, <2>2, <3>1
    <2> QED
      BY <1>2, <2>3, <2>4, GiveCases
  <1>3. ASSUME NEW x \in Slots, Shares(x)
        PROVE  f.gen = slot'[f.slot].gen
    <2>1. /\ slot'[x].gen = slot[x].gen
          /\ \A sl \in Slots \ {x} : slot'[sl] = slot[sl]
          /\ Held(f) \/ f = [slot |-> x, gen |-> slot[x].gen]
      BY <1>3 DEF Shares
    <2>2. f.gen = slot[f.slot].gen
      BY <1>0, <2>1
    <2> QED
      BY <1>s, <2>1, <2>2
  <1>4. ASSUME NEW x \in Slots, PublishBegins(x)
        PROVE  f.gen = slot'[f.slot].gen
    <2>1. /\ slot[x].refs = 0 /\ UNCHANGED <<tab, cons, rbCtl>>
          /\ \A sl \in Slots \ {x} : slot'[sl] = slot[sl]
      BY <1>4, BeginFacts
    <2>2. Held(f)
      BY <2>1 DEF Held
    <2>3. Holders(f.slot) \in Nat \ {0}
      BY <1>t, <1>s, <2>2, HeldCounts
    <2>4. slot[f.slot].refs = Holders(f.slot)
      BY <1>t, <1>s DEF RefsMatchHolders
    <2>5. f.slot # x
      BY <2>1, <2>3, <2>4
    <2> QED
      BY <1>0, <1>s, <2>1, <2>2, <2>5
  <1>5. ASSUME NEW t \in Threads, ReturnBuffer(t)
        PROVE  f.gen = slot'[f.slot].gen
    <2>1. UNCHANGED <<slot, tab, cons, rbCtl>>
      BY <1>5 DEF ReturnBuffer
    <2> QED
      BY <1>0, <2>1 DEF Held
  <1> QED
    BY <1>1, <1>2, <1>3, <1>4, <1>5, Effects

\* Every step keeps s_pinned equal to the buffers out on loan.
LEMMA PinnedStep ==
  ASSUME BusInv, RbNext, BusTypes'
  PROVE  PinnedMatches'
  <1> DEFINE C == {sl \in Slots : slot[sl].counted}
             D == {sl \in Slots : slot'[sl].counted}
  <1>t. BusTypes /\ PinnedMatches
    BY DEF BusInv
  <1>p. /\ pinned = Cardinality(C) /\ pinned \in Int
        /\ \A sl \in Slots : slot[sl].counted => slot[sl].refs > 0
    BY <1>t DEF PinnedMatches, BusTypes
  <1>r. \A sl \in Slots : slot[sl].refs \in Nat /\ slot[sl].counted \in BOOLEAN
    BY <1>t DEF BusTypes, SlotRec
  <1>f. IsFiniteSet(C)
    BY RbAssumption, FS_Subset
  <1>g. /\ \A x \in C : Cardinality(C \ {x}) = Cardinality(C) - 1
        /\ \A x : x \notin C => Cardinality(C \cup {x}) = Cardinality(C) + 1
    <2> HIDE DEF C
    <2> QED
      BY <1>f, FS_RemoveElement, FS_AddElement
  <1> SUFFICES /\ pinned' = Cardinality(D)
               /\ \A sl \in Slots : slot'[sl].counted => slot'[sl].refs > 0
    BY DEF PinnedMatches
  <1>1. CASE pinned' = pinned /\ slot' = slot
    BY <1>1, <1>p
  <1>2. ASSUME NEW t \in Threads, NEW f \in Frames, Gives(t, f),
               f.slot \in Slots, f.gen = slot[f.slot].gen, slot[f.slot].refs \in Nat \ {0}
        PROVE  /\ pinned' = Cardinality(D)
               /\ \A sl \in Slots : slot'[sl].counted => slot'[sl].refs > 0
    <2> DEFINE x == f.slot
    <2>1. /\ slot'[x].refs = slot[x].refs - 1
          /\ slot'[x].counted = (slot[x].counted /\ ~(slot[x].refs = 1))
          /\ \A sl \in Slots \ {x} : slot'[sl] = slot[sl]
          /\ pinned' = (IF slot[x].refs = 1 /\ slot[x].counted THEN pinned - 1 ELSE pinned)
      BY <1>t, <1>2, RbAssumption, DropFacts DEF Gives
    <2>2. x \in Slots /\ slot[x].refs \in Nat \ {0}
      BY <1>2
    <2> HIDE DEF x
    <2>3. CASE slot[x].refs = 1 /\ slot[x].counted
      <3>1. ~slot'[x].counted
        BY <2>1, <2>3
      <3>2. D = C \ {x}
        BY <2>1, <3>1
      <3>3. x \in C
        BY <2>2, <2>3
      <3>4. pinned' = Cardinality(D)
        BY <1>g, <1>p, <2>1, <2>3, <3>2, <3>3
      <3> QED
        BY <1>p, <2>1, <3>1, <3>4
    <2>4. CASE ~(slot[x].refs = 1 /\ slot[x].counted)
      <3>1. slot'[x].counted <=> slot[x].counted
        BY <2>1, <2>4
      <3>2. D = C
        BY <2>1, <3>1
      <3>c. slot'[x].counted => slot[x].refs # 1
        BY <2>1
      <3>3. slot'[x].counted => slot'[x].refs > 0
        <4>1. slot'[x].refs = slot[x].refs - 1
          BY <2>1
        <4> QED
          BY <2>2, <3>c, <4>1
      <3> QED
        BY <1>p, <2>1, <2>4, <3>2, <3>3
    <2> QED
      BY <2>3, <2>4
  <1>3. ASSUME NEW x \in Slots, Shares(x)
        PROVE  /\ pinned' = Cardinality(D)
               /\ \A sl \in Slots : slot'[sl].counted => slot'[sl].refs > 0
    <2>1. /\ slot'[x].refs = slot[x].refs + 1 /\ slot'[x].counted = TRUE
          /\ \A sl \in Slots \ {x} : slot'[sl] = slot[sl]
          /\ pinned' = (IF slot[x].counted THEN pinned ELSE pinned + 1)
      BY <1>3 DEF Shares
    <2>2. D = C \cup {x}
      BY <2>1
    <2>3. slot'[x].refs > 0
      BY <1>r, <2>1
    <2>4. CASE slot[x].counted
      <3>1. D = C
        BY <2>2, <2>4
      <3> QED
        BY <1>p, <2>1, <2>3, <2>4, <3>1
    <2>5. CASE ~slot[x].counted
      <3>1. x \notin C
        BY <2>5
      <3>2. Cardinality(D) = Cardinality(C) + 1
        BY <1>g, <2>2, <3>1
      <3> QED
        BY <1>p, <2>1, <2>3, <2>5, <3>2
    <2> QED
      BY <2>4, <2>5
  <1>4. ASSUME NEW x \in Slots, PublishBegins(x)
        PROVE  /\ pinned' = Cardinality(D)
               /\ \A sl \in Slots : slot'[sl].counted => slot'[sl].refs > 0
    <2>1. /\ ~slot[x].counted /\ slot'[x].counted = FALSE /\ pinned' = pinned
          /\ \A sl \in Slots \ {x} : slot'[sl] = slot[sl]
      BY <1>4, BeginFacts
    <2>2. D = C
      BY <2>1
    <2> QED
      BY <1>p, <2>1, <2>2
  <1>5. ASSUME NEW t \in Threads, ReturnBuffer(t)
        PROVE  pinned' = pinned /\ slot' = slot
    BY <1>5 DEF ReturnBuffer
  <1>6. Keeps => pinned' = pinned /\ slot' = slot
    BY DEF Keeps
  <1> HIDE DEF D
  <1> QED
    BY <1>1, <1>2, <1>3, <1>4, <1>5, <1>6, Effects, GiveCases

----------------------------------------------------------------------------
(* The invariant                                                           *)

\* At first nobody holds a slot.
LEMMA NobodyHolds ==
  ASSUME NEW sl \in Slots, RbInit
  PROVE  Holders(sl) = 0
  <1>1. sl # NoSlot
    BY RbAssumption
  <1>2. QueuedIn(tab, sl) = {}
    <2>1. \A s \in Sinks : tab[s].q = <<>>
      BY DEF RbInit, NoSink
    <2>2. \A s \in Sinks : DOMAIN tab[s].q = {}
      BY <2>1
    <2> QED
      BY <2>2, QueuedMember
  <1>3. HandsIn(cons, sl) = {}
    BY <1>1 DEF RbInit, NoFrame, HandsIn
  <1>4. pump.slot # sl /\ rbCtl.f.slot # sl
    BY <1>1 DEF RbInit, NoPublish, IdleCtl, NoFrame
  <1>5. Cardinality({}) = 0
    BY FS_EmptySet
  <1> QED
    BY <1>2, <1>3, <1>4, <1>5, HolderParts

\* The invariant holds at first.
LEMMA BusInit ==
  ASSUME RbInit
  PROVE  BusInv
  <1>1. BusTypes
    <2>1. slot \in [Slots -> SlotRec]
      <3>1. [refs |-> 0, gen |-> 0, counted |-> FALSE] \in SlotRec
        BY RbAssumption DEF SlotRec
      <3> QED
        BY <3>1 DEF RbInit
    <2>2. cons \in [Sinks -> [pc : ConsPcs, f : Frames]]
      <3>1. [pc |-> "none", f |-> NoFrame] \in [pc : ConsPcs, f : Frames]
        BY Tiny DEF ConsPcs
      <3> QED
        BY <3>1 DEF RbInit
    <2>3. ret \in [Threads -> Slots \cup {NoSlot}] /\ driver \in SUBSET Slots /\ pinned \in Int
      BY DEF RbInit, Threads
    <2>4. tab \in [Sinks -> Entry]
      BY Tiny DEF RbInit
    <2> QED
      BY <2>1, <2>2, <2>3, <2>4, Tiny DEF RbInit, BusTypes
  <1>2. PumpShape /\ ConsShape /\ CtlShape /\ Leaving
    BY DEF RbInit, PumpShape, ConsShape, CtlShape, Leaving, NoPublish, NoFrame, IdleCtl
  <1>3. RefsMatchHolders
    BY NobodyHolds DEF RbInit, RefsMatchHolders
  <1>4. Places
    BY RbAssumption DEF RbInit, Places, Threads
  <1>5. FramesCurrent
    <2>1. \A s \in Sinks : Len(tab[s].q) = 0
      BY EmptySeq DEF RbInit, NoSink
    <2> QED
      BY <2>1 DEF RbInit, FramesCurrent, NoFrame, IdleCtl
  <1>6. PinnedMatches
    <2>1. {sl \in Slots : slot[sl].counted} = {}
      BY DEF RbInit
    <2>2. Cardinality({}) = 0
      BY FS_EmptySet
    <2> QED
      BY <2>1, <2>2 DEF RbInit, PinnedMatches
  <1>7. InFlightMatches /\ GoneIsQuiet
    BY DEF RbInit, InFlightMatches, GoneIsQuiet, NoSink, NoPublish
  <1> QED
    BY <1>1, <1>2, <1>3, <1>4, <1>5, <1>6, <1>7 DEF BusInv

\* The invariant is kept by every step.
LEMMA BusStep ==
  ASSUME BusInv, [RbNext]_rbVars
  PROVE  BusInv'
  <1>1. CASE RbNext
    <2>1. BusTypes'
      BY <1>1, TypesStep
    <2>2. PumpShape' /\ ConsShape' /\ CtlShape' /\ Leaving' /\ InFlightMatches' /\ GoneIsQuiet'
      BY <1>1, PumpShapeStep, ConsShapeStep, CtlShapeStep, LeavingStep, InFlightStep, QuietStep
    <2>3. RefsMatchHolders' /\ Places' /\ FramesCurrent' /\ PinnedMatches'
      BY <1>1, <2>1, RefsStep, PlacesStep, CurrentStep, PinnedStep
    <2> QED
      BY <2>1, <2>2, <2>3 DEF BusInv
  <1>2. CASE UNCHANGED rbVars
    <2>1. UNCHANGED <<slot, pinned, driver, ret, tab, pump, cons, rbCtl>>
      BY <1>2 DEF rbVars
    <2>2. BusTypes' /\ PumpShape' /\ ConsShape' /\ CtlShape' /\ Leaving'
      BY <2>1 DEF BusInv, BusTypes, PumpShape, ConsShape, CtlShape, Leaving
    <2>3. RefsMatchHolders'
      <3>1. \A sl : Holders(sl)' = Holders(sl)
        BY <2>1, HolderParts
      <3> QED
        BY <2>1, <3>1 DEF BusInv, RefsMatchHolders
    <2>4. Places' /\ FramesCurrent' /\ PinnedMatches'
      BY <2>1 DEF BusInv, Places, FramesCurrent, PinnedMatches
    <2>5. InFlightMatches' /\ GoneIsQuiet'
      BY <2>1 DEF BusInv, InFlightMatches, GoneIsQuiet, Cap, Drained
    <2> QED
      BY <2>2, <2>3, <2>4, <2>5 DEF BusInv
  <1> QED
    BY <1>1, <1>2

\* A buffer is in one place, counted as OnePlace counts it.
LEMMA OnlyPlace ==
  ASSUME BusInv
  PROVE  OnePlace
  <1>t. BusTypes /\ Places
    BY DEF BusInv
  <1>d. DOMAIN ret = Threads
    BY <1>t DEF BusTypes
  <1> SUFFICES ASSUME NEW sl \in Slots
               PROVE  (IF sl \in driver THEN 1 ELSE 0)
                         + Cardinality({t \in Threads : ret[t] = sl})
                         + (IF slot[sl].refs > 0 THEN 1 ELSE 0) = 1
    BY <1>d DEF OnePlace
  <1> DEFINE B == {t \in Threads : ret[t] = sl}
  <1>n. slot[sl].refs \in Nat /\ sl # NoSlot
    BY <1>t, RbAssumption DEF BusTypes, SlotRec
  <1>1. CASE \E t \in Threads : ret[t] = sl
    <2>1. PICK t \in Threads : ret[t] = sl
      BY <1>1
    <2>2. slot[sl].refs = 0 /\ \A r \in Threads : ret[r] = sl => r = t
      BY <1>t, <1>n, <2>1 DEF Places
    <2>3. B = {t}
      BY <2>1, <2>2
    <2>4. Cardinality(B) = 1
      BY <2>3, FS_Singleton
    <2>5. sl \notin driver
      BY <1>t, <2>1 DEF Places
    <2> HIDE DEF B
    <2>6. (IF sl \in driver THEN 1 ELSE 0) + Cardinality(B)
            + (IF slot[sl].refs > 0 THEN 1 ELSE 0) = 1
      BY <2>2, <2>4, <2>5
    <2> QED
      BY <2>6 DEF B
  <1>2. CASE ~\E t \in Threads : ret[t] = sl
    <2>1. B = {}
      BY <1>2
    <2>2. Cardinality(B) = 0
      BY <2>1, FS_EmptySet
    <2>3. sl \in driver <=> slot[sl].refs = 0
      BY <1>t, <1>2 DEF Places
    <2> HIDE DEF B
    <2>4. (IF sl \in driver THEN 1 ELSE 0) + Cardinality(B)
            + (IF slot[sl].refs > 0 THEN 1 ELSE 0) = 1
      BY <1>n, <2>2, <2>3
    <2> QED
      BY <2>4 DEF B
  <1> QED
    BY <1>1, <1>2

\* The bus keeps its invariant: types, the shape of the three kinds of task, what an
\* unregister under way has made sure of, and the accounting of every buffer.
THEOREM BusInductive == RbInit /\ [][RbNext]_rbVars => []BusInv
  <1>1. RbInit => BusInv
    BY BusInit
  <1>2. BusInv /\ [RbNext]_rbVars => BusInv'
    BY BusStep
  <1> QED
    BY <1>1, <1>2, PTL

\* Each reference slot_release() takes back belongs to one holder, a buffer is with the
\* driver, on its way back or referenced, in_flight and s_pinned are right, an unregistered
\* sink is out of the publish, and a drain that reports clean leaves nothing behind.
THEOREM BusCorrect == RbInit /\ [][RbNext]_rbVars => BusSound
  <1>1. BusInv => /\ RefsMatchHolders /\ OnePlace /\ FramesCurrent
                  /\ PinnedMatches /\ InFlightMatches /\ GoneIsQuiet
    BY OnlyPlace DEF BusInv
  <1>2. BusInv => [DrainVerdict /\ DrainIsClean /\ pump.pc = "idle" =>
                     \A sl \in Slots : Holders(sl) = 0 /\ ~slot[sl].counted]_rbVars
    <2> SUFFICES ASSUME BusInv, DrainIsClean, NEW sl \in Slots
                 PROVE  Holders(sl) = 0 /\ ~slot[sl].counted
      OBVIOUS
    <2>1. slot[sl].refs = 0
      BY DEF DrainIsClean
    <2> QED
      BY <2>1 DEF BusInv, RefsMatchHolders, PinnedMatches
  <1> QED
    BY <1>1, <1>2, BusInductive, PTL DEF BusSound, CleanMeansClean

=============================================================================
