---------------------------- MODULE MediaProofs -----------------------------
(***************************************************************************)
(* Theorems about the way of a frame from the camera to the peer:          *)
(* MediaSender, for every set of sessions and of sender threads, every     *)
(* depth of the queue and every bound on frames, starts and failures;      *)
(* CaptureStack, for every finite set of handles and every set of tasks    *)
(* that take snapshots; and, over the run's composition MCMedia, VideoIf   *)
(* with any number of buffers and readers and EncodedFrames with any       *)
(* finite sets of sinks and of file sources.                               *)
(***************************************************************************)
EXTENDS MCMedia, FiniteSetTheorems, SequenceTheorems, TLAPS

\* Two sets have as many elements when a function pairs them off.
LEMMA SameSize ==
  ASSUME NEW S, NEW T, IsFiniteSet(S), NEW f \in [S -> T],
         \A a \in S, b \in S : f[a] = f[b] => a = b,
         \A z \in T : \E y \in S : f[y] = z
  PROVE  IsFiniteSet(T) /\ Cardinality(T) = Cardinality(S)
  <1>1. f \in Injection(S, T)
    BY DEF Injection, IsInjective
  <1>2. f \in Surjection(S, T)
    BY DEF Surjection
  <1>3. ExistsBijection(S, T)
    BY <1>1, <1>2 DEF ExistsBijection, Bijection
  <1> QED
    BY <1>3, FS_Bijection

\* Two sets with nothing in common.
LEMMA Together ==
  ASSUME NEW S, NEW T, IsFiniteSet(S), IsFiniteSet(T), S \cap T = {}
  PROVE  IsFiniteSet(S \cup T) /\ Cardinality(S \cup T) = Cardinality(S) + Cardinality(T)
  <1>1. Cardinality(S \cap T) = 0 /\ Cardinality(S) \in Nat /\ Cardinality(T) \in Nat
    BY FS_EmptySet, FS_CardinalityType
  <1>2. IsFiniteSet(S \cup T)
        /\ Cardinality(S \cup T) = Cardinality(S) + Cardinality(T) - Cardinality(S \cap T)
    BY FS_Union
  <1> QED
    BY <1>1, <1>2

----------------------------------------------------------------------------
(* The media threads: the inductive invariant.                             *)

Items    == [n : Nat \ {0}, key : BOOLEAN]
MsPlaces == Starting \cup {"idle", "stop", "join_video", "join_audio", "release", "remove"}
Stopping == {"stop", "join_video", "join_audio", "release"}
Idling   == {"off", "top"}
SndPcs   == {"off", "top", "gate", "clear", "check", "lock", "write"}
Holding  == {i \in Senders : snd[i].item # NoItem}
Known    == {s \in Sessions : sess[s] # "none"}

\* The number of the frame that the encoder's task has in hand, or makes next.
Upcoming == IF cap.pc = "idle" THEN cap.n + 1 ELSE cap.n

MsTypes ==
  /\ sess \in [Sessions -> {"none", "listed", "connected", "ended"}]
  /\ seen \in [Sessions -> Nat]
  /\ ctl \in MsPlaces
  /\ clientOn \in BOOLEAN /\ started \in BOOLEAN /\ terminated \in BOOLEAN
  /\ vq \in Seq(Items) /\ qUp \in BOOLEAN /\ vHandle \in BOOLEAN
  /\ sink \in [reg : BOOLEAN, on : BOOLEAN, gate : BOOLEAN]
  /\ vTid \in Senders \cup {0}
  /\ snd \in [Senders -> [pc : SndPcs, item : Items \cup {NoItem}]]
  /\ \A i \in Senders : snd[i].pc \in Idling <=> snd[i].item = NoItem
  /\ cap \in [n : Nat, key : BOOLEAN, pc : {"idle", "frame", "add"}]
  /\ cap.pc # "idle" => cap.n # 0
  /\ half \in BOOLEAN /\ excuses \subseteq Nat

\* The frames in the queue and in the senders' hands are in the encoder's order, each
\* once, and they are the ones that are allocated.
HasItem(x) == \/ \E k \in 1..Len(vq) : x = vq[k]
              \/ \E i \in Holding : x = snd[i].item
              \/ cap.pc = "add" /\ x = [n |-> cap.n, key |-> cap.key]
NumbersInv ==
  /\ \A k \in 1..Len(vq) : vq[k].n < Upcoming
  /\ \A k, l \in 1..Len(vq) : k < l => vq[k].n < vq[l].n
  /\ \A i \in Senders : snd[i].item.n < Upcoming
  /\ \A i \in Holding, k \in 1..Len(vq) : snd[i].item.n < vq[k].n
  /\ \A i, j \in Holding : i # j => snd[i].item.n # snd[j].item.n
OwnInv ==
  /\ IsFiniteSet(Holding) /\ NumbersInv
  /\ \A x \in alive : HasItem(x)
  /\ \A k \in 1..Len(vq) : vq[k] \in alive
  /\ \A i \in Holding : snd[i].item \in alive
  /\ cap.pc = "add" => [n |-> cap.n, key |-> cap.key] \in alive

\* The client's flag and the global one, and the sessions there are while the
\* transmission starts and stops.
FlagInv ==
  /\ IsFiniteSet(Known)
  /\ ctl = "idle" => clientOn = started
  /\ ctl \in Starting => ~clientOn /\ ~started
  /\ ctl \in Stopping => clientOn /\ started /\ Count = 1
  /\ ctl = "remove" => IF Count = 1 THEN ~started ELSE clientOn = started
  /\ ctl \in Starting => \A s \in Sessions : sess[s] \in {"none", "listed"}
  /\ ctl \in Stopping => \A s \in Sessions : sess[s] \in {"none", "ended"}
  /\ \A s \in Sessions : sess[s] \in {"none", "listed"} => seen[s] = 0

\* The sessions that a gap in what they were sent would reach.
Fed == {s \in Sessions : sess[s] = "connected" /\ seen[s] # 0}

\* Nothing of the video is set up but for the capture.
Bare == /\ vq = <<>> /\ ~sink.reg /\ ~sink.on /\ cap.pc = "idle" /\ vTid = 0
        /\ Fed = {}

\* What is set up at each place of a start and a stop that did not fail halfway.
StageInv ==
  ~half =>
    /\ caps = IF vHandle THEN 1 ELSE 0
    /\ ~qUp => Bare
    /\ \A i \in Senders : i # vTid => snd[i] = Off
    /\ ~started /\ ctl \notin {"thread", "audio"} => ~qUp
    /\ ~started /\ ctl \notin {"queue", "thread", "audio"} => ~vHandle
    /\ ~started => aud = Off /\ aHandle = "none"
    /\ ctl \in {"thread", "join_audio", "release"} => vTid = 0
    /\ ctl = "thread" => qUp
    /\ aud.pc = "off" => aud = Off
    /\ ctl = "release" => aud = Off
    /\ qUp /\ ~terminated => sink.on
    /\ sink.on /\ sink.gate => cap.pc = "idle" /\ vq = <<>> /\ Holding = {} /\ Fed = {}

\* f may follow frame number m: it needs no predecessor, m is it, or a frame between
\* them is in E, the losses that are excused.
Linked(E, m, f) == f.key \/ f.n = m + 1 \/ \E k \in E : m < k /\ k < f.n

\* A key frame that will end the wait for one.
HandKey == \E i \in Senders : snd[i].pc \in {"gate", "clear"} /\ snd[i].item.key

\* The last frame before the queue: the one in a sender's hand, or else the last written.
Before == {snd[i].item.n : i \in Holding} \cup {seen[s] : s \in {r \in Fed : Holding = {}}}

\* What was written to a session is behind all that is still under way.
SeenBefore ==
  \A s \in Fed :
    /\ seen[s] < Upcoming
    /\ \A k \in 1..Len(vq) : seen[s] < vq[k].n
    /\ \A i \in Holding : seen[s] < snd[i].item.n

\* The sender's frame is one that may be written, or will be skipped at the gate.
HandLinked ==
  \A s \in Fed, i \in Senders :
    /\ snd[i].pc \in {"check", "lock", "write"} => Linked(excuses, seen[s], snd[i].item)
    /\ snd[i].pc = "gate" => Linked(excuses, seen[s], snd[i].item) \/ waitIdr

\* Each frame that waits, and the one to come, may follow the frame before it, or a
\* sender that waits for a key frame will skip it.
HeadLinked ==
  \A m \in Before : vq # <<>> => Linked(excuses, m, vq[1]) \/ (waitIdr /\ ~HandKey)
QueueLinked ==
  \A k \in 1..(Len(vq) - 1) :
    \/ Linked(excuses, vq[k].n, vq[k + 1])
    \/ waitIdr /\ ~HandKey /\ \A l \in 1..k : ~vq[l].key
LastOf == IF vq = <<>> THEN Before ELSE {vq[Len(vq)].n}
TailLinked ==
  \A m \in LastOf :
    \/ Upcoming = m + 1
    \/ \E k \in excuses : m < k /\ k < Upcoming
    \/ waitIdr /\ ~KeyAhead

ChainInv ==
  ~half =>
    /\ \A i \in Senders : snd[i].pc = "clear" => snd[i].item.key
    /\ SeenBefore /\ HandLinked
    /\ ~terminated => HeadLinked /\ QueueLinked /\ TailLinked

MsInv == MsTypes /\ OwnInv /\ FlagInv /\ StageInv /\ ChainInv

----------------------------------------------------------------------------
(* Types.                                                                  *)

\* The places of a sender, and what is not a frame.
LEMMA MsTiny ==
  /\ NoItem \notin Items
  /\ Off.pc = "off" /\ Off.item = NoItem /\ NoItem.n = 0
  /\ Starting \subseteq MsPlaces /\ Stopping \subseteq MsPlaces
  /\ Idling \subseteq SndPcs
  BY DEF NoItem, Items, Off, MsPlaces, Starting, Stopping, Idling, SndPcs

\* A sender and the item it holds.
LEMMA SndHas ==
  ASSUME MsTypes, NEW i \in Senders
  PROVE  /\ snd[i].pc \in SndPcs /\ snd[i].item \in Items \cup {NoItem}
         /\ snd[i] = [pc |-> snd[i].pc, item |-> snd[i].item]
         /\ i \in Holding <=> snd[i].pc \notin Idling
         /\ i \in Holding => /\ snd[i].item \in Items
                             /\ snd[i].item.n \in Nat \ {0} /\ snd[i].item.key \in BOOLEAN
         /\ snd[i].item.n \in Nat
  <1>1. /\ snd[i].pc \in SndPcs /\ snd[i].item \in Items \cup {NoItem}
        /\ snd[i] = [pc |-> snd[i].pc, item |-> snd[i].item]
    BY DEF MsTypes
  <1>2. i \in Holding <=> snd[i].pc \notin Idling
    BY DEF MsTypes, Holding
  <1>3. i \in Holding => snd[i].item \in Items
    BY <1>1 DEF Holding
  <1>4. NoItem.n \in Nat /\ \A f \in Items : f.n \in Nat \ {0} /\ f.key \in BOOLEAN
    BY DEF NoItem, Items
  <1> QED
    BY <1>1, <1>2, <1>3, <1>4

\* A frame in the queue.
LEMMA VqHas ==
  ASSUME MsTypes
  PROVE  /\ Len(vq) \in Nat /\ DOMAIN vq = 1..Len(vq)
         /\ vq # <<>> <=> Len(vq) > 0
         /\ \A k \in 1..Len(vq) :
              vq[k] \in Items /\ vq[k].n \in Nat \ {0} /\ vq[k].key \in BOOLEAN
  <1>1. vq \in Seq(Items)
    BY DEF MsTypes
  <1>2. \A f \in Items : f.n \in Nat \ {0} /\ f.key \in BOOLEAN
    BY DEF Items
  <1>3. Len(vq) \in Nat /\ DOMAIN vq = 1..Len(vq) /\ \A k \in 1..Len(vq) : vq[k] \in Items
    BY <1>1, ElementOfSeq, LenProperties
  <1>4. vq # <<>> <=> Len(vq) > 0
    BY <1>1, <1>3, EmptySeq
  <1> QED
    BY <1>2, <1>3, <1>4

\* The encoder's task.
LEMMA CapHas ==
  ASSUME MsTypes
  PROVE  /\ cap.n \in Nat /\ cap.key \in BOOLEAN /\ cap.pc \in {"idle", "frame", "add"}
         /\ cap = [n |-> cap.n, key |-> cap.key, pc |-> cap.pc]
         /\ Upcoming \in Nat \ {0}
         /\ cap.pc # "idle" => /\ Upcoming = cap.n
                               /\ [n |-> cap.n, key |-> cap.key] \in Items
         /\ cap.pc = "idle" => Upcoming = cap.n + 1
  BY DEF MsTypes, Upcoming, Items

\* A sender that goes on to another place, or frees its frame.
LEMMA SndMoves ==
  ASSUME MsTypes, NEW i \in Senders, NEW pc \in SndPcs
  PROVE  /\ Go(i, pc) => /\ snd' \in [Senders -> [pc : SndPcs, item : Items \cup {NoItem}]]
                         /\ snd'[i] = [pc |-> pc, item |-> snd[i].item]
                         /\ \A j \in Senders : j # i => snd'[j] = snd[j]
         /\ Free(i, pc) => /\ snd' \in [Senders -> [pc : SndPcs, item : Items \cup {NoItem}]]
                           /\ snd'[i] = [pc |-> pc, item |-> NoItem]
                           /\ \A j \in Senders : j # i => snd'[j] = snd[j]
  <1>1. snd \in [Senders -> [pc : SndPcs, item : Items \cup {NoItem}]]
    BY DEF MsTypes
  <1>2. CASE Go(i, pc)
    BY <1>1, <1>2 DEF Go, Free
  <1>3. ASSUME Free(i, pc)
        PROVE  snd' = [snd EXCEPT ![i] = [pc |-> pc, item |-> NoItem]]
    BY <1>3 DEF Free
  <1> QED
    BY <1>1, <1>2, <1>3

\* What a step of a sender does to the senders: the frame stays with it, is freed, or it
\* takes one.
SndStays(i) == \E pc \in SndPcs : Go(i, pc) /\ (pc \in Idling <=> snd[i].pc \in Idling)
SndFrees(i) == \E pc \in Idling : Free(i, pc)
SndTakes(i) == /\ snd[i].pc = "top" /\ vq # <<>> /\ vq' = Tail(vq)
               /\ snd' = [snd EXCEPT ![i] = [pc |-> "gate", item |-> Head(vq)]]

\* A step of a sender is one of the three.
LEMMA SenderKinds ==
  ASSUME NEW i \in Senders, MsSender(i)
  PROVE  /\ UNCHANGED <<sess, ctl, clientOn, started, terminated, qUp, sink, caps, vHandle,
                        aHandle, vTid, aud, cap, half>>
         /\ \/ SndStays(i) /\ UNCHANGED <<vq, alive, seen>>
            \/ SndFrees(i) /\ UNCHANGED vq /\ snd[i].pc \notin Idling
            \/ SndTakes(i) /\ UNCHANGED <<alive, seen>>
  <1> USE DEF global, queueOf, capture, history, bounds, peers
  <1>1. CASE SenderTakes(i)
    BY <1>1 DEF SenderTakes, SndStays, SndTakes, At, SndPcs, Idling
  <1>2. CASE SenderGate(i)
    BY <1>2 DEF SenderGate, SndStays, SndFrees, At, SndPcs, Idling
  <1>3. CASE SenderClears(i)
    BY <1>3 DEF SenderClears, SndStays, At, SndPcs, Idling
  <1>4. CASE SenderChecks(i)
    BY <1>4 DEF SenderChecks, SndStays, SndFrees, At, SndPcs, Idling
  <1>5. CASE SenderLocks(i)
    BY <1>5 DEF SenderLocks, SndStays, SndFrees, At, SndPcs, Idling
  <1>6. CASE SenderWrites(i)
    BY <1>6 DEF SenderWrites, SndFrees, At, Idling
  <1> QED
    BY <1>1, <1>2, <1>3, <1>4, <1>5, <1>6 DEF MsSender

\* A sender's frame is a frame, and it holds one beyond its idle places.
SndTypes == /\ snd \in [Senders -> [pc : SndPcs, item : Items \cup {NoItem}]]
            /\ \A i \in Senders : snd[i].pc \in Idling <=> snd[i].item = NoItem

\* Every step of a sender keeps the types of the senders.
LEMMA SndTypesStep ==
  ASSUME MsTypes, NEW i \in Senders, SndStays(i) \/ SndFrees(i) \/ SndTakes(i)
  PROVE  SndTypes'
  <1>0. snd \in [Senders -> [pc : SndPcs, item : Items \cup {NoItem}]]
    BY DEF MsTypes
  <1>h. \A j \in Senders : snd[j].pc \in Idling <=> snd[j].item = NoItem
    BY DEF MsTypes
  <1>1. CASE SndStays(i)
    <2>1. PICK pc \in SndPcs : Go(i, pc) /\ (pc \in Idling <=> snd[i].pc \in Idling)
      BY <1>1 DEF SndStays
    <2>2. /\ snd' \in [Senders -> [pc : SndPcs, item : Items \cup {NoItem}]]
          /\ snd'[i] = [pc |-> pc, item |-> snd[i].item]
          /\ \A j \in Senders : j # i => snd'[j] = snd[j]
      BY <2>1, SndMoves
    <2>3. snd'[i].pc \in Idling <=> snd'[i].item = NoItem
      BY <1>h, <2>1, <2>2
    <2> QED
      BY <1>h, <2>2, <2>3 DEF SndTypes
  <1>2. CASE SndFrees(i)
    <2>1. PICK pc \in Idling : Free(i, pc)
      BY <1>2 DEF SndFrees
    <2>2. /\ snd' \in [Senders -> [pc : SndPcs, item : Items \cup {NoItem}]]
          /\ snd'[i] = [pc |-> pc, item |-> NoItem]
          /\ \A j \in Senders : j # i => snd'[j] = snd[j]
      BY <2>1, SndMoves, MsTiny
    <2>3. snd'[i].pc \in Idling <=> snd'[i].item = NoItem
      BY <2>2
    <2> QED
      BY <1>h, <2>2, <2>3 DEF SndTypes
  <1>3. CASE SndTakes(i)
    <2>1. snd' = [snd EXCEPT ![i] = [pc |-> "gate", item |-> Head(vq)]] /\ vq # <<>>
      BY <1>3 DEF SndTakes
    <2>2. Head(vq) \in Items
      BY <2>1 DEF MsTypes
    <2>3. "gate" \in SndPcs /\ "gate" \notin Idling
      BY DEF SndPcs, Idling
    <2>4. snd' \in [Senders -> [pc : SndPcs, item : Items \cup {NoItem}]]
      BY <1>0, <2>1, <2>2, <2>3
    <2>5. snd'[i] = [pc |-> "gate", item |-> Head(vq)]
          /\ \A j \in Senders : j # i => snd'[j] = snd[j]
      BY <1>0, <2>1
    <2>6. snd'[i].pc \in Idling <=> snd'[i].item = NoItem
      BY <2>2, <2>3, <2>5, MsTiny
    <2> QED
      BY <1>h, <2>4, <2>5, <2>6 DEF SndTypes
  <1> QED
    BY <1>1, <1>2, <1>3

\* Every step keeps the types.
LEMMA MsTypesStep ==
  ASSUME MsTypes, MsNext
  PROVE  MsTypes'
  <1> USE DEF global, queueOf, capture, history, bounds, peers
  <1>1. CASE MsSession
    <2>1. PICK s \in Sessions : \/ SessionAdded(s) \/ SessionConnects(s)
                                \/ SessionEnds(s) \/ SessionLeaves(s)
      BY <1>1 DEF MsSession
    <2>2. /\ sess' \in [Sessions -> {"none", "listed", "connected", "ended"}]
          /\ ctl' \in MsPlaces
      BY <2>1 DEF MsTypes, MsPlaces, Starting, SessionAdded, SessionConnects, SessionEnds, SessionLeaves
    <2>3. UNCHANGED <<seen, clientOn, started, terminated, vq, qUp, vHandle, sink, vTid, snd, cap,
                      half, excuses>>
      BY <2>1 DEF SessionAdded, SessionConnects, SessionEnds, SessionLeaves
    <2> QED
      BY <2>2, <2>3 DEF MsTypes
  <1>2. ASSUME NEW s \in Sessions, SessionRemoved(s)
        PROVE  MsTypes'
    <2>1. /\ sess' = [sess EXCEPT ![s] = "none"] /\ ctl' = "idle"
          /\ clientOn' \in BOOLEAN /\ seen' = [seen EXCEPT ![s] = 0]
          /\ UNCHANGED <<started, terminated, vq, qUp, vHandle, sink, vTid, snd, cap, half, excuses>>
      BY <1>2 DEF SessionRemoved
    <2> QED
      BY <2>1 DEF MsTypes, MsPlaces
  <1>3. CASE StartArms \/ StartVideo \/ StartQueue \/ StartAudio
    <2>1. /\ ctl' \in MsPlaces
          /\ clientOn' \in BOOLEAN /\ started' \in BOOLEAN /\ terminated' \in BOOLEAN
      BY <1>3 DEF MsTypes, MsPlaces, Starting, StartArms, StartVideo, StartQueue, StartAudio
    <2>2. qUp' \in BOOLEAN /\ vHandle' \in BOOLEAN /\ half' \in BOOLEAN
      BY <1>3 DEF MsTypes, StartArms, StartVideo, StartQueue, StartAudio
    <2>3. sink' \in [reg : BOOLEAN, on : BOOLEAN, gate : BOOLEAN]
      <3>1. CASE StartQueue
        <4>1. sink' = sink \/ \E g \in BOOLEAN : sink' = [reg |-> TRUE, on |-> TRUE, gate |-> g]
          BY <3>1 DEF StartQueue, MsTypes
        <4>2. \A g \in BOOLEAN : [reg |-> TRUE, on |-> TRUE, gate |-> g]
                                  \in [reg : BOOLEAN, on : BOOLEAN, gate : BOOLEAN]
          OBVIOUS
        <4>3. sink \in [reg : BOOLEAN, on : BOOLEAN, gate : BOOLEAN]
          BY DEF MsTypes
        <4> QED
          BY <4>1, <4>2, <4>3
      <3>2. StartQueue \/ sink' = sink
        BY <1>3 DEF StartArms, StartVideo, StartAudio
      <3> QED
        BY <3>1, <3>2 DEF MsTypes
    <2>4. UNCHANGED <<sess, seen, vq, vTid, snd, cap, excuses>>
      BY <1>3 DEF StartArms, StartVideo, StartQueue, StartAudio
    <2> QED
      BY <2>1, <2>2, <2>3, <2>4 DEF MsTypes
  <1>4. CASE StartThread
    <2>1. CASE UNCHANGED <<vTid, snd>>
      <3>1. /\ UNCHANGED <<sess, seen, clientOn, started, terminated, vq, qUp, vHandle, sink, cap, excuses>>
            /\ half' \in BOOLEAN /\ ctl' \in {"idle", "audio"}
        BY <1>4, <2>1 DEF StartThread, MsTypes
      <3>2. ctl' \in MsPlaces
        BY <3>1 DEF MsPlaces, Starting
      <3> QED
        BY <2>1, <3>1, <3>2 DEF MsTypes
    <2>2. ASSUME NEW i \in Senders, snd[i].pc = "off", vTid' = i, ctl' = "audio",
                 snd' = [snd EXCEPT ![i] = [pc |-> "top", item |-> NoItem]]
          PROVE  MsTypes'
      <3>1. snd \in [Senders -> [pc : SndPcs, item : Items \cup {NoItem}]]
        BY DEF MsTypes
      <3>2. /\ snd' \in [Senders -> [pc : SndPcs, item : Items \cup {NoItem}]]
            /\ snd'[i] = [pc |-> "top", item |-> NoItem]
            /\ \A j \in Senders : j # i => snd'[j] = snd[j]
        BY <2>2, <3>1 DEF SndPcs
      <3>3. \A j \in Senders : snd'[j].pc \in Idling <=> snd'[j].item = NoItem
        BY <3>2 DEF MsTypes, Idling
      <3>4. /\ UNCHANGED <<sess, seen, clientOn, started, terminated, vq, qUp, vHandle, sink, cap, excuses>>
            /\ half' \in BOOLEAN
        BY <1>4 DEF StartThread, MsTypes
      <3> QED
        BY <2>2, <3>2, <3>3, <3>4 DEF MsTypes, MsPlaces, Starting
    <2> QED
      BY <1>4, <2>1, <2>2 DEF StartThread
  <1>5. CASE StopDisables \/ StopJoinsVideo \/ StopJoinsAudio
    <2>1. /\ ctl' \in MsPlaces /\ terminated' \in BOOLEAN /\ vTid' \in Senders \cup {0}
          /\ sink' \in [reg : BOOLEAN, on : BOOLEAN, gate : BOOLEAN]
      BY <1>5 DEF MsTypes, MsPlaces, StopDisables, StopJoinsVideo, StopJoinsAudio
    <2>2. UNCHANGED <<sess, seen, clientOn, started, vq, qUp, vHandle, snd, cap, half, excuses>>
      BY <1>5 DEF StopDisables, StopJoinsVideo, StopJoinsAudio
    <2> QED
      BY <2>1, <2>2 DEF MsTypes
  <1>6. CASE StopReleases
    <2>1. <<>> \in Seq(Items)
      BY EmptySeq
    <2> QED
      BY <1>6, <2>1 DEF StopReleases, MsTypes, MsPlaces
  <1>7. ASSUME NEW key \in BOOLEAN, Dispatch(key)
        PROVE  MsTypes'
    <2>1. /\ cap' \in [n : Nat, key : BOOLEAN, pc : {"idle", "frame", "add"}]
          /\ cap'.n # 0
      BY <1>7 DEF Dispatch, MsTypes
    <2>2. sink' \in [reg : BOOLEAN, on : BOOLEAN, gate : BOOLEAN]
      BY <1>7 DEF Dispatch, MsTypes
    <2>3. UNCHANGED <<sess, seen, ctl, clientOn, started, terminated, vq, qUp, vHandle, vTid, snd,
                      half, excuses>>
      BY <1>7 DEF Dispatch
    <2> QED
      BY <2>1, <2>2, <2>3 DEF MsTypes
  <1>8. CASE FrameCopied
    <2>1. /\ cap' \in [n : Nat, key : BOOLEAN, pc : {"idle", "frame", "add"}]
          /\ cap'.n = cap.n /\ cap.pc # "idle" /\ excuses' \subseteq Nat
      BY <1>8, CapHas DEF FrameCopied, MsTypes, NoteLoss
    <2>2. UNCHANGED <<sess, seen, ctl, clientOn, started, terminated, vq, qUp, vHandle, sink, vTid,
                      snd, half>>
      BY <1>8 DEF FrameCopied
    <2> QED
      BY <2>1, <2>2 DEF MsTypes
  <1>9. CASE FrameQueued
    <2>1. /\ cap' \in [n : Nat, key : BOOLEAN, pc : {"idle", "frame", "add"}]
          /\ cap'.pc = "idle" /\ excuses' \subseteq Nat
      BY <1>9, CapHas DEF FrameQueued, MsTypes, NoteLoss
    <2>2. vq' = vq \/ vq' = Append(vq, [n |-> cap.n, key |-> cap.key])
      BY <1>9 DEF FrameQueued
    <2>3. [n |-> cap.n, key |-> cap.key] \in Items
      BY <1>9, CapHas DEF FrameQueued
    <2>4. vq' \in Seq(Items)
      <3>1. vq \in Seq(Items)
        BY DEF MsTypes
      <3> QED
        BY <2>2, <2>3, <3>1, AppendProperties
    <2>5. UNCHANGED <<sess, seen, ctl, clientOn, started, terminated, qUp, vHandle, sink, vTid,
                      snd, half>>
      BY <1>9 DEF FrameQueued
    <2> QED
      BY <2>1, <2>4, <2>5 DEF MsTypes
  <1>10. ASSUME NEW i \in Senders, MsSender(i)
         PROVE  MsTypes'
    <2>1. SndTypes'
      BY <1>10, SenderKinds, SndTypesStep
    <2>2. vq' \in Seq(Items)
      <3>1. vq' = vq \/ (vq # <<>> /\ vq' = Tail(vq))
        BY <1>10, SenderKinds DEF SndTakes
      <3>2. vq \in Seq(Items)
        BY DEF MsTypes
      <3> QED
        BY <3>1, <3>2, HeadTailProperties
    <2>3. seen' \in [Sessions -> Nat] /\ excuses' \subseteq Nat
      <3>1. CASE UNCHANGED seen
        <4>1. excuses' \subseteq excuses \cup {snd[i].item.n}
          BY <1>10 DEF MsSender, SenderTakes, SenderGate, SenderClears, SenderChecks, SenderLocks,
                SenderWrites, NoteLoss
        <4> QED
          BY <3>1, <4>1, SndHas DEF MsTypes
      <3>2. CASE SenderWrites(i)
        BY <3>2, SndHas DEF SenderWrites, MsTypes
      <3>3. UNCHANGED seen \/ SenderWrites(i)
        BY <1>10 DEF MsSender, SenderTakes, SenderGate, SenderClears, SenderChecks, SenderLocks
      <3> QED
        BY <3>1, <3>2, <3>3
    <2>4. UNCHANGED <<sess, ctl, clientOn, started, terminated, qUp, sink, vHandle, vTid, cap, half>>
      BY <1>10, SenderKinds
    <2> QED
      BY <2>1, <2>2, <2>3, <2>4 DEF MsTypes, SndTypes
  <1>11. CASE MsAudio
    BY <1>11 DEF MsAudio, AudioReads, AudioWrites, MsTypes
  <1> QED
    BY <1>1, <1>2, <1>3, <1>4, <1>5, <1>6, <1>7, <1>8, <1>9, <1>10, <1>11
       DEF MsNext, MsControl, MsEncoder

----------------------------------------------------------------------------
(* Ownership.                                                              *)

\* A step that leaves the frames where they are.
LEMMA OwnKept ==
  ASSUME MsTypes, MsTypes', OwnInv, UNCHANGED <<vq, alive>>,
         \A i \in Senders : snd'[i].item = snd[i].item,
         cap' = cap \/ (cap.pc = "idle" /\ cap'.pc # "add" /\ cap'.n = cap.n + 1)
                    \/ (cap.pc = "frame" /\ cap'.pc = "idle" /\ cap'.n = cap.n)
  PROVE  OwnInv'
  <1>1. Holding' = Holding
    BY DEF Holding
  <1>2. Upcoming' \in Nat /\ Upcoming \in Nat /\ Upcoming <= Upcoming'
    BY CapHas DEF Upcoming, MsTypes
  <1>3. NumbersInv'
    <2>1. \A k \in 1..Len(vq) : vq[k].n \in Nat
      BY VqHas
    <2>2. \A i \in Senders : snd[i].item.n \in Nat
      BY SndHas
    <2>3. \A k \in 1..Len(vq) : vq[k].n < Upcoming'
      BY <1>2, <2>1 DEF OwnInv, NumbersInv
    <2>4. \A i \in Senders : snd[i].item.n < Upcoming'
      BY <1>2, <2>2 DEF OwnInv, NumbersInv
    <2> QED
      BY <1>1, <2>3, <2>4 DEF OwnInv, NumbersInv, Holding
  <1>4. ASSUME NEW x \in alive
        PROVE  HasItem(x)'
    BY <1>1, <1>4, CapHas DEF OwnInv, HasItem, Holding
  <1>5. cap'.pc = "add" => [n |-> cap'.n, key |-> cap'.key] \in alive
    BY CapHas DEF OwnInv
  <1> QED
    BY <1>1, <1>3, <1>4, <1>5 DEF OwnInv, Holding

\* A frame in one place is in no other.
LEMMA OneOwner ==
  ASSUME MsTypes, OwnInv
  PROVE  /\ \A i \in Holding, k \in 1..Len(vq) : snd[i].item # vq[k]
         /\ \A i, j \in Holding : i # j => snd[i].item # snd[j].item
         /\ \A k, l \in 1..Len(vq) : k # l => vq[k] # vq[l]
         /\ cap.pc = "add" => /\ \A k \in 1..Len(vq) : vq[k] # [n |-> cap.n, key |-> cap.key]
                              /\ \A i \in Holding : snd[i].item # [n |-> cap.n, key |-> cap.key]
  <1>1. \A k \in 1..Len(vq) : vq[k].n \in Nat
    BY VqHas
  <1>2. \A i \in Senders : snd[i].item.n \in Nat
    BY SndHas
  <1>3. \A i \in Holding, k \in 1..Len(vq) : snd[i].item # vq[k]
    BY <1>1, <1>2 DEF OwnInv, NumbersInv, Holding
  <1>4. \A k, l \in 1..Len(vq) : k # l => vq[k] # vq[l]
    <2> SUFFICES ASSUME NEW k \in 1..Len(vq), NEW l \in 1..Len(vq), k # l
                 PROVE  vq[k] # vq[l]
      OBVIOUS
    <2>1. k < l \/ l < k
      BY VqHas
    <2>2. vq[k].n < vq[l].n \/ vq[l].n < vq[k].n
      BY <2>1 DEF OwnInv, NumbersInv
    <2> QED
      BY <1>1, <2>2
  <1>5. CASE cap.pc = "add"
    <2>1. Upcoming = cap.n
      BY <1>5, CapHas
    <2> QED
      BY <1>1, <1>2, <1>3, <1>4, <2>1 DEF OwnInv, NumbersInv, Holding
  <1> QED
    BY <1>3, <1>4, <1>5 DEF OwnInv, NumbersInv

\* A sender frees its frame.
LEMMA OwnFrees ==
  ASSUME MsTypes, MsTypes', OwnInv, NEW i \in Senders, SndFrees(i), i \in Holding,
         UNCHANGED <<vq, cap>>
  PROVE  OwnInv'
  <1>1. PICK pc \in Idling : Free(i, pc)
    BY DEF SndFrees
  <1>2. /\ snd'[i] = [pc |-> pc, item |-> NoItem]
        /\ \A j \in Senders : j # i => snd'[j] = snd[j]
    BY <1>1, SndMoves, MsTiny
  <1>3. Holding' = Holding \ {i}
    BY <1>2 DEF Holding
  <1>4. alive' = alive \ {snd[i].item}
    BY <1>1 DEF Free
  <1>5. IsFiniteSet(Holding)'
    BY <1>3, FS_RemoveElement DEF OwnInv
  <1>6. Upcoming' = Upcoming /\ Upcoming \in Nat \ {0}
    BY CapHas DEF Upcoming
  <1>7. NumbersInv'
    <2>1. \A j \in Senders : snd'[j].item.n < Upcoming
      BY <1>2, <1>6, MsTiny DEF OwnInv, NumbersInv
    <2> QED
      BY <1>2, <1>3, <1>6, <2>1 DEF OwnInv, NumbersInv, Holding
  <1>8. ASSUME NEW x \in alive'
        PROVE  HasItem(x)'
    <2>1. HasItem(x) /\ x # snd[i].item
      BY <1>4, <1>8 DEF OwnInv
    <2> QED
      BY <1>2, <1>3, <2>1 DEF HasItem, Holding
  <1>9. \A j \in Holding \ {i} : snd'[j].item = snd[j].item /\ snd[j].item \in alive'
    BY <1>2, <1>4, OneOwner DEF OwnInv, Holding
  <1>10. \A k \in 1..Len(vq) : vq[k] \in alive'
    BY <1>4, OneOwner DEF OwnInv
  <1>11. cap.pc = "add" => [n |-> cap.n, key |-> cap.key] \in alive'
    BY <1>4, OneOwner DEF OwnInv
  <1> QED
    BY <1>3, <1>5, <1>7, <1>8, <1>9, <1>10, <1>11 DEF OwnInv

\* What is left of the queue once its head was taken.
LEMMA Taken ==
  ASSUME MsTypes, vq # <<>>, vq' = Tail(vq)
  PROVE  /\ Head(vq) = vq[1] /\ 1 \in 1..Len(vq)
         /\ Len(vq') = Len(vq) - 1
         /\ \A k \in 1..Len(vq') : k + 1 \in 1..Len(vq) /\ vq'[k] = vq[k + 1]
         /\ \A k \in 1..Len(vq) : k # 1 => k - 1 \in 1..Len(vq') /\ vq[k] = vq'[k - 1]
  <1>1. vq \in Seq(Items) /\ Len(vq) \in Nat /\ Len(vq) > 0
    BY VqHas DEF MsTypes
  <1>2. Len(vq') = Len(vq) - 1 /\ \A k \in 1..Len(vq') : vq'[k] = vq[k + 1]
    BY <1>1, HeadTailProperties
  <1>3. Head(vq) = vq[1]
    BY <1>1
  <1> QED
    BY <1>1, <1>2, <1>3

\* A sender takes a frame.
LEMMA OwnTakes ==
  ASSUME MsTypes, MsTypes', OwnInv, NEW i \in Senders, SndTakes(i), UNCHANGED <<alive, cap>>
  PROVE  OwnInv'
  <1>t. vq # <<>> /\ vq' = Tail(vq) /\ snd[i].pc = "top"
    BY DEF SndTakes
  <1>1. snd'[i].item = vq[1] /\ \A j \in Senders : j # i => snd'[j] = snd[j]
    BY <1>t, Taken DEF SndTakes, MsTypes
  <1>2. i \notin Holding
    BY <1>t, SndHas DEF Idling
  <1>3. vq[1] \in Items /\ vq[1].n \in Nat
    BY <1>t, Taken, VqHas
  <1>4. Holding' = Holding \cup {i}
    BY <1>1, <1>3, MsTiny DEF Holding
  <1>5. IsFiniteSet(Holding)'
    BY <1>4, FS_AddElement DEF OwnInv
  <1>6. Upcoming' = Upcoming
    BY DEF Upcoming
  <1>7. NumbersInv'
    <2>1. \A k \in 1..Len(vq') : vq'[k].n < Upcoming'
      BY <1>t, <1>6, Taken DEF OwnInv, NumbersInv
    <2>2. \A k, l \in 1..Len(vq') : k < l => vq'[k].n < vq'[l].n
      <3> SUFFICES ASSUME NEW k \in 1..Len(vq'), NEW l \in 1..Len(vq'), k < l
                   PROVE  vq'[k].n < vq'[l].n
        OBVIOUS
      <3>1. k + 1 \in 1..Len(vq) /\ l + 1 \in 1..Len(vq) /\ vq'[k] = vq[k + 1] /\ vq'[l] = vq[l + 1]
        BY <1>t, Taken
      <3>2. k + 1 < l + 1
        OBVIOUS
      <3> QED
        BY <3>1, <3>2 DEF OwnInv, NumbersInv
    <2>3. \A j \in Senders : snd'[j].item.n < Upcoming'
      BY <1>t, <1>1, <1>6, Taken DEF OwnInv, NumbersInv
    <2>4. \A j \in Holding', k \in 1..Len(vq') : snd'[j].item.n < vq'[k].n
      <3> SUFFICES ASSUME NEW j \in Holding', NEW k \in 1..Len(vq')
                   PROVE  snd'[j].item.n < vq'[k].n
        OBVIOUS
      <3>1. k + 1 \in 1..Len(vq) /\ vq'[k] = vq[k + 1] /\ 1 \in 1..Len(vq) /\ 1 < k + 1
        BY <1>t, Taken
      <3>2. CASE j = i
        BY <1>1, <3>1, <3>2 DEF OwnInv, NumbersInv
      <3>3. CASE j # i
        BY <1>1, <1>4, <3>1, <3>3 DEF OwnInv, NumbersInv, Holding
      <3> QED
        BY <3>2, <3>3
    <2>5. \A j, l \in Holding' : j # l => snd'[j].item.n # snd'[l].item.n
      <3>1. \A j \in Holding : snd[j].item.n # vq[1].n
        BY <1>t, <1>3, Taken, SndHas DEF OwnInv, NumbersInv, Holding
      <3> QED
        BY <1>1, <1>2, <1>4, <3>1 DEF OwnInv, NumbersInv, Holding
    <2> QED
      BY <2>1, <2>2, <2>3, <2>4, <2>5 DEF NumbersInv
  <1>8. ASSUME NEW x \in alive
        PROVE  HasItem(x)'
    <2>1. HasItem(x)
      BY <1>8 DEF OwnInv
    <2>2. CASE \E k \in 1..Len(vq) : x = vq[k]
      <3>1. PICK k \in 1..Len(vq) : x = vq[k]
        BY <2>2
      <3>2. CASE k = 1
        BY <1>1, <1>4, <3>1, <3>2 DEF HasItem
      <3>3. CASE k # 1
        BY <1>t, <3>1, <3>3, Taken DEF HasItem
      <3> QED
        BY <3>2, <3>3
    <2>3. CASE \E j \in Holding : x = snd[j].item
      BY <1>1, <1>2, <1>4, <2>3 DEF HasItem, Holding
    <2> QED
      BY <2>1, <2>2, <2>3 DEF HasItem
  <1>9. \A j \in Holding' : snd'[j].item \in alive
    BY <1>t, <1>1, <1>4, Taken DEF OwnInv, Holding
  <1>10. \A k \in 1..Len(vq') : vq'[k] \in alive
    BY <1>t, Taken DEF OwnInv
  <1> QED
    BY <1>5, <1>7, <1>8, <1>9, <1>10 DEF OwnInv

\* The encoder's task copies the frame.
LEMMA OwnCopies ==
  ASSUME MsTypes, MsTypes', OwnInv, FrameCopied
  PROVE  OwnInv'
  <1> DEFINE f == [n |-> cap.n, key |-> cap.key]
  <1>1. CASE UNCHANGED alive /\ cap' = [cap EXCEPT !.pc = "idle"]
    <2>1. cap.pc = "frame" /\ UNCHANGED <<vq, snd>>
      BY DEF FrameCopied, queueOf
    <2>2. cap'.pc = "idle" /\ cap'.n = cap.n
      BY <1>1 DEF MsTypes
    <2> QED
      BY <1>1, <2>1, <2>2, OwnKept
  <1>2. CASE alive' = alive \cup {f} /\ cap' = [cap EXCEPT !.pc = "add"]
    <2>1. cap.pc = "frame" /\ UNCHANGED <<vq, snd>>
      BY DEF FrameCopied, queueOf
    <2>2. cap'.pc = "add" /\ cap'.n = cap.n /\ cap'.key = cap.key
      BY <1>2 DEF MsTypes
    <2>3. Upcoming' = Upcoming /\ Holding' = Holding
      BY <2>1, <2>2 DEF Upcoming, Holding
    <2>4. NumbersInv'
      BY <2>1, <2>3 DEF OwnInv, NumbersInv
    <2>5. \A x \in alive' : HasItem(x)'
      BY <1>2, <2>1, <2>2, <2>3 DEF OwnInv, HasItem
    <2> QED
      BY <1>2, <2>1, <2>2, <2>3, <2>4, <2>5 DEF OwnInv
  <1> QED
    BY <1>1, <1>2 DEF FrameCopied

\* A queue with one frame more.
LEMMA Appended ==
  ASSUME MsTypes, NEW f \in Items, vq' = Append(vq, f)
  PROVE  /\ Len(vq') = Len(vq) + 1 /\ vq'[Len(vq')] = f /\ Len(vq') \in 1..Len(vq')
         /\ \A k \in 1..Len(vq) : k \in 1..Len(vq') /\ vq'[k] = vq[k]
         /\ \A k \in 1..Len(vq') : k # Len(vq') => k \in 1..Len(vq)
  <1>1. vq \in Seq(Items) /\ Len(vq) \in Nat
    BY VqHas DEF MsTypes
  <1> QED
    BY <1>1, AppendProperties

\* It adds the copy to the queue, or frees it.
LEMMA OwnQueues ==
  ASSUME MsTypes, MsTypes', OwnInv, FrameQueued
  PROVE  OwnInv'
  <1> DEFINE f == [n |-> cap.n, key |-> cap.key]
  <1>0. cap.pc = "add" /\ cap'.pc = "idle" /\ cap'.n = cap.n /\ UNCHANGED snd
    BY DEF FrameQueued, MsTypes
  <1>1. Upcoming = cap.n /\ Upcoming' = cap.n + 1 /\ cap.n \in Nat /\ f \in Items /\ f.n = cap.n
    BY <1>0, CapHas DEF Upcoming
  <1>2. Holding' = Holding
    BY <1>0 DEF Holding
  <1>s. \A i \in Senders : snd[i].item.n \in Nat /\ snd[i].item.n < cap.n
    BY <1>1, SndHas DEF OwnInv, NumbersInv
  <1>3. CASE vq' = Append(vq, f) /\ UNCHANGED alive
    <2> HIDE DEF f
    <2>1. NumbersInv'
      <3>1. \A k \in 1..Len(vq') : vq'[k].n < Upcoming'
        BY <1>1, <1>3, Appended, VqHas DEF OwnInv, NumbersInv
      <3>2. \A k, l \in 1..Len(vq') : k < l => vq'[k].n < vq'[l].n
        <4> SUFFICES ASSUME NEW k \in 1..Len(vq'), NEW l \in 1..Len(vq'), k < l
                     PROVE  vq'[k].n < vq'[l].n
          OBVIOUS
        <4>1. k # Len(vq')
          BY <1>1, <1>3, Appended, VqHas
        <4>2. k \in 1..Len(vq) /\ vq'[k] = vq[k]
          BY <1>1, <1>3, <4>1, Appended
        <4>3. CASE l = Len(vq')
          BY <1>1, <1>3, <4>2, <4>3, Appended DEF OwnInv, NumbersInv
        <4>4. CASE l # Len(vq')
          BY <1>1, <1>3, <4>2, <4>4, Appended DEF OwnInv, NumbersInv
        <4> QED
          BY <4>3, <4>4
      <3>3. \A i \in Senders : snd'[i].item.n < Upcoming'
        BY <1>0, <1>1, <1>s
      <3>4. \A i \in Holding, k \in 1..Len(vq') : snd[i].item.n < vq'[k].n
        BY <1>1, <1>3, <1>s, Appended DEF OwnInv, NumbersInv, Holding
      <3> QED
        BY <1>0, <1>2, <3>1, <3>2, <3>3, <3>4 DEF OwnInv, NumbersInv
    <2>2. ASSUME NEW x \in alive
          PROVE  HasItem(x)'
      <3>1. \/ \E k \in 1..Len(vq) : x = vq[k]
            \/ \E i \in Holding : x = snd[i].item
            \/ x = f
        BY <2>2 DEF OwnInv, HasItem, f
      <3> QED
        BY <1>0, <1>1, <1>2, <1>3, <3>1, Appended DEF HasItem
    <2>3. f \in alive
      BY <1>0 DEF OwnInv, f
    <2>4. \A k \in 1..Len(vq') : vq'[k] \in alive
      BY <1>1, <1>3, <2>3, Appended DEF OwnInv
    <2> QED
      BY <1>0, <1>2, <1>3, <2>1, <2>2, <2>4 DEF OwnInv
  <1>4. CASE alive' = alive \ {f} /\ UNCHANGED vq
    <2>1. NumbersInv'
      BY <1>0, <1>1, <1>2, <1>4, <1>s, VqHas DEF OwnInv, NumbersInv
    <2>2. \A x \in alive' : HasItem(x)'
      BY <1>0, <1>2, <1>4 DEF OwnInv, HasItem
    <2>3. /\ \A k \in 1..Len(vq) : vq[k] \in alive'
          /\ \A i \in Holding : snd[i].item \in alive'
      BY <1>0, <1>4, OneOwner DEF OwnInv
    <2> QED
      BY <1>0, <1>2, <1>4, <2>1, <2>2, <2>3 DEF OwnInv
  <1> QED
    BY <1>3, <1>4 DEF FrameQueued

\* The stop frees what is in the queue.
LEMMA OwnReleases ==
  ASSUME MsTypes, MsTypes', OwnInv, StopReleases
  PROVE  OwnInv'
  <1>1. vq' = <<>> /\ Len(vq') = 0 /\ alive' = alive \ Range(vq) /\ UNCHANGED <<snd, cap>>
        /\ cap.pc = "idle"
    BY DEF StopReleases
  <1>2. Holding' = Holding /\ Upcoming' = Upcoming
    BY <1>1 DEF Holding, Upcoming
  <1>3. \A x : x \in Range(vq) <=> \E k \in 1..Len(vq) : x = vq[k]
    BY VqHas DEF Range
  <1>4. 1..Len(vq') = {}
    BY <1>1
  <1>5. NumbersInv'
    BY <1>1, <1>2, <1>4 DEF OwnInv, NumbersInv
  <1>6. \A x \in alive' : HasItem(x)'
    BY <1>1, <1>2, <1>3 DEF OwnInv, HasItem
  <1>7. \A i \in Holding : snd[i].item \in alive'
    BY <1>1, <1>3, OneOwner DEF OwnInv
  <1> QED
    BY <1>1, <1>2, <1>4, <1>5, <1>6, <1>7 DEF OwnInv

\* Every step keeps who owns what.
LEMMA OwnStep ==
  ASSUME MsTypes, MsTypes', OwnInv, MsNext
  PROVE  OwnInv'
  <1>1. CASE MsSession \/ MsAudio \/ StartArms \/ StartVideo \/ StartQueue \/ StartAudio
             \/ StopDisables \/ StopJoinsVideo \/ StopJoinsAudio
             \/ \E s \in Sessions : SessionRemoved(s)
    <2>1. UNCHANGED <<vq, alive, snd, cap>>
      BY <1>1 DEF MsSession, MsAudio, StartArms, StartVideo, StartQueue, StartAudio, StopDisables,
            StopJoinsVideo, StopJoinsAudio, SessionRemoved, SessionAdded, SessionConnects,
            SessionEnds, SessionLeaves, AudioReads, AudioWrites, queueOf
    <2> QED
      BY <2>1, OwnKept
  <1>2. CASE StartThread
    <2>1. UNCHANGED <<vq, alive, cap>>
      BY <1>2 DEF StartThread, queueOf
    <2>2. \/ UNCHANGED snd
          \/ \E i \in Senders : /\ snd[i].pc = "off"
                                /\ snd' = [snd EXCEPT ![i] = [pc |-> "top", item |-> NoItem]]
      BY <1>2 DEF StartThread
    <2>3. \A i \in Senders : snd'[i].item = snd[i].item
      BY <2>2 DEF MsTypes, Idling
    <2> QED
      BY <2>1, <2>3, OwnKept
  <1>3. CASE StopReleases
    BY <1>3, OwnReleases
  <1>4. ASSUME NEW key \in BOOLEAN, Dispatch(key)
        PROVE  OwnInv'
    <2>1. UNCHANGED <<vq, alive, snd>> /\ cap.pc = "idle" /\ cap'.pc # "add" /\ cap'.n = cap.n + 1
      BY <1>4 DEF Dispatch
    <2> QED
      BY <2>1, OwnKept
  <1>5. CASE FrameCopied
    BY <1>5, OwnCopies
  <1>6. CASE FrameQueued
    BY <1>6, OwnQueues
  <1>7. ASSUME NEW i \in Senders, MsSender(i)
        PROVE  OwnInv'
    <2>1. UNCHANGED cap
      BY <1>7, SenderKinds
    <2>2. CASE SndStays(i) /\ UNCHANGED <<vq, alive, seen>>
      <3>1. \A j \in Senders : snd'[j].item = snd[j].item
        <4>1. PICK pc \in SndPcs : Go(i, pc)
          BY <2>2 DEF SndStays
        <4>2. /\ snd'[i] = [pc |-> pc, item |-> snd[i].item]
              /\ \A j \in Senders : j # i => snd'[j] = snd[j]
          BY <4>1, SndMoves
        <4>3. snd'[i].item = snd[i].item
          BY <4>2
        <4> QED
          BY <4>2, <4>3
      <3> QED
        BY <2>1, <2>2, <3>1, OwnKept
    <2>3. CASE SndFrees(i) /\ UNCHANGED vq /\ snd[i].pc \notin Idling
      BY <2>1, <2>3, SndHas, OwnFrees
    <2>4. CASE SndTakes(i) /\ UNCHANGED <<alive, seen>>
      BY <2>1, <2>4, OwnTakes
    <2> QED
      BY <1>7, <2>2, <2>3, <2>4, SenderKinds
  <1> QED
    BY <1>1, <1>2, <1>3, <1>4, <1>5, <1>6, <1>7 DEF MsNext, MsControl, MsEncoder

\* The allocated frames are the owned ones, and as many.
LEMMA OwnedCount ==
  ASSUME MsTypes, OwnInv
  PROVE  ItemsOwned
  <1> DEFINE Q == Range(vq)
             H == {snd[i].item : i \in Holding}
             F == IF cap.pc = "add" THEN {[n |-> cap.n, key |-> cap.key]} ELSE {}
  <1>1. \A x : x \in Q <=> \E k \in 1..Len(vq) : x = vq[k]
    BY VqHas DEF Range
  <1>2. alive = Q \cup H \cup F
    <2>1. \A x \in alive : x \in Q \cup H \cup F
      BY <1>1 DEF OwnInv, HasItem
    <2>2. \A x \in Q \cup H \cup F : x \in alive
      BY <1>1 DEF OwnInv
    <2> QED
      BY <2>1, <2>2
  <1>3. IsFiniteSet(Q) /\ Cardinality(Q) = Len(vq)
    <2>1. vq \in [1..Len(vq) -> Q]
      <3>1. vq \in [1..Len(vq) -> Items]
        BY LenProperties DEF MsTypes
      <3>2. \A k \in 1..Len(vq) : vq[k] \in Q
        BY <1>1
      <3> HIDE DEF Q
      <3> QED
        BY <3>1, <3>2
    <2>2. IsFiniteSet(1..Len(vq)) /\ Cardinality(1..Len(vq)) = Len(vq)
      <3>1. \A m \in Nat : IsFiniteSet(1..m) /\ Cardinality(1..m) = m
        BY FS_Interval
      <3>2. Len(vq) \in Nat
        BY VqHas
      <3> HIDE DEF Q
      <3> QED
        BY <3>1, <3>2
    <2>3. \A a \in 1..Len(vq), b \in 1..Len(vq) : vq[a] = vq[b] => a = b
      BY OneOwner
    <2>4. \A z \in Q : \E y \in 1..Len(vq) : vq[y] = z
      BY <1>1
    <2> HIDE DEF Q
    <2> QED
      BY <2>1, <2>2, <2>3, <2>4, SameSize
  <1>4. IsFiniteSet(H) /\ Cardinality(H) = Cardinality(Holding)
    <2> DEFINE g == [i \in Holding |-> snd[i].item]
    <2>1. g \in [Holding -> H]
      OBVIOUS
    <2>2. \A a \in Holding, b \in Holding : g[a] = g[b] => a = b
      BY OneOwner
    <2>3. \A z \in H : \E y \in Holding : g[y] = z
      OBVIOUS
    <2>4. IsFiniteSet(Holding)
      BY DEF OwnInv
    <2> HIDE DEF g, H
    <2> QED
      BY <2>1, <2>2, <2>3, <2>4, SameSize
  <1>5. IsFiniteSet(F) /\ Cardinality(F) \in {0, 1}
    BY FS_EmptySet, FS_Singleton
  <1>6. Q \cap H = {} /\ (Q \cup H) \cap F = {}
    <2>1. Q \cap H = {}
      BY <1>1, OneOwner
    <2>2. \A x \in F : x \notin Q /\ x \notin H
      BY <1>1, OneOwner
    <2> QED
      BY <2>1, <2>2
  <1>7. Cardinality(alive) = Cardinality(Q) + Cardinality(H) + Cardinality(F)
    <2> HIDE DEF Q, H, F
    <2>1. IsFiniteSet(Q \cup H) /\ Cardinality(Q \cup H) = Cardinality(Q) + Cardinality(H)
      BY <1>3, <1>4, <1>6, Together
    <2> QED
      BY <1>2, <1>5, <1>6, <2>1, Together
  <1> QED
    BY <1>2, <1>3, <1>4, <1>5, <1>7, VqHas, FS_CardinalityType DEF ItemsOwned, Holding, OwnInv

----------------------------------------------------------------------------
(* The flags and the number of sessions.                                   *)

\* Count counts the sessions that are known.
LEMMA Counted ==
  ASSUME FlagInv
  PROVE  /\ Count = Cardinality(Known) /\ Count \in Nat
         /\ Count = 0 <=> Known = {}
         /\ \A s \in Known : Count >= 1 /\ (Count = 1 => Known = {s})
  <1>1. IsFiniteSet(Known) /\ Count = Cardinality(Known)
    BY DEF FlagInv, Count, Known
  <1>2. Count \in Nat /\ (Count = 0 <=> Known = {})
    BY <1>1, FS_CardinalityType, FS_EmptySet
  <1>3. ASSUME NEW s \in Known, Count = 1
        PROVE  Known = {s}
    <2>1. PICK x : Known = {x}
      BY <1>1, <1>3, FS_Singleton
    <2> QED
      BY <2>1
  <1>4. \A s \in Known : Count >= 1
    BY <1>2
  <1> QED
    BY <1>1, <1>2, <1>3, <1>4

\* The same sessions are known after a step that changes none to or from "none".
LEMMA SameCount ==
  ASSUME \A s \in Sessions : sess'[s] = "none" <=> sess[s] = "none"
  PROVE  Known' = Known /\ Count' = Count
  <1>1. Known' = Known
    BY DEF Known
  <1>2. Count = Cardinality(Known) /\ Count' = Cardinality(Known')
    BY DEF Count, Known
  <1> QED
    BY <1>1, <1>2

\* Sessions that come and go.
LEMMA FlagSession ==
  ASSUME MsTypes, FlagInv, NEW s \in Sessions,
         SessionAdded(s) \/ SessionConnects(s) \/ SessionEnds(s) \/ SessionLeaves(s)
         \/ SessionRemoved(s)
  PROVE  FlagInv'
  <1>t. sess \in [Sessions -> {"none", "listed", "connected", "ended"}]
        /\ seen \in [Sessions -> Nat] /\ clientOn \in BOOLEAN /\ started \in BOOLEAN
    BY DEF MsTypes
  <1>1. CASE SessionAdded(s)
    <2>1. /\ ctl = "idle" /\ sess[s] = "none" /\ UNCHANGED <<seen, clientOn, started>>
          /\ sess' = [sess EXCEPT ![s] = "listed"]
          /\ IF Count = 0 /\ ~clientOn THEN ctl' = "start" ELSE ctl' = "idle"
      BY <1>1 DEF SessionAdded, global
    <2>2. Known' = Known \cup {s}
      BY <1>t, <2>1 DEF Known
    <2>3. IsFiniteSet(Known')
      BY <2>2, FS_AddElement DEF FlagInv
    <2>4. clientOn = started
      BY <2>1 DEF FlagInv
    <2>5. \A r \in Sessions : sess'[r] \in {"none", "listed"} => seen'[r] = 0
      BY <1>t, <2>1 DEF FlagInv
    <2>6. CASE Count = 0 /\ ~clientOn
      <3>1. \A r \in Sessions : sess[r] = "none"
        BY <2>6, Counted DEF Known
      <3> QED
        BY <1>t, <2>1, <2>3, <2>4, <2>5, <2>6, <3>1 DEF FlagInv, Starting, Stopping
    <2>7. CASE ~(Count = 0 /\ ~clientOn)
      BY <2>1, <2>3, <2>4, <2>5, <2>7 DEF FlagInv, Starting, Stopping
    <2> QED
      BY <2>6, <2>7
  <1>2. CASE SessionConnects(s) \/ SessionEnds(s)
    <2>1. /\ \/ sess[s] = "listed" /\ sess' = [sess EXCEPT ![s] = "connected"] /\ ctl \notin Starting
             \/ sess[s] = "connected" /\ sess' = [sess EXCEPT ![s] = "ended"]
          /\ UNCHANGED <<seen, ctl, clientOn, started>>
      BY <1>2 DEF SessionConnects, SessionEnds, global
    <2>2. \A r \in Sessions : sess'[r] = "none" <=> sess[r] = "none"
      BY <1>t, <2>1
    <2>3. Known' = Known /\ Count' = Count
      BY <2>2, SameCount
    <2>4. \A r \in Sessions : sess'[r] \in {"none", "listed"} => sess[r] \in {"none", "listed"}
      BY <1>t, <2>1
    <2>5. ctl \notin Starting /\ ctl \notin Stopping
      BY <2>1 DEF FlagInv
    <2> QED
      BY <2>1, <2>3, <2>4, <2>5 DEF FlagInv
  <1>3. CASE SessionLeaves(s)
    <2>1. /\ ctl = "idle" /\ sess[s] # "none"
          /\ ctl' = IF Count = 1 /\ clientOn THEN "stop" ELSE "remove"
          /\ sess' = [sess EXCEPT ![s] = "ended"] /\ UNCHANGED <<seen, clientOn, started>>
      BY <1>3 DEF SessionLeaves, global
    <2>2. \A r \in Sessions : sess'[r] = "none" <=> sess[r] = "none"
      BY <1>t, <2>1
    <2>3. Known' = Known /\ Count' = Count
      BY <2>2, SameCount
    <2>4. \A r \in Sessions : sess'[r] \in {"none", "listed"} => sess[r] \in {"none", "listed"}
      BY <1>t, <2>1
    <2>5. clientOn = started
      BY <2>1 DEF FlagInv
    <2>6. Count = 1 => \A r \in Sessions : sess'[r] \in {"none", "ended"}
      <3>1. s \in Known
        BY <2>1 DEF Known
      <3>2. Count = 1 => \A r \in Sessions : r # s => sess[r] = "none"
        BY <3>1, Counted DEF Known
      <3> QED
        BY <1>t, <2>1, <3>2
    <2> QED
      BY <1>t, <2>1, <2>3, <2>4, <2>5, <2>6 DEF FlagInv, Starting, Stopping
  <1>4. CASE SessionRemoved(s)
    <2>1. /\ ctl = "remove" /\ sess[s] = "ended" /\ ctl' = "idle"
          /\ sess' = [sess EXCEPT ![s] = "none"] /\ seen' = [seen EXCEPT ![s] = 0]
          /\ clientOn' = (clientOn /\ Count > 1) /\ started' = started
      BY <1>4 DEF SessionRemoved, global
    <2>2. Known' = Known \ {s} /\ s \in Known
      BY <1>t, <2>1 DEF Known
    <2>3. IsFiniteSet(Known')
      BY <2>2, FS_RemoveElement DEF FlagInv
    <2>4. Count \in Nat /\ Count >= 1
      BY <2>2, Counted
    <2>5. IF Count = 1 THEN ~started ELSE clientOn = started
      BY <2>1 DEF FlagInv
    <2>6. clientOn' = started'
      <3>1. CASE Count = 1
        <4>1. ~(Count > 1) /\ ~started
          BY <2>4, <2>5, <3>1
        <4>2. clientOn' = FALSE
          BY <2>1, <4>1
        <4>3. started' = FALSE
          BY <1>t, <2>1, <4>1
        <4> QED
          BY <4>2, <4>3
      <3>2. CASE Count # 1
        BY <1>t, <2>1, <2>4, <2>5, <3>2
      <3> QED
        BY <3>1, <3>2
    <2>7. \A r \in Sessions : sess'[r] \in {"none", "listed"} => seen'[r] = 0
      BY <1>t, <2>1 DEF FlagInv
    <2> QED
      BY <2>1, <2>3, <2>6, <2>7 DEF FlagInv, Starting, Stopping
  <1> QED
    BY <1>1, <1>2, <1>3, <1>4

\* Every step keeps FlagInv.
LEMMA FlagStep ==
  ASSUME MsTypes, FlagInv, MsNext
  PROVE  FlagInv'
  <1> USE DEF global, peers
  <1>1. CASE MsSession \/ \E s \in Sessions : SessionRemoved(s)
    BY <1>1, FlagSession DEF MsSession
  <1>2. ASSUME UNCHANGED sess
        PROVE  Known' = Known /\ Count' = Count
    BY <1>2, SameCount
  <1>3. CASE StartArms \/ StartVideo \/ StartQueue \/ StartThread \/ StartAudio
    <2>1. UNCHANGED <<sess, seen>> /\ ctl \in Starting
      BY <1>3 DEF StartArms, StartVideo, StartQueue, StartThread, StartAudio, Starting
    <2>2. ~clientOn /\ ~started
      BY <2>1 DEF FlagInv
    <2>3. \/ ctl' \in Starting /\ ~clientOn' /\ ~started'
          \/ ctl' = "idle" /\ clientOn' = started'
      BY <1>3, <2>2 DEF StartArms, StartVideo, StartQueue, StartThread, StartAudio, Starting, MsTypes
    <2> QED
      BY <1>2, <2>1, <2>3 DEF FlagInv, Starting, Stopping
  <1>4. CASE StopDisables \/ StopJoinsVideo \/ StopJoinsAudio \/ StopReleases
    <2>1. UNCHANGED <<sess, seen, clientOn>> /\ ctl \in Stopping
      BY <1>4 DEF StopDisables, StopJoinsVideo, StopJoinsAudio, StopReleases, Stopping
    <2>2. clientOn /\ started /\ Count = 1
      BY <2>1 DEF FlagInv
    <2>3. \/ ctl' \in Stopping /\ started'
          \/ ctl' = "remove" /\ ~started'
      BY <1>4, <2>2 DEF StopDisables, StopJoinsVideo, StopJoinsAudio, StopReleases, Stopping
    <2> QED
      BY <1>2, <2>1, <2>2, <2>3 DEF FlagInv, Starting, Stopping
  <1>5. CASE MsEncoder \/ MsAudio
    <2>1. UNCHANGED <<sess, seen, ctl, clientOn, started>>
      BY <1>5 DEF MsEncoder, MsAudio, Dispatch, FrameCopied, FrameQueued, AudioReads, AudioWrites
    <2> QED
      BY <1>2, <2>1 DEF FlagInv
  <1>6. ASSUME NEW i \in Senders, MsSender(i)
        PROVE  FlagInv'
    <2>1. UNCHANGED <<sess, ctl, clientOn, started>>
      BY <1>6, SenderKinds
    <2>2. \A s \in Sessions : sess[s] # "connected" => seen'[s] = seen[s]
      BY <1>6 DEF MsSender, SenderTakes, SenderGate, SenderClears, SenderChecks, SenderLocks,
            SenderWrites
    <2> QED
      BY <1>2, <2>1, <2>2 DEF FlagInv
  <1> QED
    BY <1>1, <1>3, <1>4, <1>5, <1>6 DEF MsNext, MsControl

----------------------------------------------------------------------------
(* What is set up.                                                         *)

\* While the transmission starts or stops no session is fed.
LEMMA NoneFed ==
  ASSUME FlagInv, ctl \in Starting \/ ctl \in Stopping
  PROVE  Fed = {}
  BY DEF FlagInv, Fed

\* The sessions change whom a gap would reach only by fewer of them.
FedKept == Fed' \subseteq Fed /\ \A s \in Fed' : seen'[s] = seen[s]

\* A session that is added, connects, ends or is removed is no new one to reach.
LEMMA FedLess ==
  ASSUME MsTypes, FlagInv, NEW s \in Sessions,
         SessionAdded(s) \/ SessionConnects(s) \/ SessionEnds(s) \/ SessionLeaves(s)
         \/ SessionRemoved(s)
  PROVE  FedKept
  <1>1. \/ sess' = [sess EXCEPT ![s] = "listed"] /\ seen' = seen
        \/ sess[s] = "listed" /\ sess' = [sess EXCEPT ![s] = "connected"] /\ seen' = seen
        \/ sess' = [sess EXCEPT ![s] = "ended"] /\ seen' = seen
        \/ sess' = [sess EXCEPT ![s] = "none"] /\ seen' = [seen EXCEPT ![s] = 0]
    BY DEF SessionAdded, SessionConnects, SessionEnds, SessionLeaves, SessionRemoved, peers
  <1>2. \A r \in Sessions : sess'[r] = "connected" /\ seen'[r] # 0
                              => sess[r] = "connected" /\ seen[r] # 0 /\ seen'[r] = seen[r]
    BY <1>1 DEF MsTypes, FlagInv
  <1> QED
    BY <1>2 DEF FedKept, Fed

\* The threads are off when the video's is none.
LEMMA AllOff ==
  ASSUME StageInv, ~half, vTid = 0
  PROVE  (\A i \in Senders : snd[i] = Off) /\ Holding = {}
  <1>1. \A i \in Senders : snd[i] = Off
    BY MsAssumption DEF StageInv
  <1> QED
    BY <1>1, MsTiny DEF Holding

\* A sender at work is the one that was started, and the queue is there.
LEMMA OneSender ==
  ASSUME StageInv, ~half, NEW i \in Senders, snd[i].pc # "off"
  PROVE  i = vTid /\ qUp /\ \A j \in Senders : j # i => snd[j] = Off /\ j \notin Holding
  <1>1. i = vTid
    BY MsTiny DEF StageInv
  <1>2. vTid # 0
    BY <1>1, MsAssumption
  <1>3. qUp
    BY <1>2 DEF StageInv, Bare
  <1> QED
    BY <1>1, <1>3, MsTiny DEF StageInv, Holding

\* The sessions' steps leave what is set up alone.
LEMMA StageSession ==
  ASSUME MsTypes, FlagInv, StageInv, NEW s \in Sessions,
         SessionAdded(s) \/ SessionConnects(s) \/ SessionEnds(s) \/ SessionLeaves(s)
         \/ SessionRemoved(s)
  PROVE  StageInv'
  <1>1. UNCHANGED <<half, caps, vHandle, qUp, vq, sink, cap, vTid, snd, started, aud, aHandle,
                    terminated>>
    BY DEF SessionAdded, SessionConnects, SessionEnds, SessionLeaves, SessionRemoved, global, queueOf,
           capture, history
  <1>2. \/ ctl' = ctl
        \/ ctl \in {"idle", "remove"} /\ ctl' \in {"idle", "start", "stop", "remove"}
    BY DEF SessionAdded, SessionConnects, SessionEnds, SessionLeaves, SessionRemoved
  <1>3. Fed = {} => Fed' = {}
    BY FedLess DEF FedKept
  <1>4. Holding' = Holding
    BY <1>1 DEF Holding
  <1> QED
    BY <1>1, <1>2, <1>3, <1>4 DEF StageInv, Bare

\* A start that goes on.
LEMMA StageStart ==
  ASSUME MsTypes, FlagInv, StageInv,
         StartArms \/ StartVideo \/ StartQueue \/ StartThread \/ StartAudio
  PROVE  StageInv'
  <1> USE DEF global, queueOf, capture, history, bounds, peers
  <1> SUFFICES ASSUME ~half'
               PROVE  StageInv'
    BY DEF StageInv
  <1>h. ~half
    BY DEF StartArms, StartVideo, StartQueue, StartThread, StartAudio
  <1>f. Fed = {} /\ Fed' = {} /\ ~started
    <2>1. ctl \in Starting /\ UNCHANGED <<sess, seen>>
      BY DEF StartArms, StartVideo, StartQueue, StartThread, StartAudio, Starting
    <2>2. Fed' = Fed
      BY <2>1 DEF Fed
    <2> QED
      BY <2>1, <2>2, NoneFed DEF FlagInv
  <1>b. ~qUp => vTid = 0 /\ Bare
    BY <1>h DEF StageInv, Bare
  <1>1. CASE StartArms
    <2>1. Holding' = Holding
      BY <1>1 DEF StartArms, Holding
    <2> QED
      BY <1>1, <1>h, <1>f, <2>1 DEF StartArms, StageInv, Bare
  <1>2. CASE StartVideo
    <2>1. Holding' = Holding
      BY <1>2 DEF StartVideo, Holding
    <2>2. caps' = IF vHandle' THEN 1 ELSE 0
      BY <1>2, <1>h, <1>f DEF StartVideo, StageInv
    <2>3. ctl = "video" /\ ctl' \in {"queue", "audio"} /\ (ctl' = "audio" => ~vHandle')
          /\ UNCHANGED <<half, qUp, vq, sink, cap, vTid, snd, started, aud, aHandle, terminated>>
      BY <1>2 DEF StartVideo
    <2> QED
      BY <1>h, <1>f, <2>1, <2>2, <2>3 DEF StageInv, Bare
  <1>3. CASE StartQueue
    <2>1. /\ ctl = "queue" /\ ctl' = "thread" /\ qUp' /\ cap.pc = "idle"
          /\ sink' = [reg |-> TRUE, on |-> TRUE, gate |-> IF sink.on THEN sink.gate ELSE TRUE]
          /\ UNCHANGED <<half, caps, vHandle, vq, cap, vTid, snd, started, aud, aHandle, terminated>>
      BY <1>3 DEF StartQueue, MsTypes
    <2>2. Bare /\ vTid = 0
      BY <1>h, <1>f, <1>b, <2>1 DEF StageInv
    <2>3. Holding = {} /\ Holding' = {}
      BY <1>h, <2>1, <2>2, AllOff DEF Holding
    <2>4. vq' = <<>> /\ sink'.on
      BY <2>1, <2>2 DEF Bare
    <2> QED
      BY <1>h, <1>f, <2>1, <2>2, <2>3, <2>4 DEF StageInv
  <1>4. CASE StartThread
    <2>1. PICK i \in Senders : /\ snd[i].pc = "off" /\ vTid' = i
                               /\ snd' = [snd EXCEPT ![i] = [pc |-> "top", item |-> NoItem]]
      BY <1>4 DEF StartThread
    <2>2. /\ ctl = "thread" /\ ctl' = "audio"
          /\ UNCHANGED <<half, caps, vHandle, qUp, vq, sink, cap, started, aud, aHandle, terminated>>
      BY <1>4 DEF StartThread
    <2>3. vTid = 0 /\ qUp
      BY <1>h, <2>2 DEF StageInv
    <2>4. \A j \in Senders : j # i => snd'[j] = Off
      BY <1>h, <2>1, <2>3, AllOff DEF MsTypes
    <2>5. Holding' = {}
      BY <2>1, <2>4, MsTiny DEF Holding, MsTypes
    <2> QED
      BY <1>h, <1>f, <2>1, <2>2, <2>3, <2>4, <2>5 DEF StageInv
  <1>5. CASE StartAudio
    <2>1. /\ ctl = "audio" /\ ctl' = "idle" /\ started' /\ ~half'
          /\ UNCHANGED <<caps, vHandle, qUp, vq, sink, cap, vTid, snd, terminated>>
          /\ UNCHANGED aud \/ aud' = [pc |-> "top", item |-> NoItem]
      BY <1>5 DEF StartAudio
    <2>2. Holding' = Holding
      BY <2>1 DEF Holding
    <2>3. aud'.pc = "off" => aud' = Off
      BY <1>h, <2>1 DEF StageInv
    <2> QED
      BY <1>h, <1>f, <2>1, <2>2, <2>3 DEF StageInv, Bare
  <1> QED
    BY <1>1, <1>2, <1>3, <1>4, <1>5

\* A stop that goes on.
LEMMA StageStop ==
  ASSUME MsTypes, FlagInv, StageInv,
         StopDisables \/ StopJoinsVideo \/ StopJoinsAudio \/ StopReleases
  PROVE  StageInv'
  <1> USE DEF global, queueOf, capture, history, bounds, peers
  <1> SUFFICES ASSUME ~half'
               PROVE  StageInv'
    BY DEF StageInv
  <1>h. ~half
    BY DEF StopDisables, StopJoinsVideo, StopJoinsAudio, StopReleases
  <1>f. Fed = {} /\ Fed' = {} /\ started
    <2>1. ctl \in Stopping /\ UNCHANGED <<sess, seen>>
      BY DEF StopDisables, StopJoinsVideo, StopJoinsAudio, StopReleases, Stopping
    <2>2. Fed' = Fed
      BY <2>1 DEF Fed
    <2> QED
      BY <2>1, <2>2, NoneFed DEF FlagInv
  <1>k. Holding' = Holding
    BY DEF StopDisables, StopJoinsVideo, StopJoinsAudio, StopReleases, Holding
  <1>1. CASE StopDisables
    <2>1. /\ ctl = "stop" /\ ctl' = "join_video" /\ terminated'
          /\ sink' = [sink EXCEPT !.on = FALSE]
          /\ UNCHANGED <<half, caps, vHandle, qUp, vq, cap, vTid, snd, started, aud, aHandle>>
      BY <1>1, <1>f DEF StopDisables
    <2>2. ~sink'.on /\ sink'.reg = sink.reg
      BY <2>1 DEF MsTypes
    <2> QED
      BY <1>h, <1>f, <2>1, <2>2 DEF StageInv, Bare
  <1>2. CASE StopJoinsVideo
    <2>1. /\ ctl = "join_video" /\ ctl' = "join_audio" /\ vTid' = 0
          /\ vTid # 0 => snd[vTid].pc = "off"
          /\ UNCHANGED <<half, caps, vHandle, qUp, vq, sink, cap, snd, started, aud, aHandle, terminated>>
      BY <1>2 DEF StopJoinsVideo
    <2>2. \A i \in Senders : snd[i] = Off
      <3>1. ASSUME NEW i \in Senders, i = vTid
            PROVE  snd[i] = Off
        <4>1. snd[i].pc = "off"
          BY <2>1, <3>1, MsAssumption
        <4>2. snd[i].item = NoItem
          BY <4>1 DEF MsTypes, Idling
        <4>3. snd[i] = [pc |-> snd[i].pc, item |-> snd[i].item]
          BY SndHas
        <4> QED
          BY <4>1, <4>2, <4>3 DEF Off
      <3> QED
        BY <1>h, <3>1 DEF StageInv
    <2> QED
      BY <1>h, <1>f, <1>k, <2>1, <2>2 DEF StageInv, Bare
  <1>3. CASE StopJoinsAudio
    <2>1. /\ ctl = "join_audio" /\ ctl' = "release" /\ aud.pc = "off"
          /\ UNCHANGED <<half, caps, vHandle, qUp, vq, sink, cap, vTid, snd, started, aud, aHandle,
                         terminated>>
      BY <1>3 DEF StopJoinsAudio
    <2> QED
      BY <1>h, <1>f, <1>k, <2>1 DEF StageInv, Bare
  <1>4. CASE StopReleases
    <2>1. /\ ctl = "release" /\ ctl' = "remove" /\ cap.pc = "idle" /\ vq' = <<>> /\ ~qUp'
          /\ sink' = [reg |-> FALSE, on |-> FALSE, gate |-> FALSE]
          /\ caps' = (IF vHandle THEN caps - 1 ELSE caps) /\ ~vHandle' /\ aHandle' = "none"
          /\ UNCHANGED <<half, cap, vTid, snd, aud, terminated>>
      BY <1>4 DEF StopReleases
    <2>2. vTid = 0 /\ aud = Off
      BY <1>h, <2>1 DEF StageInv
    <2>3. caps' = 0
      BY <1>h, <2>1 DEF StageInv
    <2>4. ~sink'.on /\ ~sink'.reg
      BY <2>1
    <2> QED
      BY <1>h, <1>f, <2>1, <2>2, <2>3, <2>4 DEF StageInv, Bare
  <1> QED
    BY <1>1, <1>2, <1>3, <1>4

\* The encoder's task finds the sink enabled only while there is a queue.
LEMMA StageEncoder ==
  ASSUME MsTypes, StageInv, MsEncoder
  PROVE  StageInv'
  <1> USE DEF global, queueOf, capture, history, bounds, peers
  <1>0. /\ UNCHANGED <<half, caps, vHandle, qUp, vTid, sess, seen, snd, started, aud, aHandle, ctl,
                       terminated>>
        /\ Fed' = Fed /\ Holding' = Holding
    BY DEF MsEncoder, Dispatch, FrameCopied, FrameQueued, Fed, Holding
  <1>1. ASSUME NEW key \in BOOLEAN, Dispatch(key)
        PROVE  StageInv'
    <2>1. /\ UNCHANGED vq /\ cap.pc = "idle"
          /\ cap'.pc = IF sink.on /\ (sink.gate => key) THEN "frame" ELSE "idle"
          /\ sink' = [sink EXCEPT !.gate = sink.gate /\ ~(sink.on /\ (sink.gate => key))]
      BY <1>1 DEF Dispatch
    <2>2. sink'.on = sink.on /\ sink'.reg = sink.reg
          /\ (sink'.gate <=> sink.gate /\ ~(sink.on /\ (sink.gate => key)))
      BY <2>1 DEF MsTypes
    <2> QED
      BY <1>0, <2>1, <2>2 DEF StageInv, Bare
  <1>2. CASE FrameCopied \/ FrameQueued
    <2>1. cap.pc # "idle" /\ UNCHANGED sink
      BY <1>2 DEF FrameCopied, FrameQueued
    <2> QED
      BY <1>0, <2>1 DEF StageInv, Bare
  <1> QED
    BY <1>1, <1>2 DEF MsEncoder

\* A sender works only while the queue is there, and takes a frame only once one passed
\* the sink's gate.
LEMMA StageSender ==
  ASSUME MsTypes, StageInv, NEW i \in Senders, MsSender(i)
  PROVE  StageInv'
  <1> SUFFICES ASSUME ~half'
               PROVE  StageInv'
    BY DEF StageInv
  <1>0. UNCHANGED <<sess, ctl, clientOn, started, terminated, qUp, sink, caps, vHandle, aHandle, vTid,
                    aud, cap, half>>
    BY SenderKinds
  <1>1. snd[i].pc # "off"
    BY DEF MsSender, SenderTakes, SenderGate, SenderClears, SenderChecks, SenderLocks, SenderWrites, At
  <1>2. i = vTid /\ qUp
    BY <1>0, <1>1, OneSender
  <1>3. \A j \in Senders : j # i => snd'[j] = snd[j]
    <2>1. CASE SndStays(i)
      <3>1. PICK pc \in SndPcs : Go(i, pc)
        BY <2>1 DEF SndStays
      <3> QED
        BY <3>1, SndMoves
    <2>2. CASE SndFrees(i)
      <3>1. PICK pc \in SndPcs : Free(i, pc)
        BY <2>2, MsTiny DEF SndFrees
      <3> QED
        BY <3>1, SndMoves
    <2>3. CASE SndTakes(i)
      BY <2>3 DEF SndTakes, MsTypes
    <2> QED
      BY <2>1, <2>2, <2>3, SenderKinds
  <1>4. CASE sink.on /\ sink.gate
    <2>1. vq = <<>> /\ Holding = {} /\ Fed = {} /\ cap.pc = "idle"
      BY <1>0, <1>4 DEF StageInv
    <2>2. snd[i].pc = "top"
      BY <1>1, <2>1, SndHas DEF Idling
    <2>3. SndStays(i) /\ UNCHANGED <<vq, alive, seen>>
      BY <2>1, <2>2, SenderKinds DEF SndTakes, Idling
    <2>4. Fed' = {}
      BY <1>0, <2>1, <2>3 DEF Fed
    <2>5. PICK pc \in SndPcs : Go(i, pc)
      BY <2>3 DEF SndStays
    <2>6. snd'[i].item = snd[i].item
      <3>1. snd'[i] = [pc |-> pc, item |-> snd[i].item]
        BY <2>5, SndMoves
      <3> QED
        BY <3>1
    <2>7. Holding' = {}
      BY <1>3, <2>1, <2>6 DEF Holding
    <2> QED
      BY <1>0, <1>2, <1>3, <2>1, <2>3, <2>4, <2>7 DEF StageInv
  <1>5. CASE ~(sink.on /\ sink.gate)
    BY <1>0, <1>2, <1>3, <1>5 DEF StageInv
  <1> QED
    BY <1>4, <1>5

\* Every step keeps StageInv.
LEMMA StageStep ==
  ASSUME MsTypes, FlagInv, StageInv, MsNext
  PROVE  StageInv'
  <1>1. CASE MsSession \/ \E s \in Sessions : SessionRemoved(s)
    BY <1>1, StageSession DEF MsSession
  <1>2. CASE MsAudio
    <2>1. UNCHANGED <<sess, seen, ctl, started, terminated, qUp, vq, sink, caps, vHandle, aHandle, vTid,
                      snd, cap, half>>
      BY <1>2 DEF MsAudio, AudioReads, AudioWrites, global, queueOf, capture, history, peers
    <2>2. aud.pc # "off" /\ (aud'.pc = "off" => aud' = Off)
      BY <1>2 DEF MsAudio, AudioReads, AudioWrites
    <2>3. Fed' = Fed /\ Holding' = Holding /\ aud # Off
      BY <2>1, <2>2, MsTiny DEF Fed, Holding
    <2> QED
      BY <2>1, <2>2, <2>3 DEF StageInv, Bare
  <1> QED
    BY <1>1, <1>2, StageStart, StageStop, StageEncoder, StageSender DEF MsNext, MsControl

----------------------------------------------------------------------------
(* The chain of frames: what is written, in hand, queued and to come.      *)

\* More excuses link what fewer did.
LEMMA LinkedMore ==
  ASSUME NEW E, NEW F, NEW m, NEW f, \A k \in E : m < k => k \in F, Linked(E, m, f)
  PROVE  Linked(F, m, f)
  BY DEF Linked

\* With no frame on its way and no session that saw one there is no gap.
LEMMA ChainEmpty ==
  ASSUME MsTypes', vq' = <<>>, Fed' = {}, \A i \in Senders : snd'[i] = Off
  PROVE  ChainInv'
  <1>1. \A i \in Senders : snd'[i].pc = "off" /\ snd'[i].item = NoItem
    BY MsTiny
  <1>2. Holding' = {}
    BY <1>1 DEF Holding
  <1>3. (Before = {})' /\ (LastOf = {})'
    BY <1>2 DEF Before, LastOf
  <1>4. Len(vq') = 0
    OBVIOUS
  <1>5. SeenBefore' /\ HandLinked' /\ HeadLinked' /\ QueueLinked' /\ TailLinked'
    BY <1>2, <1>3, <1>4 DEF SeenBefore, HandLinked, HeadLinked, QueueLinked, TailLinked
  <1> QED
    BY <1>1, <1>5 DEF ChainInv

\* What the chain ends with is behind the encoder's next frame.
LEMMA LastBelow ==
  ASSUME MsTypes, OwnInv, SeenBefore, NEW m \in LastOf
  PROVE  m \in Nat /\ m < Upcoming
  <1>1. CASE vq = <<>>
    <2>1. m \in Before
      BY <1>1 DEF LastOf
    <2>2. CASE m \in {snd[i].item.n : i \in Holding}
      <3>1. PICK i \in Holding : m = snd[i].item.n
        BY <2>2
      <3>2. i \in Senders
        BY DEF Holding
      <3> QED
        BY <3>1, <3>2, SndHas DEF OwnInv, NumbersInv
    <2>3. CASE m \in {seen[s] : s \in {r \in Fed : Holding = {}}}
      <3>1. PICK s \in Fed : m = seen[s]
        BY <2>3
      <3> QED
        BY <3>1 DEF SeenBefore, MsTypes, Fed
    <2> QED
      BY <2>1, <2>2, <2>3 DEF Before
  <1>2. CASE vq # <<>>
    <2>1. Len(vq) \in 1..Len(vq)
      BY <1>2, VqHas
    <2> QED
      BY <1>2, <2>1, VqHas DEF LastOf, OwnInv, NumbersInv
  <1> QED
    BY <1>1, <1>2

\* The frames stay where they are; a sender goes on with its own.
PlacesKept ==
  \A i \in Senders :
    /\ snd'[i].item = snd[i].item
    /\ snd'[i].pc = "clear" => snd[i].pc = "clear" \/ (snd[i].pc = "gate" /\ snd[i].item.key)
    /\ snd'[i].pc = "gate" => snd[i].pc = "gate"
    /\ snd'[i].pc \in {"check", "lock", "write"} =>
         \/ snd[i].pc \in {"check", "lock", "write", "clear"}
         \/ snd[i].pc = "gate" /\ ~waitIdr

\* The wait for a key frame ends only when a sender found one.
WaitKept == (waitIdr => waitIdr') \/ (HandKey /\ \A i \in Senders : snd'[i].pc # "gate")

\* A frame that does not get into the queue is known to be lost.
LossKept == \/ Upcoming' = Upcoming
            \/ /\ Upcoming' > Upcoming
               /\ \/ terminated' \/ LastOf = {} \/ Upcoming \in excuses'
                  \/ waitIdr' /\ ~KeyAhead

\* The chain is kept while frames stay where they are and each loss is known.
LEMMA ChainMoves ==
  ASSUME MsTypes, MsTypes', OwnInv, ChainInv, ~half, FedKept, PlacesKept, WaitKept, LossKept,
         vq' = vq, excuses \subseteq excuses', terminated => terminated'
  PROVE  ChainInv'
  <1>1. Holding' = Holding
    BY DEF PlacesKept, Holding
  <1>2. /\ \A i \in Senders : snd[i].pc = "clear" => snd[i].item.key
        /\ SeenBefore /\ HandLinked
    BY DEF ChainInv
  <1>3. \A i \in Senders : snd'[i].pc = "clear" => snd'[i].item.key
    BY <1>2 DEF PlacesKept
  <1>4. HandKey' => HandKey
    BY DEF HandKey, PlacesKept
  <1>5. KeyAhead' => KeyAhead
    BY DEF KeyAhead, PlacesKept
  <1>6. HandKey => KeyAhead
    BY DEF HandKey, KeyAhead
  <1>u. Upcoming \in Nat /\ Upcoming' \in Nat /\ Upcoming' >= Upcoming
    BY CapHas, CapHas DEF LossKept, MsTypes, Upcoming
  <1>7. SeenBefore'
    <2> SUFFICES ASSUME NEW s \in Fed'
                 PROVE  /\ seen'[s] < Upcoming'
                        /\ \A k \in 1..Len(vq') : seen'[s] < vq'[k].n
                        /\ \A i \in Holding' : seen'[s] < snd'[i].item.n
      BY DEF SeenBefore
    <2>1. s \in Fed /\ seen'[s] = seen[s] /\ seen[s] \in Nat
      BY DEF FedKept, Fed, MsTypes
    <2>2. seen[s] < Upcoming'
      BY <1>2, <1>u, <2>1 DEF SeenBefore
    <2>3. \A i \in Holding : seen[s] < snd'[i].item.n
      BY <1>2, <2>1 DEF SeenBefore, PlacesKept, Holding
    <2> QED
      BY <1>1, <1>2, <2>1, <2>2, <2>3 DEF SeenBefore
  <1>8. HandLinked'
    <2> SUFFICES ASSUME NEW s \in Fed', NEW i \in Senders
                 PROVE  /\ snd'[i].pc \in {"check", "lock", "write"} =>
                             Linked(excuses', seen'[s], snd'[i].item)
                        /\ snd'[i].pc = "gate" =>
                             Linked(excuses', seen'[s], snd'[i].item) \/ waitIdr'
      BY DEF HandLinked, Linked
    <2>1. s \in Fed /\ seen'[s] = seen[s] /\ snd'[i].item = snd[i].item
      BY DEF FedKept, PlacesKept
    <2>2. Linked(excuses, seen[s], snd[i].item) => Linked(excuses', seen'[s], snd'[i].item)
      BY <2>1, LinkedMore
    <2>3. snd[i].item.key => Linked(excuses, seen[s], snd[i].item)
      BY DEF Linked
    <2> QED
      BY <1>2, <2>1, <2>2, <2>3 DEF HandLinked, PlacesKept, WaitKept
  <1>9. ASSUME ~terminated'
        PROVE  HeadLinked' /\ QueueLinked' /\ TailLinked'
    <2>1. HeadLinked /\ QueueLinked /\ TailLinked
      BY <1>9 DEF ChainInv
    <2>2. waitIdr /\ ~HandKey => waitIdr' /\ ~HandKey'
      BY <1>4 DEF WaitKept
    <2>3. waitIdr /\ ~KeyAhead => waitIdr' /\ ~KeyAhead'
      BY <1>5, <1>6 DEF WaitKept
    <2>4. Before' \subseteq Before
      <3>1. {snd'[i].item.n : i \in Holding'} = {snd[i].item.n : i \in Holding}
        BY <1>1 DEF PlacesKept, Holding
      <3>2. {seen'[s] : s \in {r \in Fed' : Holding' = {}}}
              \subseteq {seen[s] : s \in {r \in Fed : Holding = {}}}
        BY <1>1 DEF FedKept
      <3> QED
        BY <3>1, <3>2 DEF Before
    <2>5. LastOf' \subseteq LastOf
      BY <2>4 DEF LastOf
    <2>6. HeadLinked'
      <3> SUFFICES ASSUME NEW m \in Before', vq # <<>>
                   PROVE  Linked(excuses', m, vq[1]) \/ (waitIdr' /\ ~HandKey')
        BY DEF HeadLinked, Linked
      <3>1. Linked(excuses, m, vq[1]) \/ (waitIdr /\ ~HandKey)
        BY <2>1, <2>4 DEF HeadLinked
      <3> QED
        BY <2>2, <3>1, LinkedMore
    <2>7. QueueLinked'
      <3> SUFFICES ASSUME NEW k \in 1..(Len(vq) - 1)
                   PROVE  \/ Linked(excuses', vq[k].n, vq[k + 1])
                          \/ waitIdr' /\ ~HandKey' /\ \A l \in 1..k : ~vq[l].key
        BY DEF QueueLinked, Linked
      <3>1. \/ Linked(excuses, vq[k].n, vq[k + 1])
            \/ waitIdr /\ ~HandKey /\ \A l \in 1..k : ~vq[l].key
        BY <2>1 DEF QueueLinked
      <3> QED
        BY <2>2, <3>1, LinkedMore
    <2>8. TailLinked'
      <3> SUFFICES ASSUME NEW m \in LastOf'
                   PROVE  \/ Upcoming' = m + 1
                          \/ \E k \in excuses' : m < k /\ k < Upcoming'
                          \/ waitIdr' /\ ~KeyAhead'
        BY DEF TailLinked
      <3>1. m \in LastOf /\ m \in Nat /\ m < Upcoming
        BY <1>2, <2>5, LastBelow
      <3>2. \/ Upcoming = m + 1
            \/ \E k \in excuses : m < k /\ k < Upcoming
            \/ waitIdr /\ ~KeyAhead
        BY <2>1, <3>1 DEF TailLinked
      <3>3. CASE Upcoming' = Upcoming
        BY <2>3, <3>2, <3>3
      <3>4. CASE Upcoming' > Upcoming /\ Upcoming \in excuses'
        BY <3>1, <3>4
      <3>5. CASE waitIdr' /\ ~KeyAhead
        BY <1>5, <3>5
      <3> QED
        BY <1>9, <3>1, <3>3, <3>4, <3>5 DEF LossKept
    <2> QED
      BY <2>6, <2>7, <2>8
  <1> QED
    BY <1>3, <1>7, <1>8, <1>9 DEF ChainInv

\* A sender is done with its frame: it was written, or its loss is known, or none is told.
LEMMA ChainDrops ==
  ASSUME MsTypes, MsTypes', OwnInv, StageInv, ChainInv, ~half, NEW i \in Senders, i \in Holding,
         SndFrees(i), waitIdr => waitIdr', terminated' = terminated,
         UNCHANGED <<vq, cap>>,
         \A k \in excuses : snd[i].item.n < k => k \in excuses',
         \A s \in Fed' : \/ seen'[s] = snd[i].item.n
                         \/ /\ s \in Fed /\ seen'[s] = seen[s]
                            /\ waitIdr' \/ terminated \/ snd[i].item.n \in excuses'
  PROVE  ChainInv'
  <1> DEFINE n == snd[i].item.n
  <1>1. PICK pc \in Idling : Free(i, pc)
    BY DEF SndFrees
  <1>2. /\ snd'[i].pc \in Idling /\ snd'[i].item = NoItem
        /\ \A j \in Senders : j # i => snd'[j] = snd[j]
    <2>1. pc \in SndPcs
      BY MsTiny
    <2>2. /\ snd'[i] = [pc |-> pc, item |-> NoItem]
          /\ \A j \in Senders : j # i => snd'[j] = snd[j]
      BY <1>1, <2>1, SndMoves
    <2> QED
      BY <2>2
  <1>3. snd[i].pc \notin Idling /\ n \in Nat
    BY SndHas
  <1>4. \A j \in Senders : j # i => snd[j] = Off /\ j \notin Holding
    BY <1>3, OneSender DEF Idling
  <1>5. \A j \in Senders : snd'[j].pc \in Idling /\ snd'[j].item = NoItem
    BY <1>2, <1>4, MsTiny DEF Idling
  <1>6. Holding' = {} /\ ~HandKey'
    BY <1>5 DEF Holding, HandKey, Idling
  <1>7. /\ \A j \in Senders : snd'[j].pc = "clear" => snd'[j].item.key
        /\ HandLinked'
    BY <1>5 DEF HandLinked, Idling
  <1>8. n < Upcoming /\ Upcoming' = Upcoming /\ Upcoming \in Nat
        /\ \A k \in 1..Len(vq) : n < vq[k].n
    BY <1>3, CapHas DEF OwnInv, NumbersInv, Upcoming
  <1>9. SeenBefore /\ HandLinked /\ (~terminated => HeadLinked /\ QueueLinked /\ TailLinked)
    BY DEF ChainInv
  <1>s. \A s \in Fed' : seen'[s] \in Nat /\ seen'[s] <= n
    <2> SUFFICES ASSUME NEW s \in Fed'
                 PROVE  seen'[s] \in Nat /\ seen'[s] <= n
      OBVIOUS
    <2>1. seen'[s] \in Nat
      BY DEF MsTypes, Fed
    <2>2. CASE s \in Fed /\ seen'[s] = seen[s]
      BY <1>3, <1>9, <2>1, <2>2 DEF SeenBefore
    <2> QED
      BY <1>3, <2>1, <2>2
  <1>10. SeenBefore'
    BY <1>3, <1>6, <1>8, <1>s, VqHas DEF SeenBefore
  <1>k. KeyAhead' => KeyAhead
    BY <1>5 DEF KeyAhead, Idling
  <1>11. ASSUME ~terminated'
         PROVE  HeadLinked' /\ QueueLinked' /\ TailLinked'
    <2>1. HeadLinked /\ QueueLinked /\ TailLinked
      BY <1>9, <1>11
    <2>2. n \in Before
      BY DEF Before
    <2>b. ASSUME NEW m \in Before'
          PROVE  m \in Nat /\ (m = n \/ (m <= n /\ (waitIdr' \/ n \in excuses')))
      <3>1. PICK s \in Fed' : m = seen'[s]
        BY <1>6 DEF Before
      <3> QED
        BY <1>11, <1>s, <3>1
    <2>3. HeadLinked'
      <3> SUFFICES ASSUME NEW m \in Before', vq # <<>>
                   PROVE  Linked(excuses', m, vq[1]) \/ waitIdr'
        BY <1>6 DEF HeadLinked, Linked
      <3>1. 1 \in 1..Len(vq) /\ n < vq[1].n
        BY <1>8, VqHas
      <3>2. CASE m = n
        <4>1. Linked(excuses, n, vq[1]) \/ waitIdr
          BY <2>1, <2>2 DEF HeadLinked
        <4> QED
          BY <3>2, <4>1, LinkedMore
      <3>3. CASE m # n
        <4>1. m <= n /\ m # n /\ (waitIdr' \/ n \in excuses')
          BY <2>b, <3>3
        <4>2. m < n
          BY <1>3, <2>b, <4>1
        <4> QED
          BY <3>1, <4>1, <4>2 DEF Linked
      <3> QED
        BY <3>2, <3>3
    <2>4. QueueLinked'
      <3> SUFFICES ASSUME NEW k \in 1..(Len(vq) - 1)
                   PROVE  \/ Linked(excuses', vq[k].n, vq[k + 1])
                          \/ waitIdr' /\ ~HandKey' /\ \A l \in 1..k : ~vq[l].key
        BY DEF QueueLinked, Linked
      <3>1. \/ Linked(excuses, vq[k].n, vq[k + 1])
            \/ waitIdr /\ ~HandKey /\ \A l \in 1..k : ~vq[l].key
        BY <2>1 DEF QueueLinked
      <3>2. k \in 1..Len(vq)
        BY VqHas
      <3>3. \A x \in excuses : vq[k].n < x => x \in excuses'
        <4> SUFFICES ASSUME NEW x \in excuses, vq[k].n < x
                     PROVE  x \in excuses'
          OBVIOUS
        <4>1. x \in Nat /\ n < vq[k].n /\ vq[k].n \in Nat
          BY <1>8, <3>2, VqHas DEF MsTypes
        <4>2. n < x
          BY <1>3, <4>1
        <4> QED
          BY <4>2
      <3> QED
        BY <1>6, <3>1, <3>3, LinkedMore
    <2>5. TailLinked'
      <3> SUFFICES ASSUME NEW m \in LastOf'
                   PROVE  \/ Upcoming = m + 1
                          \/ \E k \in excuses' : m < k /\ k < Upcoming
                          \/ waitIdr' /\ ~KeyAhead'
        BY <1>8 DEF TailLinked
      <3>1. CASE vq # <<>>
        <4>1. m = vq[Len(vq)].n /\ LastOf = {m} /\ Len(vq) \in 1..Len(vq)
          BY <3>1, VqHas DEF LastOf
        <4>2. n < m /\ m \in Nat
          BY <1>8, <4>1, VqHas
        <4>3. \A x \in excuses : m < x => x \in excuses'
          BY <1>3, <4>2 DEF MsTypes
        <4> QED
          BY <1>k, <2>1, <4>1, <4>3 DEF TailLinked
      <3>2. CASE vq = <<>> /\ m = n
        <4>1. m \in LastOf
          BY <2>2, <3>2 DEF LastOf
        <4> QED
          BY <1>k, <2>1, <3>2, <4>1 DEF TailLinked
      <3>3. CASE vq = <<>> /\ m # n
        <4>1. m \in Before'
          BY <3>3 DEF LastOf
        <4>2. ~KeyAhead'
          BY <1>5, <3>3 DEF KeyAhead, Idling
        <4>3. m < n /\ (waitIdr' \/ n \in excuses')
          BY <1>3, <2>b, <3>3, <4>1
        <4> QED
          BY <1>8, <4>2, <4>3
      <3> QED
        BY <3>1, <3>2, <3>3
    <2> QED
      BY <2>3, <2>4, <2>5
  <1> QED
    BY <1>7, <1>10, <1>11 DEF ChainInv

\* A sender takes the frame at the head of the queue: what followed the last frame before
\* the queue now is in its hand.
LEMMA ChainTakes ==
  ASSUME MsTypes, MsTypes', OwnInv, StageInv, ChainInv, ~half, NEW i \in Senders,
         SndTakes(i), ~terminated, ~terminated',
         UNCHANGED <<sess, seen, cap, waitIdr, excuses>>
  PROVE  ChainInv'
  <1>1. /\ snd[i].pc = "top" /\ vq # <<>> /\ vq' = Tail(vq)
        /\ snd'[i] = [pc |-> "gate", item |-> Head(vq)]
        /\ \A j \in Senders : j # i => snd'[j] = snd[j]
    BY DEF SndTakes, MsTypes
  <1>2. /\ Head(vq) = vq[1] /\ 1 \in 1..Len(vq) /\ Len(vq') = Len(vq) - 1
        /\ \A k \in 1..Len(vq') : k + 1 \in 1..Len(vq) /\ vq'[k] = vq[k + 1]
        /\ \A k \in 1..Len(vq) : vq[k] \in Items
    BY <1>1, Taken, VqHas
  <1>3. snd'[i].pc = "gate" /\ snd'[i].item = vq[1]
    BY <1>1, <1>2
  <1>4. \A j \in Senders : j # i => snd'[j] = Off /\ snd[j] = Off
    BY <1>1, OneSender
  <1>5. Holding = {} /\ Holding' = {i}
    <2>1. snd[i].item = NoItem
      BY <1>1 DEF MsTypes, Idling
    <2>2. \A j \in Senders : j # i => snd[j].item = NoItem /\ snd'[j].item = NoItem
      BY <1>4, MsTiny
    <2>3. snd'[i].item # NoItem
      BY <1>2, <1>3, MsTiny
    <2> QED
      BY <2>1, <2>2, <2>3 DEF Holding
  <1>6. SeenBefore /\ HeadLinked /\ QueueLinked /\ TailLinked
    BY DEF ChainInv
  <1>7. Fed' = Fed /\ Upcoming' = Upcoming
    BY DEF Fed, Upcoming
  <1>8. \A j \in Senders : snd'[j].pc = "clear" => snd'[j].item.key
    BY <1>3, <1>4, MsTiny
  <1>9. SeenBefore'
    BY <1>2, <1>3, <1>5, <1>6, <1>7 DEF SeenBefore
  <1>10. HandLinked'
    <2>1. ASSUME NEW s \in Fed
          PROVE  Linked(excuses, seen[s], vq[1]) \/ waitIdr
      <3>1. seen[s] \in Before
        BY <1>5 DEF Before
      <3> QED
        BY <1>1, <1>6, <3>1 DEF HeadLinked
    <2>2. \A j \in Senders : j # i => snd'[j].pc = "off"
      BY <1>4, MsTiny
    <2> QED
      BY <1>3, <1>7, <2>1, <2>2 DEF HandLinked, Linked
  <1>11. HandKey' => vq[1].key
    BY <1>3, <1>4, MsTiny DEF HandKey
  <1>12. KeyAhead' => KeyAhead
    <2>1. vq[1].key => KeyAhead
      BY <1>2 DEF KeyAhead
    <2>2. ASSUME NEW k \in 1..Len(vq'), vq'[k].key
          PROVE  KeyAhead
      BY <1>2, <2>2 DEF KeyAhead
    <2>3. ASSUME NEW j \in Senders, snd'[j].pc \in {"gate", "clear"}, snd'[j].item.key
          PROVE  KeyAhead
      BY <1>3, <1>4, <2>1, <2>3, MsTiny
    <2> QED
      BY <2>2, <2>3 DEF KeyAhead
  <1>13. Before' = {vq[1].n}
    <2>1. {snd'[j].item.n : j \in Holding'} = {vq[1].n}
      BY <1>3, <1>5
    <2>2. {r \in Fed' : Holding' = {}} = {}
      BY <1>5
    <2> QED
      BY <2>1, <2>2 DEF Before
  <1>14. ASSUME NEW k \in 1..Len(vq')
         PROVE  \/ Linked(excuses, vq[k].n, vq[k + 1])
                \/ waitIdr /\ ~HandKey' /\ \A l \in 1..k : ~vq[l].key
    <2>1. k \in 1..(Len(vq) - 1) /\ 1 \in 1..k
      BY <1>2, VqHas
    <2> QED
      BY <1>6, <1>11, <2>1 DEF QueueLinked
  <1>15. HeadLinked'
    <2> SUFFICES ASSUME vq' # <<>>
                 PROVE  Linked(excuses, vq[1].n, vq'[1]) \/ (waitIdr /\ ~HandKey')
      BY <1>13 DEF HeadLinked, Linked
    <2>1. 1 \in 1..Len(vq') /\ vq'[1] = vq[2]
      <3>1. vq' \in Seq(Items)
        BY DEF MsTypes
      <3>2. Len(vq') # 0 /\ Len(vq') \in Nat
        BY <3>1, EmptySeq, LenProperties
      <3>3. 1 \in 1..Len(vq')
        BY <3>2
      <3> QED
        BY <1>2, <3>3
    <2> QED
      BY <1>14, <2>1
  <1>16. QueueLinked'
    <2> SUFFICES ASSUME NEW k \in 1..(Len(vq') - 1)
                 PROVE  \/ Linked(excuses, vq'[k].n, vq'[k + 1])
                        \/ waitIdr /\ ~HandKey' /\ \A l \in 1..k : ~vq'[l].key
      BY DEF QueueLinked, Linked
    <2>1. Len(vq') \in Nat /\ k \in 1..Len(vq') /\ k + 1 \in 1..Len(vq')
      BY <1>2, VqHas
    <2>2. vq'[k] = vq[k + 1] /\ vq'[k + 1] = vq[(k + 1) + 1]
      BY <1>2, <2>1
    <2>3. \A l \in 1..k : l \in 1..Len(vq') /\ l + 1 \in 1..(k + 1) /\ vq'[l] = vq[l + 1]
      BY <1>2, <2>1
    <2>4. \/ Linked(excuses, vq[k + 1].n, vq[(k + 1) + 1])
          \/ waitIdr /\ ~HandKey' /\ \A l \in 1..(k + 1) : ~vq[l].key
      BY <1>14, <2>1
    <2> QED
      BY <2>2, <2>3, <2>4
  <1>17. TailLinked'
    <2>1. LastOf' \subseteq LastOf
      <3>1. LastOf = {vq[Len(vq)].n}
        BY <1>1 DEF LastOf
      <3>2. CASE vq' = <<>>
        <4>1. Len(vq') = 0
          BY <3>2
        <4>2. Len(vq) = 1
          BY <1>2, <4>1, VqHas
        <4> QED
          BY <1>13, <3>1, <3>2, <4>2 DEF LastOf
      <3>3. CASE vq' # <<>>
        <4>1. vq' \in Seq(Items)
          BY DEF MsTypes
        <4>2. Len(vq') # 0 /\ Len(vq') \in Nat
          BY <3>3, <4>1, EmptySeq, LenProperties
        <4>3. Len(vq') \in 1..Len(vq')
          BY <4>2
        <4>4. vq'[Len(vq')] = vq[Len(vq)]
          BY <1>2, <4>3, VqHas
        <4> QED
          BY <3>1, <3>3, <4>4 DEF LastOf
      <3> QED
        BY <3>2, <3>3
    <2> QED
      BY <1>6, <1>7, <1>12, <2>1 DEF TailLinked
  <1> QED
    BY <1>8, <1>9, <1>10, <1>15, <1>16, <1>17 DEF ChainInv

\* A frame joins the queue behind the last one.
LEMMA ChainQueues ==
  ASSUME MsTypes, MsTypes', ChainInv, ~half, cap.pc = "add", cap'.pc = "idle",
         cap'.n = cap.n, vq' = Append(vq, [n |-> cap.n, key |-> cap.key]),
         UNCHANGED <<sess, seen, snd, waitIdr, terminated, excuses>>
  PROVE  ChainInv'
  <1> DEFINE f == [n |-> cap.n, key |-> cap.key]
  <1>1. f \in Items /\ Upcoming = cap.n /\ f.n = cap.n /\ cap.n \in Nat /\ Upcoming' = cap.n + 1
    BY CapHas DEF Upcoming
  <1>2. /\ Len(vq') = Len(vq) + 1 /\ vq'[Len(vq')] = f
        /\ \A k \in 1..Len(vq) : k \in 1..Len(vq') /\ vq'[k] = vq[k]
        /\ \A k \in 1..Len(vq') : k # Len(vq') => k \in 1..Len(vq)
    BY <1>1, Appended
  <1>3. Holding' = Holding /\ Fed' = Fed /\ HandKey' = HandKey /\ Before' = Before
    BY DEF Holding, Fed, HandKey, Before
  <1>4. /\ SeenBefore /\ HandLinked
        /\ ~terminated => HeadLinked /\ QueueLinked /\ TailLinked
    BY DEF ChainInv
  <1>5. \A i \in Senders : snd'[i].pc = "clear" => snd'[i].item.key
    BY DEF ChainInv
  <1>6. SeenBefore'
    <2> SUFFICES ASSUME NEW s \in Fed
                 PROVE  /\ seen[s] < Upcoming'
                        /\ \A k \in 1..Len(vq') : seen[s] < vq'[k].n
                        /\ \A i \in Holding : seen[s] < snd[i].item.n
      BY <1>3 DEF SeenBefore
    <2>1. /\ seen[s] < Upcoming
          /\ \A k \in 1..Len(vq) : seen[s] < vq[k].n
          /\ \A i \in Holding : seen[s] < snd[i].item.n
          /\ seen[s] \in Nat
      BY <1>4 DEF SeenBefore, MsTypes, Fed
    <2>2. seen[s] < Upcoming'
      BY <1>1, <2>1
    <2>3. \A k \in 1..Len(vq') : seen[s] < vq'[k].n
      BY <1>1, <1>2, <2>1
    <2> QED
      BY <2>1, <2>2, <2>3
  <1>7. HandLinked'
    BY <1>3, <1>4 DEF HandLinked, Linked
  <1>8. ASSUME ~terminated
        PROVE  HeadLinked' /\ QueueLinked' /\ TailLinked'
    <2>1. ASSUME NEW m \in LastOf
          PROVE  \/ Linked(excuses, m, f)
                 \/ waitIdr /\ ~HandKey /\ \A l \in 1..Len(vq) : ~vq[l].key
      <3>1. \/ Upcoming = m + 1
            \/ \E k \in excuses : m < k /\ k < Upcoming
            \/ waitIdr /\ ~KeyAhead
        BY <1>4, <1>8 DEF TailLinked
      <3>2. CASE waitIdr /\ ~KeyAhead
        BY <3>2 DEF KeyAhead, HandKey
      <3> QED
        BY <1>1, <3>1, <3>2 DEF Linked
    <2>2. HeadLinked'
      <3> SUFFICES ASSUME NEW m \in Before
                   PROVE  Linked(excuses, m, vq'[1]) \/ (waitIdr /\ ~HandKey)
        BY <1>3 DEF HeadLinked, Linked
      <3>1. CASE vq = <<>>
        <4>1. m \in LastOf /\ vq'[1] = f
          BY <1>2, <3>1 DEF LastOf
        <4> QED
          BY <2>1, <4>1
      <3>2. CASE vq # <<>>
        <4>1. vq'[1] = vq[1]
          BY <1>2, <3>2, VqHas
        <4> QED
          BY <1>4, <1>8, <3>2, <4>1 DEF HeadLinked
      <3> QED
        BY <3>1, <3>2
    <2>3. QueueLinked'
      <3> SUFFICES ASSUME NEW k \in 1..(Len(vq') - 1)
                   PROVE  \/ Linked(excuses, vq'[k].n, vq'[k + 1])
                          \/ waitIdr /\ ~HandKey /\ \A l \in 1..k : ~vq'[l].key
        BY <1>3 DEF QueueLinked, Linked
      <3>1. k \in 1..Len(vq) /\ vq'[k] = vq[k] /\ \A l \in 1..k : vq'[l] = vq[l]
        BY <1>2, VqHas
      <3>2. CASE k = Len(vq)
        <4>1. LastOf = {vq[k].n} /\ vq'[k + 1] = f
          BY <1>2, <3>1, <3>2, VqHas DEF LastOf
        <4> QED
          BY <2>1, <3>1, <3>2, <4>1
      <3>3. CASE k # Len(vq)
        <4>a. Len(vq) \in Nat
          BY VqHas
        <4>b. k \in 1..Len(vq) /\ k # Len(vq)
          BY <3>1, <3>3
        <4>0. k \in 1..(Len(vq) - 1) /\ k + 1 \in 1..Len(vq)
          BY <4>a, <4>b
        <4>1. k \in 1..(Len(vq) - 1) /\ vq'[k + 1] = vq[k + 1]
          BY <1>2, <4>0
        <4> QED
          BY <1>4, <1>8, <3>1, <4>1 DEF QueueLinked
      <3> QED
        BY <3>2, <3>3
    <2>4. TailLinked'
      <3>1. vq' # <<>> /\ LastOf' = {f.n}
        BY <1>2, VqHas DEF LastOf
      <3> QED
        BY <1>1, <3>1 DEF TailLinked
    <2> QED
      BY <2>2, <2>3, <2>4
  <1> QED
    BY <1>5, <1>6, <1>7, <1>8 DEF ChainInv

\* The senders and their frames stay as they are.
LEMMA ChainStill ==
  ASSUME MsTypes, MsTypes', OwnInv, ChainInv, ~half, FedKept, LossKept,
         UNCHANGED <<snd, vq>>, waitIdr => waitIdr', excuses \subseteq excuses',
         terminated => terminated'
  PROVE  ChainInv'
  <1>1. PlacesKept
    BY DEF PlacesKept
  <1>2. WaitKept
    BY DEF WaitKept
  <1> QED
    BY <1>1, <1>2, ChainMoves

\* The chain over the steps of a start, a stop and a removal.
LEMMA ChainControl ==
  ASSUME MsTypes, MsTypes', OwnInv, FlagInv, StageInv, ChainInv, ~half', MsControl
  PROVE  ChainInv'
  <1> USE DEF global, queueOf, capture, history, bounds, peers
  <1>h. ~half
    BY DEF MsControl, StartArms, StartVideo, StartQueue, StartThread, StartAudio, StopDisables,
           StopJoinsVideo, StopJoinsAudio, StopReleases, SessionRemoved
  <1>1. CASE StartArms
    <2>1. /\ ctl = "start" /\ UNCHANGED <<vq, snd, sess, seen>>
      BY <1>1 DEF StartArms
    <2>2. ~started /\ Fed = {}
      BY <2>1, NoneFed DEF FlagInv, Starting
    <2>3. Bare
      BY <1>h, <2>1, <2>2 DEF StageInv
    <2>4. \A i \in Senders : snd[i] = Off
      BY <1>h, <2>3, AllOff DEF Bare
    <2>5. Fed' = Fed
      BY <2>1 DEF Fed
    <2> QED
      BY <2>1, <2>2, <2>3, <2>4, <2>5, ChainEmpty DEF Bare
  <1>2. CASE StopReleases
    <2>1. /\ ctl = "release" /\ vq' = <<>> /\ UNCHANGED <<snd, sess, seen>>
      BY <1>2 DEF StopReleases
    <2>2. Fed = {} /\ Fed' = Fed
      BY <2>1, NoneFed DEF Stopping, Fed
    <2>3. vTid = 0
      BY <1>h, <2>1 DEF StageInv
    <2>4. \A i \in Senders : snd[i] = Off
      BY <1>h, <2>3, AllOff
    <2> QED
      BY <2>1, <2>2, <2>4, ChainEmpty
  <1>3. CASE StartThread
    <2>1. UNCHANGED <<vq, sess, seen, cap, waitIdr, excuses, terminated>>
      BY <1>3 DEF StartThread
    <2>2. PICK i \in Senders : /\ snd[i].pc = "off"
                               /\ snd' = [snd EXCEPT ![i] = [pc |-> "top", item |-> NoItem]]
      BY <1>3 DEF StartThread
    <2>3. snd[i].item = NoItem
      BY <2>2 DEF MsTypes, Idling
    <2>4. PlacesKept
      BY <2>2, <2>3 DEF PlacesKept, MsTypes
    <2>5. FedKept /\ LossKept /\ WaitKept
      BY <2>1 DEF FedKept, LossKept, WaitKept, Fed, Upcoming
    <2> QED
      BY <1>h, <2>1, <2>4, <2>5, ChainMoves
  <1>4. CASE StartVideo \/ StartQueue \/ StartAudio \/ StopDisables \/ StopJoinsVideo \/ StopJoinsAudio
    <2>1. UNCHANGED <<snd, vq, sess, seen, cap, waitIdr, excuses>> /\ (terminated => terminated')
      <3>1. CASE StartVideo
        BY <3>1 DEF StartVideo
      <3>4. CASE StartQueue
        BY <3>4 DEF StartQueue
      <3>5. CASE StartAudio
        BY <3>5 DEF StartAudio
      <3>2. CASE StopDisables
        BY <3>2 DEF StopDisables
      <3>3. CASE StopJoinsVideo \/ StopJoinsAudio
        BY <3>3 DEF StopJoinsVideo, StopJoinsAudio
      <3> QED
        BY <1>4, <3>1, <3>2, <3>3, <3>4, <3>5
    <2>2. FedKept /\ LossKept
      BY <2>1 DEF FedKept, LossKept, Fed, Upcoming
    <2> QED
      BY <1>h, <2>1, <2>2, ChainStill
  <1>5. CASE \E s \in Sessions : SessionRemoved(s)
    <2>1. UNCHANGED <<snd, vq, cap, waitIdr, excuses, terminated>>
      BY <1>5 DEF SessionRemoved
    <2>2. FedKept
      BY <1>5, FedLess
    <2>3. LossKept
      BY <2>1 DEF LossKept, Upcoming
    <2> QED
      BY <1>h, <2>1, <2>2, <2>3, ChainStill
  <1> QED
    BY <1>1, <1>2, <1>3, <1>4, <1>5 DEF MsControl

\* The chain over the steps of the encoder's task.
LEMMA ChainEncoder ==
  ASSUME MsTypes, MsTypes', OwnInv, StageInv, ChainInv, ~half', MsEncoder
  PROVE  ChainInv'
  <1> USE DEF global, queueOf, capture, history, bounds, peers
  <1>0. ~half /\ UNCHANGED <<snd, sess, seen, terminated>>
    <2>1. ASSUME NEW key \in BOOLEAN, Dispatch(key)
          PROVE  ~half /\ UNCHANGED <<snd, sess, seen, terminated>>
      BY <2>1 DEF Dispatch
    <2>2. CASE FrameCopied
      BY <2>2 DEF FrameCopied
    <2>3. CASE FrameQueued
      BY <2>3 DEF FrameQueued
    <2> QED
      BY <2>1, <2>2, <2>3 DEF MsEncoder
  <1>f. FedKept
    BY <1>0 DEF FedKept, Fed
  <1>u. /\ Upcoming \in Nat /\ cap.n \in Nat
        /\ cap.pc # "idle" => Upcoming = cap.n
        /\ cap.pc = "idle" => Upcoming = cap.n + 1
    BY CapHas
  <1>1. ASSUME NEW key \in BOOLEAN, Dispatch(key)
        PROVE  ChainInv'
    <2>1. /\ UNCHANGED <<vq, waitIdr, excuses>> /\ cap.pc = "idle" /\ cap'.n = cap.n + 1
          /\ cap'.pc = IF sink.on /\ (sink.gate => key) THEN "frame" ELSE "idle"
      BY <1>1 DEF Dispatch
    <2>2. CASE sink.on /\ (sink.gate => key)
      <3>1. Upcoming' = Upcoming
        BY <2>1, <2>2 DEF Upcoming
      <3> QED
        BY <1>0, <1>f, <2>1, <3>1, ChainStill DEF LossKept
    <2>3. CASE ~(sink.on /\ (sink.gate => key))
      <3>1. Upcoming' > Upcoming
        BY <1>u, <2>1, <2>3 DEF Upcoming
      <3>2. CASE sink.on
        <4>1. vq = <<>> /\ Holding = {} /\ Fed = {}
          BY <1>0, <2>3, <3>2 DEF StageInv
        <4>2. LastOf = {}
          BY <4>1 DEF LastOf, Before
        <4> QED
          BY <1>0, <1>f, <2>1, <3>1, <4>2, ChainStill DEF LossKept
      <3>3. CASE ~sink.on
        <4>1. CASE terminated
          BY <1>0, <1>f, <2>1, <3>1, <4>1, ChainStill DEF LossKept
        <4>2. CASE ~terminated
          <5>1. Bare
            BY <1>0, <3>3, <4>2 DEF StageInv
          <5>2. Holding = {}
            BY <1>0, <5>1, AllOff DEF Bare
          <5>3. LastOf = {}
            BY <5>1, <5>2 DEF LastOf, Before, Bare
          <5> QED
            BY <1>0, <1>f, <2>1, <3>1, <5>3, ChainStill DEF LossKept
        <4> QED
          BY <4>1, <4>2
      <3> QED
        BY <3>2, <3>3
    <2> QED
      BY <2>2, <2>3
  <1>2. CASE FrameCopied
    <2>1. UNCHANGED <<vq, waitIdr>> /\ cap.pc = "frame" /\ excuses \subseteq excuses'
      BY <1>2 DEF FrameCopied, NoteLoss
    <2>2. \/ ~qUp \/ terminated
          \/ cap' = [cap EXCEPT !.pc = "idle"] /\ cap.n \in excuses'
          \/ cap' = [cap EXCEPT !.pc = "add"]
      BY <1>2 DEF FrameCopied, NoteLoss
    <2>3. qUp
      BY <1>0, <2>1 DEF StageInv, Bare
    <2>4. cap' = [cap EXCEPT !.pc = "idle"] \/ cap' = [cap EXCEPT !.pc = "add"]
      BY <1>2 DEF FrameCopied
    <2>5. cap'.n = cap.n /\ cap'.pc \in {"idle", "add"}
          /\ (cap' = [cap EXCEPT !.pc = "add"] => cap'.pc = "add")
      BY <2>4, CapHas
    <2>6. CASE cap'.pc = "add"
      <3>1. Upcoming' = Upcoming
        BY <2>1, <2>5, <2>6 DEF Upcoming
      <3> QED
        BY <1>0, <1>f, <2>1, <3>1, ChainStill DEF LossKept
    <2>7. CASE cap'.pc = "idle"
      <3>1. Upcoming' > Upcoming /\ Upcoming = cap.n
        BY <1>u, <2>1, <2>5, <2>7 DEF Upcoming
      <3>2. terminated \/ cap.n \in excuses'
        BY <2>2, <2>3, <2>5, <2>7
      <3> QED
        BY <1>0, <1>f, <2>1, <3>1, <3>2, ChainStill DEF LossKept
    <2> QED
      BY <2>5, <2>6, <2>7
  <1>3. CASE FrameQueued
    <2>1. cap.pc = "add" /\ cap' = [cap EXCEPT !.pc = "idle"]
      BY <1>3 DEF FrameQueued
    <2>2. cap'.n = cap.n /\ cap'.pc = "idle"
      BY <2>1, CapHas
    <2>3. CASE Len(vq) < QDepth
      <3>1. /\ vq' = Append(vq, [n |-> cap.n, key |-> cap.key])
            /\ UNCHANGED <<waitIdr, excuses>>
        BY <1>3, <2>3 DEF FrameQueued
      <3> QED
        BY <1>0, <2>1, <2>2, <3>1, ChainQueues
    <2>4. CASE ~(Len(vq) < QDepth)
      <3>1. vq' = vq /\ waitIdr' /\ (KeyAhead => cap.n \in excuses') /\ excuses \subseteq excuses'
        BY <1>3, <2>4 DEF FrameQueued, NoteLoss
      <3>2. Upcoming' > Upcoming /\ Upcoming = cap.n
        BY <1>u, <2>1, <2>2 DEF Upcoming
      <3> QED
        BY <1>0, <1>f, <3>1, <3>2, ChainStill DEF LossKept
    <2> QED
      BY <2>3, <2>4
  <1> QED
    BY <1>1, <1>2, <1>3 DEF MsEncoder

\* The chain over the steps of a sender.
LEMMA ChainSender ==
  ASSUME MsTypes, MsTypes', OwnInv, FlagInv, StageInv, ChainInv, ~half',
         NEW i \in Senders, MsSender(i)
  PROVE  ChainInv'
  <1> USE DEF global, queueOf, capture, history, bounds, peers
  <1>0. ~half /\ UNCHANGED <<sess, terminated, cap>>
    BY SenderKinds
  <1>u. Upcoming' = Upcoming
    BY <1>0 DEF Upcoming
  <1>m. \A pc \in SndPcs : Go(i, pc) =>
          /\ snd'[i].pc = pc /\ snd'[i].item = snd[i].item
          /\ \A j \in Senders : j # i => snd'[j] = snd[j]
    <2> SUFFICES ASSUME NEW pc \in SndPcs, Go(i, pc)
                 PROVE  /\ snd'[i].pc = pc /\ snd'[i].item = snd[i].item
                        /\ \A j \in Senders : j # i => snd'[j] = snd[j]
      OBVIOUS
    <2>1. /\ snd'[i] = [pc |-> pc, item |-> snd[i].item]
          /\ \A j \in Senders : j # i => snd'[j] = snd[j]
      BY SndMoves
    <2> QED
      BY <2>1
  <1>o. snd[i].pc # "off" => \A j \in Senders : j # i => snd[j].pc = "off"
    BY <1>0, OneSender, MsTiny
  <1>f. ASSUME UNCHANGED seen
        PROVE  Fed' = Fed /\ FedKept /\ \A s \in Fed' : s \in Fed /\ seen'[s] = seen[s]
    BY <1>0, <1>f DEF FedKept, Fed
  \* The sender goes on with its frame.
  <1>g. ASSUME UNCHANGED <<vq, excuses, seen>>, WaitKept,
               NEW pc \in SndPcs, Go(i, pc),
               pc = "clear" => snd[i].pc = "gate" /\ snd[i].item.key,
               pc # "gate",
               pc \in {"check", "lock", "write"} =>
                 \/ snd[i].pc \in {"check", "lock", "write", "clear"}
                 \/ snd[i].pc = "gate" /\ ~waitIdr
        PROVE  ChainInv'
    <2>1. PlacesKept
      BY <1>g, <1>m DEF PlacesKept
    <2> QED
      BY <1>0, <1>f, <1>g, <1>u, <2>1, ChainMoves DEF LossKept
  <1>1. CASE SenderTakes(i)
    <2>1. UNCHANGED <<seen, waitIdr, excuses>> /\ snd[i].pc = "top"
      BY <1>1 DEF SenderTakes, At
    <2>2. CASE terminated /\ Go(i, "off") /\ UNCHANGED vq
      <3>1. WaitKept
        BY <2>1 DEF WaitKept
      <3> QED
        BY <1>g, <2>1, <2>2, <3>1 DEF SndPcs
    <2>3. CASE ~(terminated /\ Go(i, "off") /\ UNCHANGED vq)
      <3>1. ~terminated /\ SndTakes(i)
        BY <1>1, <2>1, <2>3 DEF SenderTakes, SndTakes
      <3> QED
        BY <1>0, <2>1, <3>1, ChainTakes
    <2> QED
      BY <2>2, <2>3
  <1>2. CASE SenderGate(i)
    <2>1. UNCHANGED <<seen, waitIdr, excuses, vq>> /\ snd[i].pc = "gate"
      BY <1>2 DEF SenderGate, At
    <2>2. WaitKept
      BY <2>1 DEF WaitKept
    <2>3. CASE ~waitIdr
      <3>1. Go(i, "check")
        BY <1>2, <2>3 DEF SenderGate
      <3> QED
        BY <1>g, <2>1, <2>2, <2>3, <3>1 DEF SndPcs
    <2>4. CASE waitIdr /\ snd[i].item.key
      <3>1. Go(i, "clear")
        BY <1>2, <2>4 DEF SenderGate
      <3> QED
        BY <1>g, <2>1, <2>2, <2>4, <3>1 DEF SndPcs
    <2>5. CASE waitIdr /\ ~snd[i].item.key
      <3>1. SndFrees(i)
        BY <1>2, <2>5 DEF SenderGate, SndFrees, Idling
      <3>2. i \in Holding
        BY <2>1, SndHas DEF Idling
      <3> QED
        BY <1>0, <1>f, <2>1, <2>5, <3>1, <3>2, ChainDrops
    <2> QED
      BY <2>3, <2>4, <2>5
  <1>3. CASE SenderClears(i)
    <2>1. UNCHANGED <<seen, excuses, vq>> /\ snd[i].pc = "clear" /\ Go(i, "check")
      BY <1>3 DEF SenderClears, At
    <2>2. HandKey
      BY <1>0, <2>1 DEF ChainInv, HandKey
    <2>3. \A j \in Senders : snd'[j].pc # "gate"
      BY <1>m, <1>o, <2>1 DEF SndPcs
    <2> QED
      BY <1>g, <2>1, <2>2, <2>3 DEF SndPcs, WaitKept
  <1>4. CASE SenderChecks(i)
    <2>1. UNCHANGED <<seen, waitIdr, excuses, vq>> /\ snd[i].pc = "check"
      BY <1>4 DEF SenderChecks, At
    <2>2. CASE terminated
      <3>1. SndFrees(i)
        BY <1>4, <2>2 DEF SenderChecks, SndFrees, Idling
      <3>2. i \in Holding
        BY <2>1, SndHas DEF Idling
      <3> QED
        BY <1>0, <1>f, <2>1, <2>2, <3>1, <3>2, ChainDrops
    <2>3. CASE ~terminated
      <3>1. Go(i, "lock")
        BY <1>4, <2>3 DEF SenderChecks
      <3>2. WaitKept
        BY <2>1 DEF WaitKept
      <3> QED
        BY <1>g, <2>1, <3>1, <3>2 DEF SndPcs
    <2> QED
      BY <2>2, <2>3
  <1>5. CASE SenderLocks(i)
    <2>1. UNCHANGED <<seen, vq>> /\ snd[i].pc = "lock"
      BY <1>5 DEF SenderLocks, At
    <2>2. i \in Holding
      BY <2>1, SndHas DEF Idling
    <2>3. CASE Go(i, "write") /\ UNCHANGED <<waitIdr, excuses>>
      <3>1. WaitKept
        BY <2>3 DEF WaitKept
      <3> QED
        BY <1>g, <2>1, <2>3, <3>1 DEF SndPcs
    <2>4. CASE ~(Go(i, "write") /\ UNCHANGED <<waitIdr, excuses>>)
      <3>1. /\ Free(i, "top") /\ (waitIdr => waitIdr') /\ excuses \subseteq excuses'
            /\ Count = 0 \/ waitIdr' \/ snd[i].item.n \in excuses'
        BY <1>5, <2>4 DEF SenderLocks, NoteLoss
      <3>2. SndFrees(i)
        BY <3>1 DEF SndFrees, Idling
      <3>3. Count = 0 => Fed' = {}
        BY <1>f, <2>1, Counted DEF Fed, Known
      <3>4. \A k \in excuses : snd[i].item.n < k => k \in excuses'
        BY <3>1
      <3>5. \A s \in Fed' : /\ s \in Fed /\ seen'[s] = seen[s]
                            /\ waitIdr' \/ snd[i].item.n \in excuses'
        BY <1>f, <2>1, <3>1, <3>3
      <3> QED
        BY <1>0, <2>1, <2>2, <3>1, <3>2, <3>4, <3>5, ChainDrops
    <2> QED
      BY <2>3, <2>4
  <1>6. CASE SenderWrites(i)
    <2> DEFINE f   == snd[i].item
               fed == {s \in Sessions : sess[s] = "connected"}
    <2>1. /\ UNCHANGED <<vq, waitIdr>> /\ snd[i].pc = "write" /\ Free(i, "top")
          /\ seen' = [s \in Sessions |-> IF s \in fed THEN f.n ELSE seen[s]]
          /\ excuses' = {k \in excuses : k > f.n \/ fed = {}}
      BY <1>6 DEF SenderWrites, At
    <2>2. i \in Holding
      BY <2>1, SndHas DEF Idling
    <2>3. SndFrees(i)
      BY <2>1 DEF SndFrees, Idling
    <2>4. \A s \in Fed' : seen'[s] = f.n
      <3> SUFFICES ASSUME NEW s \in Fed'
                   PROVE  seen'[s] = f.n
        OBVIOUS
      <3>1. s \in Sessions /\ sess[s] = "connected"
        BY <1>0 DEF Fed
      <3> QED
        BY <2>1, <3>1
    <2>5. \A k \in excuses : f.n < k => k \in excuses'
      <3>1. f.n \in Nat
        BY SndHas
      <3> QED
        BY <2>1, <3>1 DEF MsTypes
    <2> QED
      BY <1>0, <2>1, <2>2, <2>3, <2>4, <2>5, ChainDrops
  <1> QED
    BY <1>1, <1>2, <1>3, <1>4, <1>5, <1>6 DEF MsSender

\* Every step keeps ChainInv.
LEMMA ChainStep ==
  ASSUME MsTypes, MsTypes', OwnInv, FlagInv, StageInv, ChainInv, MsNext
  PROVE  ChainInv'
  <1> USE DEF global, queueOf, capture, history, bounds, peers
  <1> SUFFICES ASSUME ~half'
               PROVE  ChainInv'
    BY DEF ChainInv
  <1>1. ASSUME NEW s \in Sessions,
               SessionAdded(s) \/ SessionConnects(s) \/ SessionEnds(s) \/ SessionLeaves(s)
        PROVE  ChainInv'
    <2>1. ~half /\ UNCHANGED <<snd, vq, cap, waitIdr, excuses, terminated>>
      BY <1>1 DEF SessionAdded, SessionConnects, SessionEnds, SessionLeaves
    <2>2. FedKept
      BY <1>1, FedLess
    <2>3. LossKept
      BY <2>1 DEF LossKept, Upcoming
    <2> QED
      BY <2>1, <2>2, <2>3, ChainStill
  <1>2. CASE MsAudio
    <2>1. ~half /\ UNCHANGED <<snd, vq, sess, seen, cap, waitIdr, excuses, terminated>>
      BY <1>2 DEF MsAudio, AudioReads, AudioWrites
    <2>2. FedKept /\ LossKept
      BY <2>1 DEF FedKept, LossKept, Fed, Upcoming
    <2> QED
      BY <2>1, <2>2, ChainStill
  <1> QED
    BY <1>1, <1>2, ChainControl, ChainEncoder, ChainSender DEF MsNext, MsSession

----------------------------------------------------------------------------
(* The theorems of the transmission.                                       *)

\* The invariant holds at the start, with nothing set up.
LEMMA MsStarts ==
  ASSUME MsInit
  PROVE  MsInv
  <1>1. /\ \A i \in Senders : snd[i].pc = "off" /\ snd[i].item = NoItem /\ snd[i] = Off
        /\ cap = [n |-> 0, key |-> FALSE, pc |-> "idle"] /\ vq = <<>> /\ Len(vq) = 0
        /\ cap.pc = "idle" /\ cap.n = 0
    BY MsTiny DEF MsInit
  <1>2. Holding = {} /\ Known = {} /\ Fed = {}
    BY <1>1 DEF Holding, Known, Fed, MsInit
  <1>3. MsTypes
    <2>1. Off \in [pc : SndPcs, item : Items \cup {NoItem}]
      BY DEF Off, SndPcs
    <2>2. snd \in [Senders -> [pc : SndPcs, item : Items \cup {NoItem}]]
      BY <2>1 DEF MsInit
    <2>3. vq \in Seq(Items)
      BY <1>1
    <2>4. /\ sess \in [Sessions -> {"none", "listed", "connected", "ended"}]
          /\ seen \in [Sessions -> Nat] /\ ctl \in MsPlaces
          /\ clientOn \in BOOLEAN /\ started \in BOOLEAN /\ terminated \in BOOLEAN
      BY DEF MsInit, MsPlaces
    <2>5. /\ qUp \in BOOLEAN /\ vHandle \in BOOLEAN /\ vTid \in Senders \cup {0}
          /\ sink \in [reg : BOOLEAN, on : BOOLEAN, gate : BOOLEAN]
          /\ half \in BOOLEAN /\ excuses \subseteq Nat
      BY DEF MsInit
    <2>6. /\ cap \in [n : Nat, key : BOOLEAN, pc : {"idle", "frame", "add"}]
          /\ cap.pc # "idle" => cap.n # 0
      BY <1>1
    <2>7. \A i \in Senders : snd[i].pc \in Idling <=> snd[i].item = NoItem
      BY <1>1 DEF Idling
    <2> QED
      BY <2>2, <2>3, <2>4, <2>5, <2>6, <2>7 DEF MsTypes
  <1>4. OwnInv
    <2>1. \A i \in Senders : snd[i].item.n < Upcoming
      BY <1>1 DEF NoItem, Upcoming
    <2> QED
      BY <1>1, <1>2, <2>1, FS_EmptySet DEF OwnInv, NumbersInv, MsInit
  <1>5. FlagInv
    <2>1. Count = 0
      BY <1>2, FS_EmptySet DEF Count, Known
    <2> QED
      BY <1>2, FS_EmptySet DEF FlagInv, MsInit, Starting, Stopping
  <1>6. StageInv
    BY <1>1, <1>2 DEF StageInv, Bare, MsInit
  <1>7. ChainInv
    <2>1. Before = {} /\ LastOf = {}
      BY <1>1, <1>2 DEF Before, LastOf
    <2> QED
      BY <1>1, <1>2, <2>1 DEF ChainInv, SeenBefore, HandLinked, HeadLinked, QueueLinked, TailLinked
  <1> QED
    BY <1>3, <1>4, <1>5, <1>6, <1>7 DEF MsInv

\* No step breaks the invariant.
LEMMA MsStep ==
  ASSUME MsInv, [MsNext]_msVars
  PROVE  MsInv'
  <1>1. CASE MsNext
    <2>1. MsTypes /\ OwnInv /\ FlagInv /\ StageInv /\ ChainInv
      BY DEF MsInv
    <2>2. MsTypes'
      BY <1>1, <2>1, MsTypesStep
    <2>3. OwnInv' /\ FlagInv' /\ StageInv' /\ ChainInv'
      BY <1>1, <2>1, <2>2, OwnStep, FlagStep, StageStep, ChainStep
    <2> QED
      BY <2>2, <2>3 DEF MsInv
  <1>2. CASE UNCHANGED msVars
    <2> USE <1>2 DEF msVars
    <2>1. MsTypes'
      BY DEF MsInv, MsTypes
    <2>2. Upcoming' = Upcoming /\ Holding' = Holding /\ Fed' = Fed /\ Known' = Known
      BY DEF Upcoming, Holding, Fed, Known
    <2>3. OwnInv'
      BY <2>2 DEF MsInv, OwnInv, NumbersInv, HasItem
    <2>4. FlagInv'
      <3>1. Count' = Count
        BY DEF Count
      <3> QED
        BY <2>2, <3>1 DEF MsInv, FlagInv
    <2>5. StageInv'
      BY <2>2 DEF MsInv, StageInv, Bare
    <2>6. ChainInv'
      <3>1. Before' = Before /\ HandKey' = HandKey /\ KeyAhead' = KeyAhead
        BY <2>2 DEF Before, HandKey, KeyAhead
      <3>2. LastOf' = LastOf
        BY <3>1 DEF LastOf
      <3>3. SeenBefore' = SeenBefore /\ HandLinked' = HandLinked
        BY <2>2 DEF SeenBefore, HandLinked, Linked
      <3>4. HeadLinked' = HeadLinked /\ QueueLinked' = QueueLinked /\ TailLinked' = TailLinked
        BY <2>2, <3>1, <3>2 DEF HeadLinked, QueueLinked, TailLinked, Linked
      <3> QED
        BY <3>3, <3>4 DEF MsInv, ChainInv
    <2> QED
      BY <2>1, <2>3, <2>4, <2>5, <2>6 DEF MsInv
  <1> QED
    BY <1>1, <1>2

\* Without its queue nothing of the video is at work, and a transmission that is not
\* started has nothing set up.
LEMMA QuietStops ==
  ASSUME MsTypes, StageInv
  PROVE  QueueOutlivesUsers /\ StoppedIsQuiet
  <1>1. QueueOutlivesUsers
    <2> SUFFICES ASSUME ~half, ~qUp
                 PROVE  cap.pc # "add" /\ \A i \in Senders : snd[i].pc \in {"off", "top"}
      BY DEF QueueOutlivesUsers
    <2>1. Bare
      BY DEF StageInv
    <2> QED
      BY <2>1, AllOff, MsTiny DEF Bare
  <1>2. StoppedIsQuiet
    <2> SUFFICES ASSUME ~started, ctl \in {"idle", "remove"}, ~half
                 PROVE  /\ \A i \in Senders : snd[i] = Off
                        /\ aud = Off /\ caps = 0 /\ aHandle = "none" /\ ~sink.reg /\ vTid = 0
      BY DEF StoppedIsQuiet
    <2>1. Bare /\ ~vHandle /\ aud = Off /\ aHandle = "none"
      BY DEF StageInv
    <2>2. caps = 0
      BY <2>1 DEF StageInv
    <2> QED
      BY <2>1, <2>2, AllOff DEF Bare
  <1> QED
    BY <1>1, <1>2

\* The one sender writes a frame that needs its predecessor past a gap only where the
\* chain has an excuse; a session that is removed is told of no frame.
LEMMA GapsStep ==
  ASSUME MsInv, MsNext, ~half, NEW s \in Sessions, NEW i \in Senders,
         WritesDependent(s, i), seen[s] # 0, seen[s] # snd[i].item.n - 1
  PROVE  \E k \in excuses : seen[s] < k /\ k < snd[i].item.n
  <1> USE DEF global, queueOf, capture, history, bounds, peers
  <1>1. /\ snd[i].pc = "write" /\ ~snd[i].item.key
        /\ seen'[s] = snd[i].item.n /\ seen'[s] # seen[s]
    BY DEF WritesDependent, At
  <1>2. MsTypes /\ StageInv /\ SeenBefore /\ HandLinked /\ seen[s] \in Nat
    BY DEF MsInv, ChainInv, MsTypes
  <1>3. i \in Holding /\ snd[i].item.n \in Nat \ {0}
    BY <1>1, <1>2, SndHas DEF Idling
  <1>4. ASSUME NEW j \in Senders, SenderWrites(j)
        PROVE  sess[s] = "connected"
    <2>1. seen' = [r \in Sessions |-> IF r \in {q \in Sessions : sess[q] = "connected"}
                                        THEN snd[j].item.n ELSE seen[r]]
      BY <1>4 DEF SenderWrites
    <2> QED
      BY <1>1, <2>1
  <1>5. \E j \in Senders : SenderWrites(j)
    <2>1. ASSUME NEW r \in Sessions, SessionRemoved(r)
          PROVE  FALSE
      <3>1. seen' = [seen EXCEPT ![r] = 0]
        BY <2>1 DEF SessionRemoved
      <3>2. seen'[s] = 0 \/ seen'[s] = seen[s]
        BY <1>2, <3>1 DEF MsTypes
      <3> QED
        BY <1>1, <1>3, <3>2
    <2>2. ~UNCHANGED seen
      BY <1>1
    <2>3. ~MsSession
      BY <2>2 DEF MsSession, SessionAdded, SessionConnects, SessionEnds, SessionLeaves
    <2>4. ~MsAudio
      BY <2>2 DEF MsAudio, AudioReads, AudioWrites
    <2>5. ~MsEncoder
      BY <2>2 DEF MsEncoder, Dispatch, FrameCopied, FrameQueued
    <2>6. ~StartArms /\ ~StartVideo /\ ~StartQueue /\ ~StartThread /\ ~StartAudio
      BY <2>2 DEF StartArms, StartVideo, StartQueue, StartThread, StartAudio
    <2>7. ~StopDisables /\ ~StopJoinsVideo /\ ~StopJoinsAudio /\ ~StopReleases
      BY <2>2 DEF StopDisables, StopJoinsVideo, StopJoinsAudio, StopReleases
    <2>8. PICK j \in Senders : MsSender(j)
      BY <2>1, <2>3, <2>4, <2>5, <2>6, <2>7 DEF MsNext, MsControl
    <2>9. SenderWrites(j)
      BY <2>2, <2>8 DEF MsSender, SenderTakes, SenderGate, SenderClears, SenderChecks, SenderLocks
    <2> QED
      BY <2>9
  <1>6. s \in Fed
    BY <1>4, <1>5 DEF Fed
  <1>7. Linked(excuses, seen[s], snd[i].item)
    BY <1>1, <1>2, <1>6 DEF HandLinked
  <1>8. snd[i].item.n # seen[s] + 1
    BY <1>2, <1>3
  <1> QED
    BY <1>1, <1>7, <1>8 DEF Linked

\* The transmission keeps its invariant: who owns which frame, the flags of client and
\* transmission, what is set up at each place of a start and a stop, and the chain of
\* frames from what was written to what comes next.
THEOREM MediaInductive == MsInit /\ [][MsNext]_msVars => []MsInv
  <1>1. MsInit => MsInv
    BY MsStarts
  <1>2. MsInv /\ [MsNext]_msVars => MsInv'
    BY MsStep
  <1> QED
    BY <1>1, <1>2, PTL

\* Every copied frame has one owner, the queue outlives who uses it, a stopped transmission
\* is quiet, the two flags agree, and a frame that needs its predecessor is written after a
\* gap only where a loss is excused.
THEOREM TransmissionCorrect == MsInit /\ [][MsNext]_msVars => TransmissionSound
  <1>1. MsInv => ItemsOwned /\ QueueOutlivesUsers /\ StoppedIsQuiet /\ FlagsAgree
    BY OwnedCount, QuietStops DEF MsInv, FlagInv, FlagsAgree
  <1>2. MsInv /\ [MsNext]_msVars =>
          [half \/ \A s \in Sessions, i \in Senders :
             WritesDependent(s, i) /\ seen[s] # 0 /\ seen[s] # snd[i].item.n - 1 =>
               \E k \in excuses : seen[s] < k /\ k < snd[i].item.n]_msVars
    BY GapsStep
  <1> QED
    BY <1>1, <1>2, MediaInductive, PTL DEF TransmissionSound, GapsExcused

----------------------------------------------------------------------------
(* The capture: the inductive invariant.                                   *)

LifePcs == {"idle", "redrain", "camera", "rest", "give", "started", "park", "drain", "again", "free"}
SnapPcs == {"idle", "set", "direct", "arm", "wait", "grab"}
Opened  == {h \in Handles : hnd[h] # "none"}
Running == {h \in Handles : hnd[h] = "run"}

Lifes == [pc : LifePcs, h : Handles \cup {0}]
Encs  == [up : BOOLEAN, running : BOOLEAN, sem : {0, 1}, parked : BOOLEAN]
Cams  == [open : BOOLEAN, on : BOOLEAN, bufs : BOOLEAN]
Buses == [q : {0, 1}, reads : BOOLEAN]

CsTypes ==
  /\ hnd \in [Handles -> {"none", "init", "run", "closing"}]
  /\ refs \in [init : Nat, start : Nat]
  /\ life \in Lifes
  /\ enc \in Encs
  /\ vpump \in {"none", "top", "take", "woken", "get", "hold"}
  /\ cam \in Cams
  /\ bus \in Buses
  /\ drained \in BOOLEAN /\ pool \in BOOLEAN /\ snapOff \in BOOLEAN /\ missed \in BOOLEAN
  /\ snap \in [Snappers -> SnapPcs]
  /\ target \in Snappers \cup {0}
  /\ ssink \in {"none", "armed", "copies"}

\* The counts are the handles, the encoder runs for them, and where a call may be.
CsCounted ==
  /\ refs.init = Cardinality(Opened) /\ refs.start = Cardinality(Running)
  /\ enc.running <=> (refs.start > 0 \/ life.pc \in {"give", "started"})
  /\ life.pc # "idle" => life.h \in Handles
  /\ life.pc \in {"redrain", "camera", "rest", "again", "free"} => refs.init = 0
  /\ life.pc \in {"give", "started"} => refs.start = 0 /\ hnd[life.h] = "init"
  /\ life.pc \in {"park", "drain"} => refs.start = 0

\* The encoder's first initialisation, and what a drain that gave up leads to.
CsUpped ==
  /\ ~enc.up => drained /\ refs.init = 0
  /\ life.pc \in {"camera", "free"} => drained
  /\ life.pc \in {"redrain", "park", "drain", "again"} => enc.up

\* As long as every stop met a parked pump, nothing moves while the capture is stopped.
CsQuiet ==
  /\ ~missed /\ ~enc.running /\ life.pc # "park" =>
       vpump \in {"none", "top", "take"} /\ enc.sem = 0
  /\ ~missed /\ ~enc.running /\ life.pc \notin {"park", "drain"} =>
       bus.q = 0 /\ (drained => ~bus.reads)

CsStreaming == (refs.init > 0 \/ life.pc = "rest") /\ ~snapOff => cam.on

CsInv == /\ CsTypes /\ CsCounted /\ CsUpped /\ CsQuiet /\ CsStreaming
         /\ TokenKept /\ BuffersKept /\ PoolKept

\* One task takes snapshots.
OneSnapper == \A p, q \in Snappers : p = q
Shooting ==
  /\ ssink # "none" => target \in Snappers /\ snap[target] = "wait"
  /\ \A p \in Snappers : snap[p] = "arm" => target = p

\* The handles that are open or started are finitely many.
LEMMA HandlesFinite ==
  /\ IsFiniteSet(Opened) /\ IsFiniteSet(Running) /\ Running \subseteq Opened
  /\ Cardinality(Opened) \in Nat /\ Cardinality(Running) \in Nat
  /\ Cardinality(Running) <= Cardinality(Opened)
  /\ Cardinality(Opened) = 0 <=> Opened = {}
  /\ Cardinality(Running) = 0 <=> Running = {}
  <1>1. IsFiniteSet(Handles) /\ Opened \subseteq Handles /\ Running \subseteq Opened
    BY CsAssumption DEF Opened, Running
  <1>2. IsFiniteSet(Opened) /\ IsFiniteSet(Running)
    BY <1>1, FS_Subset
  <1> QED
    BY <1>1, <1>2, FS_Subset, FS_CardinalityType, FS_EmptySet

\* A finite set with one element more.
LEMMA ElementMore ==
  ASSUME NEW S, IsFiniteSet(S), NEW x
  PROVE  Cardinality(S \cup {x}) = Cardinality(S) + (IF x \in S THEN 0 ELSE 1) /\ Cardinality(S) \in Nat
  BY FS_CardinalityType, FS_AddElement

\* A finite set with one element less.
LEMMA ElementLess ==
  ASSUME NEW S, IsFiniteSet(S), NEW x
  PROVE  Cardinality(S \ {x}) = Cardinality(S) - (IF x \in S THEN 1 ELSE 0) /\ Cardinality(S) \in Nat
  BY FS_CardinalityType, FS_RemoveElement

\* A handle that opens, starts, stops or closes is counted where it belongs.
LEMMA HandleMoves ==
  ASSUME CsTypes, NEW h \in Handles, NEW v \in {"none", "init", "run", "closing"},
         hnd' = [hnd EXCEPT ![h] = v]
  PROVE  /\ Cardinality(Opened') = Cardinality(Opened) + (IF v # "none" THEN 1 ELSE 0)
                                                       - (IF hnd[h] # "none" THEN 1 ELSE 0)
         /\ Cardinality(Running') = Cardinality(Running) + (IF v = "run" THEN 1 ELSE 0)
                                                         - (IF hnd[h] = "run" THEN 1 ELSE 0)
  <1>1. hnd \in [Handles -> {"none", "init", "run", "closing"}]
    BY DEF CsTypes
  <1>2. /\ Opened' = IF v # "none" THEN Opened \cup {h} ELSE Opened \ {h}
        /\ Running' = IF v = "run" THEN Running \cup {h} ELSE Running \ {h}
    BY <1>1 DEF Opened, Running
  <1>3. (h \in Opened <=> hnd[h] # "none") /\ (h \in Running <=> hnd[h] = "run")
    BY DEF Opened, Running
  <1>4. /\ v # "none" => Cardinality(Opened') = Cardinality(Opened \cup {h})
        /\ v = "none" => Cardinality(Opened') = Cardinality(Opened \ {h})
        /\ v = "run" => Cardinality(Running') = Cardinality(Running \cup {h})
        /\ v # "run" => Cardinality(Running') = Cardinality(Running \ {h})
    BY <1>2, Zenon
  <1>5. /\ Cardinality(Opened \cup {h}) = Cardinality(Opened) + (IF h \in Opened THEN 0 ELSE 1)
        /\ Cardinality(Opened \ {h}) = Cardinality(Opened) - (IF h \in Opened THEN 1 ELSE 0)
        /\ Cardinality(Running \cup {h}) = Cardinality(Running) + (IF h \in Running THEN 0 ELSE 1)
        /\ Cardinality(Running \ {h}) = Cardinality(Running) - (IF h \in Running THEN 1 ELSE 0)
        /\ Cardinality(Opened) \in Nat /\ Cardinality(Running) \in Nat
    <2>1. IsFiniteSet(Opened) /\ IsFiniteSet(Running)
      BY HandlesFinite
    <2> QED
      BY <2>1, ElementMore, ElementLess
  <1> QED
    BY <1>3, <1>4, <1>5

\* A handle opens.
LEMMA HandleOpens ==
  ASSUME CsTypes, NEW h \in Handles, hnd' = [hnd EXCEPT ![h] = "init"], hnd[h] = "none"
  PROVE  Cardinality(Opened') = Cardinality(Opened) + 1 /\ Cardinality(Running') = Cardinality(Running)
  <1>1. /\ Cardinality(Opened') = Cardinality(Opened) + (IF "init" # "none" THEN 1 ELSE 0)
                                                       - (IF hnd[h] # "none" THEN 1 ELSE 0)
        /\ Cardinality(Running') = Cardinality(Running) + (IF "init" = "run" THEN 1 ELSE 0)
                                                         - (IF hnd[h] = "run" THEN 1 ELSE 0)
    BY HandleMoves, Zenon
  <1> QED
    BY <1>1, HandlesFinite

\* A handle starts.
LEMMA HandleStarts ==
  ASSUME CsTypes, NEW h \in Handles, hnd' = [hnd EXCEPT ![h] = "run"], hnd[h] = "init"
  PROVE  Cardinality(Opened') = Cardinality(Opened) /\ Cardinality(Running') = Cardinality(Running) + 1
  <1>1. /\ Cardinality(Opened') = Cardinality(Opened) + (IF "run" # "none" THEN 1 ELSE 0)
                                                       - (IF hnd[h] # "none" THEN 1 ELSE 0)
        /\ Cardinality(Running') = Cardinality(Running) + (IF "run" = "run" THEN 1 ELSE 0)
                                                         - (IF hnd[h] = "run" THEN 1 ELSE 0)
    BY HandleMoves, Zenon
  <1> QED
    BY <1>1, HandlesFinite

\* A handle closes.
LEMMA HandleCloses ==
  ASSUME CsTypes, NEW h \in Handles, hnd' = [hnd EXCEPT ![h] = "none"], hnd[h] = "closing"
  PROVE  Cardinality(Opened') = Cardinality(Opened) - 1 /\ Cardinality(Running') = Cardinality(Running)
  <1>1. /\ Cardinality(Opened') = Cardinality(Opened) + (IF "none" # "none" THEN 1 ELSE 0)
                                                       - (IF hnd[h] # "none" THEN 1 ELSE 0)
        /\ Cardinality(Running') = Cardinality(Running) + (IF "none" = "run" THEN 1 ELSE 0)
                                                         - (IF hnd[h] = "run" THEN 1 ELSE 0)
    BY HandleMoves, Zenon
  <1> QED
    BY <1>1, HandlesFinite

\* A handle stops.
LEMMA HandleStops ==
  ASSUME CsTypes, NEW h \in Handles, NEW v \in {"init", "closing"}, hnd' = [hnd EXCEPT ![h] = v], hnd[h] \in {"init", "run"}
  PROVE  Cardinality(Opened') = Cardinality(Opened) /\ Cardinality(Running') = Cardinality(Running) - (IF hnd[h] = "run" THEN 1 ELSE 0)
  <1>1. /\ Cardinality(Opened') = Cardinality(Opened) + (IF v # "none" THEN 1 ELSE 0)
                                                       - (IF hnd[h] # "none" THEN 1 ELSE 0)
        /\ Cardinality(Running') = Cardinality(Running) + (IF v = "run" THEN 1 ELSE 0)
                                                         - (IF hnd[h] = "run" THEN 1 ELSE 0)
    <2>1. v \in {"none", "init", "run", "closing"}
      OBVIOUS
    <2> QED
      BY <2>1, HandleMoves, Zenon
  <1> QED
    BY <1>1, HandlesFinite

\* After a step the handles that are open or started are finitely many, too.
LEMMA HandlesFiniteNext ==
  Cardinality(Opened') \in Nat /\ Cardinality(Running') \in Nat /\ Cardinality(Running') <= Cardinality(Opened')
  <1>1. IsFiniteSet(Handles) /\ Opened' \subseteq Handles /\ Running' \subseteq Opened'
    BY CsAssumption DEF Opened, Running
  <1>2. IsFiniteSet(Opened') /\ IsFiniteSet(Running')
    BY <1>1, FS_Subset
  <1> QED
    BY <1>1, <1>2, FS_Subset, FS_CardinalityType

\* The invariant holds at first.
LEMMA CsInvInit == CsInit => CsInv
  <1> SUFFICES ASSUME CsInit PROVE CsInv
    OBVIOUS
  <1> USE DEF CsInit, NoLife
  <1>1. CsTypes
    BY DEF CsTypes, LifePcs, SnapPcs, Lifes, Encs, Cams, Buses
  <1>2. Opened = {} /\ Running = {}
    BY DEF Opened, Running
  <1>3. CsCounted
    BY <1>2, FS_EmptySet DEF CsCounted
  <1>4. CsUpped /\ CsQuiet /\ CsStreaming /\ TokenKept /\ BuffersKept /\ PoolKept
    BY DEF CsUpped, CsQuiet, CsStreaming, TokenKept, BuffersKept, PoolKept
  <1> QED
    BY <1>1, <1>3, <1>4 DEF CsInv

\* The steps, one by one.
LEMMA CsKinds ==
  ASSUME [CsNext]_csVars
  PROVE  \/ \E h \in Handles : CapInit(h) \/ CapStart(h) \/ CapDeinit(h)
         \/ \E h \in Handles : CapStop(h, "stop") \/ CapStop(h, "deinit")
         \/ InitDrains \/ InitCamera \/ InitRest \/ StartGives \/ Started
         \/ StopParks \/ StopDrains \/ DeinitDrains \/ DeinitFrees
         \/ PumpLoops \/ PumpTakes \/ PumpWakes \/ PumpGets \/ PumpPublishes
         \/ SinkTakes \/ SinkDone \/ SnapCopied
         \/ \E p \in Snappers : SnapBegins(p) \/ SnapSets(p) \/ SnapArms(p)
         \/ \E p \in Snappers : SnapReturns(p) \/ SnapStarts(p) \/ SnapStops(p)
         \/ UNCHANGED csVars
  BY DEF CsNext, CsCall, CsLife, CsPump, CsSnap

\* A call that goes on is a call.
LEMMA LifeTyped ==
  ASSUME NEW l \in Lifes, NEW pc \in LifePcs
  PROVE  [l EXCEPT !.pc = pc] \in Lifes /\ [l EXCEPT !.pc = pc].pc = pc /\ [l EXCEPT !.pc = pc].h = l.h
  BY DEF Lifes

\* The encoder's record with a member changed.
LEMMA EncTyped ==
  ASSUME NEW e \in Encs, NEW b \in BOOLEAN, NEW n \in {0, 1}
  PROVE  /\ [e EXCEPT !.up = b] \in Encs /\ [e EXCEPT !.running = b] \in Encs
         /\ [e EXCEPT !.sem = n] \in Encs /\ [e EXCEPT !.parked = b] \in Encs
  BY DEF Encs

\* The camera's and the bus's records with a member changed.
LEMMA CamTyped ==
  ASSUME NEW c \in Cams, NEW b \in BOOLEAN, NEW d \in BOOLEAN, NEW u \in Buses, NEW n \in {0, 1}
  PROVE  /\ [c EXCEPT !.on = b] \in Cams /\ [c EXCEPT !.on = b, !.bufs = d] \in Cams
         /\ [u EXCEPT !.q = n] \in Buses /\ [u EXCEPT !.reads = b] \in Buses
  BY DEF Cams, Buses

\* What the drain and the camera interface do to the types.
LEMMA CsTypesStep ==
  ASSUME CsTypes, CsCounted, [CsNext]_csVars
  PROVE  CsTypes'
  <1> USE DEF CsTypes, handles, shots, excused, csVars, LifeIn, LifeGo, SnapGo
  <1>a. life.pc # "idle" => life.h \in Handles
    BY DEF CsCounted
  <1>b. NoLife \in Lifes /\ (\A pc \in LifePcs : [life EXCEPT !.pc = pc] \in Lifes)
        /\ (\A pc \in LifePcs, h \in Handles : [pc |-> pc, h |-> h] \in Lifes)
    <2>1. NoLife \in Lifes /\ \A pc \in LifePcs, h \in Handles : [pc |-> pc, h |-> h] \in Lifes
      BY DEF NoLife, Lifes, LifePcs
    <2> QED
      BY <2>1, LifeTyped
  <1>c. /\ \A b \in BOOLEAN : [enc EXCEPT !.up = b] \in Encs /\ [enc EXCEPT !.running = b] \in Encs
                              /\ [enc EXCEPT !.parked = b] \in Encs
        /\ [enc EXCEPT !.sem = 0] \in Encs /\ [enc EXCEPT !.sem = 1] \in Encs
        /\ enc.running \in BOOLEAN /\ enc.parked \in BOOLEAN
    <2>1. enc.running \in BOOLEAN /\ enc.parked \in BOOLEAN
      BY DEF Encs
    <2> QED
      BY <2>1, EncTyped
  <1>d. /\ \A n \in {0, 1} : [bus EXCEPT !.q = n] \in Buses
        /\ \A b \in BOOLEAN : [bus EXCEPT !.reads = b] \in Buses
        /\ [q |-> 0, reads |-> TRUE] \in Buses
    <2>1. [q |-> 0, reads |-> TRUE] \in Buses /\ TRUE \in BOOLEAN
      BY DEF Buses
    <2> QED
      BY <2>1, CamTyped
  <1>e. ASSUME NEW by, NEW ok \in BOOLEAN, IfInit(by, ok)
        PROVE  cam' \in Cams /\ snapOff' \in BOOLEAN
    <2>1. snapOff' \in BOOLEAN
      BY <1>e DEF IfInit
    <2>2. [open |-> TRUE, on |-> TRUE, bufs |-> TRUE] \in Cams /\ (cam.bufs /\ ~Uvc) \in BOOLEAN
      BY CsAssumption DEF Cams
    <2>3. [cam EXCEPT !.on = FALSE, !.bufs = @ /\ ~Uvc] \in Cams
      BY CsAssumption DEF Cams
    <2> QED
      BY <1>e, <2>1, <2>2, <2>3 DEF IfInit
  <1>f. [cam EXCEPT !.on = FALSE] \in Cams
    BY DEF Cams
  <1>1. ASSUME NEW h \in Handles, CapInit(h) PROVE CsTypes'
    <2>1. life' \in Lifes
      BY <1>1, <1>b DEF CapInit, LifePcs
    <2> QED
      BY <1>1, <2>1 DEF CapInit
  <1>2. ASSUME NEW h \in Handles, CapStart(h) PROVE CsTypes'
    <2>1. life' \in Lifes
      BY <1>2, <1>b DEF CapStart, LifePcs
    <2>2. enc' \in Encs
      BY <1>2, <1>c DEF CapStart
    <2> QED
      BY <1>2, <2>1, <2>2 DEF CapStart
  <1>3. ASSUME NEW h \in Handles, CapDeinit(h) PROVE CsTypes'
    <2>1. refs.init > 0
      <3>1. h \in Opened
        BY <1>3 DEF CapDeinit, Opened
      <3> QED
        BY <3>1, HandlesFinite DEF CsCounted
    <2>2. refs' \in [init : Nat, start : Nat]
      BY <1>3, <2>1 DEF CapDeinit
    <2>3. life' \in Lifes
      BY <1>3, <1>b DEF CapDeinit, LifePcs
    <2> QED
      BY <1>3, <2>2, <2>3 DEF CapDeinit
  <1>4. ASSUME NEW h \in Handles, NEW op \in {"stop", "deinit"}, CapStop(h, op) PROVE CsTypes'
    <2>1. hnd[h] = "run" => refs.start > 0
      <3>1. hnd[h] = "run" => h \in Running
        BY DEF Running
      <3> QED
        BY <3>1, HandlesFinite DEF CsCounted
    <2>2. refs' \in [init : Nat, start : Nat]
      BY <1>4, <2>1 DEF CapStop
    <2>3. hnd' \in [Handles -> {"none", "init", "run", "closing"}]
      BY <1>4 DEF CapStop
    <2>4. life' \in Lifes
      BY <1>4, <1>b DEF CapStop, LifePcs
    <2>5. enc' \in Encs
      BY <1>4, <1>c DEF CapStop
    <2> QED
      BY <1>4, <2>2, <2>3, <2>4, <2>5 DEF CapStop
  <1>5. CASE InitDrains
    <2>1. life' \in Lifes
      BY <1>5, <1>b DEF InitDrains, LifePcs
    <2> QED
      BY <1>5, <1>d, <2>1 DEF InitDrains, Drain
  <1>6. CASE InitCamera
    <2>1. life' \in Lifes
      BY <1>6, <1>b DEF InitCamera, LifePcs
    <2>2. cam' \in Cams /\ snapOff' \in BOOLEAN
      BY <1>6, <1>e DEF InitCamera
    <2> QED
      BY <1>6, <2>1, <2>2 DEF InitCamera
  <1>7. CASE InitRest
    <2>1. life.h \in Handles
      BY <1>7, <1>a DEF InitRest
    <2>2. hnd' \in [Handles -> {"none", "init", "run", "closing"}]
      BY <1>7, <2>1 DEF InitRest
    <2>3. refs' \in [init : Nat, start : Nat]
      BY <1>7 DEF InitRest
    <2>4. enc' \in Encs
      BY <1>7, <1>c DEF InitRest
    <2>5. vpump' \in {"none", "top", "take", "woken", "get", "hold"}
      BY <1>7 DEF InitRest
    <2> QED
      BY <1>7, <1>b, <2>2, <2>3, <2>4, <2>5 DEF InitRest
  <1>8. CASE StartGives
    BY <1>8, <1>b, <1>c DEF StartGives, LifePcs
  <1>9. CASE Started
    <2>1. life.h \in Handles
      BY <1>9, <1>a DEF Started
    <2>2. hnd' \in [Handles -> {"none", "init", "run", "closing"}]
      BY <1>9, <2>1 DEF Started
    <2>3. refs' \in [init : Nat, start : Nat]
      BY <1>9 DEF Started
    <2> QED
      BY <1>9, <1>b, <2>2, <2>3 DEF Started
  <1>10. CASE StopParks
    BY <1>10, <1>b DEF StopParks, LifePcs
  <1>11. CASE StopDrains
    BY <1>11, <1>b, <1>d DEF StopDrains, Drain
  <1>12. CASE DeinitDrains
    <2>1. life' \in Lifes
      BY <1>12, <1>b DEF DeinitDrains, LifePcs
    <2> QED
      BY <1>12, <1>d, <2>1 DEF DeinitDrains, Drain
  <1>13. CASE DeinitFrees
    BY <1>13, <1>b, <1>f DEF DeinitFrees, IfStop
  <1>14. CASE PumpLoops
    <2>1. enc' \in Encs
      BY <1>14, <1>c DEF PumpLoops
    <2> QED
      BY <1>14, <2>1 DEF PumpLoops
  <1>15. CASE PumpTakes
    BY <1>15, <1>c DEF PumpTakes
  <1>16. CASE PumpWakes
    BY <1>16, <1>c DEF PumpWakes
  <1>17. CASE PumpGets
    BY <1>17 DEF PumpGets
  <1>18. CASE PumpPublishes
    BY <1>18, <1>d DEF PumpPublishes
  <1>19. CASE SinkTakes
    BY <1>19, <1>d DEF SinkTakes
  <1>20. CASE SinkDone
    BY <1>20, <1>d DEF SinkDone
  <1>21. CASE SnapCopied
    BY <1>21 DEF SnapCopied
  <1> USE DEF SnapPcs
  <1>22. ASSUME NEW p \in Snappers, SnapBegins(p) PROVE CsTypes'
    BY <1>22 DEF SnapBegins
  <1>23. ASSUME NEW p \in Snappers, SnapSets(p) PROVE CsTypes'
    BY <1>23 DEF SnapSets
  <1>24. ASSUME NEW p \in Snappers, SnapArms(p) PROVE CsTypes'
    BY <1>24 DEF SnapArms
  <1>25. ASSUME NEW p \in Snappers, SnapReturns(p) PROVE CsTypes'
    BY <1>25 DEF SnapReturns
  <1>26. ASSUME NEW p \in Snappers, SnapStarts(p) PROVE CsTypes'
    <2>1. cam' \in Cams /\ snapOff' \in BOOLEAN
      BY <1>26, <1>e DEF SnapStarts
    <2>2. snap' \in [Snappers -> SnapPcs]
      BY <1>26 DEF SnapStarts
    <2> HIDE DEF SnapPcs
    <2> QED
      BY <1>26, <2>1, <2>2 DEF SnapStarts
  <1>27. ASSUME NEW p \in Snappers, SnapStops(p) PROVE CsTypes'
    <2>1. snap' \in [Snappers -> SnapPcs]
      BY <1>27 DEF SnapStops
    <2> HIDE DEF SnapPcs
    <2> QED
      BY <1>27, <1>f, <2>1 DEF SnapStops, IfStop
  <1>28. CASE UNCHANGED csVars
    BY <1>28
  <1> QED
    BY <1>1, <1>2, <1>3, <1>4, <1>5, <1>6, <1>7, <1>8, <1>9, <1>10, <1>11, <1>12, <1>13, <1>14, <1>15,
       <1>16, <1>17, <1>18, <1>19, <1>20, <1>21, <1>22, <1>23, <1>24, <1>25, <1>26, <1>27, <1>28, CsKinds

\* The steps that leave the calls of the capture and their counts alone.
LEMMA CountedUndisturbed ==
  ASSUME CsCounted, UNCHANGED <<hnd, refs, life>>, enc'.running = enc.running
  PROVE  CsCounted'
  <1>1. Opened' = Opened /\ Running' = Running
    BY DEF Opened, Running
  <1>2. Cardinality(Opened') = Cardinality(Opened) /\ Cardinality(Running') = Cardinality(Running)
    BY <1>1, Zenon
  <1> QED
    BY <1>2 DEF CsCounted

\* A call that goes on, or ends, without touching a handle.
LEMMA CountedGoes ==
  ASSUME CsCounted, UNCHANGED <<hnd, refs>>, enc'.running = enc.running,
         \/ life'.pc = "idle" /\ life.pc \notin {"give", "started"}
         \/ /\ life'.h = life.h
            /\ \/ life.pc = "redrain" /\ life'.pc = "camera"
               \/ life.pc = "camera" /\ life'.pc = "rest"
               \/ life.pc = "give" /\ life'.pc = "started"
               \/ life.pc = "park" /\ life'.pc = "drain"
               \/ life.pc = "again" /\ life'.pc = "free"
  PROVE  CsCounted'
  <1>1. Opened' = Opened /\ Running' = Running
    BY DEF Opened, Running
  <1>2. Cardinality(Opened') = Cardinality(Opened) /\ Cardinality(Running') = Cardinality(Running)
    BY <1>1, Zenon
  <1> QED
    BY <1>2 DEF CsCounted

\* Every step keeps the counts.
LEMMA CountedStep ==
  ASSUME CsTypes, CsCounted, [CsNext]_csVars
  PROVE  CsCounted'
  <1> USE DEF handles, LifeIn, LifeGo
  <1>f. /\ refs.init \in Nat /\ refs.start \in Nat /\ hnd \in [Handles -> {"none", "init", "run", "closing"}]
        /\ refs \in [init : Nat, start : Nat] /\ enc \in [up : BOOLEAN, running : BOOLEAN, sem : {0, 1}, parked : BOOLEAN]
        /\ life \in [pc : LifePcs, h : Handles \cup {0}]
    BY DEF CsTypes, Lifes, Encs
  <1>g. /\ [life EXCEPT !.pc = "camera"].pc = "camera" /\ [life EXCEPT !.pc = "camera"].h = life.h
        /\ [life EXCEPT !.pc = "rest"].pc = "rest" /\ [life EXCEPT !.pc = "rest"].h = life.h
        /\ [life EXCEPT !.pc = "started"].pc = "started" /\ [life EXCEPT !.pc = "started"].h = life.h
        /\ [life EXCEPT !.pc = "drain"].pc = "drain" /\ [life EXCEPT !.pc = "drain"].h = life.h
        /\ [life EXCEPT !.pc = "free"].pc = "free" /\ [life EXCEPT !.pc = "free"].h = life.h
    BY LifeTyped DEF CsTypes, LifePcs
  <1>h. NoLife.pc = "idle"
    BY DEF NoLife
  <1>1. ASSUME NEW h \in Handles, CapInit(h) PROVE CsCounted'
    <2>1. CASE refs.init > 0
      <3>1. refs'.init = refs.init + 1 /\ refs'.start = refs.start /\ hnd' = [hnd EXCEPT ![h] = "init"]
            /\ hnd[h] = "none" /\ UNCHANGED <<life, enc>> /\ life.pc = "idle"
        BY <1>1, <1>f, <2>1 DEF CapInit
      <3>2. Cardinality(Opened') = Cardinality(Opened) + 1 /\ Cardinality(Running') = Cardinality(Running)
        BY <3>1, HandleOpens
      <3> QED
        BY <1>f, <3>1, <3>2 DEF CsCounted
    <2>2. CASE ~(refs.init > 0)
      <3>1. UNCHANGED <<hnd, refs, enc>> /\ life.pc = "idle" /\ life'.h = h /\ life'.pc \in {"redrain", "camera"}
        BY <1>1, <2>2 DEF CapInit
      <3>2. Opened' = Opened /\ Running' = Running
        BY <3>1 DEF Opened, Running
      <3>3. Cardinality(Opened') = Cardinality(Opened) /\ Cardinality(Running') = Cardinality(Running)
        BY <3>2, Zenon
      <3> QED
        BY <1>f, <2>2, <3>1, <3>3 DEF CsCounted
    <2> QED
      BY <2>1, <2>2
  <1>2. ASSUME NEW h \in Handles, CapStart(h) PROVE CsCounted'
    <2>1. CASE refs.start = 0
      <3>1. UNCHANGED <<hnd, refs>> /\ enc'.running /\ life.pc = "idle" /\ life'.h = h /\ hnd[h] = "init"
            /\ life'.pc \in {"give", "started"}
        BY <1>2, <1>f, <2>1 DEF CapStart
      <3>2. Opened' = Opened /\ Running' = Running
        BY <3>1 DEF Opened, Running
      <3>3. Cardinality(Opened') = Cardinality(Opened) /\ Cardinality(Running') = Cardinality(Running)
        BY <3>2, Zenon
      <3> QED
        BY <1>f, <2>1, <3>1, <3>3 DEF CsCounted
    <2>2. CASE refs.start # 0
      <3>1. refs'.start = refs.start + 1 /\ refs'.init = refs.init /\ hnd' = [hnd EXCEPT ![h] = "run"]
            /\ hnd[h] = "init" /\ UNCHANGED <<life, enc>> /\ life.pc = "idle"
        BY <1>2, <1>f, <2>2 DEF CapStart
      <3>2. Cardinality(Opened') = Cardinality(Opened) /\ Cardinality(Running') = Cardinality(Running) + 1
        BY <3>1, HandleStarts
      <3> QED
        BY <1>f, <2>2, <3>1, <3>2 DEF CsCounted
    <2> QED
      BY <2>1, <2>2
  <1>3. ASSUME NEW h \in Handles, CapDeinit(h) PROVE CsCounted'
    <2>1. hnd[h] = "closing" /\ hnd' = [hnd EXCEPT ![h] = "none"] /\ refs'.init = refs.init - 1
          /\ refs'.start = refs.start /\ enc' = enc /\ life.pc = "idle"
          /\ life' = IF refs.init > 1 THEN life ELSE [pc |-> IF drained THEN "free" ELSE "again", h |-> h]
      BY <1>3, <1>f DEF CapDeinit
    <2>2. Cardinality(Opened') = Cardinality(Opened) - 1 /\ Cardinality(Running') = Cardinality(Running)
      BY <2>1, HandleCloses
    <2>3. Cardinality(Running') <= Cardinality(Opened') /\ Cardinality(Opened') \in Nat /\ Cardinality(Running') \in Nat
      BY HandlesFiniteNext
    <2>4. CASE refs.init > 1
      BY <1>f, <2>1, <2>2, <2>4 DEF CsCounted
    <2>5. CASE ~(refs.init > 1)
      <3>1. life'.h = h /\ life'.pc \in {"free", "again"}
        BY <2>1, <2>5
      <3>2. refs'.init = 0 /\ refs'.start = 0
        BY <1>f, <2>1, <2>2, <2>3, <2>5 DEF CsCounted
      <3> QED
        BY <1>f, <2>1, <2>2, <3>1, <3>2 DEF CsCounted
    <2> QED
      BY <2>4, <2>5
  <1>4. ASSUME NEW h \in Handles, NEW op \in {"stop", "deinit"}, CapStop(h, op) PROVE CsCounted'
    <2> DEFINE v == IF op = "stop" THEN "init" ELSE "closing"
    <2>1. /\ hnd[h] \in {"init", "run"} /\ hnd' = [hnd EXCEPT ![h] = v] /\ life.pc = "idle"
          /\ refs'.init = refs.init /\ refs'.start = refs.start - (IF hnd[h] = "run" THEN 1 ELSE 0)
          /\ enc'.running = (enc.running /\ ~(hnd[h] = "run" /\ refs.start = 1))
          /\ life' = IF hnd[h] = "run" /\ refs.start = 1 /\ enc.running THEN [pc |-> "park", h |-> h] ELSE life
      BY <1>4, <1>f DEF CapStop
    <2>2. Cardinality(Opened') = Cardinality(Opened)
          /\ Cardinality(Running') = Cardinality(Running) - (IF hnd[h] = "run" THEN 1 ELSE 0)
      <3>1. v \in {"init", "closing"}
        OBVIOUS
      <3> HIDE DEF v
      <3> QED
        BY <2>1, <3>1, HandleStops
    <2>3. CASE hnd[h] = "run"
      <3>1. h \in Running /\ refs.start > 0
        <4>1. h \in Running
          BY <2>3 DEF Running
        <4> QED
          BY <4>1, HandlesFinite DEF CsCounted
      <3>2. enc.running /\ refs'.start = refs.start - 1 /\ Cardinality(Running') = Cardinality(Running) - 1
        BY <2>1, <2>2, <2>3, <3>1 DEF CsCounted
      <3>3. CASE refs.start = 1
        <4>1. life'.pc = "park" /\ life'.h = h /\ ~enc'.running
          BY <2>1, <2>3, <3>2, <3>3
        <4> QED
          BY <1>f, <2>1, <2>2, <3>2, <3>3, <4>1 DEF CsCounted
      <3>4. CASE refs.start # 1
        <4>1. life' = life /\ enc'.running = enc.running
          BY <1>f, <2>1, <3>4
        <4> QED
          BY <1>f, <2>1, <2>2, <3>1, <3>2, <3>4, <4>1 DEF CsCounted
      <3> QED
        BY <3>3, <3>4
    <2>4. CASE hnd[h] # "run"
      <3>1. life' = life /\ enc'.running = enc.running /\ refs'.start = refs.start
        BY <1>f, <2>1, <2>4
      <3> QED
        BY <1>f, <2>1, <2>2, <2>4, <3>1 DEF CsCounted
    <2> QED
      BY <2>3, <2>4
  <1>5. CASE InitDrains
    <2>1. UNCHANGED <<hnd, refs>> /\ enc'.running = enc.running
      BY <1>5, <1>f DEF InitDrains
    <2>2. \/ life'.pc = "idle" /\ life.pc \notin {"give", "started"}
          \/ /\ life'.h = life.h
             /\ \/ life.pc = "redrain" /\ life'.pc = "camera"
                \/ life.pc = "camera" /\ life'.pc = "rest"
                \/ life.pc = "give" /\ life'.pc = "started"
                \/ life.pc = "park" /\ life'.pc = "drain"
                \/ life.pc = "again" /\ life'.pc = "free"
      <3>1. life.pc = "redrain" /\ (life' = NoLife \/ life' = [life EXCEPT !.pc = "camera"])
        BY <1>5 DEF InitDrains
      <3>2. life'.pc = "idle" \/ (life'.pc = "camera" /\ life'.h = life.h)
        <4>1. CASE life' = NoLife
          BY <1>h, <4>1, Zenon
        <4>2. CASE life' = [life EXCEPT !.pc = "camera"]
          BY <1>g, <4>2, Zenon
        <4> QED
          BY <3>1, <4>1, <4>2
      <3>3. life.pc = "redrain"
        BY <3>1
      <3> QED
        BY <3>2, <3>3
    <2> QED
      BY <2>1, <2>2, CountedGoes
  <1>6. CASE InitCamera
    <2>1. UNCHANGED <<hnd, refs>> /\ enc'.running = enc.running
      BY <1>6, <1>f DEF InitCamera
    <2>2. \/ life'.pc = "idle" /\ life.pc \notin {"give", "started"}
          \/ /\ life'.h = life.h
             /\ \/ life.pc = "redrain" /\ life'.pc = "camera"
                \/ life.pc = "camera" /\ life'.pc = "rest"
                \/ life.pc = "give" /\ life'.pc = "started"
                \/ life.pc = "park" /\ life'.pc = "drain"
                \/ life.pc = "again" /\ life'.pc = "free"
      BY <1>6, <1>g, <1>h DEF InitCamera
    <2> QED
      BY <2>1, <2>2, CountedGoes
  <1>7. CASE InitRest
    <2>1. CASE UNCHANGED <<hnd, refs, enc>>
      BY <1>7, <1>h, <2>1, CountedGoes DEF InitRest
    <2>2. CASE ~UNCHANGED <<hnd, refs, enc>>
      <3>1. /\ life.pc = "rest" /\ life' = NoLife /\ hnd' = [hnd EXCEPT ![life.h] = "init"]
            /\ refs'.init = 1 /\ refs'.start = refs.start /\ enc'.running = enc.running
        BY <1>7, <1>f, <2>2 DEF InitRest
      <3>2. life.h \in Handles /\ refs.init = 0
        BY <3>1 DEF CsCounted
      <3>3. hnd[life.h] = "none" /\ Running = {}
        <4>1. Opened = {} /\ Running = {}
          BY <3>2, HandlesFinite DEF CsCounted
        <4> QED
          BY <3>2, <4>1 DEF Opened
      <3>4. Cardinality(Opened') = Cardinality(Opened) + 1 /\ Cardinality(Running') = Cardinality(Running)
        BY <3>1, <3>2, <3>3, HandleOpens
      <3> QED
        <4>1. life'.pc = "idle" /\ refs.start = 0 /\ ~enc.running
          BY <3>1, <3>3, HandlesFinite DEF CsCounted, NoLife
        <4>2. refs'.init = Cardinality(Opened') /\ refs'.start = Cardinality(Running') /\ refs'.start = 0
          <5>1. refs'.init = 1 /\ refs'.start = refs.start
            BY <3>1
          <5>2. Cardinality(Opened) = 0 /\ Cardinality(Running) = 0
            BY <3>2, <4>1 DEF CsCounted
          <5>3. Cardinality(Opened') = 1 /\ Cardinality(Running') = 0
            BY <3>4, <5>2
          <5> QED
            BY <4>1, <5>1, <5>3
        <4> QED
          BY <1>f, <3>1, <4>1, <4>2 DEF CsCounted
    <2> QED
      BY <2>1, <2>2
  <1>8. CASE StartGives
    <2>1. UNCHANGED <<hnd, refs>> /\ enc'.running = enc.running
      BY <1>8, <1>f DEF StartGives
    <2>2. \/ life'.pc = "idle" /\ life.pc \notin {"give", "started"}
          \/ /\ life'.h = life.h
             /\ \/ life.pc = "redrain" /\ life'.pc = "camera"
                \/ life.pc = "camera" /\ life'.pc = "rest"
                \/ life.pc = "give" /\ life'.pc = "started"
                \/ life.pc = "park" /\ life'.pc = "drain"
                \/ life.pc = "again" /\ life'.pc = "free"
      <3>1. life.pc = "give" /\ life' = [life EXCEPT !.pc = "started"]
        BY <1>8 DEF StartGives
      <3>2. life'.pc = "started" /\ life'.h = life.h
        BY <1>g, <3>1, Zenon
      <3>3. life.pc = "give"
        BY <3>1
      <3> QED
        BY <3>2, <3>3
    <2> QED
      BY <2>1, <2>2, CountedGoes
  <1>9. CASE Started
    <2>1. /\ life.pc = "started" /\ life' = NoLife /\ hnd' = [hnd EXCEPT ![life.h] = "run"]
          /\ refs'.start = 1 /\ refs'.init = refs.init /\ enc' = enc
      BY <1>9, <1>f DEF Started
    <2>2. life.h \in Handles /\ refs.start = 0 /\ hnd[life.h] = "init" /\ enc.running
      BY <2>1 DEF CsCounted
    <2>3. Cardinality(Opened') = Cardinality(Opened) /\ Cardinality(Running') = Cardinality(Running) + 1
      BY <2>1, <2>2, HandleStarts
    <2> QED
      <3>1. life'.pc = "idle"
        BY <2>1 DEF NoLife
      <3>2. refs'.init = Cardinality(Opened') /\ refs'.start = Cardinality(Running') /\ refs'.start > 0
        <4>1. refs'.start = 1 /\ refs'.init = refs.init
          BY <2>1
        <4>2. Cardinality(Opened) = refs.init /\ Cardinality(Running) = 0
          BY <2>2 DEF CsCounted
        <4>3. Cardinality(Opened') = refs.init /\ Cardinality(Running') = 1
          BY <2>3, <4>2
        <4> QED
          BY <4>1, <4>3
      <3> QED
        BY <1>f, <2>1, <2>2, <3>1, <3>2 DEF CsCounted
  <1>10. CASE StopParks
    <2>1. UNCHANGED <<hnd, refs>> /\ enc'.running = enc.running
      BY <1>10, <1>f DEF StopParks
    <2>2. \/ life'.pc = "idle" /\ life.pc \notin {"give", "started"}
          \/ /\ life'.h = life.h
             /\ \/ life.pc = "redrain" /\ life'.pc = "camera"
                \/ life.pc = "camera" /\ life'.pc = "rest"
                \/ life.pc = "give" /\ life'.pc = "started"
                \/ life.pc = "park" /\ life'.pc = "drain"
                \/ life.pc = "again" /\ life'.pc = "free"
      BY <1>10, <1>g, <1>h DEF StopParks
    <2> QED
      BY <2>1, <2>2, CountedGoes
  <1>11. CASE StopDrains
    <2>1. UNCHANGED <<hnd, refs>> /\ enc'.running = enc.running
      BY <1>11, <1>f DEF StopDrains
    <2>2. \/ life'.pc = "idle" /\ life.pc \notin {"give", "started"}
          \/ /\ life'.h = life.h
             /\ \/ life.pc = "redrain" /\ life'.pc = "camera"
                \/ life.pc = "camera" /\ life'.pc = "rest"
                \/ life.pc = "give" /\ life'.pc = "started"
                \/ life.pc = "park" /\ life'.pc = "drain"
                \/ life.pc = "again" /\ life'.pc = "free"
      BY <1>11, <1>g, <1>h DEF StopDrains
    <2> QED
      BY <2>1, <2>2, CountedGoes
  <1>12. CASE DeinitDrains
    <2>1. UNCHANGED <<hnd, refs>> /\ enc'.running = enc.running
      BY <1>12, <1>f DEF DeinitDrains
    <2>2. \/ life'.pc = "idle" /\ life.pc \notin {"give", "started"}
          \/ /\ life'.h = life.h
             /\ \/ life.pc = "redrain" /\ life'.pc = "camera"
                \/ life.pc = "camera" /\ life'.pc = "rest"
                \/ life.pc = "give" /\ life'.pc = "started"
                \/ life.pc = "park" /\ life'.pc = "drain"
                \/ life.pc = "again" /\ life'.pc = "free"
      BY <1>12, <1>g, <1>h DEF DeinitDrains
    <2> QED
      BY <2>1, <2>2, CountedGoes
  <1>13. CASE DeinitFrees
    <2>1. UNCHANGED <<hnd, refs>> /\ enc'.running = enc.running
      BY <1>13, <1>f DEF DeinitFrees
    <2>2. \/ life'.pc = "idle" /\ life.pc \notin {"give", "started"}
          \/ /\ life'.h = life.h
             /\ \/ life.pc = "redrain" /\ life'.pc = "camera"
                \/ life.pc = "camera" /\ life'.pc = "rest"
                \/ life.pc = "give" /\ life'.pc = "started"
                \/ life.pc = "park" /\ life'.pc = "drain"
                \/ life.pc = "again" /\ life'.pc = "free"
      BY <1>13, <1>g, <1>h DEF DeinitFrees
    <2> QED
      BY <2>1, <2>2, CountedGoes
  <1>14. CASE PumpLoops \/ PumpTakes \/ PumpWakes \/ PumpGets \/ PumpPublishes
    BY <1>14, <1>f, CountedUndisturbed DEF PumpLoops, PumpTakes, PumpWakes, PumpGets, PumpPublishes
  <1>15. CASE SinkTakes \/ SinkDone \/ SnapCopied \/ UNCHANGED csVars
    BY <1>15, CountedUndisturbed DEF SinkTakes, SinkDone, SnapCopied, csVars
  <1>16. ASSUME NEW p \in Snappers, SnapBegins(p) \/ SnapSets(p) \/ SnapArms(p) PROVE CsCounted'
    BY <1>16, CountedUndisturbed DEF SnapBegins, SnapSets, SnapArms
  <1>17. ASSUME NEW p \in Snappers, SnapReturns(p) \/ SnapStarts(p) \/ SnapStops(p) PROVE CsCounted'
    BY <1>17, CountedUndisturbed DEF SnapReturns, SnapStarts, SnapStops
  <1> QED
    BY <1>1, <1>2, <1>3, <1>4, <1>5, <1>6, <1>7, <1>8, <1>9, <1>10, <1>11, <1>12, <1>13, <1>14, <1>15,
       <1>16, <1>17, CsKinds

\* What the counts say of an open handle, and of a capture that nobody has initialised.
LEMMA CountsSay ==
  ASSUME CsTypes, CsCounted
  PROVE  /\ \A h \in Handles : hnd[h] # "none" => refs.init > 0
         /\ refs.init = 0 => refs.start = 0
         /\ life.pc \in {"camera", "rest", "free"} => ~enc.running
         /\ refs.init \in Nat /\ refs.start \in Nat
         /\ enc.up \in BOOLEAN /\ enc.running \in BOOLEAN /\ enc.sem \in {0, 1}
         /\ bus.q \in {0, 1} /\ bus.reads \in BOOLEAN /\ drained \in BOOLEAN /\ missed \in BOOLEAN
  <1>1. /\ refs.init \in Nat /\ refs.start \in Nat
        /\ enc.up \in BOOLEAN /\ enc.running \in BOOLEAN /\ enc.sem \in {0, 1}
        /\ bus.q \in {0, 1} /\ bus.reads \in BOOLEAN /\ drained \in BOOLEAN /\ missed \in BOOLEAN
    BY DEF CsTypes, Encs, Buses
  <1>2. ASSUME NEW h \in Handles, hnd[h] # "none" PROVE refs.init > 0
    <2>1. h \in Opened
      BY <1>2 DEF Opened
    <2> QED
      BY <2>1, HandlesFinite DEF CsCounted
  <1>3. refs.init = 0 => refs.start = 0
    BY <1>1, HandlesFinite DEF CsCounted
  <1>4. life.pc \in {"camera", "rest", "free"} => ~enc.running
    BY <1>3 DEF CsCounted
  <1> QED
    BY <1>1, <1>2, <1>3, <1>4

\* What a step writes into the records, member by member.
LEMMA Members ==
  ASSUME CsTypes
  PROVE  /\ \A b : [enc EXCEPT !.up = b].running = enc.running /\ [enc EXCEPT !.up = b].sem = enc.sem
                   /\ [enc EXCEPT !.up = b].up = b
         /\ \A b : [enc EXCEPT !.running = b].running = b /\ [enc EXCEPT !.running = b].sem = enc.sem
                   /\ [enc EXCEPT !.running = b].up = enc.up
         /\ \A b : [enc EXCEPT !.sem = b].running = enc.running /\ [enc EXCEPT !.sem = b].sem = b
                   /\ [enc EXCEPT !.sem = b].up = enc.up
         /\ \A b : [enc EXCEPT !.parked = b].running = enc.running /\ [enc EXCEPT !.parked = b].sem = enc.sem
                   /\ [enc EXCEPT !.parked = b].up = enc.up
         /\ \A b : [bus EXCEPT !.q = b].q = b /\ [bus EXCEPT !.q = b].reads = bus.reads
         /\ \A b : [bus EXCEPT !.reads = b].reads = b /\ [bus EXCEPT !.reads = b].q = bus.q
         /\ \A b : [life EXCEPT !.pc = b].pc = b
         /\ \A b : [refs EXCEPT !.init = b].init = b
         /\ \A b : [refs EXCEPT !.start = b].init = refs.init
         /\ NoLife.pc = "idle"
  BY DEF CsTypes, Encs, Buses, Lifes, NoLife

\* The encoder's state and the verdict of the last drain go with the calls.
LEMMA UppedStep ==
  ASSUME CsTypes, CsCounted, CsUpped, [CsNext]_csVars
  PROVE  CsUpped'
  <1> USE Members, CountsSay DEF CsUpped, handles, LifeIn, LifeGo
  <1>1. ASSUME NEW h \in Handles, CapInit(h) PROVE CsUpped'
    <2>1. CASE refs.init > 0
      BY <1>1, <2>1 DEF CapInit
    <2>2. CASE ~(refs.init > 0)
      BY <1>1, <2>2 DEF CapInit
    <2> QED
      BY <2>1, <2>2
  <1>2. ASSUME NEW h \in Handles, CapStart(h) PROVE CsUpped'
    <2>1. hnd[h] # "none" /\ drained' = drained
      BY <1>2 DEF CapStart
    <2>2. enc'.up = enc.up /\ life'.pc \in {"idle", "give", "started"}
      <3>1. CASE refs.start = 0
        <4>1. enc' = [enc EXCEPT !.running = TRUE]
          BY <1>2, <3>1 DEF CapStart
        <4>2. life' = [pc |-> IF enc.running THEN "started" ELSE "give", h |-> h]
          BY <1>2, <3>1 DEF CapStart
        <4>3. enc'.up = enc.up
          BY <4>1
        <4>4. life'.pc \in {"idle", "give", "started"}
          BY <4>2
        <4> QED
          BY <4>3, <4>4
      <3>2. CASE refs.start # 0
        BY <1>2, <3>2 DEF CapStart
      <3> QED
        BY <3>1, <3>2
    <2> QED
      BY <2>1, <2>2
  <1>3. ASSUME NEW h \in Handles, CapDeinit(h) PROVE CsUpped'
    <2>1. hnd[h] # "none" /\ drained' = drained /\ enc' = enc /\ life.pc = "idle"
          /\ life' = IF refs.init > 1 THEN life ELSE [pc |-> IF drained THEN "free" ELSE "again", h |-> h]
      BY <1>3 DEF CapDeinit
    <2> QED
      BY <2>1
  <1>4. ASSUME NEW h \in Handles, NEW op \in {"stop", "deinit"}, CapStop(h, op) PROVE CsUpped'
    <2>1. hnd[h] # "none" /\ drained' = drained /\ life.pc = "idle"
      BY <1>4 DEF CapStop
    <2>2. enc'.up = enc.up /\ life'.pc \in {"idle", "park"}
      BY <1>4 DEF CapStop
    <2> QED
      BY <2>1, <2>2
  <1>5. CASE InitDrains
    <2>1. life.pc = "redrain" /\ UNCHANGED <<refs, enc>> /\ life'.pc \in {"idle", "camera"}
          /\ (life'.pc = "camera" => drained')
      BY <1>5 DEF InitDrains, Drain
    <2> QED
      BY <2>1
  <1>6. CASE InitCamera
    <2>1. life.pc = "camera" /\ UNCHANGED <<refs, enc, drained>> /\ life'.pc \in {"idle", "rest"}
      BY <1>6 DEF InitCamera
    <2> QED
      BY <2>1
  <1>7. CASE InitRest
    <2>1. life' = NoLife /\ drained' = drained
      BY <1>7 DEF InitRest
    <2>2. enc' = [enc EXCEPT !.up = TRUE] \/ UNCHANGED <<refs, enc>>
      BY <1>7 DEF InitRest
    <2>3. enc'.up \/ UNCHANGED <<refs, enc>>
      BY <2>2
    <2> QED
      BY <2>1, <2>3
  <1>8. CASE StartGives
    <2>1. life'.pc = "started" /\ UNCHANGED <<refs, drained>> /\ enc'.up = enc.up
      BY <1>8 DEF StartGives
    <2> QED
      BY <2>1
  <1>9. CASE Started
    <2>1. life'.pc = "idle" /\ UNCHANGED <<enc, drained>> /\ refs'.init = refs.init
      BY <1>9 DEF Started, CsTypes
    <2> QED
      BY <2>1
  <1>10. CASE StopParks
    <2>1. life'.pc = "drain" /\ life.pc = "park" /\ UNCHANGED <<refs, enc, drained>>
      BY <1>10 DEF StopParks
    <2> QED
      BY <2>1
  <1>11. CASE StopDrains
    <2>1. life'.pc = "idle" /\ life.pc = "drain" /\ UNCHANGED <<refs, enc>>
      BY <1>11 DEF StopDrains
    <2> QED
      BY <2>1
  <1>12. CASE DeinitDrains
    <2>1. life.pc = "again" /\ UNCHANGED <<refs, enc>> /\ life'.pc \in {"idle", "free"}
          /\ (life'.pc = "free" => drained')
      BY <1>12 DEF DeinitDrains, Drain
    <2> QED
      BY <2>1
  <1>13. CASE DeinitFrees
    <2>1. life'.pc = "idle" /\ UNCHANGED <<refs, enc, drained>>
      BY <1>13 DEF DeinitFrees
    <2> QED
      BY <2>1
  <1>14. CASE UNCHANGED <<refs, life, drained>> /\ enc'.up = enc.up
    BY <1>14
  <1>15. CASE PumpLoops
    BY <1>14, <1>15 DEF PumpLoops
  <1>16. CASE PumpTakes
    BY <1>14, <1>16 DEF PumpTakes
  <1>17. CASE PumpWakes
    BY <1>14, <1>17 DEF PumpWakes
  <1> QED
    BY <1>1, <1>2, <1>3, <1>4, <1>5, <1>6, <1>7, <1>8, <1>9, <1>10, <1>11, <1>12, <1>13, <1>14, <1>15,
       <1>16, <1>17, CsKinds
       DEF PumpGets, PumpPublishes, SinkTakes, SinkDone, SnapCopied, SnapBegins, SnapSets, SnapArms,
           SnapReturns, SnapStarts, SnapStops, csVars

\* Nothing moves in a capture that was stopped under a parked pump.
LEMMA QuietStep ==
  ASSUME CsTypes, CsCounted, CsUpped, CsQuiet, [CsNext]_csVars
  PROVE  CsQuiet'
  <1> USE Members, CountsSay DEF CsQuiet, handles, excused, LifeIn, LifeGo
  <1>1. ASSUME NEW h \in Handles, CapInit(h) PROVE CsQuiet'
    <2>1. UNCHANGED <<missed, enc, vpump, bus, drained>> /\ life.pc = "idle"
      BY <1>1 DEF CapInit
    <2> QED
      BY <2>1
  <1>2. ASSUME NEW h \in Handles, CapStart(h) PROVE CsQuiet'
    <2>1. CASE refs.start = 0
      <3>1. enc'.running
        BY <1>2, <2>1 DEF CapStart
      <3> QED
        BY <3>1
    <2>2. CASE refs.start # 0
      <3>1. UNCHANGED <<missed, enc, vpump, bus, drained, life>>
        BY <1>2, <2>2 DEF CapStart
      <3> QED
        BY <3>1
    <2> QED
      BY <2>1, <2>2
  <1>3. ASSUME NEW h \in Handles, CapDeinit(h) PROVE CsQuiet'
    <2>1. UNCHANGED <<missed, enc, vpump, bus, drained>> /\ life.pc = "idle"
      BY <1>3 DEF CapDeinit
    <2> QED
      BY <2>1
  <1>4. ASSUME NEW h \in Handles, NEW op \in {"stop", "deinit"}, CapStop(h, op) PROVE CsQuiet'
    <2>1. UNCHANGED <<missed, vpump, bus, drained>> /\ life.pc = "idle" /\ enc'.sem = enc.sem
          /\ \/ life'.pc = "park"
             \/ enc'.running = enc.running /\ life' = life
      BY <1>4 DEF CapStop
    <2> QED
      BY <2>1
  <1>5. CASE InitDrains
    <2>1. UNCHANGED <<missed, enc, vpump>> /\ life.pc = "redrain" /\ bus'.q = 0 /\ (drained' => ~bus'.reads)
      BY <1>5 DEF InitDrains, Drain
    <2> QED
      BY <2>1
  <1>6. CASE InitCamera
    <2>1. UNCHANGED <<missed, enc, vpump, bus, drained>> /\ life.pc = "camera"
      BY <1>6 DEF InitCamera
    <2> QED
      BY <2>1
  <1>7. CASE InitRest
    <2>1. UNCHANGED <<missed, bus, drained>> /\ life.pc = "rest" /\ life' = NoLife
      BY <1>7 DEF InitRest
    <2>2. enc' = [enc EXCEPT !.up = TRUE] \/ enc' = enc
      BY <1>7 DEF InitRest
    <2>3. enc'.running = enc.running /\ enc'.sem = enc.sem
      BY <2>2
    <2>4. vpump' \in {vpump, "top"}
      BY <1>7 DEF InitRest
    <2> QED
      BY <2>1, <2>3, <2>4
  <1>8. CASE StartGives
    <2>1. enc.running /\ enc'.running = enc.running
      BY <1>8 DEF StartGives, CsCounted
    <2> QED
      BY <2>1
  <1>9. CASE Started
    <2>1. enc.running /\ enc' = enc
      BY <1>9 DEF Started, CsCounted
    <2> QED
      BY <2>1
  <1>10. CASE StopParks
    <2>1. life'.pc = "drain" /\ UNCHANGED <<enc, vpump>> /\ missed' = (missed \/ vpump # "take" \/ enc.sem = 1)
      BY <1>10 DEF StopParks
    <2> QED
      BY <2>1
  <1>11. CASE StopDrains
    <2>1. UNCHANGED <<missed, enc, vpump>> /\ life.pc = "drain" /\ bus'.q = 0 /\ (drained' => ~bus'.reads)
      BY <1>11 DEF StopDrains, Drain
    <2> QED
      BY <2>1
  <1>12. CASE DeinitDrains
    <2>1. UNCHANGED <<missed, enc, vpump>> /\ life.pc = "again" /\ bus'.q = 0 /\ (drained' => ~bus'.reads)
      BY <1>12 DEF DeinitDrains, Drain
    <2> QED
      BY <2>1
  <1>13. CASE DeinitFrees
    <2>1. UNCHANGED <<missed, enc, vpump, bus, drained>> /\ life.pc = "free"
      BY <1>13 DEF DeinitFrees
    <2> QED
      BY <2>1
  <1>14. CASE UNCHANGED <<missed, enc, vpump, bus, drained, life>>
    BY <1>14
  <1>15. CASE PumpLoops
    <2>1. UNCHANGED <<missed, bus, drained, life>> /\ enc'.running = enc.running /\ enc'.sem = enc.sem
          /\ vpump' = IF enc.running THEN "get" ELSE "take"
      BY <1>15 DEF PumpLoops
    <2>2. vpump = "top"
      BY <1>15 DEF PumpLoops
    <2> QED
      BY <2>1, <2>2
  <1>16. CASE PumpTakes
    <2>1. UNCHANGED <<missed, bus, drained, life>> /\ enc'.running = enc.running /\ enc.sem = 1
      BY <1>16 DEF PumpTakes
    <2> QED
      BY <2>1
  <1>17. CASE PumpWakes \/ PumpGets
    <2>1. UNCHANGED <<missed, bus, drained, life>> /\ enc'.running = enc.running /\ vpump \in {"woken", "get"}
      <3>1. CASE PumpWakes
        BY <3>1 DEF PumpWakes
      <3>2. CASE PumpGets
        BY <3>2 DEF PumpGets
      <3> QED
        BY <1>17, <3>1, <3>2
    <2> QED
      BY <2>1
  <1>18. CASE PumpPublishes
    <2>1. UNCHANGED <<missed, enc, drained, life>> /\ vpump = "hold"
      BY <1>18 DEF PumpPublishes
    <2> QED
      BY <2>1
  <1>19. CASE SinkTakes
    <2>1. UNCHANGED <<missed, enc, drained, life, vpump>> /\ bus.q = 1
      BY <1>19 DEF SinkTakes
    <2> QED
      BY <2>1
  <1>20. CASE SinkDone
    <2>1. UNCHANGED <<missed, enc, drained, life, vpump>> /\ bus'.q = bus.q /\ ~bus'.reads
      BY <1>20 DEF SinkDone
    <2> QED
      BY <2>1
  <1> QED
    BY <1>1, <1>2, <1>3, <1>4, <1>5, <1>6, <1>7, <1>8, <1>9, <1>10, <1>11, <1>12, <1>13, <1>14, <1>15,
       <1>16, <1>17, <1>18, <1>19, <1>20, CsKinds
       DEF SnapCopied, SnapBegins, SnapSets, SnapArms, SnapReturns, SnapStarts, SnapStops, csVars

\* The stream is on for an initialised capture unless a snapshot switched it off.
LEMMA StreamingStep ==
  ASSUME CsTypes, CsCounted, CsStreaming, [CsNext]_csVars
  PROVE  CsStreaming'
  <1> USE Members, CountsSay DEF CsStreaming, handles, excused, LifeIn, LifeGo
  <1>0. cam \in Cams
    BY DEF CsTypes
  <1>1. ASSUME NEW h \in Handles, CapInit(h) PROVE CsStreaming'
    <2>1. UNCHANGED <<cam, snapOff>> /\ life.pc = "idle" /\ life'.pc # "rest"
      BY <1>1 DEF CapInit
    <2>2. refs'.init > 0 => refs.init > 0
      BY <1>1 DEF CapInit
    <2> QED
      BY <2>1, <2>2
  <1>2. ASSUME NEW h \in Handles, CapStart(h) PROVE CsStreaming'
    <2>1. UNCHANGED <<cam, snapOff>> /\ life.pc = "idle"
      BY <1>2 DEF CapStart
    <2>2. refs'.init = refs.init /\ life'.pc # "rest"
      <3>1. CASE refs.start = 0
        <4>1. refs' = refs
          BY <1>2, <3>1 DEF CapStart
        <4>2. life' = [pc |-> IF enc.running THEN "started" ELSE "give", h |-> h]
          BY <1>2, <3>1 DEF CapStart
        <4>3. life'.pc # "rest"
          BY <4>2
        <4> QED
          BY <4>1, <4>3
      <3>2. CASE refs.start # 0
        <4>1. refs' = [refs EXCEPT !.start = refs.start + 1]
          BY <1>2, <3>2 DEF CapStart
        <4>2. life' = life
          BY <1>2, <3>2 DEF CapStart
        <4>3. refs'.init = refs.init
          BY <4>1
        <4> QED
          BY <2>1, <4>2, <4>3
      <3> QED
        BY <3>1, <3>2
    <2> QED
      BY <2>1, <2>2
  <1>3. ASSUME NEW h \in Handles, CapDeinit(h) PROVE CsStreaming'
    <2>1. UNCHANGED <<cam, snapOff>> /\ life.pc = "idle" /\ hnd[h] # "none"
          /\ life' = IF refs.init > 1 THEN life ELSE [pc |-> IF drained THEN "free" ELSE "again", h |-> h]
      BY <1>3 DEF CapDeinit
    <2> QED
      BY <2>1
  <1>4. ASSUME NEW h \in Handles, NEW op \in {"stop", "deinit"}, CapStop(h, op) PROVE CsStreaming'
    <2>1. UNCHANGED <<cam, snapOff>> /\ hnd[h] # "none"
      BY <1>4 DEF CapStop
    <2> QED
      BY <2>1
  <1>5. CASE UNCHANGED <<refs, cam, snapOff>> /\ life'.pc # "rest"
    BY <1>5
  <1>6. CASE InitCamera
    <2>1. refs' = refs /\ refs.init = 0
      BY <1>6 DEF InitCamera, CsCounted
    <2>2. CASE life'.pc # "rest"
      BY <2>1, <2>2
    <2>3. CASE life'.pc = "rest"
      <3>1. IfInit("life", TRUE)
        BY <1>6, <2>3 DEF InitCamera
      <3>2. cam' = [open |-> TRUE, on |-> TRUE, bufs |-> TRUE]
        BY <3>1 DEF IfInit
      <3> QED
        BY <3>2
    <2> QED
      BY <2>2, <2>3
  <1>7. CASE InitRest
    <2>1. UNCHANGED <<cam, snapOff>> /\ life.pc = "rest"
      BY <1>7 DEF InitRest
    <2> QED
      BY <2>1
  <1>8. CASE Started
    <2>1. UNCHANGED <<cam, snapOff>> /\ life' = NoLife /\ refs' = [refs EXCEPT !.start = 1]
      BY <1>8 DEF Started
    <2>2. life'.pc # "rest" /\ refs'.init = refs.init
      BY <2>1
    <2> QED
      BY <2>1, <2>2
  <1>9. CASE StartGives
    <2>1. UNCHANGED <<cam, snapOff, refs>> /\ life'.pc # "rest"
      BY <1>9 DEF StartGives
    <2> QED
      BY <2>1
  <1>14. CASE StopParks
    <2>1. UNCHANGED <<cam, snapOff, refs>> /\ life'.pc # "rest"
      BY <1>14 DEF StopParks
    <2> QED
      BY <2>1
  <1>15. CASE InitDrains
    <2>1. UNCHANGED <<cam, snapOff, refs>> /\ life'.pc # "rest"
      BY <1>15 DEF InitDrains
    <2> QED
      BY <2>1
  <1>16. CASE StopDrains
    <2>1. UNCHANGED <<cam, snapOff, refs>> /\ life'.pc # "rest"
      BY <1>16 DEF StopDrains
    <2> QED
      BY <2>1
  <1>17. CASE DeinitDrains
    <2>1. UNCHANGED <<cam, snapOff, refs>> /\ life'.pc # "rest"
      BY <1>17 DEF DeinitDrains
    <2> QED
      BY <2>1
  <1>10. CASE DeinitFrees
    <2>1. life'.pc = "idle" /\ refs' = refs /\ refs.init = 0
      BY <1>10 DEF DeinitFrees, CsCounted
    <2> QED
      BY <2>1
  <1>11. CASE UNCHANGED <<refs, cam, snapOff, life>>
    BY <1>11
  <1>12. ASSUME NEW p \in Snappers, SnapStarts(p) PROVE CsStreaming'
    <2>1. UNCHANGED <<refs, life>>
      BY <1>12 DEF SnapStarts
    <2>2. PICK ok \in BOOLEAN : IfInit("snap", ok)
      BY <1>12 DEF SnapStarts
    <2>3. \/ cam'.on
          \/ cam' = cam /\ snapOff' = snapOff
          \/ snapOff'
      <3>1. CASE ok
        <4>1. cam' = [open |-> TRUE, on |-> TRUE, bufs |-> TRUE]
          BY <2>2, <3>1 DEF IfInit
        <4> QED
          BY <4>1
      <3>2. CASE ~ok /\ cam.open
        BY <2>2, <3>2 DEF IfInit
      <3>3. CASE ~ok /\ ~cam.open
        <4>1. cam' = cam
          BY <2>2, <3>3 DEF IfInit
        <4>2. snapOff' = snapOff
          BY <2>2, <3>3 DEF IfInit, CsTypes
        <4> QED
          BY <4>1, <4>2
      <3> QED
        BY <3>1, <3>2, <3>3
    <2> QED
      BY <2>1, <2>3
  <1>13. ASSUME NEW p \in Snappers, SnapStops(p) PROVE CsStreaming'
    BY <1>13 DEF SnapStops
  <1> QED
    BY <1>1, <1>2, <1>3, <1>4, <1>6, <1>7, <1>8, <1>9, <1>10, <1>11, <1>12, <1>13, <1>14,
       <1>15, <1>16, <1>17, CsKinds
       DEF PumpLoops, PumpTakes, PumpWakes, PumpGets, PumpPublishes, SinkTakes, SinkDone, SnapCopied,
           SnapBegins, SnapSets, SnapArms, SnapReturns, csVars

\* The pump's token is given or still to be given.
LEMMA TokenStep ==
  ASSUME CsTypes, CsCounted, TokenKept, [CsNext]_csVars
  PROVE  TokenKept'
  <1> USE Members, CountsSay DEF TokenKept, handles, LifeIn, LifeGo
  <1>1. ASSUME NEW h \in Handles, CapInit(h) PROVE TokenKept'
    <2>1. UNCHANGED <<enc, vpump>> /\ life.pc = "idle"
      BY <1>1 DEF CapInit
    <2> QED
      BY <2>1
  <1>2. ASSUME NEW h \in Handles, CapStart(h) PROVE TokenKept'
    <2>1. CASE refs.start = 0
      <3>1. ~enc.running /\ life.pc = "idle"
        BY <1>2, <2>1 DEF CapStart, CsCounted
      <3>2. life'.pc = "give"
        BY <1>2, <2>1, <3>1 DEF CapStart
      <3> QED
        BY <3>2
    <2>2. CASE refs.start # 0
      <3>1. UNCHANGED <<enc, vpump, life>>
        BY <1>2, <2>2 DEF CapStart
      <3> QED
        BY <3>1
    <2> QED
      BY <2>1, <2>2
  <1>3. ASSUME NEW h \in Handles, CapDeinit(h) PROVE TokenKept'
    <2>1. UNCHANGED <<enc, vpump>> /\ life.pc = "idle"
      BY <1>3 DEF CapDeinit
    <2> QED
      BY <2>1
  <1>4. ASSUME NEW h \in Handles, NEW op \in {"stop", "deinit"}, CapStop(h, op) PROVE TokenKept'
    <2>1. vpump' = vpump /\ life.pc = "idle" /\ enc'.sem = enc.sem /\ (enc'.running => enc.running)
      BY <1>4 DEF CapStop
    <2> QED
      BY <2>1
  <1>5. CASE InitRest
    <2>0. enc' = [enc EXCEPT !.up = TRUE] \/ enc' = enc
      BY <1>5 DEF InitRest
    <2>1. life.pc = "rest" /\ enc'.sem = enc.sem /\ enc'.running = enc.running
      BY <1>5, <2>0 DEF InitRest
    <2> QED
      BY <2>1
  <1>6. CASE StartGives
    <2>1. enc'.sem = 1
      BY <1>6 DEF StartGives
    <2> QED
      BY <2>1
  <1>7. CASE InitDrains \/ InitCamera \/ Started \/ StopParks \/ StopDrains \/ DeinitDrains \/ DeinitFrees
    <2>1. UNCHANGED <<enc, vpump>> /\ life.pc # "give"
      BY <1>7 DEF InitDrains, InitCamera, Started, StopParks, StopDrains, DeinitDrains, DeinitFrees
    <2> QED
      BY <2>1
  <1>8. CASE UNCHANGED <<enc, vpump, life>>
    BY <1>8
  <1>9. CASE PumpLoops
    <2>1. enc'.running = enc.running /\ vpump' = IF enc.running THEN "get" ELSE "take"
      BY <1>9 DEF PumpLoops
    <2> QED
      BY <2>1
  <1>10. CASE PumpTakes \/ PumpWakes \/ PumpGets \/ PumpPublishes
    <2>1. vpump' # "take"
      BY <1>10 DEF PumpTakes, PumpWakes, PumpGets, PumpPublishes
    <2> QED
      BY <2>1
  <1> QED
    BY <1>1, <1>2, <1>3, <1>4, <1>5, <1>6, <1>7, <1>8, <1>9, <1>10, CsKinds
       DEF SinkTakes, SinkDone, SnapCopied, SnapBegins, SnapSets, SnapArms, SnapReturns, SnapStarts, SnapStops,
           csVars

\* No buffer is taken from who uses it, and the pool outlives the callback that writes into it.
LEMMA BuffersStep ==
  ASSUME CsTypes, CsCounted, CsUpped, CsQuiet, BuffersKept, PoolKept, [CsNext]_csVars
  PROVE  BuffersKept' /\ PoolKept'
  <1> USE Members, CountsSay DEF BuffersKept, PoolKept, handles, excused, shots, LifeIn, LifeGo
  <1>q. ~missed /\ life.pc \in {"camera", "free"} => bus.q = 0 /\ ~bus.reads /\ vpump # "hold"
    BY DEF CsUpped, CsQuiet
  <1>1. CASE UNCHANGED <<missed, torn, bus, pool>>
    BY <1>1
  <1>2. CASE UNCHANGED <<missed, torn, pool>> /\ bus'.reads = bus.reads
    BY <1>2
  <1>3. CASE InitDrains
    BY <1>2, <1>3 DEF InitDrains, Drain
  <1>4. CASE StopDrains
    BY <1>2, <1>4 DEF StopDrains, Drain
  <1>5. CASE DeinitDrains
    BY <1>2, <1>5 DEF DeinitDrains, Drain
  <1>6. CASE InitCamera
    <2>1. life.pc = "camera" /\ UNCHANGED <<missed, bus, pool>>
      BY <1>6 DEF InitCamera
    <2>2. torn' = torn \/ TakenBack("life")
      BY <1>6 DEF InitCamera, IfInit
    <2>3. ~missed => torn' = torn
      BY <1>q, <2>1, <2>2 DEF TakenBack
    <2> QED
      BY <2>1, <2>3
  <1>7. CASE StopParks
    <2>1. (~missed' => ~missed) /\ UNCHANGED <<torn, bus, pool>>
      BY <1>7 DEF StopParks
    <2> QED
      BY <2>1
  <1>8. CASE DeinitFrees
    <2>1. life.pc = "free" /\ UNCHANGED <<missed, bus>>
      BY <1>8 DEF DeinitFrees
    <2>2. torn' = torn \/ TakenBack("life")
      BY <1>8 DEF DeinitFrees, IfStop
    <2>3. ~missed => torn' = torn
      BY <1>q, <2>1, <2>2 DEF TakenBack
    <2> QED
      BY <1>q, <2>1, <2>3
  <1>9. CASE PumpPublishes
    BY <1>2, <1>9 DEF PumpPublishes
  <1>10. CASE SinkTakes
    <2>1. UNCHANGED <<missed, torn>> /\ pool'
      BY <1>10 DEF SinkTakes
    <2> QED
      BY <2>1
  <1>11. CASE SinkDone
    <2>1. UNCHANGED <<missed, torn, pool>> /\ ~bus'.reads
      BY <1>11 DEF SinkDone
    <2> QED
      BY <2>1
  <1>12. ASSUME NEW p \in Snappers, SnapStarts(p) PROVE BuffersKept' /\ PoolKept'
    <2>1. UNCHANGED <<missed, bus, pool>>
      BY <1>12 DEF SnapStarts
    <2>2. torn' = torn \/ TakenBack("snap")
      BY <1>12 DEF SnapStarts, IfInit
    <2>3. torn' = torn
      BY <2>2 DEF TakenBack
    <2> QED
      BY <1>1, <2>1, <2>3
  <1>13. ASSUME NEW p \in Snappers, SnapStops(p) PROVE BuffersKept' /\ PoolKept'
    <2>1. UNCHANGED <<missed, bus, pool>>
      BY <1>13 DEF SnapStops
    <2>2. torn' = torn \/ TakenBack("snap")
      BY <1>13 DEF SnapStops, IfStop
    <2>3. torn' = torn
      BY <2>2 DEF TakenBack
    <2> QED
      BY <1>1, <2>1, <2>3
  <1> QED
    BY <1>1, <1>3, <1>4, <1>5, <1>6, <1>7, <1>8, <1>9, <1>10, <1>11, <1>12, <1>13, CsKinds
       DEF CapInit, CapStart, CapDeinit, CapStop, InitRest, StartGives, Started,
           PumpLoops, PumpTakes, PumpWakes, PumpGets, SnapCopied, SnapBegins, SnapSets, SnapArms, SnapReturns, csVars

\* With one task that takes snapshots the snapshot sink is that task's.
LEMMA ShootingStep ==
  ASSUME OneSnapper, CsTypes, Shooting, [CsNext]_csVars
  PROVE  Shooting'
  <1> USE DEF OneSnapper, Shooting, SnapGo, shots
  <1>0. /\ snap \in [Snappers -> SnapPcs]
        /\ ssink \in {"none", "armed", "copies"}
    BY DEF CsTypes
  <1>1. CASE UNCHANGED <<snap, target, ssink>>
    BY <1>1
  <1>2. CASE UNCHANGED <<snap, target>> /\ (ssink' # "none" => ssink # "none")
    BY <1>2
  <1>3. CASE PumpPublishes
    <2>1. UNCHANGED <<snap, target>>
      BY <1>3 DEF PumpPublishes
    <2>2. ssink' # "none" => ssink # "none"
      BY <1>3 DEF PumpPublishes
    <2> QED
      BY <1>2, <2>1, <2>2
  <1>4. CASE SnapCopied
    BY <1>2, <1>4 DEF SnapCopied
  <1>5. ASSUME NEW p \in Snappers, UNCHANGED <<target, ssink>>, snap[p] # "wait",
               snap' = [snap EXCEPT ![p] = "idle"] \/ snap' = [snap EXCEPT ![p] = "set"]
               \/ snap' = [snap EXCEPT ![p] = "direct"] \/ snap' = [snap EXCEPT ![p] = "grab"]
        PROVE  Shooting'
    <2>1. /\ snap'[p] # "arm"
          /\ \A q \in Snappers : q # p => snap'[q] = snap[q]
      BY <1>0, <1>5
    <2> QED
      BY <1>5, <2>1
  <1>6. ASSUME NEW p \in Snappers, SnapBegins(p) PROVE Shooting'
    BY <1>5, <1>6 DEF SnapBegins
  <1>7. ASSUME NEW p \in Snappers, SnapSets(p) PROVE Shooting'
    <2>1. CASE enc.running
      <3>1. snap[p] = "set" /\ target' = p /\ ssink' = ssink
        BY <1>7, <2>1 DEF SnapSets
      <3>2. ssink = "none"
        BY <3>1
      <3> QED
        BY <3>1, <3>2
    <2>2. CASE ~enc.running
      BY <1>5, <1>7, <2>2 DEF SnapSets
    <2> QED
      BY <2>1, <2>2
  <1>8. ASSUME NEW p \in Snappers, SnapArms(p) PROVE Shooting'
    <2>1. snap[p] = "arm" /\ target' = target /\ target = p
      BY <1>8 DEF SnapArms
    <2>2. CASE ssink = "none"
      <3>1. snap' = [snap EXCEPT ![p] = "wait"]
        BY <1>8, <2>2 DEF SnapArms
      <3>2. snap'[p] = "wait"
        BY <1>0, <3>1
      <3> QED
        BY <2>1, <3>2
    <2>3. CASE ssink # "none"
      BY <2>1, <2>3
    <2> QED
      BY <2>2, <2>3
  <1>9. ASSUME NEW p \in Snappers, SnapReturns(p) PROVE Shooting'
    <2>1. ssink' = "none" /\ target' = target
      BY <1>9 DEF SnapReturns
    <2>2. snap'[p] = "idle"
      BY <1>0, <1>9 DEF SnapReturns
    <2> QED
      BY <2>1, <2>2
  <1>10. ASSUME NEW p \in Snappers, SnapStarts(p) PROVE Shooting'
    BY <1>5, <1>10 DEF SnapStarts
  <1>11. ASSUME NEW p \in Snappers, SnapStops(p) PROVE Shooting'
    BY <1>5, <1>11 DEF SnapStops
  <1> QED
    BY <1>1, <1>3, <1>4, <1>6, <1>7, <1>8, <1>9, <1>10, <1>11, CsKinds
       DEF CapInit, CapStart, CapDeinit, CapStop, InitDrains, InitCamera, InitRest, StartGives, Started,
           StopParks, StopDrains, DeinitDrains, DeinitFrees, PumpLoops, PumpTakes, PumpWakes, PumpGets,
           SinkTakes, SinkDone, csVars

\* What the handles' owners, the pump and the sinks rely on, for any number of snapshots.
THEOREM CaptureInductive == CsInit /\ [][CsNext]_csVars => []CsInv
  <1>1. CsInit => CsInv
    BY CsInvInit
  <1>2. CsInv /\ [CsNext]_csVars => CsInv'
    BY CsTypesStep, CountedStep, UppedStep, QuietStep, StreamingStep, TokenStep, BuffersStep DEF CsInv
  <1> QED
    BY <1>1, <1>2, PTL

\* What the invariant says of the capture, but for the snapshot.
LEMMA CsInvServes ==
  CsInv => RunsForStarted /\ BuffersKept /\ PoolKept /\ StreamServed /\ TokenKept
  <1> SUFFICES ASSUME CsInv
               PROVE  RunsForStarted /\ StreamServed
    BY DEF CsInv
  <1>1. CsTypes /\ CsCounted /\ CsStreaming
    BY DEF CsInv
  <1>2. RunsForStarted
    <2>1. /\ refs.init = Cardinality({h \in Handles : hnd[h] # "none"})
          /\ refs.start = Cardinality({h \in Handles : hnd[h] = "run"})
      BY <1>1 DEF CsCounted, Opened, Running
    <2>2. LifeIn("idle") => (enc.running <=> refs.start > 0)
      BY <1>1 DEF CsCounted, LifeIn
    <2>3. enc.running \in BOOLEAN
      BY <1>1 DEF CsTypes, Encs
    <2>4. LifeIn("idle") => enc.running = (refs.start > 0)
      BY <2>2, <2>3
    <2> QED
      BY <2>1, <2>4 DEF RunsForStarted
  <1>3. enc.running /\ LifeIn("idle") => refs.init > 0
    BY <1>1, HandlesFinite DEF CsCounted, LifeIn
  <1>4. StreamServed
    BY <1>1, <1>3 DEF StreamServed, CsStreaming
  <1> QED
    BY <1>2, <1>4

\* The capture runs for who started it, keeps its buffers and its pool, whatever many snapshots do.
THEOREM CaptureServes ==
  CsInit /\ [][CsNext]_csVars => [](RunsForStarted /\ BuffersKept /\ PoolKept /\ StreamServed /\ TokenKept)
  BY CaptureInductive, CsInvServes, PTL

\* With snapshots taken by one task the copy goes to the call that waits for it, too.
THEOREM CaptureCorrect == OneSnapper => (CsInit /\ [][CsNext]_csVars => []CaptureSound)
  <1> SUFFICES ASSUME OneSnapper
               PROVE  CsInit /\ [][CsNext]_csVars => []CaptureSound
    OBVIOUS
  <1>1. CsInit => CsInv /\ Shooting
    BY CsInvInit DEF CsInit, Shooting
  <1>2. CsInv /\ Shooting /\ [CsNext]_csVars => Shooting'
    BY ShootingStep DEF CsInv
  <1>3. CsInv /\ Shooting => CaptureSound
    BY CsInvServes DEF CaptureSound, Shooting, SnapshotTargetAlive
  <1> QED
    BY <1>1, <1>2, <1>3, CaptureInductive, PTL

----------------------------------------------------------------------------
(* The camera: the inductive invariant                                     *)

CameraStates == [there : BOOLEAN, fd : BOOLEAN, alloc : BOOLEAN, on : BOOLEAN,
                 mem : SUBSET Bufs, used : SUBSET Bufs, drv : SUBSET Bufs, same : SUBSET Bufs]

\* What every step of a start keeps.
WellKept(c) ==
  /\ c \in CameraStates
  /\ (c.on => c.alloc) /\ (c.alloc => c.fd)
  /\ c.mem = IF c.alloc THEN Bufs ELSE {}

\* A frame of the session that runs.
Current(r) == held[r] # 0 /\ r \notin late

\* A frame is current only while its session streams, in the memory it was filled in.
ViInv ==
  /\ WellKept(v4l2) /\ (~v4l2.there => v4l2 = NoCamera)
  /\ held \in [Readers -> 0..NBufs] /\ late \in SUBSET Readers
  /\ \A r \in Readers : Current(r) => v4l2.on /\ held[r] \in v4l2.same
  /\ ReaderSafe /\ NoBufferLost

LEMMA CameraIsSound == ViInv => CameraSound
  <1>1. ViInv => MemoryAccounted
    BY DEF ViInv, WellKept, CameraStates, MemoryAccounted
  <1> QED
    BY <1>1 DEF ViInv, CameraSound

\* What a step of a start ends in: a camera that streams after a success has all its buffers with
\* the driver, and one that streams after a failure streamed before.
EndsWell(c, o) ==
  /\ WellKept(o.c) /\ o.c.there = c.there
  /\ o.ok /\ o.c.on => o.c.drv = Bufs
  /\ ~o.ok /\ o.c.on => c.on

LEMMA QueueEnds ==
  ASSUME NEW c, WellKept(c), NEW o \in QueueAll(c)
  PROVE  EndsWell(c, o) /\ o.c.on \in {FALSE, c.on} /\ (o.ok => o.c.drv = Bufs /\ o.c.on = c.on)
         /\ o.c.alloc = c.alloc
  <1> USE DEF WellKept, CameraStates, EndsWell, Ends
  <1> DEFINE FailsAt(b, e) ==
        Ends([c EXCEPT !.used = @ \ (1..b), !.drv = IF b > 1 THEN {} ELSE @,
                       !.on = @ /\ b = 1], FALSE, e)
  <1>1. \/ \E b \in Bufs, e \in {0, 1} : o = FailsAt(b, e)
        \/ o = Ends([c EXCEPT !.used = {}, !.drv = Bufs], TRUE, 0)
    <2>1. \A b \in c.drv : b \in Bufs
      OBVIOUS
    <2> QED
      BY <2>1 DEF QueueAll
  <1>2. ASSUME NEW b \in Bufs, NEW e \in {0, 1}, o = FailsAt(b, e)
        PROVE  EndsWell(c, o) /\ o.c.on \in {FALSE, c.on} /\ ~o.ok /\ o.c.alloc = c.alloc
    BY <1>2
  <1>3. ASSUME o = Ends([c EXCEPT !.used = {}, !.drv = Bufs], TRUE, 0)
        PROVE  EndsWell(c, o) /\ o.c.on = c.on /\ o.c.drv = Bufs /\ o.c.alloc = c.alloc
    BY <1>3
  <1> QED
    BY <1>1, <1>2, <1>3

LEMMA RestartEnds ==
  ASSUME NEW c, WellKept(c), c.alloc, NEW o \in Restart(c)
  PROVE  EndsWell(c, o)
  <1>1. CASE o \in QueueAll(c)
    BY <1>1, QueueEnds
  <1>2. ASSUME NEW q \in QueueAll(c), q.ok,
               o = Ends([q.c EXCEPT !.on = TRUE], TRUE, q.e) \/ o = Ends(q.c, FALSE, q.e + 1)
        PROVE  EndsWell(c, o)
    <2>1. EndsWell(c, q) /\ q.c.on = c.on /\ q.c.drv = Bufs /\ q.c.alloc
      BY <1>2, QueueEnds
    <2>2. WellKept(q.c) /\ q.c \in CameraStates
      BY <2>1 DEF EndsWell, WellKept
    <2>3. CASE o = Ends([q.c EXCEPT !.on = TRUE], TRUE, q.e)
      <3>1. o.c = [q.c EXCEPT !.on = TRUE] /\ o.ok
        BY <2>3 DEF Ends
      <3>2. /\ o.c \in CameraStates /\ o.c.alloc = q.c.alloc /\ o.c.mem = q.c.mem
            /\ o.c.drv = q.c.drv /\ o.c.there = q.c.there
        BY <2>2, <3>1 DEF CameraStates
      <3> QED
        BY <2>1, <2>2, <3>1, <3>2 DEF EndsWell, WellKept
    <2>4. CASE o = Ends(q.c, FALSE, q.e + 1)
      BY <2>1, <2>2, <2>4 DEF EndsWell, Ends
    <2> QED
      BY <1>2, <2>3, <2>4
  <1> QED
    BY <1>1, <1>2 DEF Restart

LEMMA AllocateEnds ==
  ASSUME NEW c, WellKept(c), ~c.alloc, c.fd, NEW o \in Allocate(c)
  PROVE  EndsWell(c, o) /\ ~o.c.on /\ (o.ok => o.c.drv = Bufs /\ o.c.alloc)
  <1> USE DEF WellKept, CameraStates, EndsWell, Ends
  <1>1. ASSUME NEW s \in {{}, c.same},
               o = Ends([c EXCEPT !.drv = Bufs, !.mem = Bufs, !.alloc = TRUE, !.same = s], TRUE, 0)
        PROVE  EndsWell(c, o) /\ ~o.c.on /\ (o.ok => o.c.drv = Bufs /\ o.c.alloc)
    <2>1. o.c = [c EXCEPT !.drv = Bufs, !.mem = Bufs, !.alloc = TRUE, !.same = s] /\ s \in SUBSET Bufs
      BY <1>1
    <2>2. /\ o.c \in CameraStates /\ o.c.alloc /\ o.c.mem = Bufs /\ o.c.drv = Bufs
          /\ o.c.on = c.on /\ o.c.there = c.there /\ o.c.fd = c.fd
      BY <2>1
    <2> QED
      BY <2>2
  <1>2. ASSUME NEW b \in Bufs, o = Ends([c EXCEPT !.drv = 1..(b - 1), !.mem = {}], FALSE, 1)
        PROVE  EndsWell(c, o) /\ ~o.c.on /\ ~o.ok
    <2>1. 1..(b - 1) \subseteq Bufs
      BY ViAssumption DEF Bufs
    <2> QED
      BY <1>2, <2>1
  <1>3. ASSUME o = Ends(c, FALSE, 1)
        PROVE  EndsWell(c, o) /\ ~o.c.on /\ ~o.ok
    BY <1>3
  <1> QED
    BY <1>1, <1>2, <1>3 DEF Allocate

LEMMA StreamEnds ==
  ASSUME NEW c, WellKept(c), c.alloc, ~c.on, c.drv = Bufs, NEW o \in StartStreaming(c)
  PROVE  EndsWell(c, o)
  <1>1. CASE o = Ends([c EXCEPT !.on = TRUE], TRUE, 0)
    <2>1. o.c = [c EXCEPT !.on = TRUE] /\ o.ok
      BY <1>1 DEF Ends
    <2>2. /\ o.c \in CameraStates /\ o.c.alloc = c.alloc /\ o.c.mem = c.mem
          /\ o.c.drv = c.drv /\ o.c.there = c.there
      BY <2>1 DEF WellKept, CameraStates
    <2> QED
      BY <2>1, <2>2 DEF EndsWell, WellKept
  <1>2. CASE o = Ends([c EXCEPT !.mem = {}, !.alloc = FALSE], FALSE, 1)
    <2>1. o.c = [c EXCEPT !.mem = {}, !.alloc = FALSE] /\ ~o.ok
      BY <1>2 DEF Ends
    <2>2. /\ o.c \in CameraStates /\ ~o.c.alloc /\ o.c.mem = {}
          /\ o.c.on = c.on /\ o.c.there = c.there
      BY <2>1 DEF WellKept, CameraStates
    <2> QED
      BY <2>1, <2>2 DEF EndsWell, WellKept
  <1> QED
    BY <1>1, <1>2 DEF StartStreaming

\* A start from a camera without buffers: format, buffers, stream.
LEMMA FreshEnds ==
  ASSUME NEW c, WellKept(c), ~c.alloc, NEW o \in Fresh(c)
  PROVE  EndsWell(c, o)
  <1> DEFINE made == Then(ConfigureFormat(c), Allocate)
  <1>0. ~c.on
    BY DEF WellKept
  <1>1. ASSUME NEW f \in ConfigureFormat(c) PROVE f.c = c /\ (f.ok => c.fd)
    <2>1. CASE c.fd
      BY <1>1, <2>1 DEF ConfigureFormat, Ends
    <2>2. CASE ~c.fd
      BY <1>1, <2>2 DEF ConfigureFormat, Ends
    <2> QED
      BY <2>1, <2>2
  <1>2. ASSUME NEW m \in made PROVE EndsWell(c, m) /\ ~m.c.on /\ (m.ok => m.c.drv = Bufs /\ m.c.alloc)
    <2>1. CASE m \in ConfigureFormat(c) /\ ~m.ok
      BY <1>0, <1>1, <2>1 DEF EndsWell
    <2>2. ASSUME NEW f \in ConfigureFormat(c), f.ok, NEW n \in Allocate(f.c),
                 m = Ends(n.c, n.ok, n.e + f.e)
          PROVE  EndsWell(c, m) /\ ~m.c.on /\ (m.ok => m.c.drv = Bufs /\ m.c.alloc)
      <3>1. n \in Allocate(c) /\ c.fd
        BY <1>1, <2>2
      <3>2. m.c = n.c /\ m.ok = n.ok
        BY <2>2 DEF Ends
      <3> QED
        BY <3>1, <3>2, AllocateEnds DEF EndsWell
    <2> QED
      BY <2>1, <2>2 DEF Then
  <1>3. ASSUME NEW m \in made, m.ok, NEW n \in StartStreaming(m.c), o = Ends(n.c, n.ok, n.e + m.e)
        PROVE  EndsWell(c, o)
    <2>1. EndsWell(c, m) /\ WellKept(m.c) /\ ~m.c.on /\ m.c.drv = Bufs /\ m.c.alloc
      BY <1>2, <1>3 DEF EndsWell
    <2>2. EndsWell(m.c, n)
      BY <1>3, <2>1, StreamEnds
    <2>3. o.c = n.c /\ o.ok = n.ok
      BY <1>3 DEF Ends
    <2> QED
      BY <2>1, <2>2, <2>3 DEF EndsWell
  <1>4. CASE o \in made
    BY <1>2, <1>4
  <1> QED
    BY <1>3, <1>4 DEF Fresh, Then

\* Opening a camera that has no buffers.
LEMMA OpenEnds ==
  ASSUME NEW c, WellKept(c), ~c.alloc, NEW f \in InitCameraFd(c)
  PROVE  WellKept(f.c) /\ ~f.c.alloc /\ ~f.c.on /\ f.c.there = c.there
  <1>1. f.c \in {c, [c EXCEPT !.fd = TRUE]}
    BY DEF InitCameraFd, Ends
  <1>2. CASE f.c = c
    BY <1>1, <1>2 DEF WellKept
  <1>3. CASE f.c = [c EXCEPT !.fd = TRUE]
    <2>1. /\ f.c \in CameraStates /\ f.c.alloc = c.alloc /\ f.c.mem = c.mem
          /\ f.c.on = c.on /\ f.c.there = c.there
      BY <1>3 DEF WellKept, CameraStates
    <2> QED
      BY <1>1, <2>1 DEF WellKept
  <1> QED
    BY <1>1, <1>2, <1>3

\* A start, whatever the camera was left in.
LEMMA StartEnds ==
  ASSUME NEW c, WellKept(c), NEW o \in IfStart(c)
  PROVE  EndsWell(c, o)
  <1>1. CASE uvc /\ c.alloc
    <2>1. Released(c) = [c EXCEPT !.mem = {}, !.used = {}, !.alloc = FALSE, !.fd = FALSE,
                                  !.on = FALSE, !.drv = {}]
      BY <1>1 DEF Released
    <2>2. WellKept(Released(c)) /\ ~Released(c).alloc /\ ~Released(c).on
          /\ Released(c).there = c.there
      BY <2>1 DEF WellKept, CameraStates
    <2>3. ASSUME NEW f \in InitCameraFd(Released(c))
          PROVE  WellKept(f.c) /\ ~f.c.alloc /\ ~f.c.on /\ f.c.there = c.there
      BY <2>2, <2>3, OpenEnds
    <2>4. CASE o \in InitCameraFd(Released(c)) /\ ~o.ok
      BY <2>3, <2>4 DEF EndsWell
    <2>5. ASSUME NEW f \in InitCameraFd(Released(c)), NEW n \in Fresh(f.c),
                 o = Ends(n.c, n.ok, n.e + f.e)
          PROVE  EndsWell(c, o)
      <3>1. EndsWell(f.c, n)
        BY <2>3, <2>5, FreshEnds
      <3>2. o.c = n.c /\ o.ok = n.ok
        BY <2>5 DEF Ends
      <3> QED
        BY <2>3, <3>1, <3>2 DEF EndsWell
    <2> QED
      BY <1>1, <2>4, <2>5 DEF IfStart, Then
  <1>2. CASE ~uvc /\ c.alloc
    BY <1>2, RestartEnds DEF IfStart
  <1>3. CASE ~c.alloc
    BY <1>3, FreshEnds DEF IfStart
  <1> QED
    BY <1>1, <1>2, <1>3

\* The first start.
LEMMA FirstEnds ==
  ASSUME NEW k \in OpenAndStart(NoCamera), k.ok
  PROVE  WellKept(k.c) /\ k.c.there /\ (k.c.on => k.c.drv = Bufs)
  <1> DEFINE bare == [NoCamera EXCEPT !.there = TRUE]
  <1>1. WellKept(bare) /\ bare.there /\ ~bare.alloc
    BY DEF NoCamera, WellKept, CameraStates
  <1>2. PICK f \in InitCameraFd(bare) : \E m \in IfStart(f.c) : k = Ends(m.c, m.ok, m.e + f.e)
    BY DEF OpenAndStart, Then
  <1>3. PICK m \in IfStart(f.c) : k = Ends(m.c, m.ok, m.e + f.e)
    BY <1>2
  <1>4. WellKept(f.c) /\ f.c.there
    BY <1>1, OpenEnds
  <1>5. EndsWell(f.c, m)
    BY <1>3, <1>4, StartEnds
  <1>6. k.c = m.c /\ m.ok
    BY <1>3 DEF Ends
  <1> QED
    BY <1>4, <1>5, <1>6 DEF EndsWell

\* After a start or a stop no frame is current: a camera that streams has to have its buffers
\* with the driver.
LEMMA SessionCloses ==
  ASSUME ViInv, AllLate, held' = held, WellKept(v4l2'), ~v4l2'.there => v4l2' = NoCamera,
         v4l2'.on /\ "cut" \notin odd' => v4l2'.drv = Bufs
  PROVE  ViInv'
  <1>1. held' \in [Readers -> 0..NBufs] /\ late' \in SUBSET Readers
    BY DEF ViInv, AllLate
  <1>2. \A r \in Readers : ~Current(r)'
    BY DEF AllLate, Current
  <1>3. ReaderSafe'
    BY <1>2 DEF ReaderSafe, Current
  <1>4. NoBufferLost'
    BY DEF NoBufferLost
  <1> QED
    BY <1>1, <1>2, <1>3, <1>4 DEF ViInv

LEMMA SessionSteps ==
  ASSUME ViInv, Reinit \/ FirstInit \/ Stop \/ Cleanup
  PROVE  ViInv'
  <1> USE DEF ViInv
  <1>0. WellKept(NoCamera) /\ ~NoCamera.on
    BY DEF WellKept, CameraStates, NoCamera
  <1>1. CASE Reinit
    <2>1. PICK o \in IfStart(v4l2) :
            v4l2' = o.c /\ odd' = IF v4l2.on /\ o.c.on /\ ~o.ok THEN odd \cup {"cut"} ELSE odd
      BY <1>1 DEF Reinit
    <2>2. EndsWell(v4l2, o)
      BY StartEnds
    <2>3. v4l2.there /\ AllLate /\ held' = held
      BY <1>1 DEF Reinit
    <2>4. WellKept(v4l2') /\ v4l2'.there
      BY <2>1, <2>2, <2>3 DEF EndsWell
    <2>5. v4l2'.on /\ "cut" \notin odd' => v4l2'.drv = Bufs
      BY <2>1, <2>2 DEF EndsWell
    <2> QED
      BY <2>3, <2>4, <2>5, SessionCloses
  <1>2. CASE FirstInit
    <2>1. AllLate /\ held' = held
      BY <1>2 DEF FirstInit
    <2>2. ASSUME NEW ok \in BOOLEAN, NEW e, NEW n \in Then({Ends(NoCamera, ok, e)}, OpenAndStart), n.ok
          PROVE  WellKept(n.c) /\ n.c.there /\ (n.c.on => n.c.drv = Bufs)
      <3>1. Ends(NoCamera, ok, e).c = NoCamera
        BY DEF Ends
      <3>2. PICK k \in OpenAndStart(NoCamera) : n = Ends(k.c, k.ok, k.e + Ends(NoCamera, ok, e).e)
        BY <2>2, <3>1 DEF Then
      <3>3. n.c = k.c /\ k.ok
        BY <2>2, <3>2 DEF Ends
      <3> QED
        BY <3>2, <3>3, FirstEnds
    <2>3. v4l2' = NoCamera \/ (WellKept(v4l2') /\ v4l2'.there /\ (v4l2'.on => v4l2'.drv = Bufs))
      BY <1>2, <2>2 DEF FirstInit
    <2> QED
      BY <1>0, <2>1, <2>3, SessionCloses
  <1>3. CASE Stop
    <2>1. v4l2 \in CameraStates /\ v4l2.there /\ AllLate /\ held' = held
      BY <1>3 DEF Stop, WellKept
    <2>2. /\ v4l2' \in CameraStates /\ ~v4l2'.on /\ v4l2'.alloc = v4l2.alloc
          /\ v4l2'.mem = v4l2.mem /\ v4l2'.fd = v4l2.fd /\ v4l2'.there
      <3>1. CASE v4l2.fd
        <4>1. v4l2' = [StreamOff(v4l2) EXCEPT !.used = {}]
          BY <1>3, <3>1 DEF Stop
        <4>2. /\ StreamOff(v4l2) \in CameraStates /\ ~StreamOff(v4l2).on
              /\ StreamOff(v4l2).alloc = v4l2.alloc /\ StreamOff(v4l2).mem = v4l2.mem
              /\ StreamOff(v4l2).fd = v4l2.fd /\ StreamOff(v4l2).there
          BY <2>1 DEF StreamOff, CameraStates
        <4> QED
          BY <4>1, <4>2 DEF CameraStates
      <3>2. CASE ~v4l2.fd
        <4>1. v4l2' = [v4l2 EXCEPT !.used = {}] /\ ~v4l2.on
          BY <1>3, <3>2 DEF Stop, WellKept
        <4> QED
          BY <2>1, <4>1 DEF CameraStates
      <3> QED
        BY <3>1, <3>2
    <2>3. WellKept(v4l2')
      BY <2>2 DEF WellKept
    <2> QED
      BY <2>1, <2>2, <2>3, SessionCloses
  <1>4. CASE Cleanup
    BY <1>0, <1>4, SessionCloses DEF Cleanup
  <1> QED
    BY <1>1, <1>2, <1>3, <1>4

\* A frame goes from the driver to a reader that had none.
LEMMA GetStep ==
  ASSUME ViInv, NEW r \in Readers, GetFrame(r)
  PROVE  ViInv'
  <1>0. /\ v4l2 \in CameraStates /\ held \in [Readers -> 0..NBufs] /\ late \in SUBSET Readers
        /\ held[r] = 0 /\ v4l2.there /\ v4l2.on /\ late' = late \ {r} /\ odd' = odd
    BY DEF ViInv, WellKept, GetFrame
  <1>1. PICK b \in v4l2.drv :
          /\ v4l2' = [v4l2 EXCEPT !.drv = @ \ {b}, !.used = @ \cup {b}, !.same = @ \cup {b}]
          /\ held' = [held EXCEPT ![r] = b]
    BY DEF GetFrame
  <1>2. b \in 1..NBufs /\ b # 0
    BY <1>0, ViAssumption DEF CameraStates, Bufs
  <1>3. /\ v4l2' \in CameraStates /\ v4l2'.on = v4l2.on /\ v4l2'.mem = v4l2.mem
        /\ v4l2'.alloc = v4l2.alloc /\ v4l2'.there
        /\ v4l2'.drv = v4l2.drv \ {b} /\ v4l2'.used = v4l2.used \cup {b}
        /\ v4l2'.same = v4l2.same \cup {b}
    BY <1>0, <1>1 DEF CameraStates
  <1>4. /\ held' \in [Readers -> 0..NBufs] /\ held'[r] = b
        /\ \A q \in Readers \ {r} : held'[q] = held[q]
    BY <1>0, <1>1, <1>2
  <1>5. \A q \in Readers \ {r} : Current(q)' = Current(q)
    BY <1>0, <1>4 DEF Current
  <1>6. WellKept(v4l2') /\ b \in v4l2.mem
    BY <1>0, <1>1, <1>3 DEF ViInv, WellKept, CameraStates
  <1>7. \A q \in Readers : Current(q)' => v4l2'.on /\ held'[q] \in v4l2'.same
    BY <1>0, <1>3, <1>4, <1>5 DEF ViInv
  <1>8. ReaderSafe'
    <2> SUFFICES ASSUME "reused" \notin odd
                 PROVE  \A q \in Readers : Current(q)' =>
                          /\ held'[q] \in (v4l2'.used \cap v4l2'.mem) \ v4l2'.drv
                          /\ \A x \in Readers \ {q} : held'[x] = held'[q] => x \in late'
      BY <1>0 DEF ReaderSafe, Current
    <2>1. \A q \in Readers : Current(q) =>
            /\ held[q] \in (v4l2.used \cap v4l2.mem) \ v4l2.drv
            /\ \A x \in Readers \ {q} : held[x] = held[q] => x \in late
      BY DEF ViInv, ReaderSafe, Current
    <2>2. \A q \in Readers \ {r} : Current(q) => held[q] # b
      BY <1>1, <2>1
    <2>3. ASSUME NEW q \in Readers \ {r}, Current(q)
          PROVE  /\ held'[q] \in (v4l2'.used \cap v4l2'.mem) \ v4l2'.drv
                 /\ \A x \in Readers \ {q} : held'[x] = held'[q] => x \in late'
      BY <1>0, <1>3, <1>4, <2>1, <2>2, <2>3
    <2>4. /\ held'[r] \in (v4l2'.used \cap v4l2'.mem) \ v4l2'.drv
          /\ \A x \in Readers \ {r} : held'[x] = held'[r] => x \in late'
      BY <1>0, <1>2, <1>3, <1>4, <1>6, <2>2 DEF Current
    <2> QED
      BY <1>5, <2>3, <2>4
  <1>9. NoBufferLost'
    <2> SUFFICES ASSUME "cut" \notin odd, NEW x \in Bufs \ v4l2'.drv
                 PROVE  x \in v4l2'.used /\ \E q \in Readers : held'[q] = x /\ q \notin late'
      BY <1>0 DEF NoBufferLost
    <2>1. CASE x = b
      BY <1>0, <1>3, <1>4, <2>1
    <2>2. CASE x # b
      <3>1. x \in v4l2.used /\ \E q \in Readers : held[q] = x /\ q \notin late
        BY <1>0, <1>3, <2>2 DEF ViInv, NoBufferLost
      <3>2. x # 0
        BY ViAssumption DEF Bufs
      <3> QED
        BY <1>0, <1>3, <1>4, <3>1, <3>2
    <2> QED
      BY <2>1, <2>2
  <1> QED
    BY <1>0, <1>3, <1>4, <1>6, <1>7, <1>8, <1>9 DEF ViInv

\* A reader's return goes to the driver if it is for a buffer in use at the same place.
LEMMA ReleaseStep ==
  ASSUME ViInv, NEW r \in Readers, ReleaseFrame(r)
  PROVE  ViInv'
  <1> DEFINE b == held[r]
             taken == v4l2.there /\ b \in v4l2.mem \cap v4l2.same \cap v4l2.used
  <1>0. /\ v4l2 \in CameraStates /\ held \in [Readers -> 0..NBufs] /\ late \in SUBSET Readers
        /\ b # 0 /\ late' = late \ {r} /\ held' = [held EXCEPT ![r] = 0]
        /\ v4l2' = (IF taken THEN [v4l2 EXCEPT !.used = @ \ {b}, !.drv = @ \cup {b}] ELSE v4l2)
        /\ odd' = (IF taken /\ r \in late THEN odd \cup {"reused"} ELSE odd)
    BY DEF ViInv, WellKept, ReleaseFrame
  <1>1. /\ held' \in [Readers -> 0..NBufs] /\ held'[r] = 0
        /\ \A q \in Readers \ {r} : held'[q] = held[q]
    BY <1>0, ViAssumption
  <1>2. /\ v4l2' \in CameraStates /\ v4l2'.on = v4l2.on /\ v4l2'.mem = v4l2.mem
        /\ v4l2'.alloc = v4l2.alloc /\ v4l2'.there = v4l2.there /\ v4l2'.same = v4l2.same
        /\ v4l2'.used = (IF taken THEN v4l2.used \ {b} ELSE v4l2.used)
        /\ v4l2'.drv = (IF taken THEN v4l2.drv \cup {b} ELSE v4l2.drv)
    <2>1. CASE taken
      <3>1. v4l2' = [v4l2 EXCEPT !.used = @ \ {b}, !.drv = @ \cup {b}] /\ b \in v4l2.mem
        BY <1>0, <2>1
      <3>2. /\ v4l2' \in CameraStates /\ v4l2'.on = v4l2.on /\ v4l2'.mem = v4l2.mem
            /\ v4l2'.alloc = v4l2.alloc /\ v4l2'.there = v4l2.there /\ v4l2'.same = v4l2.same
        <4>1. {b} \subseteq Bufs /\ v4l2.used \ {b} \subseteq Bufs /\ v4l2.drv \cup {b} \subseteq Bufs
          BY <1>0, <3>1 DEF CameraStates
        <4> HIDE DEF b
        <4> QED
          BY <1>0, <3>1, <4>1 DEF CameraStates
      <3>3. v4l2'.used = v4l2.used \ {b} /\ v4l2'.drv = v4l2.drv \cup {b}
        BY <1>0, <3>1 DEF CameraStates
      <3> QED
        BY <2>1, <3>2, <3>3
    <2>2. CASE ~taken
      BY <1>0, <2>2
    <2> QED
      BY <2>1, <2>2
  <1>3. WellKept(v4l2') /\ (~v4l2'.there => v4l2' = NoCamera)
    <2>1. ~v4l2.there => ~taken
      OBVIOUS
    <2> QED
      BY <1>0, <1>2, <2>1 DEF ViInv, WellKept
  <1>4. ~Current(r)' /\ \A q \in Readers \ {r} : Current(q)' = Current(q)
    BY <1>0, <1>1 DEF Current
  <1>5. \A q \in Readers : Current(q)' => v4l2'.on /\ held'[q] \in v4l2'.same
    BY <1>1, <1>2, <1>4 DEF ViInv
  <1>6. ReaderSafe'
    <2> SUFFICES ASSUME "reused" \notin odd', NEW q \in Readers \ {r}, Current(q)
                 PROVE  /\ held'[q] \in (v4l2'.used \cap v4l2'.mem) \ v4l2'.drv
                        /\ \A x \in Readers \ {q} : held'[x] = held'[q] => x \in late'
      BY <1>4 DEF ReaderSafe, Current
    <2>1. "reused" \notin odd /\ ~(taken /\ r \in late)
      BY <1>0
    <2>2. \A y \in Readers : Current(y) =>
            /\ held[y] \in (v4l2.used \cap v4l2.mem) \ v4l2.drv
            /\ \A x \in Readers \ {y} : held[x] = held[y] => x \in late
      BY <2>1 DEF ViInv, ReaderSafe, Current
    <2>3. taken => held[q] # b
      <3>1. taken => Current(r)
        BY <1>0, <2>1 DEF Current
      <3> QED
        BY <2>2, <3>1 DEF Current
    <2>4. held[q] # 0
      BY DEF Current
    <2> QED
      BY <1>0, <1>1, <1>2, <2>2, <2>3, <2>4
  <1>7. NoBufferLost'
    <2> SUFFICES ASSUME v4l2.on, "cut" \notin odd, NEW x \in Bufs \ v4l2'.drv
                 PROVE  x \in v4l2'.used /\ \E q \in Readers : held'[q] = x /\ q \notin late'
      BY <1>0, <1>2 DEF NoBufferLost
    <2>1. x \in v4l2.used /\ x \notin v4l2.drv
      BY <1>2 DEF ViInv, NoBufferLost
    <2>2. PICK q \in Readers : held[q] = x /\ q \notin late
      BY <1>2 DEF ViInv, NoBufferLost
    <2>3. x # 0
      BY ViAssumption DEF Bufs
    <2>4. q # r
      <3>1. SUFFICES ASSUME q = r PROVE taken
        BY <1>2, <2>2
      <3>2. Current(r) /\ b = x
        BY <2>2, <2>3, <3>1 DEF Current
      <3>3. v4l2.there /\ v4l2.mem = Bufs
        BY DEF ViInv, WellKept, NoCamera
      <3> QED
        BY <2>1, <3>2, <3>3 DEF ViInv
    <2>5. x # b \/ ~taken
      BY <1>2
    <2> QED
      BY <1>0, <1>1, <1>2, <2>1, <2>2, <2>4, <2>5
  <1> QED
    BY <1>0, <1>1, <1>3, <1>5, <1>6, <1>7 DEF ViInv

LEMMA CameraInductive ==
  /\ ViInit => ViInv
  /\ ViInv /\ [ViNext]_viVars => ViInv'
  <1>1. ASSUME ViInit PROVE ViInv
    <2>1. v4l2 = NoCamera /\ held = [r \in Readers |-> 0] /\ late = {}
      BY <1>1 DEF ViInit
    <2>2. WellKept(v4l2) /\ ~v4l2.on
      BY <2>1 DEF WellKept, CameraStates, NoCamera
    <2>3. \A r \in Readers : ~Current(r)
      BY <2>1 DEF Current
    <2>4. ReaderSafe /\ NoBufferLost
      BY <2>1, <2>2 DEF ReaderSafe, NoBufferLost
    <2> QED
      BY <2>1, <2>2, <2>3, <2>4, ViAssumption DEF ViInv
  <1>2. ASSUME ViInv, UNCHANGED viVars PROVE ViInv'
    BY <1>2 DEF viVars, ViInv, WellKept, Current, ReaderSafe, NoBufferLost
  <1>3. ASSUME ViInv, ViNext PROVE ViInv'
    BY <1>3, SessionSteps, GetStep, ReleaseStep DEF ViNext
  <1> QED
    BY <1>1, <1>2, <1>3

----------------------------------------------------------------------------
(* Encoded frames: the inductive invariant                                 *)

Units == [n : Nat, idr : BOOLEAN]

EsTypes ==
  /\ through \in BOOLEAN /\ seq \in Nat /\ coded \in Nat /\ lastSeq \in Nat
  /\ waiting \in Units /\ (waiting = NoAU \/ waiting.n > 0)
  /\ work \in [pc : {"idle", "coded"}, au : Units] /\ (work.pc = "idle" => work = NoWork)
  /\ esWaitIdr \in BOOLEAN /\ esStart \in BOOLEAN
  /\ esink \in [EncSinks -> [use : BOOLEAN, enabled : BOOLEAN, gate : BOOLEAN]]
  /\ got \in [EncSinks -> Nat]
  /\ \A s \in EncSinks : esink[s].enabled => esink[s].use

\* The sinks in the middle of a stream, and the number of the last frame made for them.
Flowing == {s \in EncSinks : esink[s].enabled /\ ~esink[s].gate}
Latest == IF through THEN lastSeq ELSE coded

\* Every flowing sink has the last frame made, or the next one will be a keyframe; the frame in
\* the task's hand follows what they have.
EsFlow ==
  /\ broken = {}
  /\ lastSeq = 0 \/ esStart => esWaitIdr
  /\ work.pc = "idle" => (through /\ esWaitIdr) \/ \A s \in Flowing : got[s] = Latest
  /\ work.pc = "coded" =>
       /\ work.au.n = Latest /\ (through => ~esWaitIdr)
       /\ work.au.idr \/ \A s \in Flowing : got[s] + 1 = Latest

EsInv == EsTypes /\ CountMatches /\ (spoilt = {} => EsFlow)

LEMMA StreamsAreSound == EsInv => StreamsSound
  BY DEF EsInv, EsFlow, StreamsSound, Decodable

\* What the bus and the sink's task do to what waits and to the unit in hand.
LEMMA UnitTypes ==
  ASSUME EsInv,
         Publish \/ DropWaiting \/ UnitBegins \/ UnitEncoded \/ PoolFails \/ StartWaits \/ StartForgets
  PROVE  EsTypes' /\ CountMatches'
  <1> USE DEF EsInv, EsTypes, Units, NoAU, NoWork, sinks, CountMatches
  <1>1. CASE Publish
    BY <1>1 DEF Publish, gates
  <1>2. CASE DropWaiting
    BY <1>2 DEF DropWaiting, gates
  <1>3. CASE UnitBegins
    <2>1. waiting \in Units /\ waiting' = NoAU
      BY <1>3 DEF UnitBegins
    <2>2. work' \in {NoWork, [pc |-> "coded", au |-> waiting]} /\ esWaitIdr' \in BOOLEAN
      BY <1>3 DEF UnitBegins
    <2>3. lastSeq' = waiting.n
      BY <1>3 DEF UnitBegins
    <2> QED
      BY <1>3, <2>1, <2>2, <2>3 DEF UnitBegins
  <1>4. CASE UnitEncoded
    BY <1>4 DEF UnitEncoded, gates
  <1>5. CASE PoolFails
    BY <1>5 DEF PoolFails
  <1>6. CASE StartWaits
    BY <1>6 DEF StartWaits
  <1>7. CASE StartForgets
    BY <1>7 DEF StartForgets
  <1> QED
    BY <1>1, <1>2, <1>3, <1>4, <1>5, <1>6, <1>7

\* A unit the task begins with: a gap in the numbers waits for the next keyframe, so one that is
\* passed on is a keyframe or follows the last.
LEMMA UnitFlows ==
  ASSUME EsInv, UnitBegins, spoilt' = {}
  PROVE  EsFlow'
  <1> USE DEF EsInv, EsTypes, EsFlow, Units, NoAU, NoWork
  <1> DEFINE gap  == lastSeq # 0 /\ waiting.n # lastSeq + 1
             drop == (esWaitIdr \/ gap) /\ ~waiting.idr
  <1>1. /\ work.pc = "idle" /\ waiting.n > 0 /\ through /\ through' = through
        /\ esWaitIdr' = drop /\ lastSeq' = waiting.n
        /\ work' = IF drop THEN NoWork ELSE [pc |-> "coded", au |-> waiting]
        /\ UNCHANGED sinks /\ UNCHANGED esStart
    BY DEF UnitBegins
  <1>2. spoilt = {} /\ ~esStart /\ EsFlow
    BY DEF UnitBegins
  <1>3. Flowing' = Flowing /\ got' = got /\ broken' = broken
    BY <1>1 DEF Flowing, sinks
  <1>4. Latest' = waiting.n /\ Latest = lastSeq
    BY <1>1 DEF Latest
  <1>5. CASE drop
    BY <1>1, <1>2, <1>3, <1>4, <1>5
  <1>6. CASE ~drop
    <2>1. waiting.idr \/ (~esWaitIdr /\ waiting.n = lastSeq + 1)
      BY <1>2, <1>6
    <2>2. waiting.idr \/ \A s \in Flowing : got[s] + 1 = waiting.n
      <3>1. ~esWaitIdr => \A s \in Flowing : got[s] = lastSeq
        BY <1>1, <1>2, <1>4
      <3> QED
        BY <2>1, <3>1
    <2> QED
      BY <1>1, <1>2, <1>3, <1>4, <1>6, <2>2
  <1> QED
    BY <1>5, <1>6

\* The other steps of the task, of the bus and of a start.
LEMMA OthersFlow ==
  ASSUME EsInv, spoilt' = {},
         Publish \/ DropWaiting \/ UnitEncoded \/ PoolFails \/ StartWaits \/ StartForgets
  PROVE  EsFlow'
  <1> USE DEF EsInv, EsTypes, Units, NoAU, NoWork
  <1>1. UNCHANGED sinks /\ spoilt = {} /\ EsFlow
    BY DEF Publish, DropWaiting, UnitEncoded, PoolFails, StartWaits, StartForgets
  <1>2. Flowing' = Flowing /\ got' = got /\ broken' = broken
    BY <1>1 DEF Flowing, sinks
  <1>3. CASE Publish \/ DropWaiting
    BY <1>1, <1>2, <1>3 DEF Publish, DropWaiting, gates, EsFlow, Latest
  <1>4. CASE UnitEncoded
    BY <1>1, <1>2, <1>4 DEF UnitEncoded, gates, EsFlow, Latest
  <1>5. CASE PoolFails
    BY <1>1, <1>2, <1>5 DEF PoolFails, EsFlow, Latest
  <1>6. CASE StartWaits
    BY <1>1, <1>2, <1>6 DEF StartWaits, EsFlow, Latest
  <1>7. CASE StartForgets
    BY <1>1, <1>2, <1>7 DEF StartForgets, EsFlow, Latest
  <1> QED
    BY <1>3, <1>4, <1>5, <1>6, <1>7

\* A dispatch gives the unit to every flowing sink, and to the others that are enabled if it is a
\* keyframe.
LEMMA DispatchStep ==
  ASSUME EsInv, DispatchUnit
  PROVE  EsInv'
  <1> DEFINE enabled == {s \in EncSinks : esink[s].enabled}
             to == {s \in EncSinks : esink[s].use /\ esink[s].enabled
                                     /\ (esink[s].gate => work.au.idr)}
  <1>0. EsTypes /\ count = Cardinality(enabled) /\ IsFiniteSet(enabled)
    BY EsAssumption, FS_Subset DEF EsInv, CountMatches
  <1>1. /\ work.pc = "coded" /\ work' = NoWork
        /\ UNCHANGED <<through, seq, waiting, coded, gates>>
        /\ spoilt' = IF esStart THEN spoilt \cup {"overlap"} ELSE spoilt
    BY DEF DispatchUnit
  <1>2. PICK quits \in SUBSET to :
          IF count = 0 THEN quits = {} /\ UNCHANGED sinks
          ELSE /\ esink' = [s \in EncSinks |->
                              IF s \in quits THEN NoESink
                              ELSE IF s \in to THEN [esink[s] EXCEPT !.gate = FALSE] ELSE esink[s]]
               /\ count' = count - Cardinality(quits)
               /\ got' = [s \in EncSinks |-> IF s \in to THEN work.au.n ELSE got[s]]
               /\ broken' = broken \cup {s \in to : ~work.au.idr /\ got[s] # work.au.n - 1}
    BY DEF DispatchUnit
  <1>3. CASE count = 0
    <2>1. enabled = {}
      BY <1>0, <1>3, FS_EmptySet
    <2>2. Flowing = {} /\ UNCHANGED sinks
      BY <1>2, <1>3, <2>1 DEF Flowing
    <2>3. EsTypes' /\ CountMatches'
      BY <1>0, <1>1, <2>2 DEF EsInv, EsTypes, NoWork, NoAU, Units, sinks, gates, CountMatches
    <2>4. Flowing' = {}
      BY <2>2 DEF Flowing, sinks
    <2>5. spoilt' = {} => EsFlow'
      BY <1>1, <2>2, <2>4 DEF EsInv, EsFlow, sinks, gates, NoWork
    <2> QED
      BY <2>3, <2>5 DEF EsInv
  <1>4. CASE count # 0
    <2>1. /\ esink' = [s \in EncSinks |->
                         IF s \in quits THEN NoESink
                         ELSE IF s \in to THEN [esink[s] EXCEPT !.gate = FALSE] ELSE esink[s]]
          /\ count' = count - Cardinality(quits)
          /\ got' = [s \in EncSinks |-> IF s \in to THEN work.au.n ELSE got[s]]
          /\ broken' = broken \cup {s \in to : ~work.au.idr /\ got[s] # work.au.n - 1}
      BY <1>2, <1>4
    <2>2. \A s \in EncSinks :
            esink[s] \in [use : BOOLEAN, enabled : BOOLEAN, gate : BOOLEAN]
      BY <1>0 DEF EsTypes
    <2>3. /\ esink' \in [EncSinks -> [use : BOOLEAN, enabled : BOOLEAN, gate : BOOLEAN]]
          /\ \A s \in EncSinks : esink'[s].enabled => esink'[s].use
          /\ \A s \in EncSinks : esink'[s].enabled <=> s \in enabled \ quits
          /\ \A s \in EncSinks : esink'[s].enabled /\ ~esink'[s].gate => s \in to
      BY <1>0, <2>1, <2>2 DEF NoESink, EsTypes
    <2>4. {s \in EncSinks : esink'[s].enabled} = enabled \ quits
      BY <2>3
    <2>5. Cardinality(enabled \ quits) = Cardinality(enabled) - Cardinality(enabled \cap quits)
      BY <1>0, FS_Difference, FS_Subset
    <2>6. enabled \cap quits = quits
      OBVIOUS
    <2>7. CountMatches'
      BY <1>0, <2>1, <2>4, <2>5, <2>6 DEF CountMatches
    <2>8. work.au.n \in Nat
      BY <1>0 DEF EsTypes, Units
    <2>9. EsTypes'
      <3>1. got' \in [EncSinks -> Nat]
        BY <1>0, <2>1, <2>8 DEF EsTypes
      <3> QED
        BY <1>0, <1>1, <2>3, <3>1 DEF EsTypes, NoWork, NoAU, Units, gates
    <2>10. ASSUME spoilt' = {} PROVE EsFlow'
      <3>1. spoilt = {} /\ ~esStart /\ EsFlow
        BY <1>1, <2>10 DEF EsInv
      <3>2. work.au.n = Latest /\ (work.au.idr \/ \A s \in Flowing : got[s] + 1 = Latest)
            /\ broken = {}
        BY <1>1, <3>1 DEF EsFlow
      <3>3. \A s \in to : ~work.au.idr => s \in Flowing
        BY <1>0 DEF Flowing, EsTypes
      <3>4. broken' = {}
        <4>1. \A s \in to : ~work.au.idr => got[s] + 1 = work.au.n /\ got[s] \in Nat
          BY <1>0, <3>2, <3>3 DEF EsTypes
        <4>2. \A s \in to : ~work.au.idr => got[s] = work.au.n - 1
          BY <4>1, <2>8
        <4> QED
          BY <2>1, <3>2, <4>2
      <3>5. Latest' = Latest
        BY <1>1 DEF Latest, gates
      <3>6. \A s \in Flowing' : got'[s] = Latest'
        BY <2>1, <2>3, <3>2, <3>5 DEF Flowing
      <3> QED
        BY <1>1, <3>1, <3>4, <3>6 DEF EsFlow, gates, NoWork
    <2> QED
      BY <2>7, <2>9, <2>10 DEF EsInv
  <1> QED
    BY <1>3, <1>4

\* A sink that comes is gated, one that goes is counted out.
LEMMA SinkStep ==
  ASSUME EsInv, NEW s \in EncSinks, EsSink(s)
  PROVE  EsInv'
  <1> DEFINE enabled == {x \in EncSinks : esink[x].enabled}
  <1>0. EsTypes /\ count = Cardinality(enabled) /\ IsFiniteSet(enabled)
    BY EsAssumption, FS_Subset DEF EsInv, CountMatches
  <1>1. /\ UNCHANGED <<through, seq, waiting, work, coded, gates>>
        /\ broken' = broken /\ spoilt' = spoilt
    BY DEF EsSink, RegisterSink, UnregisterSink, EnableSink
  <1> DEFINE Kept ==
        /\ esink' \in [EncSinks -> [use : BOOLEAN, enabled : BOOLEAN, gate : BOOLEAN]]
        /\ \A x \in EncSinks : esink'[x].enabled => esink'[x].use
        /\ \A x \in EncSinks : esink'[x].enabled /\ ~esink'[x].gate =>
             esink[x].enabled /\ ~esink[x].gate /\ got'[x] = got[x]
        /\ got' \in [EncSinks -> Nat]
  <1>2. Kept
    <2> USE <1>0 DEF EsTypes, NoESink
    <2>1. CASE RegisterSink(s)
      BY <2>1 DEF RegisterSink
    <2>2. CASE UnregisterSink(s)
      BY <2>2 DEF UnregisterSink
    <2>3. ASSUME NEW on \in BOOLEAN, EnableSink(s, on) PROVE Kept
      BY <2>3 DEF EnableSink
    <2> QED
      BY <2>1, <2>2, <2>3 DEF EsSink
  <1>3. CountMatches'
    <2> USE <1>0 DEF EsTypes, NoESink, CountMatches
    <2>1. CASE RegisterSink(s)
      <3>1. {x \in EncSinks : esink'[x].enabled} = enabled
        BY <2>1 DEF RegisterSink
      <3> QED
        BY <2>1, <3>1 DEF RegisterSink
    <2>2. CASE UnregisterSink(s)
      <3>1. {x \in EncSinks : esink'[x].enabled} = enabled \ {s}
        BY <2>2 DEF UnregisterSink
      <3>2. Cardinality(enabled \ {s}) = IF s \in enabled THEN Cardinality(enabled) - 1
                                         ELSE Cardinality(enabled)
        BY FS_RemoveElement
      <3> QED
        BY <2>2, <3>1, <3>2 DEF UnregisterSink
    <2>3. CASE EnableSink(s, TRUE)
      <3>1. {x \in EncSinks : esink'[x].enabled} = enabled \cup {s} /\ s \notin enabled
        BY <2>3 DEF EnableSink
      <3>2. Cardinality(enabled \cup {s}) = Cardinality(enabled) + 1
        BY <3>1, FS_AddElement
      <3> QED
        BY <2>3, <3>1, <3>2 DEF EnableSink
    <2>4. CASE EnableSink(s, FALSE)
      <3>1. {x \in EncSinks : esink'[x].enabled} = enabled \ {s} /\ s \in enabled
        BY <2>4 DEF EnableSink
      <3>2. Cardinality(enabled \ {s}) = Cardinality(enabled) - 1
        BY <3>1, FS_RemoveElement
      <3> QED
        BY <2>4, <3>1, <3>2 DEF EnableSink
    <2> QED
      BY <2>1, <2>2, <2>3, <2>4 DEF EsSink
  <1>4. EsTypes'
    BY <1>0, <1>1, <1>2 DEF EsTypes, gates
  <1>5. ASSUME spoilt' = {} PROVE EsFlow'
    <2>1. EsFlow
      BY <1>1, <1>5 DEF EsInv
    <2>2. Latest' = Latest
      BY <1>1 DEF Latest, gates
    <2>3. \A x \in Flowing' : x \in Flowing /\ got'[x] = got[x]
      BY <1>2 DEF Flowing
    <2> QED
      BY <1>1, <2>1, <2>2, <2>3 DEF EsFlow, gates
  <1> QED
    BY <1>3, <1>4, <1>5 DEF EsInv

LEMMA EncodedInductive ==
  /\ EsInit => EsInv
  /\ EsInv /\ [EsNext]_esVars => EsInv'
  <1>1. ASSUME EsInit PROVE EsInv
    <2>1. {s \in EncSinks : esink[s].enabled} = {}
      BY <1>1 DEF EsInit, NoESink
    <2>2. CountMatches
      BY <1>1, <2>1, FS_EmptySet DEF EsInit, CountMatches
    <2>3. EsTypes
      BY <1>1 DEF EsInit, EsTypes, Units, NoAU, NoWork, NoESink
    <2>4. EsFlow
      BY <1>1, <2>1 DEF EsInit, EsFlow, Flowing, Latest, NoWork
    <2> QED
      BY <2>2, <2>3, <2>4 DEF EsInv
  <1>2. ASSUME EsInv, UNCHANGED esVars PROVE EsInv'
    BY <1>2 DEF esVars, EsInv, EsTypes, CountMatches, EsFlow, Flowing, Latest
  <1>3. ASSUME EsInv, EsNext PROVE EsInv'
    BY <1>3, UnitTypes, UnitFlows, OthersFlow, DispatchStep, SinkStep DEF EsNext, EsInv
  <1> QED
    BY <1>1, <1>2, <1>3

----------------------------------------------------------------------------
(* Files: the inductive invariant                                          *)

FsTypes ==
  /\ file \in [Sources -> [st : {"none", "idle", "started"}, stop : {"no", "waits", "gives"}]]
  /\ task \in [Sources -> {"none", "reads", "sends", "done"}]
  /\ owner \in Sources \cup {NoSource} /\ nmem \in Nat
  /\ table = {s \in Sources : file[s].st = "started"}

\* A source that stops owns the pump, until its pump is done and it has given it on; the owner's
\* pump runs while the owner is started.
PumpOwned ==
  \A s \in Sources :
    /\ file[s].stop # "no" => file[s].st = "idle" /\ owner = s
    /\ task[s] # "none" => owner = s /\ file[s].stop # "gives"
    /\ task[s] = "done" => file[s].stop = "waits"
    /\ task[s] \in {"reads", "sends"} => file[s].st = "started" \/ file[s].stop = "waits"
    /\ owner = s /\ file[s].stop = "no" => file[s].st = "started" /\ task[s] \in {"reads", "sends"}

FsInv == FsTypes /\ PumpOwned /\ (owner = NoSource /\ nmem = 0 => table = {})

LEMMA FilesAreSound == FsInv => FilesSound
  <1>1. FsInv => OnePump
    BY DEF FsInv, FsTypes, PumpOwned, OnePump
  <1>2. FsInv => PumpKeptGoing
    BY DEF FsInv, FsTypes, PumpOwned, PumpKeptGoing, NoSource
  <1> QED
    BY <1>1, <1>2 DEF FilesSound

\* The steps of one source that leave the owner as it is.
LEMMA SourceSteps ==
  ASSUME FsInv, NEW s \in Sources, FileInit(s) \/ FileStop(s) \/ PumpDone(s) \/ FileDeinit(s) \/ FsTask(s)
  PROVE  FsInv'
  <1> USE FsAssumption DEF FsInv, FsTypes, PumpOwned, NoSource
  <1>1. CASE FileInit(s)
    <2>1. nmem' \in Nat /\ (nmem' = 0 => nmem = 0)
      BY <1>1, SMT DEF FileInit, MemFails
    <2> QED
      BY <1>1, <2>1 DEF FileInit
  <1>2. CASE FileStop(s)
    BY <1>2 DEF FileStop
  <1>3. CASE PumpDone(s)
    BY <1>3 DEF PumpDone
  <1>4. CASE FileDeinit(s)
    BY <1>4 DEF FileDeinit
  <1>5. CASE PumpReads(s)
    BY <1>5 DEF PumpReads
  <1>6. CASE PumpSends(s)
    BY <1>6 DEF PumpSends
  <1> QED
    BY <1>1, <1>2, <1>3, <1>4, <1>5, <1>6 DEF FsTask

\* A start takes the pump if nobody has it: then no stop is under way and no pump left.
LEMMA StartStep ==
  ASSUME FsInv, NEW s \in Sources, FileStart(s)
  PROVE  FsInv'
  <1> USE FsAssumption DEF FsInv, FsTypes, PumpOwned, NoSource
  <1>1. PICK ok \in BOOLEAN :
          /\ IF owner = NoSource THEN MemFails(ok) ELSE ok /\ UNCHANGED nmem
          /\ file' = IF ok THEN [file EXCEPT ![s].st = "started"] ELSE file
          /\ table' = IF ok THEN table \cup {s} ELSE table
          /\ IF ok /\ owner = NoSource
               THEN owner' = s /\ task' = [task EXCEPT ![s] = "reads"]
               ELSE UNCHANGED <<owner, task>>
    BY DEF FileStart
  <1>2. file[s] = [st |-> "idle", stop |-> "no"]
    BY DEF FileStart
  <1>3. CASE ok /\ owner = NoSource
    <2>1. nmem' = nmem
      BY <1>1, <1>3 DEF MemFails
    <2> QED
      BY <1>1, <1>2, <1>3, <2>1
  <1>4. CASE ok /\ owner # NoSource
    BY <1>1, <1>2, <1>4
  <1>5. CASE ~ok
    <2>1. nmem' = nmem + 1 /\ UNCHANGED <<file, table, owner, task>>
      BY <1>1, <1>5 DEF MemFails
    <2> QED
      BY <2>1
  <1> QED
    BY <1>3, <1>4, <1>5

\* A handover gives the pump to a source that is started, or to nobody if all of them failed.
LEMMA HandOverStep ==
  ASSUME FsInv, NEW s \in Sources, HandOver(s)
  PROVE  FsInv'
  <1> USE FsAssumption DEF FsInv, FsTypes, PumpOwned, NoSource
  <1>1. file[s].stop = "gives" /\ file' = [file EXCEPT ![s].stop = "no"] /\ UNCHANGED table
    BY DEF HandOver
  <1>2. PICK fail \in SUBSET table :
          /\ nmem' = nmem + Cardinality(fail)
          /\ IF fail = table THEN owner' = NoSource /\ UNCHANGED task
             ELSE \E n \in table \ fail : owner' = n /\ task' = [task EXCEPT ![n] = "reads"]
    BY DEF HandOver
  <1>3. IsFiniteSet(fail) /\ fail \subseteq Sources
    BY FS_Subset
  <1>4. Cardinality(fail) \in Nat /\ (Cardinality(fail) = 0 <=> fail = {})
    BY <1>3, FS_CardinalityType, FS_EmptySet
  <1>5. nmem' \in Nat /\ (nmem' = 0 => fail = {})
    BY <1>2, <1>4
  <1>6. owner = s /\ file[s].st = "idle" /\ \A o \in Sources : task[o] = "none"
    BY <1>1
  <1>7. CASE fail = table
    BY <1>1, <1>2, <1>5, <1>6, <1>7
  <1>8. CASE fail # table
    <2>1. PICK n \in table : owner' = n /\ task' = [task EXCEPT ![n] = "reads"]
      BY <1>2, <1>8
    <2>2. n # s /\ file[n].stop = "no"
      BY <1>6, <2>1
    <2> QED
      BY <1>1, <1>5, <1>6, <2>1, <2>2
  <1> QED
    BY <1>7, <1>8

LEMMA FilesInductive ==
  /\ FsInit => FsInv
  /\ FsInv /\ [FsNext]_fsVars => FsInv'
  <1>1. FsInit => FsInv
    BY FsAssumption DEF FsInit, FsInv, FsTypes, PumpOwned, NoSource
  <1>2. ASSUME FsInv, UNCHANGED fsVars PROVE FsInv'
    BY <1>2 DEF fsVars, FsInv, FsTypes, PumpOwned
  <1>3. ASSUME FsInv, FsNext PROVE FsInv'
    BY <1>3, SourceSteps, StartStep, HandOverStep DEF FsNext, FsStop
  <1> QED
    BY <1>1, <1>2, <1>3

----------------------------------------------------------------------------
(* All three                                                               *)

SourcesInv == ViInv /\ EsInv /\ FsInv

LEMMA SourcesStep ==
  ASSUME SourcesInv, [MediaNext]_mediaVars
  PROVE  SourcesInv'
  <1>1. [ViNext]_viVars /\ [EsNext]_esVars /\ [FsNext]_fsVars
    <2>1. CASE UNCHANGED <<viVars, esVars, fsVars>>
      BY <2>1
    <2>2. CASE CameraPart(ViNext)
      BY <2>2 DEF CameraPart
    <2>3. CASE EncodedPart(EsNext)
      BY <2>3 DEF EncodedPart
    <2>4. CASE FilePart(FsNext)
      BY <2>4 DEF FilePart
    <2> QED
      BY <2>1, <2>2, <2>3, <2>4 DEF MediaNext, SendPart, BusPart, CapturePart, mediaVars
  <1> QED
    BY <1>1, CameraInductive, EncodedInductive, FilesInductive DEF SourcesInv

\* What the camera interface, the encoder's task with the registry of its sinks and the file
\* sources with their pumps keep, in every behaviour of the run's specification.
THEOREM SourcesInductive == MediaSpec => []SourcesInv
  <1>1. MediaInit => SourcesInv
    BY CameraInductive, EncodedInductive, FilesInductive DEF MediaInit, SourcesInv
  <1> QED
    BY <1>1, SourcesStep, PTL DEF MediaSpec

\* esp_video_if loses no camera buffer through whatever start failed and takes none from a
\* reader, video_sink_dispatch() gives every sink a decodable stream, and one pump at a time
\* publishes the files of those that are started.
THEOREM SourcesCorrect == MediaSpec => []SourcesSound
  <1>1. SourcesInv => SourcesSound
    BY CameraIsSound, StreamsAreSound, FilesAreSound DEF SourcesInv, SourcesSound
  <1> QED
    BY <1>1, SourcesInductive, PTL
=============================================================================
