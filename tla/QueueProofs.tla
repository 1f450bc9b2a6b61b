---------------------------- MODULE QueueProofs -----------------------------
(***************************************************************************)
(* Theorems about the queues: MessageQueue, for every depth, every set     *)
(* of buffers and of readers, both full policies and both targets; then    *)
(* WorkQueue, for every size and every set of tasks and of barriers; then  *)
(* AppRtcSend, whose messages wait in the one and are drained on the       *)
(* other, for every set of senders and every number of links and failures. *)
(***************************************************************************)
EXTENDS MessageQueue, WorkQueue, AppRtcSend, SequenceTheorems, TLAPS

\* sync_signal() keeps the wake-up state well typed.
LEMMA SyncSignalType ==
  ASSUME TypeOK, NEW rdNow \in [Readers -> ReaderStates], SyncSignal(rdNow)
  PROVE  wake' \in BOOLEAN /\ rd' \in [Readers -> ReaderStates]
  BY DEF SyncSignal, TypeOK, ReaderStates

\* make_room() returns well-typed slots and owners, and a free slot.
LEMMA MakeRoomType ==
  ASSUME TypeOK, NEW room \in MakeRoom
  PROVE  /\ room.slots \in [Slots -> Msgs \cup {NoMsg}]
         /\ room.n \in Slots
         /\ room.own \in [Msgs -> Owners]
  <1>1. CASE count < Depth
    BY <1>1, DepthAssumption DEF MakeRoom, TypeOK, Slots
  <1>2. CASE ~(count < Depth)
    <2>1. PICK v \in Live : room = [slots |-> ShiftDown(v), n |-> count - 1,
                              own |-> [own EXCEPT ![messages[v]] = "heap"]]
      BY <1>2 DEF MakeRoom
    <2>2. ShiftDown(v) \in [Slots -> Msgs \cup {NoMsg}]
      BY DepthAssumption DEF ShiftDown, TypeOK, Slots
    <2>3. [own EXCEPT ![messages[v]] = "heap"] \in [Msgs -> Owners]
      BY DEF TypeOK, Owners
    <2>4. count - 1 \in Slots
      BY <1>2, DepthAssumption DEF TypeOK, Slots
    <2> QED BY <2>1, <2>2, <2>3, <2>4
  <1> QED BY <1>1, <1>2

\* take_head() on a queue that holds a message is well typed.
LEMMA TakeHeadType ==
  ASSUME TypeOK, count > 0, TakeHead
  PROVE  /\ messages' \in [Slots -> Msgs \cup {NoMsg}]
         /\ count' \in 0..Depth
         /\ own' \in [Msgs -> Owners]
  <1>1. HeadTaken \in [Slots -> Msgs \cup {NoMsg}]
    BY DepthAssumption DEF TypeOK, HeadTaken, Slots
  <1>2. count - 1 \in 0..Depth
    BY DepthAssumption DEF TypeOK
  <1>3. [own EXCEPT ![messages[0]] = "reader"] \in [Msgs -> Owners]
    BY DEF TypeOK, Owners
  <1> QED BY <1>1, <1>2, <1>3 DEF TakeHead

\* An empty array of slots, as init, deinit and the zeroed struct leave it.
LEMMA EmptyType ==
  /\ [i \in Slots |-> NoMsg] \in [Slots -> Msgs \cup {NoMsg}]
  /\ 0 \in 0..Depth
  BY DepthAssumption

\* So is the end of message_queue_get_next_wait() that takes a message.
LEMMA TakeAndPassOnType ==
  ASSUME TypeOK, count > 0, NEW r \in Readers, TakeAndPassOn(r)
  PROVE  TypeOK'
  <1>1. [rd EXCEPT ![r] = "idle"] \in [Readers -> ReaderStates]
    BY DEF TypeOK, ReaderStates
  <1>2. wake' \in BOOLEAN /\ rd' \in [Readers -> ReaderStates]
    BY <1>1, SyncSignalType DEF TakeAndPassOn, TypeOK
  <1>3. TakeHead /\ UNCHANGED <<target, rejectNew, mutex, forever>>
    BY DEF TakeAndPassOn
  <1> QED BY <1>2, <1>3, TakeHeadType DEF TypeOK

\* The inductive step of TypeOK, one case per operation.
LEMMA TypeStep ==
  ASSUME TypeOK, [Next]_vars
  PROVE  TypeOK'
  <1>1. CASE InitWithConfig
    BY <1>1, EmptyType DEF InitWithConfig, TypeOK
  <1>2. CASE Cleanup
    BY <1>2, DepthAssumption DEF Cleanup, Purged, TypeOK, Slots, Owners
  <1>3. CASE Deinit
    BY <1>3, EmptyType DEF Deinit, TypeOK, Owners
  <1>4. ASSUME NEW m \in Msgs, Add(m) PROVE TypeOK'
    <2>1. PICK room \in MakeRoom :
            /\ messages' = [room.slots EXCEPT ![room.n] = m]
            /\ count' = room.n + 1
            /\ own' = [room.own EXCEPT ![m] = "queue"]
      BY <1>4 DEF Add
    <2>2. wake' \in BOOLEAN /\ rd' \in [Readers -> ReaderStates]
      BY <1>4, SyncSignalType DEF Add, TypeOK
    <2>3. UNCHANGED <<target, rejectNew, mutex, forever>>
      BY <1>4 DEF Add
    <2> QED BY <2>1, <2>2, <2>3, MakeRoomType, DepthAssumption
            DEF TypeOK, Slots, Owners
  <1>5. ASSUME NEW m \in Msgs, AddFront(m) PROVE TypeOK'
    <2>1. PICK room \in MakeRoom :
            /\ messages' = StoreFront(room.slots, room.n, m)
            /\ count' = room.n + 1
            /\ own' = [room.own EXCEPT ![m] = "queue"]
      BY <1>5 DEF AddFront
    <2>2. wake' \in BOOLEAN /\ rd' \in [Readers -> ReaderStates]
      BY <1>5, SyncSignalType DEF AddFront, TypeOK
    <2>3. UNCHANGED <<target, rejectNew, mutex, forever>>
      BY <1>5 DEF AddFront
    <2> QED BY <2>1, <2>2, <2>3, MakeRoomType, DepthAssumption
            DEF TypeOK, Slots, Owners, StoreFront
  <1>6. ASSUME NEW m \in Msgs, FreeTaken(m) PROVE TypeOK'
    BY <1>6 DEF FreeTaken, TypeOK, Owners
  <1>7. CASE GetNext
    BY <1>7, TakeHeadType DEF GetNext, TypeOK
  <1>8. ASSUME NEW r \in Readers, NEW f \in BOOLEAN, GetNextWait(r, f)
        PROVE TypeOK'
    <2>1. CASE count > 0 /\ TakeAndPassOn(r)
      BY <2>1, TakeAndPassOnType
    <2>2. CASE ~(count > 0 /\ TakeAndPassOn(r))
      BY <1>8, <2>2 DEF GetNextWait, TypeOK, ReaderStates
    <2> QED BY <2>1, <2>2
  <1>9. ASSUME NEW r \in Readers,
               SemaphoreTake(r) \/ SpuriousWakeup(r) \/ WaitExpires(r)
        PROVE TypeOK'
    BY <1>9 DEF SemaphoreTake, SpuriousWakeup, WaitExpires, TypeOK, ReaderStates
  <1>10. ASSUME NEW r \in Readers, Recheck(r) PROVE TypeOK'
    <2>1. CASE count > 0 /\ TakeAndPassOn(r)
      BY <2>1, TakeAndPassOnType
    <2>2. CASE ~(count > 0 /\ TakeAndPassOn(r))
      BY <1>10, <2>2 DEF Recheck, TypeOK, ReaderStates
    <2> QED BY <2>1, <2>2
  <1>11. CASE UNCHANGED vars
    BY <1>11 DEF vars, TypeOK
  <1> QED BY <1>1, <1>2, <1>3, <1>4, <1>5, <1>6, <1>7, <1>8, <1>9, <1>10, <1>11
          DEF Next

\* Every step of every caller keeps the slot array, the count, the owners and the
\* readers within their types: no shift writes outside the array.
THEOREM TypeCorrect == Spec => []TypeOK
<1>1. Init => TypeOK
  BY EmptyType DEF Init, TypeOK, Owners, ReaderStates
<1>2. TypeOK /\ [Next]_vars => TypeOK'
  BY TypeStep
<1> QED BY <1>1, <1>2, PTL DEF Spec

-----------------------------------------------------------------------------
\* QueueOwnsLive of any slots, count and owners.
OwnsPrefix(slots, n, o) ==
  /\ \A i \in 0..(n - 1) : slots[i] \in Msgs /\ o[slots[i]] = "queue"
  /\ \A i, j \in 0..(n - 1) : slots[i] = slots[j] => i = j
  /\ \A m \in Msgs : o[m] = "queue" => \E i \in 0..(n - 1) : slots[i] = m

\* Making room frees at most one buffer, one the queue owned, and the shifted
\* array still holds every other one exactly once.
LEMMA MakeRoomOwns ==
  ASSUME TypeOK, QueueOwnsLive, NEW room \in MakeRoom
  PROVE  /\ OwnsPrefix(room.slots, room.n, room.own)
         /\ \A m \in Msgs : own[m] # "queue" => room.own[m] = own[m]
  <1>1. CASE count < Depth
    BY <1>1 DEF MakeRoom, QueueOwnsLive, OwnsPrefix, Live
  <1>2. CASE ~(count < Depth)
    <2>1. PICK v \in Live : room = [slots |-> ShiftDown(v), n |-> count - 1,
                              own |-> [own EXCEPT ![messages[v]] = "heap"]]
      BY <1>2 DEF MakeRoom
    <2>2. count = Depth
      BY <1>2, DepthAssumption DEF TypeOK
    <2> DEFINE s == ShiftDown(v)
               o == [own EXCEPT ![messages[v]] = "heap"]
    <2>3. messages[v] \in Msgs /\ own[messages[v]] = "queue"
      BY DEF QueueOwnsLive
    <2>4. \A i \in 0..(count - 2) :
            s[i] = IF i >= v THEN messages[i + 1] ELSE messages[i]
      BY <2>2, DepthAssumption DEF ShiftDown, Slots
    <2>5. \A i \in 0..(count - 2) : s[i] \in Msgs /\ o[s[i]] = "queue"
      BY <2>2, <2>3, <2>4, DepthAssumption DEF QueueOwnsLive, Live, TypeOK
    <2>6. \A i, j \in 0..(count - 2) : s[i] = s[j] => i = j
      BY <2>2, <2>4, DepthAssumption DEF QueueOwnsLive, Live
    <2>7. ASSUME NEW m \in Msgs, o[m] = "queue"
          PROVE  \E i \in 0..(count - 2) : s[i] = m
      <3>1. m # messages[v] /\ own[m] = "queue"
        BY <2>3, <2>7 DEF TypeOK
      <3>2. PICK k \in Live : messages[k] = m
        BY <3>1 DEF QueueOwnsLive
      <3>3. CASE k < v
        BY <2>2, <2>4, <3>2, <3>3, DepthAssumption DEF Live
      <3>4. CASE k > v
        <4>1. k - 1 \in 0..(count - 2) /\ k - 1 >= v /\ (k - 1) + 1 = k
          BY <2>2, <3>4, DepthAssumption DEF Live
        <4> QED BY <2>4, <3>2, <4>1
      <3>5. k # v
        BY <3>1, <3>2
      <3> QED BY <2>2, <3>3, <3>4, <3>5, DepthAssumption DEF Live
    <2>8. \A m \in Msgs : own[m] # "queue" => o[m] = own[m]
      BY <2>3 DEF TypeOK
    <2>9. room.n - 1 = count - 2 /\ room.slots = s /\ room.own = o
      BY <2>1, <2>2, DepthAssumption
    <2> HIDE DEF s, o
    <2> QED BY <2>5, <2>6, <2>7, <2>8, <2>9 DEF OwnsPrefix
  <1> QED BY <1>1, <1>2

\* take_head() gives the head to the reader and keeps the rest queued once.
LEMMA TakeHeadOwns ==
  ASSUME TypeOK, QueueOwnsLive, count > 0, TakeHead
  PROVE  QueueOwnsLive'
  <1>1. messages[0] \in Msgs /\ 0 \in Live
    BY DEF QueueOwnsLive, Live, TypeOK
  <1>2. Live' = 0..(count - 2)
    BY DepthAssumption DEF TakeHead, Live, TypeOK
  <1>3. \A i \in 0..(count - 2) : messages'[i] = messages[i + 1]
    BY DepthAssumption DEF TakeHead, HeadTaken, Slots, TypeOK
  <1>4. \A i \in 0..(count - 2) : i + 1 \in Live /\ i + 1 # 0
    BY DEF Live, TypeOK
  <1>5. \A m \in Msgs : own'[m] = IF m = messages[0] THEN "reader" ELSE own[m]
    BY <1>1 DEF TakeHead, TypeOK
  <1>6. \A i \in 0..(count - 2) : messages[i + 1] # messages[0]
    BY <1>1, <1>4 DEF QueueOwnsLive
  <1>7. \A i \in 0..(count - 2) :
          messages'[i] \in Msgs /\ own'[messages'[i]] = "queue"
    BY <1>3, <1>4, <1>5, <1>6 DEF QueueOwnsLive
  <1>8. \A i, j \in 0..(count - 2) : messages'[i] = messages'[j] => i = j
    <2> TAKE i, j \in 0..(count - 2)
    <2>1. messages[i + 1] = messages[j + 1] => i + 1 = j + 1
      BY <1>4 DEF QueueOwnsLive
    <2> QED BY <1>3, <2>1
  <1>9. ASSUME NEW m \in Msgs, own'[m] = "queue"
        PROVE  \E i \in 0..(count - 2) : messages'[i] = m
    <2>1. m # messages[0] /\ own[m] = "queue"
      BY <1>5, <1>9
    <2>2. PICK k \in Live : messages[k] = m
      BY <2>1 DEF QueueOwnsLive
    <2>3. k - 1 \in 0..(count - 2) /\ (k - 1) + 1 = k
      BY <2>1, <2>2 DEF Live, TypeOK
    <2> QED BY <1>3, <2>2, <2>3
  <1> QED BY <1>2, <1>7, <1>8, <1>9 DEF QueueOwnsLive

\* After a signal no reader sleeps unnoticed.
LEMMA SignalWakes ==
  ASSUME NEW rdNow \in [Readers -> ReaderStates], SyncSignal(rdNow), UNCHANGED target
  PROVE  NoLostWakeup'
  BY DEF SyncSignal, NoLostWakeup, ReaderStates

\* So is a reader that takes a message and passes the wake-up on.
LEMMA TakeAndPassOnWakes ==
  ASSUME TypeOK, NEW r \in Readers, count > 0, TakeAndPassOn(r)
  PROVE  NoLostWakeup'
  <1>1. CASE count - 1 > 0
    <2>1. [rd EXCEPT ![r] = "idle"] \in [Readers -> ReaderStates]
      BY DEF TypeOK, ReaderStates
    <2> QED BY <1>1, <2>1, SignalWakes DEF TakeAndPassOn
  <1>2. CASE ~(count - 1 > 0)
    <2>1. ~(count' > 0)
      BY <1>2 DEF TakeAndPassOn, TakeHead, TypeOK
    <2> QED BY <2>1 DEF NoLostWakeup
  <1> QED BY <1>1, <1>2

\* A queue that is not initialised holds nothing and nobody waits on it.
DownIsIdle == ~mutex => count = 0 /\ \A r \in Readers : rd[r] = "idle"

\* The inductive invariant: QueueOwnsLive needs DownIsIdle, because init clears
\* the array without looking at it.
IInv == TypeOK /\ QueueOwnsLive /\ NoLostWakeup /\ DownIsIdle

\* The inductive step of QueueOwnsLive, one case per operation.
LEMMA OwnsStep ==
  ASSUME IInv, [Next]_vars
  PROVE  QueueOwnsLive'
  <1> USE DEF IInv
  <1>1. CASE InitWithConfig
    BY <1>1 DEF InitWithConfig, QueueOwnsLive, DownIsIdle, Live
  <1>2. CASE Cleanup \/ Deinit
    <2>1. Live' = {}
      BY <1>2 DEF Cleanup, Deinit, Live
    <2>2. \A m \in Msgs : own'[m] # "queue"
      BY <1>2 DEF Cleanup, Deinit, QueueOwnsLive
    <2> QED BY <2>1, <2>2 DEF QueueOwnsLive
  <1>3. ASSUME NEW m \in Msgs, Add(m) PROVE QueueOwnsLive'
    <2>1. PICK room \in MakeRoom :
            /\ messages' = [room.slots EXCEPT ![room.n] = m]
            /\ count' = room.n + 1
            /\ own' = [room.own EXCEPT ![m] = "queue"]
      BY <1>3 DEF Add
    <2>2. /\ OwnsPrefix(room.slots, room.n, room.own)
          /\ room.own[m] # "queue"
      BY <1>3, MakeRoomOwns DEF Add
    <2>3. /\ room.slots \in [Slots -> Msgs \cup {NoMsg}]
          /\ room.n \in Slots
          /\ room.own \in [Msgs -> Owners]
      BY MakeRoomType
    <2>4. Live' = 0..room.n /\ 0..room.n \subseteq Slots
      BY <2>1, <2>3, DepthAssumption DEF Live, Slots
    <2>5. /\ messages'[room.n] = m
          /\ \A i \in 0..(room.n - 1) : messages'[i] = room.slots[i]
      BY <2>1, <2>3, <2>4, DepthAssumption DEF Slots
    <2>6. /\ own'[m] = "queue"
          /\ \A k \in Msgs \ {m} : own'[k] = room.own[k]
      BY <2>1, <2>3
    <2>7. \A i \in 0..room.n : i = room.n \/ i \in 0..(room.n - 1)
      BY <2>3, DepthAssumption DEF Slots
    <2>8. \A i \in 0..(room.n - 1) : room.slots[i] # m
      BY <2>2 DEF OwnsPrefix
    <2>9. room.n \in 0..room.n /\ 0..(room.n - 1) \subseteq 0..room.n
      BY <2>3, DepthAssumption DEF Slots
    <2>10. \A i \in Live' : messages'[i] \in Msgs /\ own'[messages'[i]] = "queue"
      BY <2>2, <2>4, <2>5, <2>6, <2>7, <2>8 DEF OwnsPrefix
    <2>11. \A i, j \in Live' : messages'[i] = messages'[j] => i = j
      BY <2>2, <2>4, <2>5, <2>7, <2>8 DEF OwnsPrefix
    <2>12. \A k \in Msgs : own'[k] = "queue" => \E i \in Live' : messages'[i] = k
      BY <2>2, <2>4, <2>5, <2>6, <2>9 DEF OwnsPrefix
    <2> QED BY <2>10, <2>11, <2>12 DEF QueueOwnsLive
  <1>4. ASSUME NEW m \in Msgs, AddFront(m) PROVE QueueOwnsLive'
    <2>1. PICK room \in MakeRoom :
            /\ messages' = StoreFront(room.slots, room.n, m)
            /\ count' = room.n + 1
            /\ own' = [room.own EXCEPT ![m] = "queue"]
      BY <1>4 DEF AddFront
    <2>2. /\ OwnsPrefix(room.slots, room.n, room.own)
          /\ room.own[m] # "queue"
      BY <1>4, MakeRoomOwns DEF AddFront
    <2>3. /\ room.slots \in [Slots -> Msgs \cup {NoMsg}]
          /\ room.n \in Slots
          /\ room.own \in [Msgs -> Owners]
      BY MakeRoomType
    <2>4. Live' = 0..room.n /\ 0..room.n \subseteq Slots
      BY <2>1, <2>3, DepthAssumption DEF Live, Slots
    <2>5. /\ messages'[0] = m
          /\ \A i \in 1..room.n : messages'[i] = room.slots[i - 1]
      BY <2>1, <2>3, <2>4, DepthAssumption DEF Slots, StoreFront
    <2>6. /\ own'[m] = "queue"
          /\ \A k \in Msgs \ {m} : own'[k] = room.own[k]
      BY <2>1, <2>3
    <2>7. \A i \in 0..room.n : i = 0 \/ (i \in 1..room.n /\ i - 1 \in 0..(room.n - 1))
      BY <2>3, DepthAssumption DEF Slots
    <2>8. \A i \in 0..(room.n - 1) : room.slots[i] # m
      BY <2>2 DEF OwnsPrefix
    <2>9. /\ 0 \in 0..room.n
          /\ \A i \in 0..(room.n - 1) : i + 1 \in 1..room.n /\ i + 1 \in 0..room.n
                                          /\ (i + 1) - 1 = i
      BY <2>3, DepthAssumption DEF Slots
    <2>10. \A i \in Live' : messages'[i] \in Msgs /\ own'[messages'[i]] = "queue"
      BY <2>2, <2>4, <2>5, <2>6, <2>7, <2>8 DEF OwnsPrefix
    <2>11. ASSUME NEW i \in Live', NEW j \in Live', messages'[i] = messages'[j]
           PROVE  i = j
      <3>1. i \in 1..room.n /\ j \in 1..room.n => i - 1 = j - 1
        BY <2>2, <2>4, <2>5, <2>7, <2>11 DEF OwnsPrefix
      <3>2. (i = 0) <=> (j = 0)
        BY <2>4, <2>5, <2>7, <2>8, <2>11
      <3> QED BY <2>3, <2>4, <2>7, <3>1, <3>2 DEF Slots
    <2>12. ASSUME NEW k \in Msgs, own'[k] = "queue"
           PROVE  \E i \in Live' : messages'[i] = k
      <3>1. CASE k = m
        BY <2>4, <2>5, <2>9, <3>1
      <3>2. CASE k # m
        <4>1. PICK i \in 0..(room.n - 1) : room.slots[i] = k
          BY <2>2, <2>6, <2>12, <3>2 DEF OwnsPrefix
        <4>2. messages'[i + 1] = k
          BY <2>5, <2>9, <4>1
        <4> QED BY <2>4, <2>9, <4>2
      <3> QED BY <3>1, <3>2
    <2> QED BY <2>10, <2>11, <2>12 DEF QueueOwnsLive
  <1>5. ASSUME NEW m \in Msgs, FreeTaken(m) PROVE QueueOwnsLive'
    BY <1>5 DEF FreeTaken, QueueOwnsLive, Live, TypeOK
  <1>6. CASE GetNext
    BY <1>6, TakeHeadOwns DEF GetNext
  <1>7. ASSUME NEW r \in Readers, count > 0, TakeAndPassOn(r) PROVE QueueOwnsLive'
    BY <1>7, TakeHeadOwns DEF TakeAndPassOn
  <1>8. CASE UNCHANGED <<messages, count, own>>
    BY <1>8 DEF QueueOwnsLive, Live
  <1> QED BY <1>1, <1>2, <1>3, <1>4, <1>5, <1>6, <1>7, <1>8
          DEF Next, vars, GetNextWait, SemaphoreTake, SpuriousWakeup, WaitExpires,
              Recheck

\* The inductive step of NoLostWakeup: a message that comes in signals, a reader
\* goes to sleep only on an empty queue, and one that wakes up passes it on.
LEMMA WakeStep ==
  ASSUME IInv, [Next]_vars
  PROVE  NoLostWakeup'
  <1> USE DEF IInv
  <1>1. CASE InitWithConfig \/ Cleanup \/ Deinit
    <2>1. ~(count' > 0)
      BY <1>1 DEF InitWithConfig, Cleanup, Deinit
    <2> QED BY <2>1 DEF NoLostWakeup
  <1>2. ASSUME NEW m \in Msgs, Add(m) \/ AddFront(m) PROVE NoLostWakeup'
    BY <1>2, SignalWakes DEF Add, AddFront, TypeOK
  <1>3. ASSUME NEW m \in Msgs, FreeTaken(m) PROVE NoLostWakeup'
    BY <1>3 DEF FreeTaken, NoLostWakeup
  <1>4. CASE GetNext
    <2>1. count > 0 /\ UNCHANGED <<target, wake, rd>>
      BY <1>4 DEF GetNext
    <2> QED BY <2>1 DEF NoLostWakeup
  <1>5. ASSUME NEW r \in Readers, count > 0, TakeAndPassOn(r) PROVE NoLostWakeup'
    BY <1>5, TakeAndPassOnWakes
  <1>6. ASSUME NEW r \in Readers, NEW f \in BOOLEAN, GetNextWait(r, f)
        PROVE NoLostWakeup'
    <2>1. CASE count = 0 /\ count' = count
      BY <2>1 DEF NoLostWakeup
    <2> QED BY <1>5, <1>6, <2>1 DEF GetNextWait
  <1>7. ASSUME NEW r \in Readers,
               SemaphoreTake(r) \/ SpuriousWakeup(r) \/ WaitExpires(r)
        PROVE NoLostWakeup'
    <2>1. rd'[r] \in {"woken", "expired"}
      BY <1>7 DEF SemaphoreTake, SpuriousWakeup, WaitExpires, TypeOK
    <2> QED BY <2>1 DEF NoLostWakeup
  <1>8. ASSUME NEW r \in Readers, Recheck(r) PROVE NoLostWakeup'
    <2>1. CASE count = 0 /\ count' = count
      BY <2>1 DEF NoLostWakeup
    <2> QED BY <1>5, <1>8, <2>1 DEF Recheck
  <1>9. CASE UNCHANGED vars
    BY <1>9 DEF vars, NoLostWakeup
  <1> QED BY <1>1, <1>2, <1>3, <1>4, <1>6, <1>7, <1>8, <1>9 DEF Next

\* The inductive step of DownIsIdle: every operation but init needs the lock to
\* exist, and the teardown happens with no reader inside.
LEMMA DownStep ==
  ASSUME IInv, [Next]_vars
  PROVE  DownIsIdle'
  <1>1. CASE mutex'
    BY <1>1 DEF DownIsIdle
  <1>2. CASE ~mutex'
    <2>1. CASE Deinit
      BY <2>1 DEF Deinit, DownIsIdle
    <2>2. CASE ~Deinit
      <3>1. ~mutex /\ count = 0 /\ \A r \in Readers : rd[r] = "idle"
        <4>1. ASSUME NEW m \in Msgs, Add(m) \/ AddFront(m) \/ FreeTaken(m)
              PROVE  mutex' = mutex
          BY <4>1 DEF Add, AddFront, FreeTaken
        <4>2. ASSUME NEW r \in Readers,
                     \/ \E f \in BOOLEAN : GetNextWait(r, f)
                     \/ SemaphoreTake(r) \/ SpuriousWakeup(r)
                     \/ WaitExpires(r) \/ Recheck(r)
              PROVE  mutex' = mutex
          BY <4>2 DEF GetNextWait, TakeAndPassOn, SemaphoreTake, SpuriousWakeup,
                      WaitExpires, Recheck
        <4>3. Cleanup \/ GetNext \/ UNCHANGED vars => mutex' = mutex
          BY DEF Cleanup, GetNext, vars
        <4>4. ~InitWithConfig
          BY <1>2 DEF InitWithConfig
        <4>5. mutex' = mutex
          BY <2>2, <4>1, <4>2, <4>3, <4>4 DEF Next
        <4> QED BY <1>2, <4>5 DEF IInv, DownIsIdle
      <3>2. (\E m \in Msgs : FreeTaken(m)) \/ UNCHANGED vars
        <4>1. \A r \in Readers : ~(SemaphoreTake(r) \/ SpuriousWakeup(r)
                                    \/ WaitExpires(r) \/ Recheck(r))
          BY <3>1 DEF SemaphoreTake, SpuriousWakeup, WaitExpires, Recheck
        <4>2. ~Cleanup /\ ~GetNext /\ ~InitWithConfig
          BY <1>2, <3>1 DEF Cleanup, GetNext, InitWithConfig
        <4>3. \A m \in Msgs : ~Add(m) /\ ~AddFront(m)
          BY <3>1 DEF Add, AddFront
        <4>4. \A r \in Readers : \A f \in BOOLEAN : ~GetNextWait(r, f)
          BY <3>1 DEF GetNextWait
        <4> QED BY <2>2, <4>1, <4>2, <4>3, <4>4 DEF Next
      <3> QED BY <3>1, <3>2 DEF FreeTaken, vars, DownIsIdle
    <2> QED BY <2>1, <2>2
  <1> QED BY <1>1, <1>2

\* The invariant holds of every reachable state.
THEOREM Inductive == Spec => []IInv
<1>1. Init => IInv
  <2>1. Init => TypeOK
    BY EmptyType DEF Init, TypeOK, Owners, ReaderStates
  <2>2. Init => QueueOwnsLive /\ NoLostWakeup /\ DownIsIdle
    BY DEF Init, QueueOwnsLive, NoLostWakeup, DownIsIdle, Live
  <2> QED BY <2>1, <2>2 DEF IInv
<1>2. IInv /\ [Next]_vars => IInv'
  BY TypeStep, OwnsStep, WakeStep, DownStep DEF IInv
<1> QED BY <1>1, <1>2, PTL DEF Spec

\* For every depth, policy and number of readers: the live slots hold each buffer
\* the queue owns exactly once, whatever the shifts of the array do.
THEOREM OwnershipCorrect == Spec => []QueueOwnsLive
BY Inductive, PTL DEF IInv

\* For every number of readers, on the semaphore of the chips and on the
\* condition variable of the linux target: no wake-up is lost.
THEOREM WakeupCorrect == Spec => []NoLostWakeup
BY Inductive, PTL DEF IInv

-----------------------------------------------------------------------------
(***************************************************************************)
(* The slot array implements the bounded FIFO.                             *)
(***************************************************************************)

\* The first n slots, as the FIFO of the refinement mapping.
Contents(slots, n) == [i \in 1..n |-> slots[i - 1]]

Taken == {m \in Msgs : own[m] = "reader"}

\* What a slot array with a count stands for: a sequence, entry by entry.
LEMMA ContentsIsSeq ==
  ASSUME NEW slots, NEW n \in Nat, \A i \in 0..(n - 1) : slots[i] \in Msgs
  PROVE  /\ Contents(slots, n) \in Seq(Msgs) /\ Len(Contents(slots, n)) = n
         /\ \A i \in 1..n : Contents(slots, n)[i] = slots[i - 1]
  <1>1. \A i \in 1..n : slots[i - 1] \in Msgs
    OBVIOUS
  <1>2. Contents(slots, n) \in [1..n -> Msgs]
    BY <1>1 DEF Contents
  <1>3. Contents(slots, n) \in Seq(Msgs)
    BY <1>2
  <1>4. Len(Contents(slots, n)) = n
    BY <1>2, <1>3
  <1> QED BY <1>3, <1>4 DEF Contents

\* Making room in the array is making room in the FIFO.
LEMMA RoomMaps ==
  ASSUME TypeOK, QueueOwnsLive, NEW room \in MakeRoom
  PROVE  /\ Contents(room.slots, room.n) \in Fifo!Roomy(Contents(messages, count))
         /\ Contents(room.slots, room.n) \in Seq(Msgs)
         /\ Len(Contents(room.slots, room.n)) = room.n
  <1> DEFINE q == Contents(messages, count)
             r == Contents(room.slots, room.n)
  <1>0. q \in Seq(Msgs) /\ Len(q) = count /\ \A i \in 1..count : q[i] = messages[i - 1]
    <2>1. count \in Nat /\ \A i \in 0..(count - 1) : messages[i] \in Msgs
      BY DEF TypeOK, QueueOwnsLive, Live
    <2> QED BY <2>1, ContentsIsSeq
  <1>1. r \in Seq(Msgs) /\ Len(r) = room.n /\ \A i \in 1..room.n : r[i] = room.slots[i - 1]
    <2>1. room.n \in Nat /\ \A i \in 0..(room.n - 1) : room.slots[i] \in Msgs
      BY MakeRoomType, MakeRoomOwns DEF OwnsPrefix, Slots
    <2> QED BY <2>1, ContentsIsSeq
  <1>2. CASE count < Depth
    <2>1. r = q
      BY <1>2 DEF MakeRoom
    <2>2. Fifo!Roomy(q) = {q}
      BY <1>0, <1>2 DEF Fifo!Roomy
    <2> QED BY <1>1, <2>1, <2>2
  <1>3. CASE ~(count < Depth)
    <2>1. PICK v \in Live : /\ IsDropIndex(v)
                            /\ room = [slots |-> ShiftDown(v), n |-> count - 1,
                                       own |-> [own EXCEPT ![messages[v]] = "heap"]]
      BY <1>3 DEF MakeRoom
    <2>2. ~rejectNew
      BY <1>3 DEF MakeRoom
    <2>3. count = Depth /\ count \in Nat /\ v \in 0..(count - 1)
      BY <1>3, DepthAssumption DEF TypeOK, Live
    <2>4. \A i \in 0..(count - 2) :
            ShiftDown(v)[i] = IF i >= v THEN messages[i + 1] ELSE messages[i]
      BY <2>3, DepthAssumption DEF ShiftDown, Slots
    <2>5. Fifo!Without(q, v + 1)
            = [j \in 1..(count - 1) |-> IF j < v + 1 THEN q[j] ELSE q[j + 1]]
      BY <1>0 DEF Fifo!Without
    <2>6. r = [j \in 1..(count - 1) |-> ShiftDown(v)[j - 1]]
      BY <2>1 DEF Contents
    <2>7. \A j \in 1..(count - 1) :
            ShiftDown(v)[j - 1] = IF j < v + 1 THEN q[j] ELSE q[j + 1]
      <3> TAKE j \in 1..(count - 1)
      <3>1. j - 1 \in 0..(count - 2) /\ (j - 1) + 1 = j /\ (j + 1) - 1 = j
            /\ j \in 1..count /\ j + 1 \in 1..count
        BY <2>3
      <3>2. q[j] = messages[j - 1] /\ q[j + 1] = messages[j]
        BY <1>0, <3>1
      <3> QED BY <2>3, <2>4, <3>1, <3>2
    <2>8. r = Fifo!Without(q, v + 1)
      BY <2>5, <2>6, <2>7
    <2>9. Fifo!IsVictim(q, v + 1) /\ v + 1 \in 1..count
      <3>1. v + 1 \in 1..count /\ (v + 1) - 1 = v
        BY <2>3
      <3>2. q[v + 1] = messages[v]
        BY <1>0, <3>1
      <3>3. CASE /\ messages[v] \in DroppableMsgs
                 /\ \A j \in 0..(v - 1) : messages[j] \notin DroppableMsgs
        <4>1. \A j \in 1..((v + 1) - 1) : j - 1 \in 0..(v - 1) /\ j \in 1..count
          BY <2>3
        <4>2. \A j \in 1..((v + 1) - 1) : q[j] \notin DroppableMsgs
          BY <1>0, <3>3, <4>1
        <4> QED BY <3>1, <3>2, <3>3, <4>2 DEF Fifo!IsVictim
      <3>4. CASE v = 0 /\ \A j \in Live : messages[j] \notin DroppableMsgs
        <4>1. \A j \in 1..Len(q) : j - 1 \in Live /\ j \in 1..count
          BY <1>0, <2>3 DEF Live
        <4>2. \A j \in 1..Len(q) : q[j] \notin DroppableMsgs
          BY <1>0, <3>4, <4>1
        <4> QED BY <3>1, <3>4, <4>2 DEF Fifo!IsVictim
      <3> QED BY <2>1, <3>1, <3>3, <3>4 DEF IsDropIndex
    <2> QED BY <1>0, <1>1, <1>3, <2>2, <2>8, <2>9 DEF Fifo!Roomy
  <1> QED BY <1>2, <1>3

\* Making room takes nothing away from a reader and gives it nothing.
LEMMA RoomKeepsTaken ==
  ASSUME TypeOK, QueueOwnsLive, NEW room \in MakeRoom
  PROVE  \A m \in Msgs : (room.own[m] = "reader") <=> (own[m] = "reader")
  <1>1. CASE count < Depth
    BY <1>1 DEF MakeRoom
  <1>2. CASE ~(count < Depth)
    <2>1. PICK v \in Live : room = [slots |-> ShiftDown(v), n |-> count - 1,
                              own |-> [own EXCEPT ![messages[v]] = "heap"]]
      BY <1>2 DEF MakeRoom
    <2>2. messages[v] \in Msgs /\ own[messages[v]] = "queue"
      BY DEF QueueOwnsLive
    <2>3. \A m \in Msgs : room.own[m] = IF m = messages[v] THEN "heap" ELSE own[m]
      BY <2>1, <2>2 DEF TypeOK
    <2> QED BY <2>2, <2>3
  <1> QED BY <1>1, <1>2

\* The live slots are a sequence of buffers, and none of them is with a reader.
LEMMA QueueIsSeq ==
  ASSUME TypeOK, QueueOwnsLive
  PROVE  /\ Contents(messages, count) \in Seq(Msgs)
         /\ Len(Contents(messages, count)) = count
         /\ \A i \in 1..count : /\ Contents(messages, count)[i] = messages[i - 1]
                                /\ own[messages[i - 1]] = "queue"
  <1>1. count \in Nat /\ \A i \in 0..(count - 1) : messages[i] \in Msgs
                                                   /\ own[messages[i]] = "queue"
    BY DEF TypeOK, QueueOwnsLive, Live
  <1>2. \A i \in 1..count : own[messages[i - 1]] = "queue"
    <2> TAKE i \in 1..count
    <2>1. i - 1 \in 0..(count - 1)
      BY <1>1
    <2> QED BY <1>1, <2>1
  <1> QED BY <1>1, <1>2, ContentsIsSeq

\* So are they after a step that keeps the invariant.
LEMMA NextIsSeq ==
  ASSUME TypeOK', QueueOwnsLive'
  PROVE  /\ Contents(messages', count') \in Seq(Msgs)
         /\ Len(Contents(messages', count')) = count'
         /\ \A i \in 1..count' : Contents(messages', count')[i] = messages'[i - 1]
  <1>1. count' \in Nat
    BY DepthAssumption DEF TypeOK
  <1>2. Live' = 0..(count' - 1)
    BY DEF Live
  <1>3. \A i \in Live' : messages'[i] \in Msgs
    BY DEF QueueOwnsLive
  <1> QED BY <1>1, <1>2, <1>3, ContentsIsSeq

\* message_queue_add() appends.
LEMMA AddMaps ==
  ASSUME TypeOK, QueueOwnsLive, QueueOwnsLive', TypeOK', NEW m \in Msgs, Add(m)
  PROVE  Fifo!PushBack
  <1>1. PICK room \in MakeRoom :
          /\ messages' = [room.slots EXCEPT ![room.n] = m]
          /\ count' = room.n + 1
          /\ own' = [room.own EXCEPT ![m] = "queue"]
    BY DEF Add
  <1> DEFINE r == Contents(room.slots, room.n)
             q == Contents(messages, count)
             p == Contents(messages', count')
  <1>2. r \in Fifo!Roomy(q) /\ r \in Seq(Msgs) /\ Len(r) = room.n
    BY RoomMaps
  <1>3. /\ room.slots \in [Slots -> Msgs \cup {NoMsg}]
        /\ room.n \in Slots
        /\ room.own \in [Msgs -> Owners]
    BY MakeRoomType
  <1>4. own[m] = "heap" /\ rejectNew' = rejectNew
    BY DEF Add
  <1>5. p \in Seq(Msgs) /\ Len(p) = count' /\ \A i \in 1..count' : p[i] = messages'[i - 1]
    BY NextIsSeq
  <1>6. p = Append(r, m)
    <2>1. Append(r, m) \in Seq(Msgs) /\ Len(Append(r, m)) = room.n + 1
      BY <1>2
    <2>2. ASSUME NEW i \in 1..count' PROVE p[i] = Append(r, m)[i]
      <3>1. i - 1 \in Slots /\ i \in 1..(room.n + 1) /\ room.n \in Nat
        BY <1>1, <1>3, DepthAssumption DEF Slots
      <3>2. CASE i = room.n + 1
        <4>1. messages'[room.n] = m
          BY <1>1, <1>3
        <4>2. Append(r, m)[room.n + 1] = m
          <5> HIDE DEF r
          <5> QED BY <1>2, <3>1
        <4>3. p[i] = messages'[room.n]
          <5> HIDE DEF p
          <5> QED BY <1>5, <3>1, <3>2
        <4> QED BY <3>2, <4>1, <4>2, <4>3
      <3>3. CASE i # room.n + 1
        <4>1. i \in 1..room.n /\ i - 1 # room.n
          BY <3>1, <3>3
        <4>2. messages'[i - 1] = room.slots[i - 1]
          BY <1>1, <1>3, <3>1, <4>1
        <4>3. Append(r, m)[i] = r[i]
          BY <1>2, <4>1
        <4>4. r[i] = room.slots[i - 1]
          BY <4>1 DEF Contents
        <4> QED BY <1>5, <4>2, <4>3, <4>4
      <3> QED BY <3>2, <3>3
    <2> HIDE DEF r, q, p
    <2> QED BY <1>1, <1>5, <2>1, <2>2, SeqEqual
  <1>7. Taken' = Taken
    <2>1. \A k \in Msgs : own'[k] = IF k = m THEN "queue" ELSE room.own[k]
      BY <1>1, <1>3
    <2> QED BY <1>4, <2>1, RoomKeepsTaken DEF Taken
  <1>8. m \in Msgs \ ({q[i] : i \in 1..Len(q)} \cup Taken)
    <2>1. m \notin Taken
      BY <1>4 DEF Taken
    <2>2. \A i \in 1..Len(q) : own[q[i]] = "queue"
      BY QueueIsSeq
    <2> QED BY <1>4, <2>1, <2>2
  <1> QED BY <1>2, <1>4, <1>6, <1>7, <1>8
          DEF Fifo!PushBack, Fifo!Queued, Contents, Taken

\* message_queue_add_front() puts the buffer back before the others.
LEMMA AddFrontMaps ==
  ASSUME TypeOK, QueueOwnsLive, QueueOwnsLive', TypeOK', NEW m \in Msgs, AddFront(m)
  PROVE  Fifo!PushFront
  <1>1. PICK room \in MakeRoom :
          /\ messages' = StoreFront(room.slots, room.n, m)
          /\ count' = room.n + 1
          /\ own' = [room.own EXCEPT ![m] = "queue"]
    BY DEF AddFront
  <1> DEFINE r == Contents(room.slots, room.n)
             q == Contents(messages, count)
             p == Contents(messages', count')
  <1>2. r \in Fifo!Roomy(q) /\ r \in Seq(Msgs) /\ Len(r) = room.n
    BY RoomMaps
  <1>3. /\ room.slots \in [Slots -> Msgs \cup {NoMsg}]
        /\ room.n \in Slots
        /\ room.own \in [Msgs -> Owners]
    BY MakeRoomType
  <1>4. own[m] = "reader" /\ rejectNew' = rejectNew
    BY DEF AddFront
  <1>5. p \in Seq(Msgs) /\ Len(p) = count' /\ \A i \in 1..count' : p[i] = messages'[i - 1]
    BY NextIsSeq
  <1>6. p = <<m>> \o r
    <2>1. <<m>> \o r \in Seq(Msgs) /\ Len(<<m>> \o r) = room.n + 1
      <3>1. <<m>> \in Seq(Msgs) /\ Len(<<m>>) = 1
        OBVIOUS
      <3> HIDE DEF r
      <3>2. <<m>> \o r \in Seq(Msgs) /\ Len(<<m>> \o r) = Len(<<m>>) + Len(r)
        BY <1>2, <3>1
      <3>3. room.n \in Nat
        BY <1>3, DepthAssumption DEF Slots
      <3> QED BY <1>2, <3>1, <3>2, <3>3
    <2>2. ASSUME NEW i \in 1..count' PROVE p[i] = (<<m>> \o r)[i]
      <3>1. i - 1 \in Slots /\ i \in 1..(room.n + 1) /\ room.n \in Nat
        BY <1>1, <1>3, DepthAssumption DEF Slots
      <3>2. CASE i = 1
        <4>1. messages'[i - 1] = m
          BY <1>1, <3>1, <3>2 DEF StoreFront
        <4>2. (<<m>> \o r)[1] = m
          <5> HIDE DEF r
          <5> QED BY <1>2, <3>1
        <4> QED BY <1>5, <3>2, <4>1, <4>2
      <3>3. CASE i # 1
        <4>1. i - 1 \in 1..room.n /\ i - 1 # 0
          BY <3>1, <3>3
        <4>2. messages'[i - 1] = room.slots[(i - 1) - 1]
          BY <1>1, <3>1, <4>1 DEF StoreFront
        <4>3. (<<m>> \o r)[i] = r[i - 1]
          <5> HIDE DEF r
          <5> QED BY <1>2, <3>1, <4>1
        <4>4. r[i - 1] = room.slots[(i - 1) - 1]
          BY <4>1 DEF Contents
        <4> QED BY <1>5, <4>2, <4>3, <4>4
      <3> QED BY <3>2, <3>3
    <2> HIDE DEF r, q, p
    <2> QED BY <1>1, <1>5, <2>1, <2>2, SeqEqual
  <1>7. Taken' = Taken \ {m}
    <2>1. \A k \in Msgs : own'[k] = IF k = m THEN "queue" ELSE room.own[k]
      BY <1>1, <1>3
    <2> QED BY <1>4, <2>1, RoomKeepsTaken DEF Taken
  <1>8. m \in Taken
    BY <1>4 DEF Taken
  <1> QED BY <1>2, <1>4, <1>6, <1>7, <1>8 DEF Fifo!PushFront, Contents, Taken

\* take_head() pops.
LEMMA TakeHeadMaps ==
  ASSUME TypeOK, QueueOwnsLive, QueueOwnsLive', TypeOK', count > 0, TakeHead,
         UNCHANGED rejectNew
  PROVE  Fifo!Pop
  <1> DEFINE q == Contents(messages, count)
             p == Contents(messages', count')
  <1>1. q \in Seq(Msgs) /\ Len(q) = count /\ \A i \in 1..count : q[i] = messages[i - 1]
    BY QueueIsSeq
  <1>2. p \in Seq(Msgs) /\ Len(p) = count' /\ \A i \in 1..count' : p[i] = messages'[i - 1]
    BY NextIsSeq
  <1>3. count' = count - 1 /\ count \in Nat /\ count <= Depth
    BY DEF TakeHead, TypeOK
  <1>4. \A i \in 0..(count - 2) : messages'[i] = messages[i + 1]
    BY DepthAssumption DEF TakeHead, HeadTaken, Slots, TypeOK
  <1>5. q # << >> /\ Head(q) = messages[0]
    <2>1. q # << >>
      BY <1>1
    <2>2. 1 \in 1..count
      BY <1>3
    <2> HIDE DEF q, p
    <2>3. Head(q) = q[1]
      BY <1>1, <2>1
    <2> QED BY <1>1, <2>1, <2>2, <2>3
  <1>6. p = Tail(q)
    <2>1. Tail(q) \in Seq(Msgs) /\ Len(Tail(q)) = count - 1
          /\ \A i \in 1..(count - 1) : Tail(q)[i] = q[i + 1]
      <3> HIDE DEF q, p
      <3> QED BY <1>1, <1>3, <1>5
    <2>2. ASSUME NEW i \in 1..count' PROVE p[i] = Tail(q)[i]
      <3>1. i - 1 \in 0..(count - 2) /\ (i - 1) + 1 = i /\ i + 1 \in 1..count
            /\ (i + 1) - 1 = i /\ i \in 1..(count - 1)
        BY <1>3
      <3> HIDE DEF q, p
      <3> QED BY <1>1, <1>2, <1>4, <2>1, <3>1, SMTT(30)
    <2> HIDE DEF q, p
    <2> QED BY <1>2, <1>3, <2>1, <2>2, SeqEqual
  <1>7. Taken' = Taken \cup {messages[0]}
    <2>1. messages[0] \in Msgs
      BY <1>3 DEF QueueOwnsLive, Live
    <2>2. \A k \in Msgs : own'[k] = IF k = messages[0] THEN "reader" ELSE own[k]
      BY <2>1 DEF TakeHead, TypeOK
    <2> QED BY <2>1, <2>2 DEF Taken
  <1> QED BY <1>5, <1>6, <1>7 DEF Fifo!Pop, Contents, Taken

\* Clearing the array empties the FIFO and leaves the taken buffers alone.
LEMMA PurgeMaps ==
  ASSUME TypeOK, QueueOwnsLive, Cleanup \/ Deinit
  PROVE  Fifo!Purge
  <1>1. count' = 0 /\ rejectNew' = rejectNew
    BY DEF Cleanup, Deinit
  <1>2. Contents(messages', count') = << >>
    BY <1>1 DEF Contents
  <1>3. Taken' = Taken
    <2>1. \A m \in Msgs : own'[m] = IF \E i \in Live : messages[i] = m THEN "heap" ELSE own[m]
      BY DEF Cleanup, Deinit
    <2> QED BY <2>1 DEF Taken, QueueOwnsLive
  <1> QED BY <1>1, <1>2, <1>3 DEF Fifo!Purge, Contents, Taken

\* Every step of the array is a step of the FIFO or leaves it alone.
LEMMA RefinementStep ==
  ASSUME IInv, IInv', [Next]_vars
  PROVE  [Fifo!Next]_(Fifo!fvars)
  <1> USE DEF IInv
  <1>1. CASE InitWithConfig
    <2>1. count = 0 /\ count' = 0 /\ rejectNew' \in BOOLEAN /\ own' = own
      BY <1>1 DEF InitWithConfig, DownIsIdle
    <2>2. Contents(messages, count) = << >> /\ Contents(messages', count') = << >>
      BY <2>1 DEF Contents
    <2>3. Fifo!Configure
      BY <2>1, <2>2 DEF Fifo!Configure, Contents, Taken
    <2> QED BY <2>3 DEF Fifo!Next
  <1>2. CASE Cleanup \/ Deinit
    BY <1>2, PurgeMaps DEF Fifo!Next
  <1>3. ASSUME NEW m \in Msgs, Add(m) PROVE Fifo!Next
    BY <1>3, AddMaps DEF Fifo!Next
  <1>4. ASSUME NEW m \in Msgs, AddFront(m) PROVE Fifo!Next
    BY <1>4, AddFrontMaps DEF Fifo!Next
  <1>5. ASSUME NEW m \in Msgs, FreeTaken(m) PROVE Fifo!Next
    <2>1. m \in Taken /\ Taken' = Taken \ {m}
      BY <1>5 DEF FreeTaken, Taken, TypeOK
    <2>2. UNCHANGED <<messages, count, rejectNew>>
      BY <1>5 DEF FreeTaken
    <2>3. Fifo!Release
      BY <2>1, <2>2 DEF Fifo!Release, Taken
    <2> QED BY <2>3 DEF Fifo!Next
  <1>6. CASE GetNext
    BY <1>6, TakeHeadMaps DEF GetNext, Fifo!Next
  <1>7. ASSUME NEW r \in Readers, count > 0, TakeAndPassOn(r) PROVE Fifo!Next
    BY <1>7, TakeHeadMaps DEF TakeAndPassOn, Fifo!Next
  <1>8. CASE UNCHANGED <<messages, count, own, rejectNew>>
    BY <1>8 DEF Fifo!fvars
  <1> QED BY <1>1, <1>2, <1>3, <1>4, <1>5, <1>6, <1>7, <1>8
          DEF Next, vars, GetNextWait, SemaphoreTake, SpuriousWakeup, WaitExpires,
              Recheck

\* For every depth, policy, target and number of readers: the slot array with its
\* shifts, its count and its owners implements the bounded FIFO that
\* message_queue.h promises; only the oldest droppable buffer makes room.
THEOREM Refinement == Spec => ImplementsFifo
<1>1. Init => Fifo!Init
  BY DEF Init, Fifo!Init
<1>2. IInv /\ IInv' /\ [Next]_vars => [Fifo!Next]_(Fifo!fvars)
  BY RefinementStep
<1> QED BY <1>1, <1>2, Inductive, PTL DEF Spec, ImplementsFifo, Fifo!Spec

-----------------------------------------------------------------------------
(***************************************************************************)
(* The work queue: its ring, its worker and its barriers.                  *)
(***************************************************************************)

\* The i-th queued entry, counted from the head of the ring.
ItemAt(i) == items[(head + i) % Size]

\* The indices of the queued entries.
RingPlaces == 0..(wqCount - 1)

\* An entry is under way while it is queued or the worker runs it.
UnderWay(e) == e = cur \/ \E i \in RingPlaces : ItemAt(i) = e

\* The ring holds what was posted and not taken, in that order.
RingInv ==
  /\ Len(posted) = Len(ran) + wqCount
  /\ \A i \in 1..Len(ran) : ran[i] = posted[i]
  /\ \A i \in RingPlaces : posted[Len(ran) + 1 + i] = ItemAt(i)

\* The worker is there while the queue runs, and nothing is queued without one
\* that exists.
ControlInv ==
  /\ ready <=> state # "deinit"
  /\ state = "deinit" => wqCount = 0
  /\ worker # "none" <=> (state \in {"running", "stop_requested"} \/ ctl = "started")
  /\ ctl = "started" => state = "init_done"
  /\ ctl = "stopping" => state \in {"init_done", "stop_requested"}
  /\ worker = "busy" <=> cur # NoEntry

\* Nothing is under way twice.
OnceInv ==
  /\ \A i \in RingPlaces : ItemAt(i) \in Entries /\ ItemAt(i) # cur
  /\ \A i, j \in RingPlaces : ItemAt(i) = ItemAt(j) => i = j

\* Exactly the work that is under way counts as queued.
TaskInv == \A t \in Tasks : task[t] = "queued" <=> UnderWay(t)

\* A barrier that is under way has a semaphore nobody gave or deleted.
SemInv ==
  \A s \in Syncs :
    /\ UnderWay(s) => sem[s] = "made" /\ sync[s] \in {"taking", "timeout"}
    /\ sync[s] = "adding" => sem[s] = "made"

\* What was ahead of a barrier is done once the barrier is reached, and until
\* then done, being run, or queued before it.
AheadInv ==
  \A s \in Syncs :
    /\ (sync[s] = "ok" \/ sem[s] = "given" \/ cur = s)
         => \A t \in ahead[s] : task[t] = "done"
    /\ \A i \in RingPlaces : ItemAt(i) = s =>
         \A t \in ahead[s] :
           \/ task[t] = "done" \/ cur = t
           \/ \E j \in 0..(i - 1) : ItemAt(j) = t

\* The inductive invariant.
WqInv == /\ WqTypeOK /\ RingInv /\ ControlInv /\ OnceInv
         /\ TaskInv /\ SemInv /\ AheadInv

\* The place in the ring of the i-th entry from a head.
LEMMA RingIndex ==
  ASSUME NEW h \in RingSlots, NEW i \in RingSlots
  PROVE  (h + i) % Size = IF h + i < Size THEN h + i ELSE (h + i) - Size
  BY SizeAssumption DEF RingSlots

\* What it is after the head moved on by one.
LEMMA RingShift ==
  ASSUME NEW h \in RingSlots, NEW i \in RingSlots, i + 1 \in RingSlots
  PROVE  ((h + 1) % Size) \in RingSlots /\ (((h + 1) % Size) + i) % Size = (h + (i + 1)) % Size
  <1>1. (h + (i + 1)) % Size = IF h + (i + 1) < Size THEN h + (i + 1) ELSE (h + (i + 1)) - Size
    BY RingIndex
  <1>2. Size \in Nat \ {0} /\ h \in 0..(Size - 1) /\ i \in 0..(Size - 1) /\ i + 1 \in 0..(Size - 1)
    BY SizeAssumption DEF RingSlots
  <1>3. 1 \in RingSlots
    BY <1>2 DEF RingSlots
  <1>4. (h + 1) % Size = IF h + 1 < Size THEN h + 1 ELSE (h + 1) - Size
    BY <1>3, RingIndex
  <1>5. ((h + 1) % Size) \in RingSlots
    BY <1>2, <1>4 DEF RingSlots
  <1>6. (((h + 1) % Size) + i) % Size
          = IF ((h + 1) % Size) + i < Size THEN ((h + 1) % Size) + i
            ELSE (((h + 1) % Size) + i) - Size
    BY <1>5, RingIndex
  <1> QED BY <1>1, <1>2, <1>4, <1>5, <1>6

\* Two places differ unless the entries are the same.
LEMMA RingDistinct ==
  ASSUME NEW h \in RingSlots, NEW i \in RingSlots, NEW j \in RingSlots, i # j
  PROVE  (h + i) % Size # (h + j) % Size /\ (h + i) % Size \in RingSlots
  <1>1. /\ (h + i) % Size = IF h + i < Size THEN h + i ELSE (h + i) - Size
        /\ (h + j) % Size = IF h + j < Size THEN h + j ELSE (h + j) - Size
    BY RingIndex
  <1>2. Size \in Nat \ {0} /\ h \in 0..(Size - 1) /\ i \in 0..(Size - 1) /\ j \in 0..(Size - 1)
    BY SizeAssumption DEF RingSlots
  <1>3. (h + i) % Size \in RingSlots
    BY <1>1, <1>2 DEF RingSlots
  <1> QED BY <1>1, <1>2, <1>3

\* The head stays in the ring.
LEMMA HeadMoves ==
  ASSUME NEW h \in RingSlots
  PROVE  (h + 1) % Size \in RingSlots
  BY SizeAssumption DEF RingSlots

\* What wq_try_send() does to the queued entries: one more at the end.
LEMMA SendView ==
  ASSUME WqTypeOK, NEW e \in Entries, TrySend(e)
  PROVE  /\ ready /\ wqCount \in RingSlots /\ wqCount' = wqCount + 1
         /\ items' \in [RingSlots -> Entries \cup {NoEntry}]
         /\ head' = head
         /\ RingPlaces' = RingPlaces \cup {wqCount} /\ wqCount \notin RingPlaces
         /\ \A i \in RingPlaces : ItemAt(i)' = ItemAt(i)
         /\ \A i \in RingPlaces' : i = wqCount => ItemAt(i)' = e
         /\ posted' = Append(posted, e)
  <1>1. /\ ready /\ wqCount < Size /\ wqCount' = wqCount + 1 /\ head' = head
        /\ items' = [items EXCEPT ![(head + wqCount) % Size] = e]
        /\ posted' = Append(posted, e)
    BY DEF TrySend, HasRoom
  <1>2. head \in RingSlots /\ wqCount \in RingSlots /\ wqCount \in Nat
    BY <1>1, SizeAssumption DEF WqTypeOK, RingSlots
  <1>3. (head + wqCount) % Size \in RingSlots
    BY <1>2, SizeAssumption DEF RingSlots
  <1>4. items' \in [RingSlots -> Entries \cup {NoEntry}]
    BY <1>1, <1>3 DEF WqTypeOK
  <1>5. RingPlaces' = RingPlaces \cup {wqCount} /\ wqCount \notin RingPlaces
    BY <1>1, <1>2 DEF RingPlaces
  <1>6. ASSUME NEW i \in RingPlaces PROVE ItemAt(i)' = ItemAt(i)
    <2>1. i \in RingSlots /\ i # wqCount
      BY <1>1, <1>2, SizeAssumption DEF RingPlaces, RingSlots
    <2>2. (head + i) % Size \in RingSlots /\ (head + i) % Size # (head + wqCount) % Size
      BY <1>2, <2>1, RingDistinct
    <2>3. items'[(head + i) % Size] = items[(head + i) % Size]
      BY <1>1, <2>2 DEF WqTypeOK
    <2> QED BY <1>1, <2>3 DEF ItemAt
  <1>7. ASSUME NEW i \in RingPlaces', i = wqCount PROVE ItemAt(i)' = e
    <2>1. items'[(head + i) % Size] = e
      BY <1>1, <1>3, <1>7 DEF WqTypeOK
    <2> QED BY <1>1, <2>1 DEF ItemAt
  <1> QED BY <1>1, <1>2, <1>4, <1>5, <1>6, <1>7

\* What wq_receive() does to them: the first one goes.
LEMMA TakeView ==
  ASSUME WqTypeOK, WorkerTakes
  PROVE  /\ wqCount > 0 /\ wqCount \in Nat /\ wqCount' = wqCount - 1
         /\ head' \in RingSlots
         /\ 0 \in RingPlaces /\ cur' = ItemAt(0)
         /\ \A i \in RingPlaces' : i + 1 \in RingPlaces /\ ItemAt(i)' = ItemAt(i + 1)
         /\ \A i \in RingPlaces : i = 0 \/ (i - 1 \in RingPlaces' /\ ItemAt(i - 1)' = ItemAt(i))
  <1>1. /\ wqCount > 0 /\ wqCount' = wqCount - 1 /\ head' = (head + 1) % Size
        /\ items' = items /\ cur' = items[head]
    BY DEF WorkerTakes
  <1>2. head \in RingSlots /\ wqCount \in Nat /\ wqCount <= Size
    BY SizeAssumption DEF WqTypeOK
  <1>3. head' \in RingSlots
    BY <1>1, <1>2, HeadMoves
  <1>4. 0 \in RingPlaces /\ 0 \in RingSlots
    BY <1>1, <1>2, SizeAssumption DEF RingPlaces, RingSlots
  <1>5. cur' = ItemAt(0)
    <2>1. (head + 0) % Size = head
      <3>1. (head + 0) % Size = IF head + 0 < Size THEN head + 0 ELSE (head + 0) - Size
        BY <1>2, <1>4, RingIndex
      <3>2. head \in 0..(Size - 1) /\ Size \in Nat
        BY <1>2, SizeAssumption DEF RingSlots
      <3> QED BY <3>1, <3>2
    <2> QED BY <1>1, <2>1 DEF ItemAt
  <1>6. ASSUME NEW i \in RingPlaces' PROVE i + 1 \in RingPlaces /\ ItemAt(i)' = ItemAt(i + 1)
    <2>1. i + 1 \in RingPlaces /\ i \in RingSlots /\ i + 1 \in RingSlots
      BY <1>1, <1>2, SizeAssumption DEF RingPlaces, RingSlots
    <2>2. (head' + i) % Size = (head + (i + 1)) % Size
      BY <1>1, <1>2, <2>1, RingShift
    <2>3. ItemAt(i)' = items'[(head' + i) % Size]
      BY DEF ItemAt
    <2> QED BY <1>1, <2>1, <2>2, <2>3 DEF ItemAt
  <1>7. ASSUME NEW i \in RingPlaces, i # 0 PROVE i - 1 \in RingPlaces' /\ ItemAt(i - 1)' = ItemAt(i)
    <2>1. i - 1 \in RingPlaces' /\ (i - 1) + 1 = i
      BY <1>1, <1>2, <1>7 DEF RingPlaces
    <2> QED BY <1>6, <2>1
  <1> QED BY <1>1, <1>2, <1>3, <1>4, <1>5, <1>6, <1>7

-----------------------------------------------------------------------------
\* The inductive step of the types.
LEMMA WqTypeStep ==
  ASSUME WqInv, [WqNext]_wqVars
  PROVE  WqTypeOK'
  <1> USE DEF WqInv
  <1>1. CASE WqInitWithConfig \/ Start \/ Started \/ Stop \/ WqDeinit
    <2>1. [i \in RingSlots |-> NoEntry] \in [RingSlots -> Entries \cup {NoEntry}]
          /\ 0 \in RingSlots /\ 0 \in 0..Size
      BY SizeAssumption DEF RingSlots
    <2> QED BY <1>1, <2>1 DEF WqInitWithConfig, Start, Started, Stop, WqDeinit,
               StopRequested, WqTypeOK, ring, clients
  <1>2. CASE Delete
    <2>1. [t \in Tasks |-> IF t \in Queued THEN "dropped" ELSE task[t]]
            \in [Tasks -> {"new", "waiting", "queued", "done", "failed", "dropped"}]
      BY DEF WqTypeOK
    <2>2. 0 \in 0..Size
      BY SizeAssumption
    <2> QED BY <1>2, <2>1, <2>2 DEF Delete, WqTypeOK
  <1>3. ASSUME NEW e \in Entries, TrySend(e)
        PROVE  /\ items' \in [RingSlots -> Entries \cup {NoEntry}]
               /\ head' \in RingSlots /\ wqCount' \in 0..Size
               /\ posted' \in Seq(Entries)
    <2>1. posted' \in Seq(Entries)
      BY <1>3 DEF TrySend, WqTypeOK
    <2>2. wqCount' \in 0..Size
      BY <1>3, SendView, SizeAssumption DEF RingSlots
    <2>3. head' \in RingSlots
      BY <1>3, SendView DEF WqTypeOK
    <2> QED BY <1>3, <2>1, <2>2, <2>3, SendView
  <1>4. ASSUME NEW t \in Tasks, AddTask(t) \/ AddTaskWaits(t) \/ PostStep(t)
        PROVE  WqTypeOK'
    <2>1. CASE TrySend(t)
      <3>1. /\ items' \in [RingSlots -> Entries \cup {NoEntry}]
            /\ head' \in RingSlots /\ wqCount' \in 0..Size
            /\ posted' \in Seq(Entries)
        BY <1>3, <2>1 DEF Entries
      <3>2. \/ task' = [task EXCEPT ![t] = "queued"]
            \/ task' = [task EXCEPT ![t] = "failed"]
            \/ task' = [task EXCEPT ![t] = "waiting"]
        BY <1>4 DEF AddTask, AddTaskWaits, PostStep, AddTaskSends, AddTaskTimesOut
      <3>3. UNCHANGED <<state, ready, ctl, worker, cur, sync, sem, ran, ahead>>
        BY <1>4 DEF AddTask, AddTaskWaits, PostStep, AddTaskSends, AddTaskTimesOut
      <3>4. task' \in [Tasks -> {"new", "waiting", "queued", "done", "failed", "dropped"}]
        BY <3>2 DEF WqTypeOK
      <3> QED BY <3>1, <3>3, <3>4 DEF WqTypeOK
    <2>2. CASE ~TrySend(t)
      <3>1. UNCHANGED <<state, ready, ring, ctl, worker, cur, sync, sem, posted, ran, ahead>>
        BY <1>4, <2>2 DEF AddTask, AddTaskWaits, PostStep, AddTaskSends, AddTaskTimesOut, ring
      <3>2. \/ task' = [task EXCEPT ![t] = "failed"]
            \/ task' = [task EXCEPT ![t] = "waiting"]
        BY <1>4, <2>2 DEF AddTask, AddTaskWaits, PostStep, AddTaskSends, AddTaskTimesOut
      <3>3. task' \in [Tasks -> {"new", "waiting", "queued", "done", "failed", "dropped"}]
        BY <3>2 DEF WqTypeOK
      <3> QED BY <3>1, <3>3 DEF WqTypeOK, ring
    <2> QED BY <2>1, <2>2
  <1>5. ASSUME NEW s \in Syncs, SyncAdds(s) PROVE WqTypeOK'
    <2>1. /\ items' \in [RingSlots -> Entries \cup {NoEntry}]
          /\ head' \in RingSlots /\ wqCount' \in 0..Size
          /\ posted' \in Seq(Entries)
      BY <1>3, <1>5 DEF Entries, SyncAdds
    <2>2. /\ sync' = [sync EXCEPT ![s] = "taking"]
          /\ ahead' = [ahead EXCEPT ![s] = {t \in Tasks : task[t] = "queued"}]
          /\ UNCHANGED <<state, ready, ctl, worker, cur, task, sem, ran>>
      BY <1>5 DEF SyncAdds
    <2>3. /\ sync' \in [Syncs -> {"idle", "adding", "taking", "ok", "timeout", "refused"}]
          /\ ahead' \in [Syncs -> SUBSET Tasks]
      BY <2>2 DEF WqTypeOK
    <2> QED BY <2>1, <2>2, <2>3 DEF WqTypeOK
  <1>6. ASSUME NEW s \in Syncs,
               SyncCall(s) \/ SyncAddFails(s) \/ SyncTakes(s) \/ SyncTimesOut(s)
        PROVE  WqTypeOK'
    BY <1>6 DEF SyncCall, SyncAddFails, SyncTakes, SyncTimesOut, WqTypeOK, ring
  <1>7. CASE WorkerTop \/ WorkerExits \/ WorkerFindsNothing
    BY <1>7 DEF WorkerTop, WorkerExits, WorkerFindsNothing, WqTypeOK, ring, clients
  <1>8. CASE WorkerTakes
    <2>1. /\ wqCount' \in 0..Size /\ head' \in RingSlots
      BY <1>8, TakeView, SizeAssumption DEF WqTypeOK
    <2>2. cur' \in Entries
      BY <1>8, TakeView DEF OnceInv
    <2>3. ran' \in Seq(Entries)
      BY <1>8, <2>2 DEF WorkerTakes, WqTypeOK
    <2> QED BY <1>8, <2>1, <2>2, <2>3 DEF WorkerTakes, WqTypeOK
  <1>9. CASE WorkerRuns
    <2>1. task' \in [Tasks -> {"new", "waiting", "queued", "done", "failed", "dropped"}]
      BY <1>9 DEF WorkerRuns, WqTypeOK
    <2>2. sem' \in [Syncs -> {"none", "made", "given", "deleted"}]
      BY <1>9 DEF WorkerRuns, WqTypeOK
    <2> QED BY <1>9, <2>1, <2>2 DEF WorkerRuns, WqTypeOK, ring
  <1>10. CASE UNCHANGED wqVars
    BY <1>10 DEF wqVars, ring, WqTypeOK
  <1> QED BY <1>1, <1>2, <1>4, <1>5, <1>6, <1>7, <1>8, <1>9, <1>10
          DEF WqNext, Control, Worker, SyncStep

-----------------------------------------------------------------------------
\* A sequence with one element more.
LEMMA Appended ==
  ASSUME NEW S, NEW q \in Seq(S), NEW e \in S
  PROVE  /\ Len(Append(q, e)) = Len(q) + 1
         /\ \A i \in 1..Len(q) : Append(q, e)[i] = q[i]
         /\ Append(q, e)[Len(q) + 1] = e
  OBVIOUS

\* The steps that queue an entry: which one, and what else they do.
LEMMA SendStep ==
  ASSUME NEW e \in Entries, TrySend(e), [WqNext]_wqVars, WqInv
  PROVE  /\ UNCHANGED <<state, ready, ctl, worker, cur, sem, ran>>
         /\ \/ /\ e \in Tasks /\ task[e] \in {"new", "waiting"}
               /\ task' = [task EXCEPT ![e] = "queued"]
               /\ UNCHANGED <<sync, ahead>>
            \/ /\ e \in Syncs /\ sync[e] = "adding"
               /\ sync' = [sync EXCEPT ![e] = "taking"]
               /\ ahead' = [ahead EXCEPT ![e] = {t \in Tasks : task[t] = "queued"}]
               /\ UNCHANGED task
  <1>1. wqCount \in Nat /\ wqCount' = wqCount + 1 /\ ready
    BY SendView DEF RingSlots, WqInv
  <1>2. Len(posted') = Len(posted) + 1 /\ posted'[Len(posted) + 1] = e
    BY Appended DEF TrySend, WqInv, WqTypeOK
  <1>3. ~UNCHANGED wqCount
    BY <1>1
  <1>4. /\ ~WqInitWithConfig /\ ~Start /\ ~Started /\ ~Stop /\ ~WqDeinit
        /\ ~WorkerTop /\ ~WorkerExits /\ ~WorkerFindsNothing /\ ~WorkerRuns
        /\ ~UNCHANGED wqVars
    <2>1. wqCount' # 0
      BY <1>1
    <2>2. ~WqInitWithConfig
      BY <2>1 DEF WqInitWithConfig
    <2> QED BY <1>3, <2>2 DEF Start, Started, Stop, WqDeinit, WorkerTop,
                WorkerExits, WorkerFindsNothing, WorkerRuns, wqVars, ring
  <1>5. ~Delete /\ ~WorkerTakes
    <2>1. wqCount' # 0 /\ wqCount' # wqCount - 1
      BY <1>1
    <2> QED BY <2>1 DEF Delete, WorkerTakes
  <1>6. ASSUME NEW s \in Syncs
        PROVE  ~SyncCall(s) /\ ~SyncAddFails(s) /\ ~SyncTakes(s) /\ ~SyncTimesOut(s)
    BY <1>3 DEF SyncCall, SyncAddFails, SyncTakes, SyncTimesOut, ring
  <1>7. ASSUME NEW t \in Tasks
        PROVE  ~AddTaskWaits(t) /\ ~AddTaskTimesOut(t)
               /\ (AddTask(t) => TrySend(t) /\ task' = [task EXCEPT ![t] = "queued"])
    BY <1>3 DEF AddTaskWaits, AddTaskTimesOut, AddTask, ring
  <1>8. ASSUME NEW f \in Entries, TrySend(f) PROVE f = e
    <2>1. posted \in Seq(Entries) /\ posted' = Append(posted, f)
      BY <1>8 DEF TrySend, WqInv, WqTypeOK
    <2>2. posted'[Len(posted) + 1] = f
      BY <1>8, <2>1, Appended
    <2> QED BY <1>2, <2>2
  <1>9. CASE \E t \in Tasks : AddTask(t) \/ AddTaskSends(t)
    <2>1. PICK t \in Tasks : AddTask(t) \/ AddTaskSends(t)
      BY <1>9
    <2>2. t = e
      BY <1>7, <1>8, <2>1 DEF AddTaskSends, Entries
    <2> QED BY <1>7, <2>1, <2>2 DEF AddTask, AddTaskSends
  <1>10. CASE \E s \in Syncs : SyncAdds(s)
    <2>1. PICK s \in Syncs : SyncAdds(s)
      BY <1>10
    <2>2. s = e
      BY <1>8, <2>1 DEF SyncAdds, Entries
    <2> QED BY <2>1, <2>2 DEF SyncAdds
  <1> QED BY <1>4, <1>5, <1>6, <1>7, <1>9, <1>10
          DEF WqNext, Control, Worker, PostStep, SyncStep

\* The other steps: they leave the ring alone, clear it, or take from it.
LEMMA OtherStep ==
  ASSUME [WqNext]_wqVars, \A e \in Entries : ~TrySend(e)
  PROVE  \/ WqInitWithConfig \/ Delete \/ WorkerTakes
         \/ UNCHANGED <<ring, posted, ran, ahead>>
  BY DEF WqNext, Control, Worker, PostStep, SyncStep, wqVars, clients, Entries,
         Start, Started, Stop, WqDeinit, WorkerTop, WorkerExits, WorkerFindsNothing,
         WorkerRuns, AddTask, AddTaskWaits, AddTaskSends, AddTaskTimesOut, SyncCall,
         SyncAdds, SyncAddFails, SyncTakes, SyncTimesOut

\* The queued entries are a function of the ring.
LEMMA RingFrame ==
  ASSUME UNCHANGED ring
  PROVE  RingPlaces' = RingPlaces /\ \A i \in RingPlaces : ItemAt(i)' = ItemAt(i)
  BY DEF ring, RingPlaces, ItemAt

\* The inductive step of RingInv.
LEMMA RingStep ==
  ASSUME WqInv, [WqNext]_wqVars
  PROVE  RingInv'
  <1> USE DEF WqInv
  <1>0. posted \in Seq(Entries) /\ ran \in Seq(Entries) /\ wqCount \in Nat
        /\ Len(posted) = Len(ran) + wqCount
    BY SizeAssumption DEF WqTypeOK, RingInv
  <1>1. CASE WqInitWithConfig
    <2>1. wqCount = 0 /\ wqCount' = 0 /\ UNCHANGED <<posted, ran>>
      BY <1>1 DEF WqInitWithConfig, ControlInv, clients
    <2>2. RingPlaces' = {}
      BY <2>1 DEF RingPlaces
    <2> QED BY <2>1, <2>2 DEF RingInv
  <1>2. CASE Delete
    <2>1. wqCount' = 0 /\ posted' = ran /\ ran' = ran
      BY <1>2 DEF Delete
    <2>2. RingPlaces' = {}
      BY <2>1 DEF RingPlaces
    <2> QED BY <1>0, <2>1, <2>2 DEF RingInv
  <1>3. ASSUME NEW e \in Entries, TrySend(e) PROVE RingInv'
    <2>1. /\ wqCount' = wqCount + 1 /\ posted' = Append(posted, e) /\ ran' = ran
          /\ RingPlaces' = RingPlaces \cup {wqCount}
          /\ \A i \in RingPlaces : ItemAt(i)' = ItemAt(i)
          /\ \A i \in RingPlaces' : i = wqCount => ItemAt(i)' = e
      BY <1>3, SendStep, SendView
    <2>2. /\ Len(posted') = Len(posted) + 1
          /\ \A i \in 1..Len(posted) : posted'[i] = posted[i]
          /\ posted'[Len(posted) + 1] = e
      BY <1>0, <1>3, <2>1, Appended
    <2>3. \A i \in 1..Len(ran') : ran'[i] = posted'[i]
      <3>1. \A i \in 1..Len(ran) : i \in 1..Len(posted)
        BY <1>0
      <3> QED BY <2>1, <2>2, <3>1 DEF RingInv
    <2>4. \A i \in RingPlaces : posted'[Len(ran) + 1 + i] = ItemAt(i)'
      <3>1. \A i \in RingPlaces : Len(ran) + 1 + i \in 1..Len(posted)
        BY <1>0 DEF RingPlaces
      <3> QED BY <2>1, <2>2, <3>1 DEF RingInv
    <2>5. \A i \in RingPlaces' : i = wqCount => posted'[Len(ran) + 1 + i] = ItemAt(i)'
      <3>1. Len(ran) + 1 + wqCount = Len(posted) + 1
        BY <1>0
      <3> QED BY <2>1, <2>2, <3>1
    <2>6. Len(posted') = Len(ran') + wqCount'
      BY <1>0, <2>1, <2>2
    <2> QED BY <2>1, <2>3, <2>4, <2>5, <2>6 DEF RingInv
  <1>4. CASE WorkerTakes
    <2>1. posted' = posted /\ ran' = Append(ran, cur') /\ cur' = ItemAt(0)
      BY <1>4, TakeView DEF WorkerTakes
    <2>2. /\ wqCount' = wqCount - 1 /\ 0 \in RingPlaces
          /\ \A i \in RingPlaces' : i + 1 \in RingPlaces /\ ItemAt(i)' = ItemAt(i + 1)
      BY <1>4, TakeView
    <2>3. cur' \in Entries
      BY <2>1, <2>2 DEF OnceInv
    <2>4. /\ Len(ran') = Len(ran) + 1
          /\ \A i \in 1..Len(ran) : ran'[i] = ran[i]
          /\ ran'[Len(ran) + 1] = cur'
      BY <1>0, <2>1, <2>3, Appended
    <2>5. posted[Len(ran) + 1] = cur'
      <3>1. posted[Len(ran) + 1 + 0] = ItemAt(0) /\ Len(ran) + 1 + 0 = Len(ran) + 1
        BY <1>0, <2>2 DEF RingInv
      <3> QED BY <2>1, <3>1
    <2>6. \A i \in 1..Len(ran') : ran'[i] = posted'[i]
      <3>1. \A i \in 1..Len(ran') : i \in 1..Len(ran) \/ i = Len(ran) + 1
        BY <1>0, <2>4
      <3> QED BY <2>1, <2>4, <2>5, <3>1 DEF RingInv
    <2>7. \A i \in RingPlaces' : posted'[Len(ran') + 1 + i] = ItemAt(i)'
      <3>1. \A i \in RingPlaces' : Len(ran') + 1 + i = Len(ran) + 1 + (i + 1)
        BY <1>0, <2>2, <2>4 DEF RingPlaces
      <3> QED BY <2>1, <2>2, <3>1 DEF RingInv
    <2>8. Len(posted') = Len(ran') + wqCount'
      BY <1>0, <2>1, <2>2, <2>4
    <2> QED BY <2>6, <2>7, <2>8 DEF RingInv
  <1>5. CASE UNCHANGED <<ring, posted, ran>>
    <2>1. RingPlaces' = RingPlaces /\ \A i \in RingPlaces : ItemAt(i)' = ItemAt(i)
      BY <1>5, RingFrame
    <2> QED BY <1>5, <2>1 DEF RingInv, ring
  <1> QED BY <1>1, <1>2, <1>3, <1>4, <1>5, OtherStep

\* The inductive step of ControlInv.
LEMMA ControlStep ==
  ASSUME WqInv, [WqNext]_wqVars
  PROVE  ControlInv'
  <1> USE DEF WqInv
  <1>1. ASSUME NEW e \in Entries, TrySend(e) PROVE ControlInv'
    <2>1. ready /\ UNCHANGED <<state, ready, ctl, worker, cur>>
      BY <1>1, SendStep, SendView
    <2> QED BY <2>1 DEF ControlInv
  <1>2. CASE WqInitWithConfig \/ Start \/ Started \/ Stop \/ WqDeinit \/ Delete
    BY <1>2 DEF WqInitWithConfig, Start, Started, Stop, WqDeinit, Delete,
                StopRequested, ControlInv, WqTypeOK, ring
  <1>3. CASE WorkerTop \/ WorkerExits \/ WorkerFindsNothing \/ WorkerRuns
    BY <1>3 DEF WorkerTop, WorkerExits, WorkerFindsNothing, WorkerRuns,
                ControlInv, WqTypeOK, ring
  <1>4. CASE WorkerTakes
    <2>1. cur' # NoEntry
      <3>1. cur' \in Entries
        BY <1>4, TakeView DEF OnceInv
      <3> QED BY <3>1, EntriesAssumption DEF Entries
    <2>2. ready /\ UNCHANGED <<state, ready, ctl>> /\ worker = "get" /\ worker' = "busy"
      BY <1>4 DEF WorkerTakes
    <2> QED BY <2>1, <2>2 DEF ControlInv
  <1>5. CASE UNCHANGED <<state, ready, ctl, worker, cur, wqCount>>
    BY <1>5 DEF ControlInv
  <1>6. ASSUME NEW t \in Tasks, AddTask(t) \/ AddTaskWaits(t) \/ PostStep(t)
        PROVE  ControlInv'
    BY <1>1, <1>5, <1>6 DEF AddTask, AddTaskWaits, PostStep, AddTaskSends,
                            AddTaskTimesOut, ring, Entries
  <1>7. ASSUME NEW s \in Syncs, SyncCall(s) \/ SyncStep(s) PROVE ControlInv'
    BY <1>1, <1>5, <1>7 DEF SyncCall, SyncStep, SyncAdds, SyncAddFails, SyncTakes,
                            SyncTimesOut, ring, Entries
  <1>8. CASE UNCHANGED wqVars
    BY <1>5, <1>8 DEF wqVars, ring
  <1> QED BY <1>2, <1>3, <1>4, <1>6, <1>7, <1>8 DEF WqNext, Control, Worker

-----------------------------------------------------------------------------
\* A new entry is the only one that comes under way.
LEMMA SendUnderWay ==
  ASSUME WqInv, [WqNext]_wqVars, NEW e \in Entries, TrySend(e)
  PROVE  /\ ~UnderWay(e)
         /\ \A x \in Entries : UnderWay(x)' <=> (UnderWay(x) \/ x = e)
  <1>1. ~UnderWay(e)
    <2>1. e \in Tasks => task[e] # "queued"
      BY SendStep, EntriesAssumption
    <2>2. e \in Syncs => sync[e] = "adding"
      BY SendStep, EntriesAssumption
    <2> QED BY <2>1, <2>2 DEF WqInv, TaskInv, SemInv, Entries
  <1>2. /\ cur' = cur /\ RingPlaces' = RingPlaces \cup {wqCount}
        /\ \A i \in RingPlaces : ItemAt(i)' = ItemAt(i)
        /\ \A i \in RingPlaces' : i = wqCount => ItemAt(i)' = e
    BY SendStep, SendView DEF WqInv
  <1>3. ASSUME NEW x \in Entries
        PROVE  (\E i \in RingPlaces' : ItemAt(i)' = x) <=> (x = e \/ \E i \in RingPlaces : ItemAt(i) = x)
    BY <1>2
  <1>4. ASSUME NEW x \in Entries
        PROVE  UnderWay(x)' <=> (x = cur' \/ \E i \in RingPlaces' : ItemAt(i)' = x)
    BY DEF UnderWay
  <1> QED BY <1>1, <1>2, <1>3, <1>4 DEF UnderWay

\* The worker has nothing in hand while it does not run an entry.
LEMMA IdleHands ==
  ASSUME WqInv
  PROVE  /\ worker # "busy" => cur = NoEntry
         /\ (state = "deinit" \/ (ctl = "stopping" /\ state = "init_done")) => cur = NoEntry
         /\ NoEntry \notin Entries /\ NoEntry \notin Tasks /\ NoEntry \notin Syncs
  <1>1. worker # "busy" => cur = NoEntry
    BY DEF WqInv, ControlInv
  <1>2. (state = "deinit" \/ (ctl = "stopping" /\ state = "init_done")) => worker = "none"
    BY DEF WqInv, ControlInv
  <1> QED BY <1>1, <1>2, EntriesAssumption DEF Entries

\* Taking the head out of the ring leaves what is under way as it is.
LEMMA TakeUnderWay ==
  ASSUME WqInv, WorkerTakes
  PROVE  \A x \in Entries : UnderWay(x)' <=> UnderWay(x)
  <1> TAKE x \in Entries
  <1>1. cur = NoEntry /\ x # NoEntry
    BY IdleHands DEF WorkerTakes
  <1>2. UnderWay(x)' <=> (x = cur' \/ \E i \in RingPlaces' : ItemAt(i)' = x)
    BY DEF UnderWay
  <1>3. /\ 0 \in RingPlaces /\ cur' = ItemAt(0)
        /\ \A i \in RingPlaces' : i + 1 \in RingPlaces /\ ItemAt(i)' = ItemAt(i + 1)
        /\ \A i \in RingPlaces : i = 0 \/ (i - 1 \in RingPlaces' /\ ItemAt(i - 1)' = ItemAt(i))
    BY TakeView DEF WqInv
  <1>4. ASSUME UnderWay(x) PROVE x = cur' \/ \E i \in RingPlaces' : ItemAt(i)' = x
    <2>1. PICK i \in RingPlaces : ItemAt(i) = x
      BY <1>1, <1>4 DEF UnderWay
    <2>2. CASE i = 0
      BY <1>3, <2>1, <2>2
    <2>3. CASE i # 0
      <3>1. i - 1 \in RingPlaces' /\ ItemAt(i - 1)' = x
        BY <1>3, <2>1, <2>3
      <3>2. PICK j \in RingPlaces' : j = i - 1
        BY <3>1
      <3>3. ItemAt(j)' = ItemAt(i - 1)'
        BY <3>2 DEF ItemAt
      <3> QED BY <3>1, <3>3
    <2> QED BY <2>2, <2>3
  <1>5. ASSUME x = cur' \/ \E i \in RingPlaces' : ItemAt(i)' = x PROVE UnderWay(x)
    BY <1>3, <1>5 DEF UnderWay
  <1> QED BY <1>2, <1>4, <1>5

\* Only the entry the worker has run is done with.
LEMMA RunUnderWay ==
  ASSUME WqInv, WorkerRuns
  PROVE  /\ cur \in Entries
         /\ \A x \in Entries : UnderWay(x)' <=> (UnderWay(x) /\ x # cur)
  <1>1. cur \in Entries /\ cur' = NoEntry /\ UNCHANGED ring
    BY DEF WorkerRuns, Entries
  <1>2. \A i \in RingPlaces : ItemAt(i) # cur
    BY DEF WqInv, OnceInv
  <1>3. RingPlaces' = RingPlaces /\ \A i \in RingPlaces : ItemAt(i)' = ItemAt(i)
    BY <1>1, RingFrame
  <1>4. ASSUME NEW x \in Entries
        PROVE  UnderWay(x)' <=> (x = cur' \/ \E i \in RingPlaces' : ItemAt(i)' = x)
    BY DEF UnderWay
  <1>5. NoEntry \notin Entries
    BY IdleHands
  <1> QED BY <1>1, <1>2, <1>3, <1>4, <1>5 DEF UnderWay

\* Setting up and deleting the queue leave nothing under way.
LEMMA ClearUnderWay ==
  ASSUME WqInv, WqInitWithConfig \/ Delete
  PROVE  \A x \in Entries : ~UnderWay(x)'
  <1>1. wqCount' = 0 /\ cur' = NoEntry
    <2>1. wqCount' = 0 /\ cur' = cur
      BY DEF WqInitWithConfig, Delete, clients
    <2>2. state = "deinit" \/ (ctl = "stopping" /\ state = "init_done")
      BY DEF WqInitWithConfig, Delete
    <2> QED BY <2>1, <2>2, IdleHands
  <1>2. RingPlaces' = {}
    BY <1>1 DEF RingPlaces
  <1>3. NoEntry \notin Entries
    BY IdleHands
  <1> QED BY <1>1, <1>2, <1>3 DEF UnderWay

\* The other steps leave alone what is under way.
LEMMA SameUnderWay ==
  ASSUME UNCHANGED <<ring, cur>>
  PROVE  \A x \in Entries : UnderWay(x)' <=> UnderWay(x)
  <1>1. RingPlaces' = RingPlaces /\ \A i \in RingPlaces : ItemAt(i)' = ItemAt(i)
    BY RingFrame
  <1>2. ASSUME NEW x \in Entries
        PROVE  UnderWay(x)' <=> (x = cur' \/ \E i \in RingPlaces' : ItemAt(i)' = x)
    BY DEF UnderWay
  <1> QED BY <1>1, <1>2 DEF UnderWay

\* The steps by what they do to the entries under way.
LEMMA StepKinds ==
  ASSUME [WqNext]_wqVars
  PROVE  \/ \E e \in Entries : TrySend(e)
         \/ WqInitWithConfig \/ Delete \/ WorkerTakes \/ WorkerRuns
         \/ /\ UNCHANGED <<ring, cur, posted, ran, ahead>>
            /\ \/ UNCHANGED <<task, sync, sem>>
               \/ \E t \in Tasks : AddTask(t) \/ AddTaskWaits(t) \/ AddTaskTimesOut(t)
               \/ \E s \in Syncs : SyncCall(s) \/ SyncAddFails(s) \/ SyncTakes(s)
                                   \/ SyncTimesOut(s)
  <1>1. Control => WqInitWithConfig \/ Delete
                    \/ UNCHANGED <<ring, cur, posted, ran, ahead, task, sync, sem>>
    BY DEF Control, Start, Started, Stop, WqDeinit, ring, clients
  <1>2. Worker => WorkerTakes \/ WorkerRuns
                    \/ UNCHANGED <<ring, cur, posted, ran, ahead, task, sync, sem>>
    BY DEF Worker, WorkerTop, WorkerExits, WorkerFindsNothing, ring, clients
  <1>3. ASSUME NEW t \in Tasks, AddTask(t) \/ AddTaskWaits(t) \/ PostStep(t)
        PROVE  \/ TrySend(t)
               \/ /\ UNCHANGED <<ring, cur, posted, ran, ahead>>
                  /\ AddTask(t) \/ AddTaskWaits(t) \/ AddTaskTimesOut(t)
    BY <1>3 DEF AddTask, AddTaskWaits, PostStep, AddTaskSends, AddTaskTimesOut, ring
  <1>4. ASSUME NEW s \in Syncs, SyncCall(s) \/ SyncStep(s)
        PROVE  \/ TrySend(s)
               \/ /\ UNCHANGED <<ring, cur, posted, ran, ahead>>
                  /\ SyncCall(s) \/ SyncAddFails(s) \/ SyncTakes(s) \/ SyncTimesOut(s)
    BY <1>4 DEF SyncCall, SyncStep, SyncAdds, SyncAddFails, SyncTakes, SyncTimesOut, ring
  <1>5. UNCHANGED wqVars => UNCHANGED <<ring, cur, posted, ran, ahead, task, sync, sem>>
    BY DEF wqVars, ring
  <1> QED BY <1>1, <1>2, <1>3, <1>4, <1>5 DEF WqNext, Entries

\* The inductive step of OnceInv.
LEMMA OnceStep ==
  ASSUME WqInv, [WqNext]_wqVars
  PROVE  OnceInv'
  <1>1. ASSUME NEW e \in Entries, TrySend(e) PROVE OnceInv'
    <2>1. /\ cur' = cur /\ RingPlaces' = RingPlaces \cup {wqCount} /\ wqCount \notin RingPlaces
          /\ \A i \in RingPlaces : ItemAt(i)' = ItemAt(i)
          /\ \A i \in RingPlaces' : i = wqCount => ItemAt(i)' = e
      BY <1>1, SendStep, SendView DEF WqInv
    <2>2. e # cur /\ \A i \in RingPlaces : ItemAt(i) # e
      BY <1>1, SendUnderWay DEF UnderWay
    <2>3. \A i \in RingPlaces : ItemAt(i) \in Entries /\ ItemAt(i) # cur
      BY DEF WqInv, OnceInv
    <2>4. \A i, j \in RingPlaces : ItemAt(i) = ItemAt(j) => i = j
      BY DEF WqInv, OnceInv
    <2>5. \A i \in RingPlaces' : ItemAt(i)' \in Entries /\ ItemAt(i)' # cur'
      BY <2>1, <2>2, <2>3
    <2>6. \A i, j \in RingPlaces' : ItemAt(i)' = ItemAt(j)' => i = j
      BY <2>1, <2>2, <2>4
    <2> QED BY <2>5, <2>6 DEF OnceInv
  <1>2. CASE WqInitWithConfig \/ Delete
    <2>1. RingPlaces' = {}
      BY <1>2 DEF WqInitWithConfig, Delete, RingPlaces
    <2> QED BY <2>1 DEF OnceInv
  <1>3. CASE WorkerTakes
    <2>1. /\ 0 \in RingPlaces /\ cur' = ItemAt(0)
          /\ \A i \in RingPlaces' : i + 1 \in RingPlaces /\ ItemAt(i)' = ItemAt(i + 1)
      BY <1>3, TakeView DEF WqInv
    <2>2. \A i \in RingPlaces' : i + 1 # 0 /\ i \in Nat
      <3>1. wqCount' \in Nat
        BY <1>3, TakeView DEF WqInv
      <3> QED BY <3>1 DEF RingPlaces
    <2>3. \A i, j \in RingPlaces : ItemAt(i) = ItemAt(j) => i = j
      BY DEF WqInv, OnceInv
    <2>4. \A i \in RingPlaces : ItemAt(i) \in Entries
      BY DEF WqInv, OnceInv
    <2>5. \A i \in RingPlaces' : ItemAt(i)' \in Entries /\ ItemAt(i)' # cur'
      BY <2>1, <2>2, <2>3, <2>4
    <2>6. ASSUME NEW i \in RingPlaces', NEW j \in RingPlaces', ItemAt(i)' = ItemAt(j)' PROVE i = j
      <3>1. i + 1 = j + 1
        BY <2>1, <2>3, <2>6
      <3> QED BY <2>2, <3>1
    <2> QED BY <2>5, <2>6 DEF OnceInv
  <1>4. CASE UNCHANGED ring /\ (cur' = cur \/ cur' = NoEntry)
    <2>1. RingPlaces' = RingPlaces /\ \A i \in RingPlaces : ItemAt(i)' = ItemAt(i)
      BY <1>4, RingFrame
    <2>2. NoEntry \notin Entries
      BY IdleHands
    <2> QED BY <1>4, <2>1, <2>2 DEF WqInv, OnceInv
  <1> QED BY <1>1, <1>2, <1>3, <1>4, StepKinds DEF WorkerRuns

\* The inductive step of TaskInv.
LEMMA TaskStep ==
  ASSUME WqInv, [WqNext]_wqVars
  PROVE  TaskInv'
  <1>0. SUFFICES ASSUME NEW t \in Tasks
                 PROVE  (task'[t] = "queued") <=> UnderWay(t)'
    BY DEF TaskInv
  <1> t \in Entries /\ t \notin Syncs
    BY EntriesAssumption DEF Entries
  <1> (task[t] = "queued") <=> UnderWay(t)
    BY DEF WqInv, TaskInv
  <1>1. ASSUME NEW e \in Entries, TrySend(e) PROVE (task'[t] = "queued") <=> UnderWay(t)'
    <2>1. UnderWay(t)' <=> (UnderWay(t) \/ t = e)
      BY <1>1, SendUnderWay
    <2>2. (task'[t] = "queued") <=> (task[t] = "queued" \/ t = e)
      BY <1>1, SendStep DEF WqInv, WqTypeOK
    <2> QED BY <2>1, <2>2
  <1>2. CASE WqInitWithConfig
    <2>1. ~UnderWay(t)
      <3>1. wqCount = 0 /\ cur = NoEntry /\ t # NoEntry
        BY <1>2, IdleHands DEF WqInitWithConfig, WqInv, ControlInv
      <3>2. RingPlaces = {}
        BY <3>1 DEF RingPlaces
      <3> QED BY <3>1, <3>2 DEF UnderWay
    <2> QED BY <1>2, <2>1, ClearUnderWay DEF WqInitWithConfig, clients
  <1>3. CASE Delete
    <2>1. t \in Queued \/ task[t] # "queued"
      <3>1. cur = NoEntry /\ t # NoEntry
        BY <1>3, IdleHands DEF Delete
      <3> QED BY <3>1 DEF UnderWay, Queued, ItemAt, RingPlaces
    <2>2. task'[t] # "queued"
      BY <1>3, <2>1 DEF Delete
    <2> QED BY <1>3, <2>2, ClearUnderWay
  <1>4. CASE WorkerTakes
    BY <1>4, TakeUnderWay DEF WorkerTakes
  <1>5. CASE WorkerRuns
    <2>1. (task'[t] = "queued") <=> (task[t] = "queued" /\ t # cur)
      BY <1>5, EntriesAssumption DEF WorkerRuns, WqInv, WqTypeOK
    <2> QED BY <1>5, <2>1, RunUnderWay
  <1>6. CASE UNCHANGED <<ring, cur>> /\ UNCHANGED task
    BY <1>6, SameUnderWay
  <1>7. ASSUME NEW x \in Tasks, UNCHANGED <<ring, cur>>,
               AddTask(x) \/ AddTaskWaits(x) \/ AddTaskTimesOut(x),
               \A e \in Entries : ~TrySend(e)
        PROVE  (task'[t] = "queued") <=> UnderWay(t)'
    <2>1. /\ task[x] \in {"new", "waiting"}
          /\ \/ task' = [task EXCEPT ![x] = "waiting"]
             \/ task' = [task EXCEPT ![x] = "failed"]
      BY <1>7 DEF AddTask, AddTaskWaits, AddTaskTimesOut, Entries
    <2>2. (task'[t] = "queued") <=> (task[t] = "queued")
      BY <2>1 DEF WqInv, WqTypeOK
    <2> QED BY <1>7, <2>2, SameUnderWay
  <1>8. ASSUME NEW s \in Syncs,
               SyncCall(s) \/ SyncAddFails(s) \/ SyncTakes(s) \/ SyncTimesOut(s)
        PROVE  UNCHANGED task
    BY <1>8 DEF SyncCall, SyncAddFails, SyncTakes, SyncTimesOut
  <1> QED BY <1>1, <1>2, <1>3, <1>4, <1>5, <1>6, <1>7, <1>8, StepKinds

\* The inductive step of SemInv.
LEMMA SemStep ==
  ASSUME WqInv, [WqNext]_wqVars
  PROVE  SemInv'
  <1>0. SUFFICES ASSUME NEW s \in Syncs
                 PROVE  /\ UnderWay(s)' => sem'[s] = "made" /\ sync'[s] \in {"taking", "timeout"}
                        /\ sync'[s] = "adding" => sem'[s] = "made"
    BY DEF SemInv
  <1> s \in Entries /\ s \notin Tasks
    BY EntriesAssumption DEF Entries
  <1>a. /\ UnderWay(s) => sem[s] = "made" /\ sync[s] \in {"taking", "timeout"}
        /\ sync[s] = "adding" => sem[s] = "made"
    BY DEF WqInv, SemInv
  <1>b. /\ sync \in [Syncs -> {"idle", "adding", "taking", "ok", "timeout", "refused"}]
        /\ sem \in [Syncs -> {"none", "made", "given", "deleted"}]
    BY DEF WqInv, WqTypeOK
  <1> DEFINE Goal == /\ UnderWay(s)' => sem'[s] = "made" /\ sync'[s] \in {"taking", "timeout"}
                     /\ sync'[s] = "adding" => sem'[s] = "made"
  <1>1. ASSUME NEW e \in Entries, TrySend(e) PROVE Goal
    <2>1. UnderWay(s)' <=> (UnderWay(s) \/ s = e)
      BY <1>1, SendUnderWay
    <2>2. CASE s = e
      <3>1. sync[s] = "adding" /\ sync'[s] = "taking" /\ sem' = sem
        BY <1>1, <1>b, <2>2, SendStep
      <3> QED BY <1>a, <3>1
    <2>3. CASE s # e
      <3>1. sync'[s] = sync[s] /\ sem' = sem
        BY <1>1, <1>b, <2>3, SendStep
      <3> QED BY <1>a, <2>1, <2>3, <3>1
    <2> QED BY <2>2, <2>3
  <1>2. CASE WqInitWithConfig \/ Delete
    <2>1. UNCHANGED <<sync, sem>>
      BY <1>2 DEF WqInitWithConfig, Delete, clients
    <2> QED BY <1>2, <1>a, <2>1, ClearUnderWay
  <1>3. CASE WorkerTakes
    BY <1>3, <1>a, TakeUnderWay DEF WorkerTakes
  <1>4. CASE WorkerRuns
    <2>1. UnderWay(s)' <=> (UnderWay(s) /\ s # cur)
      BY <1>4, RunUnderWay
    <2>2. sync' = sync
      BY <1>4 DEF WorkerRuns
    <2>3. s # cur => sem'[s] = sem[s]
      BY <1>4, <1>b DEF WorkerRuns
    <2>4. s = cur => sync[s] # "adding"
      BY <1>a DEF UnderWay
    <2> QED BY <1>a, <2>1, <2>2, <2>3, <2>4
  <1>5. CASE UNCHANGED <<ring, cur>> /\ UNCHANGED <<sync, sem>>
    BY <1>5, <1>a, SameUnderWay
  <1>6. ASSUME NEW x \in Syncs, UNCHANGED <<ring, cur>>,
               SyncCall(x) \/ SyncAddFails(x) \/ SyncTakes(x) \/ SyncTimesOut(x)
        PROVE  Goal
    <2>1. UnderWay(s)' <=> UnderWay(s)
      BY <1>6, SameUnderWay
    <2>2. CASE s # x
      <3>1. sync'[s] = sync[s] /\ sem'[s] = sem[s]
        BY <1>6, <1>b, <2>2 DEF SyncCall, SyncAddFails, SyncTakes, SyncTimesOut
      <3> QED BY <1>a, <2>1, <3>1
    <2>3. CASE s = x
      <3>1. \/ sync[s] = "idle" /\ sync'[s] = "adding" /\ sem'[s] = "made"
            \/ sync[s] = "adding" /\ sync'[s] \in {"refused", "timeout"}
            \/ sem[s] = "given" /\ sync'[s] = "ok"
            \/ sync[s] = "taking" /\ sync'[s] = "timeout" /\ sem'[s] = sem[s]
        BY <1>6, <1>b, <2>3 DEF SyncCall, SyncAddFails, SyncTakes, SyncTimesOut
      <3> QED BY <1>a, <2>1, <3>1
    <2> QED BY <2>2, <2>3
  <1>7. ASSUME NEW t \in Tasks, AddTask(t) \/ AddTaskWaits(t) \/ AddTaskTimesOut(t)
        PROVE  UNCHANGED <<sync, sem>>
    BY <1>7 DEF AddTask, AddTaskWaits, AddTaskTimesOut
  <1> QED BY <1>1, <1>2, <1>3, <1>4, <1>5, <1>6, <1>7, StepKinds

\* What is done stays done.
LEMMA DoneStays ==
  ASSUME WqInv, [WqNext]_wqVars, NEW t \in Tasks, task[t] = "done"
  PROVE  task'[t] = "done"
  <1>1. ~UnderWay(t) /\ t \in Entries /\ t \notin Syncs
    BY EntriesAssumption DEF WqInv, TaskInv, Entries
  <1>2. task \in [Tasks -> {"new", "waiting", "queued", "done", "failed", "dropped"}]
    BY DEF WqInv, WqTypeOK
  <1>3. ASSUME NEW e \in Entries, TrySend(e) PROVE task'[t] = "done"
    BY <1>2, <1>3, SendStep
  <1>4. CASE WqInitWithConfig \/ WorkerTakes
    BY <1>4 DEF WqInitWithConfig, WorkerTakes, clients
  <1>5. CASE Delete
    <2>1. t \notin Queued
      BY <1>1 DEF UnderWay, Queued, ItemAt, RingPlaces
    <2> QED BY <1>5, <2>1 DEF Delete
  <1>6. CASE WorkerRuns
    BY <1>2, <1>6 DEF WorkerRuns
  <1>7. ASSUME NEW x \in Tasks, AddTask(x) \/ AddTaskWaits(x) \/ AddTaskTimesOut(x)
        PROVE  task'[t] = "done"
    BY <1>2, <1>7 DEF AddTask, AddTaskWaits, AddTaskTimesOut
  <1>8. ASSUME NEW s \in Syncs,
               SyncCall(s) \/ SyncAddFails(s) \/ SyncTakes(s) \/ SyncTimesOut(s)
        PROVE  UNCHANGED task
    BY <1>8 DEF SyncCall, SyncAddFails, SyncTakes, SyncTimesOut
  <1> QED BY <1>3, <1>4, <1>5, <1>6, <1>7, <1>8, StepKinds

\* Reached: the barrier s was taken by the worker.
Reached(s) == sync[s] = "ok" \/ sem[s] = "given" \/ cur = s

\* Everything queued before the barrier is done.
Drained(s) == \A t \in ahead[s] : task[t] = "done"

\* t is done or comes before the i-th queued entry.
Before(t, i) == task[t] = "done" \/ cur = t \/ \E j \in 0..(i - 1) : ItemAt(j) = t

\* A barrier under way, in the terms of the queue's view.
LEMMA AheadForms ==
  /\ AheadInv <=> \A s \in Syncs :
                    /\ Reached(s) => Drained(s)
                    /\ \A i \in RingPlaces : ItemAt(i) = s => \A t \in ahead[s] : Before(t, i)
  /\ AheadInv' <=> \A s \in Syncs :
                    /\ Reached(s)' => Drained(s)'
                    /\ \A i \in RingPlaces' : ItemAt(i)' = s => \A t \in ahead'[s] : Before(t, i)'
  BY DEF AheadInv, Reached, Drained, Before

\* A barrier whose list did not change stays drained.
LEMMA DrainedStays ==
  ASSUME WqInv, [WqNext]_wqVars, NEW s \in Syncs, ahead'[s] = ahead[s], Drained(s)
  PROVE  Drained(s)'
  <1>1. ahead[s] \subseteq Tasks
    BY DEF WqInv, WqTypeOK
  <1> QED BY <1>1, DoneStays DEF Drained

\* The inductive step of AheadInv.
LEMMA AheadStep ==
  ASSUME WqInv, [WqNext]_wqVars
  PROVE  AheadInv'
  <1>0. SUFFICES ASSUME NEW s \in Syncs
                 PROVE  /\ Reached(s)' => Drained(s)'
                        /\ \A i \in RingPlaces' : ItemAt(i)' = s => \A t \in ahead'[s] : Before(t, i)'
    BY AheadForms
  <1> s \in Entries /\ s \notin Tasks
    BY EntriesAssumption DEF Entries
  <1>a. Reached(s) => Drained(s)
    BY AheadForms DEF WqInv
  <1>b. \A i \in RingPlaces : ItemAt(i) = s => \A t \in ahead[s] : Before(t, i)
    BY AheadForms DEF WqInv
  <1>c. /\ sync \in [Syncs -> {"idle", "adding", "taking", "ok", "timeout", "refused"}]
        /\ sem \in [Syncs -> {"none", "made", "given", "deleted"}]
        /\ ahead \in [Syncs -> SUBSET Tasks]
    BY DEF WqInv, WqTypeOK
  <1> DEFINE Goal == /\ Reached(s)' => Drained(s)'
                     /\ \A i \in RingPlaces' : ItemAt(i)' = s => \A t \in ahead'[s] : Before(t, i)'
  <1>1. ASSUME NEW e \in Entries, TrySend(e) PROVE Goal
    <2>1. /\ RingPlaces' = RingPlaces \cup {wqCount} /\ wqCount \notin RingPlaces
          /\ \A i \in RingPlaces : ItemAt(i)' = ItemAt(i)
          /\ \A i \in RingPlaces' : i = wqCount => ItemAt(i)' = e
          /\ cur' = cur /\ sem' = sem
      BY <1>1, SendStep, SendView DEF WqInv
    <2>2. \A i \in RingPlaces : \A j \in 0..(i - 1) : j \in RingPlaces
      <3>1. wqCount \in Nat
        BY SizeAssumption DEF WqInv, WqTypeOK
      <3> QED BY <3>1 DEF RingPlaces
    <2>3. CASE s = e
      <3>1. /\ sync[s] = "adding" /\ sync'[s] = "taking"
            /\ ahead'[s] = {t \in Tasks : task[t] = "queued"}
        BY <1>1, <1>c, <2>3, SendStep
      <3>2. ~UnderWay(s) /\ sem[s] = "made"
        BY <3>1 DEF WqInv, SemInv
      <3>3. ~Reached(s)'
        BY <2>1, <3>1, <3>2 DEF Reached, UnderWay
      <3>4. ASSUME NEW i \in RingPlaces', ItemAt(i)' = s, NEW t \in ahead'[s]
            PROVE  Before(t, i)'
        <4>1. i = wqCount
          BY <2>1, <3>2, <3>4 DEF UnderWay
        <4>2. UnderWay(t)
          BY <3>1, <3>4 DEF WqInv, TaskInv
        <4>3. CASE cur = t
          BY <2>1, <4>3 DEF Before
        <4>4. CASE \E j \in RingPlaces : ItemAt(j) = t
          <5>1. PICK j \in RingPlaces : ItemAt(j) = t
            BY <4>4
          <5>2. ItemAt(j)' = t /\ j \in 0..(i - 1)
            BY <2>1, <4>1, <5>1 DEF RingPlaces
          <5> QED BY <5>2 DEF Before
        <4> QED BY <4>2, <4>3, <4>4 DEF UnderWay
      <3> QED BY <3>3, <3>4
    <2>4. CASE s # e
      <3>1. sync'[s] = sync[s] /\ ahead'[s] = ahead[s]
        BY <1>1, <1>c, <2>4, SendStep
      <3>2. Reached(s)' <=> Reached(s)
        BY <2>1, <3>1 DEF Reached
      <3>3. ASSUME NEW i \in RingPlaces', ItemAt(i)' = s, NEW t \in ahead'[s]
            PROVE  Before(t, i)'
        <4>1. i \in RingPlaces /\ ItemAt(i) = s
          BY <2>1, <2>4, <3>3
        <4>2. Before(t, i) /\ t \in Tasks
          BY <1>b, <1>c, <3>1, <3>3, <4>1
        <4>3. task[t] = "done" => task'[t] = "done"
          BY <4>2, DoneStays
        <4>4. \A j \in 0..(i - 1) : ItemAt(j)' = ItemAt(j)
          BY <2>1, <2>2, <4>1
        <4> QED BY <2>1, <4>2, <4>3, <4>4 DEF Before
      <3> QED BY <1>a, <3>1, <3>2, <3>3, DrainedStays
    <2> QED BY <2>3, <2>4
  <1>2. ASSUME WqInitWithConfig \/ Delete PROVE Goal
    <2>1. UNCHANGED <<sync, sem, cur, ahead>>
      BY <1>2 DEF WqInitWithConfig, Delete, clients
    <2>2. RingPlaces' = {}
      BY <1>2 DEF WqInitWithConfig, Delete, RingPlaces
    <2>3. Reached(s)' <=> Reached(s)
      BY <2>1 DEF Reached
    <2> QED BY <1>a, <2>1, <2>2, <2>3, DrainedStays
  <1>3. ASSUME WorkerTakes PROVE Goal
    <2>1. /\ 0 \in RingPlaces /\ cur' = ItemAt(0)
          /\ \A i \in RingPlaces' : i + 1 \in RingPlaces /\ ItemAt(i)' = ItemAt(i + 1)
          /\ \A i \in RingPlaces : i = 0 \/ (i - 1 \in RingPlaces' /\ ItemAt(i - 1)' = ItemAt(i))
      BY <1>3, TakeView DEF WqInv
    <2>2. UNCHANGED <<sync, sem, ahead, task>> /\ cur = NoEntry
      BY <1>3, IdleHands DEF WorkerTakes
    <2>3. ASSUME Reached(s)' PROVE Drained(s)'
      <3>1. CASE Reached(s)
        BY <1>a, <2>2, <3>1, DrainedStays
      <3>2. CASE ~Reached(s)
        <4>1. ItemAt(0) = s
          BY <2>1, <2>2, <2>3, <3>2 DEF Reached
        <4>2. ASSUME NEW t \in ahead[s] PROVE task[t] = "done"
          <5>1. Before(t, 0) /\ t # NoEntry
            BY <1>b, <1>c, <2>1, <4>1, IdleHands
          <5>2. 0..(0 - 1) = {}
            OBVIOUS
          <5> QED BY <2>2, <5>1, <5>2 DEF Before
        <4>3. Drained(s)
          BY <4>2 DEF Drained
        <4> QED BY <2>2, <4>3, DrainedStays
      <3> QED BY <3>1, <3>2
    <2>4. ASSUME NEW i \in RingPlaces', ItemAt(i)' = s, NEW t \in ahead'[s]
          PROVE  Before(t, i)'
      <3>1. i + 1 \in RingPlaces /\ ItemAt(i + 1) = s
        BY <2>1, <2>4
      <3>2. Before(t, i + 1) /\ t # NoEntry
        BY <1>b, <1>c, <2>2, <2>4, <3>1, IdleHands
      <3>3. CASE task[t] = "done"
        BY <2>2, <3>3 DEF Before
      <3>4. CASE \E j \in 0..((i + 1) - 1) : ItemAt(j) = t
        <4>1. PICK j \in 0..((i + 1) - 1) : ItemAt(j) = t
          BY <3>4
        <4>2. i \in Nat
          <5>1. wqCount' \in Nat
            BY <1>3, TakeView DEF WqInv
          <5> QED BY <5>1 DEF RingPlaces
        <4>3. CASE j = 0
          BY <2>1, <4>1, <4>3 DEF Before
        <4>4. CASE j # 0
          <5>1. j \in RingPlaces /\ j - 1 \in 0..(i - 1)
            <6>1. wqCount \in Nat /\ i + 1 \in 0..(wqCount - 1)
              BY <1>3, <3>1, TakeView DEF WqInv, RingPlaces
            <6> QED BY <4>1, <4>2, <4>4, <6>1 DEF RingPlaces
          <5>2. ItemAt(j - 1)' = t
            BY <2>1, <4>1, <4>4, <5>1
          <5>3. PICK k \in 0..(i - 1) : k = j - 1
            BY <5>1
          <5>4. ItemAt(k)' = t
            BY <5>2, <5>3 DEF ItemAt
          <5> QED BY <5>4 DEF Before
        <4> QED BY <4>3, <4>4
      <3> QED BY <2>2, <3>2, <3>3, <3>4 DEF Before
    <2> QED BY <2>3, <2>4
  <1>4. ASSUME WorkerRuns PROVE Goal
    <2>1. UNCHANGED <<sync, ahead, ring>> /\ cur \in Entries /\ cur' = NoEntry
      BY <1>4, RunUnderWay DEF WorkerRuns
    <2>2. RingPlaces' = RingPlaces /\ \A i \in RingPlaces : ItemAt(i)' = ItemAt(i)
      BY <2>1, RingFrame
    <2>3. Reached(s)' => Reached(s)
      <3>1. cur # s => sem'[s] = sem[s]
        BY <1>4, <1>c DEF WorkerRuns
      <3>2. s # NoEntry
        BY IdleHands
      <3> QED BY <2>1, <3>1, <3>2 DEF Reached
    <2>4. ASSUME NEW i \in RingPlaces', ItemAt(i)' = s, NEW t \in ahead'[s]
          PROVE  Before(t, i)'
      <3>1. Before(t, i) /\ t \in Tasks /\ i \in RingPlaces
        BY <1>b, <1>c, <2>1, <2>2, <2>4
      <3>2. task[t] = "done" \/ cur = t => task'[t] = "done"
        <4>1. CASE task[t] = "done"
          BY <3>1, <4>1, DoneStays
        <4>2. CASE cur = t
          BY <1>4, <3>1, <4>2, EntriesAssumption DEF WorkerRuns, WqInv, WqTypeOK
        <4> QED BY <4>1, <4>2
      <3>3. \A j \in 0..(i - 1) : ItemAt(j)' = ItemAt(j)
        BY <2>1 DEF ItemAt, ring
      <3> QED BY <3>1, <3>2, <3>3 DEF Before
    <2> QED BY <1>a, <2>1, <2>3, <2>4, DrainedStays
  <1>5. ASSUME UNCHANGED <<ring, cur, ahead>>,
               Reached(s)' => Reached(s)
        PROVE  Goal
    <2>1. RingPlaces' = RingPlaces /\ \A i \in RingPlaces : ItemAt(i)' = ItemAt(i)
      BY <1>5, RingFrame
    <2>2. ASSUME NEW i \in RingPlaces', ItemAt(i)' = s, NEW t \in ahead'[s]
          PROVE  Before(t, i)'
      <3>1. Before(t, i) /\ t \in Tasks
        BY <1>b, <1>c, <1>5, <2>1, <2>2
      <3>2. task[t] = "done" => task'[t] = "done"
        BY <3>1, DoneStays
      <3>3. \A j \in 0..(i - 1) : ItemAt(j)' = ItemAt(j)
        BY <1>5 DEF ItemAt, ring
      <3> QED BY <1>5, <3>1, <3>2, <3>3 DEF Before
    <2> QED BY <1>5, <1>a, <2>2, DrainedStays
  <1>7. ASSUME NEW x \in Syncs, UNCHANGED cur,
               SyncCall(x) \/ SyncAddFails(x) \/ SyncTakes(x) \/ SyncTimesOut(x)
        PROVE  Reached(s)' => Reached(s)
    <2>1. s # x => sync'[s] = sync[s] /\ sem'[s] = sem[s]
      BY <1>7, <1>c DEF SyncCall, SyncAddFails, SyncTakes, SyncTimesOut
    <2>2. s = x => \/ sync'[s] # "ok" /\ sem'[s] # "given"
                   \/ sem[s] = "given"
                   \/ sync'[s] # "ok" /\ sem'[s] = sem[s]
      BY <1>7, <1>c DEF SyncCall, SyncAddFails, SyncTakes, SyncTimesOut
    <2> QED BY <1>7, <2>1, <2>2 DEF Reached
  <1>8. ASSUME NEW t \in Tasks, AddTask(t) \/ AddTaskWaits(t) \/ AddTaskTimesOut(t)
        PROVE  UNCHANGED <<sync, sem, cur>>
    BY <1>8 DEF AddTask, AddTaskWaits, AddTaskTimesOut
  <1>9. UNCHANGED <<sync, sem, cur>> => (Reached(s)' => Reached(s))
    BY DEF Reached
  <1> HIDE DEF Goal
  <1>10. Goal
    BY <1>1, <1>2, <1>3, <1>4, <1>5, <1>7, <1>8, <1>9, StepKinds
  <1> QED BY <1>10 DEF Goal

-----------------------------------------------------------------------------
\* The invariant holds of every reachable state of the work queue.
THEOREM WorkInductive == WqSpec => []WqInv
<1>1. WqInit => WqInv
  <2> SUFFICES ASSUME WqInit PROVE WqInv
    OBVIOUS
  <2>1. WqTypeOK
    <3>1. [i \in RingSlots |-> NoEntry] \in [RingSlots -> Entries \cup {NoEntry}]
          /\ 0 \in RingSlots /\ 0 \in 0..Size
      BY SizeAssumption DEF RingSlots
    <3>2. << >> \in Seq(Entries)
      OBVIOUS
    <3> QED BY <3>1, <3>2 DEF WqInit, WqTypeOK
  <2>2. RingPlaces = {} /\ cur = NoEntry /\ NoEntry \notin Tasks /\ NoEntry \notin Syncs
    BY EntriesAssumption DEF WqInit, RingPlaces
  <2>3. RingInv
    BY <2>2 DEF WqInit, RingInv
  <2>4. ControlInv /\ OnceInv
    BY <2>2 DEF WqInit, ControlInv, OnceInv
  <2>5. TaskInv /\ SemInv /\ AheadInv
    BY <2>2 DEF WqInit, TaskInv, SemInv, AheadInv, UnderWay
  <2> QED BY <2>1, <2>3, <2>4, <2>5 DEF WqInv
<1>2. WqInv /\ [WqNext]_wqVars => WqInv'
  BY WqTypeStep, RingStep, ControlStep, OnceStep, TaskStep, SemStep, AheadStep DEF WqInv
<1> QED BY <1>1, <1>2, PTL DEF WqSpec

\* For every size of the ring, every set of pieces of work and of callers: work
\* runs in the order it was queued across the wrap-around, a sync that returned
\* ESP_OK has outlasted everything queued before it, and no barrier that can still
\* run has lost its semaphore.
THEOREM SyncCorrect == WqSpec => []SyncSafe
<1>1. WqInv => SyncSafe
  <2> SUFFICES ASSUME WqInv PROVE SyncSafe
    OBVIOUS
  <2>1. RunInOrder
    <3>1. posted \in Seq(Entries) /\ ran \in Seq(Entries) /\ wqCount \in Nat
      BY SizeAssumption DEF WqInv, WqTypeOK
    <3>2. Len(ran) <= Len(posted)
      BY <3>1 DEF WqInv, RingInv
    <3> QED BY <3>2 DEF WqInv, RingInv, RunInOrder
  <2>2. SyncDrains
    BY DEF WqInv, AheadInv, SyncDrains
  <2>3. BarrierHasSemaphore
    BY DEF WqInv, SemInv, BarrierHasSemaphore, Queued, UnderWay, ItemAt, RingPlaces
  <2> QED BY <2>1, <2>2, <2>3 DEF SyncSafe
<1> QED BY <1>1, WorkInductive, PTL

-----------------------------------------------------------------------------
(***************************************************************************)
(* AppRtcSend.  What a message's place says: AsTypes where the drain is,   *)
(* ScriptInv that a sender's messages wait in its order, PassedInv that a   *)
(* sender sends directly only past messages that were handed back, and     *)
(* DrainInv that a drain comes for a message that waits.                   *)
(***************************************************************************)

SenderStates ==
  [pc : {"idle", "count", "flag", "send", "queue", "schedule"}, msg : Messages \cup {None},
   behind : BOOLEAN, ahead : SUBSET Messages]

DrainStates ==
  [pc : {"idle", "process", "loop", "pop", "send", "sent", "stop"}, msg : Messages \cup {None},
   retried : BOOLEAN]

Jobs == {"CONNECTED", "DISCONNECTED", "drain"}

AsTypes ==
  /\ conn \in BOOLEAN /\ linkUp \in BOOLEAN /\ scheduled \in BOOLEAN /\ inFlight \in BOOLEAN
  /\ outq \in Seq(Messages) /\ work \in Seq(Jobs)
  /\ drain \in DrainStates /\ sender \in [Senders -> SenderStates]
  /\ taken \in [Senders -> Nat]
  /\ drain.msg = None <=> drain.pc # "send"
  /\ drain.pc \in {"pop", "send", "sent", "stop"} => inFlight

\* A sender has its message in its hand from its call until it is sent or queued.
Holding(s) == sender[s].pc \in {"count", "flag", "send", "queue"}

\* A message that was queued: its sender is done with it.
Accepted(m) ==
  \A s \in Senders : \A i \in DOMAIN SendScript[s] :
    m = SendScript[s][i] => i <= taken[s] /\ (Holding(s) => i < taken[s])

\* The messages of a sender wait in its order, each once; the one the drain holds comes
\* first, and what a sender has in its hand was not queued yet.
ScriptInv ==
  /\ \A s \in Senders : sender[s].pc # "idle" =>
       taken[s] \in DOMAIN SendScript[s] /\ sender[s].msg = SendScript[s][taken[s]]
  /\ \A m \in Waiting : Accepted(m)
  /\ \A s \in Senders : \A i, j \in DOMAIN SendScript[s] : \A k, l \in DOMAIN outq :
       outq[k] = SendScript[s][i] /\ outq[l] = SendScript[s][j] /\ k < l => i < j
  /\ \A s \in Senders : \A i, j \in DOMAIN SendScript[s] : \A k \in DOMAIN outq :
       drain.msg = SendScript[s][i] /\ outq[k] = SendScript[s][j] => i < j

\* Who got past the count left only the message the drain holds ahead, who got past the
\* flag none, but for those handed back.
PassedInv ==
  /\ overtaken \subseteq putBack
  /\ \A s \in Senders : \A m \in sender[s].ahead : Accepted(m)
  /\ \A s \in Senders : \A m \in sender[s].ahead \cap Waiting :
       /\ At(s, "flag") => m \in putBack \/ m = drain.msg
       /\ At(s, "send") => m \in putBack

\* A drain that is scheduled is on the work queue, and one that stops at a link that is
\* down knows of the CONNECTED event that will follow.
DrainInv ==
  /\ scheduled => "drain" \in Range(work)
  /\ drain.pc = "stop" => ~Connected \/ work # <<>>
  /\ DrainToCome

AsInv == AsTypes /\ ScriptInv /\ PassedInv /\ DrainInv

\* What the assumptions say of a script's messages.
LEMMA ScriptFacts ==
  /\ \A s \in Senders : SendScript[s] \in Seq(Messages) /\ DOMAIN SendScript[s] = 1..Len(SendScript[s])
                        /\ Len(SendScript[s]) \in Nat
  /\ \A s \in Senders : \A i \in DOMAIN SendScript[s] : SendScript[s][i] \in Messages /\ SendScript[s][i] # None
  /\ \A s, t \in Senders : \A i \in DOMAIN SendScript[s], j \in DOMAIN SendScript[t] :
       SendScript[s][i] = SendScript[t][j] => s = t /\ i = j
  <1>1. \A s \in Senders : SendScript[s] \in Seq(Messages)
    BY AsScript
  <1>2. \A s \in Senders : DOMAIN SendScript[s] = 1..Len(SendScript[s]) /\ Len(SendScript[s]) \in Nat
    BY <1>1
  <1>3. \A s \in Senders : \A i \in DOMAIN SendScript[s] : SendScript[s][i] \in Messages
    BY <1>1
  <1> QED BY <1>1, <1>2, <1>3, AsDistinct DEF None

\* Where a message waits.
LEMMA WaitingFacts ==
  ASSUME AsTypes
  PROVE  /\ \A m : m \in Waiting <=> (\E k \in DOMAIN outq : outq[k] = m) \/ (m = drain.msg /\ m # None)
         /\ Waiting \subseteq Messages
         /\ DOMAIN outq = 1..Len(outq) /\ Len(outq) \in Nat
  <1>1. outq \in Seq(Messages) /\ drain.msg \in Messages \cup {None}
    BY DEF AsTypes, DrainStates
  <1>2. DOMAIN outq = 1..Len(outq) /\ Len(outq) \in Nat /\ \A k \in DOMAIN outq : outq[k] \in Messages
    BY <1>1
  <1> QED BY <1>1, <1>2 DEF Waiting, Range

\* The same after a step.
LEMMA WaitingNext ==
  ASSUME AsTypes'
  PROVE  Waiting' \subseteq Messages /\ None \notin Messages
  <1>1. outq' \in Seq(Messages) /\ drain'.msg \in Messages \cup {None}
    BY DEF AsTypes, DrainStates
  <1>2. \A k \in DOMAIN outq' : outq'[k] \in Messages
    BY <1>1
  <1> QED BY <1>1, <1>2, AsDistinct DEF Waiting, Range, None

\* The types, step by step.
LEMMA SenderTypes ==
  ASSUME AsTypes, ScriptInv, NEW s \in Senders, SendBegins(s) \/ Sending(s)
  PROVE  AsTypes'
  <1>1. sender[s] \in SenderStates /\ sender \in [Senders -> SenderStates]
    BY DEF AsTypes
  <1>2. CASE SendBegins(s)
    <2>1. taken[s] \in Nat /\ taken[s] + 1 \in DOMAIN SendScript[s]
      BY <1>2, ScriptFacts DEF SendBegins, AsTypes
    <2>2. SendScript[s][taken[s] + 1] \in Messages /\ Waiting \subseteq Messages
      BY <2>1, ScriptFacts, WaitingFacts
    <2> DEFINE new == [pc |-> IF Connected THEN "count" ELSE "queue", msg |-> SendScript[s][taken[s] + 1],
                       behind |-> FALSE, ahead |-> Waiting]
    <2>3. new \in SenderStates
      BY <2>2 DEF SenderStates
    <2>4. /\ sender' = [sender EXCEPT ![s] = new] /\ taken' = [taken EXCEPT ![s] = @ + 1]
          /\ UNCHANGED <<conn, linkUp, outq, inFlight, scheduled, work, drain>>
      BY <1>2 DEF SendBegins
    <2> HIDE DEF new
    <2> QED BY <1>1, <2>1, <2>3, <2>4 DEF AsTypes
  <1>3. CASE SendReadsCount(s) \/ SendReadsFlag(s)
    <2>1. /\ \/ sender' = [sender EXCEPT ![s].pc = "queue", ![s].behind = TRUE]
             \/ sender' = [sender EXCEPT ![s].pc = "flag"]
             \/ sender' = [sender EXCEPT ![s].pc = "send"]
          /\ UNCHANGED <<conn, linkUp, outq, inFlight, scheduled, work, drain, taken>>
      BY <1>3 DEF SendReadsCount, SendReadsFlag, Goto
    <2>2. sender' \in [Senders -> SenderStates]
      BY <1>1, <2>1 DEF SenderStates
    <2> QED BY <2>1, <2>2 DEF AsTypes
  <1>4. CASE SendDirect(s) \/ SendSchedules(s)
    <2>1. Away \in SenderStates
      BY DEF Away, SenderStates
    <2>2. sender' = [sender EXCEPT ![s] = Away] /\ UNCHANGED <<linkUp, outq, inFlight, drain, taken>>
      BY <1>4 DEF SendDirect, SendSchedules, Done
    <2>3. conn' \in BOOLEAN /\ scheduled' \in BOOLEAN
      BY <1>4 DEF SendDirect, SendSchedules, AsTypes
    <2>4. work' = work \/ work' = Append(work, "drain")
      BY <1>4 DEF SendDirect, SendSchedules
    <2>5. work' \in Seq(Jobs)
      <3>1. work \in Seq(Jobs) /\ "drain" \in Jobs
        BY DEF AsTypes, Jobs
      <3> QED BY <2>4, <3>1, AppendProperties
    <2> QED BY <1>1, <2>1, <2>2, <2>3, <2>5 DEF AsTypes
  <1>5. CASE SendQueues(s)
    <2>1. sender[s].msg \in Messages
      BY <1>5, ScriptFacts DEF SendQueues, At, ScriptInv
    <2>2. /\ sender' = [sender EXCEPT ![s].pc = "schedule"] /\ outq' = Append(outq, sender[s].msg)
          /\ UNCHANGED <<conn, linkUp, inFlight, scheduled, work, drain, taken>>
      BY <1>5 DEF SendQueues, Goto
    <2>3. sender' \in [Senders -> SenderStates]
      BY <1>1, <2>2 DEF SenderStates
    <2>4. outq' \in Seq(Messages)
      BY <2>1, <2>2 DEF AsTypes
    <2> QED BY <2>2, <2>3, <2>4 DEF AsTypes
  <1> QED BY <1>2, <1>3, <1>4, <1>5 DEF Sending

\* The link and the end of the client keep the types.
LEMMA LinkTypes ==
  ASSUME AsTypes, LinkComesUp \/ LinkGoesDown \/ Leave
  PROVE  AsTypes'
  <1>1. UNCHANGED <<inFlight, scheduled, drain, sender, taken>>
    BY DEF LinkComesUp, LinkGoesDown, Leave, sendVars
  <1>2. conn' \in BOOLEAN /\ linkUp' \in BOOLEAN
    BY DEF LinkComesUp, LinkGoesDown, Leave, AsTypes
  <1>3. /\ outq' = outq \/ outq' = <<>>
        /\ \/ work' = Append(work, "CONNECTED") \/ work' = Append(work, "DISCONNECTED")
           \/ work' = <<"drain">> \/ work' = <<>>
    BY DEF LinkComesUp, LinkGoesDown, Leave
  <1>4. outq' \in Seq(Messages)
    BY <1>3, EmptySeq DEF AsTypes
  <1>5. work' \in Seq(Jobs)
    <2>1. work \in Seq(Jobs) /\ "CONNECTED" \in Jobs /\ "DISCONNECTED" \in Jobs /\ "drain" \in Jobs
      BY DEF AsTypes, Jobs
    <2>2. <<>> \in Seq(Jobs) /\ <<"drain">> \in Seq(Jobs)
      BY <2>1, EmptySeq
    <2>3. Append(work, "CONNECTED") \in Seq(Jobs) /\ Append(work, "DISCONNECTED") \in Seq(Jobs)
      BY <2>1, AppendProperties
    <2> QED BY <1>3, <2>2, <2>3
  <1> QED BY <1>1, <1>2, <1>4, <1>5 DEF AsTypes

\* The drain keeps the types.
LEMMA DrainTypes ==
  ASSUME AsTypes, Draining
  PROVE  AsTypes'
  <1>1. UNCHANGED <<linkUp, sender, taken>>
    BY DEF Draining, WorkEvent, WorkDrain, DrainBegins, DrainMarks, DrainPops, DrainSends, DrainNotConnected,
       DrainFails, DrainClears, sendVars
  <1>2. drain \in DrainStates /\ Idle \in DrainStates
    BY DEF AsTypes, Idle, DrainStates
  <1>3. CASE WorkEvent \/ WorkDrain
    <2>1. /\ work # <<>> /\ work' = Tail(work) /\ drain.pc = "idle" /\ UNCHANGED <<outq, inFlight>>
          /\ drain' = Idle \/ drain' = [Idle EXCEPT !.pc = "process"]
          /\ scheduled' = scheduled \/ scheduled' = FALSE
      BY <1>3 DEF WorkEvent, WorkDrain
    <2>2. conn' \in BOOLEAN
      BY <1>3 DEF WorkEvent, WorkDrain, AsTypes
    <2>3. work' \in Seq(Jobs)
      BY <2>1, HeadTailProperties DEF AsTypes
    <2>4. drain' \in DrainStates /\ drain'.msg = None /\ drain'.pc \in {"idle", "process"}
      <3>1. CASE drain' = Idle
        BY <1>2, <3>1 DEF Idle
      <3>2. CASE drain' = [Idle EXCEPT !.pc = "process"]
        BY <3>2 DEF Idle, DrainStates
      <3> QED BY <2>1, <3>1, <3>2
    <2> QED BY <1>1, <2>1, <2>2, <2>3, <2>4 DEF AsTypes
  <1>4. CASE DrainBegins \/ DrainMarks \/ DrainClears
    <2>1. /\ drain.pc \in {"process", "loop", "sent", "stop"} /\ UNCHANGED <<conn, outq, scheduled, work>>
          /\ \/ drain' = Idle
             \/ drain' = [drain EXCEPT !.pc = "loop"]
             \/ drain' = [drain EXCEPT !.pc = "pop"] /\ inFlight' = TRUE
      BY <1>4 DEF DrainBegins, DrainMarks, DrainClears
    <2>4. inFlight' \in BOOLEAN
      BY <1>4 DEF DrainBegins, DrainMarks, DrainClears, AsTypes
    <2>5. drain.msg = None
      BY <2>1 DEF AsTypes
    <2>6. /\ drain' \in DrainStates /\ drain'.msg = None /\ drain'.pc \in {"idle", "loop", "pop"}
          /\ drain'.pc = "pop" => inFlight'
      <3>1. CASE drain' = Idle
        BY <1>2, <3>1 DEF Idle
      <3>2. CASE drain' = [drain EXCEPT !.pc = "loop"]
        BY <1>2, <2>5, <3>2 DEF DrainStates
      <3>3. CASE drain' = [drain EXCEPT !.pc = "pop"] /\ inFlight' = TRUE
        BY <1>2, <2>5, <3>3 DEF DrainStates
      <3> QED BY <2>1, <3>1, <3>2, <3>3
    <2> QED BY <1>1, <2>1, <2>4, <2>6 DEF AsTypes
  <1>5. CASE DrainPops
    <2>1. CASE outq = <<>>
      <3>1. drain' = Idle /\ inFlight' = FALSE /\ UNCHANGED <<conn, outq, scheduled, work>>
        BY <1>5, <2>1 DEF DrainPops
      <3> QED BY <1>1, <1>2, <3>1 DEF AsTypes, Idle
    <2>2. CASE outq # <<>>
      <3>1. /\ drain.pc = "pop" /\ drain' = [drain EXCEPT !.pc = "send", !.msg = Head(outq)]
            /\ outq' = Tail(outq) /\ UNCHANGED <<conn, inFlight, scheduled, work>>
        BY <1>5, <2>2 DEF DrainPops
      <3>2. Head(outq) \in Messages /\ Tail(outq) \in Seq(Messages)
        BY <2>2 DEF AsTypes
      <3>3. Head(outq) # None
        BY <3>2, AsDistinct DEF None
      <3>4. drain' \in DrainStates /\ drain'.pc = "send" /\ drain'.msg = Head(outq)
        BY <1>2, <3>1, <3>2 DEF DrainStates
      <3> QED BY <1>1, <3>1, <3>2, <3>3, <3>4 DEF AsTypes
    <2> QED BY <2>1, <2>2
  <1>6. CASE DrainSends \/ DrainNotConnected \/ DrainFails
    <2>1. /\ drain.pc = "send" /\ UNCHANGED <<conn, inFlight, scheduled, work>>
          /\ \E pc \in {"sent", "stop"}, r \in BOOLEAN : drain' = [pc |-> pc, msg |-> None, retried |-> r]
          /\ outq' = outq \/ outq' = <<drain.msg>> \o outq
      BY <1>6 DEF DrainSends, DrainNotConnected, DrainFails, HandBack
    <2>2. drain.msg \in Messages
      BY <1>2, <2>1 DEF AsTypes, DrainStates
    <2>3. outq' \in Seq(Messages)
      <3>1. outq \in Seq(Messages) /\ <<drain.msg>> \in Seq(Messages)
        BY <2>2 DEF AsTypes
      <3> QED BY <2>1, <3>1, ConcatProperties
    <2>4. drain' \in DrainStates /\ drain'.pc \in {"sent", "stop"} /\ drain'.msg = None
      BY <2>1 DEF DrainStates
    <2> QED BY <1>1, <2>1, <2>3, <2>4 DEF AsTypes
  <1> QED BY <1>3, <1>4, <1>5, <1>6 DEF Draining

\* What a step does with a sender's hand: it keeps the message, lets go of it, or takes up
\* the next one of the script.
LEMMA HandStep ==
  ASSUME AsTypes, AsNext, NEW t \in Senders
  PROVE  \/ /\ taken'[t] = taken[t]
            /\ \/ sender'[t].pc = "idle"
               \/ /\ sender[t].pc # "idle" /\ sender'[t].msg = sender[t].msg
                  /\ Holding(t)' => Holding(t)
         \/ /\ sender[t].pc = "idle" /\ taken[t] < Len(SendScript[t])
            /\ taken'[t] = taken[t] + 1 /\ sender'[t].msg = SendScript[t][taken[t] + 1]
  <1>1. sender \in [Senders -> SenderStates] /\ taken \in [Senders -> Nat]
    BY DEF AsTypes
  <1>2. CASE UNCHANGED <<sender, taken>>
    BY <1>2 DEF Holding
  <1>3. ASSUME NEW s \in Senders, SendBegins(s) \/ Sending(s), s # t
        PROVE  sender'[t] = sender[t] /\ taken'[t] = taken[t]
    BY <1>1, <1>3 DEF SendBegins, Sending, SendReadsCount, SendReadsFlag, SendDirect, SendQueues,
       SendSchedules, Goto, Done
  <1>4. CASE SendBegins(t)
    BY <1>1, <1>4 DEF SendBegins, At
  <1>5. CASE Sending(t)
    <2>1. UNCHANGED taken
      BY <1>5 DEF Sending, SendReadsCount, SendReadsFlag, SendDirect, SendQueues, SendSchedules
    <2>2. CASE SendReadsCount(t) \/ SendReadsFlag(t)
      BY <1>1, <2>1, <2>2 DEF SendReadsCount, SendReadsFlag, Goto, At, Holding, SenderStates
    <2>3. CASE SendQueues(t)
      BY <1>1, <2>1, <2>3 DEF SendQueues, Goto, At, Holding, SenderStates
    <2>4. CASE SendDirect(t) \/ SendSchedules(t)
      <3>1. sender' = [sender EXCEPT ![t] = Away]
        BY <2>4 DEF SendDirect, SendSchedules, Done
      <3> QED BY <1>1, <2>1, <3>1 DEF Away
    <2> QED BY <1>5, <2>2, <2>3, <2>4 DEF Sending
  <1>6. CASE LinkComesUp \/ LinkGoesDown \/ Leave \/ Draining
    <2>1. UNCHANGED <<sender, taken>>
      BY <1>6 DEF LinkComesUp, LinkGoesDown, Leave, Draining, WorkEvent, WorkDrain, DrainBegins, DrainMarks,
         DrainPops, DrainSends, DrainNotConnected, DrainFails, DrainClears, sendVars
    <2> QED BY <1>2, <2>1
  <1>7. CASE \E s \in Senders : SendBegins(s) \/ Sending(s)
    <2>1. PICK s \in Senders : SendBegins(s) \/ Sending(s)
      BY <1>7
    <2>2. CASE s = t
      BY <1>4, <1>5, <2>1, <2>2
    <2>3. CASE s # t
      <3>1. sender'[t] = sender[t] /\ taken'[t] = taken[t]
        BY <1>3, <2>1, <2>3
      <3> QED BY <3>1 DEF Holding
    <2> QED BY <2>2, <2>3
  <1> QED BY <1>6, <1>7 DEF AsNext

\* A message that was accepted stays accepted.
LEMMA AcceptedStep ==
  ASSUME AsTypes, AsNext, NEW m \in Messages, Accepted(m)
  PROVE  Accepted(m)'
  <1> SUFFICES ASSUME NEW t \in Senders, NEW i \in DOMAIN SendScript[t], m = SendScript[t][i]
               PROVE  i <= taken'[t] /\ (Holding(t)' => i < taken'[t])
    BY DEF Accepted
  <1>1. i <= taken[t] /\ (Holding(t) => i < taken[t])
    BY DEF Accepted
  <1>2. i \in Nat /\ taken[t] \in Nat
    BY ScriptFacts DEF AsTypes
  <1>3. CASE taken'[t] = taken[t] /\ (sender'[t].pc = "idle" \/ (Holding(t)' => Holding(t)))
    BY <1>1, <1>2, <1>3 DEF Holding
  <1>4. CASE sender[t].pc = "idle" /\ taken'[t] = taken[t] + 1
    BY <1>1, <1>2, <1>4
  <1> QED BY <1>3, <1>4, HandStep

\* What a step does with the queue and the message the drain holds.
QueueKept == outq' = outq /\ (drain'.msg = drain.msg \/ drain'.msg = None)
QueueLeft == outq' = <<>> /\ drain'.msg = drain.msg
QueuePopped == outq # <<>> /\ outq' = Tail(outq) /\ drain.msg = None /\ drain'.msg = Head(outq)
HandedBack ==
  /\ outq' = <<drain.msg>> \o outq /\ drain.msg # None /\ drain'.msg = None
  /\ putBack' = putBack \cup {drain.msg}

\* The steps by what they do to the queue.
LEMMA QueueStep ==
  ASSUME AsTypes, AsNext
  PROVE  QueueKept \/ QueueLeft \/ QueuePopped \/ HandedBack \/ (\E s \in Senders : SendQueues(s))
  <1>1. drain \in DrainStates
    BY DEF AsTypes
  <1>2. ASSUME NEW s \in Senders, SendBegins(s) \/ Sending(s)
        PROVE  QueueKept \/ SendQueues(s)
    BY <1>2 DEF SendBegins, Sending, SendReadsCount, SendReadsFlag, SendDirect, SendSchedules, QueueKept
  <1>3. CASE LinkComesUp \/ LinkGoesDown \/ Leave
    BY <1>3 DEF LinkComesUp, LinkGoesDown, Leave, QueueKept, QueueLeft
  <1>4. CASE WorkEvent \/ WorkDrain \/ DrainBegins \/ DrainMarks \/ DrainSends \/ DrainClears
    BY <1>1, <1>4 DEF WorkEvent, WorkDrain, DrainBegins, DrainMarks, DrainSends, DrainClears, QueueKept,
       Idle, DrainStates
  <1>5. CASE DrainPops
    <2>1. drain.msg = None
      BY <1>5 DEF DrainPops, AsTypes
    <2>2. CASE outq = <<>>
      BY <1>5, <2>2 DEF DrainPops, QueueKept, Idle
    <2>3. CASE outq # <<>>
      BY <1>1, <1>5, <2>1, <2>3 DEF DrainPops, QueuePopped, DrainStates
    <2> QED BY <2>2, <2>3
  <1>6. CASE DrainNotConnected \/ DrainFails
    <2>1. drain.msg # None
      BY <1>6 DEF DrainNotConnected, DrainFails, AsTypes
    <2> QED BY <1>6, <2>1 DEF DrainNotConnected, DrainFails, HandBack, HandedBack, QueueKept
  <1> QED BY <1>2, <1>3, <1>4, <1>5, <1>6 DEF AsNext, Draining

\* Only a sender that queues its message adds one to those that wait.
LEMMA WaitingStep ==
  ASSUME AsTypes, AsTypes', AsNext, NEW m \in Waiting'
  PROVE  m \in Waiting \/ \E s \in Senders : SendQueues(s) /\ m = sender[s].msg
  <1>1. m \in Messages /\ m # None
    BY WaitingNext
  <1>2. outq \in Seq(Messages) /\ outq' \in Seq(Messages)
    BY DEF AsTypes
  <1>3. m = drain'.msg \/ \E k \in DOMAIN outq' : outq'[k] = m
    BY <1>1 DEF Waiting, Range
  <1>4. CASE QueueKept \/ QueueLeft
    BY <1>1, <1>3, <1>4 DEF QueueKept, QueueLeft, Waiting, Range
  <1>5. CASE QueuePopped
    <2>1. \A k \in DOMAIN Tail(outq) : k + 1 \in DOMAIN outq /\ Tail(outq)[k] = outq[k + 1]
      BY <1>2, <1>5 DEF QueuePopped
    <2>2. 1 \in DOMAIN outq /\ Head(outq) = outq[1]
      BY <1>2, <1>5 DEF QueuePopped
    <2> QED BY <1>1, <1>3, <1>5, <2>1, <2>2 DEF QueuePopped, Waiting, Range
  <1>6. CASE HandedBack
    <2>1. drain.msg \in Messages
      BY <1>6 DEF HandedBack, AsTypes, DrainStates
    <2>2. \A k \in DOMAIN outq' : outq'[k] = drain.msg \/ (k - 1 \in DOMAIN outq /\ outq'[k] = outq[k - 1])
      BY <1>2, <1>6, <2>1 DEF HandedBack
    <2> QED BY <1>1, <1>3, <1>6, <2>2 DEF HandedBack, Waiting, Range
  <1>7. ASSUME NEW s \in Senders, SendQueues(s)
        PROVE  m \in Waiting \/ m = sender[s].msg
    <2>1. outq' = Append(outq, sender[s].msg) /\ drain' = drain
      BY <1>7 DEF SendQueues
    <2>2. \A k \in DOMAIN outq' : outq'[k] = sender[s].msg \/ (k \in DOMAIN outq /\ outq'[k] = outq[k])
      BY <1>2, <2>1
    <2> QED BY <1>1, <1>3, <2>1, <2>2 DEF Waiting, Range
  <1> QED BY <1>4, <1>5, <1>6, <1>7, QueueStep

\* What a sender that queues brings: the message of its script it had taken up.
LEMMA QueuedFacts ==
  ASSUME AsTypes, ScriptInv, NEW s \in Senders, SendQueues(s)
  PROVE  /\ taken[s] \in DOMAIN SendScript[s] /\ sender[s].msg = SendScript[s][taken[s]]
         /\ sender[s].msg \in Messages /\ Holding(s)
         /\ outq' = Append(outq, sender[s].msg) /\ drain' = drain
         /\ ~Holding(s)' /\ taken' = taken
         /\ \A m \in Waiting : \A i \in DOMAIN SendScript[s] : m = SendScript[s][i] => i < taken[s]
  <1>1. sender[s].pc = "queue"
    BY DEF SendQueues, At
  <1>2. taken[s] \in DOMAIN SendScript[s] /\ sender[s].msg = SendScript[s][taken[s]]
    BY <1>1 DEF ScriptInv
  <1>3. Holding(s)
    BY <1>1 DEF Holding
  <1>4. ~Holding(s)'
    BY DEF SendQueues, Goto, Holding, AsTypes, SenderStates
  <1>5. \A m \in Waiting : \A i \in DOMAIN SendScript[s] : m = SendScript[s][i] => i < taken[s]
    BY <1>3 DEF ScriptInv, Accepted
  <1> QED BY <1>2, <1>3, <1>4, <1>5, ScriptFacts DEF SendQueues

\* Every step keeps ScriptInv.
LEMMA ScriptStep ==
  ASSUME AsTypes, AsTypes', ScriptInv, AsNext
  PROVE  ScriptInv'
  <1>1. ASSUME NEW s \in Senders, sender'[s].pc # "idle"
        PROVE  taken'[s] \in DOMAIN SendScript[s] /\ sender'[s].msg = SendScript[s][taken'[s]]
    <2>1. sender[s].pc # "idle" => taken[s] \in DOMAIN SendScript[s] /\ sender[s].msg = SendScript[s][taken[s]]
      BY DEF ScriptInv
    <2>2. taken[s] \in Nat
      BY DEF AsTypes
    <2> QED BY <1>1, <2>1, <2>2, HandStep, ScriptFacts
  <1>2. ASSUME NEW m \in Waiting'
        PROVE  Accepted(m)'
    <2>1. m \in Messages
      BY WaitingNext
    <2>2. CASE m \in Waiting
      BY <2>1, <2>2, AcceptedStep DEF ScriptInv
    <2>3. ASSUME NEW s \in Senders, SendQueues(s), m = sender[s].msg
          PROVE  Accepted(m)'
      <3>1. \A t \in Senders : \A i \in DOMAIN SendScript[t] :
              m = SendScript[t][i] => t = s /\ i = taken[s]
        <4>1. taken[s] \in DOMAIN SendScript[s] /\ m = SendScript[s][taken[s]]
          BY <2>3, QueuedFacts
        <4> QED BY <4>1, ScriptFacts
      <3>2. ~Holding(s)' /\ taken' = taken /\ taken[s] \in Nat
        BY <2>3, QueuedFacts DEF AsTypes
      <3> QED BY <3>1, <3>2 DEF Accepted
    <2> QED BY <2>2, <2>3, WaitingStep
  <1>3. ASSUME NEW s \in Senders, NEW i \in DOMAIN SendScript[s], NEW j \in DOMAIN SendScript[s],
               NEW k \in DOMAIN outq', NEW l \in DOMAIN outq',
               outq'[k] = SendScript[s][i], outq'[l] = SendScript[s][j], k < l
        PROVE  i < j
    <2>0. outq \in Seq(Messages) /\ outq' \in Seq(Messages)
      BY DEF AsTypes
    <2>1. \A x, y \in DOMAIN outq : outq[x] = SendScript[s][i] /\ outq[y] = SendScript[s][j] /\ x < y => i < j
      BY DEF ScriptInv
    <2>2. CASE QueueKept \/ QueueLeft
      BY <1>3, <2>1, <2>2 DEF QueueKept, QueueLeft
    <2>3. CASE QueuePopped
      <3>1. /\ k + 1 \in DOMAIN outq /\ outq'[k] = outq[k + 1]
            /\ l + 1 \in DOMAIN outq /\ outq'[l] = outq[l + 1]
            /\ k + 1 < l + 1
        BY <1>3, <2>0, <2>3 DEF QueuePopped
      <3> QED BY <1>3, <2>1, <3>1
    <2>4. CASE HandedBack
      <3>1. drain.msg \in Messages
        BY <2>4 DEF HandedBack, AsTypes, DrainStates
      <3>2. l - 1 \in DOMAIN outq /\ outq'[l] = outq[l - 1]
        BY <1>3, <2>0, <2>4, <3>1 DEF HandedBack
      <3>3. CASE k = 1
        <4>1. drain.msg = SendScript[s][i]
          <5>1. outq' = <<drain.msg>> \o outq
            BY <2>4 DEF HandedBack
          <5>2. outq'[1] = drain.msg
            BY <2>0, <3>1, <5>1
          <5> QED BY <1>3, <3>3, <5>2
        <4>2. \A x \in DOMAIN outq : drain.msg = SendScript[s][i] /\ outq[x] = SendScript[s][j] => i < j
          BY DEF ScriptInv
        <4> QED BY <1>3, <3>2, <4>1, <4>2
      <3>4. CASE k # 1
        <4>1. k - 1 \in DOMAIN outq /\ outq'[k] = outq[k - 1] /\ k - 1 < l - 1
          BY <1>3, <2>0, <2>4, <3>1, <3>4 DEF HandedBack
        <4> QED BY <1>3, <2>1, <3>2, <4>1
      <3> QED BY <3>3, <3>4
    <2>5. ASSUME NEW t \in Senders, SendQueues(t)
          PROVE  i < j
      <3>1. /\ k \in DOMAIN outq /\ outq'[k] = outq[k]
            /\ (l \in DOMAIN outq /\ outq'[l] = outq[l]) \/ outq'[l] = sender[t].msg
        BY <1>3, <2>0, <2>5, QueuedFacts
      <3>2. CASE l \in DOMAIN outq /\ outq'[l] = outq[l]
        BY <1>3, <2>1, <3>1, <3>2
      <3>3. CASE outq'[l] = sender[t].msg
        <4>1. t = s /\ j = taken[t]
          <5>1. taken[t] \in DOMAIN SendScript[t] /\ SendScript[s][j] = SendScript[t][taken[t]]
            BY <1>3, <2>5, <3>3, QueuedFacts
          <5> QED BY <5>1, ScriptFacts
        <4>2. SendScript[s][i] \in Waiting
          BY <1>3, <3>1 DEF Waiting, Range
        <4> QED BY <2>5, <4>1, <4>2, QueuedFacts
      <3> QED BY <3>1, <3>2, <3>3
    <2> QED BY <2>2, <2>3, <2>4, <2>5, QueueStep
  <1>4. ASSUME NEW s \in Senders, NEW i \in DOMAIN SendScript[s], NEW j \in DOMAIN SendScript[s],
               NEW k \in DOMAIN outq', drain'.msg = SendScript[s][i], outq'[k] = SendScript[s][j]
        PROVE  i < j
    <2>0. outq \in Seq(Messages) /\ outq' \in Seq(Messages) /\ SendScript[s][i] # None
      BY ScriptFacts DEF AsTypes
    <2>1. \A x \in DOMAIN outq : drain.msg = SendScript[s][i] /\ outq[x] = SendScript[s][j] => i < j
      BY DEF ScriptInv
    <2>2. CASE QueueKept \/ QueueLeft
      BY <1>4, <2>0, <2>1, <2>2 DEF QueueKept, QueueLeft
    <2>3. CASE QueuePopped
      <3>1. /\ k + 1 \in DOMAIN outq /\ outq'[k] = outq[k + 1]
            /\ 1 \in DOMAIN outq /\ drain'.msg = outq[1] /\ 1 < k + 1
        BY <1>4, <2>0, <2>3 DEF QueuePopped
      <3> QED BY <1>4, <3>1, ZenonT(40) DEF ScriptInv
    <2>4. CASE HandedBack
      BY <1>4, <2>0, <2>4 DEF HandedBack
    <2>5. ASSUME NEW t \in Senders, SendQueues(t)
          PROVE  i < j
      <3>1. /\ (k \in DOMAIN outq /\ outq'[k] = outq[k]) \/ outq'[k] = sender[t].msg
            /\ drain.msg = SendScript[s][i]
        BY <1>4, <2>0, <2>5, QueuedFacts
      <3>2. CASE k \in DOMAIN outq /\ outq'[k] = outq[k]
        BY <1>4, <2>1, <3>1, <3>2
      <3>3. CASE outq'[k] = sender[t].msg
        <4>1. t = s /\ j = taken[t]
          <5>1. taken[t] \in DOMAIN SendScript[t] /\ SendScript[s][j] = SendScript[t][taken[t]]
            BY <1>4, <2>5, <3>3, QueuedFacts
          <5> QED BY <5>1, ScriptFacts
        <4>2. SendScript[s][i] \in Waiting
          BY <2>0, <3>1 DEF Waiting
        <4> QED BY <2>5, <4>1, <4>2, QueuedFacts
      <3> QED BY <3>1, <3>2, <3>3
    <2> QED BY <2>2, <2>3, <2>4, <2>5, QueueStep
  <1> QED BY <1>1, <1>2, <1>3, <1>4 DEF ScriptInv

\* What a step does with the messages a sender leaves behind.
LEMMA PassedStep ==
  ASSUME AsTypes, AsNext, NEW t \in Senders
  PROVE  \/ /\ sender'[t].ahead = sender[t].ahead
            /\ At(t, "flag")' => At(t, "flag") \/ (At(t, "count") /\ outq = <<>> /\ UNCHANGED <<outq, drain>>)
            /\ At(t, "send")' => At(t, "send") \/ (At(t, "flag") /\ ~inFlight /\ UNCHANGED <<outq, drain>>)
         \/ sender'[t].ahead = {}
         \/ sender'[t].ahead = Waiting /\ ~At(t, "flag")' /\ ~At(t, "send")'
  <1>1. sender \in [Senders -> SenderStates]
    BY DEF AsTypes
  <1>2. CASE UNCHANGED sender
    BY <1>2 DEF At
  <1>3. ASSUME NEW s \in Senders, SendBegins(s) \/ Sending(s), s # t
        PROVE  sender'[t] = sender[t]
    BY <1>1, <1>3 DEF SendBegins, Sending, SendReadsCount, SendReadsFlag, SendDirect, SendQueues,
       SendSchedules, Goto, Done
  <1>4. CASE SendBegins(t)
    BY <1>1, <1>4 DEF SendBegins, At
  <1>5. CASE Sending(t)
    <2>1. CASE SendReadsCount(t)
      BY <1>1, <2>1 DEF SendReadsCount, Goto, At, SenderStates
    <2>2. CASE SendReadsFlag(t)
      BY <1>1, <2>2 DEF SendReadsFlag, Goto, At, SenderStates
    <2>3. CASE SendQueues(t)
      BY <1>1, <2>3 DEF SendQueues, Goto, At, SenderStates
    <2>4. CASE SendDirect(t) \/ SendSchedules(t)
      <3>1. sender' = [sender EXCEPT ![t] = Away]
        BY <2>4 DEF SendDirect, SendSchedules, Done
      <3> QED BY <1>1, <3>1 DEF Away
    <2> QED BY <1>5, <2>1, <2>2, <2>3, <2>4 DEF Sending
  <1>6. CASE LinkComesUp \/ LinkGoesDown \/ Leave \/ Draining
    <2>1. UNCHANGED sender
      BY <1>6 DEF LinkComesUp, LinkGoesDown, Leave, Draining, WorkEvent, WorkDrain, DrainBegins, DrainMarks,
         DrainPops, DrainSends, DrainNotConnected, DrainFails, DrainClears, sendVars
    <2> QED BY <1>2, <2>1
  <1>7. CASE \E s \in Senders : SendBegins(s) \/ Sending(s)
    <2>1. PICK s \in Senders : SendBegins(s) \/ Sending(s)
      BY <1>7
    <2>2. CASE s = t
      BY <1>4, <1>5, <2>1, <2>2
    <2>3. CASE s # t
      BY <1>3, <2>1, <2>3 DEF At
    <2> QED BY <2>2, <2>3
  <1> QED BY <1>6, <1>7 DEF AsNext

\* The message the drain lets go of is nowhere else.
LEMMA DrainedFacts ==
  ASSUME AsTypes, ScriptInv, drain.msg # None
  PROVE  \A k \in DOMAIN outq : outq[k] # drain.msg
  <1> SUFFICES ASSUME NEW k \in DOMAIN outq, outq[k] = drain.msg
               PROVE  FALSE
    OBVIOUS
  <1>1. drain.msg \in Messages
    BY DEF AsTypes, DrainStates
  <1>2. PICK s \in Senders : drain.msg \in Range(SendScript[s])
    BY <1>1 DEF Messages
  <1>3. PICK i \in DOMAIN SendScript[s] : drain.msg = SendScript[s][i]
    BY <1>2 DEF Range
  <1>4. i < i
    BY <1>3 DEF ScriptInv
  <1>5. i \in Nat
    BY ScriptFacts
  <1> QED BY <1>4, <1>5

\* Every step keeps PassedInv.
LEMMA PassingStep ==
  ASSUME AsTypes, AsTypes', ScriptInv, PassedInv, AsNext
  PROVE  PassedInv'
  <1>1. putBack \subseteq putBack'
    BY DEF AsNext, SendBegins, Sending, SendReadsCount, SendReadsFlag, SendDirect, SendQueues, SendSchedules,
       LinkComesUp, LinkGoesDown, Leave, Draining, WorkEvent, WorkDrain, DrainBegins, DrainMarks, DrainPops,
       DrainSends, DrainNotConnected, DrainFails, DrainClears, HandBack, histVars
  <1>2. overtaken' \subseteq putBack'
    <2>1. ASSUME NEW s \in Senders, SendDirect(s)
          PROVE  overtaken' \subseteq overtaken \cup putBack
      BY <2>1 DEF SendDirect, PassedInv
    <2>2. overtaken' = overtaken \/ \E s \in Senders : SendDirect(s)
      BY DEF AsNext, SendBegins, Sending, SendReadsCount, SendReadsFlag, SendQueues, SendSchedules,
         LinkComesUp, LinkGoesDown, Leave, Draining, WorkEvent, WorkDrain, DrainBegins, DrainMarks, DrainPops,
         DrainSends, DrainNotConnected, DrainFails, DrainClears, histVars
    <2> QED BY <1>1, <2>1, <2>2 DEF PassedInv
  <1>3. ASSUME NEW s \in Senders, NEW m \in sender'[s].ahead
        PROVE  Accepted(m)'
    <2>1. m \in Messages
      BY <1>3 DEF AsTypes, SenderStates
    <2>2. m \in sender[s].ahead \/ m \in Waiting
      BY <1>3, PassedStep
    <2>3. Accepted(m)
      BY <2>2 DEF PassedInv, ScriptInv
    <2> QED BY <2>1, <2>3, AcceptedStep
  <1>4. ASSUME NEW s \in Senders, NEW m \in sender'[s].ahead, m \in Waiting', At(s, "flag")' \/ At(s, "send")'
        PROVE  /\ m \in sender[s].ahead \cap Waiting
               /\ m \in putBack \/ m = drain.msg
               /\ At(s, "send")' => m \in putBack
    <2>1. m \in sender[s].ahead
      BY <1>4, PassedStep
    <2>2. ASSUME NEW t \in Senders, SendQueues(t), m = sender[t].msg
          PROVE  FALSE
      <3>1. /\ taken[t] \in DOMAIN SendScript[t] /\ m = SendScript[t][taken[t]] /\ Holding(t)
        BY <2>2, QueuedFacts
      <3>2. taken[t] < taken[t]
        BY <2>1, <3>1 DEF PassedInv, Accepted
      <3>3. taken[t] \in Nat
        BY DEF AsTypes
      <3> QED BY <3>2, <3>3
    <2>3. m \in Waiting
      BY <1>4, <2>2, WaitingStep
    <2>4. m # None
      BY <2>3, WaitingFacts, AsDistinct DEF None
    <2>5. At(s, "count") /\ outq = <<>> => m = drain.msg
      BY <2>3, WaitingFacts
    <2>6. m = drain.msg => inFlight
      BY <2>4 DEF AsTypes
    <2>7. /\ At(s, "flag") => m \in putBack \/ m = drain.msg
          /\ At(s, "send") => m \in putBack
      BY <2>1, <2>3 DEF PassedInv
    <2> QED BY <1>4, <2>1, <2>3, <2>5, <2>6, <2>7, PassedStep
  <1>5. ASSUME NEW m \in Waiting', m = drain.msg
        PROVE  m \in putBack' \/ m = drain'.msg
    <2>1. m # None /\ drain.msg \in Messages
      BY <1>5, WaitingNext
    <2>2. \A k \in DOMAIN outq : outq[k] # m
      BY <1>5, <2>1, DrainedFacts
    <2>3. CASE QueueKept
      <3>1. m # drain'.msg => \E k \in DOMAIN outq' : outq'[k] = m
        BY <2>1 DEF Waiting, Range
      <3> QED BY <2>2, <2>3, <3>1 DEF QueueKept
    <2>4. CASE QueueLeft \/ QueuePopped \/ HandedBack \/ \E s \in Senders : SendQueues(s)
      BY <1>5, <2>1, <2>4 DEF QueueLeft, QueuePopped, HandedBack, SendQueues
    <2> QED BY <2>3, <2>4, QueueStep
  <1>6. ASSUME NEW s \in Senders, NEW m \in sender'[s].ahead \cap Waiting'
        PROVE  /\ At(s, "flag")' => m \in putBack' \/ m = drain'.msg
               /\ At(s, "send")' => m \in putBack'
    BY <1>1, <1>4, <1>5, <1>6
  <1> QED BY <1>2, <1>3, <1>6 DEF PassedInv

\* What is left of the work queue when its head is taken.
LEMMA WorkTail ==
  ASSUME AsTypes, work # <<>>
  PROVE  \A e : e \in Range(work) /\ e # Head(work) => e \in Range(Tail(work))
  <1>1. work \in Seq(Jobs)
    BY DEF AsTypes
  <1>2. /\ Head(work) = work[1]
        /\ \A k \in DOMAIN work : k = 1 \/ (k - 1 \in DOMAIN Tail(work) /\ Tail(work)[k - 1] = work[k])
    BY <1>1
  <1> QED BY <1>2 DEF Range

\* A job added to the work queue is in it, and no job leaves.
LEMMA WorkAppend ==
  ASSUME AsTypes, NEW e
  PROVE  /\ Append(work, e) # <<>> /\ e \in Range(Append(work, e))
         /\ Range(work) \subseteq Range(Append(work, e))
  <1>1. work \in Seq(Jobs)
    BY DEF AsTypes
  <1>2. /\ Len(work) + 1 \in DOMAIN Append(work, e) /\ Append(work, e)[Len(work) + 1] = e
        /\ \A k \in DOMAIN work : k \in DOMAIN Append(work, e) /\ Append(work, e)[k] = work[k]
    BY <1>1
  <1> QED BY <1>2 DEF Range

\* Every step keeps DrainInv.
LEMMA DrainStep ==
  ASSUME AsTypes, AsTypes', DrainInv, AsNext
  PROVE  DrainInv'
  <1>0. drain \in DrainStates /\ sender \in [Senders -> SenderStates]
        /\ work \in Seq(Jobs)
    BY DEF AsTypes
  <1>1. ASSUME NEW s \in Senders, SendBegins(s) \/ SendReadsCount(s) \/ SendReadsFlag(s)
        PROVE  DrainInv'
    <2>1. UNCHANGED <<conn, linkUp, outq, scheduled, work, drain>>
      BY <1>1 DEF SendBegins, SendReadsCount, SendReadsFlag
    <2>2. \A t \in Senders : At(t, "schedule") => At(t, "schedule")'
      BY <1>0, <1>1 DEF SendBegins, SendReadsCount, SendReadsFlag, Goto, At
    <2> QED BY <2>1, <2>2 DEF DrainInv, DrainToCome, Connected
  <1>2. ASSUME NEW s \in Senders, SendDirect(s)
        PROVE  DrainInv'
    <2>1. /\ UNCHANGED <<linkUp, outq, scheduled, work, drain>>
          /\ conn' = conn \/ conn' = FALSE
      BY <1>2 DEF SendDirect
    <2>2. \A t \in Senders : At(t, "schedule") => At(t, "schedule")'
      BY <1>0, <1>2 DEF SendDirect, Done, At
    <2> QED BY <2>1, <2>2 DEF DrainInv, DrainToCome, Connected
  <1>3. ASSUME NEW s \in Senders, SendQueues(s)
        PROVE  DrainInv'
    <2>1. UNCHANGED <<conn, linkUp, scheduled, work, drain>>
      BY <1>3 DEF SendQueues
    <2>2. At(s, "schedule")'
      BY <1>0, <1>3 DEF SendQueues, Goto, At
    <2> QED BY <2>1, <2>2 DEF DrainInv, DrainToCome, Connected
  <1>4. ASSUME NEW s \in Senders, SendSchedules(s)
        PROVE  DrainInv'
    <2>1. UNCHANGED <<conn, linkUp, outq, drain>>
      BY <1>4 DEF SendSchedules
    <2>2. CASE scheduled' = TRUE /\ work' = Append(work, "drain")
      <3>1. "drain" \in Range(work') /\ work' # <<>>
        BY <2>2, WorkAppend
      <3> QED BY <2>1, <3>1 DEF DrainInv, DrainToCome
    <2>3. CASE UNCHANGED <<scheduled, work>> /\ (scheduled \/ ~conn)
      <3>1. scheduled => work # <<>>
        BY DEF DrainInv, Range
      <3>2. ~scheduled' => ~Connected'
        BY <2>1, <2>3 DEF Connected
      <3> QED BY <2>1, <2>3, <3>1, <3>2 DEF DrainInv, DrainToCome, Connected
    <2> QED BY <1>4, <2>2, <2>3 DEF SendSchedules, AsTypes
  <1>5. CASE LinkComesUp \/ LinkGoesDown
    <2>1. /\ UNCHANGED <<conn, outq, scheduled, drain>>
          /\ \E e \in {"CONNECTED", "DISCONNECTED"} : work' = Append(work, e)
      BY <1>5 DEF LinkComesUp, LinkGoesDown
    <2>2. work' # <<>> /\ Range(work) \subseteq Range(work')
      BY <2>1, WorkAppend
    <2> QED BY <2>1, <2>2 DEF DrainInv, DrainToCome
  <1>6. CASE Leave
    <2>1. UNCHANGED <<scheduled, drain>> /\ ~conn' /\ outq' = <<>>
      BY <1>6 DEF Leave
    <2>2. "drain" \in Range(work) => "drain" \in Range(work')
      <3>1. "drain" \in Range(<<"drain">>)
        BY DEF Range
      <3> QED BY <1>6, <3>1 DEF Leave
    <2> QED BY <2>1, <2>2 DEF DrainInv, DrainToCome, Connected
  <1>7. CASE WorkEvent
    <2>1. /\ UNCHANGED <<outq, scheduled>> /\ work' = Tail(work) /\ work # <<>> /\ Head(work) # "drain"
          /\ drain'.pc # "stop"
          /\ outq' # <<>> /\ Connected' => drain'.pc = "process"
      BY <1>7 DEF WorkEvent, Idle, Connected
    <2>2. "drain" \in Range(work) => "drain" \in Range(work')
      BY <2>1, WorkTail
    <2> QED BY <2>1, <2>2 DEF DrainInv, DrainToCome
  <1>8. CASE WorkDrain
    BY <1>8 DEF WorkDrain, Idle, DrainInv, DrainToCome
  <1>9. CASE DrainBegins \/ DrainMarks \/ DrainPops \/ DrainSends \/ DrainNotConnected \/ DrainFails
    <2>1. UNCHANGED <<conn, linkUp, scheduled, work>>
      BY <1>9 DEF DrainBegins, DrainMarks, DrainPops, DrainSends, DrainNotConnected, DrainFails
    <2>2. CASE DrainBegins \/ DrainMarks
      BY <1>0, <2>2 DEF DrainBegins, DrainMarks, Idle, DrainStates, DrainInv, DrainToCome, Connected, At, sendVars
    <2>3. CASE DrainPops
      <3>1. CASE outq = <<>>
        BY <2>1, <2>3, <3>1 DEF DrainPops, Idle, DrainInv, DrainToCome
      <3>2. CASE outq # <<>>
        <4>1. drain'.pc = "send"
          BY <1>0, <2>3, <3>2 DEF DrainPops, DrainStates
        <4> QED BY <2>1, <4>1 DEF DrainInv, DrainToCome
      <3> QED BY <3>1, <3>2
    <2>4. CASE DrainSends \/ DrainNotConnected \/ DrainFails
      <3>1. /\ drain'.pc # "idle"
            /\ drain'.pc = "stop" => ~Connected
        BY <2>4 DEF DrainSends, DrainNotConnected, DrainFails, HandBack
      <3> QED BY <2>1, <3>1 DEF DrainInv, DrainToCome, Connected
    <2> QED BY <1>9, <2>2, <2>3, <2>4
  <1>10. CASE DrainClears
    <2>1. UNCHANGED <<conn, linkUp, outq, scheduled, work, sender>>
      BY <1>10 DEF DrainClears, sendVars
    <2>2. drain'.pc # "stop" /\ (drain'.pc = "idle" => drain.pc = "stop")
      BY <1>0, <1>10 DEF DrainClears, Idle, DrainStates
    <2> QED BY <2>1, <2>2 DEF DrainInv, DrainToCome, Connected, At
  <1> QED BY <1>1, <1>2, <1>3, <1>4, <1>5, <1>6, <1>7, <1>8, <1>9, <1>10 DEF AsNext, Sending, Draining

\* Every step keeps the invariant of the sender.
LEMMA AsStep ==
  ASSUME AsInv, [AsNext]_asVars
  PROVE  AsInv'
  <1>1. CASE AsNext
    <2>1. AsTypes'
      BY <1>1, SenderTypes, LinkTypes, DrainTypes DEF AsInv, AsNext
    <2> QED BY <1>1, <2>1, ScriptStep, PassingStep, DrainStep DEF AsInv
  <1>2. CASE UNCHANGED asVars
    BY <1>2 DEF asVars, sendVars, histVars, AsInv, AsTypes, ScriptInv, PassedInv, DrainInv, Holding, Accepted,
       Waiting, At, Connected, DrainToCome
  <1> QED BY <1>1, <1>2

\* The inductive invariant of the outgoing messages (apprtc_signaling.c, apprtc_send_order.c).
THEOREM SendInductive == AsInit /\ [][AsNext]_asVars => []AsInv
  <1>1. AsInit => AsInv
    <2> SUFFICES ASSUME AsInit
                 PROVE  AsInv
      OBVIOUS
    <2>1. Idle \in DrainStates /\ Away \in SenderStates
      BY DEF Idle, Away, DrainStates, SenderStates
    <2>2. AsTypes
      <3>1. outq \in Seq(Messages) /\ work \in Seq(Jobs)
        BY EmptySeq DEF AsInit
      <3>2. sender \in [Senders -> SenderStates] /\ taken \in [Senders -> Nat]
        BY <2>1 DEF AsInit
      <3> QED BY <2>1, <3>1, <3>2 DEF AsInit, AsTypes, Idle
    <2>3. Waiting = {}
      BY DEF AsInit, Waiting, Range, Idle
    <2>4. ScriptInv
      BY <2>3 DEF AsInit, ScriptInv, Away
    <2>5. PassedInv
      BY <2>3 DEF AsInit, PassedInv, Away
    <2>6. DrainInv
      BY DEF AsInit, DrainInv, DrainToCome, Idle
    <2> QED BY <2>2, <2>4, <2>5, <2>6 DEF AsInv
  <1> QED BY <1>1, AsStep, PTL 

\* Messages leave in the order they were accepted, but for one a failed send handed back, and
\* none is left behind in the queue: apprtc_send_order_decide() needs no lock, for any number
\* of senders, links and failures.
THEOREM SendOrderCorrect == AsInit /\ [][AsNext]_asVars => []SendOrderKept
  <1>1. AsInv => SendOrderKept
    <2> SUFFICES ASSUME AsInv
                 PROVE  SendOrderKept
      OBVIOUS
    <2>1. QueueKeepsOrder
      <3> SUFFICES ASSUME NEW s \in Senders, NEW i \in 1..Len(SendScript[s]), NEW j \in 1..Len(SendScript[s]), i < j,
                          NEW k \in 1..Len(outq), NEW l \in 1..Len(outq),
                          outq[k] = SendScript[s][j], outq[l] = SendScript[s][i]
                   PROVE  l < k
        BY DEF QueueKeepsOrder
      <3>1. i \in DOMAIN SendScript[s] /\ j \in DOMAIN SendScript[s] /\ i \in Nat /\ j \in Nat
        BY ScriptFacts
      <3>2. k \in DOMAIN outq /\ l \in DOMAIN outq /\ k \in Nat /\ l \in Nat
        BY WaitingFacts DEF AsInv
      <3>3. ~(k < l)
        BY <3>1, <3>2 DEF AsInv, ScriptInv
      <3>4. k # l
        BY <3>1, ScriptFacts
      <3> QED BY <3>2, <3>3, <3>4
    <2> QED BY <2>1 DEF AsInv, PassedInv, DrainInv, SendOrderKept, OvertakenOnlyAfterFailure
  <1> QED BY <1>1, SendInductive, PTL
=============================================================================
