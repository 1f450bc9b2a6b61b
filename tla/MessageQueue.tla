---------------------------- MODULE MessageQueue ----------------------------
(***************************************************************************)
(* components/esp_webrtc_utils/src/message_queue.c: the bounded FIFO of    *)
(* owned buffers used by AppRTC signaling (outgoing messages) and by       *)
(* kvs_media (video intake).                                               *)
(*                                                                         *)
(* The slot array, its shifts and its count are modelled as they are in    *)
(* the code; every region between sync_lock() and sync_unlock() is one     *)
(* action.  A reader in message_queue_get_next_wait() releases the lock    *)
(* while it waits, so a wait is several actions.  On the chips it waits on *)
(* a binary semaphore that every add gives; on the linux target on a       *)
(* condition variable, whose signal is lost when nobody waits.  Which of   *)
(* the two was built is chosen in Init and never changes.                  *)
(***************************************************************************)
EXTENDS Naturals, Sequences

CONSTANTS Msgs,          \* buffers the callers allocate and queue
          DroppableMsgs, \* those the owner's droppable() callback accepts
          Readers,       \* tasks that call message_queue_get_next_wait()
          Depth,         \* config->depth
          NoMsg          \* a slot whose data is NULL

ASSUME DepthAssumption == Depth \in Nat \ {0}
ASSUME MsgsAssumption == DroppableMsgs \subseteq Msgs /\ NoMsg \notin Msgs

VARIABLES target,    \* CONFIG_IDF_TARGET: one of the chips, or linux
          rejectNew, \* queue->full_policy is MESSAGE_QUEUE_FULL_REJECT_NEW
          mutex,     \* queue->mutex is set: the queue is initialised
          messages,  \* queue->messages: the slot array
          count,     \* queue->count
          wake,      \* the binary semaphore on the chips
          rd,        \* where each reader is in message_queue_get_next_wait()
          forever,   \* the reader waits with MESSAGE_QUEUE_WAIT_FOREVER
          own        \* who owns each buffer

vars == <<target, rejectNew, mutex, messages, count, wake, rd, forever, own>>

Slots == 0..(Depth - 1)

Live == 0..(count - 1)

\* "heap": not allocated (or freed); "queue": queued; "reader": handed back.
Owners == {"heap", "queue", "reader"}

\* "waiting": lock released, blocked; "woken": blocked call returned with the
\* wake-up; "expired": it returned because the time is over.
ReaderStates == {"idle", "waiting", "woken", "expired"}

TypeOK ==
  /\ target \in {"chip", "linux"}
  /\ rejectNew \in BOOLEAN
  /\ mutex \in BOOLEAN
  /\ messages \in [Slots -> Msgs \cup {NoMsg}]
  /\ count \in 0..Depth
  /\ wake \in BOOLEAN
  /\ rd \in [Readers -> ReaderStates]
  /\ forever \in [Readers -> BOOLEAN]
  /\ own \in [Msgs -> Owners]

\* The struct is zeroed before the first init.
Init ==
  /\ target \in {"chip", "linux"}
  /\ rejectNew = FALSE
  /\ mutex = FALSE
  /\ messages = [i \in Slots |-> NoMsg]
  /\ count = 0
  /\ wake = FALSE
  /\ rd = [r \in Readers |-> "idle"]
  /\ forever = [r \in Readers |-> FALSE]
  /\ own = [m \in Msgs |-> "heap"]

-----------------------------------------------------------------------------
\* Mutant: only the message that ends the emptiness wakes a reader.
SyncSignalWhenEmpty(rdNow) ==
  IF target = "chip"
  THEN wake' = (wake \/ count = 0) /\ rd' = rdNow
  ELSE /\ UNCHANGED wake
       /\ LET waiters == {r \in Readers : rdNow[r] = "waiting"}
          IN IF waiters = {} \/ count > 0 THEN rd' = rdNow
             ELSE \E r \in waiters : rd' = [rdNow EXCEPT ![r] = "woken"]

\* sync_signal() after the readers' states became rdNow.
SyncSignal(rdNow) ==
  IF target = "chip"
  THEN wake' = TRUE /\ rd' = rdNow
  ELSE /\ UNCHANGED wake
       /\ LET waiters == {r \in Readers : rdNow[r] = "waiting"}
          IN IF waiters = {} THEN rd' = rdNow
             ELSE \E r \in waiters : rd' = [rdNow EXCEPT ![r] = "woken"]

\* Mutant: the droppable() callback is not consulted.
IsDropIndexIgnoringKind(i) == i = 0

\* drop_index(): the oldest droppable message, else the oldest.
IsDropIndex(i) ==
  \/ /\ messages[i] \in DroppableMsgs
     /\ \A j \in 0..(i - 1) : messages[j] \notin DroppableMsgs
  \/ /\ i = 0
     /\ \A j \in Live : messages[j] \notin DroppableMsgs

\* The slots after make_room() freed the victim: the loop shifts every later
\* slot of the array, not only the live ones.
ShiftDown(victim) ==
  [i \in Slots |-> IF i >= victim /\ i < Depth - 1 THEN messages[i + 1]
                   ELSE messages[i]]

\* Mutant: a full queue still counts as having room.
MakeRoomOffByOne ==
  {[slots |-> messages, n |-> count, own |-> own] : k \in {i \in {count} : i <= Depth}}

\* Mutant: the full policy is not consulted.
MakeRoomIgnoringPolicy ==
  IF count < Depth THEN {[slots |-> messages, n |-> count, own |-> own]}
  ELSE {[slots |-> ShiftDown(0), n |-> count - 1,
         own |-> [own EXCEPT ![messages[0]] = "heap"]]}

\* make_room(): slots, count and owners once there is room.  No record when the
\* queue is full and refuses new messages.
MakeRoom ==
  IF count < Depth THEN {[slots |-> messages, n |-> count, own |-> own]}
  ELSE IF rejectNew THEN {}
  ELSE {[slots |-> ShiftDown(v), n |-> count - 1,
         own |-> [own EXCEPT ![messages[v]] = "heap"]]
        : v \in {i \in Live : IsDropIndex(i)}}

\* message_queue_add_front()'s loop and store.
StoreFront(slots, n, m) ==
  [i \in Slots |-> IF i = 0 THEN m
                   ELSE IF i <= n THEN slots[i - 1] ELSE slots[i]]

\* Mutant: the last entry is cleared without shifting the others down.
HeadTakenUnshifted == [messages EXCEPT ![count - 1] = NoMsg]

\* take_head(): the slots after the shift and the clearing of the last entry.
HeadTaken ==
  [i \in Slots |-> IF i < count - 1 THEN messages[i + 1]
                   ELSE IF i = count - 1 THEN NoMsg ELSE messages[i]]

TakeHead ==
  /\ messages' = HeadTaken
  /\ count' = count - 1
  /\ own' = [own EXCEPT ![messages[0]] = "reader"]

\* The slots after message_queue_cleanup()'s loop.
Purged == [i \in Slots |-> IF i \in Live THEN NoMsg ELSE messages[i]]

-----------------------------------------------------------------------------
\* message_queue_init_with_config() on a zeroed or torn-down queue.
InitWithConfig ==
  /\ ~mutex
  /\ mutex' = TRUE
  /\ rejectNew' \in BOOLEAN
  /\ messages' = [i \in Slots |-> NoMsg]
  /\ count' = 0
  /\ wake' = FALSE
  /\ UNCHANGED <<target, rd, forever, own>>

\* message_queue_cleanup(), which is also what a repeated init does.
Cleanup ==
  /\ mutex
  /\ messages' = Purged
  /\ count' = 0
  /\ own' = [m \in Msgs |-> IF \E i \in Live : messages[i] = m THEN "heap"
                            ELSE own[m]]
  /\ UNCHANGED <<target, rejectNew, mutex, wake, rd, forever>>

\* message_queue_deinit(): "only for final teardown of the owner, with nobody
\* waiting on the queue".
Deinit ==
  /\ mutex
  /\ \A r \in Readers : rd[r] = "idle"
  /\ mutex' = FALSE
  /\ messages' = [i \in Slots |-> NoMsg]
  /\ count' = 0
  /\ own' = [m \in Msgs |-> IF \E i \in Live : messages[i] = m THEN "heap"
                            ELSE own[m]]
  /\ wake' = FALSE
  /\ UNCHANGED <<target, rejectNew, rd, forever>>

\* message_queue_add() of a buffer the caller allocated.  A refused buffer
\* stays with the caller, who frees it.
Add(m) ==
  /\ mutex
  /\ own[m] = "heap"
  /\ \E room \in MakeRoom :
       /\ messages' = [room.slots EXCEPT ![room.n] = m]
       /\ count' = room.n + 1
       /\ own' = [room.own EXCEPT ![m] = "queue"]
  /\ SyncSignal(rd)
  /\ UNCHANGED <<target, rejectNew, mutex, forever>>

\* message_queue_add_front() of a message that was taken and could not be sent.
AddFront(m) ==
  /\ mutex
  /\ own[m] = "reader"
  /\ \E room \in MakeRoom :
       /\ messages' = StoreFront(room.slots, room.n, m)
       /\ count' = room.n + 1
       /\ own' = [room.own EXCEPT ![m] = "queue"]
  /\ SyncSignal(rd)
  /\ UNCHANGED <<target, rejectNew, mutex, forever>>

\* The owner of a taken message frees it.
FreeTaken(m) ==
  /\ own[m] = "reader"
  /\ own' = [own EXCEPT ![m] = "heap"]
  /\ UNCHANGED <<target, rejectNew, mutex, messages, count, wake, rd, forever>>

\* message_queue_get_next(): no wait, and no wake-up of other readers.
GetNext ==
  /\ mutex
  /\ count > 0
  /\ TakeHead
  /\ UNCHANGED <<target, rejectNew, mutex, wake, rd, forever>>

\* Mutant: the reader does not wake another one when messages are left.
TakeAndKeepQuiet(r) ==
  /\ TakeHead
  /\ rd' = [rd EXCEPT ![r] = "idle"]
  /\ UNCHANGED <<target, rejectNew, mutex, wake, forever>>

\* The end of message_queue_get_next_wait() when there is a message.
TakeAndPassOn(r) ==
  /\ TakeHead
  /\ IF count - 1 > 0 THEN SyncSignal([rd EXCEPT ![r] = "idle"])
     ELSE rd' = [rd EXCEPT ![r] = "idle"] /\ UNCHANGED wake
  /\ UNCHANGED <<target, rejectNew, mutex, forever>>

\* message_queue_get_next_wait() up to its first release of the lock.
GetNextWait(r, f) ==
  /\ mutex
  /\ rd[r] = "idle"
  /\ \/ count > 0 /\ TakeAndPassOn(r)
     \/ /\ count = 0
        /\ rd' = [rd EXCEPT ![r] = "waiting"]
        /\ forever' = [forever EXCEPT ![r] = f]
        /\ UNCHANGED <<target, rejectNew, mutex, messages, count, wake, own>>

\* xSemaphoreTake() gets the semaphore.
SemaphoreTake(r) ==
  /\ target = "chip"
  /\ rd[r] = "waiting"
  /\ wake
  /\ wake' = FALSE
  /\ rd' = [rd EXCEPT ![r] = "woken"]
  /\ UNCHANGED <<target, rejectNew, mutex, messages, count, forever, own>>

\* pthread_cond_wait() may return without a signal.
SpuriousWakeup(r) ==
  /\ target = "linux"
  /\ rd[r] = "waiting"
  /\ rd' = [rd EXCEPT ![r] = "woken"]
  /\ UNCHANGED <<target, rejectNew, mutex, messages, count, wake, forever, own>>

\* The timed wait is over: ETIMEDOUT, or the take of the semaphore fails.
WaitExpires(r) ==
  /\ rd[r] = "waiting"
  /\ ~forever[r]
  /\ rd' = [rd EXCEPT ![r] = "expired"]
  /\ UNCHANGED <<target, rejectNew, mutex, messages, count, wake, forever, own>>

\* The lock is held again: take a message, wait again, or return ESP_ERR_TIMEOUT.
\* On the chips a woken reader finds out itself whether its ticks are used up.
Recheck(r) ==
  /\ rd[r] \in {"woken", "expired"}
  /\ \/ count > 0 /\ TakeAndPassOn(r)
     \/ /\ count = 0
        /\ \/ /\ rd[r] = "woken"
              /\ rd' = [rd EXCEPT ![r] = "waiting"]
           \/ /\ \/ rd[r] = "expired"
                 \/ target = "chip" /\ ~forever[r]
              /\ rd' = [rd EXCEPT ![r] = "idle"]
        /\ UNCHANGED <<target, rejectNew, mutex, messages, count, wake, forever, own>>

Next ==
  \/ InitWithConfig
  \/ Cleanup
  \/ Deinit
  \/ \E m \in Msgs : Add(m) \/ AddFront(m) \/ FreeTaken(m)
  \/ GetNext
  \/ \E r \in Readers : \/ \E f \in BOOLEAN : GetNextWait(r, f)
                        \/ SemaphoreTake(r) \/ SpuriousWakeup(r)
                        \/ WaitExpires(r) \/ Recheck(r)

Spec == Init /\ [][Next]_vars

\* The scheduler runs a reader that can run, and a given semaphore wakes one of
\* the tasks blocked on it.  Nothing obliges callers to call.
FairSpec ==
  /\ Spec
  /\ WF_vars(\E r \in Readers : SemaphoreTake(r))
  /\ \A r \in Readers : WF_vars(Recheck(r))

-----------------------------------------------------------------------------
\* Exactly the live slots are owned by the queue and no buffer is in two of
\* them, so nothing queued is freed twice, leaked, or used after the reader that
\* got it freed it (the shifts of make_room(), add_front() and take_head()).
QueueOwnsLive ==
  /\ \A i \in Live : messages[i] \in Msgs /\ own[messages[i]] = "queue"
  /\ \A i, j \in Live : messages[i] = messages[j] => i = j
  /\ \A m \in Msgs : own[m] = "queue" => \E i \in Live : messages[i] = m

\* A message never sits in the queue while a reader sleeps with no wake-up under
\* way: the semaphore is given, or another reader is awake and will pass it on.
NoLostWakeup ==
  (count > 0 /\ \E r \in Readers : rd[r] = "waiting")
    => \/ target = "chip" /\ wake
       \/ \E r \in Readers : rd[r] \in {"woken", "expired"}

\* An offer or answer is discarded to make room only when no ICE candidate is
\* queued, and never by a queue that refuses new messages (drop_index()).
OnlyDroppableShed ==
  [][\A m \in Msgs \ DroppableMsgs :
       (own[m] = "queue" /\ own'[m] = "heap" /\ count' > 0)
         => /\ ~rejectNew
            /\ \A i \in Live : messages[i] \notin DroppableMsgs]_vars

\* While a reader is inside message_queue_get_next_wait(), the head message does
\* not stay at the head for ever: the reader cannot be left asleep.
HeadServed ==
  \A m \in Msgs :
    (count > 0 /\ messages[0] = m /\ \E r \in Readers : rd[r] # "idle")
      ~> ~(count > 0 /\ messages[0] = m)

\* The slot array with its count is the bounded FIFO the header promises.
Fifo == INSTANCE BoundedFifo
          WITH fifo <- [i \in 1..count |-> messages[i - 1]],
               taken <- {m \in Msgs : own[m] = "reader"}

\* Every step of the array maps to a step of the FIFO or leaves it alone.
ImplementsFifo == Fifo!Spec
=============================================================================
