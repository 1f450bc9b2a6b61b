---------------------------- MODULE BoundedFifo ----------------------------
(***************************************************************************)
(* What message_queue.h promises of a queue, whatever its slots, lock and  *)
(* wake-up are: a bounded FIFO of buffers that it owns.  A full queue      *)
(* either refuses the new buffer or discards exactly one: the oldest       *)
(* droppable one, and the oldest one only when none is droppable.          *)
(***************************************************************************)
EXTENDS Naturals, Sequences

CONSTANTS Msgs,          \* the buffers that may be queued
          DroppableMsgs, \* those the owner's droppable() callback accepts
          Depth          \* most buffers held at once

VARIABLES fifo,          \* the queued buffers, oldest first
          taken,         \* the buffers handed to readers and not freed yet
          rejectNew      \* the full queue refuses, rather than discards

fvars == <<fifo, taken, rejectNew>>

Queued == {fifo[i] : i \in 1..Len(fifo)}

\* q without its i-th element.
Without(q, i) == [j \in 1..(Len(q) - 1) |-> IF j < i THEN q[j] ELSE q[j + 1]]

\* The element a full queue may give up.
IsVictim(q, i) ==
  \/ /\ q[i] \in DroppableMsgs
     /\ \A j \in 1..(i - 1) : q[j] \notin DroppableMsgs
  \/ /\ i = 1
     /\ \A j \in 1..Len(q) : q[j] \notin DroppableMsgs

\* What the queue holds once there is room for one more buffer.
Roomy(q) ==
  IF Len(q) < Depth THEN {q}
  ELSE IF rejectNew THEN {}
  ELSE {Without(q, i) : i \in {k \in 1..Len(q) : IsVictim(q, k)}}

Init == fifo = << >> /\ taken = {} /\ rejectNew = FALSE

\* A fresh buffer goes in at the back.
PushBack ==
  \E m \in Msgs \ (Queued \cup taken) : \E q \in Roomy(fifo) :
    fifo' = Append(q, m) /\ UNCHANGED <<taken, rejectNew>>

\* One that was handed out and could not be sent goes back to the front.
PushFront ==
  \E m \in taken : \E q \in Roomy(fifo) :
    fifo' = <<m>> \o q /\ taken' = taken \ {m} /\ UNCHANGED rejectNew

Pop ==
  /\ fifo # << >>
  /\ fifo' = Tail(fifo)
  /\ taken' = taken \cup {Head(fifo)}
  /\ UNCHANGED rejectNew

Release == \E m \in taken : taken' = taken \ {m} /\ UNCHANGED <<fifo, rejectNew>>

Purge == fifo' = << >> /\ UNCHANGED <<taken, rejectNew>>

\* Only an empty queue is set up, and the policy stays until the next time.
Configure == fifo = << >> /\ rejectNew' \in BOOLEAN /\ UNCHANGED <<fifo, taken>>

Next == PushBack \/ PushFront \/ Pop \/ Release \/ Purge \/ Configure

Spec == Init /\ [][Next]_fvars
=============================================================================
