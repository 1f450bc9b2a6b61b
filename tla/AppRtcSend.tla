---------------------------- MODULE AppRtcSend ------------------------------
(***************************************************************************)
(* Outgoing messages of the AppRTC signaling client, apprtc_signaling.c    *)
(* and apprtc_send_order.c: a message goes out directly when nothing could *)
(* be overtaken, and otherwise waits in the outgoing queue for a drain on  *)
(* the work queue.  Senders run on any task and take no lock; the queue    *)
(* itself is MessageQueue's.                                               *)
(***************************************************************************)
EXTENDS Naturals, Sequences, FiniteSets, SequencesExt

CONSTANTS Senders,      \* tasks that send
          SendScript,       \* the messages of each sender, in order
          MustDeliver,  \* offers and answers
          MaxLinks,     \* bound: times the link comes up
          MaxSendFails  \* bound: sends that fail on a link that is up

Messages == UNION {Range(SendScript[s]) : s \in Senders}
ASSUME AsScript == /\ DOMAIN SendScript = Senders /\ MustDeliver \subseteq Messages
                   /\ \A s \in Senders : SendScript[s] \in Seq(Messages)
                   /\ MaxLinks \in Nat /\ MaxSendFails \in Nat

\* A message is sent once, by one task.
ASSUME AsDistinct ==
  /\ "none" \notin Messages
  /\ \A s, t \in Senders : \A i \in DOMAIN SendScript[s], j \in DOMAIN SendScript[t] :
       SendScript[s][i] = SendScript[t][j] => s = t /\ i = j

VARIABLES conn,         \* apprtc_client.state is CONNECTED
          linkUp,       \* esp_websocket_client_is_connected()
          outq,         \* apprtc_client.message_queue
          inFlight,     \* s_send_order.in_flight
          scheduled,    \* s_drain_scheduled
          work,         \* the work queue: link events and drains
          drain,        \* where the work queue task is, and the message it holds
          sender,       \* where each sender is in send_webrtc_message()
          taken,        \* messages of each sender taken up so far
          putBack,      \* messages handed back after a failed send
          overtaken,    \* messages a later one went out ahead of
          links, sendFails

sendVars == <<sender, taken>>
histVars == <<putBack, overtaken>>
asVars == <<conn, linkUp, outq, inFlight, scheduled, work, drain, sendVars, histVars, links, sendFails>>

None == "none"
Idle == [pc |-> "idle", msg |-> None, retried |-> FALSE]
Away == [pc |-> "idle", msg |-> None, behind |-> FALSE, ahead |-> {}]
Connected == conn /\ linkUp

\* Messages accepted and not yet out: queued, or held by the drain.
Waiting == Range(outq) \cup ({drain.msg} \ {None})

-----------------------------------------------------------------------------
(***************************************************************************)
(* send_webrtc_message() on a sender's task, one step per read or write of *)
(* shared state.                                                           *)
(***************************************************************************)

At(s, pc) == sender[s].pc = pc
Goto(s, pc) == sender' = [sender EXCEPT ![s].pc = pc]
Done(s) == sender' = [sender EXCEPT ![s] = Away]

SendBegins(s) ==
  /\ At(s, "idle") /\ taken[s] < Len(SendScript[s])
  /\ taken' = [taken EXCEPT ![s] = @ + 1]
  /\ sender' = [sender EXCEPT ![s] = [pc |-> IF Connected THEN "count" ELSE "queue",
                                      msg |-> SendScript[s][taken[s] + 1], behind |-> FALSE, ahead |-> Waiting]]
  /\ UNCHANGED <<conn, linkUp, outq, inFlight, scheduled, work, drain, histVars, links, sendFails>>

\* apprtc_send_order_decide() reads the count, then the flag.
SendReadsCount(s) ==
  /\ At(s, "count")
  /\ IF outq # <<>> THEN sender' = [sender EXCEPT ![s].pc = "queue", ![s].behind = TRUE] ELSE Goto(s, "flag")
  /\ UNCHANGED <<conn, linkUp, outq, inFlight, scheduled, work, drain, taken, histVars, links, sendFails>>

SendIgnoresFlag(s) ==
  /\ At(s, "flag") /\ Goto(s, "send")
  /\ UNCHANGED <<conn, linkUp, outq, inFlight, scheduled, work, drain, taken, histVars, links, sendFails>>
SendReadsFlag(s) ==
  /\ At(s, "flag")
  /\ IF inFlight THEN sender' = [sender EXCEPT ![s].pc = "queue", ![s].behind = TRUE] ELSE Goto(s, "send")
  /\ UNCHANGED <<conn, linkUp, outq, inFlight, scheduled, work, drain, taken, histVars, links, sendFails>>

\* apprtc_signaling_send_message(): the link may have gone down, or the send may fail.
SendDirect(s) ==
  /\ At(s, "send") /\ Done(s)
  /\ \/ /\ Connected
        /\ overtaken' = overtaken \cup (sender[s].ahead \cap Waiting)
        /\ UNCHANGED <<conn, sendFails>>
     \/ /\ Connected /\ sendFails < MaxSendFails /\ sendFails' = sendFails + 1
        /\ UNCHANGED <<conn, overtaken>>
     \/ /\ ~Connected /\ conn' = FALSE
        /\ UNCHANGED <<overtaken, sendFails>>
  /\ UNCHANGED <<linkUp, outq, inFlight, scheduled, work, drain, taken, putBack, links>>

SendQueues(s) ==
  /\ At(s, "queue") /\ Goto(s, "schedule")
  /\ outq' = Append(outq, sender[s].msg)
  /\ UNCHANGED <<conn, linkUp, inFlight, scheduled, work, drain, taken, histVars, links, sendFails>>

\* A drain is scheduled only behind a queue.
ScheduleBehindOnly(s) ==
  /\ At(s, "schedule") /\ Done(s)
  /\ IF sender[s].behind /\ ~scheduled THEN scheduled' = TRUE /\ work' = Append(work, "drain")
     ELSE UNCHANGED <<scheduled, work>>
  /\ UNCHANGED <<conn, linkUp, outq, inFlight, drain, taken, histVars, links, sendFails>>

\* schedule_drain(): one drain is on the work queue at a time.
SendSchedules(s) ==
  /\ At(s, "schedule") /\ Done(s)
  /\ IF (sender[s].behind \/ conn) /\ ~scheduled THEN scheduled' = TRUE /\ work' = Append(work, "drain")
     ELSE UNCHANGED <<scheduled, work>>
  /\ UNCHANGED <<conn, linkUp, outq, inFlight, drain, taken, histVars, links, sendFails>>

-----------------------------------------------------------------------------
(***************************************************************************)
(* The link, seen from here: it comes up, goes down, or is left with       *)
(* apprtc_signaling_disconnect(), which empties the queue.                 *)
(***************************************************************************)

LinkComesUp ==
  /\ ~linkUp /\ links < MaxLinks /\ links' = links + 1
  /\ linkUp' = TRUE /\ work' = Append(work, "CONNECTED")
  /\ UNCHANGED <<conn, outq, inFlight, scheduled, drain, sendVars, histVars, sendFails>>

LinkGoesDown ==
  /\ linkUp /\ linkUp' = FALSE /\ work' = Append(work, "DISCONNECTED")
  /\ UNCHANGED <<conn, outq, inFlight, scheduled, drain, sendVars, histVars, links, sendFails>>

Leave ==
  /\ conn /\ conn' = FALSE /\ linkUp' = FALSE /\ outq' = <<>>
  /\ work' = IF "drain" \in Range(work) THEN <<"drain">> ELSE <<>>    \* the client's events are stale now
  /\ UNCHANGED <<inFlight, scheduled, drain, sendVars, histVars, links, sendFails>>

-----------------------------------------------------------------------------
(***************************************************************************)
(* The work queue: ws_event_work_handler() and drain_queue_work(), both of *)
(* which run apprtc_send_order_drain().                                    *)
(***************************************************************************)

WorkEvent ==
  /\ drain.pc = "idle" /\ work # <<>> /\ Head(work) # "drain"
  /\ work' = Tail(work)
  /\ conn' = (Head(work) = "CONNECTED" /\ linkUp)
  /\ drain' = IF Head(work) = "CONNECTED" /\ linkUp /\ outq # <<>> THEN [Idle EXCEPT !.pc = "process"] ELSE Idle
  /\ UNCHANGED <<linkUp, outq, inFlight, scheduled, sendVars, histVars, links, sendFails>>

WorkDrain ==
  /\ drain.pc = "idle" /\ work # <<>> /\ Head(work) = "drain"
  /\ work' = Tail(work) /\ scheduled' = FALSE
  /\ drain' = [Idle EXCEPT !.pc = "process"]
  /\ UNCHANGED <<conn, linkUp, outq, inFlight, sendVars, histVars, links, sendFails>>

\* apprtc_signaling_process_queued_messages(), then the head of the loop.
DrainBegins ==
  /\ drain.pc = "process"
  /\ drain' = IF Connected THEN [drain EXCEPT !.pc = "loop"] ELSE Idle
  /\ UNCHANGED <<conn, linkUp, outq, inFlight, scheduled, work, sendVars, histVars, links, sendFails>>

\* The flag goes up with the pop, not before it.
DrainMarksLate ==
  /\ drain.pc = "loop"
  /\ IF outq = <<>> THEN drain' = Idle /\ UNCHANGED <<inFlight, outq>>
     ELSE drain' = [drain EXCEPT !.pc = "pop"] /\ UNCHANGED <<inFlight, outq>>
  /\ UNCHANGED <<conn, linkUp, scheduled, work, sendVars, histVars, links, sendFails>>
DrainMarks ==
  /\ drain.pc = "loop"
  /\ IF outq = <<>> THEN drain' = Idle /\ UNCHANGED inFlight
     ELSE drain' = [drain EXCEPT !.pc = "pop"] /\ inFlight' = TRUE
  /\ UNCHANGED <<conn, linkUp, outq, scheduled, work, sendVars, histVars, links, sendFails>>

DrainPops ==
  /\ drain.pc = "pop"
  /\ IF outq = <<>> THEN drain' = Idle /\ inFlight' = FALSE /\ UNCHANGED outq
     ELSE drain' = [drain EXCEPT !.pc = "send", !.msg = Head(outq)] /\ outq' = Tail(outq) /\ UNCHANGED inFlight
  /\ UNCHANGED <<conn, linkUp, scheduled, work, sendVars, histVars, links, sendFails>>

DrainSends ==
  /\ drain.pc = "send" /\ Connected
  /\ drain' = [pc |-> "sent", msg |-> None, retried |-> FALSE]
  /\ UNCHANGED <<conn, linkUp, outq, inFlight, scheduled, work, sendVars, putBack, overtaken, links, sendFails>>

\* The message goes back to the end of the queue.
HandToEnd(pc, retried) ==
  /\ outq' = Append(outq, drain.msg) /\ UNCHANGED putBack
  /\ drain' = [pc |-> pc, msg |-> None, retried |-> retried]

\* The message goes back to the front; an offer or answer is tried once more.
HandBack(pc, retried) ==
  /\ outq' = <<drain.msg>> \o outq /\ putBack' = putBack \cup {drain.msg}
  /\ drain' = [pc |-> pc, msg |-> None, retried |-> retried]

DrainNotConnected ==
  /\ drain.pc = "send" /\ ~Connected
  /\ HandBack("stop", FALSE)
  /\ UNCHANGED <<conn, linkUp, inFlight, scheduled, work, sendVars, overtaken, links, sendFails>>

DrainFails ==
  /\ drain.pc = "send" /\ Connected /\ sendFails < MaxSendFails /\ sendFails' = sendFails + 1
  /\ IF ~drain.retried /\ drain.msg \in MustDeliver THEN HandBack("sent", TRUE)
     ELSE drain' = [pc |-> "sent", msg |-> None, retried |-> FALSE] /\ UNCHANGED <<outq, putBack>>
  /\ UNCHANGED <<conn, linkUp, inFlight, scheduled, work, sendVars, overtaken, links>>

\* The flag is cleared after the message is out, dropped or back.
DrainClears ==
  /\ drain.pc \in {"sent", "stop"}
  /\ inFlight' = FALSE
  /\ drain' = IF drain.pc = "stop" THEN Idle ELSE [drain EXCEPT !.pc = "loop"]
  /\ UNCHANGED <<conn, linkUp, outq, scheduled, work, sendVars, histVars, links, sendFails>>

-----------------------------------------------------------------------------
AsInit ==
  /\ conn = FALSE /\ linkUp = FALSE /\ outq = <<>> /\ inFlight = FALSE /\ scheduled = FALSE
  /\ work = <<>> /\ drain = Idle /\ sender = [s \in Senders |-> Away] /\ taken = [s \in Senders |-> 0]
  /\ putBack = {} /\ overtaken = {} /\ links = 0 /\ sendFails = 0

Sending(s) == SendReadsCount(s) \/ SendReadsFlag(s) \/ SendDirect(s) \/ SendQueues(s) \/ SendSchedules(s)
Draining == \/ WorkEvent \/ WorkDrain \/ DrainBegins \/ DrainMarks \/ DrainPops \/ DrainSends
            \/ DrainNotConnected \/ DrainFails \/ DrainClears
AsNext == \/ \E s \in Senders : SendBegins(s) \/ Sending(s)
          \/ LinkComesUp \/ LinkGoesDown \/ Leave \/ Draining

\* Tasks that are inside a call, and the work queue, go on.
AsFairness == (\A s \in Senders : WF_asVars(Sending(s))) /\ WF_asVars(Draining)
AsSpec == AsInit /\ [][AsNext]_asVars /\ AsFairness

-----------------------------------------------------------------------------
AsTypeOK ==
  /\ outq \in Seq(Messages) /\ drain.msg \in Messages \cup {None} /\ Range(work) \subseteq {"CONNECTED", "DISCONNECTED", "drain"}
  /\ \A s \in Senders : sender[s].pc \in {"idle", "count", "flag", "send", "queue", "schedule"}
  /\ Len(SelectSeq(work, LAMBDA j : j = "drain")) <= 1
  /\ drain.pc \in {"send", "sent", "stop"} => inFlight

\* A message goes out ahead of one that was accepted before its call began only when the send of
\* the earlier one had failed and handed it back (apprtc_send_order.c:28).
OvertakenOnlyAfterFailure == overtaken \subseteq putBack

\* A sender may send directly only when it cannot overtake anything (apprtc_send_order.h).
NoOvertake == overtaken = {}

\* The message that is handed back is the next to go out: two messages of the queue never change places.
QueueKeepsOrder ==
  \A s \in Senders : \A i, j \in 1..Len(SendScript[s]) : i < j =>
     \A k, l \in 1..Len(outq) : outq[k] = SendScript[s][j] /\ outq[l] = SendScript[s][i] => l < k

\* While connected, a queued message has a drain to come: the connect drains what came before
\* it, and whoever queues afterwards schedules one (apprtc_signaling.c:1526), also when the
\* drain found the queue empty just before.
DrainToCome ==
  outq # <<>> /\ Connected => drain.pc # "idle" \/ work # <<>> \/ \E s \in Senders : At(s, "schedule")

\* Messages leave in the order they were accepted, but for one a failed send handed back, and
\* none is left behind in the queue.
SendOrderKept == OvertakenOnlyAfterFailure /\ QueueKeepsOrder /\ DrainToCome
=============================================================================
