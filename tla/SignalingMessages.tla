------------------------- MODULE SignalingMessages -------------------------
(***************************************************************************)
(* components/signaling/kvs_signaling: the messages of one signaling client*)
(* on their way out and in.  signalingSendMessageSync() keeps a list of the*)
(* messages being sent, under the recursive messageQueueLock, and refuses a*)
(* message it finds there.  The tasks of the application send while they   *)
(* hold signalingSendMessageLock (kvs_signaling.c:1257), the flush of the  *)
(* re-send buffer on the work queue's worker sends without it (:580), and  *)
(* the same worker handles the received messages.  A refused message with  *)
(* the link up is not buffered: it is lost for its peer.                   *)
(*                                                                         *)
(* A message is its type, peer and correlation id; an answer has an id of  *)
(* its own, a candidate has none.  A received message is the sequence of   *)
(* its JSON fields, each fit for its buffer or too long.                   *)
(***************************************************************************)
EXTENDS Naturals, Sequences, FiniteSets, SequencesExt

CONSTANTS SmSenders,  \* tasks of the application that send
          SmPeers,
          SmFlusher,  \* the work queue's worker
          IceSlots,   \* MAX_ICE_CONFIG_COUNT
          SmMaxSends, \* bound: messages sent
          SmMaxRecv   \* bound: messages received

ASSUME SmAssumption ==
  /\ SmFlusher \notin SmSenders
  /\ {SmMaxSends, SmMaxRecv, IceSlots} \subseteq Nat

VARIABLES ongoing,   \* pMessageQueue: the tasks whose message is on it, oldest first
          smTask,    \* each task: where it is, its message, the status it got
          smLock,    \* the holder of signalingSendMessageLock, or "free"
          smLink,    \* the websocket is up
          iceList,   \* iceConfigs[0 .. iceConfigCount)
          offerTime, \* offerReceivedTime is set and no answer was sent since
          smCount,   \* numberOfMessagesSent and Received, and messages given out
          smServed   \* history: what became of each task's last message

smVars == <<ongoing, smTask, smLock, smLink, iceList, offerTime, smCount, smServed>>

SmTasks == SmSenders \cup {SmFlusher}
SmIdle  == [pc |-> "idle", msg |-> <<>>, status |-> "ok"]
OutMessages == {<<"answer", p, n>> : p \in SmPeers, n \in 1..SmMaxSends}
                 \cup {<<"ice", p, 0>> : p \in SmPeers}
MsgPeer(m) == m[2]
MsgId(m)   == m[3]   \* correlationId, 0 for the empty one

SmInit ==
  /\ ongoing = <<>> /\ smTask = [t \in SmTasks |-> SmIdle] /\ smLock = "free"
  /\ smLink = TRUE /\ iceList = <<>> /\ offerTime = FALSE
  /\ smCount = [given |-> 0, sent |-> 0, received |-> 0]
  /\ smServed = [t \in SmTasks |-> "none"]

-----------------------------------------------------------------------------
(***************************************************************************)
(* The list of the messages being sent.                                    *)
(***************************************************************************)
MessageOf(t) == smTask[t].msg

\* the entries signalingGetOngoingMessage() takes for the message
Matching(m) ==
  {i \in DOMAIN ongoing : /\ MsgId(MessageOf(ongoing[i])) = MsgId(m)
                          /\ MsgPeer(MessageOf(ongoing[i])) = MsgPeer(m)}

\* signalingGetOngoingMessage(): what it hands out is the entry that matched and,
\* when none did, the last one it looked at: NULL only for an empty list
GetOngoingMessage(m) == IF ongoing = <<>> THEN "null" ELSE "found"

\* the status signalingStoreOngoingMessage() returns
StoreOngoingMessage(m) == IF GetOngoingMessage(m) = "null" THEN "ok" ELSE "duplicate"

\* signalingRemoveOngoingMessage(): the first entry with the correlation id, whoever's
RemoveOngoingMessage(m) ==
  LET hit == {i \in DOMAIN ongoing : MsgId(MessageOf(ongoing[i])) = MsgId(m)}
  IN IF hit = {} THEN ongoing
     ELSE RemoveAt(ongoing, CHOOSE i \in hit : \A j \in hit : i <= j)

-----------------------------------------------------------------------------
(***************************************************************************)
(* signalingSendMessageSync(), called by a task.                           *)
(***************************************************************************)
AtTask(t, pc) == smTask[t].pc = pc

\* kvsSignalingSendMessage() with the lock, kvsResendPendingMessage() without
SendBegins(t, m) ==
  /\ AtTask(t, "idle") /\ smCount.given < SmMaxSends
  /\ MsgId(m) \in {0, smCount.given + 1}
  /\ t = SmFlusher \/ smLock = "free"
  /\ smLock' = IF t = SmFlusher THEN smLock ELSE t
  /\ smTask' = [smTask EXCEPT ![t] = [pc |-> "store", msg |-> m, status |-> "ok"]]
  /\ smCount' = [smCount EXCEPT !.given = @ + 1]
  /\ UNCHANGED <<ongoing, smLink, iceList, offerTime, smServed>>

SendStores(t) ==
  /\ AtTask(t, "store")
  /\ LET s == StoreOngoingMessage(MessageOf(t))
     IN /\ smTask' = [smTask EXCEPT ![t].pc = IF s = "ok" THEN "send" ELSE "end", ![t].status = s]
        /\ ongoing' = IF s = "ok" THEN Append(ongoing, t) ELSE ongoing
  /\ UNCHANGED <<smLock, smLink, iceList, offerTime, smCount, smServed>>

\* sendEspSignalingMessage(), then the times and the count of a message that went out
SendTransmits(t) ==
  /\ AtTask(t, "send")
  /\ smTask' = [smTask EXCEPT ![t].pc = "remove", ![t].status = IF smLink THEN "ok" ELSE "down"]
  /\ smCount' = IF smLink THEN [smCount EXCEPT !.sent = @ + 1] ELSE smCount
  /\ offerTime' = (offerTime /\ ~(smLink /\ MessageOf(t)[1] = "answer"))
  /\ UNCHANGED <<ongoing, smLock, smLink, iceList, smServed>>

\* the message taken off the list only when it went out
SendRemovesSent(t) ==
  /\ AtTask(t, "remove")
  /\ ongoing' = IF smTask[t].status = "ok" THEN RemoveOngoingMessage(MessageOf(t)) ELSE ongoing
  /\ smTask' = [smTask EXCEPT ![t].pc = "end"]
  /\ UNCHANGED <<smLock, smLink, iceList, offerTime, smCount, smServed>>

SendRemoves(t) ==
  /\ AtTask(t, "remove")
  /\ ongoing' = RemoveOngoingMessage(MessageOf(t))
  /\ smTask' = [smTask EXCEPT ![t].pc = "end"]
  /\ UNCHANGED <<smLock, smLink, iceList, offerTime, smCount, smServed>>

\* the caller: a failed send is buffered when the link is down and lost when it is up
\* (kvs_signaling.c:1295); the flush keeps what failed in any case (:510)
SendEnds(t) ==
  /\ AtTask(t, "end")
  /\ smServed' = [smServed EXCEPT ![t] =
                    IF smTask[t].status = "ok" THEN "sent"
                    ELSE IF t = SmFlusher \/ ~smLink THEN "kept"
                    ELSE smTask[t].status]
  /\ smTask' = [smTask EXCEPT ![t] = SmIdle]
  /\ smLock' = IF smLock = t THEN "free" ELSE smLock
  /\ UNCHANGED <<ongoing, smLink, iceList, offerTime, smCount>>

LinkChanges ==
  /\ smLink' = ~smLink
  /\ UNCHANGED <<ongoing, smTask, smLock, iceList, offerTime, smCount, smServed>>

-----------------------------------------------------------------------------
(***************************************************************************)
(* handleReceivedSignalingMessage(): the fields of a message one after the *)
(* other.  What the parser knows: the type, whether the status response or *)
(* the server list was met, and the list so far; a field that does not fit *)
(* ends it with an error.                                                  *)
(***************************************************************************)
\* getMessageTypeFromString(): the type a name stands for
GetMessageTypeFromString(n) ==
  IF n \in {"offer", "answer", "ice", "goaway", "reconnect", "status"} THEN n ELSE "unknown"

\* a field's value fits its buffer: senderClientId is skipped when it does not
Fits_(f) == f.fits \/ f.key = "senderClientId"

\* what one field does to the parser's state p; servers replace the client's list as
\* soon as the list begins, whatever comes after
ParseField(p, f) ==
  IF p.failed THEN p
  ELSE IF f.key \in {"messageType", "messagePayload", "senderClientId"}
       THEN IF Fits_(f)
            THEN IF f.key = "messageType" THEN [p EXCEPT !.type = GetMessageTypeFromString(f.val)]
                 ELSE IF f.key = "messagePayload" THEN [p EXCEPT !.payload = f.val] ELSE p
            ELSE [p EXCEPT !.failed = TRUE]
  ELSE IF f.key = "statusResponse" THEN [p EXCEPT !.response = TRUE]
  ELSE IF f.key \in {"correlationId", "errorType", "statusCode", "description"}
       THEN [p EXCEPT !.failed = p.response /\ ~f.fits]
  ELSE IF f.key = "IceServerList" /\ p.type = "offer" /\ ~p.inList
       THEN IF f.val <= IceSlots THEN [p EXCEPT !.inList = TRUE, !.ice = <<>>]
            ELSE [p EXCEPT !.failed = TRUE]
  ELSE IF f.key = "server" /\ p.inList
       THEN IF f.fits THEN [p EXCEPT !.ice = Append(@, f.val)]
            ELSE [p EXCEPT !.ice = Append(@, "partial"), !.failed = TRUE]
  ELSE p

ParseMessage(fields) ==
  FoldLeft(ParseField, [type |-> "unknown", payload |-> "none", response |-> FALSE, inList |-> FALSE,
                        ice |-> iceList, failed |-> FALSE], fields)

\* the type an unknown message is given by its text (1075)
GuessType(p) == IF p.type # "unknown" THEN p.type ELSE GetMessageTypeFromString(p.payload)

Field(k, v, fits) == [key |-> k, val |-> v, fits |-> fits]

\* the messages of the service: an offer with and without servers, one that does not fit
\* halfway, one without a type, a status response
InMessages ==
  {<<Field("messageType", "offer", TRUE), Field("messagePayload", "offer", TRUE)>>,
   <<Field("messageType", "offer", TRUE), Field("IceServerList", 2, TRUE),
     Field("server", "turn", TRUE), Field("server", "stun", TRUE)>>,
   <<Field("messageType", "offer", TRUE), Field("IceServerList", 2, TRUE),
     Field("server", "turn", TRUE), Field("server", "stun", FALSE)>>,
   <<Field("IceServerList", 1, TRUE), Field("messagePayload", "ice", TRUE)>>,
   <<Field("messageType", "status", TRUE), Field("statusResponse", "none", TRUE),
     Field("correlationId", "none", FALSE)>>}

\* on the worker, which runs no flush then; the shutdown flag is WebSocketLink's
ReceivedMessage(fields) ==
  /\ AtTask(SmFlusher, "idle") /\ smCount.received < SmMaxRecv
  /\ LET p == ParseMessage(fields)
     IN /\ iceList' = p.ice
        /\ offerTime' = (offerTime \/ (~p.failed /\ GuessType(p) = "offer"))
  /\ smCount' = [smCount EXCEPT !.received = @ + 1]
  /\ UNCHANGED <<ongoing, smTask, smLock, smLink, smServed>>

SmNext ==
  \/ \E t \in SmTasks : \/ \E m \in OutMessages : SendBegins(t, m)
                        \/ SendStores(t) \/ SendTransmits(t) \/ SendRemoves(t) \/ SendEnds(t)
  \/ LinkChanges
  \/ \E f \in InMessages : ReceivedMessage(f)

SmSpec == SmInit /\ [][SmNext]_smVars

-----------------------------------------------------------------------------
SmTypeOK ==
  /\ ongoing \in Seq(SmTasks) /\ smLock \in SmSenders \cup {"free"}
  /\ \A t \in SmTasks : smTask[t].pc \in {"idle", "store", "send", "remove", "end"}
  /\ smLink \in BOOLEAN /\ offerTime \in BOOLEAN /\ Len(iceList) <= IceSlots

\* The list holds exactly the messages whose send is under way (Signaling_esp.c:641, 663):
\* a send that ended by whatever path took its own message off, though the removal looks
\* at the correlation id alone and every candidate has the empty one.  An entry left behind
\* would be a pointer to a caller's dead message, and would refuse every later one.
OngoingExact ==
  \A t \in SmTasks : (\E i \in DOMAIN ongoing : ongoing[i] = t) <=> smTask[t].pc \in {"send", "remove"}

=============================================================================
