----------------------------- MODULE MCBridges -----------------------------
(***************************************************************************)
(* The two other ways of signaling, one protocol in each behaviour: in     *)
(* split mode "bridge", the messages and ICE servers the C6 passes to the  *)
(* P4, and "commands", their commands and events; with a room server       *)
(* "room", the connection, and "sends", the outgoing messages.             *)
(***************************************************************************)
EXTENDS Bridge, BridgeCmd, AppRtcLink, AppRtcSend

CloudScript == <<"OFFER", "ICE_CANDIDATE">>
CommandIds == {"log", "time"}
CommandRequests == <<"log">>
Chunks == [c \in CommandIds |-> IF c = "log" THEN 2 ELSE 1]
RoomSenders == {"main", "ice"}
RoomScript == [s \in RoomSenders |-> IF s = "main" THEN <<"answer">> ELSE <<"cand1", "cand2">>]

VARIABLE part

bridgesVars == <<brVars, bcVars, arVars, asVars, part>>

BridgePart(A) == part = "bridge" /\ A /\ UNCHANGED <<bcVars, arVars, asVars, part>>
CommandsPart(A) == part = "commands" /\ A /\ UNCHANGED <<brVars, arVars, asVars, part>>
RoomPart(A) == part = "room" /\ A /\ UNCHANGED <<brVars, bcVars, asVars, part>>
SendsPart(A) == part = "sends" /\ A /\ UNCHANGED <<brVars, bcVars, arVars, part>>

BridgesInit ==
  /\ BrInit /\ BcInit /\ ArInit /\ AsInit
  /\ part \in {"bridge", "commands", "room", "sends"} /\ (part # "bridge" => p4 = "asleep")

BridgesNext ==
  BridgePart(BrNext) \/ CommandsPart(BcNext) \/ RoomPart(ArNext) \/ SendsPart(AsNext)

\* BcFairness and ArFairness, of the parts whose progress is checked.
BridgesSpec ==
  /\ BridgesInit /\ [][BridgesNext]_bridgesVars
  /\ WF_bridgesVars(CommandsPart(ReceiveRequest)) /\ WF_bridgesVars(CommandsPart(BcWorker))
  /\ WF_bridgesVars(CommandsPart(BcReceive))
  /\ WF_bridgesVars(RoomPart(ArWork)) /\ WF_bridgesVars(RoomPart(JoinSucceeds \/ JoinFails))
  /\ WF_bridgesVars(RoomPart(SocketConnects)) /\ WF_bridgesVars(RoomPart(ReconnectFires))
  /\ WF_bridgesVars(RoomPart(Rejoins))

\* On the wire between the two chips, messages of the service and payloads of commands
\* arrive whole, in order and once.
SplitModeSound == BridgeSound /\ CommandsSound
=============================================================================
