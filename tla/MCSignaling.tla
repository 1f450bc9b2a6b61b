---------------------------- MODULE MCSignaling ----------------------------
(***************************************************************************)
(* The KVS signaling client below its state machine, one piece of it in    *)
(* each behaviour: "link" the websocket and the network, "sends" the       *)
(* messages sent and received, "clock" the correction of the clock, "keys" *)
(* the credentials and "signing" the signatures of requests.  The pieces   *)
(* share no variable.                                                      *)
(***************************************************************************)
EXTENDS WebSocketLink, SignalingMessages, Credentials, RequestSigning

\* The second message may make the client reconnect.
MessageKinds == <<{"OFFER"}, {"ICE", "RECONNECT_ICE"}>>

\* The clock is slow, a little or a lot, right or fast; leap years that are and are not.
ClockOffsets == {-4, -1, 0, 2}
ServerDates == {<<2024,2,27>>, <<2100,2,27>>, <<2000,2,27>>, <<1999,12,30>>, <<2023,4,29>>}

\* A client id that needs no encoding, and one that does.
Names == {<<"id">>, <<"a", "/", "+">>}

VARIABLE part

signalingVars == <<wsVars, smVars, ckVars, crVars, sigVars, part>>

LinkPart(A) == part = "link" /\ A /\ UNCHANGED <<smVars, ckVars, crVars, sigVars, part>>
SendsPart(A) == part = "sends" /\ A /\ UNCHANGED <<wsVars, ckVars, crVars, sigVars, part>>
ClockPart(A) == part = "clock" /\ A /\ UNCHANGED <<wsVars, smVars, crVars, sigVars, part>>
KeysPart(A) == part = "keys" /\ A /\ UNCHANGED <<wsVars, smVars, ckVars, sigVars, part>>
SigningPart(A) == part = "signing" /\ A /\ UNCHANGED <<wsVars, smVars, ckVars, crVars, part>>

SignalingInit ==
  /\ WsInit /\ SmInit /\ CkInit /\ CrInit /\ SigInit
  /\ part \in {"link", "sends", "clock", "keys", "signing"}
  /\ part # "clock" => date = <<2024,2,27>> /\ off = 0 /\ ckState = "ice"
  /\ part # "keys" => kind = "iot"

SignalingNext ==
  \/ LinkPart(WsNext) \/ SendsPart(SmNext) \/ ClockPart(CkNext)
  \/ KeysPart(CrNext) \/ SigningPart(SigNext)

\* WsFairness, of the part it is about.
SignalingSpec ==
  /\ SignalingInit /\ [][SignalingNext]_signalingVars
  /\ WF_signalingVars(LinkPart(DialSteps)) /\ WF_signalingVars(LinkPart(HandlerSteps))
  /\ WF_signalingVars(LinkPart(WorkerTakesMessage \/ WorkerHandlesMessage))
  /\ WF_signalingVars(LinkPart(SendMarks \/ SendWrites))
  /\ WF_signalingVars(LinkPart(KillerSteps))

\* The service accepts what the client signs: the time is near the server's once an answer
\* told the client what that is (LwsApiCalls_esp.c:481), and the signature is the one over
\* the request that arrives (aws_signer_v4.c).
RequestsAccepted == SignedInStep /\ SignatureVerifies
=============================================================================
