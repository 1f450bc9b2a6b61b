------------------------------ MODULE MCPeers ------------------------------
(***************************************************************************)
(* What a peer connection stands on, one component in each behaviour: its  *)
(* ICE servers, the client's certificates, negotiation, data channels and  *)
(* reception; the players and the ring of audio and video; rate control;   *)
(* and the thread pool, the timer queue and the containers of the          *)
(* utilities.  The components share no variable.                           *)
(***************************************************************************)
EXTENDS IceConfig, KvsClient, KvsNegotiation, DataChannels, Reception,
        VideoPlayer, AudioPath, RateControl,
        ThreadPool, TimerQueue, Containers

Rungs == <<[fps |-> 0, pct |-> 100], [fps |-> 24, pct |-> 80], [fps |-> 12, pct |-> 40]>>

\* Three keys of one bucket and one of the other.
KeyHash == [k \in 1..4 |-> IF k = 4 THEN 1 ELSE 0]

VARIABLE part

connVars == <<iceVars, kcVars, ngVars, dcVars, reVars>>
playVars == <<vpVars, rbVars, apVars, auVars>>
utilVars == <<tpVars, tqVars, cnVars>>
peersVars == <<connVars, playVars, rcVars, utilVars, part>>

Conn(p, A, rest) == part = p /\ A /\ UNCHANGED <<rest, playVars, rcVars, utilVars, part>>
Play(p, A, rest) == part = p /\ A /\ UNCHANGED <<rest, connVars, rcVars, utilVars, part>>
Util(p, A, rest) == part = p /\ A /\ UNCHANGED <<rest, connVars, playVars, rcVars, part>>

PeersInit ==
  /\ IceInit /\ KcInit /\ NgInit /\ DcInit /\ ReInit /\ VpInit /\ RbInit /\ ApInit /\ AuInit
  /\ RcInit /\ TpInit /\ TqInit /\ CnInit
  /\ part \in {"ice", "client", "negotiation", "channels", "reception", "video", "ring",
               "microphone", "speaker", "rate", "pool", "timers", "containers"}
  /\ part # "ice" => family = "kvs"
  /\ part # "negotiation" => role = "initiator" /\ localTrickle /\ peerTrickle
  /\ part # "channels" => clientCfg
  /\ part # "reception" => rxRole = "initiator"
  /\ part # "containers" => kind = "hash"

PeersNext ==
  \/ Conn("ice", IceNext, <<kcVars, ngVars, dcVars, reVars>>)
  \/ Conn("client", KcNext, <<iceVars, ngVars, dcVars, reVars>>)
  \/ Conn("negotiation", NgNext, <<iceVars, kcVars, dcVars, reVars>>)
  \/ Conn("channels", DcNext, <<iceVars, kcVars, ngVars, reVars>>)
  \/ Conn("reception", ReNext, <<iceVars, kcVars, ngVars, dcVars>>)
  \/ Play("video", VpNext, <<rbVars, apVars, auVars>>)
  \/ Play("ring", RbNext, <<vpVars, apVars, auVars>>)
  \/ Play("microphone", ApNext, <<vpVars, rbVars, auVars>>)
  \/ Play("speaker", AuNext, <<vpVars, rbVars, apVars>>)
  \/ part = "rate" /\ RcNext /\ UNCHANGED <<connVars, playVars, utilVars, part>>
  \/ Util("pool", TpNext, <<tqVars, cnVars>>)
  \/ Util("timers", TqNext, <<tpVars, cnVars>>)
  \/ Util("containers", CnNext, <<tpVars, tqVars>>)

PeersSpec == PeersInit /\ [][PeersNext]_peersVars

\* A session gets the ICE servers that were fetched, a certificate of its own and all of
\* the peer's and its own candidates; its data channels' messages reach the application and
\* its players are released with it.
ConnectionSound ==
  TurnReaches /\ ClientSound /\ PeerKnowsCandidates /\ AppSeesMessages /\ PlayersAccounted

\* Media is recorded and played in order and undamaged: no frame without its reference is
\* decoded, the ring loses and repeats no byte, an ended capture adds a bounded rest.
PlaybackSound ==
  NoSmear /\ (part = "ring" => RingFifo) /\ StrayBounded /\ PlayedInOrder

\* The utilities keep what they promise to every component.
UtilitiesSound ==
  /\ part = "pool" => PoolSound
  /\ part = "timers" => TimersSound
  /\ part = "containers" => ContainersSound
=============================================================================
