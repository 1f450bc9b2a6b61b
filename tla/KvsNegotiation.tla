-------------------------- MODULE KvsNegotiation --------------------------
(***************************************************************************)
(* components/kvs_webrtc/src/kvs_webrtc.c: the exchange of descriptions    *)
(* and candidates of one session.  The task that handles messages runs     *)
(* kvs_pc_set_callbacks(), kvs_create_and_send_offer() and                 *)
(* kvs_pc_send_message(); the SDK's gathering thread runs                  *)
(* onIceCandidateHandler() for every candidate and once more at the end.   *)
(* Gathering starts inside setLocalDescription(), so the two overlap.      *)
(*                                                                         *)
(* A description carries the candidates gathered when it was created,      *)
(* unless trickle ICE is used: then each one is a message of its own.  The *)
(* session handles one offer; a description is a set of candidates, and    *)
(* what reaches the application is the set told.                           *)
(***************************************************************************)
EXTENDS Integers, FiniteSets

CONSTANTS LocalCandidates, \* candidates the SDK gathers
          NgMaxWaits       \* bound: polls of the 10 s wait, at the last it ends

\* "none" stands for no description.
ASSUME NgAssumption == NgMaxWaits \in Nat /\ "none" \notin LocalCandidates

VARIABLES role,        \* session->is_initiator
          localTrickle,\* client->trickleIce
          peerTrickle, \* what canTrickleIceCandidates() says of the peer's offer
          canTrickle,  \* session->remote_can_trickle_ice
          callbacks,   \* on_message_received is set
          needsOffer,  \* session->needs_offer
          gather,      \* "none", "running", "done": the SDK
          gathered,    \* candidates the SDK has reported
          ended,       \* session->candidate_gathering_done
          handler,     \* the SDK thread is inside the end-of-candidates branch
          npc,         \* where the message task is
          waits,       \* polls so far
          gone,        \* session->terminated
          descriptions,\* sets of candidates in the descriptions sent
          told,        \* candidates sent as messages
          remote,      \* remote description: "none", "set"
          early,       \* remote candidates dropped because there was none yet
          media        \* session->media_threads_started

ngVars == <<role, localTrickle, peerTrickle, canTrickle, callbacks, needsOffer,
            gather, gathered, ended, handler, npc, waits, gone, descriptions,
            told, remote, early, media>>

Roles == {"initiator", "responder"}

NgTypeOK ==
  /\ role \in Roles
  /\ {localTrickle, peerTrickle, canTrickle, callbacks, needsOffer, ended,
      handler, gone, media} \subseteq BOOLEAN
  /\ gather \in {"none", "running", "done"}
  /\ gathered \subseteq LocalCandidates /\ told \subseteq LocalCandidates
  /\ npc \in {"idle", "described", "waiting", "ready", "answered", "failed"}
  /\ waits \in 0..NgMaxWaits
  /\ descriptions \in [1..2 -> (SUBSET LocalCandidates) \cup {{"none"}}]
  /\ remote \in {"none", "set"} /\ early \in BOOLEAN

\* Two descriptions are room enough to see one too many.
NoneSent == [i \in 1..2 |-> {"none"}]
Unsent(i) == descriptions[i] = {"none"}
Sent == Cardinality({i \in 1..2 : ~Unsent(i)})

\* on_message_received() with a description.
Describes(set) ==
  descriptions' = IF Unsent(1) THEN [descriptions EXCEPT ![1] = set]
                  ELSE [descriptions EXCEPT ![2] = set]

\* kvs_pc_create_session()
NgInit ==
  /\ role \in Roles /\ localTrickle \in BOOLEAN /\ peerTrickle \in BOOLEAN
  /\ canTrickle = FALSE /\ callbacks = FALSE
  /\ needsOffer = (role = "initiator")
  /\ gather = "none" /\ gathered = {} /\ ended = FALSE /\ handler = FALSE
  /\ npc = "idle" /\ waits = 0 /\ gone = FALSE
  /\ descriptions = NoneSent /\ told = {}
  /\ remote = "none" /\ early = FALSE /\ media = FALSE

fixed == <<role, localTrickle, peerTrickle>>

----------------------------------------------------------------------------
(* The initiator *)

\* setLocalDescription() starts the gathering.
SetLocalDescription == gather' = "running"

\* kvs_pc_set_callbacks() of the initiator creates the offer it owes, once.
SetCallbacks ==
  /\ npc = "idle" /\ ~gone
  /\ callbacks' = TRUE
  /\ needsOffer' = FALSE
  /\ IF needsOffer
     THEN /\ SetLocalDescription
          /\ npc' = IF localTrickle THEN "ready" ELSE "waiting"
     ELSE UNCHANGED <<npc, gather>>
  /\ UNCHANGED <<fixed, canTrickle, gathered, ended, handler, waits, gone,
                 descriptions, told, remote, early, media>>

\* kvs_create_and_send_offer() without trickle ICE polls for the end of the
\* gathering, ten seconds at most.
OfferWaits ==
  /\ npc = "waiting" /\ ~ended /\ ~gone /\ waits < NgMaxWaits
  /\ waits' = waits + 1
  /\ UNCHANGED <<fixed, canTrickle, callbacks, needsOffer, gather, gathered,
                 ended, handler, npc, gone, descriptions, told, remote, early, media>>

OfferWaitEnds ==
  /\ npc = "waiting" /\ (ended \/ gone \/ waits = NgMaxWaits)
  /\ npc' = IF gone \/ ~ended THEN "failed" ELSE "ready"
  /\ UNCHANGED <<fixed, canTrickle, callbacks, needsOffer, gather, gathered,
                 ended, handler, waits, gone, descriptions, told, remote, early, media>>

\* createOffer(), and the message to the application.
OfferSends ==
  /\ npc = "ready"
  /\ Describes(IF localTrickle THEN {} ELSE gathered)
  /\ npc' = "idle"
  /\ UNCHANGED <<fixed, canTrickle, callbacks, needsOffer, gather, gathered,
                 ended, handler, waits, gone, told, remote, early, media>>

\* kvs_handleAnswer(): the description, then the players, once.
HandleAnswer ==
  /\ role = "initiator" /\ npc = "idle" /\ Sent > 0 /\ remote = "none" /\ ~gone
  /\ remote' = "set"
  /\ media' = TRUE
  /\ UNCHANGED <<fixed, canTrickle, callbacks, needsOffer, gather, gathered,
                 ended, handler, npc, waits, gone, descriptions, told, early>>

----------------------------------------------------------------------------
(* The responder *)

\* kvs_handleOffer() up to setLocalDescription().
HandleOffer ==
  /\ role = "responder" /\ npc = "idle" /\ callbacks /\ remote = "none" /\ ~gone
  /\ remote' = "set"
  /\ canTrickle' = peerTrickle
  /\ SetLocalDescription
  /\ npc' = "described"
  /\ UNCHANGED <<fixed, callbacks, needsOffer, gathered, ended, handler, waits,
                 gone, descriptions, told, early, media>>

\* With trickle ICE the answer goes out at once; otherwise the end of the
\* gathering sends it.
AnswerNow ==
  /\ npc = "described"
  /\ IF canTrickle THEN Describes({}) ELSE UNCHANGED descriptions
  /\ npc' = "answered"
  /\ UNCHANGED <<fixed, canTrickle, callbacks, needsOffer, gather, gathered, ended, handler,
                 waits, gone, told, remote, early, media>>

\* The rest of kvs_handleOffer(): the players.
OfferEnds ==
  /\ npc = "answered"
  /\ media' = TRUE
  /\ npc' = "idle"
  /\ UNCHANGED <<fixed, canTrickle, callbacks, needsOffer, gather, gathered,
                 ended, handler, waits, gone, descriptions, told, remote, early>>

\* kvs_handleRemoteCandidate(): addIceCandidate() takes one only after the
\* remote description.
HandleRemoteCandidate ==
  /\ npc = "idle" /\ ~gone
  /\ early' = (early \/ remote = "none")
  /\ UNCHANGED <<fixed, canTrickle, callbacks, needsOffer, gather, gathered,
                 ended, handler, npc, waits, gone, descriptions, told, remote, media>>

----------------------------------------------------------------------------
(* onIceCandidateHandler() on the SDK's thread *)

\* Mutant: a responder goes by its own setting.
ShouldSendCandidateLocal == localTrickle

\* A candidate is passed on when this side trickles (initiator) or the peer can
\* (responder).
ShouldSendCandidate == IF role = "initiator" THEN localTrickle ELSE canTrickle

CandidateGathered(c) ==
  /\ gather = "running" /\ c \notin gathered
  /\ gathered' = gathered \cup {c}
  /\ told' = IF callbacks /\ ShouldSendCandidate THEN told \cup {c} ELSE told
  /\ UNCHANGED <<fixed, canTrickle, callbacks, needsOffer, gather, ended, handler,
                 npc, waits, gone, descriptions, remote, early, media>>

\* Mutant: the answer is left to the task.
GatheringEndsSilent ==
  /\ gather = "running" /\ gathered = LocalCandidates
  /\ gather' = "done"
  /\ ended' = TRUE
  /\ UNCHANGED <<fixed, canTrickle, callbacks, needsOffer, gathered, handler, npc,
                 waits, gone, descriptions, told, remote, early, media>>

\* The end: the flag first; a responder whose peer cannot trickle answers here.
GatheringEnds ==
  /\ gather = "running" /\ gathered = LocalCandidates
  /\ gather' = "done"
  /\ ended' = TRUE
  /\ handler' = (role = "responder" /\ ~canTrickle)
  /\ UNCHANGED <<fixed, canTrickle, callbacks, needsOffer, gathered, npc, waits,
                 gone, descriptions, told, remote, early, media>>

AnswerAtEnd ==
  /\ handler
  /\ handler' = FALSE
  /\ IF callbacks THEN Describes(gathered) ELSE UNCHANGED descriptions
  /\ UNCHANGED <<fixed, canTrickle, callbacks, needsOffer, gather, gathered,
                 ended, npc, waits, gone, told, remote, early, media>>

\* kvs_pc_destroy_session() or the watchdog.
NgTerminated ==
  /\ ~gone
  /\ gone' = TRUE
  /\ UNCHANGED <<fixed, canTrickle, callbacks, needsOffer, gather, gathered,
                 ended, handler, npc, waits, descriptions, told, remote, early, media>>

----------------------------------------------------------------------------
NgTaskSteps == OfferWaits \/ OfferWaitEnds \/ OfferSends \/ AnswerNow \/ OfferEnds
NgSdkSteps == (\E c \in LocalCandidates : CandidateGathered(c)) \/ GatheringEnds \/ AnswerAtEnd

NgNext ==
  \/ SetCallbacks \/ HandleAnswer \/ HandleOffer \/ HandleRemoteCandidate
  \/ NgTaskSteps \/ NgSdkSteps \/ NgTerminated

NgSpec == NgInit /\ [][NgNext]_ngVars /\ WF_ngVars(NgTaskSteps) /\ WF_ngVars(NgSdkSteps)

----------------------------------------------------------------------------
Carried == UNION {descriptions[i] : i \in {j \in 1..2 : ~Unsent(j)}}

\* kvs_handleOffer(), onIceCandidateHandler(): when the gathering is over and
\* this side's description is out, the peer has been given every candidate, in
\* the description or as a message, and one description only, whichever thread
\* sent it.
PeerKnowsCandidates ==
  /\ Sent <= 1
  /\ Sent = 1 /\ gather = "done" /\ ~handler /\ npc = "idle"
       => Carried \cup told = LocalCandidates

=============================================================================
