--------------------------- MODULE DataChannels ---------------------------
(***************************************************************************)
(* Data channels: kvs_webrtc.c keeps a channel and a ready flag for every  *)
(* session and one set of application callbacks for all of them;           *)
(* app_webrtc.c finds the session of a peer under the list lock and uses   *)
(* it after the lock is released, while the cleanup may free it.           *)
(*                                                                         *)
(* Callbacks are named after the session they were registered for;         *)
(* "client" are the ones of the client's configuration.  A session has at  *)
(* most one channel of its own and one of the peer.                        *)
(***************************************************************************)
EXTENDS Integers, FiniteSets

CONSTANTS DcSessions,     \* sessions, one per peer
          DcMaxMessages,  \* bound: messages of the peers
          DcMaxCalls      \* bound: calls of the application

ASSUME DcAssumption ==
  /\ DcMaxMessages \in Nat /\ DcMaxCalls \in Nat
  /\ {"client", "none", "echo"} \cap DcSessions = {}

VARIABLES exists,    \* session: "none", "open", "freed"
          clientCfg, \* client->has_client_dc_config
          global,    \* g_data_channel_callbacks: owner of the callbacks, or "none"
          own,       \* the callbacks registered for a session, or "none"
          channel,   \* session->data_channel: "none", "local", "remote"
          local,     \* the application's channel: "none", "made", "open"
          ready,     \* session->data_channel_ready
          found,     \* the session an application call holds, and for what
          arrived,   \* messages that arrived per session
          reactions, \* of every session: what its messages led to
          calls

dcVars == <<exists, clientCfg, global, own, channel, local, ready, found,
            arrived, reactions, calls>>

Callbacks == DcSessions \cup {"client", "none"}
NoCall == [what |-> "none", session |-> "none"]

DcTypeOK ==
  /\ exists \in [DcSessions -> {"none", "open", "freed"}]
  /\ clientCfg \in BOOLEAN
  /\ global \in Callbacks /\ own \in [DcSessions -> Callbacks]
  /\ channel \in [DcSessions -> {"none", "local", "remote"}]
  /\ local \in [DcSessions -> {"none", "made", "open"}]
  /\ ready \in [DcSessions -> BOOLEAN]
  /\ found \in [what : {"none", "callbacks", "send", "touched"},
                session : DcSessions \cup {"none"}]
  /\ arrived \in 0..DcMaxMessages
  /\ reactions \in [DcSessions -> [Callbacks \cup {"echo"} -> 0..DcMaxMessages]]
  /\ calls \in 0..DcMaxCalls

DcInit ==
  /\ exists = [s \in DcSessions |-> "none"]
  /\ clientCfg \in BOOLEAN
  /\ global = "none" /\ own = [s \in DcSessions |-> "none"]
  /\ channel = [s \in DcSessions |-> "none"]
  /\ local = [s \in DcSessions |-> "none"]
  /\ ready = [s \in DcSessions |-> FALSE]
  /\ found = NoCall /\ arrived = 0 /\ calls = 0
  /\ reactions = [s \in DcSessions |-> [c \in Callbacks \cup {"echo"} |-> 0]]

\* kvs_pc_create_session(): the client's configuration, if there is one, is
\* written to the global callbacks again.
CreateSession(s) ==
  /\ exists[s] = "none"
  /\ exists' = [exists EXCEPT ![s] = "open"]
  /\ own' = [own EXCEPT ![s] = IF clientCfg THEN "client" ELSE "none"]
  /\ global' = IF clientCfg THEN "client" ELSE global
  /\ UNCHANGED <<clientCfg, channel, local, ready, found, arrived, reactions, calls>>

\* The cleanup frees the session (AppSession).
FreeSession(s) ==
  /\ exists[s] = "open"
  /\ exists' = [exists EXCEPT ![s] = "freed"]
  /\ UNCHANGED <<clientCfg, global, own, channel, local, ready, found, arrived,
                 reactions, calls>>

----------------------------------------------------------------------------
(* Channels *)

\* kvs_pc_create_data_channel(): open and message callbacks of the SDK.
CreateDataChannel(s) ==
  /\ exists[s] = "open" /\ local[s] = "none"
  /\ local' = [local EXCEPT ![s] = "made"]
  /\ channel' = [channel EXCEPT ![s] = "local"]
  /\ UNCHANGED <<exists, clientCfg, global, own, ready, found, arrived,
                 reactions, calls>>

\* kvs_onDataChannelOpen()
LocalOpens(s) ==
  /\ exists[s] = "open" /\ local[s] = "made"
  /\ local' = [local EXCEPT ![s] = "open"]
  /\ ready' = [ready EXCEPT ![s] = TRUE]
  /\ channel' = [channel EXCEPT ![s] = "local"]
  /\ UNCHANGED <<exists, clientCfg, global, own, found, arrived, reactions, calls>>

\* onDataChannelHandler(): the peer's channel; the application hears nothing.
RemoteOpens(s) ==
  /\ exists[s] = "open" /\ channel[s] # "remote"
  /\ channel' = [channel EXCEPT ![s] = "remote"]
  /\ ready' = [ready EXCEPT ![s] = TRUE]
  /\ UNCHANGED <<exists, clientCfg, global, own, local, found, arrived,
                 reactions, calls>>

\* Mutant: the echo answers although callbacks are registered.
ReactionEchoing(s) == IF global = s THEN global ELSE "echo"

\* kvs_onDataChannelMessage(): the registered callbacks, whoever they are for,
\* or the echo.
Reaction(s) == IF global = "none" THEN "echo" ELSE global

MessageArrives(s) ==
  /\ exists[s] = "open" /\ ready[s] /\ arrived < DcMaxMessages
  /\ arrived' = arrived + 1
  /\ reactions' = [reactions EXCEPT ![s][Reaction(s)] = @ + 1]
  /\ UNCHANGED <<exists, clientCfg, global, own, channel, local, ready, found, calls>>

----------------------------------------------------------------------------
(* The application's calls *)

\* app_webrtc_set_data_channel_callbacks() and
\* app_webrtc_send_data_channel_message() look the peer up under the list lock.
CallFinds(s, what) ==
  /\ found = NoCall /\ calls < DcMaxCalls
  /\ calls' = calls + 1
  /\ found' = IF exists[s] = "open" THEN [what |-> what, session |-> s] ELSE NoCall
  /\ UNCHANGED <<exists, clientCfg, global, own, channel, local, ready, arrived, reactions>>

\* kvs_pc_set_data_channel_callbacks(): the session's own copy, and the global
\* one that is used.
SetsCallbacks ==
  /\ found.what = "callbacks"
  /\ IF exists[found.session] = "freed"
     THEN found' = [found EXCEPT !.what = "touched"] /\ UNCHANGED <<own, global>>
     ELSE /\ own' = [own EXCEPT ![found.session] = found.session]
          /\ global' = found.session
          /\ found' = NoCall
  /\ UNCHANGED <<exists, clientCfg, channel, local, ready, arrived, reactions, calls>>

\* kvs_pc_send_data_channel_message(): refused until the session is ready.
SendsMessage ==
  /\ found.what = "send"
  /\ found' = IF exists[found.session] = "freed" THEN [found EXCEPT !.what = "touched"]
              ELSE NoCall
  /\ UNCHANGED <<exists, clientCfg, global, own, channel, local, ready, arrived,
                 reactions, calls>>

\* A call that used a freed session: what follows is not modelled.
CallEnds ==
  /\ found.what = "touched"
  /\ found' = NoCall
  /\ UNCHANGED <<exists, clientCfg, global, own, channel, local, ready, arrived,
                 reactions, calls>>

DcNext ==
  \/ \E s \in DcSessions :
       \/ CreateSession(s) \/ FreeSession(s) \/ CreateDataChannel(s)
       \/ LocalOpens(s) \/ RemoteOpens(s) \/ MessageArrives(s)
       \/ \E what \in {"callbacks", "send"} : CallFinds(s, what)
  \/ SetsCallbacks \/ SendsMessage \/ CallEnds

DcSpec == DcInit /\ [][DcNext]_dcVars

----------------------------------------------------------------------------
\* kvs_onDataChannelMessage(): the echo is for an application without
\* callbacks: once some are configured for the client, every message of every
\* session reaches the application.
AppSeesMessages ==
  clientCfg => \A s \in DcSessions : reactions[s]["echo"] = 0

=============================================================================
