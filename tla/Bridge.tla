------------------------------- MODULE Bridge -------------------------------
(***************************************************************************)
(* Split mode: a network processor (C6) holds the signaling connection and *)
(* wakes a media processor (P4) that runs the peers.  Modelled are         *)
(*  - signaling_bridge_adapter.c, the C6's queue of messages for a P4 that *)
(*    is not ready;                                                        *)
(*  - bridge_signaling.c and ice_bridge_client.c on the P4;                *)
(*  - webrtc_bridge.c and hosted_chunked_transport.c between them, in the  *)
(*    legacy chunk format that webrtc_bridge_send_message() uses;          *)
(*  - the query of ICE servers by index of kvs_signaling.c.                *)
(*                                                                         *)
(* Received messages run as jobs on each processor's one work queue; the   *)
(* service's messages reach the C6's adapter on that queue too.  A P4 that *)
(* sleeps restarts from nothing.                                           *)
(***************************************************************************)
EXTENDS Naturals, Sequences, SequencesExt

CONSTANTS Script,      \* kinds of the messages the service sends, in order
          QueueMax,    \* MAX_QUEUE_SIZE
          CacheMax,    \* ICE_CACHE_MAX
          TurnUris,    \* uris of the ICE configuration
          MaxFaults    \* bound: chunks lost and times the P4 goes to sleep

ASSUME BrBounds == /\ QueueMax \in Nat \ {0} /\ CacheMax \in Nat \ {0} /\ TurnUris \in Nat
                   /\ MaxFaults \in Nat
ASSUME BrScript == Script \in Seq({"OFFER", "ICE_CANDIDATE"})

VARIABLES c6Ready,     \* g_message_queue.state is READY, not WAITING_FOR_WAKEUP
          c6Queue,     \* g_message_queue.messages
          c6Jobs,      \* the C6's work queue, with what is in transit to it: all of one chunk
          cloud,       \* messages the service has sent
          toP4,        \* chunks in transit to the P4
          p4Part,      \* the P4's reassembly_msg, with expected_seq as the number of its chunks
          p4,          \* how far the P4's application is
          p4Jobs,      \* the P4's work queue
          seen,        \* messages the P4's application was given
          answered,    \* answers the C6 passed to the service
          cache, asking, nextIdx, \* s_cache, s_async_in_progress, s_next_index
          iceList,     \* ice_servers_config of the P4's client
          uriCount, iceInfo, refreshing, \* statics of kvsSignalingQueryServerGetByIdx()
          needed,      \* the ICE configuration must be refreshed
          refreshFailed,
          sleeps, losses, dropped,
          asks         \* what the P4's application asked: the list of ICE servers, its refresh, each once

c6Vars  == <<c6Ready, c6Queue, cloud, dropped, answered>>
iceVars == <<cache, asking, nextIdx, iceList, asks>>
kvsVars == <<uriCount, iceInfo, refreshing, needed, refreshFailed>>
wire    == <<toP4, p4Part, losses>>
brVars  == <<c6Vars, c6Jobs, wire, p4, p4Jobs, seen, sleeps, iceVars, kvsVars>>

Stages == <<"asleep", "booted", "callbacks", "ice", "connected", "on">>
Kinds  == {"OFFER", "ICE_CANDIDATE", "READY_QUERY", "READY", "ICE_REQUEST",
           "ICE_RESPONSE", "ANSWER", "REFRESH", "MIXED"}

\* A message: its kind, its number or index, and for a response the server (none is 0) and have_more.
Msg(kind, n) == [k |-> kind, n |-> n, server |-> 0, more |-> FALSE]
Response(server, more) == [k |-> "ICE_RESPONSE", n |-> 0, server |-> server, more |-> more]

-----------------------------------------------------------------------------
(***************************************************************************)
(* hosted_chunked_transport.c.                                             *)
(***************************************************************************)

\* hosted_chunked_send(): an offer takes three chunks; the send mutex keeps them together.
ChunksOf(m) ==
  LET last == IF m.k = "OFFER" THEN 2 ELSE 0
  IN  [i \in 1..(last + 1) |-> [m |-> m, seq |-> i - 1, fin |-> i = last + 1]]

\* Buffers are what deserialize_signaling_message() tells apart: whole, a piece, or a mix.
Whole(buf)  == buf = ChunksOf(buf[1].m)
Piece(buf)  == Len(buf) = 1 /\ buf[1].seq > 0
Parsed(buf) == IF Whole(buf) THEN buf[1].m ELSE Msg("MIXED", 0)

\* A continuation is taken whatever its number.
LegacyUnordered(part, c) ==
  LET buf == IF c.seq = 0 THEN <<c>> ELSE Append(part, c) IN
  IF c.seq > 0 /\ part = <<>> THEN [part |-> <<>>, out |-> <<<<c>>>>]
  ELSE IF Len(buf) > Len(ChunksOf(buf[1].m)) THEN [part |-> <<>>, out |-> <<>>]
  ELSE IF c.fin THEN [part |-> <<>>, out |-> <<buf>>]
  ELSE [part |-> buf, out |-> <<>>]

\* hosted_chunked_process_chunk(), process_legacy_format_chunk(), esp_webrtc_append_msg_to_existing():
\* the first chunk starts over; without one a chunk is taken for a raw message.
Legacy(part, c) ==
  LET buf == IF c.seq = 0 THEN <<c>> ELSE Append(part, c) IN
  IF c.seq > 0 /\ part = <<>> THEN [part |-> <<>>, out |-> <<<<c>>>>]
  ELSE IF c.seq > 0 /\ c.seq # Len(part) THEN [part |-> <<>>, out |-> <<>>]
  ELSE IF Len(buf) > Len(ChunksOf(buf[1].m)) THEN [part |-> <<>>, out |-> <<>>]
  ELSE IF c.fin THEN [part |-> <<>>, out |-> <<buf>>]
  ELSE [part |-> buf, out |-> <<>>]

\* webrtc_bridge_on_hosted_message() queues what came out; a piece does not parse.
Received(out) == [i \in 1..Len(SelectSeq(out, LAMBDA b : ~Piece(b))) |-> Parsed(out[i])]

\* A sleeping P4 has no receive callback.
ChunkToP4 ==
  /\ toP4 # <<>> /\ toP4' = Tail(toP4)
  /\ IF p4 = "asleep" THEN UNCHANGED <<p4Part, p4Jobs>>
     ELSE LET r == Legacy(p4Part, Head(toP4)) IN
          p4Part' = r.part /\ p4Jobs' = p4Jobs \o Received(r.out)
  /\ UNCHANGED <<c6Vars, c6Jobs, losses, p4, seen, sleeps, iceVars, kvsVars>>

\* No memory for a buffer, or the transport drops the chunk.
ChunkLost ==
  /\ sleeps + losses < MaxFaults /\ losses' = losses + 1
  /\ \/ toP4 # <<>> /\ toP4' = Tail(toP4) /\ UNCHANGED c6Jobs
     \/ /\ \E i \in 1..Len(c6Jobs) : /\ c6Jobs[i].k \in {"READY", "ANSWER", "ICE_REQUEST"}
                                     /\ c6Jobs' = RemoveAt(c6Jobs, i)
        /\ UNCHANGED toP4
  /\ UNCHANGED <<c6Vars, p4Part, p4, p4Jobs, seen, sleeps, iceVars, kvsVars>>

-----------------------------------------------------------------------------
(***************************************************************************)
(* The C6: signaling_bridge_adapter.c.                                     *)
(***************************************************************************)

\* The limit is not looked at.
EnqueueAnyway(m) == c6Queue' = Append(c6Queue, m) /\ UNCHANGED dropped

\* enqueue_message(): a full queue drops the new message.
Enqueue(m) ==
  IF Len(c6Queue) >= QueueMax THEN dropped' = dropped \cup {m.n} /\ UNCHANGED c6Queue
  ELSE c6Queue' = Append(c6Queue, m) /\ UNCHANGED dropped

Flushed(queue) == FoldLeft(LAMBDA out, m : out \o ChunksOf(m), <<>>, queue)

\* The service's next message is handled on the work queue.
CloudSends ==
  /\ cloud < Len(Script)
  /\ cloud' = cloud + 1
  /\ c6Jobs' = Append(c6Jobs, Msg(Script[cloud + 1], cloud + 1))
  /\ UNCHANGED <<c6Ready, c6Queue, dropped, answered, wire, p4, p4Jobs, seen, sleeps, iceVars, kvsVars>>

\* A wakeup of a sleeping P4 boots it: app_webrtc_init() and webrtc_bridge_start().
Woken == IF p4 = "asleep" THEN "booted" ELSE p4

\* An offer is queued without asking the P4 whether it is ready.
SendOfferUnasked(m) ==
  /\ c6Ready' = FALSE
  /\ p4' = Woken
  /\ UNCHANGED toP4
  /\ Enqueue(m)

\* signaling_bridge_adapter_send_message() of an offer.
SendOffer(m) ==
  /\ c6Ready' = FALSE
  /\ p4' = Woken
  /\ toP4' = toP4 \o ChunksOf(Msg("READY_QUERY", 0))
  /\ Enqueue(m)

SendOther(m) ==
  /\ IF c6Ready THEN toP4' = toP4 \o ChunksOf(m) /\ UNCHANGED <<c6Queue, dropped>>
     ELSE Enqueue(m) /\ UNCHANGED toP4
  /\ UNCHANGED <<c6Ready, p4>>

SendOtherAtOnce(m) ==
  /\ toP4' = toP4 \o ChunksOf(m)
  /\ UNCHANGED <<c6Queue, dropped, c6Ready, p4>>

C6SendsOtherAtOnce ==
  /\ c6Jobs # <<>> /\ Head(c6Jobs).k = "ICE_CANDIDATE"
  /\ c6Jobs' = Tail(c6Jobs) /\ SendOtherAtOnce(Head(c6Jobs))
  /\ UNCHANGED <<cloud, answered, p4Part, losses, p4Jobs, seen, sleeps, iceVars, kvsVars>>

C6SendsOffer ==
  /\ c6Jobs # <<>> /\ Head(c6Jobs).k = "OFFER"
  /\ c6Jobs' = Tail(c6Jobs) /\ SendOffer(Head(c6Jobs))
  /\ UNCHANGED <<cloud, answered, p4Part, losses, p4Jobs, seen, sleeps, iceVars, kvsVars>>

C6SendsOther ==
  /\ c6Jobs # <<>> /\ Head(c6Jobs).k = "ICE_CANDIDATE"
  /\ c6Jobs' = Tail(c6Jobs) /\ SendOther(Head(c6Jobs))
  /\ UNCHANGED <<cloud, answered, p4Part, losses, p4Jobs, seen, sleeps, iceVars, kvsVars>>

\* handle_bridged_message(): READY; set_queue_state() and flush_queue().
C6HandlesReady ==
  /\ c6Jobs # <<>> /\ Head(c6Jobs).k = "READY"
  /\ c6Jobs' = Tail(c6Jobs)
  /\ c6Ready' = TRUE
  /\ toP4' = toP4 \o Flushed(c6Queue) /\ c6Queue' = <<>>
  /\ UNCHANGED <<cloud, dropped, answered, p4Part, losses, p4, p4Jobs, seen, sleeps, iceVars, kvsVars>>


\* handle_bridged_message(): an answer goes to the service.
C6HandlesAnswer ==
  /\ c6Jobs # <<>> /\ Head(c6Jobs).k = "ANSWER"
  /\ c6Jobs' = Tail(c6Jobs)
  /\ answered' = answered \cup {Head(c6Jobs).n}
  /\ UNCHANGED <<c6Ready, c6Queue, cloud, dropped, wire, p4, p4Jobs, seen, sleeps, iceVars, kvsVars>>

-----------------------------------------------------------------------------
(***************************************************************************)
(* kvsSignalingQueryServerGetByIdx() of kvs_signaling.c, which the C6      *)
(* calls for each ICE_REQUEST.  Servers are the STUN server (1) and the    *)
(* uris of the ICE configuration (2, 3, ...).                              *)
(***************************************************************************)

\* The index 0: the STUN server, and a refresh as a job when one is needed.
QueryFirst ==
  /\ uriCount' = 1 /\ refreshing' = needed
  /\ c6Jobs' = Tail(c6Jobs) \o (IF needed THEN <<Msg("REFRESH", 0)>> ELSE <<>>)
  /\ toP4' = toP4 \o ChunksOf(Response(1, TRUE))
  /\ UNCHANGED iceInfo

\* A further index: wait for the refresh, or the uri of that index.
QueryNext(index) ==
  LET waits == refreshing /\ needed
      none  == index = 1 /\ needed
      uris  == IF index = 1 /\ TurnUris > 0 THEN uriCount + TurnUris ELSE uriCount
      known == iceInfo \/ (index = 1 /\ TurnUris > 0)
      found == ~none /\ known /\ index - 1 < TurnUris
  IN  /\ refreshing' = waits
      /\ uriCount' = IF waits \/ none THEN uriCount ELSE uris
      /\ iceInfo'  = IF waits \/ none THEN iceInfo ELSE known
      /\ toP4' = toP4 \o ChunksOf(IF waits THEN Response(0, TRUE)
                                  ELSE IF found THEN Response(index + 1, index < uris - 1)
                                  ELSE Response(0, FALSE))
      /\ c6Jobs' = Tail(c6Jobs)

\* The last uri still asks for more.
QueryNextForever(index) ==
  LET found == index - 1 < TurnUris
  IN  /\ refreshing' = FALSE /\ uriCount' = 1 + TurnUris /\ iceInfo' = TRUE
      /\ toP4' = toP4 \o ChunksOf(IF found THEN Response(index + 1, TRUE) ELSE Response(0, TRUE))
      /\ c6Jobs' = Tail(c6Jobs)

C6AnswersFirst ==
  /\ c6Jobs # <<>> /\ Head(c6Jobs).k = "ICE_REQUEST" /\ Head(c6Jobs).n = 0
  /\ QueryFirst
  /\ UNCHANGED <<c6Vars, p4Part, losses, p4, p4Jobs, seen, sleeps, iceVars, needed, refreshFailed>>

C6AnswersNextForever ==
  /\ c6Jobs # <<>> /\ Head(c6Jobs).k = "ICE_REQUEST" /\ Head(c6Jobs).n > 0
  /\ QueryNextForever(Head(c6Jobs).n)
  /\ UNCHANGED <<c6Vars, p4Part, losses, p4, p4Jobs, seen, sleeps, iceVars, needed, refreshFailed>>

C6AnswersNext ==
  /\ c6Jobs # <<>> /\ Head(c6Jobs).k = "ICE_REQUEST" /\ Head(c6Jobs).n > 0
  /\ QueryNext(Head(c6Jobs).n)
  /\ UNCHANGED <<c6Vars, p4Part, losses, p4, p4Jobs, seen, sleeps, iceVars, needed, refreshFailed>>

\* kvs_refresh_ice_task(): after a failure the configuration stays as old as it was.
C6Refreshes ==
  /\ c6Jobs # <<>> /\ Head(c6Jobs).k = "REFRESH"
  /\ c6Jobs' = Tail(c6Jobs)
  /\ \/ needed' = FALSE /\ UNCHANGED refreshFailed
     \/ refreshFailed' = TRUE /\ UNCHANGED needed
  /\ UNCHANGED <<c6Vars, wire, p4, p4Jobs, seen, sleeps, iceVars, uriCount, iceInfo, refreshing>>

-----------------------------------------------------------------------------
(***************************************************************************)
(* The P4: bridge_signaling.c and ice_bridge_client.c.                     *)
(***************************************************************************)

Reached(stage) == \E i, j \in 1..Len(Stages) : i >= j /\ Stages[i] = p4 /\ Stages[j] = stage

\* bridgeInit(), bridgeSetCallbacks(), bridgeSetIceUpdateCallback(), bridgeConnect() up to its delay.
P4Advances ==
  /\ \E i \in 2..4 : p4 = Stages[i] /\ p4' = Stages[i + 1]
  /\ UNCHANGED <<c6Vars, c6Jobs, wire, p4Jobs, seen, sleeps, iceVars, kvsVars>>

\* bridgeConnect() after its delay: send_ready_signal_to_c6().
P4SaysReady ==
  /\ p4 = "connected" /\ p4' = "on"
  /\ c6Jobs' = Append(c6Jobs, Msg("READY", 0))
  /\ UNCHANGED <<c6Vars, wire, p4Jobs, seen, sleeps, iceVars, kvsVars>>

\* Deep sleep: memory is lost, and with it what is on the way to or from the P4.
P4Sleeps ==
  /\ p4 = "on" /\ sleeps + losses < MaxFaults
  /\ p4' = "asleep" /\ sleeps' = sleeps + 1
  /\ p4Part' = <<>> /\ p4Jobs' = <<>>
  /\ cache' = <<>> /\ asking' = FALSE /\ nextIdx' = 0 /\ iceList' = <<>>
  /\ UNCHANGED <<c6Vars, c6Jobs, toP4, losses, seen, asks, kvsVars>>

\* bridgeDisconnect(), bridgeFree(): what arrives now finds no client.
P4Terminates ==
  /\ p4 = "on" /\ p4' = "gone"
  /\ iceList' = <<>>
  /\ UNCHANGED <<c6Vars, c6Jobs, wire, p4Jobs, seen, sleeps, cache, asking, nextIdx, asks, kvsVars>>

P4Job(kind) == p4Jobs # <<>> /\ Head(p4Jobs).k = kind /\ p4Jobs' = Tail(p4Jobs)

\* READY is said to a query whatever the application has set up.
P4AnswersAnyQuery ==
  /\ P4Job("READY_QUERY")
  /\ c6Jobs' = Append(c6Jobs, Msg("READY", 0))
  /\ UNCHANGED <<c6Vars, wire, p4, seen, sleeps, iceVars, kvsVars>>

\* bridge_message_handler(): READY only once there is a client with callbacks.
P4AnswersQuery ==
  /\ P4Job("READY_QUERY")
  /\ c6Jobs' = IF Reached("callbacks") THEN Append(c6Jobs, Msg("READY", 0)) ELSE c6Jobs
  /\ UNCHANGED <<c6Vars, wire, p4, seen, sleeps, iceVars, kvsVars>>

\* An offer or candidate is given to the application, which answers an offer: bridgeSendMessage().
P4Dispatches ==
  /\ \E kind \in {"OFFER", "ICE_CANDIDATE", "MIXED"} : P4Job(kind)
  /\ LET m == Head(p4Jobs) IN
     /\ seen' = IF Reached("callbacks") THEN Append(seen, m) ELSE seen
     /\ c6Jobs' = IF m.k = "OFFER" /\ Reached("connected") THEN Append(c6Jobs, Msg("ANSWER", m.n)) ELSE c6Jobs
  /\ UNCHANGED <<c6Vars, wire, p4, sleeps, iceVars, kvsVars>>

\* send_next_ice_request()
AskIndex(i) == c6Jobs' = Append(c6Jobs, Msg("ICE_REQUEST", i))

\* ice_bridge_client_request_ice_servers_async() does not look whether one runs.
RequestTwice == asking' = TRUE /\ nextIdx' = 0 /\ AskIndex(0)

\* ice_bridge_client_request_ice_servers_async(): one exchange at a time.
RequestAsync ==
  IF asking THEN UNCHANGED <<asking, nextIdx, c6Jobs>>
  ELSE asking' = TRUE /\ nextIdx' = 0 /\ AskIndex(0)

\* bridgeGetIceServers(), ice_bridge_client_get_servers(): an empty cache gives STUN and asks.
P4GetsIceServers ==
  /\ Reached("on") /\ "list" \notin asks /\ asks' = asks \cup {"list"}
  /\ iceList = <<>>
  /\ IF cache = <<>> THEN RequestAsync ELSE UNCHANGED <<asking, nextIdx, c6Jobs>>
  /\ UNCHANGED <<c6Vars, wire, p4, p4Jobs, seen, sleeps, cache, iceList, kvsVars>>

\* bridgeRefreshIceConfiguration()
P4QueuesRefresh ==
  /\ Reached("on") /\ "refresh" \notin asks /\ asks' = asks \cup {"refresh"}
  /\ iceList' = <<>>
  /\ p4Jobs' = Append(p4Jobs, Msg("REFRESH", 0))
  /\ UNCHANGED <<c6Vars, c6Jobs, wire, p4, seen, sleeps, cache, asking, nextIdx, kvsVars>>

\* bridge_refresh_ice_task()
P4Refreshes ==
  /\ P4Job("REFRESH")
  /\ IF Reached("callbacks") THEN cache' = <<>> /\ RequestAsync ELSE UNCHANGED <<cache, asking, nextIdx, c6Jobs>>
  /\ UNCHANGED <<c6Vars, wire, p4, seen, sleeps, iceList, asks, kvsVars>>

\* An index past every uri stands for all that follow it.
NextIndex == IF nextIdx > TurnUris THEN nextIdx ELSE nextIdx + 1

\* ice_bridge_client_set_ice_server_response(): add_server_to_cache(), the callback into
\* bridge_on_ice_servers_updated(), then the next index or the end of the exchange.
P4TakesServer ==
  /\ P4Job("ICE_RESPONSE")
  /\ IF ~Reached("callbacks") THEN UNCHANGED <<cache, iceList, asking, nextIdx, c6Jobs>>
     ELSE LET m == Head(p4Jobs) IN
          /\ cache' = IF m.server > 0 /\ Len(cache) < CacheMax THEN Append(cache, m.server) ELSE cache
          /\ iceList' = IF Reached("ice") /\ cache' # <<>> THEN cache' ELSE iceList
          /\ IF m.more /\ Len(cache') < CacheMax /\ asking
             THEN nextIdx' = NextIndex /\ AskIndex(NextIndex) /\ UNCHANGED asking
             ELSE asking' = FALSE /\ UNCHANGED <<nextIdx, c6Jobs>>
  /\ UNCHANGED <<c6Vars, wire, p4, seen, sleeps, asks, kvsVars>>

-----------------------------------------------------------------------------

BrInit ==
  /\ c6Ready = FALSE /\ c6Queue = <<>> /\ c6Jobs = <<>> /\ cloud = 0
  /\ toP4 = <<>> /\ p4Part = <<>>
  /\ p4 \in {"asleep", "booted"} /\ p4Jobs = <<>> /\ seen = <<>> /\ answered = {}
  /\ cache = <<>> /\ asking = FALSE /\ nextIdx = 0 /\ iceList = <<>>
  /\ uriCount = 0 /\ iceInfo = FALSE /\ refreshing = FALSE /\ needed = TRUE /\ refreshFailed = FALSE
  /\ sleeps = 0 /\ losses = 0 /\ asks = {} /\ dropped = {}

C6Steps == \/ C6SendsOffer \/ C6SendsOther \/ C6HandlesReady \/ C6HandlesAnswer
           \/ C6AnswersFirst \/ C6AnswersNext \/ C6Refreshes
P4Steps == \/ P4AnswersQuery \/ P4Dispatches \/ P4Refreshes \/ P4TakesServer

BrNext ==
  \/ C6Steps \/ P4Steps \/ CloudSends
  \/ ChunkToP4 \/ ChunkLost
  \/ P4Advances \/ P4SaysReady \/ P4Sleeps \/ P4Terminates \/ P4GetsIceServers \/ P4QueuesRefresh

\* The two work queues, the transport and a booting application go on.
BrFairness ==
  /\ WF_brVars(C6Steps) /\ WF_brVars(P4Steps)
  /\ WF_brVars(ChunkToP4)
  /\ WF_brVars(P4Advances) /\ WF_brVars(P4SaysReady)

-----------------------------------------------------------------------------
(***************************************************************************)
(* Properties.                                                             *)
(***************************************************************************)

BrTypeOK ==
  /\ c6Ready \in BOOLEAN /\ cloud \in 0..Len(Script)
  /\ \A q \in {c6Queue, c6Jobs, p4Jobs, seen} : \A i \in 1..Len(q) : q[i].k \in Kinds
  /\ Len(c6Queue) <= QueueMax
  /\ p4 \in Range(Stages) \cup {"gone"}
  /\ cache \in Seq(1..(TurnUris + 1)) /\ iceList \in Seq(1..(TurnUris + 1))
  /\ asking \in BOOLEAN /\ nextIdx \in 0..(TurnUris + 1)
  /\ uriCount \in 0..(TurnUris + 1)
  /\ {iceInfo, refreshing, needed, refreshFailed} \subseteq BOOLEAN
  /\ sleeps + losses \in 0..MaxFaults /\ asks \subseteq {"list", "refresh"}
  /\ dropped \subseteq 0..Len(Script) /\ answered \subseteq 1..Len(Script)

\* What the P4's handler parses is one message in full, whatever single chunk is lost and
\* whenever the P4 restarts: chunks of two messages, or a message with a hole, never pass.
NoMixedMessage == \A i \in 1..Len(seen) : seen[i].k # "MIXED"

\* The P4's application gets the service's messages in the service's order: a candidate
\* that is sent directly never passes an offer that waits for the P4 to be ready.
InCloudOrder == \A i, j \in 1..Len(seen) : i < j => seen[i].n < seen[j].n

\* As long as the P4 neither slept nor left and no chunk was lost, every message the C6 took is
\* somewhere on its way, was given to the application, or met a full queue: none is sent
\* to a P4 whose client cannot take it.
NothingThrownAway ==
  (sleeps = 0 /\ losses = 0 /\ p4 # "gone") =>
    \A n \in 1..cloud :
      \/ n \in dropped
      \/ \E q \in {c6Jobs, c6Queue, p4Jobs, seen} : \E i \in 1..Len(q) : q[i].n = n /\ q[i].k = Script[n]
      \/ \E q \in {toP4, p4Part} : \E i \in 1..Len(q) : q[i].m.n = n /\ q[i].m.k = Script[n]

\* The cache of ICE servers never holds one server twice, however lists and refreshes are
\* asked for: there is one exchange of requests and responses at a time.
NoServerTwice == (sleeps = 0 /\ losses = 0) => IsInjective(cache) /\ Len(cache) <= CacheMax

\* An exchange of ICE servers under way has its request or its response on the wire or on a
\* work queue, unless a chunk was lost or the P4's application left: s_async_in_progress
\* is not left TRUE with nothing to come, which would refuse every later exchange.
ExchangeGoesOn ==
  asking /\ losses = 0 /\ p4 # "gone" =>
    \/ \E i \in 1..Len(c6Jobs) : c6Jobs[i].k = "ICE_REQUEST"
    \/ \E i \in 1..Len(p4Jobs) : p4Jobs[i].k = "ICE_RESPONSE"
    \/ \E i \in 1..Len(toP4) : toP4[i].m.k = "ICE_RESPONSE"

\* Messages that wait on the C6 for a P4 that is up have a READY to come: from the boot, or
\* as the answer to a query that is on its way, unless a chunk was lost.
ReadyToCome ==
  c6Queue # <<>> /\ losses = 0 /\ p4 \notin {"asleep", "gone"} =>
    \/ p4 # "on" \/ \E i \in 1..Len(c6Jobs) : c6Jobs[i].k = "READY"
    \/ \E i \in 1..Len(p4Jobs) : p4Jobs[i].k = "READY_QUERY"
    \/ \E i \in 1..Len(toP4) : toP4[i].m.k = "READY_QUERY"

\* The P4 gets the service's messages whole and in order, none is thrown away on a sound
\* wire or left waiting for nothing, and the ICE servers the C6 passes on arrive once each.
BridgeSound == NoMixedMessage /\ InCloudOrder /\ NothingThrownAway /\ ReadyToCome
               /\ NoServerTwice /\ ExchangeGoesOn
=============================================================================
