------------------------------ MODULE BridgeCmd -----------------------------
(***************************************************************************)
(* Commands between the two processors of split mode, bridge_cmd.c: one    *)
(* side sends requests, the other looks up a handler on its work queue and *)
(* responds, in one message, in chunks or as a stream, and sends events.   *)
(* Chunks for a simple handler are put together in a slot per command and  *)
(* type.  s_send_mutex keeps the chunks of one response or event together; *)
(* a stream takes it for each chunk.                                       *)
(***************************************************************************)
EXTENDS Naturals, Sequences, FiniteSets, SequencesExt

CONSTANTS Commands,     \* command ids
          Requests,     \* the commands requested, in order
          EventCommands, \* commands of which events are sent
          ChunkCount,   \* chunks of the payload a command's handler or event produces
          MaxHandlers,  \* BRIDGE_CMD_MAX_HANDLERS
          MaxEvents,    \* bound: events sent
          MaxFailures   \* bound: chunks the transport refuses

ASSUME BcBounds == MaxHandlers \in Nat \ {0} /\ MaxEvents \in Nat /\ MaxFailures \in Nat
ASSUME BcScript == Requests \in Seq(Commands) /\ EventCommands \subseteq Commands /\ ChunkCount \in [Commands -> Nat \ {0}]

VARIABLES handlers,     \* s_handlers: none, SYNC or STREAMING for each command
          rspHandlers, evtHandlers, \* s_response_handlers, s_event_handlers: none, SIMPLE or CHUNKED
          called,       \* s_seq_counter
          reqWire,      \* requests in transit
          cmdJobs,      \* bridge_cmd_handle_request() jobs
          stream,       \* the streaming handler that runs: its request and bridge_cmd_write_ctx_t.seq_num
          rspWire,      \* responses and events in transit, by chunk
          slots,        \* s_reassembly
          told,         \* payloads that simple handlers got, as sequences of chunks
          toldChunks,   \* chunks that chunked handlers got
          finals,       \* requests whose final chunk was handed to the transport
          events, failures

regVars == <<handlers, rspHandlers, evtHandlers>>
bcVars == <<regVars, called, reqWire, cmdJobs, stream, rspWire, slots, told, toldChunks, finals, events, failures>>

NoStream == [req |-> 0, seq |-> 0]
\* A chunk's id tells apart what was sent; its receiver sees only the request, which is 0 in an event.
Chunk(cmd, type, id, seq, fin, total) ==
  [cmd |-> cmd, type |-> type, id |-> id, req |-> IF type = "RSP" THEN id ELSE 0,
   seq |-> seq, fin |-> fin, total |-> total]

\* bridge_cmd_send_typed(): up to one chunk's worth goes in a single final message.
Typed(cmd, type, id, n) == [i \in 1..n |-> Chunk(cmd, type, id, i - 1, i = n, n)]

-----------------------------------------------------------------------------
(***************************************************************************)
(* bridge_cmd_register_handler() and the other five registrations: replace *)
(* the entry of the command, or take a free one if there is any.           *)
(***************************************************************************)

Entries(table) == Cardinality({cmd \in Commands : table[cmd] # "none"})
RegisteredAnyway(table, cmd, type) == [table EXCEPT ![cmd] = type]
Registered(table, cmd, type) ==
  IF table[cmd] = "none" /\ Entries(table) >= MaxHandlers THEN table ELSE [table EXCEPT ![cmd] = type]

RegisterHandler ==
  /\ \E cmd \in Commands :
       \/ handlers[cmd] = "none" /\ handlers' = Registered(handlers, cmd, "SYNC")
       \/ handlers[cmd] = "SYNC" /\ handlers' = Registered(handlers, cmd, "STREAMING")
  /\ UNCHANGED <<rspHandlers, evtHandlers, called, reqWire, cmdJobs, stream, rspWire, slots, told, toldChunks,
                 finals, events, failures>>

RegisterResponseHandler ==
  /\ \E cmd \in Commands :
       \/ rspHandlers[cmd] = "none" /\ rspHandlers' = Registered(rspHandlers, cmd, "SIMPLE")
       \/ rspHandlers[cmd] = "SIMPLE" /\ rspHandlers' = Registered(rspHandlers, cmd, "CHUNKED")
  /\ UNCHANGED <<handlers, evtHandlers, called, reqWire, cmdJobs, stream, rspWire, slots, told, toldChunks,
                 finals, events, failures>>

RegisterEventHandler ==
  /\ \E cmd \in Commands :
       \/ evtHandlers[cmd] = "none" /\ evtHandlers' = Registered(evtHandlers, cmd, "SIMPLE")
       \/ evtHandlers[cmd] = "SIMPLE" /\ evtHandlers' = Registered(evtHandlers, cmd, "CHUNKED")
  /\ UNCHANGED <<handlers, rspHandlers, called, reqWire, cmdJobs, stream, rspWire, slots, told, toldChunks,
                 finals, events, failures>>

-----------------------------------------------------------------------------
(***************************************************************************)
(* Sending.  The first chunk the transport refuses ends a response or an   *)
(* event: what went before it stays sent.                                  *)
(***************************************************************************)

\* The chunks of s that are sent, when all are or one is refused.
Sends(s) ==
  \/ rspWire' = rspWire \o s /\ UNCHANGED failures
  \/ /\ failures < MaxFailures /\ failures' = failures + 1
     /\ \E k \in 0..(Len(s) - 1) : rspWire' = rspWire \o SubSeq(s, 1, k)

\* bridge_cmd_send()
SendRequest ==
  /\ called < Len(Requests)
  /\ called' = called + 1
  /\ reqWire' = Append(reqWire, [cmd |-> Requests[called + 1], req |-> called + 1])
  /\ UNCHANGED <<regVars, cmdJobs, stream, rspWire, slots, told, toldChunks, finals, events, failures>>

\* bridge_cmd_send_event(), from any task
SendEvent ==
  /\ events < MaxEvents /\ events' = events + 1
  /\ \E cmd \in EventCommands : Sends(Typed(cmd, "EVT", events + 1, ChunkCount[cmd]))
  /\ UNCHANGED <<regVars, called, reqWire, cmdJobs, stream, slots, told, toldChunks, finals>>

-----------------------------------------------------------------------------
(***************************************************************************)
(* The responder: bridge_cmd_process_message() queues a request, and       *)
(* bridge_cmd_handle_request() runs it.                                    *)
(***************************************************************************)

ReceiveRequest ==
  /\ reqWire # <<>>
  /\ reqWire' = Tail(reqWire) /\ cmdJobs' = Append(cmdJobs, Head(reqWire))
  /\ UNCHANGED <<regVars, called, stream, rspWire, slots, told, toldChunks, finals, events, failures>>

\* A request without a handler is left without an answer.
HandleUnknownSilently ==
  /\ cmdJobs # <<>> /\ stream = NoStream
  /\ handlers[Head(cmdJobs).cmd] = "none"
  /\ cmdJobs' = Tail(cmdJobs)
  /\ UNCHANGED <<regVars, called, reqWire, stream, rspWire, slots, told, toldChunks, finals, events, failures>>

\* Without a handler the response is ESP_ERR_NOT_FOUND.
HandleUnknown ==
  /\ cmdJobs # <<>> /\ stream = NoStream
  /\ LET j == Head(cmdJobs) IN
     /\ handlers[j.cmd] = "none"
     /\ Sends(Typed(j.cmd, "RSP", j.req, 1))
     /\ finals' = finals \cup {j.req}
  /\ cmdJobs' = Tail(cmdJobs)
  /\ UNCHANGED <<regVars, called, reqWire, stream, slots, told, toldChunks, events>>

HandleSync ==
  /\ cmdJobs # <<>> /\ stream = NoStream
  /\ LET j == Head(cmdJobs) IN
     /\ handlers[j.cmd] = "SYNC"
     /\ Sends(Typed(j.cmd, "RSP", j.req, ChunkCount[j.cmd]))
     /\ finals' = finals \cup {j.req}
  /\ cmdJobs' = Tail(cmdJobs)
  /\ UNCHANGED <<regVars, called, reqWire, stream, slots, told, toldChunks, events>>

HandleStreaming ==
  /\ cmdJobs # <<>> /\ stream = NoStream
  /\ handlers[Head(cmdJobs).cmd] = "STREAMING"
  /\ stream' = [req |-> Head(cmdJobs).req, seq |-> 0]
  /\ UNCHANGED <<regVars, called, reqWire, cmdJobs, rspWire, slots, told, toldChunks, finals, events, failures>>

\* bridge_cmd_write_cb_impl() counts a chunk that was not sent.
StreamWritesUnsent ==
  /\ stream.req > 0 /\ stream.seq < ChunkCount[Head(cmdJobs).cmd]
  /\ Sends(<<Chunk(Head(cmdJobs).cmd, "RSP", stream.req, stream.seq, FALSE, 0)>>)
  /\ stream' = [stream EXCEPT !.seq = @ + 1]
  /\ UNCHANGED <<regVars, called, reqWire, cmdJobs, slots, told, toldChunks, finals, events>>

\* bridge_cmd_write_cb_impl(): the number advances when the chunk is sent; the size is unknown.
StreamWrites ==
  /\ stream.req > 0 /\ stream.seq < ChunkCount[Head(cmdJobs).cmd]
  /\ Sends(<<Chunk(Head(cmdJobs).cmd, "RSP", stream.req, stream.seq, FALSE, 0)>>)
  /\ stream' = [stream EXCEPT !.seq = IF failures' = failures THEN @ + 1 ELSE @]
  /\ UNCHANGED <<regVars, called, reqWire, cmdJobs, slots, told, toldChunks, finals, events>>

\* The handler returned, at its end or early after a failed write: the final chunk.
StreamEnds ==
  /\ stream.req > 0
  /\ stream.seq = ChunkCount[Head(cmdJobs).cmd] \/ failures > 0
  /\ Sends(<<Chunk(Head(cmdJobs).cmd, "RSP", stream.req, stream.seq, TRUE, 0)>>)
  /\ finals' = finals \cup {stream.req}
  /\ stream' = NoStream /\ cmdJobs' = Tail(cmdJobs)
  /\ UNCHANGED <<regVars, called, reqWire, slots, told, toldChunks, events>>

-----------------------------------------------------------------------------
(***************************************************************************)
(* The requester: bridge_cmd_process_message() for responses and events,   *)
(* called serially by the transport.  A response to a simple handler that  *)
(* is not whole in one message goes through a slot.                        *)
(***************************************************************************)

Handler(c) == IF c.type = "RSP" THEN rspHandlers[c.cmd] ELSE evtHandlers[c.cmd]

\* find_reassembly_slot(): slots hold the chunks so far, of one command and type each.
SlotOf(c) == {s \in slots : s[1].cmd = c.cmd /\ s[1].type = c.type}
Room(c)   == SlotOf(c) # {} \/ Cardinality(slots) < MaxHandlers

ReceiveUnhandled ==
  /\ rspWire # <<>> /\ Handler(Head(rspWire)) = "none"
  /\ rspWire' = Tail(rspWire)
  /\ UNCHANGED <<regVars, called, reqWire, cmdJobs, stream, slots, told, toldChunks, finals, events, failures>>

ReceiveChunked ==
  /\ rspWire # <<>> /\ Handler(Head(rspWire)) = "CHUNKED"
  /\ rspWire' = Tail(rspWire) /\ toldChunks' = toldChunks \cup {Head(rspWire)}
  /\ UNCHANGED <<regVars, called, reqWire, cmdJobs, stream, slots, told, finals, events, failures>>

\* Whole in one message: queued for bridge_cmd_handle_response() or bridge_cmd_handle_event().
ReceiveWhole ==
  /\ rspWire # <<>> /\ Handler(Head(rspWire)) = "SIMPLE"
  /\ Head(rspWire).seq = 0 /\ Head(rspWire).fin
  /\ rspWire' = Tail(rspWire) /\ told' = told \cup {<<Head(rspWire)>>}
  /\ UNCHANGED <<regVars, called, reqWire, cmdJobs, stream, slots, toldChunks, finals, events, failures>>

\* A first chunk goes behind what the slot already holds.
ReceiveFirstKept ==
  /\ rspWire # <<>> /\ Handler(Head(rspWire)) = "SIMPLE"
  /\ LET c == Head(rspWire) IN
     /\ c.seq = 0 /\ ~c.fin
     /\ slots' = IF SlotOf(c) # {} \/ ~Room(c) \/ c.total = 0 THEN slots ELSE slots \cup {<<c>>}
  /\ rspWire' = Tail(rspWire)
  /\ UNCHANGED <<regVars, called, reqWire, cmdJobs, stream, told, toldChunks, finals, events, failures>>

\* A first chunk takes the slot over from a response that was never finished; a size of 0
\* (a stream) gets no buffer.
ReceiveFirst ==
  /\ rspWire # <<>> /\ Handler(Head(rspWire)) = "SIMPLE"
  /\ LET c == Head(rspWire) IN
     /\ c.seq = 0 /\ ~c.fin
     /\ slots' = IF ~Room(c) THEN slots
                 ELSE (slots \ SlotOf(c)) \cup (IF c.total > 0 THEN {<<c>>} ELSE {})
  /\ rspWire' = Tail(rspWire)
  /\ UNCHANGED <<regVars, called, reqWire, cmdJobs, stream, told, toldChunks, finals, events, failures>>

\* A further chunk: dropped without a slot; one of another request, or too much, empties the slot.
ReceiveNext ==
  /\ rspWire # <<>> /\ Handler(Head(rspWire)) = "SIMPLE" /\ Head(rspWire).seq > 0
  /\ LET c == Head(rspWire)
         s == CHOOSE x \in SlotOf(c) : TRUE
     IN  IF SlotOf(c) = {} THEN UNCHANGED <<slots, told>>
         ELSE IF s[1].req # c.req \/ Len(s) >= s[1].total THEN slots' = slots \ {s} /\ UNCHANGED told
         ELSE IF c.fin THEN slots' = slots \ {s} /\ told' = told \cup {Append(s, c)}
         ELSE slots' = (slots \ {s}) \cup {Append(s, c)} /\ UNCHANGED told
  /\ rspWire' = Tail(rspWire)
  /\ UNCHANGED <<regVars, called, reqWire, cmdJobs, stream, toldChunks, finals, events, failures>>

-----------------------------------------------------------------------------

BcInit ==
  /\ handlers = [cmd \in Commands |-> "none"]
  /\ rspHandlers = [cmd \in Commands |-> "none"] /\ evtHandlers = [cmd \in Commands |-> "none"]
  /\ called = 0 /\ reqWire = <<>> /\ cmdJobs = <<>> /\ stream = NoStream
  /\ rspWire = <<>> /\ slots = {} /\ told = {} /\ toldChunks = {} /\ finals = {}
  /\ events = 0 /\ failures = 0

BcWorker == HandleUnknown \/ HandleSync \/ HandleStreaming \/ StreamWrites \/ StreamEnds
BcReceive == ReceiveUnhandled \/ ReceiveChunked \/ ReceiveWhole \/ ReceiveFirst \/ ReceiveNext

BcNext ==
  \/ RegisterHandler \/ RegisterResponseHandler \/ RegisterEventHandler
  \/ SendRequest \/ SendEvent \/ ReceiveRequest \/ BcWorker \/ BcReceive

\* The work queue and the transport go on.
BcFairness == WF_bcVars(ReceiveRequest) /\ WF_bcVars(BcWorker) /\ WF_bcVars(BcReceive)

-----------------------------------------------------------------------------
(***************************************************************************)
(* Properties.                                                             *)
(***************************************************************************)

BcTypeOK ==
  /\ \A cmd \in Commands : /\ handlers[cmd] \in {"none", "SYNC", "STREAMING"}
                           /\ {rspHandlers[cmd], evtHandlers[cmd]} \subseteq {"none", "SIMPLE", "CHUNKED"}
  /\ \A table \in {handlers, rspHandlers, evtHandlers} : Entries(table) <= MaxHandlers
  /\ called \in 0..Len(Requests) /\ events \in 0..MaxEvents /\ failures \in 0..MaxFailures
  /\ finals \subseteq 1..Len(Requests)
  /\ Cardinality(slots) <= MaxHandlers

\* A simple handler gets one response or event in full, although its chunks share the wire with
\* those of other commands and the send of an earlier one may have stopped half way.
PayloadsWhole ==
  \A p \in told : \/ p = Typed(p[1].cmd, p[1].type, p[1].id, p[1].total)
                  \/ Len(p) = 1 /\ p[1].fin /\ p[1].total = 0

\* A chunked handler that was there from the start sees the chunks of a request numbered
\* without a gap, also when the send of one failed: a failed write does not use up its number.
NumbersGapless ==
  \A c, d \in toldChunks :
    (c.type = "RSP" /\ d.type = "RSP" /\ c.req = d.req /\ d.seq < c.seq)
      => \E e \in toldChunks : e.type = "RSP" /\ e.req = c.req /\ e.seq = c.seq - 1

\* Every request that was received gets its final response, with or without a handler for it.
EveryRequestAnswered ==
  \A n \in 1..Len(Requests) : (\E i \in 1..Len(cmdJobs) : cmdJobs[i].req = n) ~> (n \in finals)

\* Handlers of commands and events get payloads without a foreign or missing chunk.
CommandsSound == PayloadsWhole /\ NumbersGapless
=============================================================================
