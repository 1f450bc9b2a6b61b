-------------------------- MODULE PendingSignaling --------------------------
(***************************************************************************)
(* components/signaling/kvs_signaling: the answers and ICE candidates that *)
(* could not be sent because the websocket was down, and their re-send.    *)
(* The buffer is port/kvs_pending_ice.c; src/kvs_signaling.c holds it under*)
(* signalingSendMessageLock, takes a batch out of it on the work queue's   *)
(* worker, sends the batch without the lock and merges back what failed.   *)
(*                                                                         *)
(* A message is its peer and the generation of the peer's offer it belongs *)
(* to; its text is left out.  Allocation does not fail.  All flushes run on*)
(* the one worker of the work queue, so pendingFlushes is 0 or 1 and       *)
(* flushAgain is never set.                                                *)
(***************************************************************************)
EXTENDS Naturals, Sequences, FiniteSets, SequencesExt

CONSTANTS Peers,
          IceMax,      \* KVS_PENDING_ICE_MAX
          AnswerMax,   \* KVS_PENDING_ANSWER_MAX
          PurgedMax,   \* KVS_PENDING_PURGED_MAX
          MaxAttempts, \* KVS_PENDING_ICE_MAX_ATTEMPTS
          MaxAge,      \* KVS_PENDING_ANSWER_MAX_AGE_MS, in clock ticks
          MaxRounds,   \* KVS_PENDING_FLUSH_MAX_ROUNDS
          WqSize,      \* entries of the work queue
          MaxGen,      \* bound: offers of one peer
          MaxOffers,   \* bound: offers of all peers
          MaxCands,    \* bound: candidates of one generation
          MaxTime,     \* bound: clock ticks
          MaxDrops,    \* bound: losses of the websocket
          CanLeave,    \* viewers leave
          CanClose,    \* the client is freed
          NoMessage

ASSUME BoundsAssumption ==
  /\ {IceMax, AnswerMax, MaxAttempts, MaxRounds, WqSize} \subseteq Nat \ {0}
  /\ {PurgedMax, MaxAge, MaxGen, MaxOffers, MaxCands, MaxTime, MaxDrops} \subseteq Nat
ASSUME PeersAssumption ==
  /\ IsFiniteSet(Peers)
  /\ NoMessage \notin [type : {"answer", "ice"}, peer : Peers, gen : Nat]
ASSUME ModeAssumption == {CanLeave, CanClose} \subseteq BOOLEAN

VARIABLES pend,    \* the buffer: answers and candidates
          batch,      \* the batch the running flush sends
          batchOut,   \* pending.batch_out
          purged,     \* pending.purged
          flushPeers, \* flushAnswerPeers, while pendingFlushes > 0
          flush,      \* the worker: where it is, round, message index, its now_ms
          sending,    \* a direct send that failed and still holds the lock
          wq,         \* the work queue
          client,     \* the live-client registry and what the free came to
          connected,  \* pClientData->connected, kept by the state callback
          sockUp,     \* pSignalingClient->connected, kept by the websocket
          now,        \* the monotonic clock
          gen,        \* offers of each peer so far
          cands,      \* candidates of the peer's last generation so far
          left,       \* the generation at which each viewer left last
          drops,      \* losses of the websocket so far
          wire,       \* history: what reached each viewer
          gone        \* history: answers given up, and why

buffer == <<pend, batch, batchOut, purged>>
psWorker == <<flushPeers, flush>>
link   == <<connected, sockUp, drops>>
app    == <<gen, cands, left>>
psVars   == <<buffer, psWorker, sending, wq, client, link, now, app, wire, gone>>

Gens     == 1..MaxGen
Answers  == [peer : Peers, gen : Gens, at : 0..MaxTime]
Ice      == [peer : Peers, gen : Gens, attempts : 0..(MaxAttempts - 1)]
Messages == [type : {"answer", "ice"}, peer : Peers, gen : Gens]
Buffers  == [answers : Seq(Answers), ice : Seq(Ice)]
Empty    == [answers |-> <<>>, ice |-> <<>>]
Idle     == [pc |-> "idle", round |-> 0, i |-> 0, now |-> 0]

PeersOf(s) == {s[i].peer : i \in DOMAIN s}
Count(p)   == Len(p.answers) + Len(p.ice)

\* All bounds of the code: slots, one answer for each peer, attempts, the purge list
PsTypeOK ==
  /\ {pend, batch} \subseteq Buffers
  /\ \A b \in {pend, batch} :
       /\ Len(b.ice) <= IceMax /\ Len(b.answers) <= AnswerMax
       /\ Cardinality(PeersOf(b.answers)) = Len(b.answers)
  /\ batchOut \in BOOLEAN
  /\ purged \subseteq Peers /\ Cardinality(purged) <= PurgedMax
  /\ flushPeers \subseteq Peers
  /\ flush.pc \in {"idle", "round", "answers", "sendAnswer", "ice", "sendIce", "merge"}
  /\ flush.round \in 0..MaxRounds /\ flush.i \in Nat /\ flush.now \in 0..MaxTime
  /\ sending \in Messages \cup {NoMessage}
  /\ wq \in Seq({"flush", "sync"}) /\ Len(wq) <= WqSize
  /\ client \in {"live", "closing", "freed", "leaked"}
  /\ connected \in BOOLEAN /\ sockUp \in BOOLEAN
  /\ now \in 0..MaxTime /\ drops \in 0..MaxDrops
  /\ gen \in [Peers -> 0..MaxGen] /\ left \in [Peers -> 0..MaxGen]
  /\ cands \in [Peers -> 0..MaxCands]
  /\ \A p \in Peers : wire[p] \in Seq([type : {"answer", "ice"}, gen : Gens])
  /\ gone \subseteq [peer : Peers, gen : Gens, why : {"room", "expired", "error"}]

PsInit ==
  /\ pend = Empty /\ batch = Empty /\ batchOut = FALSE /\ purged = {}
  /\ flushPeers = {} /\ flush = Idle
  /\ sending = NoMessage /\ wq = <<>> /\ client = "live"
  /\ connected = TRUE /\ sockUp = TRUE /\ drops = 0 /\ now = 0
  /\ gen = [p \in Peers |-> 0] /\ left = [p \in Peers |-> 0]
  /\ cands = [p \in Peers |-> 0]
  /\ wire = [p \in Peers |-> <<>>] /\ gone = {}

-----------------------------------------------------------------------------
(***************************************************************************)
(* The buffer.  Every operation is a function of the buffer's value.       *)
(***************************************************************************)
HasAnswer(b, p) == p \in PeersOf(b.answers)

\* An array of which only the elements at some places are kept: the others are shifted over.
Kept(s, keep) ==
  LET upTo[i \in 0..Len(s)] ==
        IF i = 0 THEN <<>> ELSE IF i \in keep THEN Append(upTo[i - 1], s[i]) ELSE upTo[i - 1]
  IN upTo[Len(s)]

Without(s, peers) == Kept(s, {i \in DOMAIN s : s[i].peer \notin peers})

\* kvsPendingIcePurgePeer()
PurgeIce(b, p) == [b EXCEPT !.ice = Without(@, {p})]

DropAnswer(b, p) == [b EXCEPT !.answers = Without(@, {p})]

\* kvsPendingSignalingPushIce(): a full array turns the candidate away
PushIce(b, c) == IF Len(b.ice) < IceMax THEN [b EXCEPT !.ice = Append(@, c)] ELSE b

Oldest(b) ==
  CHOOSE i \in DOMAIN b.answers :
    \A j \in DOMAIN b.answers :
      \/ b.answers[i].at < b.answers[j].at
      \/ b.answers[i].at = b.answers[j].at /\ i <= j

\* insertAnswer() finds a slot: the peer's own, a free one, or that of an older answer
Fits(b, a) ==
  \/ HasAnswer(b, a.peer)
  \/ Len(b.answers) < AnswerMax
  \/ b.answers[Oldest(b)].at <= a.at

\* the answers insertAnswer() evicts, none or one
Evicted(b, a) ==
  IF HasAnswer(b, a.peer) \/ Len(b.answers) < AnswerMax THEN {} ELSE {b.answers[Oldest(b)]}

Replace(b, a) == [b EXCEPT !.answers = [i \in DOMAIN @ |-> IF @[i].peer = a.peer THEN a ELSE @[i]]]

\* no limit on the slots
InsertAnswerUnbounded(b, a) ==
  IF HasAnswer(b, a.peer) THEN Replace(b, a) ELSE [b EXCEPT !.answers = Append(@, a)]

InsertAnswer(b, a) ==
  IF HasAnswer(b, a.peer) THEN Replace(b, a)
  ELSE LET victims == {v.peer : v \in Evicted(b, a)}
       IN [answers |-> Append(Without(b.answers, victims), a), ice |-> Without(b.ice, victims)]

GivenUp(as, why) == {[peer |-> a.peer, gen |-> a.gen, why |-> why] : a \in as}

(***************************************************************************)
(* kvsPendingSignalingMerge(): after each answer of the batch, the buffer  *)
(* m, the batch's candidates, the peers whose answer moved over, and the   *)
(* answers given up.                                                       *)
(***************************************************************************)
MergeAnswer(acc, a) ==
  IF HasAnswer(acc.m, a.peer) THEN acc
  ELSE IF Fits(acc.m, a)
       THEN [acc EXCEPT !.m = InsertAnswer(@, a), !.moved = @ \cup {a.peer},
                        !.out = @ \cup Evicted(acc.m, a)]
       ELSE [acc EXCEPT !.ice = Without(@, {a.peer}), !.out = @ \cup {a}]

\* the array is taken over, or as much of it as there is room for
MergeIce(m, ice) ==
  [m EXCEPT !.ice = IF @ = <<>> THEN ice ELSE @ \o Kept(ice, 1..(IceMax - Len(@)))]

\* the survivors of a failed flush are not put back
MergedForgetting(m, b, skip) == [buf |-> m, out |-> {}]

\* peers purged meanwhile are skipped, and so is what lost its answer on the way
Merged(m, b, skip) ==
  LET as == Without(b.answers, skip)
      merging[i \in 0..Len(as)] ==
        IF i = 0 THEN [m |-> m, ice |-> Without(b.ice, skip), moved |-> {}, out |-> {}]
        ELSE MergeAnswer(merging[i - 1], as[i])
      acc  == merging[Len(as)]
      lost == {p \in acc.moved : ~HasAnswer(acc.m, p)}
  IN [buf |-> MergeIce(acc.m, Without(acc.ice, lost)), out |-> acc.out]

-----------------------------------------------------------------------------
(***************************************************************************)
(* The websocket and the state machine above it.  A new websocket is only  *)
(* made while the state machine is not in CONNECTED.                       *)
(***************************************************************************)
WqAdd == wq' = IF Len(wq) < WqSize THEN Append(wq, "flush") ELSE wq

SocketDrops ==
  /\ sockUp /\ drops < MaxDrops
  /\ sockUp' = FALSE /\ drops' = drops + 1
  /\ UNCHANGED <<buffer, psWorker, sending, wq, client, connected, now, app, wire, gone>>

SocketOpens ==
  /\ ~sockUp /\ ~connected
  /\ sockUp' = TRUE
  /\ UNCHANGED <<buffer, psWorker, sending, wq, client, connected, drops, now, app, wire, gone>>

\* kvsStateChangedCallback() for a state without a websocket
StateLeaves ==
  /\ ~sockUp /\ connected
  /\ connected' = FALSE
  /\ UNCHANGED <<buffer, psWorker, sending, wq, client, sockUp, drops, now, app, wire, gone>>

\* a CONNECTED edge that does not queue the flush
StateConnectedQuietly ==
  /\ sockUp /\ ~connected
  /\ connected' = TRUE
  /\ UNCHANGED <<buffer, psWorker, sending, wq, client, sockUp, drops, now, app, wire, gone>>

\* kvsStateChangedCallback() for CONNECTED
StateConnected ==
  /\ sockUp /\ ~connected
  /\ connected' = TRUE
  /\ WqAdd
  /\ UNCHANGED <<buffer, psWorker, sending, client, sockUp, drops, now, app, wire, gone>>

PsTick ==
  /\ now < MaxTime
  /\ now' = now + 1
  /\ UNCHANGED <<buffer, psWorker, sending, wq, client, link, app, wire, gone>>

-----------------------------------------------------------------------------
(***************************************************************************)
(* sendKvsSignalingMessage(), called for the answer to an offer and then   *)
(* for the candidates of that session.                                     *)
(***************************************************************************)
Unlocked == sending = NoMessage
Flushing == flush.pc \notin {"idle", "round"}   \* pendingFlushes > 0

Deliver(m) == wire' = [wire EXCEPT ![m.peer] = Append(@, [type |-> m.type, gen |-> m.gen])]

NewAnswer(m) == [peer |-> m.peer, gen |-> m.gen, at |-> now]
NewIce(m)    == [peer |-> m.peer, gen |-> m.gen, attempts |-> 0]

PutAnswer(m) ==
  /\ pend' = InsertAnswer(pend, NewAnswer(m))
  /\ gone' = gone \cup GivenUp(Evicted(pend, NewAnswer(m)), "room")

\* a check that only looks at the buffer
QueuesBehindBuffer(m) == m.type = "ice" /\ HasAnswer(pend, m.peer)

\* queued behind the peer's answer, which is buffered or in the running flush's batch
QueuesBehind(m) ==
  LET inFlush == Flushing /\ m.peer \in flushPeers
  IN IF m.type = "ice" THEN inFlush \/ HasAnswer(pend, m.peer) ELSE inFlush

Queue(m) ==
  /\ IF m.type = "ice"
     THEN pend' = PushIce(pend, NewIce(m)) /\ gone' = gone
     ELSE PutAnswer(m)
  /\ UNCHANGED <<batch, batchOut, purged, sending, wq, wire>>

\* the older answer stays buffered
SendThroughKeeping(m) ==
  /\ sockUp
  /\ Deliver(m)
  /\ IF ~Flushing /\ Count(pend) > 0 THEN WqAdd ELSE wq' = wq
  /\ UNCHANGED <<buffer, sending, gone>>

\* a send that went through makes a buffered answer of the peer stale, and flushes a backlog
SendThrough(m) ==
  /\ sockUp
  /\ Deliver(m)
  /\ pend' = IF m.type = "answer" THEN DropAnswer(pend, m.peer) ELSE pend
  /\ IF ~Flushing /\ Count(pend') > 0 THEN WqAdd ELSE wq' = wq
  /\ UNCHANGED <<batch, batchOut, purged, sending, gone>>

SendFails(m) ==
  /\ ~sockUp
  /\ sending' = m
  /\ UNCHANGED <<buffer, wq, wire, gone>>

Send(m) ==
  /\ Unlocked /\ client = "live"
  /\ IF QueuesBehind(m) THEN Queue(m) ELSE SendThrough(m) \/ SendFails(m)
  /\ UNCHANGED <<psWorker, client, link, now, left>>

Offers == FoldFunction(+, 0, gen)

SendAnswer(p) ==
  /\ gen[p] < MaxGen /\ Offers < MaxOffers
  /\ Send([type |-> "answer", peer |-> p, gen |-> gen[p] + 1])
  /\ gen' = [gen EXCEPT ![p] = @ + 1]
  /\ cands' = [cands EXCEPT ![p] = 0]

SendCandidate(p) ==
  /\ gen[p] > left[p] /\ cands[p] < MaxCands
  /\ Send([type |-> "ice", peer |-> p, gen |-> gen[p]])
  /\ cands' = [cands EXCEPT ![p] = @ + 1]
  /\ gen' = gen

LinkDown == ~connected \/ ~sockUp

\* kvsBufferFailedSend(), or the error goes to the caller
BufferFailedSend ==
  /\ sending # NoMessage
  /\ sending' = NoMessage
  /\ IF ~LinkDown
     THEN /\ pend' = pend
          /\ gone' = IF sending.type = "answer" THEN gone \cup GivenUp({sending}, "error") ELSE gone
     ELSE IF sending.type = "answer" THEN PutAnswer(sending)
          ELSE pend' = PushIce(pend, NewIce(sending)) /\ gone' = gone
  /\ UNCHANGED <<batch, batchOut, purged, psWorker, wq, client, link, now, app, wire>>

\* a purge that only looks at the buffer
PurgeBufferOnly(p) ==
  /\ CanLeave /\ client = "live" /\ Unlocked
  /\ gen[p] > left[p]
  /\ left' = [left EXCEPT ![p] = gen[p]]
  /\ pend' = PurgeIce(DropAnswer(pend, p), p)
  /\ UNCHANGED <<batch, batchOut, purged, psWorker, sending, wq, client, link, now,
                 gen, cands, wire, gone>>

\* kvsSignalingPurgePeerCandidates(), when the viewer's session was freed
Purge(p) ==
  /\ CanLeave /\ client = "live" /\ Unlocked
  /\ gen[p] > left[p]
  /\ left' = [left EXCEPT ![p] = gen[p]]
  /\ pend' = PurgeIce(DropAnswer(pend, p), p)
  /\ purged' = IF batchOut /\ Cardinality(purged) < PurgedMax THEN purged \cup {p} ELSE purged
  /\ UNCHANGED <<batch, batchOut, psWorker, sending, wq, client, link, now, gen, cands, wire, gone>>

-----------------------------------------------------------------------------
(***************************************************************************)
(* kvs_flush_pending_task() on the worker of the work queue.               *)
(***************************************************************************)
Alive == client = "live"

FlushStart ==
  /\ flush.pc = "idle" /\ wq # <<>> /\ Head(wq) = "flush"
  /\ wq' = Tail(wq)
  /\ flush' = IF Alive THEN [Idle EXCEPT !.pc = "round", !.round = 1] ELSE Idle
  /\ UNCHANGED <<buffer, flushPeers, sending, client, link, now, app, wire, gone>>

\* a batch window for an empty batch
TakeAlwaysOut ==
  /\ batch' = pend /\ pend' = Empty
  /\ batchOut' = TRUE
  /\ UNCHANGED purged

\* kvsPendingSignalingTake(): an empty batch opens no batch window
Take ==
  /\ batch' = pend /\ pend' = Empty
  /\ batchOut' = (Count(pend) > 0)
  /\ UNCHANGED purged

FlushTake ==
  /\ flush.pc = "round" /\ Unlocked
  /\ IF ~Alive
     THEN flush' = Idle /\ UNCHANGED <<buffer, flushPeers>>
     ELSE /\ Take
          /\ IF Count(pend) = 0
             THEN flush' = Idle /\ UNCHANGED flushPeers
             ELSE /\ flush' = [flush EXCEPT !.pc = "answers", !.i = 1, !.now = now]
                  /\ flushPeers' = PeersOf(pend.answers)
  /\ UNCHANGED <<sending, wq, client, link, now, app, wire, gone>>

At(pc)    == flush' = [flush EXCEPT !.pc = pc]
Next1     == flush' = [flush EXCEPT !.pc = CASE @ = "sendIce" -> "ice"
                                           [] @ = "sendAnswer" -> "answers"
                                           [] OTHER -> @,
                                    !.i = @ + 1]
Answered  == batch' = [batch EXCEPT !.answers = RemoveAt(@, flush.i)]
Trickled  == batch' = [batch EXCEPT !.ice = RemoveAt(@, flush.i)]

Expired(a) == flush.now > a.at /\ flush.now - a.at > MaxAge

\* kvsPendingSignalingDrain(), the answers: one is expired, not to be sent, or sent next
FlushAnswer ==
  /\ flush.pc = "answers" /\ flush.i \in DOMAIN batch.answers
  /\ LET a == batch.answers[flush.i]
     IN \/ /\ Expired(a)
           /\ batch' = PurgeIce([batch EXCEPT !.answers = RemoveAt(@, flush.i)], a.peer)
           /\ gone' = gone \cup GivenUp({a}, "expired")
           /\ UNCHANGED flush
        \/ /\ ~Expired(a) /\ ~Alive
           /\ Next1 /\ UNCHANGED <<batch, gone>>
        \/ /\ ~Expired(a) /\ Alive /\ Unlocked
           /\ IF a.peer \in purged \/ HasAnswer(pend, a.peer)
              THEN Answered /\ UNCHANGED flush
              ELSE At("sendAnswer") /\ UNCHANGED batch
           /\ UNCHANGED gone
  /\ UNCHANGED <<pend, batchOut, purged, flushPeers, sending, wq, client, link, now, app, wire>>

FlushSendAnswer ==
  /\ flush.pc = "sendAnswer"
  /\ LET a == batch.answers[flush.i]
     IN IF sockUp
        THEN /\ Deliver([type |-> "answer", peer |-> a.peer, gen |-> a.gen])
             /\ Answered /\ At("answers")
        ELSE Next1 /\ UNCHANGED <<batch, wire>>
  /\ UNCHANGED <<pend, batchOut, purged, flushPeers, sending, wq, client, link, now, app, gone>>

FlushAnswersDone ==
  /\ flush.pc = "answers" /\ flush.i > Len(batch.answers)
  /\ flush' = [flush EXCEPT !.pc = "ice", !.i = 1]
  /\ UNCHANGED <<buffer, flushPeers, sending, wq, client, link, now, app, wire, gone>>

\* iceDrain(): a failed attempt counts, and the last one drops the candidate
Attempted ==
  IF batch.ice[flush.i].attempts + 1 >= MaxAttempts
  THEN Trickled /\ At("ice")
  ELSE batch' = [batch EXCEPT !.ice[flush.i].attempts = @ + 1] /\ Next1

\* the candidates wait behind an answer that is still in the batch
HoldBehindAnswer(p) == HasAnswer(batch, p)

FlushIce ==
  /\ flush.pc = "ice" /\ flush.i \in DOMAIN batch.ice
  /\ LET c == batch.ice[flush.i]
     IN \/ /\ HoldBehindAnswer(c.peer)
           /\ Next1 /\ UNCHANGED <<pend, batch>>
        \/ /\ ~HoldBehindAnswer(c.peer) /\ ~Alive
           /\ Attempted /\ UNCHANGED pend
        \/ /\ ~HoldBehindAnswer(c.peer) /\ Alive /\ Unlocked
           /\ \/ /\ c.peer \in purged
                 /\ Trickled /\ UNCHANGED <<pend, flush>>
              \/ /\ c.peer \notin purged /\ HasAnswer(pend, c.peer)
                 /\ pend' = PushIce(pend, [c EXCEPT !.attempts = 0])
                 /\ Trickled /\ UNCHANGED flush
              \/ /\ c.peer \notin purged /\ ~HasAnswer(pend, c.peer)
                 /\ At("sendIce") /\ UNCHANGED <<pend, batch>>
  /\ UNCHANGED <<batchOut, purged, flushPeers, sending, wq, client, link, now, app, wire, gone>>

FlushSendIce ==
  /\ flush.pc = "sendIce"
  /\ LET c == batch.ice[flush.i]
     IN IF sockUp
        THEN /\ Deliver([type |-> "ice", peer |-> c.peer, gen |-> c.gen])
             /\ Trickled /\ At("ice")
        ELSE Attempted /\ UNCHANGED wire
  /\ UNCHANGED <<pend, batchOut, purged, flushPeers, sending, wq, client, link, now, app, gone>>

FlushIceDone ==
  /\ flush.pc = "ice" /\ flush.i > Len(batch.ice)
  /\ At("merge")
  /\ UNCHANGED <<buffer, flushPeers, sending, wq, client, link, now, app, wire, gone>>

\* all went out and more came meanwhile: another round, in the end from the work queue
FlushMerge ==
  /\ flush.pc = "merge" /\ Unlocked
  /\ LET merged == Merged(pend, batch, purged)
     IN /\ pend' = merged.buf
        /\ gone' = gone \cup GivenUp(merged.out, "room")
  /\ batch' = Empty /\ batchOut' = FALSE /\ purged' = {} /\ flushPeers' = {}
  /\ IF Count(batch) = 0 /\ Count(pend') > 0
     THEN IF flush.round < MaxRounds
          THEN flush' = [Idle EXCEPT !.pc = "round", !.round = flush.round + 1] /\ wq' = wq
          ELSE flush' = Idle /\ WqAdd
     ELSE flush' = Idle /\ wq' = wq
  /\ UNCHANGED <<sending, client, link, now, app, wire>>

-----------------------------------------------------------------------------
(***************************************************************************)
(* freeKvsSignalingClient(): off the registry, a barrier through the work  *)
(* queue, and the free, or a leak when the barrier does not come back.     *)
(***************************************************************************)
\* a free that does not wait for the worker
CloseAtOnce ==
  /\ CanClose /\ client = "live" /\ Unlocked
  /\ client' = "freed"
  /\ UNCHANGED <<buffer, psWorker, sending, wq, link, now, app, wire, gone>>

Close ==
  /\ CanClose /\ client = "live" /\ Unlocked
  /\ IF Len(wq) < WqSize
     THEN client' = "closing" /\ wq' = Append(wq, "sync")
     ELSE client' = "leaked" /\ wq' = wq
  /\ UNCHANGED <<buffer, psWorker, sending, link, now, app, wire, gone>>

CloseSyncReturns ==
  /\ flush.pc = "idle" /\ wq # <<>> /\ Head(wq) = "sync"
  /\ wq' = Tail(wq)
  /\ IF client = "closing"
     THEN client' = "freed" /\ pend' = Empty /\ UNCHANGED <<batch, batchOut, purged>>
     ELSE UNCHANGED <<client, buffer>>
  /\ UNCHANGED <<psWorker, sending, link, now, app, wire, gone>>

CloseSyncTimesOut ==
  /\ client = "closing"
  /\ client' = "leaked"
  /\ UNCHANGED <<buffer, psWorker, sending, wq, link, now, app, wire, gone>>

WorkerStep ==
  \/ FlushStart \/ FlushTake \/ FlushAnswer \/ FlushSendAnswer \/ FlushAnswersDone
  \/ FlushIce \/ FlushSendIce \/ FlushIceDone \/ FlushMerge \/ CloseSyncReturns

LinkStep == SocketDrops \/ SocketOpens \/ StateLeaves \/ StateConnected

\* nothing queued and nobody working: the system waits for its surroundings
Rest ==
  /\ flush.pc = "idle" /\ wq = <<>> /\ Unlocked
  /\ UNCHANGED psVars

PsNext ==
  \/ LinkStep \/ PsTick
  \/ \E p \in Peers : SendAnswer(p) \/ SendCandidate(p) \/ Purge(p)
  \/ BufferFailedSend
  \/ WorkerStep
  \/ Close \/ CloseSyncTimesOut
  \/ Rest

PsSpec == PsInit /\ [][PsNext]_psVars

\* The worker and a sender run to their end; a lost websocket is noticed, not always replaced
PsFairSpec == PsSpec /\ WF_psVars(WorkerStep) /\ WF_psVars(BufferFailedSend)

-----------------------------------------------------------------------------
(***************************************************************************)
(* Properties.                                                             *)
(***************************************************************************)

\* No viewer gets an answer after a candidate that belongs to it, whichever way (direct
\* send, buffer, batch, merge) the two of them took: it would have rejected the candidate.
AnswerBeforeCandidates ==
  \A p \in Peers : \A i, j \in DOMAIN wire[p] :
    i < j /\ wire[p][i].type = "ice" /\ wire[p][j].type = "answer"
      => wire[p][i].gen # wire[p][j].gen

\* No viewer gets an older answer after a newer one, or the same one twice, although
\* flushes re-send old answers while new ones go out directly.
NewestAnswerLast ==
  \A p \in Peers : \A i, j \in DOMAIN wire[p] :
    i < j /\ wire[p][i].type = "answer" /\ wire[p][j].type = "answer"
      => wire[p][i].gen < wire[p][j].gen

\* What reaches a viewer is in an order it can use, whichever way (direct send, buffer,
\* batch, merge) each message took: an answer before its candidates, the newest one last.
DeliveryOrder == AnswerBeforeCandidates /\ NewestAnswerLast

\* What was buffered for a viewer that left is forgotten: it is not in the buffer, and the
\* copy in a running flush's batch is on the list that keeps it from being merged back.
\* The code promises it for KVS_PENDING_PURGED_MAX viewers.
DepartedForgotten ==
  \A p \in Peers :
    LET old(s) == \E i \in DOMAIN s : s[i].peer = p /\ s[i].gen <= left[p]
    IN /\ ~old(pend.answers) /\ ~old(pend.ice)
       /\ old(batch.answers) \/ old(batch.ice) => p \in purged

\* The answer to the last offer of a viewer who is still there has reached the viewer, is
\* waiting to be sent, or was given up for one of the reasons the code names (no slot,
\* too old, an error the caller got): no purge, merge or take loses it on the way.
NoAnswerVanishes ==
  client = "live" =>
    \A p \in Peers : gen[p] > left[p] =>
      LET last(s) == \E i \in DOMAIN s : s[i].peer = p /\ s[i].gen = gen[p]
      IN \/ \E i \in DOMAIN wire[p] : wire[p][i] = [type |-> "answer", gen |-> gen[p]]
         \/ last(pend.answers) \/ last(batch.answers)
         \/ sending = [type |-> "answer", peer |-> p, gen |-> gen[p]]
         \/ \E d \in gone : d.peer = p /\ d.gen = gen[p]

\* Nobody is inside a freed client: freeKvsSignalingClient() has drained the work queue,
\* and a flush queued later is turned away by the registry before it touches anything.
FreedUnused == client = "freed" => flush.pc = "idle" /\ sending = NoMessage

\* Once the link stays up, whatever was buffered is sent or given up, also when messages
\* came in behind a running flush or a flush ran out of rounds.
BacklogDrains ==
  <>[](connected /\ sockUp /\ client = "live") => <>[](Count(pend) + Count(batch) = 0)

\* A buffered message goes out in order and in time, or is given up where the code says so:
\* it neither vanishes nor reaches a peer that left, nor is a closed client used for it.
PendingSound == DeliveryOrder /\ NoAnswerVanishes /\ DepartedForgotten /\ FreedUnused
=============================================================================
