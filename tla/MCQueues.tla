------------------------------ MODULE MCQueues ------------------------------
(***************************************************************************)
(* The queues of the system, one in each behaviour: "messages" the message *)
(* queue, "work" the work queue, "pending" the buffer of messages that wait*)
(* for the link, and "retry" the loop that gets the link back.  The parts  *)
(* share no variable.  The buffer is run twice: as "pending" answers age   *)
(* and the client stays, as "closing" it is freed and no answer expires.   *)
(***************************************************************************)
EXTENDS MessageQueue, WorkQueue, PendingSignaling, SignalingRetry

\* The first of retryDelays, in units of 5 seconds.
ShortDelays == <<1, 2, 4>>

VARIABLE part

queueVars == <<vars, wqVars, psVars, srVars, part>>

MessagesPart(A) == part = "messages" /\ A /\ UNCHANGED <<wqVars, psVars, srVars, part>>
WorkPart(A) == part = "work" /\ A /\ UNCHANGED <<vars, psVars, srVars, part>>
PendingPart(A) ==
  /\ \/ part = "pending" /\ A /\ client' = "live"
     \/ part = "closing" /\ A /\ now' = 0
  /\ UNCHANGED <<vars, wqVars, srVars, part>>
RetryPart(A) == part = "retry" /\ A /\ UNCHANGED <<vars, wqVars, psVars, part>>

QueuesInit ==
  /\ Init /\ WqInit /\ PsInit /\ SrInit
  /\ part \in {"messages", "work", "pending", "closing", "retry"}
  /\ part # "messages" => target = "chip" /\ ~rejectNew
  /\ part # "retry" => sig = "up"

QueuesNext ==
  MessagesPart(Next) \/ WorkPart(WqNext) \/ PendingPart(PsNext) \/ RetryPart(SrNext)

\* The fairness of WqFairSpec, PsFairSpec and SrFairSpec, of the part that runs.
QueuesSpec ==
  /\ QueuesInit /\ [][QueuesNext]_queueVars
  /\ WF_queueVars(WorkPart(WqInitWithConfig)) /\ WF_queueVars(WorkPart(Start))
  /\ WF_queueVars(WorkPart(Started)) /\ WF_queueVars(WorkPart(Worker))
  /\ \A t \in Tasks : WF_queueVars(WorkPart(PostStep(t)))
  /\ \A s \in Syncs : SF_queueVars(WorkPart(SyncStep(s)))
  /\ WF_queueVars(PendingPart(WorkerStep)) /\ WF_queueVars(PendingPart(BufferFailedSend))
  /\ SF_queueVars(RetryPart(Pass)) /\ WF_queueVars(RetryPart(Attempt))
  /\ WF_queueVars(RetryPart(Tick))
  /\ WF_queueVars(RetryPart(ConnectedCallback)) /\ WF_queueVars(RetryPart(ErrorCallback))
=============================================================================
