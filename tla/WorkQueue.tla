----------------------------- MODULE WorkQueue ------------------------------
(***************************************************************************)
(* components/esp_webrtc_utils/src/esp_work_queue.c: the queue of deferred *)
(* work with its one worker task, and esp_work_queue_sync(), by which a    *)
(* client waits, before it frees what queued work refers to, until that    *)
(* work has run.                                                           *)
(*                                                                         *)
(* The ring is that of the Linux target; the chips use a FreeRTOS queue,   *)
(* which is the same FIFO but must not be deleted under a waiting sender.  *)
(* One control task starts and stops the queue.                            *)
(***************************************************************************)
EXTENDS Naturals, Sequences, FiniteSets

CONSTANTS Tasks,     \* pieces of work, each queued once
          Syncs,     \* calls of esp_work_queue_sync()
          Forever,   \* those with timeout_ms == 0
          Size,      \* config->size
          NoEntry

ASSUME SizeAssumption == Size \in Nat \ {0}
ASSUME EntriesAssumption == Tasks \cap Syncs = {} /\ NoEntry \notin Tasks \cup Syncs
ASSUME CallersAssumption == Forever \subseteq Syncs

Entries == Tasks \cup Syncs

VARIABLES state,  \* queue_state
          ready,  \* WORK_QUEUE_READY()
          items,  \* s_wq_items
          head,   \* s_wq_head
          wqCount,  \* s_wq_count
          ctl,    \* where the control task is
          worker, \* where the worker task is
          cur,    \* the entry the worker runs
          task,   \* what became of each piece of work
          sync,   \* where each sync is
          sem,    \* its semaphore
          posted, \* entries in the order they were queued
          ran,    \* entries in the order they were run
          ahead   \* work queued and not done when a sync's barrier was queued

ring == <<items, head, wqCount>>
wqVars == <<state, ready, ring, ctl, worker, cur, task, sync, sem, posted, ran, ahead>>

RingSlots == 0..(Size - 1)

Queued == {items[(head + i) % Size] : i \in 0..(wqCount - 1)}

WqTypeOK ==
  /\ state \in {"deinit", "init_done", "running", "stop_requested"}
  /\ ready \in BOOLEAN
  /\ items \in [RingSlots -> Entries \cup {NoEntry}]
  /\ head \in RingSlots /\ wqCount \in 0..Size
  /\ ctl \in {"idle", "started", "stopping"}
  /\ worker \in {"none", "top", "get", "busy"}
  /\ cur \in Entries \cup {NoEntry}
  /\ task \in [Tasks -> {"new", "waiting", "queued", "done", "failed", "dropped"}]
  /\ sync \in [Syncs -> {"idle", "adding", "taking", "ok", "timeout", "refused"}]
  /\ sem \in [Syncs -> {"none", "made", "given", "deleted"}]
  /\ posted \in Seq(Entries) /\ ran \in Seq(Entries)
  /\ ahead \in [Syncs -> SUBSET Tasks]

WqInit ==
  /\ state = "deinit" /\ ready = FALSE
  /\ items = [i \in RingSlots |-> NoEntry] /\ head = 0 /\ wqCount = 0
  /\ ctl = "idle" /\ worker = "none" /\ cur = NoEntry
  /\ task = [t \in Tasks |-> "new"]
  /\ sync = [s \in Syncs |-> "idle"]
  /\ sem = [s \in Syncs |-> "none"]
  /\ posted = <<>> /\ ran = <<>>
  /\ ahead = [s \in Syncs |-> {}]

clients == <<task, sync, sem, posted, ran, ahead>>

-----------------------------------------------------------------------------
(***************************************************************************)
(* The control task.                                                       *)
(***************************************************************************)

\* Creating the queue may fail; an initialised one is left as it is.
WqInitWithConfig ==
  /\ ctl = "idle" /\ state = "deinit"
  /\ state' = "init_done" /\ ready' = TRUE
  /\ items' = [i \in RingSlots |-> NoEntry] /\ head' = 0 /\ wqCount' = 0
  /\ UNCHANGED <<ctl, worker, cur, clients>>

\* The worker task runs before the state says so; creating it may fail.
Start ==
  /\ ctl = "idle" /\ state = "init_done"
  /\ worker' = "top" /\ ctl' = "started"
  /\ UNCHANGED <<state, ready, ring, cur, clients>>

Started ==
  /\ ctl = "started"
  /\ state' = "running" /\ ctl' = "idle"
  /\ UNCHANGED <<ready, ring, worker, cur, clients>>

StopRequested == IF state = "running" THEN "stop_requested" ELSE state

Stop ==
  /\ ctl = "idle" /\ state = "running"
  /\ state' = StopRequested
  /\ UNCHANGED <<ready, ring, ctl, worker, cur, clients>>

\* deinit() stops the queue and waits for the worker to go.
WqDeinit ==
  /\ ctl = "idle" /\ state # "deinit"
  /\ state' = StopRequested /\ ctl' = "stopping"
  /\ UNCHANGED <<ready, ring, worker, cur, clients>>

\* wq_delete().  What is queued is lost; a sender that waits finds no queue.
Delete ==
  /\ ctl = "stopping" /\ state = "init_done"
  /\ ready' = FALSE /\ state' = "deinit" /\ ctl' = "idle"
  /\ wqCount' = 0
  /\ task' = [t \in Tasks |-> IF t \in Queued THEN "dropped" ELSE task[t]]
  /\ posted' = ran
  /\ UNCHANGED <<items, head, worker, cur, sync, sem, ran, ahead>>

-----------------------------------------------------------------------------
(***************************************************************************)
(* Queueing.                                                               *)
(***************************************************************************)

HasRoom == ready /\ wqCount < Size

\* Mutant: the new entry goes to the head.
TrySendFront(e) ==
  /\ HasRoom
  /\ head' = (head + Size - 1) % Size
  /\ items' = [items EXCEPT ![head'] = e]
  /\ wqCount' = wqCount + 1
  /\ posted' = Append(posted, e)

\* Mutant: the room is not checked.
TrySendUnchecked(e) ==
  /\ ready
  /\ items' = [items EXCEPT ![(head + wqCount) % Size] = e]
  /\ wqCount' = wqCount + 1
  /\ posted' = Append(posted, e)
  /\ UNCHANGED head

\* wq_try_send()
TrySend(e) ==
  /\ HasRoom
  /\ items' = [items EXCEPT ![(head + wqCount) % Size] = e]
  /\ wqCount' = wqCount + 1
  /\ posted' = Append(posted, e)
  /\ UNCHANGED head

\* add_task(), which does not wait.
AddTask(t) ==
  /\ task[t] = "new"
  /\ \/ TrySend(t) /\ task' = [task EXCEPT ![t] = "queued"]
     \/ ~HasRoom /\ task' = [task EXCEPT ![t] = "failed"] /\ UNCHANGED <<ring, posted>>
  /\ UNCHANGED <<state, ready, ctl, worker, cur, sync, sem, ran, ahead>>

\* add_task_timeout(), which waits for room.
AddTaskWaits(t) ==
  /\ task[t] = "new" /\ ready
  /\ task' = [task EXCEPT ![t] = "waiting"]
  /\ UNCHANGED <<state, ready, ring, ctl, worker, cur, sync, sem, posted, ran, ahead>>

AddTaskSends(t) ==
  /\ task[t] = "waiting"
  /\ TrySend(t)
  /\ task' = [task EXCEPT ![t] = "queued"]
  /\ UNCHANGED <<state, ready, ctl, worker, cur, sync, sem, ran, ahead>>

AddTaskTimesOut(t) ==
  /\ task[t] = "waiting" /\ ~HasRoom
  /\ task' = [task EXCEPT ![t] = "failed"]
  /\ UNCHANGED <<state, ready, ring, ctl, worker, cur, sync, sem, posted, ran, ahead>>

-----------------------------------------------------------------------------
(***************************************************************************)
(* esp_work_queue_sync().                                                  *)
(***************************************************************************)

SyncCall(s) ==
  /\ sync[s] = "idle" /\ ready
  /\ sync' = [sync EXCEPT ![s] = "adding"]
  /\ sem' = [sem EXCEPT ![s] = "made"]
  /\ UNCHANGED <<state, ready, ring, ctl, worker, cur, task, posted, ran, ahead>>

SyncAdds(s) ==
  /\ sync[s] = "adding"
  /\ TrySend(s)
  /\ sync' = [sync EXCEPT ![s] = "taking"]
  /\ ahead' = [ahead EXCEPT ![s] = {t \in Tasks : task[t] = "queued"}]
  /\ UNCHANGED <<state, ready, ctl, worker, cur, task, sem, ran>>

\* The barrier does not fit in time; without a time limit it is tried again as
\* long as there is a queue.
SyncAddFails(s) ==
  /\ sync[s] = "adding" /\ ~HasRoom
  /\ s \in Forever => ~ready
  /\ sync' = [sync EXCEPT ![s] = IF s \in Forever THEN "refused" ELSE "timeout"]
  /\ sem' = [sem EXCEPT ![s] = "deleted"]
  /\ UNCHANGED <<state, ready, ring, ctl, worker, cur, task, posted, ran, ahead>>

SyncTakes(s) ==
  /\ sync[s] = "taking" /\ sem[s] = "given"
  /\ sync' = [sync EXCEPT ![s] = "ok"]
  /\ sem' = [sem EXCEPT ![s] = "deleted"]
  /\ UNCHANGED <<state, ready, ring, ctl, worker, cur, task, posted, ran, ahead>>

\* Mutant: the semaphore is deleted also when the barrier may still come.
SyncTimesOutDeleting(s) ==
  /\ sync[s] = "taking" /\ s \notin Forever /\ sem[s] # "given"
  /\ sync' = [sync EXCEPT ![s] = "timeout"]
  /\ sem' = [sem EXCEPT ![s] = "deleted"]
  /\ UNCHANGED <<state, ready, ring, ctl, worker, cur, task, posted, ran, ahead>>

\* The semaphore is left behind.
SyncTimesOut(s) ==
  /\ sync[s] = "taking" /\ s \notin Forever /\ sem[s] # "given"
  /\ sync' = [sync EXCEPT ![s] = "timeout"]
  /\ UNCHANGED <<state, ready, ring, ctl, worker, cur, task, sem, posted, ran, ahead>>

-----------------------------------------------------------------------------
(***************************************************************************)
(* The worker task.                                                        *)
(***************************************************************************)

WorkerTop ==
  /\ worker = "top" /\ state # "stop_requested"
  /\ worker' = "get"
  /\ UNCHANGED <<state, ready, ring, ctl, cur, clients>>

WorkerExits ==
  /\ worker = "top" /\ state = "stop_requested"
  /\ worker' = "none" /\ state' = "init_done"
  /\ UNCHANGED <<ready, ring, ctl, cur, clients>>

\* Mutant: the worker does not move on.
WorkerTakesStill ==
  /\ worker = "get" /\ ready /\ wqCount > 0
  /\ cur' = items[head]
  /\ wqCount' = wqCount - 1
  /\ ran' = Append(ran, cur')
  /\ worker' = "busy"
  /\ UNCHANGED <<state, ready, items, head, ctl, task, sync, sem, posted, ahead>>

\* wq_receive()
WorkerTakes ==
  /\ worker = "get" /\ ready /\ wqCount > 0
  /\ cur' = items[head]
  /\ head' = (head + 1) % Size
  /\ wqCount' = wqCount - 1
  /\ ran' = Append(ran, cur')
  /\ worker' = "busy"
  /\ UNCHANGED <<state, ready, items, ctl, task, sync, sem, posted, ahead>>

WorkerFindsNothing ==
  /\ worker = "get" /\ ~(ready /\ wqCount > 0)
  /\ worker' = "top"
  /\ UNCHANGED <<state, ready, ring, ctl, cur, clients>>

\* Mutant: the entry is replaced by the next one before it was run.
WorkerRunsNothing ==
  /\ worker = "busy"
  /\ cur' = NoEntry
  /\ worker' = "get"
  /\ UNCHANGED <<state, ready, ring, ctl, task, sync, sem, posted, ran, ahead>>

\* The work is done, or the barrier gives its semaphore; then the next entry is
\* taken before the state is looked at again.
WorkerRuns ==
  /\ worker = "busy"
  /\ \/ cur \in Tasks /\ task' = [task EXCEPT ![cur] = "done"] /\ UNCHANGED sem
     \/ /\ cur \in Syncs /\ UNCHANGED task
        /\ sem' = [sem EXCEPT ![cur] = IF @ = "made" THEN "given" ELSE @]
  /\ cur' = NoEntry
  /\ worker' = "get"
  /\ UNCHANGED <<state, ready, ring, ctl, sync, posted, ran, ahead>>

-----------------------------------------------------------------------------
Control == WqInitWithConfig \/ Start \/ Started \/ Stop \/ WqDeinit \/ Delete

Worker == WorkerTop \/ WorkerExits \/ WorkerTakes \/ WorkerFindsNothing \/ WorkerRuns

PostStep(t) == AddTaskSends(t) \/ AddTaskTimesOut(t)

SyncStep(s) == SyncAdds(s) \/ SyncAddFails(s) \/ SyncTakes(s) \/ SyncTimesOut(s)

WqNext ==
  \/ Control \/ Worker
  \/ \E t \in Tasks : AddTask(t) \/ AddTaskWaits(t) \/ PostStep(t)
  \/ \E s \in Syncs : SyncCall(s) \/ SyncStep(s)

WqSpec == WqInit /\ [][WqNext]_wqVars

\* The queue is started, the worker runs and so do the callers.  A sync without
\* a time limit is not overtaken for ever by others that want the last room.
WqFairness ==
  /\ WF_wqVars(WqInitWithConfig) /\ WF_wqVars(Start) /\ WF_wqVars(Started)
  /\ WF_wqVars(Worker)
  /\ \A t \in Tasks : WF_wqVars(PostStep(t))
  /\ \A s \in Syncs : SF_wqVars(SyncStep(s))

WqFairSpec == WqSpec /\ WqFairness

-----------------------------------------------------------------------------
\* Work is run in the order it was queued, across the wrap-around of the ring.
RunInOrder ==
  /\ Len(ran) =< Len(posted)
  /\ \A i \in 1..Len(ran) : ran[i] = posted[i]

\* When a sync has returned ESP_OK everything that was queued before its barrier
\* has run to the end, so its caller may free what that work refers to
\* (esp_work_queue.h, esp_work_queue_sync()).
SyncDrains ==
  \A s \in Syncs : sync[s] = "ok" => \A t \in ahead[s] : task[t] = "done"

\* A barrier that can still run has its semaphore: a sync that gave up leaves
\* it behind ("leak it rather than risk a use-after-free on the handle").
BarrierHasSemaphore ==
  \A s \in Queued \cap Syncs : sem[s] # "deleted"

\* What a client that syncs before it frees relies on: work runs in the order it
\* was queued, a sync that returned ESP_OK has outlasted everything before it,
\* and a sync that gave up leaves no barrier with a deleted semaphore.
SyncSafe == RunInOrder /\ SyncDrains /\ BarrierHasSemaphore

StopAsked == state = "stop_requested" \/ ctl = "stopping"

\* Unless the queue is stopped all queued work is run in the end, also what was
\* queued before esp_work_queue_start() ...
TasksRun == \A t \in Tasks : (task[t] = "queued") ~> (task[t] = "done" \/ StopAsked)

\* ... and every sync returns, also one that waits indefinitely.
SyncReturns ==
  \A s \in Syncs : (sync[s] = "adding")
                     ~> (sync[s] \in {"ok", "timeout", "refused"} \/ StopAsked)
=============================================================================
