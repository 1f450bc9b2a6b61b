----------------------------- MODULE ThreadPool -----------------------------
(***************************************************************************)
(* kvs_utils/src: ThreadPool.c with the queue it takes its tasks from      *)
(* (ThreadSafeBlockingQueue.c) and that queue's counting semaphore         *)
(* (semaphore.c).  The semaphore's permit count is changed atomically      *)
(* outside its lock, and a release signals its condition variable without  *)
(* the lock, so a thread between "no permit left" and its wait is a state  *)
(* of its own.                                                             *)
(***************************************************************************)
EXTENDS Integers, Sequences, FiniteSets, SequencesExt

CONSTANTS Actors,      \* thread data blocks that can exist at a time (bound)
          Pushers,     \* threads that call threadpoolPush() / threadpoolTryAdd()
          MinThreads, MaxThreads,
          MaxTasks,    \* bound on the tasks pushed
          MaxTerm      \* bound on the termination tasks sent

ASSUME TpAssumption ==
  /\ MinThreads \in Nat \ {0} /\ MaxThreads \in Nat /\ MinThreads <= MaxThreads
  /\ MaxThreads <= Cardinality(Actors)
  /\ MaxTasks \in Nat /\ MaxTerm \in Nat

VARIABLES terminate,  \* pThreadpool->terminate
          threadList, \* pThreadpool->threadList
          available,  \* pThreadpool->availableThreads
          actor,      \* per thread data: pc, task, terminate
          tasks,      \* pThreadpool->taskQueue, its stack queue
          permits,    \* its semaphore's permitCount
          pusher,     \* per pusher: pc, spaceAvailable, count, kind
          freer,      \* threadpoolFree(): pc, sent
          temp,       \* its mutex, its semaphore and finishedTerminationTasks
          pushed, ran, \* tasks pushed and tasks run (history)
          lost        \* a release signalled while a claimant was not waiting yet (history)

tpVars == <<terminate, threadList, available, actor, tasks, permits, pusher, freer, temp,
            pushed, ran, lost>>

Term == 0      \* a termination task; users' tasks are numbered from 1
NoTask == -1
NoActor == [pc |-> "none", task |-> NoTask, term |-> FALSE]


Asleep == {a \in Actors : actor[a].pc = "asleep"}

\* The pcs at which an actor holds its dataMutex.
HoldsData(a) == actor[a].pc \in {"acquire", "towait", "asleep", "dequeue", "check"}

TpInit ==
  /\ terminate = FALSE /\ available = 0
  /\ \E first \in SetToSeqs({a \in Actors : a <= MinThreads}) : threadList = first
  /\ actor = [a \in Actors |-> IF a <= MinThreads THEN [NoActor EXCEPT !.pc = "start"] ELSE NoActor]
  /\ tasks = <<>> /\ permits = 0
  /\ pusher = [p \in Pushers |-> [pc |-> "idle", space |-> FALSE, count |-> 0, try |-> FALSE]]
  /\ freer = [pc |-> "idle", sent |-> 0]
  /\ temp = [locked |-> FALSE, sem |-> 0, finished |-> 0]
  /\ pushed = 0 /\ ran = {} /\ lost = FALSE

----------------------------------------------------------------------------
(* semaphoreRelease(), k times: a release that finds the count negative    *)
(* signals one thread asleep at that moment, if there is one.              *)

Owed(k) == IF permits >= 0 THEN 0 ELSE IF -permits < k THEN -permits ELSE k

Release(k, woken) ==
  /\ permits' = permits + k
  /\ woken \subseteq Asleep
  /\ Cardinality(woken) = IF Owed(k) < Cardinality(Asleep) THEN Owed(k) ELSE Cardinality(Asleep)
  /\ lost' = (lost \/ Owed(k) > Cardinality(Asleep))
  /\ actor' = [a \in Actors |-> IF a \in woken THEN [actor[a] EXCEPT !.pc = "dequeue"] ELSE actor[a]]

----------------------------------------------------------------------------
(* threadpoolPush() and threadpoolTryAdd().                                *)

\* threadpoolInternalCanCreateThread()
PushLooks(p) ==
  /\ pusher[p].pc = "idle" /\ freer.pc = "idle"
  /\ pushed + Cardinality({q \in Pushers : pusher[q].pc \in {"count", "enqueue"}}) < MaxTasks
  /\ \E try \in BOOLEAN :
       pusher' = [pusher EXCEPT ![p] = [pc |-> "count", space |-> Len(threadList) < MaxThreads,
                                        count |-> 0, try |-> try]]
  /\ UNCHANGED <<terminate, threadList, available, actor, tasks, permits, freer, temp, pushed, ran, lost>>

\* threadpoolInternalInactiveThreadCount(), and TryAdd's refusal
PushCounts(p) ==
  /\ pusher[p].pc = "count"
  /\ LET n == IF available > Len(tasks) THEN available - Len(tasks) ELSE 0 IN
       pusher' = [pusher EXCEPT ![p].count = n,
                    ![p].pc = IF pusher[p].try /\ ~pusher[p].space /\ n = 0 THEN "idle" ELSE "enqueue"]
  /\ UNCHANGED <<terminate, threadList, available, actor, tasks, permits, freer, temp, pushed, ran, lost>>

\* safeBlockingQueueEnqueue(): the item under the queue's mutex, ...
PushEnqueues(p) ==
  /\ pusher[p].pc = "enqueue"
  /\ tasks' = Append(tasks, pushed + 1)
  /\ pushed' = pushed + 1
  /\ pusher' = [pusher EXCEPT ![p].pc = "release"]
  /\ UNCHANGED <<terminate, threadList, available, actor, permits, freer, temp, ran, lost>>

PushReleasesNothing(p) ==
  /\ pusher[p].pc = "release"
  /\ pusher' = [pusher EXCEPT ![p].pc =
                  IF pusher[p].count = 0 /\ (pusher[p].try \/ pusher[p].space) THEN "create" ELSE "idle"]
  /\ UNCHANGED <<terminate, threadList, available, actor, permits, lost, tasks, freer, temp, pushed, ran>>

\* ... then the permit.  A thread is created when none seemed inactive.
PushReleases(p) ==
  /\ pusher[p].pc = "release"
  /\ \E w \in SUBSET Asleep : Release(1, w)
  /\ pusher' = [pusher EXCEPT ![p].pc =
                  IF pusher[p].count = 0 /\ (pusher[p].try \/ pusher[p].space) THEN "create" ELSE "idle"]
  /\ UNCHANGED <<terminate, threadList, available, tasks, freer, temp, pushed, ran>>

\* threadpoolInternalCreateThread(): the list, then the thread.
PushCreates(p) ==
  /\ pusher[p].pc = "create"
  /\ \E a \in Actors :
       /\ actor[a].pc = "none" /\ \A b \in Actors : actor[b].pc = "none" => a <= b
       /\ threadList' = Append(threadList, a)
       /\ actor' = [actor EXCEPT ![a] = [NoActor EXCEPT !.pc = "start"]]
  /\ pusher' = [pusher EXCEPT ![p].pc = "idle"]
  /\ UNCHANGED <<terminate, available, tasks, permits, freer, temp, pushed, ran, lost>>

----------------------------------------------------------------------------
(* threadpoolActor().                                                      *)

To(a, pc) == actor' = [actor EXCEPT ![a].pc = pc]

\* The top of the loop, and the first look before it: under dataMutex.
ActorTop(a) ==
  /\ actor[a].pc \in {"start", "top"}
  /\ IF actor[a].term THEN To(a, "end") /\ UNCHANGED available
                      ELSE To(a, "acquire") /\ available' = available + 1
  /\ UNCHANGED <<terminate, threadList, tasks, permits, pusher, freer, temp, pushed, ran, lost>>

ActorAcquiresLate(a) ==
  /\ actor[a].pc = "acquire"
  /\ permits' = IF permits > 0 THEN permits - 1 ELSE permits
  /\ To(a, IF permits > 0 THEN "dequeue" ELSE "towait")
  /\ UNCHANGED <<terminate, threadList, available, tasks, pusher, freer, temp, pushed, ran, lost>>

\* semaphoreAcquireInternal(): the permit is taken first, the lock and the
\* wait come after.
ActorAcquires(a) ==
  /\ actor[a].pc = "acquire"
  /\ permits' = permits - 1
  /\ To(a, IF permits > 0 THEN "dequeue" ELSE "towait")
  /\ UNCHANGED <<terminate, threadList, available, tasks, pusher, freer, temp, pushed, ran, lost>>

ActorWaits(a) ==
  /\ actor[a].pc = "towait"
  /\ To(a, "asleep")
  /\ UNCHANGED <<terminate, threadList, available, tasks, permits, pusher, freer, temp, pushed, ran, lost>>

\* stackQueueDequeue() under the queue's mutex; an empty queue is an error
\* and leaves the actor without a task.
ActorDequeues(a) ==
  /\ actor[a].pc = "dequeue"
  /\ available' = available - 1
  /\ IF tasks = <<>>
     THEN /\ To(a, "after") /\ UNCHANGED tasks
     ELSE /\ actor' = [actor EXCEPT ![a].pc = "run", ![a].task = Head(tasks)]
          /\ tasks' = Tail(tasks)
  /\ UNCHANGED <<terminate, threadList, permits, pusher, freer, temp, pushed, ran, lost>>

\* A task of a user.
ActorRuns(a) ==
  /\ actor[a].pc = "run" /\ actor[a].task # Term
  /\ ran' = ran \cup {actor[a].task}
  /\ actor' = [actor EXCEPT ![a].pc = "after", ![a].task = NoTask]
  /\ UNCHANGED <<terminate, threadList, available, tasks, permits, pusher, freer, temp, pushed, lost>>

\* threadpoolTermination(): blocked until threadpoolFree() gives its mutex.
ActorTerminates(a) ==
  /\ actor[a].pc = "run" /\ actor[a].task = Term
  /\ ~temp.locked
  /\ temp' = [temp EXCEPT !.sem = IF @ < MaxThreads THEN @ + 1 ELSE @, !.finished = @ + 1]
  /\ actor' = [actor EXCEPT ![a].pc = "after", ![a].task = NoTask]
  /\ UNCHANGED <<terminate, threadList, available, tasks, permits, pusher, freer, pushed, ran, lost>>

\* dataMutex again; with it held the actor waits for listMutex.
ActorAfter(a) ==
  /\ actor[a].pc = "after"
  /\ To(a, IF actor[a].term THEN "top" ELSE "check")
  /\ UNCHANGED <<terminate, threadList, available, tasks, permits, pusher, freer, temp, pushed, ran, lost>>

ActorChecksLoosely(a) ==
  /\ actor[a].pc = "check"
  /\ IF ~terminate /\ tasks = <<>> /\ Len(threadList) >= MinThreads
     THEN threadList' = Remove(threadList, a) /\ To(a, "end")
     ELSE UNCHANGED threadList /\ To(a, "top")
  /\ UNCHANGED <<terminate, available, tasks, permits, pusher, freer, temp, pushed, ran, lost>>

\* Leave when there is nothing to do and enough threads remain.
ActorChecks(a) ==
  /\ actor[a].pc = "check"
  /\ IF ~terminate /\ tasks = <<>> /\ Len(threadList) > MinThreads
     THEN threadList' = Remove(threadList, a) /\ To(a, "end")
     ELSE UNCHANGED threadList /\ To(a, "top")
  /\ UNCHANGED <<terminate, available, tasks, permits, pusher, freer, temp, pushed, ran, lost>>

\* The data block is freed.
ActorEnds(a) ==
  /\ actor[a].pc = "end"
  /\ actor' = [actor EXCEPT ![a] = NoActor]
  /\ UNCHANGED <<terminate, threadList, available, tasks, permits, pusher, freer, temp, pushed, ran, lost>>

----------------------------------------------------------------------------
(* threadpoolFree(), called once no push is under way.                     *)

FreeStarts ==
  /\ freer.pc = "idle" /\ \A p \in Pushers : pusher[p].pc = "idle"
  /\ terminate' = TRUE
  /\ temp' = [temp EXCEPT !.locked = TRUE]
  /\ freer' = [freer EXCEPT !.pc = IF tasks = <<>> THEN "list" ELSE "drain"]
  /\ UNCHANGED <<threadList, available, actor, tasks, permits, pusher, pushed, ran, lost>>

\* safeBlockingQueueClear(): first the permits that are there, ...
FreeDrains ==
  /\ freer.pc = "drain"
  /\ permits' = IF permits > 0 THEN 0 ELSE permits
  /\ freer' = [freer EXCEPT !.pc = "clear"]
  /\ UNCHANGED <<terminate, threadList, available, actor, tasks, pusher, temp, pushed, ran, lost>>

\* ... then the items.
FreeClears ==
  /\ freer.pc = "clear"
  /\ tasks' = <<>>
  /\ freer' = [freer EXCEPT !.pc = "list"]
  /\ UNCHANGED <<terminate, threadList, available, actor, permits, pusher, temp, pushed, ran, lost>>

\* The threads at the head of the list whose dataMutex can be had.
Reachable == IF \E i \in 1 .. Len(threadList) : HoldsData(threadList[i])
             THEN SubSeq(threadList, 1, (CHOOSE i \in 1 .. Len(threadList) :
                           /\ HoldsData(threadList[i])
                           /\ \A j \in 1 .. i - 1 : ~HoldsData(threadList[j])) - 1)
             ELSE threadList

FreeListsOnce ==
  /\ freer.pc = "list"
  /\ threadList' = <<>>
  /\ actor' = [a \in Actors |-> IF a \in ToSet(threadList) /\ ~HoldsData(a)
                                THEN [actor[a] EXCEPT !.term = TRUE] ELSE actor[a]]
  /\ freer' = [freer EXCEPT !.pc = "await"]
  /\ UNCHANGED <<terminate, available, tasks, permits, pusher, temp, pushed, ran, lost>>

FreeListsMute ==
  /\ freer.pc = "list"
  /\ threadList' = SubSeq(threadList, Len(Reachable) + 1, Len(threadList))
  /\ actor' = [a \in Actors |-> IF a \in ToSet(Reachable) THEN [actor[a] EXCEPT !.term = TRUE] ELSE actor[a]]
  /\ freer' = [freer EXCEPT !.pc = IF threadList' = <<>> THEN "await" ELSE "list"]
  /\ UNCHANGED <<terminate, available, tasks, permits, pusher, temp, pushed, ran, lost>>

\* One round under listMutex: those are told to end and taken off the list;
\* at the first whose mutex is held every thread left is sent a task.
FreeLists ==
  /\ freer.pc = "list"
  /\ LET rest == SubSeq(threadList, Len(Reachable) + 1, Len(threadList))
         k == Len(rest)
     IN /\ freer.sent + k <= MaxTerm
        /\ threadList' = rest
        /\ \E w \in SUBSET Asleep :     \* Release(k, w), with the flags
             /\ permits' = permits + k
             /\ Cardinality(w) = IF Owed(k) < Cardinality(Asleep) THEN Owed(k) ELSE Cardinality(Asleep)
             /\ lost' = (lost \/ Owed(k) > Cardinality(Asleep))
             /\ actor' = [a \in Actors |->
                            IF a \in ToSet(Reachable) THEN [actor[a] EXCEPT !.term = TRUE]
                            ELSE IF a \in w THEN [actor[a] EXCEPT !.pc = "dequeue"] ELSE actor[a]]
        /\ tasks' = tasks \o [i \in 1 .. k |-> Term]
        /\ freer' = [pc |-> IF k = 0 THEN "await" ELSE "list", sent |-> freer.sent + k]
  /\ UNCHANGED <<terminate, available, pusher, temp, pushed, ran>>

\* while (finished < sent): with the mutex given back Free takes what is
\* left of the queue itself, ...
FreeAwaitsTasks ==
  /\ freer.pc = "await"
  /\ IF temp.finished < freer.sent
     THEN /\ temp' = [temp EXCEPT !.locked = FALSE]
          /\ freer' = [freer EXCEPT !.pc = "help"]
     ELSE /\ freer' = [freer EXCEPT !.pc = "freed"]
          /\ temp' = [temp EXCEPT !.locked = FALSE]
  /\ UNCHANGED <<terminate, threadList, available, actor, tasks, permits, pusher, pushed, ran, lost>>

FreeHelps ==
  /\ freer.pc = "help"
  /\ IF tasks = <<>>
     THEN UNCHANGED <<tasks, permits, temp>>
     ELSE /\ permits > 0
          /\ permits' = permits - 1
          /\ tasks' = Tail(tasks)
          /\ temp' = [temp EXCEPT !.sem = IF @ < MaxThreads THEN @ + 1 ELSE @, !.finished = @ + 1]
  /\ freer' = [freer EXCEPT !.pc = "take"]
  /\ UNCHANGED <<terminate, threadList, available, actor, pusher, pushed, ran, lost>>

\* ... and waits for one termination more.
FreeTakes ==
  /\ freer.pc = "take" /\ temp.sem > 0
  /\ temp' = [temp EXCEPT !.sem = @ - 1, !.locked = TRUE]
  /\ freer' = [freer EXCEPT !.pc = "await"]
  /\ UNCHANGED <<terminate, threadList, available, actor, tasks, permits, pusher, pushed, ran, lost>>

----------------------------------------------------------------------------
ActorStep(a) ==
  \/ ActorTop(a) \/ ActorAcquires(a) \/ ActorWaits(a) \/ ActorDequeues(a) \/ ActorRuns(a)
  \/ ActorTerminates(a) \/ ActorAfter(a) \/ ActorChecks(a) \/ ActorEnds(a)
PushStep(p) == PushCounts(p) \/ PushEnqueues(p) \/ PushReleases(p) \/ PushCreates(p)
FreeStep == FreeDrains \/ FreeClears \/ FreeLists \/ FreeAwaitsTasks \/ FreeHelps \/ FreeTakes

TpNext ==
  \/ \E p \in Pushers : PushLooks(p) \/ PushStep(p)
  \/ \E a \in Actors : ActorStep(a)
  \/ FreeStarts \/ FreeStep

TpFair == /\ \A a \in Actors : WF_tpVars(ActorStep(a))
          /\ \A p \in Pushers : WF_tpVars(PushStep(p))
          /\ WF_tpVars(FreeStep)
TpSpec == TpInit /\ [][TpNext]_tpVars /\ TpFair

----------------------------------------------------------------------------
(* Once the pool and its queue are freed (lines 453-458) no actor can      *)
(* touch them: each one left has been told to end and holds no task of     *)
(* Free's stack.                                                           *)
PoolUntouched ==
  freer.pc = "freed" =>
    \A a \in Actors : actor[a].pc # "none" =>
       /\ actor[a].pc \in {"start", "top", "run", "after", "end"}
       /\ actor[a].pc # "end" => actor[a].term
       /\ actor[a].task # Term

(* The semaphore and the queue agree: the permits are the queued items     *)
(* less the claims on them, while enqueue adds the item first and the      *)
(* permit later (lines 224-229) and dequeue the other way round.           *)
Claims == Cardinality({a \in Actors : actor[a].pc \in {"towait", "asleep", "dequeue"}})
Unreleased == Cardinality({p \in Pushers : pusher[p].pc = "release"})
PermitsMatch == ~terminate => permits = Len(tasks) - Claims - Unreleased

(* The pool never falls below its minimum while it is in use, however many *)
(* actors find the queue empty at once (line 137).                         *)
MinimumKept == ~terminate => Len(threadList) >= MinThreads

\* The pool keeps its threads, its tasks and its permits together from creation to free.
PoolSound == PoolUntouched /\ PermitsMatch /\ MinimumKept
=============================================================================
