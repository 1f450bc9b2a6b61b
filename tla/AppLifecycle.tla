---------------------------- MODULE AppLifecycle ----------------------------
(***************************************************************************)
(* components/app_webrtc/src/app_webrtc.c: app_webrtc_init(),              *)
(* app_webrtc_run(), app_webrtc_terminate() and the run task they start    *)
(* and stop.                                                               *)
(*                                                                         *)
(* The run task initialises the clients, runs the loop sessionCleanupWait()*)
(* and, once it left the loop, tears down what it ran with; a terminate    *)
(* raises appTerminateFlag, wakes the loop and waits.  With no run task the*)
(* terminate tears down itself.  gRunTaskLock makes the decision and the   *)
(* access to the context one step against the run task's own teardown.     *)
(*                                                                         *)
(* The owner calls init() and run(); the owner, other application tasks    *)
(* and a callback of the signaling thread, which holds the context lock,   *)
(* call terminate().  Sessions are the subject of AppSession.              *)
(***************************************************************************)
EXTENDS Naturals, FiniteSets

CONSTANTS Contexts, \* contexts and their run tasks, each used once
          Owner,    \* the task that initialises and runs
          Others,   \* other application tasks
          SigThread,   \* the signaling thread
          NoOne,
          EagerInit \* init() may be called during a teardown

Callers == {Owner, SigThread} \cup Others

Actors == Callers \cup Contexts

ASSUME ActorsAssumption ==
  /\ Owner # SigThread
  /\ Others \cap {Owner, SigThread} = {}
  /\ Contexts \cap Callers = {}
  /\ NoOne \notin Actors
ASSUME OptionsAssumption == EagerInit \in BOOLEAN

VARIABLES linux,       \* CONFIG_IDF_TARGET_LINUX: the run task deletes itself
          initialized, \* gapp_webrtc_initialized
          config,      \* the init() gWebRtcAppConfig was filled by
          context,     \* gSampleConfiguration
          allocated,   \* contexts that exist
          client,      \* the run that made gSignalingClientData
          handle,      \* gWebRtcRunTaskHandle
          tearingDown, \* gRunTaskTearingDown
          done,        \* gRunTaskDone
          busy,        \* gTerminateTeardownBusy
          terminate,   \* contexts whose appTerminateFlag is set
          reconnect,   \* contexts whose reconnectInProgress is set
          objLock,     \* holder of the context lock
          runLock,     \* holder of gRunTaskLock across steps
          notified,    \* the condition variable was broadcast to the loop
          pc,          \* where each actor is
          woken,       \* a terminate's local woken
          goal       \* context of the call the actor is in

shared == <<initialized, config, context, allocated, client>>
flags == <<handle, tearingDown, done, busy>>
locks == <<objLock, runLock, notified>>
alVars == <<linux, shared, flags, terminate, reconnect, locks, pc, woken, goal>>

\* Both the run task and a terminate run app_webrtc_teardown().
TeardownPlaces == {"drain", "free", "context", "uninit", "reset"}

CallerPlaces ==
  {"idle", "initctx", "run", "create", "created", "term", "alive",
   "wait", "wake", "reap", "release"}

TaskPlaces ==
  {"none", "boot", "init", "inited", "connect", "loop", "pass", "reconnect",
   "relock", "tail", "drowsy", "asleep", "exit", "finish", "finished", "parked"}

AlTypeOK ==
  /\ linux \in BOOLEAN
  /\ initialized \in BOOLEAN
  /\ config \in Contexts \cup {NoOne}
  /\ context \in Contexts \cup {NoOne}
  /\ allocated \subseteq Contexts
  /\ client \in Contexts \cup {NoOne}
  /\ handle \in Contexts \cup {NoOne}
  /\ tearingDown \in BOOLEAN /\ done \in BOOLEAN /\ busy \in BOOLEAN
  /\ terminate \subseteq Contexts
  /\ reconnect \subseteq Contexts
  /\ objLock \in Actors \cup {NoOne}
  /\ runLock \in Callers \cup {NoOne}
  /\ notified \in BOOLEAN
  /\ pc \in [Actors -> CallerPlaces \cup TaskPlaces \cup TeardownPlaces]
  /\ woken \in [Callers -> BOOLEAN]
  /\ goal \in [Callers -> Contexts \cup {NoOne}]

\* Either build; nothing is set up.
AlInit ==
  /\ linux \in BOOLEAN
  /\ initialized = FALSE
  /\ config = NoOne /\ context = NoOne /\ allocated = {} /\ client = NoOne
  /\ handle = NoOne
  /\ tearingDown = FALSE /\ done = FALSE /\ busy = FALSE
  /\ terminate = {} /\ reconnect = {}
  /\ objLock = NoOne /\ runLock = NoOne /\ notified = FALSE
  /\ pc = [a \in Actors |-> IF a \in Callers THEN "idle" ELSE "none"]
  /\ woken = [k \in Callers |-> FALSE]
  /\ goal = [k \in Callers |-> NoOne]

At(a, place) == pc[a] = place
GoTo(a, place) == pc' = [pc EXCEPT ![a] = place]

\* A call returns, and its local variable goes.
Return(k) ==
  /\ GoTo(k, "idle")
  /\ goal' = [goal EXCEPT ![k] = NoOne]

\* A run task that was created and has not set gRunTaskDone.
Alive(c) ==
  pc[c] \notin {"none", "parked"} \cup (IF linux THEN {} ELSE {"finished"})

Tearing(a) == pc[a] \in TeardownPlaces

-----------------------------------------------------------------------------
(***************************************************************************)
(* app_webrtc_init() and app_webrtc_run() on the owner.                    *)
(***************************************************************************)

\* Contexts are alike, so the next one to be created is a fixed one.
Unused == {c \in Contexts : c \notin allocated \cup terminate /\ pc[c] = "none"}

Fresh(c) == c \in Unused /\ c = CHOOSE d \in Unused : TRUE

\* Nobody terminates or tears down.
Quiet ==
  /\ \A k \in Callers : At(k, "idle")
  /\ \A c \in Contexts : ~Alive(c)

\* The configuration is copied.  Unless EagerInit, the application does not
\* initialise again before the last termination is over.
InitCall(c) ==
  /\ At(Owner, "idle") /\ ~initialized /\ Fresh(c)
  /\ EagerInit \/ Quiet
  /\ config' = c
  /\ goal' = [goal EXCEPT ![Owner] = c]
  /\ GoTo(Owner, "initctx")
  /\ UNCHANGED <<linux, initialized, context, allocated, client, flags, terminate,
                 reconnect, locks, woken>>

\* createAppWebRTCContext(), which may fail, and the flag.
InitContext ==
  /\ At(Owner, "initctx")
  /\ \/ /\ context' = goal[Owner]
        /\ allocated' = allocated \cup {goal[Owner]}
        /\ initialized' = TRUE
     \/ UNCHANGED <<linux, initialized, context, allocated>>
  /\ Return(Owner)
  /\ UNCHANGED <<linux, config, client, flags, terminate, reconnect, locks, woken>>

\* reapRunTask(): a run task that is done is deleted once it is suspended.
Reaped == IF handle # NoOne /\ done /\ ~linux THEN NoOne ELSE handle
CanReap == handle # NoOne /\ done /\ ~linux => pc[handle] = "parked"

RunCall ==
  /\ At(Owner, "idle") /\ initialized /\ context # NoOne
  /\ \A k \in Callers : At(k, "idle")
  /\ goal' = [goal EXCEPT ![Owner] = context]
  /\ GoTo(Owner, "run")
  /\ UNCHANGED <<linux, shared, flags, terminate, reconnect, locks, woken>>

RunCheck ==
  /\ At(Owner, "run") /\ runLock = NoOne /\ CanReap
  /\ handle' = Reaped
  /\ \/ Reaped = NoOne /\ GoTo(Owner, "create") /\ UNCHANGED goal
     \/ Reaped # NoOne /\ Return(Owner)
  /\ UNCHANGED <<linux, shared, tearingDown, done, busy, terminate, reconnect, locks,
                 woken>>

\* Creating the task may fail.  The created task can run before its handle is
\* stored, except on Linux.
RunCreate ==
  /\ At(Owner, "create")
  /\ tearingDown' = FALSE /\ done' = FALSE
  /\ \/ /\ pc[goal[Owner]] = "none"
        /\ pc' = [pc EXCEPT ![goal[Owner]] = "boot",
                            ![Owner] = IF linux THEN "idle" ELSE "created"]
        /\ handle' = IF linux THEN goal[Owner] ELSE handle
        /\ goal' = IF linux THEN [goal EXCEPT ![Owner] = NoOne] ELSE goal
     \/ Return(Owner) /\ handle' = NoOne
  /\ UNCHANGED <<linux, shared, busy, terminate, reconnect, locks, woken>>

RunReturns ==
  /\ At(Owner, "created")
  /\ handle' = goal[Owner]
  /\ Return(Owner)
  /\ UNCHANGED <<linux, shared, tearingDown, done, busy, terminate, reconnect, locks,
                 woken>>

-----------------------------------------------------------------------------
(***************************************************************************)
(* app_webrtc_terminate().                                                 *)
(***************************************************************************)

Running == pc[Owner] \in {"run", "create", "created"}

\* The worker calls it from an application callback, with the context locked.
TermCall(k) ==
  /\ At(k, "idle") /\ initialized
  /\ k = SigThread => objLock = SigThread
  /\ ~Running
  /\ goal' = [goal EXCEPT ![k] = context]
  /\ woken' = [woken EXCEPT ![k] = FALSE]
  /\ GoTo(k, "term")
  /\ UNCHANGED <<linux, shared, flags, terminate, reconnect, locks>>

\* Mutant: a run task is no reason to leave the teardown to it.
TermClaimIgnoresTask(k) ==
  /\ At(k, "term") /\ runLock = NoOne /\ CanReap
  /\ handle' = Reaped
  /\ busy' = TRUE /\ GoTo(k, IF busy THEN "idle" ELSE "drain")
  /\ UNCHANGED <<linux, shared, tearingDown, done, terminate, reconnect, locks, woken,
                 goal>>

\* Mutant: the claim is not checked.
TermClaimUnchecked(k) ==
  /\ At(k, "term") /\ runLock = NoOne /\ CanReap
  /\ handle' = Reaped
  /\ IF Reaped # NoOne
       THEN GoTo(k, "alive") /\ UNCHANGED busy
       ELSE busy' = TRUE /\ GoTo(k, "drain")
  /\ UNCHANGED <<linux, shared, tearingDown, done, terminate, reconnect, locks, woken,
                 goal>>

\* Under gRunTaskLock: is there a run task, and if not, is another terminate
\* tearing down already.
TermClaim(k) ==
  /\ At(k, "term") /\ runLock = NoOne /\ CanReap
  /\ handle' = Reaped
  /\ \/ Reaped # NoOne /\ GoTo(k, "alive") /\ UNCHANGED <<busy, goal>>
     \/ Reaped = NoOne /\ busy /\ Return(k) /\ UNCHANGED busy
     \/ Reaped = NoOne /\ ~busy /\ busy' = TRUE /\ GoTo(k, "drain") /\ UNCHANGED goal
  /\ UNCHANGED <<linux, shared, tearingDown, done, terminate, reconnect, locks, woken>>

\* appTerminateFlag of the current context, unless its teardown has begun; the
\* signaling client is told to cut a connect short.
Raise ==
  terminate' = IF ~tearingDown /\ context # NoOne
                 THEN terminate \cup {context} ELSE terminate

TermRaise(k) ==
  /\ At(k, "alive") /\ runLock = NoOne
  /\ Raise
  /\ GoTo(k, "wait")
  /\ UNCHANGED <<linux, shared, flags, reconnect, locks, woken, goal>>

\* wakeCleanupLoop() takes gRunTaskLock ...
WakeLock(k) ==
  /\ At(k, "wait") /\ ~done /\ ~woken[k] /\ runLock = NoOne
  /\ runLock' = k
  /\ GoTo(k, "wake")
  /\ UNCHANGED <<linux, shared, flags, terminate, reconnect, objLock, notified, woken,
                 goal>>

\* Mutant: the broadcast does not wait for the context lock.
WakeTryUnlocked(k) ==
  /\ At(k, "wake")
  /\ woken' = [woken EXCEPT ![k] = TRUE]
  /\ notified' = (notified \/ \E c \in Contexts : pc[c] = "asleep")
  /\ runLock' = NoOne
  /\ GoTo(k, "wait")
  /\ UNCHANGED <<linux, shared, flags, terminate, reconnect, objLock, goal>>

\* ... and only tries the context lock: its holder may want gRunTaskLock.
\* The context lock is reentrant.
WakeTry(k) ==
  /\ At(k, "wake")
  /\ LET needed == ~tearingDown /\ context # NoOne
         got    == needed /\ objLock \in {NoOne, k}
     IN  /\ woken' = [woken EXCEPT ![k] = (needed => got)]
         /\ notified' =
              (notified \/ (got /\ \E c \in Contexts : pc[c] = "asleep"))
  /\ runLock' = NoOne
  /\ GoTo(k, "wait")
  /\ UNCHANGED <<linux, shared, flags, terminate, reconnect, objLock, goal>>

\* Mutant: the teardown's start is taken for its end.
TermSeesStart(k) ==
  /\ At(k, "wait") /\ (done \/ tearingDown)
  /\ GoTo(k, "reap")
  /\ woken' = [woken EXCEPT ![k] = FALSE]
  /\ UNCHANGED <<linux, shared, flags, terminate, reconnect, locks, goal>>

\* The wait ends with gRunTaskDone or, with an error, at its time limit.
TermSees(k) ==
  /\ At(k, "wait") /\ done
  /\ GoTo(k, "reap")
  /\ woken' = [woken EXCEPT ![k] = FALSE]
  /\ UNCHANGED <<linux, shared, flags, terminate, reconnect, locks, goal>>

TermTimesOut(k) ==
  /\ At(k, "wait") /\ ~done
  /\ Return(k)
  /\ woken' = [woken EXCEPT ![k] = FALSE]
  /\ UNCHANGED <<linux, shared, flags, terminate, reconnect, locks>>

TermReap(k) ==
  /\ At(k, "reap") /\ runLock = NoOne /\ CanReap
  /\ handle' = Reaped
  /\ Return(k)
  /\ UNCHANGED <<linux, shared, tearingDown, done, busy, terminate, reconnect, locks,
                 woken>>

TermRelease(k) ==
  /\ At(k, "release") /\ runLock = NoOne
  /\ busy' = FALSE
  /\ Return(k)
  /\ UNCHANGED <<linux, shared, handle, tearingDown, done, terminate, reconnect, locks,
                 woken>>

-----------------------------------------------------------------------------
(***************************************************************************)
(* app_webrtc_teardown(), on the run task or on a terminate's caller.      *)
(***************************************************************************)

\* Mutant: the context is not checked.
DrainUnchecked(a) ==
  /\ At(a, "drain")
  /\ terminate' = terminate \cup {context}
  /\ GoTo(a, "free")
  /\ UNCHANGED <<linux, shared, flags, reconnect, locks, woken, goal>>

\* The flag; an in-flight reconnect is waited for, but only up to a time limit,
\* so the wait keeps nobody from going on.  With no context only the state is
\* reset.
Drain(a) ==
  /\ At(a, "drain")
  /\ IF context = NoOne
       THEN GoTo(a, "uninit") /\ UNCHANGED terminate
       ELSE GoTo(a, "free") /\ terminate' = terminate \cup {context}
  /\ UNCHANGED <<linux, shared, flags, reconnect, locks, woken, goal>>

\* The signaling client is disconnected, which waits for its callbacks; the
\* sessions and both clients are freed.
FreeClients(a) ==
  /\ At(a, "free") /\ objLock = NoOne
  /\ GoTo(a, "context")
  /\ client' = NoOne
  /\ UNCHANGED <<linux, initialized, config, context, allocated, flags, terminate,
                 reconnect, locks, woken, goal>>

FreeContext(a) ==
  /\ At(a, "context") /\ objLock = NoOne
  /\ allocated' = allocated \ {context}
  /\ context' = NoOne
  /\ GoTo(a, "uninit")
  /\ UNCHANGED <<linux, initialized, config, client, flags, terminate, reconnect, locks,
                 woken, goal>>

Uninitialize(a) ==
  /\ At(a, "uninit")
  /\ initialized' = FALSE
  /\ GoTo(a, "reset")
  /\ UNCHANGED <<linux, config, context, allocated, client, flags, terminate, reconnect,
                 locks, woken, goal>>

ResetState(a) ==
  /\ At(a, "reset")
  /\ client' = NoOne /\ config' = NoOne
  /\ GoTo(a, IF a \in Contexts THEN "finish" ELSE "release")
  /\ UNCHANGED <<linux, initialized, context, allocated, flags, terminate, reconnect,
                 locks, woken, goal>>

Teardown(a) ==
  Drain(a) \/ FreeClients(a) \/ FreeContext(a) \/ Uninitialize(a) \/ ResetState(a)

-----------------------------------------------------------------------------
(***************************************************************************)
(* app_webrtc_runTask() and sessionCleanupWait() of the task c.            *)
(***************************************************************************)

taskOnly == <<linux, shared, flags, terminate, reconnect, locks, woken, goal>>

\* The peer connection client, whose failure ends the run.
Boot(c) ==
  /\ At(c, "boot")
  /\ GoTo(c, "init") \/ GoTo(c, "exit")
  /\ UNCHANGED taskOnly

\* The signaling client's init is retried until it succeeds, which it need not
\* ever do, ...
SignalingInit(c) ==
  /\ At(c, "init")
  /\ client' = c
  /\ GoTo(c, "inited")
  /\ UNCHANGED <<linux, initialized, config, context, allocated, flags, terminate,
                 reconnect, locks, woken, goal>>

\* Mutant: the retries do not look at the flag.
InitGivesUpNever(c) == At(c, "init") /\ UNCHANGED alVars

\* ... or the flag is up.
InitGivesUp(c) ==
  /\ At(c, "init") /\ c \in terminate
  /\ GoTo(c, "exit")
  /\ UNCHANGED taskOnly

\* Setting role or callbacks may fail.
SignalingReady(c) ==
  /\ At(c, "inited")
  /\ GoTo(c, "exit") \/ (c \notin terminate /\ GoTo(c, "connect"))
  /\ UNCHANGED taskOnly

\* A failed first connect only asks for a reconnect.
FirstConnect(c) ==
  /\ At(c, "connect")
  /\ GoTo(c, "loop")
  /\ UNCHANGED taskOnly

LoopTop(c) ==
  /\ At(c, "loop")
  /\ IF c \in terminate
       THEN GoTo(c, "exit") /\ UNCHANGED objLock
       ELSE objLock = NoOne /\ objLock' = c /\ GoTo(c, "pass")
  /\ UNCHANGED <<linux, shared, flags, terminate, reconnect, runLock, notified, woken,
                 goal>>

\* An application callback of a session being freed calls terminate(): the
\* flag is raised and the call returns at once.
PassTerminates(c) ==
  /\ At(c, "pass") /\ handle = c /\ runLock = NoOne
  /\ Raise
  /\ UNCHANGED <<linux, shared, flags, reconnect, locks, pc, woken, goal>>

\* A reconnect: the handshake flag first, then the terminate flag, then the
\* context is unlocked.
ReconnectStarts(c) ==
  /\ At(c, "pass") /\ c \notin reconnect
  /\ reconnect' = reconnect \cup {c}
  /\ UNCHANGED <<linux, shared, flags, terminate, locks, pc, woken, goal>>

ReconnectGoes(c) ==
  /\ At(c, "pass") /\ c \in reconnect
  /\ objLock' = NoOne
  /\ IF c \in terminate
       THEN reconnect' = reconnect \ {c} /\ GoTo(c, "exit")
       ELSE UNCHANGED reconnect /\ GoTo(c, "reconnect")
  /\ UNCHANGED <<linux, shared, flags, terminate, runLock, notified, woken, goal>>

ReconnectEnds(c) ==
  /\ At(c, "reconnect")
  /\ reconnect' = reconnect \ {c}
  /\ GoTo(c, "relock")
  /\ UNCHANGED <<linux, shared, flags, terminate, locks, woken, goal>>

Relock(c) ==
  /\ At(c, "relock") /\ objLock = NoOne
  /\ IF c \in terminate
       THEN GoTo(c, "exit") /\ UNCHANGED objLock
       ELSE objLock' = c /\ GoTo(c, "tail")
  /\ UNCHANGED <<linux, shared, flags, terminate, reconnect, runLock, notified, woken,
                 goal>>

\* The end of a pass: with the flag up the loop ends.
PassEnds(c) ==
  /\ (At(c, "pass") /\ c \notin reconnect) \/ At(c, "tail")
  /\ IF c \in terminate
       THEN objLock' = NoOne /\ GoTo(c, "exit")
       ELSE UNCHANGED objLock /\ GoTo(c, "drowsy")
  /\ UNCHANGED <<linux, shared, flags, terminate, reconnect, runLock, notified, woken,
                 goal>>

\* The wait releases the context lock.
FallsAsleep(c) ==
  /\ At(c, "drowsy")
  /\ objLock' = NoOne
  /\ notified' = FALSE
  /\ GoTo(c, "asleep")
  /\ UNCHANGED <<linux, shared, flags, terminate, reconnect, runLock, woken, goal>>

\* Broadcast, or the end of SAMPLE_SESSION_CLEANUP_WAIT_PERIOD.
WakesUp(c) ==
  /\ At(c, "asleep") /\ objLock = NoOne
  /\ GoTo(c, "loop")
  /\ notified' = FALSE
  /\ UNCHANGED <<linux, shared, flags, terminate, reconnect, objLock, runLock, woken,
                 goal>>

\* The task claims the teardown.
TaskExits(c) ==
  /\ At(c, "exit") /\ runLock = NoOne
  /\ tearingDown' = TRUE
  /\ GoTo(c, "drain")
  /\ UNCHANGED <<linux, shared, handle, done, busy, terminate, reconnect, locks, woken,
                 goal>>

\* On Linux the handle goes first.
TaskFinishes(c) ==
  /\ At(c, "finish")
  /\ handle' = IF linux THEN NoOne ELSE handle
  /\ GoTo(c, "finished")
  /\ done' = (IF linux THEN done ELSE TRUE)
  /\ UNCHANGED <<linux, shared, tearingDown, busy, terminate, reconnect, locks, woken,
                 goal>>

\* The task suspends or deletes itself.
TaskParks(c) ==
  /\ At(c, "finished")
  /\ done' = TRUE
  /\ GoTo(c, "parked")
  /\ UNCHANGED <<linux, shared, handle, tearingDown, busy, terminate, reconnect, locks,
                 woken, goal>>

-----------------------------------------------------------------------------
\* The signaling thread handles a message with the context locked.
WorkerLocks ==
  /\ client # NoOne /\ context # NoOne /\ objLock = NoOne /\ At(SigThread, "idle")
  /\ ~At(client, "inited")
  /\ \A a \in Actors : ~Tearing(a)
  /\ objLock' = SigThread
  /\ UNCHANGED <<linux, shared, flags, terminate, reconnect, runLock, notified, pc,
                 woken, goal>>

WorkerUnlocks ==
  /\ objLock = SigThread /\ At(SigThread, "idle")
  /\ objLock' = NoOne
  /\ UNCHANGED <<linux, shared, flags, terminate, reconnect, runLock, notified, pc,
                 woken, goal>>

\* Nothing more can happen: every context was used and everybody rests.
Rest ==
  /\ \A k \in Callers : At(k, "idle")
  /\ \A c \in Contexts : pc[c] \in {"none", "parked"}
  /\ UNCHANGED alVars

OwnerStep == InitContext \/ RunCheck \/ RunCreate \/ RunReturns

TermStep(k) ==
  \/ TermClaim(k) \/ TermRaise(k) \/ WakeLock(k) \/ WakeTry(k)
  \/ TermSees(k) \/ TermReap(k) \/ TermRelease(k)

TaskStep(c) ==
  \/ Boot(c) \/ InitGivesUp(c) \/ SignalingReady(c) \/ FirstConnect(c)
  \/ LoopTop(c) \/ ReconnectStarts(c) \/ ReconnectGoes(c) \/ ReconnectEnds(c)
  \/ Relock(c) \/ PassEnds(c) \/ FallsAsleep(c) \/ WakesUp(c)
  \/ TaskExits(c) \/ TaskFinishes(c) \/ TaskParks(c)

AlNext ==
  \/ RunCall \/ OwnerStep
  \/ \E c \in Contexts : InitCall(c)
  \/ \E k \in Callers : TermCall(k) \/ TermStep(k) \/ TermTimesOut(k)
  \/ \E a \in Actors : Teardown(a)
  \/ \E c \in Contexts : TaskStep(c) \/ SignalingInit(c) \/ PassTerminates(c)
  \/ WorkerLocks \/ WorkerUnlocks \/ Rest

AlSpec == AlInit /\ [][AlNext]_alVars

\* Tasks run: nobody stays at a step it can take (the signaling client's init may
\* fail for ever, but its connect is cut short), whoever waits for a lock gets it
\* in turn, and a callback of the signaling thread returns: its terminate, which
\* waits with the context locked, has a time limit.
AlFairness ==
  /\ WF_alVars(OwnerStep) /\ SF_alVars(WorkerUnlocks)
  /\ \A k \in Callers : SF_alVars(TermStep(k) \/ Teardown(k))
  /\ SF_alVars(TermTimesOut(SigThread))
  /\ \A c \in Contexts : SF_alVars(TaskStep(c) \/ Teardown(c))

AlFairSpec == AlSpec /\ AlFairness

-----------------------------------------------------------------------------
UsePlaces == {"boot", "init", "inited", "connect", "loop", "pass", "reconnect",
              "relock", "tail", "drowsy", "asleep"}

ClientPlaces == UsePlaces \ {"boot", "init"}

\* While a run task is before its teardown, the context it works on exists and
\* is the current one, and the signaling client it made is there: no terminate
\* frees them under it, whatever it is doing with the context unlocked
\* (app_webrtc.c, the comments on reconnectInProgress and gRunTaskTearingDown).
NoUseAfterFree ==
  \A c \in Contexts :
    /\ pc[c] \in UsePlaces => c \in allocated /\ context = c /\ config = c
    /\ pc[c] \in ClientPlaces => client = c

\* Two teardowns never run at once, neither of two terminates nor of a terminate
\* and the run task (gTerminateTeardownBusy, gRunTaskTearingDown).
OneTeardown == Cardinality({a \in Actors : Tearing(a)}) =< 1

\* A terminate that returned success has terminated what was initialised when it
\* was called, whoever tore it down (app_webrtc.h, app_webrtc_terminate()).
TerminateCompletes ==
  [][\A k \in Callers :
        (pc[k] \in {"reap", "release"} /\ pc'[k] = "idle")
           => goal[k] \notin allocated']_alVars

\* Once a terminate has woken the loop it need not try again: the loop does not
\* sleep with its flag up, unless the broadcast has reached it
\* (wakeCleanupLoop(): "without losing the wakeup").
WakeupNotLost ==
  \A k \in Callers, c \in Contexts :
    (pc[k] = "wait" /\ woken[k] /\ c \in terminate /\ pc[c] = "asleep") => notified

\* However terminates, the run task's own exit and the reconnects interleave,
\* nothing is freed under its user, nothing is torn down twice at once and a
\* terminate's wake-up is not lost.
TeardownSafe == NoUseAfterFree /\ OneTeardown /\ WakeupNotLost

\* What was asked to terminate is torn down in the end, whatever callbacks call
\* terminate with the context locked and however many terminates give up.
TerminationEnds ==
  \A c \in Contexts : (c \in terminate /\ c \in allocated) ~> (c \notin allocated)
=============================================================================
