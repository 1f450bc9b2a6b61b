----------------------------- MODULE TimerQueue -----------------------------
(***************************************************************************)
(* kvs_utils/src/timer_queue.c: an array of timers and the one executor    *)
(* thread that calls them back.  Every operation works under executorLock, *)
(* which is reentrant: a callback runs with the lock held and may add and  *)
(* cancel timers itself.  Two things are done without the lock: the check  *)
(* at the top of timerQueueUpdateTimerPeriod() and all of                  *)
(* timerQueueShutdown().                                                   *)
(***************************************************************************)
EXTENDS Integers, FiniteSets

CONSTANTS Slots,          \* pTimers[]: 0 .. maxTimerCount - 1
          Users,          \* the customData values
          Starts, Periods, \* arguments, in ticks; period 0 is a single call
          MaxTime,        \* bound on the clock
          MaxAdds,        \* bound on the timers added
          CallbackCancels, \* whose timers a callback may cancel: "other", "self"
          WithShutdown    \* whether timerQueueShutdown() is called

ASSUME TqAssumption ==
  /\ Slots # {} /\ Slots = 0 .. Cardinality(Slots) - 1
  /\ Starts \subseteq Nat /\ Periods \subseteq Nat
  /\ MaxTime \in Nat /\ MaxAdds \in Nat
  /\ CallbackCancels \subseteq {"other", "self"}
  /\ WithShutdown \in BOOLEAN

VARIABLES tq,     \* the TimerQueue: shutdown, terminated, activeTimerCount, invokeTime
          tm,     \* pTimers: [on, owner, due, period]
          now,    \* GETTIME()
          ex,     \* the executor: pc, slot, index, curTime, removeCount, signalled
          us,     \* a user between the two halves of an update
          fr,     \* timerQueueFree()
          adds,   \* timers added so far
          quiet   \* timerQueueShutdown() has returned (history)

tqVars == <<tq, tm, now, ex, us, fr, adds, quiet>>

\* MAX_UINT64: later than any time the model reaches.
Never == MaxTime + 10

NoTimer == [on |-> FALSE, owner |-> "nobody", due |-> 0, period |-> 0]

NotUpdating == -1

On(t) == {s \in Slots : t[s].on}

\* Who holds executorLock: the executor outside its wait, its callback included.
LockFree == ex.pc \in {"start", "wait", "ended", "killed", "exit"}

MinDue(t, ss) == IF ss = {} THEN Never
                 ELSE CHOOSE d \in {t[s].due : s \in ss} : \A s \in ss : d <= t[s].due

\* priv_timer_queue_evaluateNextInvocation(): the walk ends after
\* activeTimerCount set entries, so a count too small hides the last timers.
Counted(t, n) == {s \in On(t) : Cardinality({r \in On(t) : r < s}) < n}
EvaluateNextInvocation(t, n) == MinDue(t, Counted(t, n))

TqInit ==
  /\ tq = [shutdown |-> FALSE, terminated |-> FALSE, active |-> 0, invoke |-> Never]
  /\ tm = [s \in Slots |-> NoTimer]
  /\ now = 0 /\ adds = 0 /\ quiet = FALSE
  /\ ex = [pc |-> "start", slot |-> 0, index |-> 0, cur |-> 0, rm |-> 0, sig |-> FALSE]
  /\ us = [u \in Users |-> NotUpdating]
  /\ fr = "idle"

Tick == /\ now < MaxTime
        /\ now' = now + 1
        /\ UNCHANGED <<tq, tm, ex, us, fr, adds, quiet>>

Alive == fr # "freed"

----------------------------------------------------------------------------
(* Operations on the table, used by callers and by callbacks alike.  Each  *)
(* gives the new table, queue and whether the executor is signalled.       *)

Added(u, start, period) ==
  LET s == CHOOSE x \in Slots \ On(tm) : \A y \in Slots \ On(tm) : x <= y
      d == now + start
  IN [ tm |-> [tm EXCEPT ![s] = [on |-> TRUE, owner |-> u, due |-> d, period |-> period]],
       tq |-> [tq EXCEPT !.active = @ + 1, !.invoke = IF d < @ THEN d ELSE @],
       sig |-> d < tq.invoke ]

CanAdd == adds < MaxAdds /\ tq.active < Cardinality(Slots) /\ On(tm) # Slots

\* timerQueueCancelTimer() once it has found the timer set and the owner right.
Cancelled(t, q, s) ==
  LET t2 == [t EXCEPT ![s].on = FALSE]
      hit == t[s].due = q.invoke
  IN [ tm |-> t2,
       tq |-> [q EXCEPT !.active = @ - 1,
                        !.invoke = IF hit THEN EvaluateNextInvocation(t2, q.active - 1) ELSE @],
       sig |-> hit ]

\* Whether timerQueueCancelTimer(timerId, customData) finds the timer.
Finds(u, s) == tq.active # 0 /\ tm[s].on /\ tm[s].owner = u

\* Cancelling each of several timers, lowest id first.
RemainsAfter(ss) == [s \in Slots |-> [tm[s] EXCEPT !.on = @ /\ s \notin ss]]

----------------------------------------------------------------------------
(* The callers' threads.                                                   *)

SignalLost(e, sig) == e

\* A signal reaches the executor only while it waits on the variable.
Signal(e, sig) == [e EXCEPT !.sig = @ \/ (sig /\ e.pc = "wait")]

AddTimer(u) ==
  /\ Alive /\ fr = "idle" /\ LockFree /\ CanAdd
  /\ \E start \in Starts, period \in Periods : LET r == Added(u, start, period) IN
       tm' = r.tm /\ tq' = r.tq /\ ex' = Signal(ex, r.sig)
  /\ adds' = adds + 1
  /\ UNCHANGED <<now, us, fr, quiet>>

CancelTimer(u, s) ==
  /\ Alive /\ fr = "idle" /\ LockFree
  /\ Finds(u, s)
  /\ LET r == Cancelled(tm, tq, s) IN tm' = r.tm /\ tq' = r.tq /\ ex' = Signal(ex, r.sig)
  /\ UNCHANGED <<now, us, fr, adds, quiet>>

\* timerQueueCancelTimersWithCustomData() and timerQueueCancelAllTimers().
CancelMany(ss) ==
  /\ Alive /\ fr = "idle" /\ LockFree
  /\ ss # {} /\ ss \subseteq On(tm)
  /\ tm' = RemainsAfter(ss)
  /\ LET hit == \E s \in ss : tm[s].due = tq.invoke
         n == tq.active - Cardinality(ss)
     IN /\ tq' = [tq EXCEPT !.active = n,
                            !.invoke = IF hit THEN EvaluateNextInvocation(tm', n) ELSE @]
        /\ ex' = Signal(ex, hit)
  /\ UNCHANGED <<now, us, fr, adds, quiet>>

CancelTimersWithCustomData(u) == CancelMany({s \in On(tm) : tm[s].owner = u})
CancelAllTimers == CancelMany(On(tm))

\* timerQueueUpdateTimerPeriod(): the timer is looked up before the lock is taken.
UpdateChecks(u, s) ==
  /\ Alive /\ fr = "idle" /\ us[u] = NotUpdating
  /\ Finds(u, s)
  /\ us' = [us EXCEPT ![u] = s]
  /\ UNCHANGED <<tq, tm, now, ex, fr, adds, quiet>>

UpdateSetsQuietly(u) ==
  /\ Alive /\ us[u] \in Slots /\ LockFree
  /\ \E period \in Periods :
       tm' = [tm EXCEPT ![us[u]].period = period, ![us[u]].due = now + period]
  /\ us' = [us EXCEPT ![u] = NotUpdating]
  /\ UNCHANGED <<tq, ex, now, fr, adds, quiet>>

UpdateSets(u) ==
  /\ Alive /\ us[u] \in Slots /\ LockFree
  /\ \E period \in Periods :
       tm' = [tm EXCEPT ![us[u]].period = period, ![us[u]].due = now + period]
  /\ tq' = [tq EXCEPT !.invoke = EvaluateNextInvocation(tm', tq.active)]
  /\ ex' = Signal(ex, TRUE)
  /\ us' = [us EXCEPT ![u] = NotUpdating]
  /\ UNCHANGED <<now, fr, adds, quiet>>

\* timerQueueShutdown(): neither call takes a lock.
Shutdown ==
  /\ WithShutdown /\ Alive /\ fr = "idle" /\ ~quiet
  /\ tq' = [tq EXCEPT !.shutdown = TRUE]
  /\ ex' = Signal(ex, TRUE)
  /\ quiet' = TRUE
  /\ UNCHANGED <<tm, now, us, fr, adds>>

\* priv_timer_queue_freeInternal(), with no other caller inside: the flag is
\* set, the executor is signalled under its lock, ...
FreeBegins ==
  /\ fr = "idle" /\ \A u \in Users : us[u] = NotUpdating
  /\ tq' = [tq EXCEPT !.shutdown = TRUE]
  /\ fr' = "signal"
  /\ UNCHANGED <<tm, now, ex, us, adds, quiet>>

FreeSignals ==
  /\ fr = "signal" /\ LockFree
  /\ ex' = Signal(ex, TRUE)
  /\ fr' = "await"
  /\ UNCHANGED <<tq, tm, now, us, adds, quiet>>

FreeAwaitsNot ==
  /\ fr = "await"
  /\ fr' = "freed"
  /\ UNCHANGED <<tq, tm, now, ex, us, adds, quiet>>

\* ... it is awaited, or killed when it is not gone in time, ...
FreeAwaits ==
  /\ fr = "await"
  /\ \/ /\ tq.terminated
        /\ UNCHANGED ex
     \/ /\ ~tq.terminated /\ ex.pc # "exit"
        /\ ex' = [ex EXCEPT !.pc = "killed"]
  /\ fr' = "freed"
  /\ UNCHANGED <<tq, tm, now, us, adds, quiet>>

----------------------------------------------------------------------------
(* timer_queue_executor().                                                 *)

\* It takes the lock and looks at the flag.
ExecTop ==
  /\ ex.pc \in {"start", "top"}
  /\ ex' = [ex EXCEPT !.pc = IF tq.shutdown THEN "leave" ELSE "decide", !.sig = FALSE]
  /\ UNCHANGED <<tq, tm, now, us, fr, adds, quiet>>

\* CVAR_WAIT() with the time left as its timeout, or no wait.
ExecDecides ==
  /\ ex.pc = "decide"
  /\ ex' = [ex EXCEPT !.pc = IF now < tq.invoke THEN "wait" ELSE "woken",
                      !.cur = IF now < tq.invoke THEN tq.invoke ELSE 0]
  /\ UNCHANGED <<tq, tm, now, us, fr, adds, quiet>>

ExecWakes ==
  /\ ex.pc = "wait"
  /\ ex.sig \/ now >= ex.cur
  /\ ex' = [ex EXCEPT !.pc = "woken", !.sig = FALSE, !.cur = 0]
  /\ UNCHANGED <<tq, tm, now, us, fr, adds, quiet>>

\* The flag again, then the time of this pass.
ExecChecks ==
  /\ ex.pc = "woken"
  /\ ex' = IF tq.shutdown THEN [ex EXCEPT !.pc = "top"]
           ELSE [ex EXCEPT !.pc = "scan", !.slot = 0, !.index = 0, !.rm = 0, !.cur = now]
  /\ UNCHANGED <<tq, tm, now, us, fr, adds, quiet>>

More == ex.index < tq.active /\ ex.slot \in Slots

\* An entry that is not set, or not due.
ExecSkips ==
  /\ ex.pc = "scan" /\ More
  /\ ~tm[ex.slot].on \/ ex.cur < tm[ex.slot].due
  /\ ex' = [ex EXCEPT !.slot = @ + 1, !.index = IF tm[ex.slot].on THEN @ + 1 ELSE @]
  /\ UNCHANGED <<tq, tm, now, us, fr, adds, quiet>>

\* What a callback does with the queue (external): nothing, add a timer, or
\* cancel one of another owner or its own.
CallbackLeaves ==
  {[tm |-> tm, tq |-> tq, added |-> 0]}
  \cup (IF CanAdd
        THEN {[tm |-> Added(tm[ex.slot].owner, start, 0).tm,
               tq |-> Added(tm[ex.slot].owner, start, 0).tq, added |-> 1] : start \in Starts}
        ELSE {})
  \cup {[tm |-> Cancelled(tm, tq, s).tm, tq |-> Cancelled(tm, tq, s).tq, added |-> 0] :
           s \in {r \in On(tm) : IF r = ex.slot THEN "self" \in CallbackCancels
                                 ELSE "other" \in CallbackCancels}}

ExecCallsKeeping ==
  /\ ex.pc = "scan" /\ More
  /\ tm[ex.slot].on /\ ex.cur >= tm[ex.slot].due
  /\ \E c \in CallbackLeaves, stop \in BOOLEAN :
       LET ends == stop \/ c.tm[ex.slot].period = 0 IN
       /\ tm' = [c.tm EXCEPT ![ex.slot].on = @ /\ ~ends,
                             ![ex.slot].due = ex.cur + c.tm[ex.slot].period]
       /\ tq' = c.tq
       /\ adds' = adds + c.added
       /\ ex' = [ex EXCEPT !.slot = @ + 1, !.index = @ + 1]
  /\ UNCHANGED <<now, us, fr, quiet>>

\* The callback of a due entry, and what follows from its answer.
ExecCalls ==
  /\ ex.pc = "scan" /\ More
  /\ tm[ex.slot].on /\ ex.cur >= tm[ex.slot].due
  /\ \E c \in CallbackLeaves, stop \in BOOLEAN :
       LET ends == stop \/ c.tm[ex.slot].period = 0 IN
       /\ tm' = [c.tm EXCEPT ![ex.slot].on = @ /\ ~ends,
                             ![ex.slot].due = ex.cur + c.tm[ex.slot].period]
       /\ tq' = c.tq
       /\ adds' = adds + c.added
       /\ ex' = [ex EXCEPT !.slot = @ + 1, !.index = @ + 1, !.rm = IF ends THEN @ + 1 ELSE @]
  /\ UNCHANGED <<now, us, fr, quiet>>

\* The end of the pass: the count and the next time.
ExecEndsPass ==
  /\ ex.pc = "scan" /\ ~More
  /\ LET n == tq.active - ex.rm IN
       tq' = [tq EXCEPT !.active = n, !.invoke = EvaluateNextInvocation(tm, n)]
  /\ ex' = [ex EXCEPT !.pc = "top", !.slot = 0, !.index = 0, !.rm = 0, !.cur = 0]
  /\ UNCHANGED <<tm, now, us, fr, adds, quiet>>

\* The lock is released, ...
ExecLeaves ==
  /\ ex.pc = "leave"
  /\ ex' = [ex EXCEPT !.pc = "exit"]
  /\ UNCHANGED <<tq, tm, now, us, fr, adds, quiet>>

\* ... and the end is announced under exitLock.
ExecExits ==
  /\ ex.pc = "exit"
  /\ tq' = [tq EXCEPT !.terminated = TRUE]
  /\ ex' = [ex EXCEPT !.pc = "ended"]
  /\ UNCHANGED <<tm, now, us, fr, adds, quiet>>

Executor == ExecTop \/ ExecDecides \/ ExecWakes \/ ExecChecks \/ ExecSkips \/ ExecCalls
            \/ ExecEndsPass \/ ExecLeaves \/ ExecExits

TqNext ==
  \/ Tick \/ Shutdown \/ CancelAllTimers
  \/ \E u \in Users : \/ AddTimer(u) \/ CancelTimersWithCustomData(u) \/ UpdateSets(u)
                      \/ \E s \in Slots : CancelTimer(u, s) \/ UpdateChecks(u, s)
  \/ FreeBegins \/ FreeSignals \/ FreeAwaits
  \/ Executor

TqFair == WF_tqVars(Executor) /\ WF_tqVars(FreeSignals) /\ WF_tqVars(FreeAwaits)
TqSpec == TqInit /\ [][TqNext]_tqVars /\ TqFair

----------------------------------------------------------------------------
(* Outside a pass activeTimerCount is the number of entries set: both      *)
(* walks of the table (lines 544, 595) stop after that many, so a count    *)
(* that drifts makes the last timers invisible.  Callbacks run inside a    *)
(* pass and change table and count themselves.                             *)
CountIsExact == ex.pc # "scan" => tq.active = Cardinality(On(tm))

(* Outside a pass the queue's invokeTime is no later than any timer's: the *)
(* executor sleeps until then, whatever added, cancelled or re-timed the   *)
(* entries in between (lines 125, 169, 339, 629).                          *)
NoTimerOverslept == ex.pc # "scan" => \A s \in On(tm) : tq.invoke <= tm[s].due

(* After the queue is freed its thread never looks at it again (line 525): *)
(* it has announced its end or it was cancelled.                           *)
FreedUntouched == fr = "freed" => ex.pc \in {"ended", "killed"}

\* The executor sees every timer, wakes in time for it, and ends before the queue does.
TimersSound == CountIsExact /\ NoTimerOverslept /\ FreedUntouched
=============================================================================
