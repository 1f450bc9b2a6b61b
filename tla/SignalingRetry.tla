--------------------------- MODULE SignalingRetry ---------------------------
(***************************************************************************)
(* components/app_webrtc/src/app_webrtc.c: how the cleanup loop            *)
(* sessionCleanupWait() gets the signaling client connected again.         *)
(*                                                                         *)
(* An error callback of the signaling client raises the flag               *)
(* recreate_signaling_client; every pass of the loop that finds it raised  *)
(* either waits for an attempt in progress, waits out the backoff delay, or*)
(* disconnects and connects.  The CONNECTED callback and the pass that sees*)
(* the client connected lower the flag.  The callbacks come from the       *)
(* client's own thread at any time.                                        *)
(*                                                                         *)
(* Time is counted in units of the shortest delay.  Instants are kept as   *)
(* ages, which stop growing at the longest delay: nothing compares beyond  *)
(* it.                                                                     *)
(***************************************************************************)
EXTENDS Integers, Sequences

CONSTANTS Delays,            \* retryDelays, in units
          ConnectionTimeout, \* CONNECTION_TIMEOUT, in units
          Never              \* lastRetryTime == 0

ASSUME DelaysAssumption ==
  /\ Len(Delays) > 0
  /\ \A i \in 1..Len(Delays) : Delays[i] \in Nat \ {0}
  /\ \A i \in 1..(Len(Delays) - 1) : Delays[i] =< Delays[i + 1]
ASSUME TimeoutAssumption == ConnectionTimeout \in 1..Delays[Len(Delays)]
ASSUME NeverAssumption == Never \notin Nat

VARIABLES recreate,   \* recreate_signaling_client
          inProgress, \* connectionInProgress
          retryCount, \* retryCount, which counts up to the last delay
          retryAge,   \* time since lastRetryTime
          startAge,   \* time since connectionStartTime
          passAge,    \* time since the pass read currentTime
          loop,       \* where the loop is
          seen,       \* what get_state() returned to the pass
          sig,        \* the signaling client's state
          pending,    \* callback the client's thread is about to make
          failures,   \* attempts since the client was last connected
          attemptAge, \* time since the last attempt began
          owed        \* an error was reported that nobody acted on

local == <<inProgress, retryCount, retryAge, startAge>>
ghosts == <<failures, attemptAge, owed>>
srVars == <<recreate, local, passAge, loop, seen, sig, pending, ghosts>>

MaxIndex == Len(Delays) - 1
Longest == Delays[Len(Delays)]
Ages == 0..Longest

Min2(a, b) == IF a < b THEN a ELSE b

Delay(n) == Delays[Min2(n, MaxIndex) + 1]

CountUp(n) == Min2(n + 1, Len(Delays))

SrTypeOK ==
  /\ recreate \in BOOLEAN /\ inProgress \in BOOLEAN
  /\ retryCount \in 0..Len(Delays)
  /\ retryAge \in Ages \cup {Never}
  /\ startAge \in Ages /\ passAge \in Ages
  /\ loop \in {"idle", "connect", "check", "clear"}
  /\ seen \in {"up", "connecting", "down"}
  /\ sig \in {"up", "connecting", "down"}
  /\ pending \in {"none", "connected", "error"}
  /\ failures \in 0..Len(Delays)
  /\ attemptAge \in Ages
  /\ owed \in BOOLEAN

\* The loop starts after the run task's own first connect.
SrInit ==
  /\ \/ recreate = TRUE /\ sig = "down"
     \/ recreate = FALSE /\ sig \in {"up", "connecting"}
  /\ inProgress = FALSE /\ retryCount = 0 /\ retryAge = Never /\ startAge = 0
  /\ passAge = 0 /\ loop = "idle" /\ seen = "down" /\ pending = "none"
  /\ failures = 0 /\ attemptAge = 0 /\ owed = FALSE

-----------------------------------------------------------------------------
(***************************************************************************)
(* The loop.                                                               *)
(***************************************************************************)

TimedOut == inProgress /\ startAge >= ConnectionTimeout

\* The delay is that of the count before a timeout is counted, but a timeout
\* also restarts the delay.
ShouldRetry ==
  /\ ~inProgress
  /\ retryAge # Never => retryAge >= Delay(retryCount)

NoteFailure(age) ==
  /\ inProgress' = FALSE
  /\ retryCount' = CountUp(retryCount)
  /\ retryAge' = age

\* Mutant: an attempt that does not answer is waited for.
PassTimesOutNever ==
  /\ loop = "idle" /\ recreate /\ TimedOut
  /\ UNCHANGED srVars

\* A pass that finds the flag raised and the attempt timed out.
PassTimesOut ==
  /\ loop = "idle" /\ recreate /\ TimedOut
  /\ NoteFailure(0)
  /\ UNCHANGED <<recreate, startAge, passAge, loop, seen, sig, pending, ghosts>>

\* Mutant: a failed attempt does not delay the next one.
PassRetriesAtOnce ==
  /\ loop = "idle" /\ recreate /\ ~TimedOut /\ ~inProgress
  /\ passAge' = 0
  /\ loop' = "connect"
  /\ sig' = "down" /\ pending = "none"
  /\ failures' = CountUp(failures) /\ attemptAge' = 0
  /\ owed' = FALSE
  /\ inProgress' = TRUE /\ startAge' = 0
  /\ UNCHANGED <<recreate, retryCount, retryAge, seen, pending>>

\* A pass that begins an attempt: disconnect() waits for the client's thread.
PassRetries ==
  /\ loop = "idle" /\ recreate /\ ~TimedOut /\ ShouldRetry
  /\ passAge' = 0
  /\ loop' = "connect"
  /\ sig' = "down" /\ pending = "none"
  /\ failures' = CountUp(failures) /\ attemptAge' = 0
  /\ owed' = FALSE
  /\ inProgress' = TRUE /\ startAge' = 0
  /\ UNCHANGED <<recreate, retryCount, retryAge, seen, pending>>

\* A pass that finds an attempt in progress asks the client.
PassWaits ==
  /\ loop = "idle" /\ recreate /\ ~TimedOut /\ inProgress
  /\ passAge' = 0
  /\ loop' = "check" /\ seen' = sig
  /\ UNCHANGED <<recreate, local, sig, pending, ghosts>>

\* Mutant: the next retry's time is stored in place of the last one's.
ConnectFailsAhead ==
  /\ loop = "connect"
  /\ NoteFailure(passAge - Delay(retryCount))
  /\ loop' = "idle"
  /\ UNCHANGED <<recreate, startAge, passAge, seen, sig, pending, ghosts>>

\* connect() fails,
ConnectFails ==
  /\ loop = "connect"
  /\ NoteFailure(passAge)
  /\ loop' = "idle"
  /\ UNCHANGED <<recreate, startAge, passAge, seen, sig, pending, ghosts>>

\* or has begun to connect, or has connected and called back before it returns.
ConnectReturns ==
  /\ loop = "connect"
  /\ \/ /\ sig' = "connecting"
        /\ UNCHANGED <<recreate, failures, owed>>
     \/ /\ sig' = "up"
        /\ recreate' = FALSE /\ failures' = 0 /\ owed' = FALSE
  /\ loop' = "check" /\ seen' = sig'
  /\ UNCHANGED <<local, passAge, pending, attemptAge>>

\* What get_state() returned is acted on.  Its failure counts as connecting.
CheckConnected ==
  /\ loop = "check" /\ seen = "up"
  /\ inProgress' = FALSE /\ retryCount' = 0 /\ retryAge' = Never
  /\ loop' = "clear"
  /\ UNCHANGED <<recreate, startAge, passAge, seen, sig, pending, ghosts>>

\* The flag is lowered after the state was read.
ClearFlag ==
  /\ loop = "clear"
  /\ recreate' = FALSE
  /\ loop' = "idle"
  /\ UNCHANGED <<local, passAge, seen, sig, pending, ghosts>>

CheckFailed ==
  /\ loop = "check" /\ seen = "down"
  /\ NoteFailure(passAge)
  /\ loop' = "idle"
  /\ UNCHANGED <<recreate, startAge, passAge, seen, sig, pending, ghosts>>

CheckConnecting ==
  /\ loop = "check" /\ seen = "connecting"
  /\ loop' = "idle"
  /\ UNCHANGED <<recreate, local, passAge, seen, sig, pending, ghosts>>

-----------------------------------------------------------------------------
(***************************************************************************)
(* The signaling client's thread: its state changes, then it calls back.   *)
(***************************************************************************)

Connects ==
  /\ sig = "connecting" /\ pending = "none" /\ loop # "connect"
  /\ sig' = "up" /\ pending' = "connected"
  /\ failures' = 0 /\ owed' = FALSE
  /\ UNCHANGED <<recreate, local, passAge, loop, seen, attemptAge>>

\* The connection is lost or cannot be made; the client may try again itself,
\* or report an error.
Loses ==
  /\ sig \in {"up", "connecting"} /\ pending = "none" /\ loop # "connect"
  /\ \/ sig' \in {"down", "connecting"} /\ pending' = "error"
     \/ sig' = "connecting" /\ UNCHANGED pending
  /\ UNCHANGED <<recreate, local, passAge, loop, seen, ghosts>>

\* An error that leaves the connection up, as a failed ICE refresh.
Errs ==
  /\ sig = "up" /\ pending = "none" /\ loop # "connect"
  /\ pending' = "error"
  /\ UNCHANGED <<recreate, local, passAge, loop, seen, sig, ghosts>>

\* signalingClientStateChangedWrapper(CONNECTED)
ConnectedCallback ==
  /\ pending = "connected"
  /\ pending' = "none"
  /\ recreate' = FALSE
  /\ UNCHANGED <<local, passAge, loop, seen, sig, failures, attemptAge, owed>>

\* signalingClientError() with an error that asks for a reconnect
ErrorCallback ==
  /\ pending = "error"
  /\ pending' = "none"
  /\ recreate' = TRUE /\ owed' = TRUE
  /\ UNCHANGED <<local, passAge, loop, seen, sig, failures, attemptAge>>

-----------------------------------------------------------------------------
Older(age) == IF age = Never THEN Never ELSE Min2(age + 1, Longest)

Tick ==
  /\ retryAge' = Older(retryAge)
  /\ startAge' = IF inProgress THEN Older(startAge) ELSE startAge
  /\ passAge' = IF loop = "idle" THEN passAge ELSE Older(passAge)
  /\ attemptAge' = IF failures > 0 THEN Older(attemptAge) ELSE attemptAge
  /\ UNCHANGED <<recreate, inProgress, retryCount, loop, seen, sig, pending,
                 failures, owed>>

Pass == PassTimesOut \/ PassRetries \/ PassWaits

Attempt ==
  \/ ConnectFails \/ ConnectReturns
  \/ CheckConnected \/ ClearFlag \/ CheckFailed \/ CheckConnecting

Client == Connects \/ Loses \/ Errs \/ ConnectedCallback \/ ErrorCallback

SrNext == Pass \/ Attempt \/ Client \/ Tick

SrSpec == SrInit /\ [][SrNext]_srVars

\* The loop wakes every SAMPLE_SESSION_CLEANUP_WAIT_PERIOD (the client's thread
\* cannot keep disconnect() waiting for ever), time passes, connect() returns and
\* a callback that is due is made.
SrFairness ==
  /\ SF_srVars(Pass) /\ WF_srVars(Attempt) /\ WF_srVars(Tick)
  /\ WF_srVars(ConnectedCallback) /\ WF_srVars(ErrorCallback)

SrFairSpec == SrSpec /\ SrFairness

-----------------------------------------------------------------------------
\* Reconnect attempts of one outage are spaced by the backoff: after n attempts
\* without a connection the next one comes at least the delay for n later,
\* however the attempts failed (at once, by their state, by timing out) and
\* however long connect() took (app_webrtc.c, retryDelays).
BackoffHolds ==
  [][(loop = "idle" /\ loop' = "connect" /\ failures > 0)
        => attemptAge >= Delay(failures)]_srVars

\* A raised flag is acted on: whatever an attempt in progress or the backoff make
\* the loop wait for, it attempts again or the client connects
\* ("retry indefinitely", "keep recreate_signaling_client flag TRUE to continue
\* retrying").
RetriesGoOn == recreate ~> (~recreate \/ loop = "connect")

\* An error that asked for a reconnect stays asked for until an attempt is made
\* or the client is connected again (the store at app_webrtc.c:1034 "can safely
\* clear it here as well for robustness").
NoErrorLost == owed => recreate
=============================================================================
