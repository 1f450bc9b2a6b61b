----------------------------- MODULE KvsClient -----------------------------
(***************************************************************************)
(* components/kvs_webrtc/src/kvs_webrtc.c: the life of the peer connection *)
(* client between kvs_pc_init() and kvs_pc_free(), its two timers and the  *)
(* certificates it makes in advance.                                       *)
(*                                                                         *)
(* The timer queue runs its callbacks one at a time on one thread; a       *)
(* cancel waits for the callback that is running (TimerQueue).  Creating a *)
(* certificate takes long and happens under certificateLock on that        *)
(* thread, so the callback only tries the lock, and a session that finds   *)
(* the queue empty makes a certificate of its own without it.  The         *)
(* application frees the client when no session is being created           *)
(* (AppLifecycle).                                                         *)
(***************************************************************************)
EXTENDS Integers, Sequences, SequencesExt, FiniteSets

CONSTANTS Makers,      \* tasks that create sessions
          PoolLimit,   \* MAX_RTCCONFIGURATION_CERTIFICATES
          KcMaxCerts,  \* bound: certificates ever made
          KcMaxInits   \* bound: clients ever made

ASSUME KcAssumption ==
  /\ PoolLimit \in Nat \ {0} /\ KcMaxCerts \in Nat /\ KcMaxInits \in Nat
  /\ {"timer", "free"} \cap Makers = {}

VARIABLES life,      \* how far kvs_pc_init() or kvs_pc_free() is
          certTimer, \* pregenerateCertTimerId is set
          statTimer, \* iceCandidatePairStatsTimerId is set
          pool,      \* pregeneratedCertificates
          certLock,  \* holder of certificateLock
          thread,    \* what the timer thread runs
          maker,     \* where each creator of a session is
          held,      \* the certificate a thread or task holds
          state,     \* of every certificate: "unmade", "owned", "freed"
          kcStray,     \* a timer is armed for a client that is gone
          inits

kcVars == <<life, certTimer, statTimer, pool, certLock, thread, maker, held,
            state, kcStray, inits>>

Certs == 1..KcMaxCerts
NoCert == 0
Holders == Makers \cup {"timer"}

\* kvs_pc_init() in the order its failures matter; "ready" when it returned.
Lives == {"none", "timers", "ready", "cancelling", "draining", "stopping", "freed"}

KcTypeOK ==
  /\ life \in Lives
  /\ certTimer \in BOOLEAN /\ statTimer \in BOOLEAN /\ kcStray \in BOOLEAN
  /\ pool \in Seq(Certs)
  /\ certLock \in Holders \cup {"free"}
  /\ thread \in {"idle", "pregenerate", "stats"}
  /\ maker \in [Makers -> {"idle", "taking", "creating", "connecting"}]
  /\ held \in [Holders -> Certs \cup {NoCert}]
  /\ state \in [Certs -> {"unmade", "owned", "freed"}]
  /\ inits \in 0..KcMaxInits

KcInit ==
  /\ life = "none" /\ certTimer = FALSE /\ statTimer = FALSE /\ kcStray = FALSE
  /\ pool = <<>> /\ certLock = "free" /\ thread = "idle"
  /\ maker = [m \in Makers |-> "idle"]
  /\ held = [h \in Holders |-> NoCert]
  /\ state = [c \in Certs |-> "unmade"]
  /\ inits = 0

\* createRtcCertificate(); certificates are used once.
CreateClient(h) ==
  \E c \in Certs :
    /\ state[c] = "unmade" /\ \A d \in 1..(c - 1) : state[d] # "unmade"
    /\ state' = [state EXCEPT ![c] = "owned"]
    /\ held' = [held EXCEPT ![h] = c]

----------------------------------------------------------------------------
(* kvs_pc_init() *)

\* Configuration, mutexes, the timer queue, then
\* kvs_initializeCertificatePregeneration(), which arms the first timer.  What
\* becomes of the process after an init that failed is not followed.
InitStarts ==
  /\ life \in {"none", "freed"} /\ ~kcStray /\ inits < KcMaxInits
  /\ inits' = inits + 1
  /\ life' = "timers"
  /\ certTimer' = TRUE
  /\ UNCHANGED <<statTimer, pool, certLock, thread, maker, held, state, kcStray>>

\* statsLock, activeSessions and kvs_startIceStats() follow.
InitEnds ==
  /\ life = "timers"
  /\ life' = "ready"
  /\ statTimer' = TRUE
  /\ UNCHANGED <<certTimer, pool, certLock, thread, maker, held, state, kcStray, inits>>

\* One of them fails: the client's memory is freed and nothing else, so the
\* first timer keeps running on it.
InitFails ==
  /\ life = "timers"
  /\ life' = "freed"
  /\ kcStray' = TRUE
  /\ UNCHANGED <<certTimer, statTimer, pool, certLock, thread, maker, held, state, inits>>

----------------------------------------------------------------------------
(* The timer thread *)

ClientUsable == life \in {"timers", "ready", "cancelling", "draining", "stopping"}

\* kvs_pregenerateCertTimerCallback(): gives up when the lock is taken or the
\* queue is full, otherwise makes a certificate with the lock held.
PregenerateStarts ==
  /\ thread = "idle" /\ certTimer /\ ClientUsable
  /\ certLock = "free" /\ Len(pool) # PoolLimit
  /\ certLock' = "timer"
  /\ thread' = "pregenerate"
  /\ UNCHANGED <<life, certTimer, statTimer, pool, maker, held, state, kcStray, inits>>

PregenerateCreates ==
  /\ thread = "pregenerate" /\ held["timer"] = NoCert
  /\ CreateClient("timer")
  /\ UNCHANGED <<life, certTimer, statTimer, pool, certLock, thread, maker, kcStray, inits>>

PregenerateStores ==
  /\ thread = "pregenerate" /\ held["timer"] # NoCert
  /\ pool' = Append(pool, held["timer"])
  /\ held' = [held EXCEPT !["timer"] = NoCert]
  /\ certLock' = "free"
  /\ thread' = "idle"
  /\ UNCHANGED <<life, certTimer, statTimer, maker, state, kcStray, inits>>

\* createRtcCertificate() or stackQueueEnqueue() failed.
PregenerateFails ==
  /\ thread = "pregenerate"
  /\ state' = [c \in Certs |-> IF c = held["timer"] THEN "freed" ELSE state[c]]
  /\ held' = [held EXCEPT !["timer"] = NoCert]
  /\ certLock' = "free"
  /\ thread' = "idle"
  /\ UNCHANGED <<life, certTimer, statTimer, pool, maker, kcStray, inits>>

\* kvs_iceCandidatePairStatsCallback(), which tries statsLock and walks the
\* sessions under it (KvsPeer).
StatsRun ==
  /\ \/ thread = "idle" /\ statTimer /\ ClientUsable /\ thread' = "stats"
     \/ thread = "stats" /\ thread' = "idle"
  /\ UNCHANGED <<life, certTimer, statTimer, pool, certLock, maker, held, state, kcStray, inits>>

----------------------------------------------------------------------------
(* kvs_initializePeerConnection() and its certificate *)

TakeStarts(m) ==
  /\ life = "ready" /\ maker[m] = "idle" /\ certLock = "free"
  /\ certLock' = m
  /\ maker' = [maker EXCEPT ![m] = "taking"]
  /\ UNCHANGED <<life, certTimer, statTimer, pool, thread, held, state, kcStray, inits>>

\* Mutant: the certificate stays in the queue.
TakesCertPeeking(m) ==
  /\ maker[m] = "taking"
  /\ certLock' = "free"
  /\ IF pool = <<>>
     THEN maker' = [maker EXCEPT ![m] = "creating"] /\ UNCHANGED <<pool, held>>
     ELSE /\ held' = [held EXCEPT ![m] = Head(pool)]
          /\ maker' = [maker EXCEPT ![m] = "connecting"]
          /\ UNCHANGED pool
  /\ UNCHANGED <<life, certTimer, statTimer, thread, state, kcStray, inits>>

\* kvs_getOrCreateCertificate(): STATUS_NOT_FOUND from the queue is no error.
TakesCert(m) ==
  /\ maker[m] = "taking"
  /\ certLock' = "free"
  /\ IF pool = <<>>
     THEN maker' = [maker EXCEPT ![m] = "creating"] /\ UNCHANGED <<pool, held>>
     ELSE /\ held' = [held EXCEPT ![m] = Head(pool)]
          /\ pool' = Tail(pool)
          /\ maker' = [maker EXCEPT ![m] = "connecting"]
  /\ UNCHANGED <<life, certTimer, statTimer, thread, state, kcStray, inits>>

\* The slow path, without the lock.
CreatesOwn(m) ==
  /\ maker[m] = "creating"
  /\ CreateClient(m)
  /\ maker' = [maker EXCEPT ![m] = "connecting"]
  /\ UNCHANGED <<life, certTimer, statTimer, pool, certLock, thread, kcStray, inits>>

CreateOwnFails(m) ==
  /\ maker[m] = "creating"
  /\ maker' = [maker EXCEPT ![m] = "idle"]
  /\ UNCHANGED <<life, certTimer, statTimer, pool, certLock, thread, held, state, kcStray, inits>>

\* createPeerConnection() copies the certificate; whether it succeeds or not the
\* original is freed.
Connects(m) ==
  /\ maker[m] = "connecting"
  /\ state' = [state EXCEPT ![held[m]] = "freed"]
  /\ held' = [held EXCEPT ![m] = NoCert]
  /\ maker' = [maker EXCEPT ![m] = "idle"]
  /\ UNCHANGED <<life, certTimer, statTimer, pool, certLock, thread, kcStray, inits>>

----------------------------------------------------------------------------
(* kvs_pc_free() *)

KcFreeStarts ==
  /\ life = "ready"
  /\ \A m \in Makers : maker[m] = "idle"
  /\ life' = "cancelling"
  /\ UNCHANGED <<certTimer, statTimer, pool, certLock, thread, maker, held, state, kcStray, inits>>

\* Mutant: the cancel does not wait for the callback.
FreeCancelsCertNow ==
  /\ life = "cancelling"
  /\ certTimer' = FALSE
  /\ life' = "draining"
  /\ UNCHANGED <<statTimer, pool, certLock, thread, maker, held, state, kcStray, inits>>

\* kvs_freeCertificatePregeneration(): the timer first, waiting for a callback
\* that runs,
FreeCancelsCert ==
  /\ life = "cancelling" /\ thread = "idle"
  /\ certTimer' = FALSE
  /\ life' = "draining"
  /\ UNCHANGED <<statTimer, pool, certLock, thread, maker, held, state, kcStray, inits>>

\* then the certificates and the lock.
FreeDrainsPool ==
  /\ life = "draining"
  /\ state' = [c \in Certs |-> IF Contains(pool, c) THEN "freed" ELSE state[c]]
  /\ pool' = <<>>
  /\ life' = "stopping"
  /\ UNCHANGED <<certTimer, statTimer, certLock, thread, maker, held, kcStray, inits>>

\* kvs_stopIceStats() and timerQueueFree(), both of which wait for the thread;
\* then the table, statsLock, the server list and the client.
FreeEndsClient ==
  /\ life = "stopping" /\ thread = "idle"
  /\ statTimer' = FALSE
  /\ life' = "freed"
  /\ UNCHANGED <<certTimer, pool, certLock, thread, maker, held, state, kcStray, inits>>

----------------------------------------------------------------------------
KcTimerSteps == PregenerateStarts \/ PregenerateCreates \/ PregenerateStores
                \/ PregenerateFails \/ StatsRun

KcFreeSteps == KcFreeStarts \/ FreeCancelsCert \/ FreeDrainsPool \/ FreeEndsClient

KcNext ==
  \/ InitStarts \/ InitEnds \/ InitFails
  \/ KcTimerSteps \/ KcFreeSteps
  \/ \E m \in Makers : TakeStarts(m) \/ TakesCert(m) \/ CreatesOwn(m)
                       \/ CreateOwnFails(m) \/ Connects(m)

KcSpec == KcInit /\ [][KcNext]_kcVars

----------------------------------------------------------------------------
Copies(c) == Cardinality({i \in DOMAIN pool : pool[i] = c})
             + Cardinality({h \in Holders : held[h] = c})

\* kvs_freeCertificatePregeneration(), kvs_getOrCreateCertificate(): a
\* certificate has exactly one owner (the queue, the timer thread or a session
\* being created) from the moment it is made until it is freed: none is freed
\* twice, used after it was freed, or left over when the client is gone.
CertHasOneOwner ==
  \A c \in Certs : Copies(c) = (IF state[c] = "owned" THEN 1 ELSE 0)

\* kvs_pc_free(): once the client's memory is freed nothing of it is in use: no
\* certificate waits in its queue, its lock is free, no timer is armed for it and
\* no callback runs (after an init that failed half-way this is not so).
NothingLeftRunning ==
  life = "freed" /\ ~kcStray
    => pool = <<>> /\ certLock = "free" /\ thread = "idle" /\ ~certTimer /\ ~statTimer

\* Certificates are made, pooled, handed out and freed once, and a freed client has neither
\* timers nor a certificate task left (kvs_webrtc.c).
ClientSound == CertHasOneOwner /\ NothingLeftRunning
=============================================================================
