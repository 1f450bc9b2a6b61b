-------------------------- MODULE ConnectionProofs --------------------------
(***************************************************************************)
(* Theorems about what a peer connection is set up with, over the run's    *)
(* composition MCPeers: its ICE servers (IceConfig), the certificates of   *)
(* its client (KvsClient), negotiation (KvsNegotiation), data channels     *)
(* (DataChannels) and reception (Reception), for every set of sessions,    *)
(* makers, candidates and signaling implementations and every bound on     *)
(* triggers, fetches, faults, frames, offers, messages and calls.          *)
(***************************************************************************)
EXTENDS MCPeers, FiniteSetTheorems, SequenceTheorems, TLAPS

----------------------------------------------------------------------------
(* IceConfig: which servers a session works with *)

\* The sets are numbered in the order they are fetched.
IcTypes ==
  /\ family \in {"kvs", "bridge", "apprtc"}
  /\ cached \in Nat /\ scratch \in Nat /\ fetches \in Nat /\ iceFaults \in Nat
  /\ list \in Nat \cup {NoList}
  /\ alone \in BOOLEAN /\ crossed \in BOOLEAN /\ expired \in BOOLEAN
  /\ jobs \in Seq({"refresh", "apply"})
  /\ pc \in [msg : MsgPlaces, work : WorkPlaces]
  /\ building \in IceSessions \cup {Unmade}
  /\ pc.msg \in {"copying", "connecting"} => building # Unmade
  /\ \A s \in iceLive : s \in IceSessions

\* Which implementation fetches servers, and on which task.
IcPlaces ==
  /\ family # "kvs" => pc.msg \notin {"checking", "reading", "installing"}
  /\ pc.msg = "reading" => cached > 0
  /\ family = "apprtc" => cached = 0 /\ jobs = <<>> /\ pc.work = "idle"

\* While nothing failed: what the worker is about to install and to push is what the cache
\* holds, or another task is queued; a push that met no creation leaves every session with it.
IcPushed ==
  /\ pc.work = "installing" => scratch > 0 /\ (scratch = cached \/ jobs # <<>>)
  /\ pc.work = "applying" /\ alone => pc.msg = "idle" /\ list > 0 /\ (list = cached \/ jobs # <<>>)
  /\ ~crossed /\ jobs = <<>> /\ pc.work = "idle" /\ cached > 0
       => pc.msg = "idle" /\ \A s \in iceLive : servers[s] = cached

IceInv == IcTypes /\ IcPlaces /\ (iceFaults = 0 => IcPushed)

LEMMA IceReaches == IceInv => TurnReaches
  BY DEF IceInv, IcTypes, IcPlaces, IcPushed, TurnReaches, Settled, HasValidIceConfig

\* A fetch that does not fail leaves a set.
LEMMA RefreshParts ==
  ASSUME IcTypes, NEW ok \in BOOLEAN, RefreshIceConfiguration(ok)
  PROVE  /\ cached' \in Nat /\ fetches' \in Nat /\ iceFaults' \in Nat /\ expired' \in BOOLEAN
         /\ iceFaults' = 0 => iceFaults = 0 /\ ok
         /\ ok => cached' > 0 /\ iceFaults' = iceFaults
         /\ cached > 0 => cached' > 0
         /\ ~ok => cached' = cached
  <1>1. CASE HasValidIceConfig
    BY <1>1 DEF RefreshIceConfiguration, HasValidIceConfig, cacheVars, IcTypes
  <1>2. CASE ~HasValidIceConfig /\ ok
    <2>1. fetches' = fetches + 1 /\ cached' = fetches + 1 /\ expired' = FALSE /\ iceFaults' = iceFaults
      BY <1>2, Zenon DEF RefreshIceConfiguration
    <2>2. fetches \in Nat /\ iceFaults \in Nat
      BY DEF IcTypes
    <2>3. cached' \in Nat /\ fetches' \in Nat /\ iceFaults' \in Nat /\ cached' > 0
      BY <2>1, <2>2
    <2>4. expired' \in BOOLEAN
      BY <2>1
    <2> QED
      BY <1>2, <2>1, <2>3, <2>4, Zenon
  <1>3. CASE ~HasValidIceConfig /\ ~ok
    BY <1>3 DEF RefreshIceConfiguration, IcTypes
  <1> QED
    BY <1>1, <1>2, <1>3

LEMMA IceStep == IceInv /\ IceNext => IceInv'
  <1> SUFFICES ASSUME IcTypes, IcPlaces, iceFaults = 0 => IcPushed, IceNext
               PROVE  IceInv'
    BY DEF IceInv
  <1> USE DEF MsgPlaces, WorkPlaces
  <1>1. ASSUME NEW s \in IceSessions \cup {Unmade}, TriggerProgressiveIce(s)
        PROVE  IceInv'
    <2>1. /\ pc.msg = "idle" /\ alone' = FALSE /\ building' = s
          /\ UNCHANGED <<family, list, scratch, servers, iceLive, crossed, iceFaults, expired, fetches>>
      BY <1>1 DEF TriggerProgressiveIce, clientVars, cacheVars
    <2>2. CASE family = "kvs"
      <3>1. /\ jobs' \in Seq({"refresh", "apply"}) /\ jobs' # <<>> /\ cached' = cached
            /\ pc' = [pc EXCEPT !.msg = "checking"]
        BY <1>1, <2>2 DEF TriggerProgressiveIce, QueryFirstServer, IcTypes, cacheVars
      <3> QED
        BY <2>1, <2>2, <3>1 DEF IceInv, IcTypes, IcPlaces, IcPushed
    <2>3. CASE family = "bridge"
      <3>1. /\ jobs' \in Seq({"refresh", "apply"}) /\ jobs' # <<>> /\ cached' = 0
            /\ pc' = [pc EXCEPT !.msg = "fallback"]
        BY <1>1, <2>3 DEF TriggerProgressiveIce, IcTypes
      <3> QED
        BY <2>1, <2>3, <3>1 DEF IceInv, IcTypes, IcPlaces, IcPushed
    <2>4. CASE family = "apprtc"
      <3>1. jobs' = jobs /\ cached' = cached /\ pc' = [pc EXCEPT !.msg = "fallback"]
        BY <1>1, <2>4 DEF TriggerProgressiveIce, cacheVars
      <3>2. IcTypes'
        BY <2>1, <2>4, <3>1 DEF IcTypes
      <3>3. pc'.msg = "fallback" /\ pc'.work = pc.work
        BY <3>1 DEF IcTypes
      <3>4. IcPlaces' /\ IcPushed'
        BY <2>1, <2>4, <3>1, <3>3 DEF IcTypes, IcPlaces, IcPushed
      <3> QED
        BY <3>2, <3>4 DEF IceInv
    <2> QED
      BY <2>2, <2>3, <2>4 DEF IcTypes
  <1>2. CASE ChecksCache
    BY <1>2 DEF ChecksCache, HasValidIceConfig, cacheVars, clientVars, sessionVars, overlap,
       IceInv, IcTypes, IcPlaces, IcPushed
  <1>3. CASE GetIceServers("msg")
    <2>1. PICK ok \in BOOLEAN : RefreshIceConfiguration(ok) /\ scratch' = IF ok THEN cached' ELSE 0
      BY <1>3 DEF GetIceServers
    <2>2. /\ pc.msg = "reading" /\ pc' = [pc EXCEPT !.msg = "installing"]
          /\ UNCHANGED <<family, list, jobs, building, servers, iceLive, alone, crossed>>
      BY <1>3 DEF GetIceServers, clientVars, sessionVars, overlap
    <2> QED
      BY <2>1, <2>2, RefreshParts DEF IceInv, IcTypes, IcPlaces, IcPushed
  <1>4. CASE GetIceServers("work")
    <2>1. PICK ok \in BOOLEAN : RefreshIceConfiguration(ok) /\ scratch' = IF ok THEN cached' ELSE 0
      BY <1>4 DEF GetIceServers
    <2>2. /\ pc.work = "reading" /\ pc' = [pc EXCEPT !.work = "installing"]
          /\ UNCHANGED <<family, list, jobs, building, servers, iceLive, alone, crossed>>
      BY <1>4 DEF GetIceServers, clientVars, sessionVars, overlap
    <2> QED
      BY <2>1, <2>2, RefreshParts DEF IceInv, IcTypes, IcPlaces, IcPushed
  <1>5. CASE InstallsCached("msg")
    BY <1>5 DEF InstallsCached, Install, InstallFails, cacheVars, sessionVars,
       IceInv, IcTypes, IcPlaces, IcPushed
  <1>6. CASE InstallsCached("work")
    <2>1. /\ pc.work = "installing" /\ alone' = (pc.msg = "idle")
          /\ UNCHANGED <<family, cached, expired, fetches, scratch, jobs, building, servers, iceLive,
                         crossed>>
      BY <1>6 DEF InstallsCached, cacheVars, sessionVars
    <2>2. CASE Install(scratch) /\ pc' = [pc EXCEPT !.work = "applying"] /\ UNCHANGED iceFaults
      BY <2>1, <2>2 DEF Install, IceInv, IcTypes, IcPlaces, IcPushed
    <2>3. CASE InstallFails /\ pc' = [pc EXCEPT !.work = "idle"]
      <3>1. iceFaults' \in Nat /\ iceFaults' # 0 /\ list' = NoList
        BY <2>3 DEF InstallFails, IcTypes
      <3> QED
        BY <2>1, <2>3, <3>1 DEF IceInv, IcTypes, IcPlaces
    <2> QED
      BY <1>6, <2>2, <2>3 DEF InstallsCached
  <1>7. CASE InstallsImmediate
    BY <1>7 DEF InstallsImmediate, Install, InstallFails, cacheVars, sessionVars, overlap,
       IceInv, IcTypes, IcPlaces, IcPushed
  <1>8. CASE AppliesToSessions("msg")
    BY <1>8 DEF AppliesToSessions, cacheVars, clientVars, IceInv, IcTypes, IcPlaces, IcPushed
  <1>9. CASE AppliesToSessions("work")
    <2>1. /\ pc.work = "applying" /\ pc' = [pc EXCEPT !.work = "idle"]
          /\ crossed' = ~(alone /\ pc.msg = "idle")
          /\ UNCHANGED <<family, cached, expired, fetches, list, scratch, jobs, building, iceLive,
                         alone, iceFaults>>
      BY <1>9 DEF AppliesToSessions, cacheVars, clientVars
    <2>2. list > 0 => \A s \in iceLive : servers'[s] = list
      BY <1>9 DEF AppliesToSessions, PushTurn, IcTypes
    <2> QED
      BY <2>1, <2>2 DEF IceInv, IcTypes, IcPlaces, IcPushed
  <1>10. CASE CreateBegins \/ CopiesServers \/ RegistersSession \/ CreateFails
    BY <1>10 DEF CreateBegins, CopiesServers, RegistersSession, CreateFails, cacheVars, clientVars,
       sessionVars, overlap, IceInv, IcTypes, IcPlaces, IcPushed
  <1>11. ASSUME NEW s \in IceSessions, SessionEnds(s)
         PROVE  IceInv'
    BY <1>11 DEF SessionEnds, cacheVars, clientVars, overlap, IceInv, IcTypes, IcPlaces, IcPushed
  <1>12. CASE WorkTakes
    <2>1. jobs' \in Seq({"refresh", "apply"})
      BY <1>12 DEF WorkTakes, IcTypes
    <2> QED
      BY <1>12, <2>1 DEF WorkTakes, cacheVars, clientVars, sessionVars, overlap,
         IceInv, IcTypes, IcPlaces, IcPushed
  <1>13. CASE WorkCounts
    <2>1. PICK ok \in BOOLEAN :
            /\ RefreshIceConfiguration(ok)
            /\ pc' = [pc EXCEPT !.work = IF ok /\ cached' > 0 THEN "reading" ELSE "idle"]
      BY <1>13 DEF WorkCounts
    <2>2. /\ pc.work = "counting"
          /\ UNCHANGED <<family, list, scratch, jobs, building, servers, iceLive, alone, crossed>>
      BY <1>13 DEF WorkCounts, clientVars, sessionVars, overlap
    <2> QED
      BY <2>1, <2>2, RefreshParts DEF IceInv, IcTypes, IcPlaces, IcPushed
  <1>14. CASE CacheExpires \/ LimitEnds
    <2>1. /\ expired' \in BOOLEAN
          /\ UNCHANGED <<family, cached, list, scratch, jobs, pc, building, servers, iceLive, alone,
                         crossed, fetches, iceFaults>>
      BY <1>14 DEF CacheExpires, LimitEnds, IcTypes, clientVars, sessionVars, overlap
    <2> QED
      BY <2>1 DEF IceInv, IcTypes, IcPlaces, IcPushed
  <1> QED
    BY <1>1, <1>2, <1>3, <1>4, <1>5, <1>6, <1>7, <1>8, <1>9, <1>10, <1>11, <1>12, <1>13, <1>14
       DEF IceNext, IceMsgSteps, IceWorkSteps

LEMMA IceInductive ==
  (IceInit => IceInv) /\ (IceInv /\ [IceNext]_iceVars => IceInv')
  <1>1. IceInit => IceInv
    <2> SUFFICES ASSUME IceInit PROVE IceInv
      OBVIOUS
    <2>1. jobs \in Seq({"refresh", "apply"}) /\ family \in {"kvs", "bridge", "apprtc"}
      BY IceAssumption DEF IceInit
    <2>2. IcTypes
      BY <2>1 DEF IceInit, IcTypes, MsgPlaces, WorkPlaces
    <2> QED
      BY <2>2 DEF IceInit, IceInv, IcPlaces, IcPushed
  <1>2. IceInv /\ UNCHANGED iceVars => IceInv'
    BY DEF iceVars, IceInv, IcTypes, IcPlaces, IcPushed
  <1> QED
    BY <1>1, <1>2, IceStep

----------------------------------------------------------------------------
(* KvsClient: where a certificate is *)

\* The objects of the client.
KcTypes ==
  /\ life \in Lives /\ certTimer \in BOOLEAN /\ statTimer \in BOOLEAN /\ kcStray \in BOOLEAN
  /\ pool \in Seq(Certs)
  /\ certLock \in Holders \cup {"free"}
  /\ thread \in {"idle", "pregenerate", "stats"}
  /\ maker \in [Makers -> {"idle", "taking", "creating", "connecting"}]
  /\ held \in [Holders -> Certs \cup {NoCert}]
  /\ state \in [Certs -> {"unmade", "owned", "freed"}]

\* A certificate that is owned is in one place: at one index of the queue, or in one hand.
OnePlace ==
  /\ \A i, j \in 1..Len(pool) : pool[i] = pool[j] => i = j
  /\ \A h, g \in Holders : held[h] = held[g] => h = g \/ held[h] = NoCert
  /\ \A i \in 1..Len(pool), h \in Holders : pool[i] # held[h]
  /\ \A i \in 1..Len(pool) : state[pool[i]] = "owned"
  /\ \A h \in Holders : held[h] # NoCert => state[held[h]] = "owned"
  /\ \A c \in Certs : state[c] = "owned" =>
        (\E i \in 1..Len(pool) : pool[i] = c) \/ (\E h \in Holders : held[h] = c)

\* Who holds a certificate, and who the lock.
KcPlaces ==
  /\ \A m \in Makers : held[m] # NoCert <=> maker[m] = "connecting"
  /\ \A m \in Makers : certLock = m <=> maker[m] = "taking"
  /\ held["timer"] # NoCert => thread = "pregenerate"
  /\ certLock = "timer" <=> thread = "pregenerate"

\* Sessions are created by a ready client only; a free takes the timer, then the queue.
KcLife ==
  /\ life # "ready" => \A m \in Makers : maker[m] = "idle"
  /\ life \in {"draining", "stopping"} => ~certTimer /\ thread # "pregenerate"
  /\ life = "stopping" => pool = <<>>
  /\ (life = "freed" /\ ~kcStray) \/ life = "none"
       => pool = <<>> /\ thread = "idle" /\ ~certTimer /\ ~statTimer
  /\ kcStray => life = "freed"

ClientInv == KcTypes /\ OnePlace /\ KcPlaces /\ KcLife

LEMMA HolderFacts ==
  /\ "timer" \in Holders /\ "timer" \notin Makers /\ Makers \subseteq Holders
  /\ "free" \notin Holders /\ NoCert \notin Certs
  /\ \A h \in Holders : h = "timer" \/ h \in Makers
  BY KcAssumption DEF Holders, NoCert, Certs

LEMMA TailParts ==
  ASSUME NEW S, NEW q \in Seq(S), q # <<>>
  PROVE  /\ Tail(q) \in Seq(S) /\ Len(q) \in Nat /\ Len(Tail(q)) = Len(q) - 1 /\ Head(q) = q[1]
         /\ 1 \in 1 .. Len(q) /\ q[1] \in S
         /\ \A i \in 1 .. Len(Tail(q)) : i + 1 \in 1 .. Len(q) /\ 1 < i + 1 /\ Tail(q)[i] = q[i + 1]
  <1>1. Tail(q) \in Seq(S) /\ Len(q) \in Nat /\ Len(Tail(q)) = Len(q) - 1 /\ Len(q) # 0 /\ Head(q) = q[1]
    OBVIOUS
  <1>2. \A i \in 1 .. Len(Tail(q)) : Tail(q)[i] = q[i + 1]
    OBVIOUS
  <1> QED
    BY <1>1, <1>2

\* One owner, counted.
LEMMA ClientIsSound ==
  ASSUME ClientInv
  PROVE  ClientSound
  <1> USE DEF ClientInv
  <1>1. ASSUME NEW c \in Certs
        PROVE  Copies(c) = IF state[c] = "owned" THEN 1 ELSE 0
    <2> DEFINE Queued == {i \in DOMAIN pool : pool[i] = c}
               Held == {h \in Holders : held[h] = c}
    <2>1. DOMAIN pool = 1..Len(pool)
      BY DEF KcTypes
    <2>2. CASE \E i \in 1..Len(pool) : pool[i] = c
      <3>1. PICK i \in 1..Len(pool) : pool[i] = c
        BY <2>2
      <3>2. Queued = {i} /\ Held = {}
        BY <2>1, <3>1 DEF OnePlace
      <3>3. state[c] = "owned"
        BY <3>1 DEF OnePlace
      <3> QED
        <4>1. Cardinality(Queued) = 1 /\ Cardinality(Held) = 0
          BY <3>2, FS_Singleton, FS_EmptySet
        <4> QED
          BY <3>3, <4>1 DEF Copies
    <2>3. CASE \E h \in Holders : held[h] = c
      <3>1. PICK h \in Holders : held[h] = c
        BY <2>3
      <3>2. Queued = {} /\ Held = {h}
        BY <2>1, <3>1, HolderFacts DEF OnePlace
      <3>3. state[c] = "owned"
        BY <3>1, HolderFacts DEF OnePlace
      <3> QED
        <4>1. Cardinality(Queued) = 0 /\ Cardinality(Held) = 1
          BY <3>2, FS_Singleton, FS_EmptySet
        <4> QED
          BY <3>3, <4>1 DEF Copies
    <2>4. CASE ~(\E i \in 1..Len(pool) : pool[i] = c) /\ ~(\E h \in Holders : held[h] = c)
      <3>1. Queued = {} /\ Held = {} /\ state[c] # "owned"
        BY <2>1, <2>4 DEF OnePlace
      <3> QED
        BY <3>1, FS_EmptySet DEF Copies
    <2> QED
      BY <2>2, <2>3, <2>4
  <1>2. NothingLeftRunning
    <2>1. ASSUME life = "freed", ~kcStray
          PROVE  certLock = "free"
      BY <2>1, HolderFacts DEF KcTypes, KcPlaces, KcLife
    <2> QED
      BY <2>1 DEF NothingLeftRunning, KcLife
  <1> QED
    BY <1>1, <1>2 DEF ClientSound, CertHasOneOwner

\* What CreateClient() makes is in nobody's hand yet.
LEMMA CreateKeeps ==
  ASSUME ClientInv, NEW h \in Holders, held[h] = NoCert, CreateClient(h), UNCHANGED pool
  PROVE  /\ OnePlace' /\ held' \in [Holders -> Certs \cup {NoCert}]
         /\ state' \in [Certs -> {"unmade", "owned", "freed"}]
         /\ held'[h] # NoCert /\ \A g \in Holders : g # h => held'[g] = held[g]
  <1> USE DEF ClientInv
  <1>1. PICK c \in Certs : /\ state[c] = "unmade"
                           /\ state' = [state EXCEPT ![c] = "owned"]
                           /\ held' = [held EXCEPT ![h] = c]
    BY DEF CreateClient
  <1>2. /\ held' \in [Holders -> Certs \cup {NoCert}] /\ held'[h] = c
        /\ \A g \in Holders : g # h => held'[g] = held[g]
    BY <1>1 DEF KcTypes
  <1>3. /\ state' \in [Certs -> {"unmade", "owned", "freed"}] /\ state'[c] = "owned"
        /\ \A d \in Certs : d # c => state'[d] = state[d]
    BY <1>1 DEF KcTypes
  <1>4. \A i \in 1..Len(pool) : pool[i] # c /\ pool[i] \in Certs
    BY <1>1 DEF OnePlace, KcTypes
  <1>5. \A g \in Holders : held[g] # c /\ held[g] \in Certs \cup {NoCert}
    BY <1>1, HolderFacts DEF OnePlace, KcTypes
  <1>6. c # NoCert
    BY HolderFacts
  <1>7. /\ \A i, j \in 1..Len(pool) : pool[i] = pool[j] => i = j
        /\ \A g, k \in Holders : held'[g] = held'[k] => g = k \/ held'[g] = NoCert
        /\ \A i \in 1..Len(pool), g \in Holders : pool[i] # held'[g]
    BY <1>2, <1>4, <1>5 DEF OnePlace
  <1>8. /\ \A i \in 1..Len(pool) : state'[pool[i]] = "owned"
        /\ \A g \in Holders : held'[g] # NoCert => state'[held'[g]] = "owned"
    BY <1>2, <1>3, <1>4, <1>5 DEF OnePlace
  <1>9. \A d \in Certs : state'[d] = "owned" =>
           (\E i \in 1..Len(pool) : pool[i] = d) \/ (\E g \in Holders : held'[g] = d)
    <2> SUFFICES ASSUME NEW d \in Certs, state'[d] = "owned", ~\E i \in 1..Len(pool) : pool[i] = d
                 PROVE  \E g \in Holders : held'[g] = d
      OBVIOUS
    <2>1. CASE d = c
      BY <1>2, <2>1
    <2>2. CASE d # c
      <3>1. PICK g \in Holders : held[g] = d
        BY <1>3, <2>2 DEF OnePlace
      <3>2. g # h
        BY <3>1, HolderFacts
      <3> QED
        BY <1>2, <3>1, <3>2
    <2> QED
      BY <2>1, <2>2
  <1> QED
    BY <1>2, <1>3, <1>6, <1>7, <1>8, <1>9 DEF OnePlace

\* Putting a hand's certificate away: it is freed and the hand is empty.
LEMMA DropKeeps ==
  ASSUME ClientInv, NEW h \in Holders, UNCHANGED pool, held' = [held EXCEPT ![h] = NoCert],
         state' = [c \in Certs |-> IF c = held[h] THEN "freed" ELSE state[c]]
  PROVE  /\ OnePlace' /\ held' \in [Holders -> Certs \cup {NoCert}]
         /\ state' \in [Certs -> {"unmade", "owned", "freed"}]
         /\ held'[h] = NoCert /\ \A g \in Holders : g # h => held'[g] = held[g]
  <1> USE DEF ClientInv
  <1>2. /\ held' \in [Holders -> Certs \cup {NoCert}] /\ held'[h] = NoCert
        /\ \A g \in Holders : g # h => held'[g] = held[g]
    BY DEF KcTypes
  <1>3. state' \in [Certs -> {"unmade", "owned", "freed"}]
    BY DEF KcTypes
  <1>4. \A i \in 1..Len(pool) : pool[i] \in Certs /\ pool[i] # held[h]
    BY DEF OnePlace, KcTypes
  <1>5. \A g \in Holders : held[g] \in Certs \cup {NoCert}
    BY DEF KcTypes
  <1> QED
    BY <1>2, <1>3, <1>4, <1>5, HolderFacts DEF OnePlace

\* The two timers, and the parts of a free.
LEMMA ClientStep ==
  ASSUME ClientInv, KcNext
  PROVE  ClientInv'
  <1> USE DEF ClientInv
  <1>1. CASE InitStarts
    BY <1>1 DEF InitStarts, KcTypes, OnePlace, KcPlaces, KcLife, Lives
  <1>2. CASE InitEnds
    BY <1>2 DEF InitEnds, KcTypes, OnePlace, KcPlaces, KcLife, Lives
  <1>3. CASE InitFails
    BY <1>3 DEF InitFails, KcTypes, OnePlace, KcPlaces, KcLife, Lives
  <1>4. CASE PregenerateStarts
    BY <1>4, HolderFacts DEF PregenerateStarts, ClientUsable, KcTypes, OnePlace, KcPlaces, KcLife, Lives
  <1>5. CASE PregenerateCreates
    <2>1. "timer" \in Holders /\ held["timer"] = NoCert /\ CreateClient("timer") /\ UNCHANGED pool
      BY <1>5, HolderFacts DEF PregenerateCreates
    <2>2. /\ OnePlace' /\ held' \in [Holders -> Certs \cup {NoCert}]
          /\ state' \in [Certs -> {"unmade", "owned", "freed"}]
          /\ held'["timer"] # NoCert /\ \A g \in Holders : g # "timer" => held'[g] = held[g]
      BY <2>1, CreateKeeps
    <2> QED
      BY <1>5, <2>2, HolderFacts DEF PregenerateCreates, KcTypes, KcPlaces, KcLife
  <1>6. CASE PregenerateStores
    <2>1. /\ held["timer"] \in Certs /\ pool' = Append(pool, held["timer"]) /\ "timer" \in Holders
          /\ held' = [held EXCEPT !["timer"] = NoCert] /\ UNCHANGED state
      BY <1>6, HolderFacts DEF PregenerateStores, KcTypes
    <2>2. /\ pool' \in Seq(Certs) /\ Len(pool) \in Nat /\ Len(pool') = Len(pool) + 1
          /\ \A i \in 1..Len(pool) : pool'[i] = pool[i]
          /\ pool'[Len(pool) + 1] = held["timer"]
          /\ \A i \in 1..Len(pool') : i \in 1..Len(pool) \/ i = Len(pool) + 1
      BY <2>1 DEF KcTypes
    <2>3. /\ held' \in [Holders -> Certs \cup {NoCert}] /\ held'["timer"] = NoCert
          /\ \A g \in Holders : g # "timer" => held'[g] = held[g]
      BY <2>1 DEF KcTypes
    <2>4. OnePlace'
      <3>1. \A i, j \in 1..Len(pool') : pool'[i] = pool'[j] => i = j
        BY <2>1, <2>2 DEF OnePlace
      <3>2. \A i \in 1..Len(pool'), h \in Holders : pool'[i] # held'[h]
        <4> SUFFICES ASSUME NEW i \in 1..Len(pool'), NEW h \in Holders
                     PROVE  pool'[i] # held'[h]
          OBVIOUS
        <4>1. pool'[i] \in Certs
          BY <2>2
        <4>2. CASE h = "timer"
          BY <2>3, <4>1, <4>2, HolderFacts
        <4>3. CASE h # "timer"
          BY <2>1, <2>2, <2>3, <4>1, <4>3, HolderFacts DEF OnePlace
        <4> QED
          BY <4>2, <4>3
      <3>3. \A h, g \in Holders : held'[h] = held'[g] => h = g \/ held'[h] = NoCert
        BY <2>3 DEF OnePlace
      <3>4. /\ \A i \in 1..Len(pool') : state'[pool'[i]] = "owned"
            /\ \A h \in Holders : held'[h] # NoCert => state'[held'[h]] = "owned"
        BY <2>1, <2>2, <2>3, HolderFacts DEF OnePlace
      <3>5. ASSUME NEW c \in Certs, state'[c] = "owned", ~\E h \in Holders : held'[h] = c
            PROVE  \E i \in 1..Len(pool') : pool'[i] = c
        <4>1. CASE c = held["timer"]
          BY <2>2, <4>1
        <4>2. CASE c # held["timer"]
          <5>1. ~\E h \in Holders : held[h] = c
            BY <2>3, <3>5, <4>2
          <5>2. PICK i \in 1..Len(pool) : pool[i] = c
            BY <2>1, <3>5, <5>1 DEF OnePlace
          <5> QED
            BY <2>2, <5>2
        <4> QED
          BY <4>1, <4>2
      <3> QED
        BY <3>1, <3>2, <3>3, <3>4, <3>5 DEF OnePlace
    <2>5. KcTypes' /\ KcPlaces'
      BY <1>6, <2>2, <2>3, HolderFacts DEF PregenerateStores, KcTypes, KcPlaces
    <2>6. KcLife'
      BY <1>6 DEF PregenerateStores, KcPlaces, KcLife
    <2> QED
      BY <2>4, <2>5, <2>6
  <1>7. CASE PregenerateFails
    <2>1. "timer" \in Holders /\ UNCHANGED pool /\ held' = [held EXCEPT !["timer"] = NoCert]
          /\ state' = [c \in Certs |-> IF c = held["timer"] THEN "freed" ELSE state[c]]
      BY <1>7, HolderFacts DEF PregenerateFails
    <2>2. /\ OnePlace' /\ held' \in [Holders -> Certs \cup {NoCert}]
          /\ state' \in [Certs -> {"unmade", "owned", "freed"}]
          /\ held'["timer"] = NoCert /\ \A g \in Holders : g # "timer" => held'[g] = held[g]
      BY <2>1, DropKeeps
    <2> QED
      BY <1>7, <2>2, HolderFacts DEF PregenerateFails, KcTypes, KcPlaces, KcLife
  <1>8. CASE StatsRun
    BY <1>8 DEF StatsRun, ClientUsable, KcTypes, OnePlace, KcPlaces, KcLife, Lives
  <1>9. ASSUME NEW m \in Makers, TakeStarts(m)
        PROVE  ClientInv'
    BY <1>9, HolderFacts DEF TakeStarts, KcTypes, OnePlace, KcPlaces, KcLife
  <1>10. ASSUME NEW m \in Makers, TakesCert(m)
         PROVE  ClientInv'
    <2>1. m \in Holders /\ maker[m] = "taking" /\ certLock = m /\ held[m] = NoCert /\ life = "ready"
      BY <1>10, HolderFacts DEF TakesCert, KcTypes, KcPlaces, KcLife
    <2>2. CASE pool = <<>>
      BY <1>10, <2>1, <2>2, HolderFacts DEF TakesCert, KcTypes, OnePlace, KcPlaces, KcLife
    <2>3. CASE pool # <<>>
      <3>1. /\ held' = [held EXCEPT ![m] = Head(pool)] /\ pool' = Tail(pool)
            /\ maker' = [maker EXCEPT ![m] = "connecting"] /\ certLock' = "free"
            /\ UNCHANGED <<life, certTimer, statTimer, thread, state, kcStray>>
        BY <1>10, <2>3 DEF TakesCert
      <3>2. /\ pool' \in Seq(Certs) /\ Len(pool) \in Nat /\ Len(pool') = Len(pool) - 1 /\ Head(pool) = pool[1]
            /\ 1 \in 1..Len(pool) /\ pool[1] \in Certs
            /\ \A i \in 1..Len(pool') : i + 1 \in 1..Len(pool) /\ 1 < i + 1 /\ pool'[i] = pool[i + 1]
        BY <2>3, <3>1, TailParts DEF KcTypes
      <3>3. /\ held' \in [Holders -> Certs \cup {NoCert}] /\ held'[m] = pool[1]
            /\ \A g \in Holders : g # m => held'[g] = held[g]
        BY <2>1, <3>1, <3>2 DEF KcTypes
      <3>4. /\ \A i, j \in 1..Len(pool') : pool'[i] = pool'[j] => i = j
            /\ \A i \in 1..Len(pool') : pool'[i] # pool[1]
        <4>1. ASSUME NEW i \in 1..Len(pool'), NEW j \in 1..Len(pool'), pool'[i] = pool'[j]
              PROVE  i = j
          <5>1. i + 1 = j + 1
            BY <3>2, <4>1 DEF OnePlace
          <5> QED
            BY <5>1
        <4>2. ASSUME NEW i \in 1..Len(pool')
              PROVE  pool'[i] # pool[1]
          BY <3>2 DEF OnePlace
        <4> QED
          BY <4>1, <4>2
      <3>5. \A h, g \in Holders : held'[h] = held'[g] => h = g \/ held'[h] = NoCert
        BY <2>1, <3>2, <3>3 DEF OnePlace
      <3>6. \A i \in 1..Len(pool'), h \in Holders : pool'[i] # held'[h]
        BY <2>1, <3>2, <3>3, <3>4 DEF OnePlace
      <3>7. /\ \A i \in 1..Len(pool') : state'[pool'[i]] = "owned"
            /\ \A h \in Holders : held'[h] # NoCert => state'[held'[h]] = "owned"
        BY <2>1, <3>1, <3>2, <3>3 DEF OnePlace
      <3>8. ASSUME NEW c \in Certs, state'[c] = "owned", ~\E h \in Holders : held'[h] = c
            PROVE  \E i \in 1..Len(pool') : pool'[i] = c
        <4>1. ~\E h \in Holders : held[h] = c
          BY <2>1, <3>3, <3>8, HolderFacts
        <4>2. PICK i \in 1..Len(pool) : pool[i] = c
          BY <3>1, <3>8, <4>1 DEF OnePlace
        <4>3. i # 1
          BY <2>1, <3>3, <3>8, <4>2
        <4>4. i - 1 \in 1..Len(pool')
          BY <3>2, <4>3
        <4>5. pool'[i - 1] = pool[(i - 1) + 1]
          BY <3>2, <4>4
        <4> QED
          BY <4>2, <4>4, <4>5
      <3>9. OnePlace'
        BY <3>4, <3>5, <3>6, <3>7, <3>8 DEF OnePlace
      <3>10. KcTypes' /\ KcPlaces' /\ KcLife'
        BY <2>1, <3>1, <3>2, <3>3, HolderFacts DEF KcTypes, KcPlaces, KcLife
      <3> QED
        BY <3>9, <3>10
    <2> QED
      BY <2>2, <2>3
  <1>11. ASSUME NEW m \in Makers, CreatesOwn(m)
         PROVE  ClientInv'
    <2>1. m \in Holders /\ held[m] = NoCert /\ CreateClient(m) /\ UNCHANGED pool /\ life = "ready"
      BY <1>11, HolderFacts DEF CreatesOwn, KcPlaces, KcLife
    <2>2. /\ OnePlace' /\ held' \in [Holders -> Certs \cup {NoCert}]
          /\ state' \in [Certs -> {"unmade", "owned", "freed"}]
          /\ held'[m] # NoCert /\ \A g \in Holders : g # m => held'[g] = held[g]
      BY <2>1, CreateKeeps
    <2> QED
      BY <1>11, <2>1, <2>2, HolderFacts DEF CreatesOwn, KcTypes, KcPlaces, KcLife
  <1>12. ASSUME NEW m \in Makers, CreateOwnFails(m)
         PROVE  ClientInv'
    BY <1>12, HolderFacts DEF CreateOwnFails, KcTypes, OnePlace, KcPlaces, KcLife
  <1>13. ASSUME NEW m \in Makers, Connects(m)
         PROVE  ClientInv'
    <2>1. m \in Holders /\ UNCHANGED pool /\ held' = [held EXCEPT ![m] = NoCert] /\ held[m] \in Certs /\ life = "ready"
      BY <1>13, HolderFacts DEF Connects, KcTypes, KcPlaces, KcLife
    <2>2. state' = [c \in Certs |-> IF c = held[m] THEN "freed" ELSE state[c]]
      BY <1>13, <2>1 DEF Connects, KcTypes
    <2>3. /\ OnePlace' /\ held' \in [Holders -> Certs \cup {NoCert}]
          /\ state' \in [Certs -> {"unmade", "owned", "freed"}]
          /\ held'[m] = NoCert /\ \A g \in Holders : g # m => held'[g] = held[g]
      BY <2>1, <2>2, DropKeeps
    <2> QED
      BY <1>13, <2>1, <2>3, HolderFacts DEF Connects, KcTypes, KcPlaces, KcLife
  <1>14. CASE KcFreeStarts
    BY <1>14 DEF KcFreeStarts, KcTypes, OnePlace, KcPlaces, KcLife, Lives
  <1>15. CASE FreeCancelsCert
    <2>1. UNCHANGED <<statTimer, pool, certLock, thread, maker, held, state, kcStray>>
      BY <1>15 DEF FreeCancelsCert
    <2>2. OnePlace'
      BY <2>1 DEF OnePlace
    <2>3. KcTypes'
      BY <1>15, <2>1 DEF FreeCancelsCert, KcTypes, Lives
    <2>4. KcPlaces'
      BY <2>1 DEF KcPlaces
    <2>5. KcLife'
      BY <1>15, <2>1 DEF FreeCancelsCert, KcTypes, KcLife, Lives
    <2> QED
      BY <2>2, <2>3, <2>4, <2>5
  <1>16. CASE FreeDrainsPool
    <2>1. /\ life = "draining" /\ life' = "stopping" /\ pool' = <<>> /\ pool \in Seq(Certs)
          /\ state' = [c \in Certs |-> IF \E i \in 1..Len(pool) : pool[i] = c THEN "freed" ELSE state[c]]
          /\ UNCHANGED <<certTimer, statTimer, certLock, thread, maker, held, kcStray>>
      BY <1>16 DEF FreeDrainsPool, Contains, KcTypes
    <2>2. \A h \in Holders : held[h] = NoCert
      BY <2>1, HolderFacts DEF KcLife, KcPlaces, KcTypes
    <2>3. /\ pool' \in Seq(Certs) /\ Len(pool') = 0
          /\ state' \in [Certs -> {"unmade", "owned", "freed"}]
      BY <2>1 DEF KcTypes
    <2>4. \A c \in Certs : state'[c] # "owned"
      BY <2>1, <2>2, HolderFacts DEF OnePlace
    <2>5. OnePlace'
      BY <2>1, <2>2, <2>3, <2>4 DEF OnePlace
    <2> QED
      BY <2>1, <2>3, <2>5 DEF KcTypes, KcPlaces, KcLife, Lives
  <1>17. CASE FreeEndsClient
    <2>1. UNCHANGED <<certTimer, pool, certLock, thread, maker, held, state, kcStray>>
      BY <1>17 DEF FreeEndsClient
    <2>2. OnePlace'
      BY <2>1 DEF OnePlace
    <2>3. KcTypes'
      BY <1>17, <2>1 DEF FreeEndsClient, KcTypes, Lives
    <2>4. KcPlaces'
      BY <2>1 DEF KcPlaces
    <2>5. KcLife'
      BY <1>17, <2>1 DEF FreeEndsClient, KcTypes, KcLife, Lives
    <2> QED
      BY <2>2, <2>3, <2>4, <2>5
  <1> QED
    BY <1>1, <1>2, <1>3, <1>4, <1>5, <1>6, <1>7, <1>8, <1>9, <1>10, <1>11, <1>12, <1>13,
       <1>14, <1>15, <1>16, <1>17 DEF KcNext, KcTimerSteps, KcFreeSteps

\* The client starts with nothing.
LEMMA ClientInductive ==
  (KcInit => ClientInv) /\ (ClientInv /\ [KcNext]_kcVars => ClientInv')
  <1>1. ASSUME KcInit
        PROVE  ClientInv
    <2>1. pool \in Seq(Certs) /\ Len(pool) = 0
      BY <1>1 DEF KcInit
    <2>2. \A h \in Holders : held[h] = NoCert
      BY <1>1 DEF KcInit
    <2>3. \A c \in Certs : state[c] # "owned"
      BY <1>1 DEF KcInit
    <2>4. OnePlace
      BY <2>1, <2>2, <2>3 DEF OnePlace
    <2>5. KcTypes
      BY <1>1, <2>1 DEF KcInit, KcTypes, Lives
    <2>6. \A m \in Makers : maker[m] = "idle" /\ m # "free" /\ m \in Holders
      BY <1>1, HolderFacts DEF KcInit
    <2>7. KcPlaces
      BY <1>1, <2>2, <2>6, HolderFacts DEF KcInit, KcPlaces
    <2>8. KcLife
      BY <1>1 DEF KcInit, KcLife
    <2> QED
      BY <2>4, <2>5, <2>7, <2>8 DEF ClientInv
  <1>2. ASSUME ClientInv, UNCHANGED kcVars
        PROVE  ClientInv'
    BY <1>2 DEF kcVars, ClientInv, KcTypes, OnePlace, KcPlaces, KcLife
  <1> QED
    BY <1>1, <1>2, ClientStep

----------------------------------------------------------------------------
(* KvsNegotiation: what the peer was told *)

\* At most the first description is sent.
OneSlot == descriptions \in [1..2 -> (SUBSET LocalCandidates) \cup {{"none"}}] /\ Unsent(2)

\* What is gathered and told are candidates, and the gathering ends when all were reported.
NgTypes ==
  /\ role \in Roles
  /\ gather \in {"none", "running", "done"} /\ npc \in {"idle", "described", "waiting", "ready", "answered", "failed"}
  /\ localTrickle \in BOOLEAN /\ canTrickle \in BOOLEAN /\ callbacks \in BOOLEAN
  /\ needsOffer \in BOOLEAN /\ ended \in BOOLEAN /\ handler \in BOOLEAN /\ peerTrickle \in BOOLEAN
  /\ gathered \subseteq LocalCandidates /\ told \subseteq gathered
  /\ gather = "done" => gathered = LocalCandidates
  /\ gather # "none" => callbacks
  /\ ended => gather = "done"

\* The initiator describes once, after SetCallbacks; without trickle ICE when the gathering
\* is over.
InitiatorInv ==
  role = "initiator" =>
    /\ canTrickle = FALSE /\ handler = FALSE
    /\ npc \in {"idle", "waiting", "ready", "failed"}
    /\ needsOffer => npc = "idle" /\ gather = "none"
    /\ npc # "idle" \/ needsOffer => Unsent(1)
    /\ localTrickle => npc # "waiting" /\ told = gathered
    /\ ~localTrickle /\ npc = "ready" => gather = "done"
    /\ ~localTrickle /\ ~Unsent(1) => descriptions[1] = LocalCandidates
    /\ gather = "none" => gathered = {}

\* The responder answers once: at once, or at the end of the gathering.
ResponderInv ==
  role = "responder" =>
    /\ needsOffer = FALSE
    /\ npc \in {"idle", "described", "answered"}
    /\ remote # "set" => gather = "none" /\ npc = "idle" /\ Unsent(1) /\ handler = FALSE
    /\ gather = "none" => gathered = {}
    /\ remote = "set" => gather # "none"
    /\ canTrickle => handler = FALSE /\ told = gathered
    /\ canTrickle /\ npc = "described" => Unsent(1)
    /\ handler => gather = "done"
    /\ ~canTrickle /\ (gather # "done" \/ handler) => Unsent(1)
    /\ ~canTrickle /\ ~Unsent(1) => descriptions[1] = LocalCandidates

NegotiationInv == OneSlot /\ NgTypes /\ InitiatorInv /\ ResponderInv

\* Describing sends the first description.
LEMMA DescribesFirst ==
  ASSUME OneSlot, Unsent(1), NEW d \in SUBSET LocalCandidates, Describes(d)
  PROVE  OneSlot' /\ descriptions'[1] = d
  <1>1. 1 \in 1..2 /\ 2 \in 1..2 /\ 1 # 2
    OBVIOUS
  <1> QED
    BY <1>1 DEF OneSlot, Describes, Unsent

\* One description at most means that what it carries and what was told is all.
LEMMA NegotiationSound ==
  ASSUME NegotiationInv
  PROVE  PeerKnowsCandidates
  <1> USE DEF NegotiationInv
  <1>1. (\A i \in 1..2 : Unsent(i)) \/ {i \in 1..2 : ~Unsent(i)} = {1}
    <2>1. \A i \in 1..2 : i = 1 \/ i = 2
      OBVIOUS
    <2> QED
      BY <2>1 DEF OneSlot
  <1>2. CASE \A i \in 1..2 : Unsent(i)
    <2>1. {i \in 1..2 : ~Unsent(i)} = {}
      BY <1>2
    <2>2. Sent = 0
      BY <2>1, FS_EmptySet DEF Sent
    <2> QED
      BY <2>2 DEF PeerKnowsCandidates
  <1>3. CASE {i \in 1..2 : ~Unsent(i)} = {1}
    <2>1. Sent = 1
      BY <1>3, FS_Singleton DEF Sent
    <2>2. Carried = descriptions[1] /\ ~Unsent(1)
      BY <1>3 DEF Carried
    <2>3. descriptions[1] \subseteq LocalCandidates
      <3>1. 1 \in 1..2
        OBVIOUS
      <3>2. descriptions[1] \in (SUBSET LocalCandidates) \cup {{"none"}}
        BY <3>1 DEF OneSlot
      <3>3. descriptions[1] # {"none"}
        BY <2>2 DEF Unsent
      <3> QED
        BY <3>2, <3>3, Zenon
    <2>4. ASSUME gather = "done"
          PROVE  descriptions[1] = LocalCandidates \/ told = gathered
      <3>1. CASE role = "initiator"
        BY <2>2, <2>4, <3>1 DEF NgTypes, InitiatorInv
      <3>2. CASE role = "responder"
        BY <2>2, <2>4, <3>2 DEF NgTypes, ResponderInv
      <3> QED
        BY <3>1, <3>2 DEF NgTypes, Roles
    <2>5. gather = "done" => gathered = LocalCandidates /\ told \subseteq gathered
      BY DEF NgTypes
    <2> QED
      BY <2>1, <2>2, <2>3, <2>4, <2>5 DEF PeerKnowsCandidates
  <1> QED
    BY <1>1, <1>2, <1>3

\* The exchange of descriptions keeps its state.
LEMMA NegotiationInductive ==
  (NgInit => NegotiationInv) /\ (NegotiationInv /\ [NgNext]_ngVars => NegotiationInv')
  <1>1. ASSUME NgInit
        PROVE  NegotiationInv
    <2>1. 1 \in 1..2 /\ 2 \in 1..2
      OBVIOUS
    <2>2. OneSlot /\ Unsent(1)
      <3>1. descriptions = [i \in 1..2 |-> {"none"}]
        BY <1>1 DEF NgInit, NoneSent
      <3>2. descriptions \in [1..2 -> (SUBSET LocalCandidates) \cup {{"none"}}]
        BY <3>1
      <3> QED
        BY <2>1, <3>1, <3>2 DEF OneSlot, Unsent
    <2>3. NgTypes
      BY <1>1 DEF NgInit, NgTypes
    <2> QED
      BY <1>1, <2>2, <2>3 DEF NgInit, NegotiationInv, InitiatorInv, ResponderInv, Roles
  <1> USE DEF NegotiationInv, InitiatorInv, ResponderInv
  <1>2. ASSUME NegotiationInv, UNCHANGED ngVars
        PROVE  NegotiationInv'
    BY <1>2 DEF ngVars, NgTypes, OneSlot, Unsent
  <1>3. ASSUME NegotiationInv, SetCallbacks \/ OfferWaits \/ OfferWaitEnds \/ HandleAnswer
        PROVE  NegotiationInv'
    <2>1. UNCHANGED <<gathered, told, descriptions, handler, canTrickle, localTrickle, role>>
      BY <1>3 DEF SetCallbacks, SetLocalDescription, OfferWaits, OfferWaitEnds, HandleAnswer, fixed
    <2>2. Unsent(1)' = Unsent(1) /\ OneSlot'
      BY <1>3, <2>1 DEF OneSlot, Unsent
    <2>3. CASE SetCallbacks
      <3>1. /\ npc = "idle" /\ callbacks' = TRUE /\ needsOffer' = FALSE
            /\ UNCHANGED <<ended, remote, peerTrickle>>
        BY <2>3 DEF SetCallbacks, fixed
      <3>2. CASE needsOffer
        <4>1. gather' = "running" /\ npc' = IF localTrickle THEN "ready" ELSE "waiting"
          BY <2>3, <3>2 DEF SetCallbacks, SetLocalDescription
        <4>2. role = "initiator" /\ gather = "none" /\ ~ended
          BY <1>3, <3>2 DEF NgTypes, Roles
        <4>3. NgTypes'
          BY <1>3, <2>1, <3>1, <3>2, <4>1, <4>2 DEF NgTypes
        <4>4. gathered = {} /\ told = {}
          BY <1>3, <3>2, <4>2 DEF NgTypes
        <4> QED
          BY <1>3, <2>1, <2>2, <3>1, <3>2, <4>1, <4>2, <4>3, <4>4
      <3>3. CASE ~needsOffer
        <4>1. UNCHANGED <<npc, gather>>
          BY <2>3, <3>3 DEF SetCallbacks
        <4>2. NgTypes'
          BY <1>3, <2>1, <3>1, <3>3, <4>1 DEF NgTypes
        <4> QED
          BY <1>3, <2>1, <2>2, <3>1, <3>3, <4>1, <4>2
      <3> QED
        BY <3>2, <3>3
    <2>4. CASE OfferWaits \/ HandleAnswer
      BY <1>3, <2>1, <2>2, <2>4 DEF OfferWaits, HandleAnswer, NgTypes, fixed
    <2>5. CASE OfferWaitEnds
      BY <1>3, <2>1, <2>2, <2>5 DEF OfferWaitEnds, NgTypes, fixed
    <2> QED
      BY <1>3, <2>3, <2>4, <2>5
  <1>4. ASSUME NegotiationInv, HandleOffer \/ OfferEnds \/ HandleRemoteCandidate \/ NgTerminated
        PROVE  NegotiationInv'
    <2>1. UNCHANGED <<gathered, told, descriptions, handler, localTrickle, role>>
      BY <1>4 DEF HandleOffer, SetLocalDescription, OfferEnds, HandleRemoteCandidate, NgTerminated, fixed
    <2>2. Unsent(1)' = Unsent(1) /\ OneSlot'
      BY <1>4, <2>1 DEF OneSlot, Unsent
    <2>3. CASE HandleOffer
      BY <1>4, <2>1, <2>2, <2>3 DEF HandleOffer, SetLocalDescription, NgTypes, fixed
    <2>4. CASE OfferEnds
      BY <1>4, <2>1, <2>2, <2>4 DEF OfferEnds, NgTypes, fixed
    <2>5. CASE HandleRemoteCandidate \/ NgTerminated
      BY <1>4, <2>1, <2>2, <2>5 DEF HandleRemoteCandidate, NgTerminated, NgTypes, fixed
    <2> QED
      BY <1>4, <2>3, <2>4, <2>5
  <1>5. ASSUME NegotiationInv, NEW c \in LocalCandidates, CandidateGathered(c)
        PROVE  NegotiationInv'
    <2>1. /\ gathered' = gathered \cup {c} /\ gather = "running" /\ callbacks
          /\ told' = IF ShouldSendCandidate THEN told \cup {c} ELSE told
          /\ UNCHANGED <<descriptions, handler, canTrickle, localTrickle, peerTrickle, role>>
          /\ UNCHANGED <<remote, gather, npc, needsOffer, callbacks, ended>>
      BY <1>5 DEF CandidateGathered, fixed, NgTypes
    <2>2. NgTypes'
      <3>1. gathered' \subseteq LocalCandidates /\ told' \subseteq gathered'
        BY <1>5, <2>1 DEF NgTypes
      <3> QED
        BY <1>5, <2>1, <3>1 DEF NgTypes
    <2>3. Unsent(1)' = Unsent(1) /\ OneSlot'
      BY <1>5, <2>1 DEF OneSlot, Unsent
    <2>4. InitiatorInv'
      BY <1>5, <2>1, <2>3 DEF ShouldSendCandidate, NgTypes
    <2>5. ResponderInv'
      BY <1>5, <2>1, <2>3 DEF ShouldSendCandidate, NgTypes
    <2> QED
      BY <2>2, <2>3, <2>4, <2>5
  <1>6. ASSUME NegotiationInv, GatheringEnds
        PROVE  NegotiationInv'
    <2>1. /\ gather = "running" /\ gather' = "done" /\ ended' = TRUE
          /\ handler' = (role = "responder" /\ ~canTrickle)
          /\ UNCHANGED <<descriptions, canTrickle, localTrickle, role, remote, npc, needsOffer, callbacks, gathered, told, peerTrickle>>
      BY <1>6 DEF GatheringEnds, fixed
    <2>2. NgTypes'
      BY <1>6, <2>1 DEF GatheringEnds, NgTypes, fixed
    <2>3. Unsent(1)' = Unsent(1) /\ OneSlot'
      BY <1>6, <2>1 DEF OneSlot, Unsent
    <2> QED
      BY <1>6, <2>1, <2>2, <2>3 DEF NgTypes
  <1>7. ASSUME NegotiationInv, OfferSends
        PROVE  NegotiationInv'
    <2> DEFINE d == IF localTrickle THEN {} ELSE gathered
    <2>1. d \in SUBSET LocalCandidates /\ Unsent(1) /\ Describes(d) /\ role = "initiator"
      BY <1>7 DEF OfferSends, NgTypes, Roles
    <2>2. OneSlot' /\ descriptions'[1] = d
      BY <1>7, <2>1, DescribesFirst
    <2> QED
      BY <1>7, <2>1, <2>2 DEF OfferSends, NgTypes, fixed
  <1>8. ASSUME NegotiationInv, AnswerNow
        PROVE  NegotiationInv'
    <2>1. CASE canTrickle
      <3>1. Describes({}) /\ {} \in SUBSET LocalCandidates /\ Unsent(1) /\ role = "responder"
        BY <1>8, <2>1 DEF AnswerNow, NgTypes, Roles
      <3>2. OneSlot' /\ descriptions'[1] = {}
        BY <1>8, <3>1, DescribesFirst
      <3> QED
        BY <1>8, <2>1, <3>1, <3>2 DEF AnswerNow, NgTypes, fixed
    <2>2. CASE ~canTrickle
      BY <1>8, <2>2 DEF AnswerNow, NgTypes, OneSlot, Unsent, fixed
    <2> QED
      BY <2>1, <2>2
  <1>9. ASSUME NegotiationInv, AnswerAtEnd
        PROVE  NegotiationInv'
    <2>1. role = "responder" /\ ~canTrickle /\ Unsent(1) /\ callbacks /\ gathered = LocalCandidates
      BY <1>9 DEF AnswerAtEnd, NgTypes, Roles
    <2>2. Describes(gathered) /\ gathered \in SUBSET LocalCandidates
      BY <1>9, <2>1 DEF AnswerAtEnd
    <2>3. OneSlot' /\ descriptions'[1] = gathered
      BY <1>9, <2>1, <2>2, DescribesFirst
    <2> QED
      BY <1>9, <2>1, <2>3 DEF AnswerAtEnd, NgTypes, fixed
  <1> QED
    BY <1>1, <1>2, <1>3, <1>4, <1>5, <1>6, <1>7, <1>8, <1>9 DEF NgNext, NgTaskSteps, NgSdkSteps

----------------------------------------------------------------------------
(* DataChannels: which callbacks a message meets *)

\* The tables of the sessions, and how their messages are counted.
DcTypes ==
  /\ exists \in [DcSessions -> {"none", "open", "freed"}]
  /\ global \in Callbacks
  /\ found \in [what : {"none", "callbacks", "send", "touched"}, session : DcSessions \cup {"none"}]
  /\ found.what = "callbacks" => found.session \in DcSessions
  /\ reactions \in [DcSessions -> [Callbacks \cup {"echo"} -> Int]]

\* Callbacks that are configured for the client are registered when the first session is
\* made, and later ones only replace them.
Registered == clientCfg /\ (\E s \in DcSessions : exists[s] = "open") => global # "none"

ChannelInv == DcTypes /\ Registered /\ AppSeesMessages

\* The state of the data channels is kept by each step.
LEMMA ChannelInductive ==
  (DcInit => ChannelInv) /\ (ChannelInv /\ [DcNext]_dcVars => ChannelInv')
  <1>1. ASSUME DcInit
        PROVE  ChannelInv
    BY <1>1 DEF DcInit, ChannelInv, DcTypes, Registered, AppSeesMessages, Callbacks, NoCall
  <1>2. ASSUME ChannelInv, UNCHANGED dcVars
        PROVE  ChannelInv'
    BY <1>2 DEF dcVars, ChannelInv, DcTypes, Registered, AppSeesMessages
  <1> USE DEF ChannelInv, DcTypes, Registered, AppSeesMessages
  <1>3. ASSUME ChannelInv, NEW s \in DcSessions, CreateSession(s)
        PROVE  ChannelInv'
    BY <1>3 DEF CreateSession, Callbacks
  <1>4. ASSUME ChannelInv, NEW s \in DcSessions,
               FreeSession(s) \/ CreateDataChannel(s) \/ LocalOpens(s) \/ RemoteOpens(s)
        PROVE  ChannelInv'
    <2>1. exists' \in [DcSessions -> {"none", "open", "freed"}]
          /\ \A r \in DcSessions : exists'[r] = "open" => exists[r] = "open"
      BY <1>4 DEF FreeSession, CreateDataChannel, LocalOpens, RemoteOpens
    <2>2. UNCHANGED <<clientCfg, global, found, reactions>>
      BY <1>4 DEF FreeSession, CreateDataChannel, LocalOpens, RemoteOpens
    <2> QED
      BY <1>4, <2>1, <2>2
  <1>5. ASSUME ChannelInv, NEW s \in DcSessions, MessageArrives(s)
        PROVE  ChannelInv'
    <2>1. UNCHANGED <<exists, clientCfg, global, found>> /\ exists[s] = "open"
          /\ reactions' = [reactions EXCEPT ![s][Reaction(s)] = @ + 1]
      BY <1>5 DEF MessageArrives
    <2>2. Reaction(s) \in Callbacks \cup {"echo"}
      BY <1>5 DEF Reaction
    <2>3. reactions' \in [DcSessions -> [Callbacks \cup {"echo"} -> Int]]
      <3>1. reactions[s] \in [Callbacks \cup {"echo"} -> Int]
        BY <1>5
      <3>2. [reactions[s] EXCEPT ![Reaction(s)] = @ + 1] \in [Callbacks \cup {"echo"} -> Int]
        BY <2>2, <3>1
      <3> QED
        BY <1>5, <2>1, <3>2
    <2>4. clientCfg => Reaction(s) # "echo"
      BY <1>5, <2>1, DcAssumption DEF Reaction, Callbacks
    <2>5. ASSUME clientCfg, NEW r \in DcSessions
          PROVE  reactions'[r]["echo"] = 0
      <3>1. reactions[r] \in [Callbacks \cup {"echo"} -> Int] /\ reactions[r]["echo"] = 0
        BY <1>5, <2>5
      <3>2. CASE r = s
        <4>1. reactions'[r] = [reactions[r] EXCEPT ![Reaction(s)] = @ + 1]
          BY <1>5, <2>1, <3>2
        <4> QED
          BY <2>2, <2>4, <2>5, <3>1, <4>1
      <3>3. CASE r # s
        BY <1>5, <2>1, <3>1, <3>3
      <3> QED
        BY <3>2, <3>3
    <2> QED
      BY <1>5, <2>1, <2>3, <2>5
  <1>6. ASSUME ChannelInv, NEW s \in DcSessions, NEW what \in {"callbacks", "send"},
               CallFinds(s, what)
        PROVE  ChannelInv'
    BY <1>6 DEF CallFinds, NoCall
  <1>7. ASSUME ChannelInv, SetsCallbacks
        PROVE  ChannelInv'
    <2>1. found.session \in DcSessions /\ UNCHANGED <<exists, clientCfg, reactions>>
      BY <1>7 DEF SetsCallbacks
    <2>2. global' = global \/ global' = found.session
      BY <1>7 DEF SetsCallbacks
    <2>3. found' = [what |-> "touched", session |-> found.session] \/ found' = NoCall
      BY <1>7 DEF SetsCallbacks
    <2>4. found.session \in Callbacks /\ found.session # "none"
      BY <2>1, DcAssumption DEF Callbacks
    <2>5. global' \in Callbacks /\ (global # "none" => global' # "none")
      BY <1>7, <2>2, <2>4
    <2>6. /\ found' \in [what : {"none", "callbacks", "send", "touched"}, session : DcSessions \cup {"none"}]
          /\ found'.what # "callbacks"
      BY <2>1, <2>3 DEF NoCall
    <2> QED
      BY <1>7, <2>1, <2>5, <2>6
  <1>8. ASSUME ChannelInv, SendsMessage \/ CallEnds
        PROVE  ChannelInv'
    <2>1. UNCHANGED <<exists, clientCfg, global, reactions>>
      BY <1>8 DEF SendsMessage, CallEnds
    <2>2. found' = NoCall \/ found' = [found EXCEPT !.what = "touched"]
      BY <1>8 DEF SendsMessage, CallEnds
    <2>3. /\ found' \in [what : {"none", "callbacks", "send", "touched"}, session : DcSessions \cup {"none"}]
          /\ found'.what # "callbacks"
      BY <1>8, <2>2 DEF NoCall
    <2> QED
      BY <1>8, <2>1, <2>3
  <1> QED
    BY <1>1, <1>2, <1>3, <1>4, <1>5, <1>6, <1>7, <1>8 DEF DcNext

----------------------------------------------------------------------------
(* Reception: where a player's handle is *)

\* Players are numbered in the order they are made; a task at rest or setting up works on none.
RxTypes ==
  /\ made \in Nat
  /\ rxHandle \in [Media -> Nat]
  /\ \A k \in Media : rxHandle[k] <= made
  /\ \A p \in live : p \in Nat /\ 0 < p /\ p <= made
  /\ at \in [Tasks -> [pc : {"idle", "check", "init", "start", "wire", "stop", "deinit",
                             "clear", "close", "over"}, kind : Media, player : Nat]]
  /\ \A t \in Tasks : at[t].player <= made
  /\ \A t \in Tasks : at[t].player # 0 => at[t].pc \in {"deinit", "clear"}
  /\ \A t \in Tasks : at[t].pc = "clear" => at[t].player \notin live

\* Every live player is known to the session, to a task or is lost.
RxKnown == \A p \in live : \/ \E k \in Media : rxHandle[k] = p
                           \/ p \in rxLost
                           \/ \E t \in Tasks : at[t].player = p

\* The worker that takes the session down has released this player already.
Passed(k) ==
  \/ k = "video" /\ at["task"].kind = "audio" /\ at["task"].pc \in {"stop", "deinit", "clear"}
  \/ at["task"].pc \in {"close", "over"}

\* What the worker has passed is not set up again, unless it is lost; nothing moves afterwards.
RxPassed ==
  /\ \A k \in Media : Passed(k) => rxHandle[k] \notin live \/ rxHandle[k] \in rxLost
  /\ at["task"].pc = "over" => Resting("sdk") /\ conn = "closed" /\ \A p \in live : p \in rxLost

ReceptionInv == RxTypes /\ RxKnown /\ RxPassed

LEMMA ReceptionSound == ReceptionInv => PlayersAccounted
  BY DEF ReceptionInv, RxKnown, RxPassed, PlayersAccounted

LEMMA ReceptionStep == ReceptionInv /\ ReNext => ReceptionInv'
  <1> SUFFICES ASSUME RxTypes, RxKnown, RxPassed, ReNext
               PROVE  ReceptionInv'
    BY DEF ReceptionInv
  <1> USE DEF Media, Tasks
  <1>1. CASE DescriptionApplied \/ Connected \/ Wires \/ Disconnected \/ DestroyStarts
    BY <1>1 DEF DescriptionApplied, Connected, Wires, Disconnected, DestroyStarts, Leaves, Moves, RxAt,
                Resting, ReceptionInv, RxTypes, RxKnown, RxPassed, Passed
  <1>2. ASSUME NEW t \in Tasks, NEW k \in Media, SetupChecks(t, k)
        PROVE  ReceptionInv'
    BY <1>2 DEF SetupChecks, PlayerDone, AfterSetup, Doing, Leaves, Moves, RxAt,
                Resting, ReceptionInv, RxTypes, RxKnown, RxPassed, Passed
  <1>3. ASSUME NEW t \in Tasks, NEW k \in Media, PlayerMade(t, k)
        PROVE  ReceptionInv'
    BY <1>3 DEF PlayerMade, Destroying, Doing, Leaves, Moves, RxAt,
                Resting, ReceptionInv, RxTypes, RxKnown, RxPassed, Passed
  <1>4. ASSUME NEW t \in Tasks, NEW k \in Media, PlayerNotMade(t, k)
        PROVE  ReceptionInv'
    BY <1>4 DEF PlayerNotMade, PlayerDone, AfterSetup, Doing, Leaves, Moves, RxAt,
                Resting, ReceptionInv, RxTypes, RxKnown, RxPassed, Passed
  <1>5. ASSUME NEW t \in Tasks, NEW k \in Media, PlayerStarts(t, k)
        PROVE  ReceptionInv'
    BY <1>5 DEF PlayerStarts, PlayerDone, AfterSetup, Doing, Leaves, Moves, RxAt,
                Resting, ReceptionInv, RxTypes, RxKnown, RxPassed, Passed
  <1>6. ASSUME NEW t \in Tasks, NEW k \in Media, PlayerStartFails(t, k)
        PROVE  ReceptionInv'
    BY <1>6 DEF PlayerStartFails, Deinit, PlayerDone, AfterSetup, Doing, Leaves, Moves, RxAt,
                Resting, ReceptionInv, RxTypes, RxKnown, RxPassed, Passed
  <1>7. ASSUME NEW t \in Tasks, NEW k \in Media, StopPlayer(t, k)
        PROVE  ReceptionInv'
    BY <1>7 DEF StopPlayer, StopDone, Doing, Leaves, Moves, RxAt,
                Resting, ReceptionInv, RxTypes, RxKnown, RxPassed, Passed
  <1>8. ASSUME NEW t \in Tasks, NEW k \in Media, DeinitPlayer(t, k)
        PROVE  ReceptionInv'
    BY <1>8 DEF DeinitPlayer, Deinit, Doing, Leaves, Moves, RxAt,
                Resting, ReceptionInv, RxTypes, RxKnown, RxPassed, Passed
  <1>9. ASSUME NEW t \in Tasks, NEW k \in Media, ClearHandle(t, k)
        PROVE  ReceptionInv'
    BY <1>9 DEF ClearHandle, StopDone, Doing, Leaves, Moves, RxAt,
                Resting, ReceptionInv, RxTypes, RxKnown, RxPassed, Passed
  <1>10. CASE Closes
    BY <1>10 DEF Closes, Leaves, Moves, RxAt, Resting, ReceptionInv, RxTypes, RxKnown, RxPassed, Passed
  <1>11. ASSUME NEW k \in Media, FrameArrives(k) \/ FramePlays(k)
         PROVE  ReceptionInv'
    BY <1>11 DEF FrameArrives, FramePlays, Resting, ReceptionInv, RxTypes, RxKnown, RxPassed, Passed
  <1>12. ASSUME NEW lossy \in BOOLEAN, BandwidthEstimated(lossy)
         PROVE  ReceptionInv'
    BY <1>12 DEF BandwidthEstimated, Resting, ReceptionInv, RxTypes, RxKnown, RxPassed, Passed
  <1> QED
    BY <1>1, <1>2, <1>3, <1>4, <1>5, <1>6, <1>7, <1>8, <1>9, <1>10, <1>11, <1>12 DEF ReNext, PlayerSteps

LEMMA ReceptionInductive ==
  (ReInit => ReceptionInv) /\ (ReceptionInv /\ [ReNext]_reVars => ReceptionInv')
  <1>1. ReInit => ReceptionInv
    BY DEF ReInit, Idle, RxAt, Resting, Media, Tasks, ReceptionInv, RxTypes, RxKnown, RxPassed, Passed
  <1>2. ReceptionInv /\ UNCHANGED reVars => ReceptionInv'
    BY DEF reVars, Resting, ReceptionInv, RxTypes, RxKnown, RxPassed, Passed
  <1> QED
    BY <1>1, <1>2, ReceptionStep

----------------------------------------------------------------------------
(* The peer connection as the run composes it *)

ConnectionInv == IceInv /\ ClientInv /\ NegotiationInv /\ ChannelInv /\ ReceptionInv

\* Each step of the run is one of a part, the others stand still.
LEMMA ConnectionStep ==
  ASSUME ConnectionInv, [PeersNext]_peersVars
  PROVE  ConnectionInv'
  <1>1. [IceNext]_iceVars /\ [KcNext]_kcVars /\ [NgNext]_ngVars /\ [DcNext]_dcVars /\ [ReNext]_reVars
    <2>1. CASE UNCHANGED connVars
      BY <2>1 DEF connVars
    <2>2. CASE Conn("ice", IceNext, <<kcVars, ngVars, dcVars, reVars>>)
      BY <2>2 DEF Conn
    <2>3. CASE Conn("client", KcNext, <<iceVars, ngVars, dcVars, reVars>>)
      BY <2>3 DEF Conn
    <2>4. CASE Conn("negotiation", NgNext, <<iceVars, kcVars, dcVars, reVars>>)
      BY <2>4 DEF Conn
    <2>5. CASE Conn("channels", DcNext, <<iceVars, kcVars, ngVars, reVars>>)
      BY <2>5 DEF Conn
    <2>6. CASE Conn("reception", ReNext, <<iceVars, kcVars, ngVars, dcVars>>)
      BY <2>6 DEF Conn
    <2> QED
      BY <2>1, <2>2, <2>3, <2>4, <2>5, <2>6 DEF PeersNext, Play, Util, peersVars
  <1> QED
    BY <1>1, IceInductive, ClientInductive, NegotiationInductive, ChannelInductive, ReceptionInductive
       DEF ConnectionInv

\* What the ICE tasks, the certificate queue, the negotiation, the data channels and the two
\* tasks of a session keep, in every behaviour of the run's specification.
THEOREM ConnectionInductive == PeersSpec => []ConnectionInv
  <1>1. PeersInit => ConnectionInv
    BY IceInductive, ClientInductive, NegotiationInductive, ChannelInductive, ReceptionInductive
       DEF PeersInit, ConnectionInv
  <1> QED
    BY <1>1, ConnectionStep, PTL DEF PeersSpec

\* app_webrtc_trigger_progressive_ice() and the work queue leave every session with the servers
\* that were fetched, a certificate has one owner, the peer is told every candidate, a message
\* meets the application's callback and a closed session leaves no player behind.
THEOREM ConnectionCorrect == PeersSpec => []ConnectionSound
  <1>1. ConnectionInv => ConnectionSound
    BY IceReaches, ClientIsSound, NegotiationSound, ReceptionSound
       DEF ConnectionInv, ChannelInv, ConnectionSound
  <1> QED
    BY <1>1, ConnectionInductive, PTL
=============================================================================
