------------------------------ MODULE AppProofs ------------------------------
(***************************************************************************)
(* Theorems about the application: its sessions (AppSession, KvsPeer), for *)
(* every set of peers and of sessions and every number of streams, then    *)
(* its lifecycle (AppLifecycle) and the connection of its AppRTC client    *)
(* (AppRtcLink), whose header is further below.                            *)
(*                                                                         *)
(* The inductive invariant says who owns a session: one that is neither    *)
(* unused nor freed is in the list, or with the one thread that made it or *)
(* is freeing it.  From that follows that create_session() always finds    *)
(* its peer's place in activeSessions free, which the count needs.         *)
(***************************************************************************)
EXTENDS AppSession, AppLifecycle, AppRtcLink, FiniteSetTheorems, SequenceTheorems, TLAPS

Live == 0..(count - 1)

\* The lock: the signaling thread and the loop do not hold a session at the same
\* time, and neither holds one, nor has the table an entry, once the teardown
\* has emptied the table.
LockInv ==
  /\ sig.pc = "idle" \/ reaping = None
  /\ ~Receiving =>
       sig.pc = "idle" /\ reaping = None /\ \A p \in Peers : hash[p] = None
  /\ phase # "detached" => tear = <<>>
  /\ phase \in {"detached", "down"} => count = 0

\* The list holds open sessions, each once, and agrees with the table until the
\* teardown empties it.
ListInv ==
  /\ \A i \in Live : slots[i] \in Sessions /\ stage[slots[i]] = "open"
  /\ \A i, j \in Live : slots[i] = slots[j] => i = j
  /\ Receiving => \A i \in Live : hash[peerOf[slots[i]]] = slots[i]
  /\ \A p \in Peers : hash[p] # None =>
       peerOf[hash[p]] = p /\ \E i \in Live : slots[i] = hash[p]

\* The session of the signaling thread is in neither, and what it was marked by.
SigInv ==
  sig.pc # "idle" =>
    /\ sig.peer \in Peers /\ sig.sess \in Sessions
    /\ hash[sig.peer] = None /\ peerOf[sig.sess] = sig.peer
    /\ \A i \in Live : slots[i] # sig.sess
    /\ stage[sig.sess] # "unused"
    /\ sig.pc \in {"created", "sent"} => stage[sig.sess] = "open" /\ count < MaxStreams
    /\ sig.pc = "replace" => terminateFlag[sig.sess]

\* So is the one of the cleanup loop.
ReapInv ==
  reaping # None =>
    /\ terminateFlag[reaping] /\ stage[reaping] # "unused"
    /\ \A i \in Live : slots[i] # reaping

\* The sessions of the teardown: each once, and only the first is being freed.
TearInv ==
  /\ \A i \in 1..Len(tear) :
       stage[tear[i]] # "unused" /\ (i > 1 => stage[tear[i]] = "open")
  /\ \A i, j \in 1..Len(tear) : tear[i] = tear[j] => i = j

\* A session in use has a peer, and while sessions can be created an owner.
OwnerInv ==
  \A s \in Sessions :
    /\ stage[s] # "unused" => peerOf[s] \in Peers
    /\ Receiving /\ stage[s] \in {"open", "counted"} =>
         \/ \E i \in Live : slots[i] = s
         \/ sig.pc # "idle" /\ sig.sess = s
         \/ reaping = s

Open == {s \in Sessions : stage[s] = "open"}
Counted == {s \in Sessions : stage[s] = "counted"}

\* activeSessions is exactly the sessions that were not taken out of it.
ActiveInv ==
  /\ \A s \in Sessions : stage[s] \in {"open", "counted"} => active[peerOf[s]] = s
  /\ \A p \in Peers : active[p] # None =>
       stage[active[p]] \in {"open", "counted"} /\ peerOf[active[p]] = p

CountInv ==
  /\ IsFiniteSet(Open) /\ IsFiniteSet(Counted)
  /\ sessionCount = Cardinality(Open)
  /\ mediaStarted => sessionCount > 0

Ending == {"ended", "owing"}

\* Who may be in the state handler of a session, by the stage it is in.
PlaceInv ==
  \A s \in Sessions :
    /\ stage[s] \in {"unused", "freed"} => \A t \in Threads : at[s][t] = "idle"
    /\ stage[s] \in {"released", "closed"} => at[s]["watchdog"] = "idle"
    /\ at[s]["closer"] # "idle" => stage[s] = "closed"
    /\ at[s]["watchdog"] \in {"idle", "decided"} \cup Ending
    /\ at[s]["closer"] \in {"idle"} \cup Ending

Num(b) == IF b THEN 1 ELSE 0
Owes(s) == \E t \in Threads : at[s][t] = "owing"

\* The events of a session: the teardown of the handler runs once, CONNECTED is
\* reported once, and what the application was told is what the flag says, but
\* for the event a thread is about to raise.
EventOf(s) ==
  /\ stage[s] = "unused" => sdk[s] = "none"
  /\ \A t, u \in Threads : at[s][t] \in Ending /\ at[s][u] \in Ending => t = u
  /\ \A t \in Threads : at[s][t] \in Ending => disconnectDone[s]
  /\ sdk[s] \in {"none", "new"} =>
       ~announced[s] /\ at[s]["sdk"] \notin {"connected", "announced"}
  /\ at[s]["sdk"] = "connected" => ~announced[s]
  /\ Owes(s) =>
       ~announced[s] /\ sdk[s] \notin {"none", "new"} /\ at[s]["sdk"] # "connected"
  /\ balance[s] = Num(announced[s]) + Num(Owes(s)) - Num(at[s]["sdk"] = "announced")

EventInv == \A s \in Sessions : EventOf(s)

RegInv == LockInv /\ ListInv /\ SigInv /\ ReapInv /\ TearInv /\ OwnerInv

IInv ==
  /\ TypeOK /\ RegInv /\ ActiveInv /\ CountInv /\ PlaceInv /\ EventInv
  /\ NoCandidateLeftBehind

-----------------------------------------------------------------------------
(***************************************************************************)
(* The registry.                                                           *)
(***************************************************************************)

registry == <<stage, peerOf, slots, count, hash, sig, reaping, phase, tear>>

\* A step that leaves the registry alone and only marks sessions keeps RegInv.
LEMMA RegKept ==
  ASSUME TypeOK, RegInv, UNCHANGED registry,
         \A s \in Sessions : terminateFlag[s] => terminateFlag'[s]
  PROVE  RegInv'
  <1>1. LockInv' /\ ListInv' /\ TearInv' /\ OwnerInv'
    BY DEF RegInv, LockInv, ListInv, TearInv, OwnerInv, registry, Live, Receiving
  <1>2. SigInv'
    BY DEF RegInv, SigInv, registry, Live, TypeOK
  <1>3. ReapInv'
    BY DEF RegInv, ReapInv, registry, Live, TypeOK
  <1> QED BY <1>1, <1>2, <1>3 DEF RegInv

\* A session that is being freed is neither unused nor in the list or the table.
LEMMA FreedIsOff ==
  ASSUME TypeOK, RegInv, NEW s \in Sessions, BeingFreed(s)
  PROVE  /\ stage[s] # "unused"
         /\ \A i \in Live : slots[i] # s
         /\ \A p \in Peers : hash[p] # s
         /\ sig.pc \notin {"created", "sent"} \/ sig.sess # s
         /\ \A i \in 1..Len(tear) : i > 1 => tear[i] # s
  <1>0. s # None
    BY NoneAssumption
  <1>1. CASE sig.pc \in {"replace", "failed"} /\ sig.sess = s
    <2>1. tear = <<>>
      BY <1>1 DEF RegInv, LockInv, Receiving
    <2> QED BY <1>0, <1>1, <2>1 DEF RegInv, SigInv, ListInv
  <1>2. CASE reaping = s
    <2>1. tear = <<>> /\ sig.pc = "idle"
      BY <1>0, <1>2 DEF RegInv, LockInv, Receiving
    <2> QED BY <1>0, <1>2, <2>1 DEF RegInv, ReapInv, ListInv
  <1>3. CASE tear # <<>> /\ Head(tear) = s
    <2>1. phase = "detached"
      BY <1>3 DEF RegInv, LockInv
    <2>2. count = 0 /\ sig.pc = "idle" /\ \A p \in Peers : hash[p] = None
      BY <2>1 DEF RegInv, LockInv, Receiving
    <2>3. Len(tear) \in Nat /\ Len(tear) >= 1 /\ tear[1] = s
      BY <1>3 DEF TypeOK
    <2>4. Live = {}
      BY <2>2 DEF Live
    <2> QED BY <1>0, <2>2, <2>3, <2>4 DEF RegInv, TearInv
  <1> QED BY <1>0, <1>1, <1>2, <1>3 DEF BeingFreed, Freeing

\* freeAppWebRTCSession() moves only the session it frees.
LEMMA FreeReg ==
  ASSUME TypeOK, RegInv, NEW s \in Sessions, FreeStep(s)
  PROVE  RegInv'
  <1>1. /\ UNCHANGED <<peerOf, slots, count, hash, sig, reaping, phase, tear>>
        /\ \A x \in Sessions : terminateFlag[x] => terminateFlag'[x]
        /\ stage'[s] # "unused"
        /\ stage'[s] = "counted" => stage[s] = "open"
        /\ stage'[s] # "open"
        /\ \A x \in Sessions : x # s => stage'[x] = stage[x]
    BY DEF FreeStep, FreeBegin, FreeRemove, FreeClose, FreeEnd, UncountSession,
           RemoveSession, ClosePeerConnection, FreePeerConnection, appVars, TypeOK,
           KvsTypeOK
  <1>2. BeingFreed(s)
    BY DEF FreeStep, FreeBegin, FreeRemove, FreeClose, FreeEnd
  <1>3. /\ stage[s] # "unused"
        /\ \A i \in Live : slots[i] # s
        /\ sig.pc \notin {"created", "sent"} \/ sig.sess # s
        /\ \A i \in 1..Len(tear) : i > 1 => tear[i] # s
    BY <1>2, FreedIsOff
  <1>4. LockInv'
    BY <1>1 DEF RegInv, LockInv, Receiving
  <1>5. ListInv'
    BY <1>1, <1>3 DEF RegInv, ListInv, Live, Receiving
  <1>6. SigInv' /\ ReapInv'
    BY <1>1, <1>3 DEF RegInv, SigInv, ReapInv, Live, TypeOK
  <1>7. TearInv'
    <2>1. \A i \in 1..Len(tear) : tear[i] \in Sessions
      BY DEF TypeOK
    <2> QED BY <1>1, <1>3, <2>1 DEF RegInv, TearInv
  <1>8. OwnerInv'
    BY <1>1, <1>3 DEF RegInv, OwnerInv, Live, Receiving
  <1> QED BY <1>4, <1>5, <1>6, <1>7, <1>8 DEF RegInv

\* kvs_pc_create_session() for a peer that is not registered, with the lock held
\* and no other session of the signaling thread in use.
LEMMA CreateFacts ==
  ASSUME TypeOK, NEW s \in Sessions, NEW p \in Peers, NEW b \in BOOLEAN,
         CreateSession(s, p, b)
  PROVE  /\ stage[s] = "unused" /\ stage'[s] = "open" /\ peerOf'[s] = p
         /\ \A x \in Sessions : x # s => stage'[x] = stage[x] /\ peerOf'[x] = peerOf[x]
  BY DEF CreateSession, TypeOK, KvsTypeOK

\* An offer for a marked session moves it from the registry to the signaling
\* thread.
LEMMA ReplaceReg ==
  ASSUME TypeOK, RegInv, NEW p \in Peers, ReplaceTerminated(p)
  PROVE  RegInv'
  <1> DEFINE s == hash[p]
  <1>1. /\ s \in Sessions /\ s # None /\ peerOf[s] = p /\ terminateFlag[s]
        /\ Receiving /\ sig.pc = "idle" /\ reaping = None /\ tear = <<>>
        /\ hash' = [hash EXCEPT ![p] = None]
        /\ sig' = [pc |-> "replace", peer |-> p, sess |-> s]
        /\ UNCHANGED <<stage, peerOf, terminateFlag, reaping, phase, tear>>
    BY DEF ReplaceTerminated, ObjUnlocked, Receiving, kvsVars, RegInv, LockInv, ListInv, TypeOK
  <1>2. PICK k \in Live : slots[k] = s
    BY <1>1 DEF RegInv, ListInv
  <1>3. s \in Listed /\ count \in Nat /\ count > 0 /\ count <= MaxStreams
    BY <1>2, MaxStreamsAssumption DEF Listed, Live, TypeOK
  <1>4. /\ count' = count - 1
        /\ slots' = [i \in Slots |-> IF i < count /\ slots[i] = s
                                       THEN slots[count - 1] ELSE slots[i]]
    BY <1>3 DEF ReplaceTerminated, UnlistBySwap
  <1>5. /\ \A i \in Live' : i \in Live /\ i # count - 1 /\ i \in Slots
        /\ \A i \in Live' : slots'[i] = IF i = k THEN slots[count - 1] ELSE slots[i]
    BY <1>2, <1>3, <1>4, MaxStreamsAssumption DEF Live, Slots, RegInv, ListInv
  <1>6. count - 1 \in Live
    BY <1>3 DEF Live
  <1>7. \A i \in Live' : \E j \in Live : slots'[i] = slots[j] /\ j # k
    BY <1>5, <1>6
  <1>8. \A j \in Live : j # k => \E i \in Live' : slots'[i] = slots[j]
    <2> TAKE j \in Live
    <2> HAVE j # k
    <2>1. CASE j = count - 1
      <3>1. k \in Live'
        BY <1>2, <1>3, <1>4, <2>1 DEF Live
      <3> QED BY <1>5, <2>1, <3>1
    <2>2. CASE j # count - 1
      <3>1. j \in Live'
        BY <1>3, <1>4, <2>2 DEF Live
      <3> QED BY <1>5, <3>1
    <2> QED BY <2>1, <2>2
  <1>9. LockInv'
    BY <1>1 DEF RegInv, LockInv, Receiving
  <1>10. ListInv'
    <2>1. \A i \in Live' : slots'[i] \in Sessions /\ stage'[slots'[i]] = "open"
      BY <1>1, <1>7 DEF RegInv, ListInv
    <2>2. \A i, j \in Live' : slots'[i] = slots'[j] => i = j
      BY <1>2, <1>5, <1>6 DEF RegInv, ListInv
    <2>3. \A i \in Live' : hash'[peerOf'[slots'[i]]] = slots'[i]
      <3> TAKE i \in Live'
      <3>1. PICK j \in Live : slots'[i] = slots[j] /\ j # k
        BY <1>7
      <3>2. slots[j] # s /\ hash[peerOf[slots[j]]] = slots[j]
        BY <1>1, <1>2, <3>1 DEF RegInv, ListInv
      <3>3. peerOf[slots[j]] # p
        BY <3>2
      <3>4. slots[j] \in Sessions
        BY DEF RegInv, ListInv
      <3>5. peerOf[slots[j]] \in Peers
        BY <3>1, <3>4 DEF RegInv, OwnerInv, ListInv
      <3> QED BY <1>1, <3>1, <3>2, <3>3, <3>5 DEF TypeOK
    <2>4. \A q \in Peers : hash'[q] # None =>
             peerOf'[hash'[q]] = q /\ \E i \in Live' : slots'[i] = hash'[q]
      <3> TAKE q \in Peers
      <3> HAVE hash'[q] # None
      <3>1. q # p /\ hash'[q] = hash[q]
        BY <1>1 DEF TypeOK
      <3>2. peerOf[hash[q]] = q /\ \E j \in Live : slots[j] = hash[q]
        BY <3>1 DEF RegInv, ListInv
      <3>3. PICK j \in Live : slots[j] = hash[q]
        BY <3>2
      <3>4. j # k
        BY <1>1, <1>2, <3>1, <3>2, <3>3
      <3> QED BY <1>1, <1>8, <3>1, <3>2, <3>3, <3>4
    <2> QED BY <1>1, <2>1, <2>2, <2>3, <2>4 DEF ListInv
  <1>11. SigInv'
    <2>1. \A i \in Live' : slots'[i] # s
      BY <1>2, <1>7 DEF RegInv, ListInv
    <2>2. stage[s] = "open"
      BY <1>2 DEF RegInv, ListInv
    <2>3. hash'[p] = None
      BY <1>1 DEF TypeOK
    <2> QED BY <1>1, <2>1, <2>2, <2>3 DEF SigInv
  <1>12. ReapInv' /\ TearInv'
    BY <1>1 DEF ReapInv, TearInv
  <1>13. OwnerInv'
    <2> SUFFICES ASSUME NEW x \in Sessions
        PROVE /\ stage'[x] # "unused" => peerOf'[x] \in Peers
              /\ Receiving' /\ stage'[x] \in {"open", "counted"} =>
                   \/ \E i \in Live' : slots'[i] = x
                   \/ sig'.pc # "idle" /\ sig'.sess = x
                   \/ reaping' = x
      BY DEF OwnerInv
    <2>1. stage[x] # "unused" => peerOf[x] \in Peers
      BY DEF RegInv, OwnerInv
    <2>2. ASSUME stage[x] \in {"open", "counted"}
          PROVE  (\E i \in Live' : slots'[i] = x) \/ s = x
      <3>1. PICK j \in Live : slots[j] = x
        BY <1>1, <2>2, NoneAssumption DEF RegInv, OwnerInv
      <3> QED BY <1>2, <1>8, <3>1
    <2> QED BY <1>1, <2>1, <2>2
  <1> QED BY <1>9, <1>10, <1>11, <1>12, <1>13 DEF RegInv

\* The limit, a failed create_session(), or a new session that only the signaling
\* thread knows.  The thread had no session, or one that is freed.
LEMMA NewSessionReg ==
  ASSUME TypeOK, RegInv, Receiving, NEW p \in Peers, NewSession(p), hash[p] = None,
         reaping = None, sig.pc # "idle" => stage[sig.sess] = "freed"
  PROVE  RegInv'
  <1>1. UNCHANGED <<slots, count, hash, terminateFlag, reaping, phase, tear>>
    BY DEF NewSession, appButSig
  <1>2. CASE sig' = SigIdle /\ UNCHANGED kvsVars
    <2>1. sig'.pc = "idle" /\ UNCHANGED <<stage, peerOf>>
      BY <1>2 DEF SigIdle, kvsVars
    <2>2. LockInv' /\ ListInv' /\ SigInv' /\ ReapInv' /\ TearInv'
      BY <1>1, <2>1 DEF RegInv, LockInv, ListInv, SigInv, ReapInv, TearInv, Receiving,
                        Live
    <2>3. OwnerInv'
      BY <1>1, <2>1 DEF RegInv, OwnerInv, Receiving, Live
    <2> QED BY <2>2, <2>3 DEF RegInv
  <1>3. ASSUME NEW s \in Sessions, count < MaxStreams, CreateSession(s, p, FALSE),
               sig' = [pc |-> "created", peer |-> p, sess |-> s]
        PROVE  RegInv'
    <2>1. /\ stage[s] = "unused" /\ stage'[s] = "open" /\ peerOf'[s] = p
          /\ \A x \in Sessions : x # s => stage'[x] = stage[x] /\ peerOf'[x] = peerOf[x]
      BY <1>3, CreateFacts
    <2>2. \A i \in Live : slots[i] \in Sessions /\ slots[i] # s
      BY <2>1 DEF RegInv, ListInv
    <2>3. LockInv'
      BY <1>1, <1>3 DEF RegInv, LockInv, Receiving
    <2>4. ListInv'
      <3>1. /\ \A i \in Live' : slots'[i] \in Sessions /\ stage'[slots'[i]] = "open"
            /\ \A i, j \in Live' : slots'[i] = slots'[j] => i = j
            /\ \A i \in Live' : hash'[peerOf'[slots'[i]]] = slots'[i]
        BY <1>1, <2>1, <2>2 DEF RegInv, ListInv, Live
      <3>2. \A q \in Peers : hash[q] # None => hash[q] \in Sessions /\ hash[q] # s
        BY <2>2, NoneAssumption DEF RegInv, ListInv
      <3>3. \A q \in Peers : hash'[q] # None =>
              peerOf'[hash'[q]] = q /\ \E i \in Live' : slots'[i] = hash'[q]
        BY <1>1, <2>1, <3>2 DEF RegInv, ListInv, Live
      <3> QED BY <3>1, <3>3 DEF ListInv
    <2>5. SigInv'
      BY <1>1, <1>3, <2>1, <2>2 DEF SigInv, Live
    <2>6. ReapInv' /\ TearInv'
      BY <1>1 DEF RegInv, LockInv, ReapInv, TearInv, Receiving
    <2>7. OwnerInv'
      BY <1>1, <1>3, <2>1, NoneAssumption DEF RegInv, OwnerInv, Live, Receiving
    <2> QED BY <2>3, <2>4, <2>5, <2>6, <2>7 DEF RegInv
  <1> QED BY <1>2, <1>3 DEF NewSession

\* A session is registered: by the signaling thread, whose session it then no
\* longer is, or by trigger_offer(), which has just created it.
LEMMA RegisterReg ==
  ASSUME TypeOK, RegInv, phase \in {"run", "left"}, NEW s \in Sessions, NEW p \in Peers,
         Register(s, p), count < MaxStreams, hash[p] = None,
         reaping = None, sig.pc # "idle" => sig.sess = s,
         sig'.pc = "idle", UNCHANGED <<terminateFlag, reaping, phase, tear>>,
         \A i \in Live : slots[i] # s,
         stage'[s] = "open", peerOf'[s] = p,
         \A x \in Sessions : x # s => stage'[x] = stage[x] /\ peerOf'[x] = peerOf[x]
  PROVE  RegInv'
  <1>1. /\ count \in Nat /\ Live' = Live \cup {count} /\ count \notin Live
        /\ Live \subseteq Slots /\ count \in Slots /\ count' = count + 1
    BY MaxStreamsAssumption DEF Live, Slots, TypeOK, Register
  <1>2. /\ \A i \in Live : slots'[i] = slots[i]
        /\ slots'[count] = s
        /\ hash' = [hash EXCEPT ![p] = s]
    BY <1>1 DEF Register, TypeOK
  <1>3. LockInv'
    BY DEF RegInv, LockInv, Receiving
  <1>4. ListInv'
    <2>1. /\ \A i \in Live' : slots'[i] \in Sessions /\ stage'[slots'[i]] = "open"
          /\ \A i, j \in Live' : slots'[i] = slots'[j] => i = j
      <3>1. \A i \in Live : slots'[i] \in Sessions /\ stage'[slots'[i]] = "open"
        BY <1>2 DEF RegInv, ListInv
      <3>2. \A i, j \in Live : slots'[i] = slots'[j] => i = j
        BY <1>2 DEF RegInv, ListInv
      <3>3. \A i \in Live : slots'[i] # slots'[count]
        BY <1>2
      <3> QED BY <1>1, <1>2, <3>1, <3>2, <3>3
    <2>2. ASSUME NEW i \in Live PROVE hash'[peerOf'[slots'[i]]] = slots'[i]
      <3>1. slots[i] \in Sessions /\ stage[slots[i]] = "open" /\ slots[i] # s
        BY DEF RegInv, ListInv
      <3>2. hash[peerOf[slots[i]]] = slots[i] /\ peerOf[slots[i]] \in Peers
        BY <3>1 DEF RegInv, ListInv, OwnerInv, Receiving
      <3>3. peerOf[slots[i]] # p
        BY <3>1, <3>2, NoneAssumption
      <3> QED BY <1>2, <3>1, <3>2, <3>3 DEF TypeOK
    <2>3. hash'[peerOf'[slots'[count]]] = slots'[count]
      BY <1>2 DEF TypeOK
    <2>4. ASSUME NEW q \in Peers, hash'[q] # None
          PROVE  peerOf'[hash'[q]] = q /\ \E i \in Live' : slots'[i] = hash'[q]
      <3>1. CASE q = p
        BY <1>1, <1>2, <3>1 DEF TypeOK
      <3>2. CASE q # p
        <4>1. hash'[q] = hash[q]
          BY <1>2, <3>2 DEF TypeOK
        <4>2. PICK i \in Live : slots[i] = hash[q]
          BY <2>4, <4>1 DEF RegInv, ListInv
        <4>3. hash[q] \in Sessions /\ hash[q] # s /\ peerOf[hash[q]] = q
          BY <2>4, <4>1, <4>2 DEF RegInv, ListInv
        <4> QED BY <1>1, <1>2, <4>1, <4>2, <4>3
      <3> QED BY <3>1, <3>2
    <2> QED BY <1>1, <2>1, <2>2, <2>3, <2>4 DEF ListInv
  <1>5. SigInv' /\ ReapInv' /\ TearInv'
    BY DEF RegInv, LockInv, SigInv, ReapInv, TearInv
  <1>6. OwnerInv'
    <2> SUFFICES ASSUME NEW x \in Sessions
        PROVE /\ stage'[x] # "unused" => peerOf'[x] \in Peers
              /\ stage'[x] \in {"open", "counted"} => \E i \in Live' : slots'[i] = x
      BY DEF OwnerInv
    <2>1. CASE x = s
      BY <1>1, <1>2, <2>1
    <2>2. CASE x # s
      <3>1. stage'[x] \in {"open", "counted"} => \E i \in Live : slots[i] = x
        BY <2>2, NoneAssumption DEF RegInv, OwnerInv, Receiving
      <3> QED BY <1>1, <1>2, <2>2, <3>1 DEF RegInv, OwnerInv
    <2> QED BY <2>1, <2>2
  <1> QED BY <1>3, <1>4, <1>5, <1>6 DEF RegInv

\* The signaling thread's steps with an offer.
LEMMA OfferReg ==
  ASSUME TypeOK, RegInv, OfferStep
  PROVE  RegInv'
  <1>0. /\ sig.pc # "idle" /\ Receiving /\ reaping = None
        /\ sig.peer \in Peers /\ sig.sess \in Sessions /\ hash[sig.peer] = None
    BY DEF OfferStep, OfferAfterReplace, SendOffer, SubmitFails, Publish, OfferFailed,
           RegInv, LockInv, SigInv
  <1>1. CASE OfferAfterReplace
    BY <1>0, <1>1, NewSessionReg DEF OfferAfterReplace
  <1>2. CASE SendOffer \/ SubmitFails
    <2>1. /\ UNCHANGED <<stage, peerOf, slots, count, hash, terminateFlag, reaping, phase,
                         tear>>
          /\ sig' \in {[sig EXCEPT !.pc = "sent"], [sig EXCEPT !.pc = "failed"]}
          /\ sig.pc \in {"created", "sent"}
      BY <1>2 DEF SendOffer, SubmitFails, HandleOffer, kvsVars, appButSig
    <2>2. sig'.peer = sig.peer /\ sig'.sess = sig.sess /\ sig'.pc \in {"sent", "failed"}
      BY <2>1 DEF TypeOK
    <2>3. LockInv' /\ ListInv' /\ ReapInv' /\ TearInv' /\ OwnerInv'
      BY <1>0, <2>1, <2>2 DEF RegInv, LockInv, ListInv, ReapInv, TearInv, OwnerInv,
                              Receiving, Live
    <2>4. SigInv'
      BY <1>0, <2>1, <2>2 DEF RegInv, SigInv, Live
    <2> QED BY <2>3, <2>4 DEF RegInv
  <1>3. CASE Publish
    <2>1. /\ Register(sig.sess, sig.peer) /\ sig'.pc = "idle"
          /\ UNCHANGED <<stage, peerOf, terminateFlag, reaping, phase, tear>>
          /\ sig.pc = "sent"
      BY <1>3 DEF Publish, SigIdle, kvsVars
    <2>2. /\ count < MaxStreams /\ stage[sig.sess] = "open"
          /\ peerOf[sig.sess] = sig.peer /\ \A i \in Live : slots[i] # sig.sess
      BY <2>1 DEF RegInv, SigInv
    <2> QED BY <1>0, <2>1, <2>2, RegisterReg DEF Receiving
  <1>4. CASE OfferFailed
    <2>1. /\ sig'.pc = "idle" /\ stage[sig.sess] = "freed"
          /\ UNCHANGED <<stage, peerOf, slots, count, hash, terminateFlag, reaping, phase,
                         tear>>
      BY <1>4 DEF OfferFailed, SigIdle, kvsVars, appButSig
    <2>2. LockInv' /\ ListInv' /\ SigInv' /\ ReapInv' /\ TearInv'
      BY <1>0, <2>1 DEF RegInv, LockInv, ListInv, SigInv, ReapInv, TearInv, Receiving, Live
    <2>3. OwnerInv'
      BY <1>0, <2>1 DEF RegInv, OwnerInv, Receiving, Live
    <2> QED BY <2>2, <2>3 DEF RegInv
  <1> QED BY <1>1, <1>2, <1>3, <1>4 DEF OfferStep

\* One pass of the cleanup loop moves a marked session from the registry to the
\* loop; the table always knows it.
LEMMA TakesReg ==
  ASSUME TypeOK, RegInv, CleanupTakes
  PROVE  RegInv' /\ phase' = phase /\ reaping' \in Sessions
         /\ count' \in 0..MaxStreams /\ slots' \in [Slots -> Sessions \cup {None}]
         /\ hash' \in [Peers -> Sessions \cup {None}]
  <1>1. /\ phase = "run" /\ Receiving /\ sig.pc = "idle" /\ reaping = None
        /\ UNCHANGED <<stage, peerOf, terminateFlag, sig, tear>>
    BY DEF CleanupTakes, ObjUnlocked, Receiving, kvsVars
  <1>2. PICK k \in Marked :
          IF hash[peerOf[slots[k]]] = None
            THEN phase' = "left" /\ UNCHANGED <<hash, slots, count, reaping>>
            ELSE Reap(k) /\ UNCHANGED phase
    BY DEF CleanupTakes
  <1> DEFINE s == slots[k]
             p == peerOf[s]
  <1>3. /\ k \in Live /\ s \in Sessions /\ stage[s] = "open" /\ terminateFlag[s]
        /\ p \in Peers /\ hash[p] = s /\ s # None
    BY <1>1, <1>2, NoneAssumption DEF Marked, Live, RegInv, ListInv, OwnerInv
  <1>4. /\ hash' = [hash EXCEPT ![p] = None] /\ reaping' = s /\ UNCHANGED phase
        /\ ShiftOut(k)
    BY <1>2, <1>3 DEF Reap
  <1>5. /\ count \in Nat /\ count > 0 /\ count <= MaxStreams /\ k \in Slots
        /\ count' = count - 1
        /\ slots' = [j \in Slots |-> IF k <= j /\ j < count - 1 THEN slots[j + 1]
                                                               ELSE slots[j]]
    BY <1>3, <1>4, MaxStreamsAssumption DEF Live, Slots, ShiftOut, TypeOK
  <1>6. /\ count' \in 0..MaxStreams
        /\ hash' \in [Peers -> Sessions \cup {None}]
    <2>1. count' \in 0..MaxStreams
      BY <1>5, MaxStreamsAssumption
    <2>2. hash' \in [Peers -> Sessions \cup {None}]
      BY <1>4 DEF TypeOK
    <2> QED BY <2>1, <2>2
  <1>7. slots' \in [Slots -> Sessions \cup {None}]
    <2>1. \A j \in Slots : k <= j /\ j < count - 1 => j + 1 \in Slots
      BY <1>5, MaxStreamsAssumption DEF Slots
    <2> QED BY <1>5, <2>1 DEF TypeOK
  <1> DEFINE from(i) == IF k <= i THEN i + 1 ELSE i
  <1>8. \A i \in Live' : from(i) \in Live /\ from(i) # k /\ slots'[i] = slots[from(i)]
    BY <1>3, <1>5, MaxStreamsAssumption DEF Live, Slots
  <1>9. \A j \in Live : j # k => \E i \in Live' : slots'[i] = slots[j]
    <2> TAKE j \in Live
    <2> HAVE j # k
    <2>1. CASE j < k
      <3>1. j \in Live' /\ from(j) = j
        BY <1>3, <1>5, <2>1 DEF Live
      <3> QED BY <1>8, <3>1
    <2>2. CASE j > k
      <3>1. j - 1 \in Live' /\ from(j - 1) = j
        BY <1>3, <1>5, <2>2 DEF Live
      <3> QED BY <1>8, <3>1
    <2>3. j < k \/ j > k
      BY <1>3 DEF Live
    <2> QED BY <2>1, <2>2, <2>3
  <1>10. LockInv'
    BY <1>1, <1>4 DEF RegInv, LockInv, Receiving
  <1>11. ListInv'
    <2>1. \A i \in Live' : slots'[i] \in Sessions /\ stage'[slots'[i]] = "open"
      BY <1>1, <1>8 DEF RegInv, ListInv
    <2>2. \A i, j \in Live' : slots'[i] = slots'[j] => i = j
      <3> TAKE i, j \in Live'
      <3> HAVE slots'[i] = slots'[j]
      <3>1. from(i) = from(j)
        BY <1>8 DEF RegInv, ListInv
      <3> QED BY <1>3, <1>5, <3>1 DEF Live
    <2>3. \A i \in Live' : hash'[peerOf'[slots'[i]]] = slots'[i]
      <3> TAKE i \in Live'
      <3>1. PICK j \in Live : slots'[i] = slots[j] /\ j # k
        BY <1>8
      <3>2. slots[j] # s /\ hash[peerOf[slots[j]]] = slots[j] /\ slots[j] \in Sessions
        BY <1>1, <1>3, <3>1 DEF RegInv, ListInv
      <3>3. peerOf[slots[j]] # p /\ peerOf[slots[j]] \in Peers
        BY <1>3, <3>1, <3>2 DEF RegInv, OwnerInv, ListInv
      <3> QED BY <1>1, <1>4, <3>1, <3>2, <3>3 DEF TypeOK
    <2>4. \A q \in Peers : hash'[q] # None =>
             peerOf'[hash'[q]] = q /\ \E i \in Live' : slots'[i] = hash'[q]
      <3> TAKE q \in Peers
      <3> HAVE hash'[q] # None
      <3>1. q # p /\ hash'[q] = hash[q]
        BY <1>3, <1>4 DEF TypeOK
      <3>2. PICK j \in Live : peerOf[hash[q]] = q /\ slots[j] = hash[q]
        BY <3>1 DEF RegInv, ListInv
      <3>3. j # k
        BY <3>1, <3>2
      <3> QED BY <1>1, <1>9, <3>1, <3>2, <3>3
    <2> QED BY <2>1, <2>2, <2>3, <2>4 DEF ListInv
  <1>12. SigInv' /\ TearInv'
    BY <1>1 DEF RegInv, SigInv, TearInv
  <1>13. ReapInv'
    BY <1>1, <1>3, <1>4, <1>8 DEF RegInv, ReapInv, ListInv
  <1>14. OwnerInv'
    <2> SUFFICES ASSUME NEW x \in Sessions
        PROVE /\ stage'[x] # "unused" => peerOf'[x] \in Peers
              /\ stage'[x] \in {"open", "counted"} =>
                   (\E i \in Live' : slots'[i] = x) \/ reaping' = x
      BY DEF OwnerInv
    <2>1. stage[x] # "unused" => peerOf[x] \in Peers
      BY DEF RegInv, OwnerInv
    <2>2. ASSUME stage[x] \in {"open", "counted"}
          PROVE  (\E i \in Live' : slots'[i] = x) \/ s = x
      <3>1. PICK j \in Live : slots[j] = x
        BY <1>1, <2>2, NoneAssumption DEF RegInv, OwnerInv
      <3> QED BY <1>9, <3>1
    <2> QED BY <1>1, <1>4, <2>1, <2>2
  <1> QED BY <1>3, <1>4, <1>6, <1>7, <1>10, <1>11, <1>12, <1>13, <1>14 DEF RegInv

\* trigger_offer() with a new session.
LEMMA TriggerReg ==
  ASSUME TypeOK, RegInv, NEW p \in Peers, TriggerOffer(p)
  PROVE  RegInv'
  <1>1. CASE UNCHANGED <<kvsVars, slots, count, hash>>
    BY <1>1, RegKept DEF TriggerOffer, appButRegistry, kvsVars, registry
  <1>2. CASE ~UNCHANGED <<kvsVars, slots, count, hash>>
    <2>1. PICK s \in Sessions : CreateSession(s, p, TRUE) /\ Register(s, p)
      BY <1>2 DEF TriggerOffer
    <2>2. /\ phase = "run" /\ sig.pc = "idle" /\ reaping = None /\ count < MaxStreams
          /\ hash[p] = None /\ sig'.pc = "idle"
          /\ UNCHANGED <<terminateFlag, reaping, phase, tear>>
      BY <1>2 DEF TriggerOffer, ObjUnlocked, appButRegistry
    <2>3. /\ stage[s] = "unused" /\ stage'[s] = "open" /\ peerOf'[s] = p
          /\ \A x \in Sessions : x # s => stage'[x] = stage[x] /\ peerOf'[x] = peerOf[x]
      BY <2>1, CreateFacts
    <2>4. \A i \in Live : slots[i] # s
      BY <2>3 DEF RegInv, ListInv
    <2> QED BY <2>1, <2>2, <2>3, <2>4, RegisterReg
  <1> QED BY <1>1, <1>2

\* The rest of the cleanup loop.
LEMMA CleanupReg ==
  ASSUME TypeOK, RegInv, CleanupDone \/ CleanupLeaves
  PROVE  RegInv'
  <1>1. /\ UNCHANGED <<stage, peerOf, slots, count, hash, terminateFlag, sig, tear>>
        /\ Receiving /\ Receiving'
        /\ reaping' = None /\ (reaping # None => stage[reaping] = "freed")
    BY DEF CleanupDone, CleanupLeaves, kvsVars, RegInv, LockInv, Receiving
  <1>2. LockInv' /\ ListInv' /\ SigInv' /\ ReapInv' /\ TearInv'
    BY <1>1 DEF RegInv, LockInv, ListInv, SigInv, ReapInv, TearInv, Receiving, Live
  <1>3. OwnerInv'
    BY <1>1, NoneAssumption DEF RegInv, OwnerInv, Receiving, Live
  <1> QED BY <1>2, <1>3 DEF RegInv

\* The teardown.
LEMMA TeardownReg ==
  ASSUME TypeOK, RegInv, TeardownStep
  PROVE  RegInv' /\ tear' \in Seq(Sessions)
  <1>1. CASE TeardownClears
    <2>1. /\ UNCHANGED <<stage, peerOf, slots, count, terminateFlag, sig, reaping, tear>>
          /\ phase = "left" /\ phase' = "cleared" /\ sig.pc = "idle" /\ reaping = None
          /\ \A p \in Peers : hash'[p] = None
      BY <1>1 DEF TeardownClears, ObjUnlocked, kvsVars
    <2>2. LockInv' /\ ListInv' /\ SigInv' /\ ReapInv' /\ TearInv' /\ OwnerInv'
      BY <2>1 DEF RegInv, LockInv, ListInv, SigInv, ReapInv, TearInv, OwnerInv, Receiving,
                  Live
    <2> QED BY <2>1, <2>2 DEF RegInv, TypeOK
  <1>2. CASE TeardownDetaches
    <2>1. /\ UNCHANGED <<stage, peerOf, hash, terminateFlag, sig, reaping>>
          /\ phase = "cleared" /\ phase' = "detached" /\ count' = 0
          /\ tear' = [i \in 1..count |-> slots[i - 1]]
      BY <1>2 DEF TeardownDetaches, kvsVars
    <2>2. count \in Nat
      BY MaxStreamsAssumption DEF TypeOK
    <2>3. \A i \in 1..count : slots[i - 1] \in Sessions /\ stage[slots[i - 1]] = "open"
      BY <2>2 DEF RegInv, ListInv, Live
    <2>4. tear' \in Seq(Sessions) /\ Len(tear') = count
      BY <2>1, <2>2, <2>3
    <2>5. TearInv'
      <3>1. \A i, j \in 1..count : slots[i - 1] = slots[j - 1] => i = j
        <4> TAKE i, j \in 1..count
        <4> HAVE slots[i - 1] = slots[j - 1]
        <4>1. i - 1 \in Live /\ j - 1 \in Live
          BY <2>2 DEF Live
        <4>2. i - 1 = j - 1
          BY <4>1 DEF RegInv, ListInv
        <4> QED BY <4>2
      <3> QED BY <2>1, <2>3, <2>4, <3>1 DEF TearInv
    <2>6. Live' = {}
      BY <2>1 DEF Live
    <2>7. LockInv' /\ ListInv' /\ SigInv' /\ ReapInv' /\ OwnerInv'
      BY <2>1, <2>6 DEF RegInv, LockInv, ListInv, SigInv, ReapInv, OwnerInv, Receiving
    <2> QED BY <2>4, <2>5, <2>7 DEF RegInv
  <1>3. CASE TeardownNext
    <2>1. /\ UNCHANGED <<stage, peerOf, slots, count, hash, terminateFlag, sig, reaping,
                         phase>>
          /\ tear # <<>> /\ tear' = Tail(tear)
      BY <1>3 DEF TeardownNext, kvsVars
    <2>2. /\ tear' \in Seq(Sessions) /\ Len(tear') = Len(tear) - 1 /\ Len(tear) \in Nat
          /\ \A i \in 1..Len(tear') : tear'[i] = tear[i + 1] /\ i + 1 \in 1..Len(tear)
      BY <2>1 DEF TypeOK
    <2>3. TearInv'
      <3>1. \A i \in 1..Len(tear') : i + 1 > 1 /\ stage[tear[i + 1]] = "open"
        BY <2>2 DEF RegInv, TearInv
      <3>2. \A i, j \in 1..Len(tear') : tear[i + 1] = tear[j + 1] => i = j
        <4> TAKE i, j \in 1..Len(tear')
        <4> HAVE tear[i + 1] = tear[j + 1]
        <4>1. i + 1 = j + 1
          BY <2>2 DEF RegInv, TearInv
        <4> QED BY <4>1
      <3> QED BY <2>1, <2>2, <3>1, <3>2 DEF TearInv
    <2>4. LockInv' /\ ListInv' /\ SigInv' /\ ReapInv' /\ OwnerInv'
      BY <2>1 DEF RegInv, LockInv, ListInv, SigInv, ReapInv, OwnerInv, Receiving, Live
    <2> QED BY <2>2, <2>3, <2>4 DEF RegInv
  <1>4. CASE TeardownEnds
    <2>1. /\ UNCHANGED <<stage, peerOf, slots, count, hash, terminateFlag, sig, reaping,
                         tear>>
          /\ phase = "detached" /\ phase' = "down" /\ tear = <<>>
      BY <1>4 DEF TeardownEnds, kvsVars
    <2>2. LockInv' /\ ListInv' /\ SigInv' /\ ReapInv' /\ TearInv' /\ OwnerInv'
      BY <2>1 DEF RegInv, LockInv, ListInv, SigInv, ReapInv, TearInv, OwnerInv, Receiving,
                  Live
    <2> QED BY <2>1, <2>2 DEF RegInv, TypeOK
  <1> QED BY <1>1, <1>2, <1>3, <1>4 DEF TeardownStep

\* The steps that leave the registry alone.
Aside ==
  \/ \E s \in Sessions, t \in Threads : StateCallback(s, t)
  \/ \E s \in Sessions : SdkStep(s) \/ WatchdogStep(s)
  \/ \E p \in Peers : Renegotiate(p) \/ Answer(p) \/ IceCandidate(p) \/ Expire(p)
  \/ CleanupIdle \/ CloseAllSessions \/ TriggerOfferReturns \/ Down \/ UNCHANGED vars

\* A step of those that touch no registry keeps the registries and the terminate flags.
LEMMA AsideKeeps ==
  ASSUME TypeOK, Aside
  PROVE  /\ UNCHANGED registry
         /\ \A s \in Sessions : terminateFlag[s] => terminateFlag'[s]
         /\ UNCHANGED <<initiator, active, sessionCount, mediaStarted>>
         /\ terminateFlag' \in [Sessions -> BOOLEAN]
  <1>1. ASSUME NEW s \in Sessions, NEW t \in Threads, StateCallback(s, t)
        PROVE  /\ UNCHANGED registry
               /\ \A x \in Sessions : terminateFlag[x] => terminateFlag'[x]
               /\ UNCHANGED <<initiator, active, sessionCount, mediaStarted>>
               /\ terminateFlag' \in [Sessions -> BOOLEAN]
    BY <1>1 DEF StateCallback, AnnounceConnected, RaiseConnected, ExchangeAnnounced,
                RaiseDisconnected, kvsButAt, appButEvents, registry, TypeOK
  <1>2. ASSUME NEW s \in Sessions, SdkStep(s) \/ WatchdogStep(s)
        PROVE  UNCHANGED <<registry, terminateFlag, initiator, active, sessionCount,
                           mediaStarted>>
    BY <1>2 DEF SdkStep, WatchdogStep, SdkConnected, SdkEnded, WatchdogDecides,
                WatchdogEvicts, appVars, registry
  <1>3. ASSUME NEW p \in Peers,
               Renegotiate(p) \/ Answer(p) \/ IceCandidate(p) \/ Expire(p)
        PROVE  UNCHANGED <<registry, terminateFlag, initiator, active, sessionCount,
                           mediaStarted>>
    BY <1>3 DEF Renegotiate, Answer, IceCandidate, Expire, registry, vars, kvsVars, appVars
  <1>4. CASE CleanupIdle \/ TriggerOfferReturns \/ Down \/ UNCHANGED vars
    <2>1. UNCHANGED <<registry, terminateFlag, initiator, active, sessionCount,
                      mediaStarted>>
      BY <1>4 DEF CleanupIdle, TriggerOfferReturns, Down, registry, vars, kvsVars, appVars,
                  appButRegistry
    <2> QED BY <2>1 DEF TypeOK
  <1>5. CASE CloseAllSessions
    BY <1>5 DEF CloseAllSessions, kvsVars, registry, TypeOK
  <1> QED BY <1>1, <1>2, <1>3, <1>4, <1>5 DEF Aside, TypeOK

\* The inductive step of RegInv.
LEMMA RegStep ==
  ASSUME TypeOK, RegInv, [Next]_vars
  PROVE  RegInv'
  <1>1. CASE Aside
    BY <1>1, AsideKeeps, RegKept
  <1>2. ASSUME NEW s \in Sessions, FreeStep(s) PROVE RegInv'
    BY <1>2, FreeReg
  <1>3. ASSUME NEW p \in Peers, ReplaceTerminated(p) PROVE RegInv'
    BY <1>3, ReplaceReg
  <1>4. ASSUME NEW p \in Peers, FreshOffer(p) PROVE RegInv'
    BY <1>4, NewSessionReg DEF FreshOffer, ObjUnlocked
  <1>5. ASSUME NEW p \in Peers, TriggerOffer(p) PROVE RegInv'
    BY <1>5, TriggerReg
  <1>6. CASE OfferStep
    BY <1>6, OfferReg
  <1>7. CASE CleanupTakes
    BY <1>7, TakesReg
  <1>8. CASE CleanupDone \/ CleanupLeaves
    BY <1>8, CleanupReg
  <1>9. CASE TeardownStep
    BY <1>9, TeardownReg
  <1> QED BY <1>1, <1>2, <1>3, <1>4, <1>5, <1>6, <1>7, <1>8, <1>9
          DEF Next, Aside, Message, CleanupStep

-----------------------------------------------------------------------------
(***************************************************************************)
(* activeSessions and its count.                                           *)
(***************************************************************************)

\* A peer that is not registered, while nobody holds a session of it, has no
\* session in activeSessions: create_session() is never refused its place.
LEMMA PlaceIsFree ==
  ASSUME TypeOK, RegInv, ActiveInv, Receiving, NEW p \in Peers, hash[p] = None,
         reaping = None, sig.pc # "idle" => stage[sig.sess] = "freed"
  PROVE  active[p] = None
  <1> SUFFICES ASSUME active[p] # None PROVE FALSE
    OBVIOUS
  <1>1. /\ active[p] \in Sessions /\ active[p] # None /\ peerOf[active[p]] = p
        /\ stage[active[p]] \in {"open", "counted"}
    BY DEF TypeOK, KvsTypeOK, ActiveInv
  <1>2. PICK i \in Live : slots[i] = active[p]
    BY <1>1 DEF RegInv, OwnerInv
  <1>3. hash[p] = active[p]
    BY <1>1, <1>2 DEF RegInv, ListInv
  <1> QED BY <1>1, <1>3

\* What a step may do to the sessions of the client, whichever thread takes it.
Creates(s, p, b) ==
  CreateSession(s, p, b) /\ active[p] = None /\ UNCHANGED <<announced, balance>>

\* The steps by what they do to the two registries.
LEMMA StepKinds ==
  ASSUME TypeOK, RegInv, ActiveInv, [Next]_vars
  PROVE  \/ \E s \in Sessions, t \in Threads : StateCallback(s, t)
         \/ \E s \in Sessions : FreeStep(s) \/ SdkStep(s) \/ WatchdogStep(s)
         \/ \E s \in Sessions, p \in Peers, b \in BOOLEAN : Creates(s, p, b)
         \/ \E s \in Sessions :
              HandleOffer(s) /\ stage[s] # "unused" /\ UNCHANGED <<announced, balance>>
         \/ UNCHANGED <<kvsVars, announced, balance>>
  <1> DEFINE Goal ==
        \/ \E s \in Sessions, p \in Peers, b \in BOOLEAN : Creates(s, p, b)
        \/ \E s \in Sessions :
             HandleOffer(s) /\ stage[s] # "unused" /\ UNCHANGED <<announced, balance>>
        \/ UNCHANGED <<kvsVars, announced, balance>>
  <1>1. ASSUME NEW p \in Peers, NewSession(p), active[p] = None PROVE Goal
    <2>1. CASE UNCHANGED kvsVars
      BY <1>1, <2>1 DEF NewSession, appButSig
    <2>2. CASE ~UNCHANGED kvsVars
      <3>1. /\ UNCHANGED <<announced, balance>>
            /\ \E s \in Sessions : CreateSession(s, p, FALSE)
        BY <1>1, <2>2 DEF NewSession, appButSig
      <3> QED BY <1>1, <3>1 DEF Creates
    <2> QED BY <2>1, <2>2
  <1>2. ASSUME NEW p \in Peers, FreshOffer(p) PROVE Goal
    BY <1>1, <1>2, PlaceIsFree DEF FreshOffer, ObjUnlocked
  <1>3. CASE OfferAfterReplace
    <2>1. /\ sig.peer \in Peers /\ Receiving /\ hash[sig.peer] = None /\ reaping = None
          /\ stage[sig.sess] = "freed" /\ NewSession(sig.peer)
      BY <1>3 DEF OfferAfterReplace, RegInv, SigInv, LockInv
    <2> QED BY <1>1, <2>1, PlaceIsFree
  <1>4. ASSUME NEW p \in Peers, TriggerOffer(p) PROVE Goal
    <2>1. CASE UNCHANGED kvsVars
      BY <1>4, <2>1 DEF TriggerOffer, appButRegistry
    <2>2. CASE ~UNCHANGED kvsVars
      <3>1. /\ UNCHANGED <<announced, balance>>
            /\ \E s \in Sessions : CreateSession(s, p, TRUE)
            /\ hash[p] = None /\ Receiving /\ sig.pc = "idle" /\ reaping = None
        BY <1>4, <2>2 DEF TriggerOffer, appButRegistry, ObjUnlocked, Receiving, kvsVars
      <3>2. active[p] = None
        BY <3>1, PlaceIsFree
      <3> QED BY <3>1, <3>2 DEF Creates
    <2> QED BY <2>1, <2>2
  <1>5. CASE SendOffer
    BY <1>5 DEF SendOffer, appButSig, RegInv, SigInv
  <1>6. ASSUME NEW p \in Peers,
               Renegotiate(p) \/ ReplaceTerminated(p) \/ Answer(p) \/ IceCandidate(p)
                 \/ Expire(p)
        PROVE  Goal
    BY <1>6 DEF Renegotiate, ReplaceTerminated, Answer, IceCandidate, Expire, vars, appVars
  <1>7. CASE SubmitFails \/ Publish \/ OfferFailed
    BY <1>7 DEF SubmitFails, Publish, OfferFailed, appButSig
  <1>8. CASE CleanupStep \/ CleanupLeaves \/ CloseAllSessions
    BY <1>8 DEF CleanupStep, CleanupTakes, CleanupDone, CleanupIdle, CleanupLeaves,
                CloseAllSessions
  <1>9. CASE TriggerOfferReturns \/ TeardownStep \/ Down \/ UNCHANGED vars
    BY <1>9 DEF TriggerOfferReturns, appButRegistry, TeardownStep, TeardownClears,
                TeardownDetaches, TeardownNext, TeardownEnds, Down, vars, appVars
  <1> QED BY <1>2, <1>3, <1>4, <1>5, <1>6, <1>7, <1>8, <1>9
          DEF Next, Message, OfferStep

\* Every step keeps ActiveInv.
LEMMA ActiveStep ==
  ASSUME TypeOK, RegInv, ActiveInv, [Next]_vars
  PROVE  ActiveInv'
  <1>1. CASE UNCHANGED <<stage, peerOf, active>>
    BY <1>1 DEF ActiveInv
  <1>2. ASSUME NEW s \in Sessions, FreeStep(s) PROVE ActiveInv'
    <2>1. /\ BeingFreed(s) /\ UNCHANGED peerOf /\ peerOf[s] \in Peers
          /\ \A x \in Sessions : x # s => stage'[x] = stage[x]
      <3>1. BeingFreed(s)
        BY <1>2 DEF FreeStep, FreeBegin, FreeRemove, FreeClose, FreeEnd
      <3>2. stage[s] # "unused"
        BY <3>1, FreedIsOff
      <3>3. peerOf[s] \in Peers
        BY <3>2 DEF RegInv, OwnerInv
      <3>4. UNCHANGED peerOf /\ \A x \in Sessions : x # s => stage'[x] = stage[x]
        BY <1>2 DEF FreeStep, FreeBegin, FreeRemove, FreeClose, FreeEnd, UncountSession,
                    RemoveSession, ClosePeerConnection, FreePeerConnection, TypeOK,
                    KvsTypeOK
      <3> QED BY <3>1, <3>3, <3>4
    <2>2. CASE FreeBegin(s)
      <3>1. active[peerOf[s]] = s /\ s # None
        BY <2>2, NoneAssumption DEF FreeBegin, UncountSession, ActiveInv
      <3>2. stage'[s] = "counted" /\ UNCHANGED active
        BY <2>2, <3>1 DEF FreeBegin, UncountSession, TypeOK, KvsTypeOK
      <3>3. stage[s] = "open"
        BY <2>2 DEF FreeBegin, UncountSession
      <3>4. \A x \in Sessions : stage'[x] \in {"open", "counted"}
                                 <=> stage[x] \in {"open", "counted"}
        BY <2>1, <3>2, <3>3
      <3>5. \A q \in Peers : active[q] # None => active[q] \in Sessions
        BY DEF TypeOK, KvsTypeOK
      <3> QED BY <2>1, <3>2, <3>4, <3>5 DEF ActiveInv
    <2>3. CASE FreeRemove(s)
      <3>1. /\ stage[s] = "counted" /\ stage'[s] = "released"
            /\ active' = [active EXCEPT ![peerOf[s]] = None]
        BY <2>3 DEF FreeRemove, RemoveSession, TypeOK, KvsTypeOK
      <3>2. active[peerOf[s]] = s
        BY <3>1 DEF ActiveInv
      <3>3. ASSUME NEW x \in Sessions, stage'[x] \in {"open", "counted"}
            PROVE  active'[peerOf'[x]] = x
        <4>1. x # s /\ stage[x] \in {"open", "counted"} /\ active[peerOf[x]] = x
          BY <2>1, <3>1, <3>3 DEF ActiveInv
        <4>2. peerOf[x] # peerOf[s] /\ peerOf[x] \in Peers
          BY <3>2, <4>1 DEF RegInv, OwnerInv
        <4> QED BY <2>1, <3>1, <4>1, <4>2 DEF TypeOK, KvsTypeOK
      <3>4. ASSUME NEW q \in Peers, active'[q] # None
            PROVE  stage'[active'[q]] \in {"open", "counted"} /\ peerOf'[active'[q]] = q
        <4>1. q # peerOf[s] /\ active'[q] = active[q] /\ active[q] \in Sessions
          BY <2>1, <3>1, <3>4 DEF TypeOK, KvsTypeOK
        <4>2. stage[active[q]] \in {"open", "counted"} /\ peerOf[active[q]] = q
          BY <3>4, <4>1 DEF ActiveInv
        <4> QED BY <2>1, <4>1, <4>2
      <3> QED BY <3>3, <3>4 DEF ActiveInv
    <2>4. CASE FreeClose(s) \/ FreeEnd(s)
      <3>1. /\ UNCHANGED active
            /\ stage[s] \notin {"open", "counted"} /\ stage'[s] \notin {"open", "counted"}
        BY <2>4 DEF FreeClose, FreeEnd, ClosePeerConnection, FreePeerConnection, TypeOK,
                    KvsTypeOK
      <3>2. \A x \in Sessions : stage'[x] \in {"open", "counted"}
                                 <=> stage[x] \in {"open", "counted"}
        BY <2>1, <3>1
      <3>3. \A q \in Peers : active[q] # None => active[q] \in Sessions
        BY DEF TypeOK, KvsTypeOK
      <3> QED BY <2>1, <3>1, <3>2, <3>3 DEF ActiveInv
    <2> QED BY <1>2, <2>2, <2>3, <2>4 DEF FreeStep
  <1>3. ASSUME NEW s \in Sessions, NEW p \in Peers, NEW b \in BOOLEAN, Creates(s, p, b)
        PROVE  ActiveInv'
    <2>1. /\ stage[s] = "unused" /\ stage'[s] = "open" /\ peerOf'[s] = p
          /\ \A x \in Sessions : x # s => stage'[x] = stage[x] /\ peerOf'[x] = peerOf[x]
      BY <1>3, CreateFacts DEF Creates
    <2>2. active[p] = None /\ active' = [active EXCEPT ![p] = s]
      BY <1>3 DEF Creates, CreateSession
    <2>3. ASSUME NEW x \in Sessions, stage'[x] \in {"open", "counted"}
          PROVE  active'[peerOf'[x]] = x
      <3>1. CASE x = s
        BY <2>1, <2>2, <3>1 DEF TypeOK, KvsTypeOK
      <3>2. CASE x # s
        <4>1. active[peerOf[x]] = x /\ peerOf[x] \in Peers /\ x # None
          BY <2>1, <2>3, <3>2, NoneAssumption DEF ActiveInv, RegInv, OwnerInv
        <4> QED BY <2>1, <2>2, <3>2, <4>1 DEF TypeOK, KvsTypeOK
      <3> QED BY <3>1, <3>2
    <2>4. ASSUME NEW q \in Peers, active'[q] # None
          PROVE  stage'[active'[q]] \in {"open", "counted"} /\ peerOf'[active'[q]] = q
      <3>1. CASE q = p
        BY <2>1, <2>2, <3>1 DEF TypeOK, KvsTypeOK
      <3>2. CASE q # p
        <4>1. active'[q] = active[q] /\ active[q] \in Sessions
          BY <2>2, <2>4, <3>2 DEF TypeOK, KvsTypeOK
        <4>2. stage[active[q]] \in {"open", "counted"} /\ peerOf[active[q]] = q
          BY <2>4, <4>1 DEF ActiveInv
        <4> QED BY <2>1, <4>1, <4>2
      <3> QED BY <3>1, <3>2
    <2> QED BY <2>3, <2>4 DEF ActiveInv
  <1>4. ASSUME NEW s \in Sessions, HandleOffer(s) PROVE UNCHANGED <<stage, peerOf, active>>
    BY <1>4 DEF HandleOffer
  <1>5. ASSUME NEW s \in Sessions, SdkStep(s) \/ WatchdogStep(s)
        PROVE  UNCHANGED <<stage, peerOf, active>>
    BY <1>5 DEF SdkStep, WatchdogStep, SdkConnected, SdkEnded, WatchdogDecides,
                WatchdogEvicts
  <1>6. ASSUME NEW s \in Sessions, NEW t \in Threads, StateCallback(s, t)
        PROVE  UNCHANGED <<stage, peerOf, active>>
    BY <1>6 DEF StateCallback, AnnounceConnected, RaiseConnected, ExchangeAnnounced,
                RaiseDisconnected, kvsButAt
  <1>7. UNCHANGED <<kvsVars, announced, balance>> => UNCHANGED <<stage, peerOf, active>>
    BY DEF kvsVars
  <1> QED BY <1>1, <1>2, <1>3, <1>4, <1>5, <1>6, <1>7, StepKinds

\* The inductive step of CountInv.
LEMMA CountStep ==
  ASSUME TypeOK, RegInv, ActiveInv, CountInv, [Next]_vars
  PROVE  CountInv'
  <1>1. CASE UNCHANGED <<stage, sessionCount, mediaStarted>>
    BY <1>1 DEF CountInv, Open, Counted
  <1>2. ASSUME NEW s \in Sessions, FreeStep(s) PROVE CountInv'
    <2>1. CASE FreeBegin(s)
      <3>1. stage[s] = "open" /\ active[peerOf[s]] = s /\ s # None
        BY <2>1, NoneAssumption DEF FreeBegin, UncountSession, ActiveInv
      <3>2. /\ stage' = [stage EXCEPT ![s] = "counted"]
            /\ sessionCount' = IF sessionCount > 0 THEN sessionCount - 1 ELSE 0
            /\ mediaStarted' = (mediaStarted /\ sessionCount > 1)
        BY <2>1, <3>1 DEF FreeBegin, UncountSession
      <3>3. Open' = Open \ {s} /\ Counted' = Counted \cup {s} /\ s \in Open
        BY <3>1, <3>2 DEF Open, Counted, TypeOK, KvsTypeOK
      <3>4. IsFiniteSet(Open') /\ Cardinality(Open') = Cardinality(Open) - 1
        BY <3>3, FS_RemoveElement DEF CountInv
      <3>5. IsFiniteSet(Counted')
        BY <3>3, FS_AddElement DEF CountInv
      <3>6. Cardinality(Open') \in Nat
        BY <3>4, FS_CardinalityType
      <3>7. sessionCount \in Nat /\ sessionCount = Cardinality(Open)
        BY DEF CountInv, TypeOK, KvsTypeOK
      <3>8. sessionCount' = Cardinality(Open') /\ (sessionCount > 1 => sessionCount' > 0)
        BY <3>2, <3>4, <3>6, <3>7
      <3>9. mediaStarted' => sessionCount > 1
        BY <3>2
      <3> QED BY <3>4, <3>5, <3>8, <3>9 DEF CountInv
    <2>2. CASE FreeRemove(s)
      <3>1. /\ stage[s] = "counted" /\ stage' = [stage EXCEPT ![s] = "released"]
            /\ UNCHANGED <<sessionCount, mediaStarted>>
        BY <2>2 DEF FreeRemove, RemoveSession
      <3>2. Open' = Open /\ Counted' = Counted \ {s}
        BY <3>1 DEF Open, Counted, TypeOK, KvsTypeOK
      <3>3. IsFiniteSet(Counted')
        BY <3>2, FS_RemoveElement DEF CountInv
      <3> QED BY <3>1, <3>2, <3>3 DEF CountInv
    <2>3. CASE FreeClose(s) \/ FreeEnd(s)
      <3>1. Open' = Open /\ Counted' = Counted /\ UNCHANGED <<sessionCount, mediaStarted>>
        BY <2>3 DEF FreeClose, FreeEnd, ClosePeerConnection, FreePeerConnection, Open,
                    Counted, TypeOK, KvsTypeOK
      <3> QED BY <3>1 DEF CountInv
    <2> QED BY <1>2, <2>1, <2>2, <2>3 DEF FreeStep
  <1>3. ASSUME NEW s \in Sessions, NEW p \in Peers, NEW b \in BOOLEAN, Creates(s, p, b)
        PROVE  CountInv'
    <2>1. /\ stage[s] = "unused" /\ stage' = [stage EXCEPT ![s] = "open"]
          /\ sessionCount' = sessionCount + 1
      BY <1>3 DEF Creates, CreateSession
    <2>2. Open' = Open \cup {s} /\ Counted' = Counted /\ s \notin Open
      BY <2>1 DEF Open, Counted, TypeOK, KvsTypeOK
    <2>3. IsFiniteSet(Open') /\ Cardinality(Open') = Cardinality(Open) + 1
      BY <2>2, FS_AddElement DEF CountInv
    <2> QED BY <2>1, <2>2, <2>3 DEF CountInv, TypeOK, KvsTypeOK
  <1>4. ASSUME NEW s \in Sessions, HandleOffer(s)
        PROVE  UNCHANGED <<stage, sessionCount, mediaStarted>>
    BY <1>4 DEF HandleOffer
  <1>5. ASSUME NEW s \in Sessions, SdkStep(s) \/ WatchdogStep(s)
        PROVE  UNCHANGED <<stage, sessionCount, mediaStarted>>
    BY <1>5 DEF SdkStep, WatchdogStep, SdkConnected, SdkEnded, WatchdogDecides,
                WatchdogEvicts
  <1>6. ASSUME NEW s \in Sessions, NEW t \in Threads, StateCallback(s, t)
        PROVE  UNCHANGED <<stage, sessionCount, mediaStarted>>
    BY <1>6 DEF StateCallback, AnnounceConnected, RaiseConnected, ExchangeAnnounced,
                RaiseDisconnected, kvsButAt
  <1>7. UNCHANGED <<kvsVars, announced, balance>> =>
          UNCHANGED <<stage, sessionCount, mediaStarted>>
    BY DEF kvsVars
  <1> QED BY <1>1, <1>2, <1>3, <1>4, <1>5, <1>6, <1>7, StepKinds

-----------------------------------------------------------------------------
(***************************************************************************)
(* The callbacks.                                                          *)
(***************************************************************************)

\* Threads that the model names.
LEMMA ThreadNames == "sdk" \in Threads /\ "watchdog" \in Threads /\ "closer" \in Threads
  BY DEF Threads

\* The inductive step of PlaceInv.
LEMMA PlaceStep ==
  ASSUME TypeOK, RegInv, ActiveInv, PlaceInv, [Next]_vars
  PROVE  PlaceInv'
  <1>1. CASE UNCHANGED <<stage, at>>
    BY <1>1 DEF PlaceInv
  <1>2. ASSUME NEW s \in Sessions, NEW t \in Threads, StateCallback(s, t)
        PROVE  PlaceInv'
    <2>1. UNCHANGED stage /\ at[s][t] # "idle"
      BY <1>2 DEF StateCallback, AnnounceConnected, RaiseConnected, ExchangeAnnounced,
                  RaiseDisconnected, kvsButAt
    <2>2. \/ t = "sdk" /\ at' = [at EXCEPT ![s][t] = "announced"]
          \/ at' = [at EXCEPT ![s][t] = "idle"]
          \/ at' = [at EXCEPT ![s][t] = "owing"]
      BY <1>2 DEF StateCallback, AnnounceConnected, RaiseConnected, ExchangeAnnounced,
                  RaiseDisconnected, PlaceInv, Threads, Ending
    <2>3. PICK v \in {"announced", "idle", "owing"} :
            at' = [at EXCEPT ![s][t] = v] /\ (v = "announced" => t = "sdk")
      BY <2>2
    <2>4. \A x \in Sessions, u \in Threads :
            at'[x][u] = IF x = s /\ u = t THEN v ELSE at[x][u]
      BY <2>3 DEF TypeOK, KvsTypeOK
    <2> QED BY <2>1, <2>3, <2>4, ThreadNames DEF PlaceInv, Ending
  <1>3. ASSUME NEW s \in Sessions, SdkStep(s) PROVE PlaceInv'
    <2>1. UNCHANGED stage /\ stage[s] \in {"open", "counted", "released"}
      BY <1>3 DEF SdkStep, SdkConnected, SdkEnded
    <2>2. PICK v : at' = [at EXCEPT ![s]["sdk"] = v]
      BY <1>3 DEF SdkStep, SdkConnected, SdkEnded, HandleEnded
    <2>3. \A x \in Sessions, u \in Threads :
            at'[x][u] = IF x = s /\ u = "sdk" THEN v ELSE at[x][u]
      BY <2>2, ThreadNames DEF TypeOK, KvsTypeOK
    <2> QED BY <2>1, <2>3, ThreadNames DEF PlaceInv
  <1>4. ASSUME NEW s \in Sessions, WatchdogStep(s) PROVE PlaceInv'
    <2>1. CASE WatchdogDecides(s)
      <3>1. stage[s] \in {"open", "counted"}
        BY <2>1, NoneAssumption DEF WatchdogDecides, ActiveInv
      <3> QED BY <2>1, <3>1 DEF WatchdogDecides, PlaceInv, TypeOK, KvsTypeOK, Threads,
                                Ending
    <2>2. CASE WatchdogEvicts(s)
      BY <2>2 DEF WatchdogEvicts, HandleEnded, PlaceInv, TypeOK, KvsTypeOK, Threads, Ending
    <2> QED BY <1>4, <2>1, <2>2 DEF WatchdogStep
  <1>5. ASSUME NEW s \in Sessions, FreeStep(s) PROVE PlaceInv'
    <2>1. CASE FreeBegin(s) \/ FreeRemove(s)
      BY <2>1 DEF FreeBegin, FreeRemove, UncountSession, RemoveSession, StatsUnlocked,
                  PlaceInv, TypeOK, KvsTypeOK, Threads, Ending
    <2>2. CASE FreeClose(s)
      BY <2>2 DEF FreeClose, ClosePeerConnection, HandleEnded, PlaceInv, TypeOK, KvsTypeOK,
                  Threads, Ending
    <2>3. CASE FreeEnd(s)
      BY <2>3 DEF FreeEnd, FreePeerConnection, PlaceInv, TypeOK, KvsTypeOK, Threads, Ending
    <2> QED BY <1>5, <2>1, <2>2, <2>3 DEF FreeStep
  <1>6. ASSUME NEW s \in Sessions, NEW p \in Peers, NEW b \in BOOLEAN, Creates(s, p, b)
        PROVE  PlaceInv'
    BY <1>6 DEF Creates, CreateSession, PlaceInv, TypeOK, KvsTypeOK, Threads, Ending
  <1>7. ASSUME NEW s \in Sessions, HandleOffer(s) PROVE UNCHANGED <<stage, at>>
    BY <1>7 DEF HandleOffer
  <1>8. UNCHANGED <<kvsVars, announced, balance>> => UNCHANGED <<stage, at>>
    BY DEF kvsVars
  <1> QED BY <1>1, <1>2, <1>3, <1>4, <1>5, <1>6, <1>7, <1>8, StepKinds

\* A session none of whose handlers moved keeps its events.
LEMMA EventKept ==
  ASSUME NEW x \in Sessions, EventOf(x),
         stage'[x] = stage[x] \/ stage'[x] # "unused",
         \A t \in Threads : at'[x][t] = at[x][t], sdk'[x] = sdk[x],
         disconnectDone'[x] = disconnectDone[x], announced'[x] = announced[x],
         balance'[x] = balance[x]
  PROVE  EventOf(x)'
  BY ThreadNames DEF EventOf, Owes, Num

\* The application's callback.
LEMMA CallbackEvents ==
  ASSUME TypeOK, PlaceInv, EventInv, NEW s \in Sessions, NEW t \in Threads,
         StateCallback(s, t)
  PROVE  EventOf(s)'
  <1>1. UNCHANGED <<stage, sdk, disconnectDone>>
    BY DEF StateCallback, AnnounceConnected, RaiseConnected, ExchangeAnnounced,
           RaiseDisconnected, kvsButAt
  <1>2. EventOf(s) /\ balance[s] \in Int /\ announced[s] \in BOOLEAN
    BY DEF EventInv, TypeOK
  <1>3. t # "sdk" => at[s][t] \in {"idle", "decided"} \cup Ending
    BY DEF PlaceInv, Threads
  <1>4. CASE AnnounceConnected(s, t)
    <2>1. /\ announced'[s] = TRUE /\ balance'[s] = balance[s] /\ at[s][t] = "connected"
          /\ \A u \in Threads : at'[s][u] = IF u = t THEN "announced" ELSE at[s][u]
      BY <1>4 DEF AnnounceConnected, TypeOK, KvsTypeOK
    <2>2. t = "sdk"
      BY <1>3, <2>1 DEF Ending
    <2>3. ~Owes(s) /\ ~Owes(s)' /\ ~announced[s]
      BY <1>2, <2>1, <2>2 DEF EventOf, Owes
    <2> QED BY <1>1, <1>2, <2>1, <2>2, <2>3, ThreadNames DEF EventOf, Num, Ending
  <1>5. CASE RaiseConnected(s, t)
    <2>1. /\ announced'[s] = announced[s] /\ balance'[s] = balance[s] + 1
          /\ at[s][t] = "announced"
          /\ \A u \in Threads : at'[s][u] = IF u = t THEN "idle" ELSE at[s][u]
      BY <1>5 DEF RaiseConnected, TypeOK, KvsTypeOK
    <2>2. t = "sdk"
      BY <1>3, <2>1 DEF Ending
    <2>3. Owes(s)' <=> Owes(s)
      BY <2>1 DEF Owes
    <2> QED BY <1>1, <1>2, <2>1, <2>2, <2>3, ThreadNames DEF EventOf, Num, Ending
  <1>6. CASE ExchangeAnnounced(s, t) /\ announced[s]
    <2>1. /\ announced'[s] = FALSE /\ balance'[s] = balance[s] /\ at[s][t] = "ended"
          /\ \A u \in Threads : at'[s][u] = IF u = t THEN "owing" ELSE at[s][u]
      BY <1>6 DEF ExchangeAnnounced, TypeOK, KvsTypeOK
    <2>2. Owes(s)' /\ ~Owes(s)
      BY <1>2, <1>6, <2>1 DEF EventOf, Owes
    <2>3. (at'[s]["sdk"] = "announced") <=> (at[s]["sdk"] = "announced")
      BY <2>1, ThreadNames
    <2>4. /\ sdk[s] \notin {"none", "new"} /\ at'[s]["sdk"] # "connected"
          /\ \A u \in Threads : at'[s][u] \in Ending <=> at[s][u] \in Ending
      BY <1>2, <1>6, <2>1, ThreadNames DEF EventOf, Ending
    <2> QED BY <1>1, <1>2, <1>6, <2>1, <2>2, <2>3, <2>4, ThreadNames DEF EventOf, Num
  <1>7. CASE ExchangeAnnounced(s, t) /\ ~announced[s]
    <2>1. /\ announced'[s] = FALSE /\ balance'[s] = balance[s] /\ at[s][t] = "ended"
          /\ \A u \in Threads : at'[s][u] = IF u = t THEN "idle" ELSE at[s][u]
      BY <1>7 DEF ExchangeAnnounced, TypeOK, KvsTypeOK
    <2>2. Owes(s)' <=> Owes(s)
      BY <2>1 DEF Owes
    <2>3. (at'[s]["sdk"] = "announced") <=> (at[s]["sdk"] = "announced")
      BY <2>1, ThreadNames
    <2> QED BY <1>1, <1>2, <1>7, <2>1, <2>2, <2>3, ThreadNames DEF EventOf, Num, Ending
  <1>8. CASE RaiseDisconnected(s, t)
    <2>1. /\ announced'[s] = announced[s] /\ balance'[s] = balance[s] - 1
          /\ at[s][t] = "owing"
          /\ \A u \in Threads : at'[s][u] = IF u = t THEN "idle" ELSE at[s][u]
      BY <1>8 DEF RaiseDisconnected, TypeOK, KvsTypeOK
    <2>2. Owes(s) /\ ~Owes(s)'
      BY <1>2, <2>1 DEF EventOf, Owes, Ending
    <2>3. (at'[s]["sdk"] = "announced") <=> (at[s]["sdk"] = "announced")
      BY <2>1, ThreadNames
    <2> QED BY <1>1, <1>2, <2>1, <2>2, <2>3, ThreadNames DEF EventOf, Num, Ending
  <1> QED BY <1>4, <1>5, <1>6, <1>7, <1>8 DEF StateCallback

\* onConnectionStateChangeHandler() with the end of the connection, on a thread
\* that was in no callback of the application's.
LEMMA EndedEvents ==
  ASSUME TypeOK, EventInv, NEW s \in Sessions, NEW t \in Threads, HandleEnded(s, t),
         at[s][t] \in {"idle", "decided"},
         UNCHANGED <<announced, balance>>,
         stage'[s] # "unused",
         sdk'[s] \in {"none", "new"} => sdk[s] \in {"none", "new"}
  PROVE  EventOf(s)'
  <1>1. /\ disconnectDone'[s] = TRUE
        /\ \A u \in Threads :
             at'[s][u] = IF u = t THEN (IF disconnectDone[s] THEN "idle" ELSE "ended")
                                  ELSE at[s][u]
    BY DEF HandleEnded, TypeOK, KvsTypeOK
  <1>2. EventOf(s)
    BY DEF EventInv
  <1>3. Owes(s)' <=> Owes(s)
    BY <1>1 DEF Owes
  <1>4. /\ (at'[s]["sdk"] = "announced") <=> (at[s]["sdk"] = "announced")
        /\ at'[s]["sdk"] = "connected" => at[s]["sdk"] = "connected"
    BY <1>1, ThreadNames
  <1>5. \A u, w \in Threads : at'[s][u] \in Ending /\ at'[s][w] \in Ending => u = w
    BY <1>1, <1>2 DEF EventOf, Ending
  <1> QED BY <1>1, <1>2, <1>3, <1>4, <1>5 DEF EventOf, Num

\* The inductive step of EventInv.
LEMMA EventStep ==
  ASSUME TypeOK, RegInv, ActiveInv, PlaceInv, EventInv, [Next]_vars
  PROVE  EventInv'
  <1>0. ASSUME NEW s \in Sessions, EventOf(s)',
               \A x \in Sessions : x # s =>
                  /\ stage'[x] = stage[x] /\ sdk'[x] = sdk[x] /\ at'[x] = at[x]
                  /\ disconnectDone'[x] = disconnectDone[x]
                  /\ announced'[x] = announced[x] /\ balance'[x] = balance[x]
        PROVE  EventInv'
    BY <1>0, EventKept DEF EventInv
  <1>1. ASSUME NEW s \in Sessions, NEW t \in Threads, StateCallback(s, t)
        PROVE  EventInv'
    <2>1. EventOf(s)'
      BY <1>1, CallbackEvents
    <2>2. \A x \in Sessions : x # s =>
             /\ stage'[x] = stage[x] /\ sdk'[x] = sdk[x] /\ at'[x] = at[x]
             /\ disconnectDone'[x] = disconnectDone[x]
             /\ announced'[x] = announced[x] /\ balance'[x] = balance[x]
      BY <1>1 DEF StateCallback, AnnounceConnected, RaiseConnected, ExchangeAnnounced,
                  RaiseDisconnected, kvsButAt, TypeOK, KvsTypeOK
    <2> QED BY <1>0, <2>1, <2>2
  <1>2. ASSUME NEW s \in Sessions, SdkConnected(s), UNCHANGED appVars PROVE EventInv'
    <2>1. /\ sdk[s] = "new" /\ sdk'[s] = "connected" /\ at[s]["sdk"] = "idle"
          /\ \A u \in Threads : at'[s][u] = IF u = "sdk" THEN "connected" ELSE at[s][u]
          /\ UNCHANGED <<stage, disconnectDone, announced, balance>>
      BY <1>2, ThreadNames DEF SdkConnected, appVars, TypeOK, KvsTypeOK
    <2>2. \A x \in Sessions : x # s => sdk'[x] = sdk[x] /\ at'[x] = at[x]
      BY <1>2 DEF SdkConnected, TypeOK, KvsTypeOK
    <2>3. EventOf(s)
      BY DEF EventInv
    <2>4. ~Owes(s) /\ ~Owes(s)' /\ ~announced[s]
      BY <2>1, <2>3 DEF EventOf, Owes
    <2>5. at'[s]["sdk"] = "connected" /\ stage[s] # "unused"
      BY <1>2, <2>1, ThreadNames DEF SdkConnected
    <2>6. EventOf(s)'
      BY <2>1, <2>3, <2>4, <2>5 DEF EventOf, Num, Ending
    <2> QED BY <1>0, <2>1, <2>2, <2>6
  <1>3. ASSUME NEW s \in Sessions, NEW t \in Threads, HandleEnded(s, t),
               at[s][t] \in {"idle", "decided"}, UNCHANGED <<announced, balance>>,
               stage'[s] # "unused",
               \A x \in Sessions : x # s => stage'[x] = stage[x] /\ sdk'[x] = sdk[x],
               sdk'[s] \in {"none", "new"} => sdk[s] \in {"none", "new"}
        PROVE  EventInv'
    <2>1. EventOf(s)'
      BY <1>3, EndedEvents
    <2>2. \A x \in Sessions : x # s =>
             at'[x] = at[x] /\ disconnectDone'[x] = disconnectDone[x]
      BY <1>3 DEF HandleEnded, TypeOK, KvsTypeOK
    <2> QED BY <1>0, <1>3, <2>1, <2>2
  <1>4. ASSUME NEW s \in Sessions, SdkEnded(s), UNCHANGED appVars PROVE EventInv'
    <2>1. /\ HandleEnded(s, "sdk") /\ at[s]["sdk"] = "idle" /\ stage'[s] # "unused"
          /\ UNCHANGED <<stage, announced, balance>>
          /\ sdk'[s] = "ended" /\ \A x \in Sessions : x # s => sdk'[x] = sdk[x]
      BY <1>4 DEF SdkEnded, appVars, TypeOK, KvsTypeOK
    <2> QED BY <1>3, <2>1, ThreadNames
  <1>5. ASSUME NEW s \in Sessions, WatchdogDecides(s), UNCHANGED appVars PROVE EventInv'
    <2>1. /\ at[s]["watchdog"] = "idle"
          /\ \A u \in Threads : at'[s][u] = IF u = "watchdog" THEN "decided" ELSE at[s][u]
          /\ UNCHANGED <<stage, disconnectDone, sdk, announced, balance>>
      BY <1>5, ThreadNames DEF WatchdogDecides, StatsUnlocked, appVars, TypeOK, KvsTypeOK
    <2>2. \A x \in Sessions : x # s => at'[x] = at[x]
      BY <1>5 DEF WatchdogDecides, TypeOK, KvsTypeOK
    <2>3. EventOf(s)
      BY DEF EventInv
    <2>4. Owes(s)' <=> Owes(s)
      BY <2>1 DEF Owes
    <2>5. at'[s]["sdk"] = at[s]["sdk"]
      BY <2>1, ThreadNames
    <2>6. EventOf(s)'
      BY <2>1, <2>3, <2>4, <2>5 DEF EventOf, Num, Ending
    <2> QED BY <1>0, <2>1, <2>2, <2>6
  <1>6. ASSUME NEW s \in Sessions, WatchdogEvicts(s), UNCHANGED appVars PROVE EventInv'
    <2>1. /\ HandleEnded(s, "watchdog") /\ at[s]["watchdog"] = "decided"
          /\ UNCHANGED <<stage, sdk, announced, balance>>
      BY <1>6 DEF WatchdogEvicts, appVars
    <2>2. stage[s] # "unused"
      BY <2>1, ThreadNames DEF PlaceInv
    <2> QED BY <1>3, <2>1, <2>2, ThreadNames
  <1>7. ASSUME NEW s \in Sessions, FreeStep(s) PROVE EventInv'
    <2>1. CASE FreeClose(s)
      <3>1. /\ HandleEnded(s, "closer") /\ stage[s] = "released"
            /\ UNCHANGED <<announced, balance>>
            /\ sdk'[s] = "closed" /\ stage'[s] = "closed"
            /\ \A x \in Sessions : x # s => stage'[x] = stage[x] /\ sdk'[x] = sdk[x]
        BY <2>1 DEF FreeClose, ClosePeerConnection, appVars, TypeOK, KvsTypeOK
      <3>2. at[s]["closer"] = "idle"
        BY <3>1 DEF PlaceInv
      <3> QED BY <1>3, <3>1, <3>2, ThreadNames
    <2>2. CASE FreeBegin(s) \/ FreeRemove(s) \/ FreeEnd(s)
      <3>1. /\ UNCHANGED <<at, sdk, disconnectDone, announced, balance>>
            /\ stage'[s] # "unused" /\ \A x \in Sessions : x # s => stage'[x] = stage[x]
        BY <2>2 DEF FreeBegin, FreeRemove, FreeEnd, UncountSession, RemoveSession,
                    FreePeerConnection, appVars, TypeOK, KvsTypeOK
      <3>2. EventOf(s)'
        BY <3>1, EventKept DEF EventInv
      <3> QED BY <1>0, <3>1, <3>2
    <2> QED BY <1>7, <2>1, <2>2 DEF FreeStep
  <1>8. ASSUME NEW s \in Sessions, UNCHANGED <<at, disconnectDone, announced, balance>>,
               sdk[s] \in {"none", "new"}, sdk'[s] \in {"none", "new"},
               stage'[s] # "unused",
               \A x \in Sessions : x # s => stage'[x] = stage[x] /\ sdk'[x] = sdk[x]
        PROVE  EventInv'
    <2>1. EventOf(s)'
      BY <1>8 DEF EventInv, EventOf, Owes, Num
    <2> QED BY <1>0, <1>8, <2>1
  <1>9. ASSUME NEW s \in Sessions, NEW p \in Peers, NEW b \in BOOLEAN, Creates(s, p, b)
        PROVE  EventInv'
    <2>1. /\ UNCHANGED <<at, disconnectDone, announced, balance>>
          /\ stage[s] = "unused" /\ sdk'[s] \in {"none", "new"} /\ stage'[s] # "unused"
          /\ \A x \in Sessions : x # s => stage'[x] = stage[x] /\ sdk'[x] = sdk[x]
      BY <1>9 DEF Creates, CreateSession, TypeOK, KvsTypeOK
    <2>2. sdk[s] = "none"
      BY <2>1 DEF EventInv, EventOf
    <2> QED BY <1>8, <2>1, <2>2
  <1>10. ASSUME NEW s \in Sessions, HandleOffer(s), stage[s] # "unused",
                UNCHANGED <<announced, balance>>
         PROVE  EventInv'
    <2>1. /\ UNCHANGED <<at, disconnectDone, stage>>
          /\ \A x \in Sessions : x # s => sdk'[x] = sdk[x]
          /\ sdk'[s] = IF sdk[s] = "none" THEN "new" ELSE sdk[s]
      BY <1>10 DEF HandleOffer, TypeOK, KvsTypeOK
    <2>2. CASE sdk[s] = "none"
      BY <1>8, <1>10, <2>1, <2>2
    <2>3. CASE sdk[s] # "none"
      BY <1>10, <2>1, <2>3, EventKept DEF EventInv
    <2> QED BY <2>2, <2>3
  <1>11. CASE UNCHANGED <<kvsVars, announced, balance>>
    BY <1>11, EventKept DEF EventInv, kvsVars
  <1> QED BY <1>1, <1>2, <1>4, <1>5, <1>6, <1>7, <1>9, <1>10, <1>11, StepKinds
          DEF SdkStep, WatchdogStep

-----------------------------------------------------------------------------
(***************************************************************************)
(* The types, and the queues of early candidates.                          *)
(***************************************************************************)

\* The types of what the client keeps of a session.
LEMMA KvsTypeStep ==
  ASSUME TypeOK, RegInv, ActiveInv, [Next]_vars
  PROVE  KvsTypeOK'
  <1>0. at \in [Sessions -> [Threads -> Places]]
    BY DEF TypeOK, KvsTypeOK
  <1>7. ASSUME NEW s \in Sessions, NEW t \in Threads, HandleEnded(s, t)
        PROVE  /\ at' \in [Sessions -> [Threads -> Places]]
               /\ disconnectDone' \in [Sessions -> BOOLEAN]
               /\ terminated' \in [Sessions -> BOOLEAN]
    <2>1. \E v \in Places : at' = [at EXCEPT ![s][t] = v]
      BY <1>7 DEF HandleEnded, Places
    <2>2. at' \in [Sessions -> [Threads -> Places]]
      BY <1>0, <2>1
    <2>3. disconnectDone' \in [Sessions -> BOOLEAN]
      BY <1>7 DEF HandleEnded, TypeOK, KvsTypeOK
    <2>4. \E b \in BOOLEAN : terminated' = [terminated EXCEPT ![s] = b]
      BY <1>7 DEF HandleEnded
    <2>5. terminated' \in [Sessions -> BOOLEAN]
      BY <2>4 DEF TypeOK, KvsTypeOK
    <2> QED BY <2>2, <2>3, <2>5
  <1>1. ASSUME NEW s \in Sessions, NEW t \in Threads, StateCallback(s, t)
        PROVE  KvsTypeOK'
    <2>1. UNCHANGED kvsButAt
      BY <1>1 DEF StateCallback, AnnounceConnected, RaiseConnected, ExchangeAnnounced,
                  RaiseDisconnected
    <2>2. \E v \in Places : at' = [at EXCEPT ![s][t] = v]
      BY <1>1 DEF StateCallback, AnnounceConnected, RaiseConnected, ExchangeAnnounced,
                  RaiseDisconnected, Places
    <2> QED BY <1>0, <2>1, <2>2 DEF kvsButAt, TypeOK, KvsTypeOK
  <1>2. ASSUME NEW s \in Sessions, SdkStep(s) \/ WatchdogStep(s) PROVE KvsTypeOK'
    <2>1. CASE SdkConnected(s)
      <3>1. at' = [at EXCEPT ![s]["sdk"] = "connected"] /\ "connected" \in Places
        BY <2>1 DEF SdkConnected, Places
      <3>2. at' \in [Sessions -> [Threads -> Places]]
        BY <1>0, <3>1, ThreadNames
      <3> QED BY <2>1, <3>2 DEF SdkConnected, TypeOK, KvsTypeOK, SdkStates
    <2>2. CASE SdkEnded(s)
      BY <1>7, <2>2, ThreadNames DEF SdkEnded, TypeOK, KvsTypeOK, SdkStates
    <2>3. CASE WatchdogDecides(s)
      <3>1. at' = [at EXCEPT ![s]["watchdog"] = "decided"] /\ "decided" \in Places
        BY <2>3 DEF WatchdogDecides, Places
      <3>2. at' \in [Sessions -> [Threads -> Places]]
        BY <1>0, <3>1, ThreadNames
      <3> QED BY <2>3, <3>2 DEF WatchdogDecides, TypeOK, KvsTypeOK
    <2>4. CASE WatchdogEvicts(s)
      BY <1>7, <2>4, ThreadNames DEF WatchdogEvicts, TypeOK, KvsTypeOK
    <2> QED BY <1>2, <2>1, <2>2, <2>3, <2>4 DEF SdkStep, WatchdogStep
  <1>3. ASSUME NEW s \in Sessions, FreeStep(s) PROVE KvsTypeOK'
    <2>1. CASE FreeBegin(s)
      <3>1. /\ stage' \in [Sessions -> Stages]
            /\ UNCHANGED <<peerOf, initiator, disconnectDone, active, sdk, at>>
        BY <2>1, ZenonT(60) DEF FreeBegin, UncountSession, TypeOK, KvsTypeOK, Stages
      <3>4. sessionCount' \in Nat
        BY <2>1 DEF FreeBegin, UncountSession, TypeOK, KvsTypeOK
      <3>3. terminated' \in [Sessions -> BOOLEAN]
        BY <2>1 DEF FreeBegin, UncountSession, TypeOK, KvsTypeOK
      <3>2. mediaStarted' \in BOOLEAN
        BY <2>1 DEF FreeBegin, UncountSession, TypeOK, KvsTypeOK
      <3> QED BY <3>1, <3>2, <3>3, <3>4 DEF TypeOK, KvsTypeOK
    <2>2. CASE FreeRemove(s)
      BY <2>2 DEF FreeRemove, RemoveSession, TypeOK, KvsTypeOK, Stages
    <2>3. CASE FreeClose(s)
      BY <1>7, <2>3, ThreadNames DEF FreeClose, ClosePeerConnection, TypeOK, KvsTypeOK,
                                     Stages, SdkStates
    <2>4. CASE FreeEnd(s)
      BY <2>4 DEF FreeEnd, FreePeerConnection, TypeOK, KvsTypeOK, Stages
    <2> QED BY <1>3, <2>1, <2>2, <2>3, <2>4 DEF FreeStep
  <1>4. ASSUME NEW s \in Sessions, NEW p \in Peers, NEW b \in BOOLEAN, Creates(s, p, b)
        PROVE  KvsTypeOK'
    <2>1. mediaStarted' \in BOOLEAN
      BY <1>4 DEF Creates, CreateSession, TypeOK, KvsTypeOK
    <2> QED BY <1>4, <2>1 DEF Creates, CreateSession, TypeOK, KvsTypeOK, Stages, SdkStates
  <1>5. ASSUME NEW s \in Sessions, HandleOffer(s) PROVE KvsTypeOK'
    BY <1>5 DEF HandleOffer, TypeOK, KvsTypeOK, SdkStates
  <1>6. CASE UNCHANGED <<kvsVars, announced, balance>>
    BY <1>6 DEF kvsVars, TypeOK, KvsTypeOK
  <1> QED BY <1>1, <1>2, <1>3, <1>4, <1>5, <1>6, StepKinds

\* The part of TypeOK that is about the registry and its users.
RegType ==
  /\ slots \in [Slots -> Sessions \cup {None}]
  /\ count \in 0..MaxStreams
  /\ hash \in [Peers -> Sessions \cup {None}]
  /\ sig \in [pc : SigPlaces, peer : Peers \cup {None}, sess : Sessions \cup {None}]
  /\ reaping \in Sessions \cup {None}
  /\ api \in Sessions \cup {None}
  /\ phase \in Phases
  /\ tear \in Seq(Sessions)

\* The types of the table, the list and the teardown.
LEMMA RegTypeStep ==
  ASSUME TypeOK, RegInv, [Next]_vars
  PROVE  RegType'
  <1>0. RegType
    BY DEF RegType, TypeOK
  <1>1. ASSUME NEW p \in Peers, NewSession(p), UNCHANGED <<slots, count, hash>>
        PROVE  RegType'
    <2>1. UNCHANGED <<slots, count, hash, reaping, api, phase, tear>>
      BY <1>1 DEF NewSession, appButSig
    <2>2. sig' \in [pc : SigPlaces, peer : Peers \cup {None}, sess : Sessions \cup {None}]
      <3>1. CASE sig' = SigIdle
        BY <3>1 DEF SigIdle, SigPlaces
      <3>2. ASSUME NEW s \in Sessions,
                   sig' = [pc |-> "created", peer |-> p, sess |-> s]
            PROVE  sig' \in [pc : SigPlaces, peer : Peers \cup {None},
                             sess : Sessions \cup {None}]
        BY <3>2 DEF SigPlaces
      <3> QED BY <1>1, <3>1, <3>2 DEF NewSession
    <2> QED BY <1>0, <2>1, <2>2 DEF RegType
  <1>2. ASSUME NEW p \in Peers, FreshOffer(p) PROVE RegType'
    BY <1>1, <1>2 DEF FreshOffer, NewSession, appButSig
  <1>3. CASE OfferAfterReplace
    <2>1. sig.peer \in Peers /\ NewSession(sig.peer)
      BY <1>3 DEF OfferAfterReplace, RegInv, SigInv
    <2> QED BY <1>1, <2>1 DEF NewSession, appButSig
  <1>4. ASSUME NEW s \in Sessions, NEW p \in Peers, Register(s, p), count < MaxStreams
        PROVE  /\ slots' \in [Slots -> Sessions \cup {None}] /\ count' \in 0..MaxStreams
               /\ hash' \in [Peers -> Sessions \cup {None}]
    BY <1>0, <1>4, MaxStreamsAssumption DEF Register, RegType, Slots
  <1>5. CASE SendOffer \/ SubmitFails \/ OfferFailed
    BY <1>0, <1>5 DEF SendOffer, SubmitFails, OfferFailed, appButSig, RegType, SigIdle,
                      SigPlaces
  <1>6. CASE Publish
    <2>1. sig.sess \in Sessions /\ sig.peer \in Peers /\ count < MaxStreams
      BY <1>6 DEF Publish, RegInv, SigInv
    <2>2. /\ Register(sig.sess, sig.peer) /\ sig' = SigIdle
          /\ UNCHANGED <<reaping, api, phase, tear>>
      BY <1>6 DEF Publish
    <2> QED BY <1>0, <1>4, <2>1, <2>2 DEF RegType, SigIdle, SigPlaces
  <1>7. ASSUME NEW p \in Peers, TriggerOffer(p) PROVE RegType'
    <2>1. UNCHANGED <<sig, reaping, phase, tear>>
      BY <1>7 DEF TriggerOffer, appButRegistry
    <2>2. CASE UNCHANGED <<slots, count, hash>>
      BY <1>0, <1>7, <2>1, <2>2 DEF TriggerOffer, RegType
    <2>3. CASE ~UNCHANGED <<slots, count, hash>>
      <3>1. PICK s \in Sessions : Register(s, p) /\ api' = s /\ count < MaxStreams
        BY <1>7, <2>3 DEF TriggerOffer
      <3> QED BY <1>0, <1>4, <2>1, <3>1 DEF RegType
    <2> QED BY <2>2, <2>3
  <1>8. ASSUME NEW p \in Peers, ReplaceTerminated(p) PROVE RegType'
    <2>1. /\ hash' = [hash EXCEPT ![p] = None] /\ UnlistBySwap(hash[p]) /\ hash[p] \in Sessions
          /\ sig' = [pc |-> "replace", peer |-> p, sess |-> hash[p]]
          /\ UNCHANGED <<reaping, api, phase, tear>>
      BY <1>0, <1>8 DEF ReplaceTerminated, RegType
    <2>2. slots' \in [Slots -> Sessions \cup {None}] /\ count' \in 0..MaxStreams
      <3>1. hash[p] \in Listed => count > 0
        BY <1>0, MaxStreamsAssumption DEF Listed, RegType
      <3>2. count > 0 => count - 1 \in Slots
        BY <1>0, MaxStreamsAssumption DEF Slots, RegType
      <3>3. count' \in 0..MaxStreams
        BY <1>0, <2>1, <3>1, MaxStreamsAssumption DEF UnlistBySwap, RegType
      <3>4. ASSUME NEW i \in Slots PROVE slots'[i] \in Sessions \cup {None}
        BY <1>0, <2>1, <3>2, MaxStreamsAssumption DEF UnlistBySwap, RegType, Slots
      <3> QED BY <2>1, <3>3, <3>4 DEF UnlistBySwap
    <2>3. hash' \in [Peers -> Sessions \cup {None}]
      BY <1>0, <2>1 DEF RegType
    <2>4. sig' \in [pc : SigPlaces, peer : Peers \cup {None}, sess : Sessions \cup {None}]
      BY <2>1 DEF SigPlaces
    <2> QED BY <1>0, <2>1, <2>2, <2>3, <2>4 DEF RegType
  <1>9. CASE CleanupTakes
    <2>1. UNCHANGED <<sig, api, tear>>
      BY <1>9 DEF CleanupTakes
    <2> QED BY <1>0, <1>9, <2>1, TakesReg DEF RegType
  <1>10. CASE CleanupDone \/ CleanupLeaves
    BY <1>0, <1>10 DEF CleanupDone, CleanupLeaves, RegType, Phases
  <1>11. CASE TeardownStep
    <2>1. tear' \in Seq(Sessions)
      BY <1>11, TeardownReg
    <2>2. slots' \in [Slots -> Sessions \cup {None}] /\ count' \in 0..MaxStreams
      BY <1>0, <1>11, MaxStreamsAssumption
         DEF TeardownStep, TeardownClears, TeardownDetaches, TeardownNext, TeardownEnds,
             RegType
    <2>3. /\ hash' \in [Peers -> Sessions \cup {None}] /\ phase' \in Phases
          /\ UNCHANGED <<sig, reaping, api>>
      BY <1>0, <1>11
         DEF TeardownStep, TeardownClears, TeardownDetaches, TeardownNext, TeardownEnds,
             RegType, Phases
    <2> QED BY <1>0, <2>1, <2>2, <2>3 DEF RegType
  <1>12. CASE Aside
    <2>1. UNCHANGED registry
      BY <1>12, AsideKeeps
    <2>2. api' \in Sessions \cup {None}
      BY <1>0, <1>12 DEF RegType, Aside, StateCallback, AnnounceConnected, RaiseConnected,
           ExchangeAnnounced, RaiseDisconnected, appButEvents, SdkStep, WatchdogStep,
           appVars, Renegotiate, Answer, IceCandidate, Expire, CleanupIdle,
           CloseAllSessions, TriggerOfferReturns, Down, vars
    <2> QED BY <1>0, <2>1, <2>2 DEF RegType, registry
  <1>13. ASSUME NEW s \in Sessions, FreeStep(s) PROVE RegType'
    BY <1>0, <1>13 DEF FreeStep, FreeBegin, FreeRemove, FreeClose, FreeEnd, appVars, RegType
  <1> QED BY <1>2, <1>3, <1>5, <1>6, <1>7, <1>8, <1>9, <1>10, <1>11, <1>12, <1>13
          DEF Next, Aside, Message, CleanupStep, OfferStep

\* The rest: the queues and the flags.
FlagType ==
  /\ pending \subseteq Peers /\ expired \subseteq pending
  /\ terminateFlag \in [Sessions -> BOOLEAN]
  /\ announced \in [Sessions -> BOOLEAN]
  /\ balance \in [Sessions -> Int]

\* The types of the flags, the counters and the balance.
LEMMA FlagTypeStep ==
  ASSUME TypeOK, [Next]_vars
  PROVE  FlagType'
  <1>0. FlagType
    <2>1. \A s \in Sessions : balance[s] \in Int
      BY DEF TypeOK
    <2>2. balance \in [Sessions -> Int]
      BY <2>1 DEF TypeOK
    <2> QED BY <2>2 DEF FlagType, TypeOK
  <1>1. ASSUME NEW s \in Sessions, NEW t \in Threads, StateCallback(s, t)
        PROVE  FlagType'
    <2>1. CASE AnnounceConnected(s, t)
      BY <1>0, <2>1 DEF AnnounceConnected, appButEvents, FlagType
    <2>2. CASE RaiseConnected(s, t)
      BY <1>0, <2>2 DEF RaiseConnected, appButEvents, FlagType
    <2>3. CASE ExchangeAnnounced(s, t)
      BY <1>0, <2>3 DEF ExchangeAnnounced, appButEvents, FlagType
    <2>4. CASE RaiseDisconnected(s, t)
      BY <1>0, <2>4 DEF RaiseDisconnected, appButEvents, FlagType
    <2> QED BY <1>1, <2>1, <2>2, <2>3, <2>4 DEF StateCallback
  <1>2. ASSUME NEW s \in Sessions, FreeStep(s) \/ SdkStep(s) \/ WatchdogStep(s)
        PROVE  FlagType'
    BY <1>0, <1>2 DEF FreeStep, FreeBegin, FreeRemove, FreeClose, FreeEnd, SdkStep,
                      WatchdogStep, appVars, FlagType
  <1>3. ASSUME NEW p \in Peers, Message(p) \/ Expire(p) \/ TriggerOffer(p)
        PROVE  FlagType'
    BY <1>0, <1>3 DEF Message, Renegotiate, ReplaceTerminated, FreshOffer, NewSession, Answer,
                      IceCandidate, Expire, TriggerOffer, appButSig, appButRegistry, vars,
                      appVars, FlagType
  <1>4. CASE OfferStep
    BY <1>0, <1>4 DEF OfferStep, OfferAfterReplace, NewSession, SendOffer, SubmitFails,
                      Publish, OfferFailed, appButSig, FlagType
  <1>5. CASE CleanupStep \/ CleanupLeaves \/ TeardownStep
    BY <1>0, <1>5 DEF CleanupStep, CleanupTakes, CleanupDone, CleanupIdle, CleanupLeaves,
                      RemoveExpired, TeardownStep, TeardownClears, TeardownDetaches,
                      TeardownNext, TeardownEnds, FlagType
  <1>6. CASE CloseAllSessions
    <2>1. /\ terminateFlag' = [s \in Sessions |-> terminateFlag[s] \/ s \in Listed]
          /\ UNCHANGED <<pending, expired, announced, balance>>
      BY <1>6 DEF CloseAllSessions
    <2>2. terminateFlag' \in [Sessions -> BOOLEAN]
      BY <2>1
    <2> QED BY <1>0, <2>1, <2>2 DEF FlagType
  <1>7. CASE TriggerOfferReturns \/ Down \/ UNCHANGED vars
    BY <1>0, <1>7 DEF TriggerOfferReturns, Down, appButRegistry, vars, appVars, FlagType
  <1> QED BY <1>1, <1>2, <1>3, <1>4, <1>5, <1>6, <1>7 DEF Next

\* Every step keeps TypeOK.
LEMMA TypeStep ==
  ASSUME TypeOK, RegInv, ActiveInv, EventInv', [Next]_vars
  PROVE  TypeOK'
  <1>1. KvsTypeOK' /\ RegType' /\ FlagType'
    BY KvsTypeStep, RegTypeStep, FlagTypeStep
  <1>2. \A s \in Sessions : balance'[s] \in -1..1
    BY DEF EventInv, EventOf, Num
  <1>3. balance' \in [Sessions -> -1..1]
    BY <1>1, <1>2 DEF FlagType
  <1> QED BY <1>1, <1>3 DEF TypeOK, RegType, FlagType

-----------------------------------------------------------------------------
(***************************************************************************)
(* Early candidates.                                                       *)
(***************************************************************************)

\* A session keeps its role.
LEMMA RoleKept ==
  ASSUME TypeOK, RegInv, ActiveInv, [Next]_vars, NEW s \in Sessions, stage[s] # "unused"
  PROVE  initiator'[s] = initiator[s]
  <1>1. CASE UNCHANGED initiator
    BY <1>1
  <1>2. ASSUME NEW x \in Sessions, NEW p \in Peers, NEW b \in BOOLEAN, Creates(x, p, b)
        PROVE  initiator'[s] = initiator[s]
    <2>1. x # s /\ initiator' = [initiator EXCEPT ![x] = b]
      BY <1>2 DEF Creates, CreateSession
    <2> QED BY <2>1 DEF TypeOK, KvsTypeOK
  <1>3. UNCHANGED initiator \/ \E x \in Sessions, p \in Peers, b \in BOOLEAN : Creates(x, p, b)
    <2>1. ASSUME NEW x \in Sessions, NEW t \in Threads, StateCallback(x, t)
          PROVE  UNCHANGED initiator
      BY <2>1 DEF StateCallback, AnnounceConnected, RaiseConnected, ExchangeAnnounced,
                  RaiseDisconnected, kvsButAt
    <2>2. ASSUME NEW x \in Sessions, FreeStep(x) \/ SdkStep(x) \/ WatchdogStep(x)
          PROVE  UNCHANGED initiator
      BY <2>2 DEF FreeStep, FreeBegin, FreeRemove, FreeClose, FreeEnd, UncountSession,
                  RemoveSession, ClosePeerConnection, FreePeerConnection, SdkStep,
                  SdkConnected, SdkEnded, WatchdogStep, WatchdogDecides, WatchdogEvicts
    <2> QED BY <2>1, <2>2, StepKinds DEF HandleOffer, kvsVars
  <1> QED BY <1>1, <1>2, <1>3

\* What a step does to a peer's entry in the table and to its queue.
LEMMA EntryStep ==
  ASSUME TypeOK, RegInv, [Next]_vars, NEW q \in Peers
  PROVE  \/ hash'[q] = None
         \/ q \notin pending'
         \/ hash'[q] \in Sessions /\ initiator'[hash'[q]]
         \/ hash[q] # None /\ hash'[q] = hash[q] /\ (q \in pending' => q \in pending)
  <1> DEFINE Goal ==
        \/ hash'[q] = None
        \/ q \notin pending'
        \/ hash'[q] \in Sessions /\ initiator'[hash'[q]]
        \/ hash[q] # None /\ hash'[q] = hash[q] /\ (q \in pending' => q \in pending)
  <1>1. CASE UNCHANGED hash /\ pending' \subseteq pending
    BY <1>1
  <1>2. ASSUME NEW p \in Peers, Message(p) \/ Expire(p) PROVE Goal
    <2>1. CASE IceCandidate(p)
      BY <2>1 DEF IceCandidate
    <2>2. CASE ReplaceTerminated(p)
      <3>1. hash' = [hash EXCEPT ![p] = None] /\ pending' = pending
        BY <2>2 DEF ReplaceTerminated
      <3> QED BY <3>1 DEF TypeOK
    <2>3. CASE FreshOffer(p) \/ Renegotiate(p) \/ Answer(p) \/ Expire(p)
      <3>1. UNCHANGED hash /\ pending' \subseteq pending
        BY <2>3 DEF FreshOffer, NewSession, appButSig, Renegotiate, vars, appVars, Answer, Expire
      <3> QED BY <3>1
    <2> QED BY <1>2, <2>1, <2>2, <2>3 DEF Message
  <1>3. ASSUME NEW p \in Peers, TriggerOffer(p) PROVE Goal
    <2>1. CASE UNCHANGED hash
      BY <1>3, <2>1 DEF TriggerOffer, appButRegistry
    <2>2. ASSUME NEW s \in Sessions, CreateSession(s, p, TRUE), Register(s, p) PROVE Goal
      <3>1. hash' = [hash EXCEPT ![p] = s] /\ initiator' = [initiator EXCEPT ![s] = TRUE]
        BY <2>2 DEF CreateSession, Register
      <3>2. CASE q = p
        <4>1. hash'[q] = s
          BY <3>1, <3>2 DEF TypeOK
        <4>2. initiator'[s]
          BY <3>1 DEF TypeOK, KvsTypeOK
        <4> QED BY <4>1, <4>2
      <3>3. CASE q # p
        <4>1. hash'[q] = hash[q]
          BY <3>1, <3>3 DEF TypeOK
        <4>2. UNCHANGED pending
          BY <1>3 DEF TriggerOffer, appButRegistry
        <4> QED BY <4>1, <4>2
      <3> QED BY <3>2, <3>3
    <2> QED BY <1>3, <2>1, <2>2 DEF TriggerOffer
  <1>4. CASE Publish
    <2>1. /\ sig.peer \in Peers /\ pending' = pending \ {sig.peer}
          /\ hash' = [hash EXCEPT ![sig.peer] = sig.sess]
      BY <1>4 DEF Publish, Register, RegInv, SigInv
    <2> QED BY <2>1 DEF TypeOK
  <1>5. CASE OfferAfterReplace \/ SendOffer \/ SubmitFails \/ OfferFailed
    <2>1. UNCHANGED hash /\ pending' \subseteq pending
      BY <1>5 DEF OfferAfterReplace, NewSession, SendOffer, SubmitFails, OfferFailed, appButSig
    <2> QED BY <2>1
  <1>6. CASE CleanupTakes
    <2>1. UNCHANGED pending
      BY <1>6 DEF CleanupTakes
    <2>2. UNCHANGED hash \/ \E p : hash' = [hash EXCEPT ![p] = None]
      BY <1>6 DEF CleanupTakes, Reap
    <2> QED BY <2>1, <2>2 DEF TypeOK
  <1>7. CASE CleanupDone \/ CleanupIdle \/ CleanupLeaves
    BY <1>1, <1>7 DEF CleanupDone, CleanupIdle, CleanupLeaves, RemoveExpired
  <1>8. CASE TeardownStep
    BY <1>1, <1>8 DEF TeardownStep, TeardownClears, TeardownDetaches, TeardownNext, TeardownEnds
  <1>9. ASSUME NEW s \in Sessions, NEW t \in Threads, StateCallback(s, t) PROVE Goal
    BY <1>1, <1>9 DEF StateCallback, AnnounceConnected, RaiseConnected, ExchangeAnnounced,
                      RaiseDisconnected, appButEvents
  <1>10. ASSUME NEW s \in Sessions, FreeStep(s) \/ SdkStep(s) \/ WatchdogStep(s) PROVE Goal
    BY <1>1, <1>10 DEF FreeStep, FreeBegin, FreeRemove, FreeClose, FreeEnd, SdkStep,
                       WatchdogStep, appVars
  <1>11. CASE CloseAllSessions \/ TriggerOfferReturns \/ Down \/ UNCHANGED vars
    BY <1>1, <1>11 DEF CloseAllSessions, TriggerOfferReturns, Down, appButRegistry, vars, appVars
  <1> QED BY <1>2, <1>3, <1>4, <1>5, <1>6, <1>7, <1>8, <1>9, <1>10, <1>11
          DEF Next, OfferStep, CleanupStep

\* Early candidates never stay queued behind a registered session.
LEMMA CandidateStep ==
  ASSUME TypeOK, RegInv, ActiveInv, NoCandidateLeftBehind, [Next]_vars
  PROVE  NoCandidateLeftBehind'
  <1> SUFFICES ASSUME NEW q \in Peers, hash'[q] # None, ~initiator'[hash'[q]]
      PROVE q \notin pending'
    BY DEF NoCandidateLeftBehind
  <1>1. CASE hash[q] # None /\ hash'[q] = hash[q] /\ (q \in pending' => q \in pending)
    <2>1. hash[q] \in Sessions /\ stage[hash[q]] # "unused"
      BY <1>1 DEF TypeOK, RegInv, ListInv
    <2>2. ~initiator[hash[q]]
      BY <1>1, <2>1, RoleKept
    <2> QED BY <1>1, <2>2 DEF NoCandidateLeftBehind
  <1> QED BY <1>1, EntryStep

-----------------------------------------------------------------------------
(***************************************************************************)
(* The theorems.                                                           *)
(***************************************************************************)

\* The invariant holds in the initial states.
LEMMA InitInv ==
  ASSUME Init
  PROVE  IInv
  <1>1. TypeOK
    <2>1. KvsTypeOK
      BY DEF Init, KvsInit, KvsTypeOK, Stages, SdkStates, Places
    <2>2. slots \in [Slots -> Sessions \cup {None}] /\ count \in 0..MaxStreams
      BY MaxStreamsAssumption DEF Init
    <2>3. balance \in [Sessions -> -1..1]
      BY DEF Init
    <2> QED BY <2>1, <2>2, <2>3 DEF Init, TypeOK, SigIdle, SigPlaces, Phases
  <1>2. RegInv
    <2>1. Live = {} /\ sig.pc = "idle" /\ reaping = None /\ tear = <<>> /\ Receiving
      BY DEF Init, Live, SigIdle, Receiving
    <2>2. \A s \in Sessions : stage[s] = "unused"
      BY DEF Init, KvsInit
    <2>3. \A p \in Peers : hash[p] = None
      BY DEF Init
    <2>4. phase = "run"
      BY DEF Init
    <2>5. 1..Len(tear) = {}
      BY <2>1
    <2> QED BY <2>1, <2>2, <2>3, <2>4, <2>5
            DEF RegInv, LockInv, ListInv, SigInv, ReapInv, TearInv, OwnerInv
  <1>3. ActiveInv
    BY DEF Init, KvsInit, ActiveInv
  <1>4. CountInv
    <2>1. Open = {} /\ Counted = {}
      BY DEF Init, KvsInit, Open, Counted
    <2> QED BY <2>1, FS_EmptySet DEF Init, KvsInit, CountInv
  <1>5. PlaceInv
    BY DEF Init, KvsInit, PlaceInv, Threads, Ending
  <1>6. EventInv
    <2> SUFFICES ASSUME NEW s \in Sessions PROVE EventOf(s)
      BY DEF EventInv
    <2>1. /\ stage[s] = "unused" /\ sdk[s] = "none" /\ ~announced[s] /\ balance[s] = 0
          /\ announced[s] = FALSE
          /\ \A t \in Threads : at[s][t] = "idle"
      BY DEF Init, KvsInit
    <2>2. at[s]["sdk"] = "idle" /\ ~Owes(s)
      BY <2>1 DEF Threads, Owes
    <2>3. Num(announced[s]) = 0 /\ Num(Owes(s)) = 0 /\ Num(at[s]["sdk"] = "announced") = 0
      BY <2>1, <2>2 DEF Num
    <2> QED BY <2>1, <2>2, <2>3 DEF EventOf, Ending
  <1>7. NoCandidateLeftBehind
    BY DEF Init, NoCandidateLeftBehind
  <1> QED BY <1>1, <1>2, <1>3, <1>4, <1>5, <1>6, <1>7 DEF IInv

\* Every step keeps the invariant.
LEMMA NextInv ==
  ASSUME IInv, [Next]_vars
  PROVE  IInv'
  <1>1. RegInv' /\ ActiveInv' /\ CountInv' /\ PlaceInv' /\ EventInv'
    BY RegStep, ActiveStep, CountStep, PlaceStep, EventStep DEF IInv
  <1>2. TypeOK' /\ NoCandidateLeftBehind'
    BY <1>1, TypeStep, CandidateStep DEF IInv
  <1> QED BY <1>1, <1>2 DEF IInv

\* The invariant holds in every behaviour.
LEMMA Inductive ==
  Spec => []IInv
  <1>1. Init => IInv
    BY InitInv
  <1>2. IInv /\ [Next]_vars => IInv'
    BY NextInv
  <1> QED BY <1>1, <1>2, PTL DEF Spec

\* Every variable of the session code keeps its type: streamingSessionCount stays
\* within webrtcSessionList, and a session is reported connected at most once.
THEOREM TypeCorrect ==
  Spec => []TypeOK
  <1>1. IInv => TypeOK
    BY DEF IInv
  <1> QED BY <1>1, Inductive, PTL

\* The list and the table register the same sessions, and freeAppWebRTCSession()
\* runs at most once for each, by a thread that alone can reach it.
THEOREM RegistryCorrect ==
  Spec => []RegistrySound
  <1>1. ASSUME IInv PROVE RegistryAgrees
    <2>1. ASSUME Receiving, NEW i \in Live
          PROVE  /\ slots[i] \in Sessions /\ stage[slots[i]] = "open"
                 /\ hash[peerOf[slots[i]]] = slots[i]
                 /\ \A j \in Live : slots[i] = slots[j] => i = j
      BY <1>1, <2>1 DEF IInv, RegInv, ListInv
    <2>2. ASSUME NEW p \in Peers, hash[p] # None
          PROVE  hash[p] \in Listed /\ peerOf[hash[p]] = p
      BY <1>1, <2>2 DEF IInv, RegInv, ListInv, Listed, Live
    <2> QED BY <2>1, <2>2 DEF RegistryAgrees, Receiving, Live
  <1>2. ASSUME IInv PROVE OneReaper
    <2>0. TypeOK /\ RegInv
      BY <1>2 DEF IInv
    <2>1. DOMAIN Freeing = {"signal", "cleanup", "teardown"}
      BY DEF Freeing
    <2>2. /\ Freeing["signal"] # None => sig.pc # "idle"
          /\ Freeing["cleanup"] # None => reaping # None
          /\ Freeing["teardown"] # None => tear # <<>>
      BY DEF Freeing
    <2>3. /\ Freeing["signal"] = None \/ Freeing["cleanup"] = None
          /\ Freeing["signal"] = None \/ Freeing["teardown"] = None
          /\ Freeing["cleanup"] = None \/ Freeing["teardown"] = None
      BY <2>0, <2>2 DEF RegInv, LockInv, Receiving
    <2>4. \A th1, th2 \in DOMAIN Freeing :
            th1 # th2 /\ Freeing[th1] # None => Freeing[th1] # Freeing[th2]
      BY <2>1, <2>3
    <2>5. ASSUME NEW s \in Sessions, BeingFreed(s)
          PROVE  s \notin Listed /\ \A p \in Peers : hash[p] # s
      BY <2>0, <2>5, FreedIsOff DEF Listed, Live
    <2> QED BY <2>4, <2>5 DEF OneReaper
  <1>3. IInv => RegistrySound
    BY <1>1, <1>2 DEF RegistrySound
  <1> QED BY <1>3, Inductive, PTL

\* client->session_count is what activeSessions holds, and the media threads have
\* a session to feed.
THEOREM MediaCorrect ==
  Spec => []MediaFollowsSessions
  <1>1. ASSUME IInv PROVE MediaFollowsSessions
    <2> DEFINE Used == {p \in Peers : active[p] # None}
               f == [s \in Open \cup Counted |-> peerOf[s]]
    <2>0. TypeOK /\ RegInv /\ ActiveInv /\ CountInv
      BY <1>1 DEF IInv
    <2>1. \A s \in Open \cup Counted :
            s \in Sessions /\ peerOf[s] \in Peers /\ active[peerOf[s]] = s /\ s # None
      BY <2>0, NoneAssumption DEF Open, Counted, ActiveInv, RegInv, OwnerInv
    <2>2. f \in [Open \cup Counted -> Used]
      BY <2>1
    <2>3. IsInjective(f)
      BY <2>1 DEF IsInjective
    <2>4. \A p \in Used : \E s \in Open \cup Counted : f[s] = p
      <3> TAKE p \in Used
      <3>1. active[p] \in Sessions
        BY <2>0 DEF TypeOK, KvsTypeOK
      <3>2. active[p] \in Open \cup Counted /\ peerOf[active[p]] = p
        BY <2>0, <3>1 DEF ActiveInv, Open, Counted
      <3> QED BY <3>2
    <2>5. ExistsBijection(Open \cup Counted, Used)
      <3>1. f \in Bijection(Open \cup Counted, Used)
        BY <2>2, <2>3, <2>4 DEF Bijection, Injection, Surjection
      <3> QED BY <3>1 DEF ExistsBijection
    <2>6. IsFiniteSet(Open) /\ IsFiniteSet(Counted)
      BY <2>0 DEF CountInv
    <2>7. /\ IsFiniteSet(Open \cup Counted)
          /\ Cardinality(Open \cup Counted)
               = Cardinality(Open) + Cardinality(Counted) - Cardinality(Open \cap Counted)
      BY <2>6, FS_Union
    <2>8. Open \cap Counted = {} /\ Cardinality(Open \cap Counted) = 0
      BY FS_EmptySet DEF Open, Counted
    <2>9. Cardinality(Used) = Cardinality(Open \cup Counted)
      BY <2>5, <2>7, FS_Bijection
    <2>10. Cardinality(Open) \in Nat /\ Cardinality(Counted) \in Nat
      BY <2>6, FS_CardinalityType
    <2>11. sessionCount + Cardinality(Counted) = Cardinality(Used)
      BY <2>0, <2>7, <2>8, <2>9, <2>10 DEF CountInv
    <2>12. mediaStarted => sessionCount > 0
      BY <2>0 DEF CountInv
    <2> QED BY <2>11, <2>12 DEF MediaFollowsSessions, Counted
  <1> QED BY <1>1, Inductive, PTL

\* No callback of the SDK or the watchdog runs on a freed session, and between
\* callbacks the application was told CONNECTED exactly as often as it must have
\* been.
THEOREM CallbacksCorrect ==
  Spec => []CallbacksSound
  <1>1. ASSUME IInv PROVE NoCallbackAfterFree
    BY <1>1 DEF IInv, PlaceInv, NoCallbackAfterFree
  <1>2. ASSUME IInv PROVE EventsMatchFlag
    <2> SUFFICES ASSUME NEW s \in Sessions, \A t \in Threads : at[s][t] = "idle"
        PROVE balance[s] = IF announced[s] THEN 1 ELSE 0
      BY DEF EventsMatchFlag
    <2>1. ~Owes(s) /\ at[s]["sdk"] # "announced"
      BY DEF Owes, Threads
    <2>2. Num(Owes(s)) = 0 /\ Num(at[s]["sdk"] = "announced") = 0
      BY <2>1 DEF Num
    <2>3. balance[s] = Num(announced[s])
      BY <1>2, <2>2 DEF IInv, EventInv, EventOf, Num
    <2> QED BY <2>3 DEF Num
  <1>3. IInv => CallbacksSound
    BY <1>1, <1>2 DEF CallbacksSound
  <1> QED BY <1>3, Inductive, PTL

\* A registered viewer's early candidates are never left in the pending queue.
THEOREM CandidatesCorrect ==
  Spec => []NoCandidateLeftBehind
  <1>1. IInv => NoCandidateLeftBehind
    BY DEF IInv
  <1> QED BY <1>1, Inductive, PTL

\* A viewer that nobody marked stays: no step of another session's end, of the
\* cleanup loop or of the signaling thread destroys it.
THEOREM ViewerKept ==
  Spec => LiveViewerKept
  <1> DEFINE Kept ==
        \A s \in Sessions : stage[s] = "open" /\ stage'[s] # "open" =>
           \/ terminateFlag[s]
           \/ sig.pc = "failed" /\ sig.sess = s
           \/ phase = "detached"
  <1>1. ASSUME IInv, [Next]_vars PROVE [Kept]_vars
    <2>0. TypeOK /\ RegInv /\ ActiveInv
      BY <1>1 DEF IInv
    <2> SUFFICES ASSUME NEW s \in Sessions, stage[s] = "open", stage'[s] # "open"
        PROVE  \/ terminateFlag[s]
               \/ sig.pc = "failed" /\ sig.sess = s
               \/ phase = "detached"
      OBVIOUS
    <2>1. ASSUME NEW x \in Sessions, FreeStep(x) PROVE BeingFreed(s)
      <3>1. BeingFreed(x)
        BY <2>1 DEF FreeStep, FreeBegin, FreeRemove, FreeClose, FreeEnd
      <3>2. x # s => stage'[s] = stage[s]
        BY <2>0, <2>1 DEF FreeStep, FreeBegin, FreeRemove, FreeClose, FreeEnd, UncountSession,
                    RemoveSession, ClosePeerConnection, FreePeerConnection, TypeOK, KvsTypeOK
      <3> QED BY <3>1, <3>2
    <2>2. ASSUME NEW x \in Sessions, NEW p \in Peers, NEW b \in BOOLEAN, Creates(x, p, b)
          PROVE  FALSE
      BY <2>0, <2>2, CreateFacts DEF Creates
    <2>3. UNCHANGED stage \/ BeingFreed(s)
      <3>1. ASSUME NEW x \in Sessions, NEW t \in Threads, StateCallback(x, t)
            PROVE  UNCHANGED stage
        BY <3>1 DEF StateCallback, AnnounceConnected, RaiseConnected, ExchangeAnnounced,
                    RaiseDisconnected, kvsButAt
      <3>2. ASSUME NEW x \in Sessions, SdkStep(x) \/ WatchdogStep(x) PROVE UNCHANGED stage
        BY <3>2 DEF SdkStep, SdkConnected, SdkEnded, WatchdogStep, WatchdogDecides,
                    WatchdogEvicts
      <3> QED BY <1>1, <2>0, <2>1, <2>2, <3>1, <3>2, StepKinds DEF HandleOffer, kvsVars
    <2>4. BeingFreed(s) /\ s # None
      BY <2>3, NoneAssumption
    <2>5. \/ sig.pc \in {"replace", "failed"} /\ sig.sess = s
          \/ reaping = s
          \/ tear # <<>>
      BY <2>4 DEF BeingFreed, Freeing
    <2> QED BY <2>0, <2>4, <2>5 DEF RegInv, SigInv, ReapInv, LockInv
  <1>2. Spec => [][Kept]_vars
    BY <1>1, Inductive, PTL DEF Spec
  <1> QED BY <1>2 DEF LiveViewerKept

----------------------------------------------------------------------------
(***************************************************************************)
(* Theorems about AppLifecycle, for every set of contexts and of callers   *)
(* and both targets, for an application that does not initialise again     *)
(* before the last termination is over (with EagerInit the code itself     *)
(* breaks TerminateCompletes).                                             *)
(*                                                                         *)
(* The inductive invariant says that at most one run task is between its   *)
(* creation and its end, that the handle knows it or app_webrtc_run() is   *)
(* about to store it, and that no terminate tears down beside it.          *)
(***************************************************************************)

\* A run task from its creation up to the end of its teardown.
ActivePlaces == UsePlaces \cup {"exit", "finish"} \cup TeardownPlaces
Active(c) == pc[c] \in ActivePlaces

\* It still has its context, ...
HoldPlaces == UsePlaces \cup {"exit", "drain", "free", "context"}

\* ... or has freed it.
PastPlaces == {"uninit", "reset", "finish"}

\* A terminate that claimed the teardown.
Claims(k) == pc[k] \in TeardownPlaces \cup {"release"}

PcInv ==
  /\ \A k \in Callers : pc[k] \in CallerPlaces \cup TeardownPlaces
  /\ \A c \in Contexts : pc[c] \in TaskPlaces \cup TeardownPlaces
  /\ \A k \in Callers \ {Owner} : pc[k] \notin {"initctx", "run", "create", "created"}

\* There is one active task, gRunTaskDone is clear while it is, and the handle
\* is its own.  A task that is done is suspended before its handle goes.
TaskInv ==
  /\ \A c, d \in Contexts : Active(c) /\ Active(d) => c = d
  /\ \A c \in Contexts : Active(c) =>
       ~done /\ (handle = c \/ (pc[Owner] = "created" /\ goal[Owner] = c))
  /\ \A c \in Contexts : pc[c] \in UsePlaces => ~tearingDown
  /\ handle # NoOne =>
       Active(handle) \/ (~linux /\ done /\ pc[handle] \in {"finished", "parked"})
  /\ \A c \in Contexts : pc[c] = "finished" =>
       IF linux THEN ~initialized /\ \A d \in Contexts : ~Active(d)
                ELSE done /\ (handle = c \/ (pc[Owner] = "created" /\ goal[Owner] = c))

\* One terminate at a time claims the teardown, and none beside an active task.
ClaimInv ==
  /\ \A k, l \in Callers : Claims(k) /\ Claims(l) => k = l
  /\ \A k \in Callers : Claims(k) => busy /\ \A c \in Contexts : ~Active(c)

\* What init() and run() rely on in the middle.
TaskOwnerInv ==
  /\ Running \/ pc[Owner] = "initctx" => \A k \in Callers \ {Owner} : pc[k] = "idle"
  /\ pc[Owner] = "initctx" =>
       ~initialized /\ config = goal[Owner] /\ goal[Owner] \in Contexts
       /\ \A c \in Contexts : ~Alive(c)
  /\ Running =>
       goal[Owner] \in Contexts
       /\ (pc[goal[Owner]] = "none" => context = goal[Owner])
  /\ pc[Owner] \in {"create", "created"} => handle = NoOne
  /\ pc[Owner] = "created" =>
       ~linux /\ (Active(goal[Owner])
                  \/ (done /\ pc[goal[Owner]] \in {"finished", "parked"}))

\* Which context there is.
ContextInv ==
  /\ context = NoOne => allocated = {}
  /\ context # NoOne => initialized /\ allocated = {context} /\ config = context
  /\ \A c \in Contexts : pc[c] \in HoldPlaces => context = c
  /\ \A c \in Contexts : pc[c] \in PastPlaces => context = NoOne
  /\ \A c \in Contexts : pc[c] \in {"reset", "finish"} => ~initialized
  /\ \A k \in Callers : pc[k] \in {"uninit", "reset", "release"} => context = NoOne
  /\ \A c \in Contexts : pc[c] \in ClientPlaces => client = c

\* What a waiting terminate waits for is going on, or over.
GoalInv ==
  /\ \A k \in Callers : pc[k] \in {"alive", "wait", "wake"} =>
       goal[k] \notin allocated \/ (goal[k] \in Contexts /\ Active(goal[k]))
  /\ \A k \in Callers : pc[k] = "reap" => goal[k] \notin allocated

Holders == {"pass", "tail", "drowsy"}

\* The context lock, and the flag a terminate raised before it wakes the loop.
WakeInv ==
  /\ \A c \in Contexts : pc[c] \in Holders => objLock = c
  /\ \A k \in Callers : pc[k] \in {"term", "alive"} => ~woken[k]
  /\ \A k \in Callers, c \in Contexts :
       pc[k] \in {"wait", "wake"} /\ pc[c] \in UsePlaces => c \in terminate
  /\ \A k \in Callers, c \in Contexts :
       pc[k] = "wait" /\ woken[k] /\ pc[c] = "asleep" => notified
  /\ \A k \in Callers, c \in Contexts :
       pc[k] = "wait" /\ woken[k] => pc[c] # "drowsy"

SInv == PcInv /\ TaskInv /\ ClaimInv /\ TaskOwnerInv /\ ContextInv /\ GoalInv
LifeInv == AlTypeOK /\ SInv /\ WakeInv

-----------------------------------------------------------------------------
(***************************************************************************)
(* Types and names.                                                        *)
(***************************************************************************)

\* Callers and contexts do not overlap, so a step of one leaves the other's place.
LEMMA Names ==
  /\ Owner \in Callers /\ SigThread \in Callers
  /\ \A k \in Callers : k \in Actors /\ k \notin Contexts /\ k # NoOne
  /\ \A c \in Contexts : c \in Actors /\ c \notin Callers /\ c # NoOne
  BY ActorsAssumption DEF Callers, Actors

AllPlaces == CallerPlaces \cup TaskPlaces \cup TeardownPlaces

\* Every step keeps the types.
LEMMA LifeTypeStep ==
  ASSUME AlTypeOK, PcInv, TaskOwnerInv, [AlNext]_alVars
  PROVE  AlTypeOK'
  <1> USE Names
  <1>0. /\ pc \in [Actors -> AllPlaces] /\ woken \in [Callers -> BOOLEAN]
        /\ goal \in [Callers -> Contexts \cup {NoOne}]
    BY DEF AlTypeOK, AllPlaces
  <1>1. pc' \in [Actors -> AllPlaces]
    <2>1. ASSUME NEW a \in Actors, NEW v \in AllPlaces, pc' = [pc EXCEPT ![a] = v]
          PROVE  pc' \in [Actors -> AllPlaces]
      BY <1>0, <2>1
    <2>2. CASE RunCreate
      BY <1>0, <2>2 DEF RunCreate, At, Return, GoTo, TaskOwnerInv, Running, AllPlaces, CallerPlaces,
                        TaskPlaces
    <2>3. CASE RunCall \/ InitContext \/ RunCheck \/ RunReturns \/ \E c \in Contexts : InitCall(c)
      BY <2>1, <2>3 DEF RunCall, InitContext, RunCheck, RunReturns, InitCall, GoTo, Return,
                        AllPlaces, CallerPlaces
    <2>4. ASSUME NEW k \in Callers, TermCall(k) \/ TermStep(k) \/ TermTimesOut(k)
          PROVE  pc' \in [Actors -> AllPlaces]
      BY <2>1, <2>4 DEF TermCall, TermStep, TermTimesOut, TermClaim, TermRaise, WakeLock, WakeTry,
                        TermSees, TermReap, TermRelease, GoTo, Return, AllPlaces, CallerPlaces,
                        TeardownPlaces
    <2>5. ASSUME NEW a \in Actors, Teardown(a) PROVE pc' \in [Actors -> AllPlaces]
      BY <2>1, <2>5 DEF Teardown, Drain, FreeClients, FreeContext, Uninitialize, ResetState, GoTo,
                        AllPlaces, CallerPlaces, TaskPlaces, TeardownPlaces
    <2>6. ASSUME NEW c \in Contexts, TaskStep(c) \/ SignalingInit(c) \/ PassTerminates(c)
          PROVE  pc' \in [Actors -> AllPlaces]
      <3>1. UNCHANGED pc \/ \E v \in AllPlaces : pc' = [pc EXCEPT ![c] = v]
        BY <2>6 DEF TaskStep, SignalingInit, PassTerminates, Boot, InitGivesUp, SignalingReady,
                    FirstConnect, LoopTop, ReconnectStarts, ReconnectGoes, ReconnectEnds, Relock,
                    PassEnds, FallsAsleep, WakesUp, TaskExits, TaskFinishes, TaskParks, GoTo,
                    AllPlaces, TaskPlaces, TeardownPlaces
      <3> QED BY <1>0, <2>1, <3>1
    <2>7. CASE WorkerLocks \/ WorkerUnlocks \/ Rest \/ UNCHANGED alVars
      BY <1>0, <2>7 DEF WorkerLocks, WorkerUnlocks, Rest, alVars
    <2> QED BY <2>2, <2>3, <2>4, <2>5, <2>6, <2>7 DEF AlNext, OwnerStep
  <1>2. woken' \in [Callers -> BOOLEAN]
    <2>1. ASSUME NEW k \in Callers, TermCall(k) \/ TermStep(k) \/ TermTimesOut(k)
          PROVE  \E b \in BOOLEAN : woken' = [woken EXCEPT ![k] = b] \/ UNCHANGED woken
      <3>1. CASE WakeTry(k)
        BY <3>1 DEF WakeTry
      <3> QED BY <2>1, <3>1 DEF TermCall, TermStep, TermTimesOut, TermClaim, TermRaise, WakeLock,
                                TermSees, TermReap, TermRelease
    <2>2. \/ \E k \in Callers : TermCall(k) \/ TermStep(k) \/ TermTimesOut(k)
          \/ UNCHANGED woken
      BY DEF AlNext, OwnerStep, RunCall, InitContext, RunCheck, RunCreate, RunReturns, InitCall,
             Teardown, Drain, FreeClients, FreeContext, Uninitialize, ResetState, TaskStep,
             SignalingInit, PassTerminates, Boot, InitGivesUp, SignalingReady, FirstConnect,
             LoopTop, ReconnectStarts, ReconnectGoes, ReconnectEnds, Relock, PassEnds,
             FallsAsleep, WakesUp, TaskExits, TaskFinishes, TaskParks, WorkerLocks,
             WorkerUnlocks, Rest, taskOnly, alVars
    <2> QED BY <1>0, <2>1, <2>2
  <1>3. goal' \in [Callers -> Contexts \cup {NoOne}]
    <2>1. ASSUME NEW k \in Callers, TermCall(k) \/ TermStep(k) \/ TermTimesOut(k)
          PROVE  goal' \in [Callers -> Contexts \cup {NoOne}]
      BY <1>0, <2>1 DEF AlTypeOK, TermCall, TermStep, TermTimesOut, TermClaim, TermRaise,
                        WakeLock, WakeTry, TermSees, TermReap, TermRelease, Return
    <2>2. CASE RunCall \/ OwnerStep \/ \E c \in Contexts : InitCall(c)
      BY <1>0, <2>2 DEF AlTypeOK, OwnerStep, RunCall, InitContext, RunCheck, RunCreate,
                        RunReturns, InitCall, Return
    <2>3. \/ \E k \in Callers : TermCall(k) \/ TermStep(k) \/ TermTimesOut(k)
          \/ RunCall \/ OwnerStep \/ \E c \in Contexts : InitCall(c)
          \/ UNCHANGED goal
      BY DEF AlNext, Teardown, Drain, FreeClients, FreeContext, Uninitialize, ResetState,
             TaskStep, SignalingInit, PassTerminates, Boot, InitGivesUp, SignalingReady,
             FirstConnect, LoopTop, ReconnectStarts, ReconnectGoes, ReconnectEnds, Relock,
             PassEnds, FallsAsleep, WakesUp, TaskExits, TaskFinishes, TaskParks, WorkerLocks,
             WorkerUnlocks, Rest, taskOnly, alVars
    <2> QED BY <1>0, <2>1, <2>2, <2>3
  <1> DEFINE Rest1 ==
    /\ linux' \in BOOLEAN
    /\ initialized' \in BOOLEAN
    /\ tearingDown' \in BOOLEAN /\ done' \in BOOLEAN /\ busy' \in BOOLEAN
    /\ notified' \in BOOLEAN
  <1> DEFINE Rest2 ==
    /\ config' \in Contexts \cup {NoOne}
    /\ context' \in Contexts \cup {NoOne}
    /\ allocated' \subseteq Contexts
    /\ client' \in Contexts \cup {NoOne}
    /\ handle' \in Contexts \cup {NoOne}
    /\ terminate' \subseteq Contexts
    /\ reconnect' \subseteq Contexts
    /\ objLock' \in Actors \cup {NoOne}
    /\ runLock' \in Callers \cup {NoOne}
  <1>4. Rest1
    <2>1. CASE RunCall \/ OwnerStep \/ \E c \in Contexts : InitCall(c)
      BY <2>1 DEF AlTypeOK, OwnerStep, RunCall, InitContext, RunCheck, RunCreate, RunReturns,
                  InitCall, shared, flags, locks
    <2>2. ASSUME NEW k \in Callers, TermCall(k) \/ TermStep(k) \/ TermTimesOut(k)
          PROVE  Rest1
      <3>1. CASE WakeTry(k)
        BY <3>1 DEF WakeTry, AlTypeOK, shared, flags
      <3>2. CASE ~WakeTry(k)
        BY <2>2, <3>2 DEF AlTypeOK, TermCall, TermStep, TermTimesOut, TermClaim, TermRaise,
                          WakeLock, TermSees, TermReap, TermRelease, shared, flags, locks
      <3> QED BY <3>1, <3>2
    <2>3. ASSUME NEW a \in Actors, Teardown(a) PROVE Rest1
      BY <2>3 DEF AlTypeOK, Teardown, Drain, FreeClients, FreeContext, Uninitialize, ResetState,
                  shared, flags, locks
    <2>4. ASSUME NEW c \in Contexts, TaskStep(c) \/ SignalingInit(c) \/ PassTerminates(c)
          PROVE  Rest1
      BY <2>4 DEF AlTypeOK, TaskStep, SignalingInit, PassTerminates, Boot, InitGivesUp,
                  SignalingReady, FirstConnect, LoopTop, ReconnectStarts, ReconnectGoes,
                  ReconnectEnds, Relock, PassEnds, FallsAsleep, WakesUp, TaskExits,
                  TaskFinishes, TaskParks, taskOnly, shared, flags, locks
    <2>5. CASE WorkerLocks \/ WorkerUnlocks \/ Rest \/ UNCHANGED alVars
      BY <2>5 DEF AlTypeOK, WorkerLocks, WorkerUnlocks, Rest, alVars, shared, flags, locks
    <2> QED BY <2>1, <2>2, <2>3, <2>4, <2>5 DEF AlNext
  <1>5. Rest2
    <2>1. CASE RunCall \/ OwnerStep \/ \E c \in Contexts : InitCall(c)
      BY <2>1 DEF AlTypeOK, OwnerStep, RunCall, InitContext, RunCheck, RunCreate, RunReturns, InitCall,
         shared, flags, locks, TaskOwnerInv, Running, At, Reaped
    <2>2. ASSUME NEW k \in Callers, TermCall(k) \/ TermStep(k) \/ TermTimesOut(k)
          PROVE  Rest2
      BY <2>2 DEF AlTypeOK, TermCall, TermStep, TermTimesOut, TermClaim, TermRaise, WakeLock, WakeTry,
         TermSees, TermReap, TermRelease, shared, flags, locks, Raise, Reaped
    <2>3. ASSUME NEW a \in Actors, Teardown(a) PROVE Rest2
      BY <2>3 DEF AlTypeOK, Teardown, Drain, FreeClients, FreeContext, Uninitialize, ResetState,
         shared, flags, locks
    <2>4. ASSUME NEW c \in Contexts, TaskStep(c) \/ SignalingInit(c) \/ PassTerminates(c)
          PROVE  Rest2
      BY <2>4 DEF AlTypeOK, TaskStep, SignalingInit, PassTerminates, Boot, InitGivesUp, SignalingReady,
         FirstConnect, LoopTop, ReconnectStarts, ReconnectGoes, ReconnectEnds, Relock,
         PassEnds, FallsAsleep, WakesUp, TaskExits, TaskFinishes, TaskParks, taskOnly, shared, flags,
         locks, Raise
    <2>5. CASE WorkerLocks \/ WorkerUnlocks \/ Rest \/ UNCHANGED alVars
      BY <2>5 DEF AlTypeOK, WorkerLocks, WorkerUnlocks, Rest, alVars, shared, flags, locks
    <2> QED BY <2>1, <2>2, <2>3, <2>4, <2>5 DEF AlNext
  <1> QED BY <1>1, <1>2, <1>3, <1>4, <1>5 DEF AlTypeOK, AllPlaces

-----------------------------------------------------------------------------
(***************************************************************************)
(* The structure: who is active, who claims, which context there is.       *)
(***************************************************************************)

structure == <<linux, shared, flags, pc, goal>>

\* A step that changes no place, goal or flag keeps the structure.
LEMMA StructureKept ==
  ASSUME SInv, UNCHANGED structure
  PROVE  SInv'
  BY DEF SInv, PcInv, TaskInv, ClaimInv, TaskOwnerInv, ContextInv, GoalInv, structure, shared, flags,
         Active, Claims, Running, Alive

\* A run task goes on, up to the point where it leaves its loop.
LEMMA TaskMoves ==
  ASSUME AlTypeOK, SInv, NEW c \in Contexts, NEW v \in UsePlaces \cup {"exit"},
         pc[c] \in UsePlaces, pc' = [pc EXCEPT ![c] = v],
         UNCHANGED <<linux, initialized, config, context, allocated, flags, goal>>,
         \/ client' = c
         \/ UNCHANGED client /\ (v \in ClientPlaces => pc[c] \in ClientPlaces)
  PROVE  SInv'
  <1> USE Names
  <1>1. /\ pc'[c] = v /\ \A a \in Actors : a # c => pc'[a] = pc[a]
        /\ \A k \in Callers : pc'[k] = pc[k]
        /\ v \in ActivePlaces /\ pc[c] \in ActivePlaces
        /\ v \notin {"none", "parked", "finished"} /\ pc[c] \notin {"none", "parked", "finished"}
        /\ v \in HoldPlaces /\ pc[c] \in HoldPlaces /\ v \notin PastPlaces
    BY DEF AlTypeOK, ActivePlaces, HoldPlaces, PastPlaces, UsePlaces
  <1>2. \A d \in Contexts : Active(d)' <=> Active(d)
    BY <1>1 DEF Active
  <1>3. UNCHANGED <<handle, done, tearingDown, busy>>
    BY DEF flags
  <1>4. PcInv'
    BY <1>1 DEF SInv, PcInv, UsePlaces, TaskPlaces
  <1>5. TaskInv'
    BY <1>1, <1>2, <1>3 DEF SInv, TaskInv, Active
  <1>6. ClaimInv'
    BY <1>1, <1>2, <1>3 DEF SInv, ClaimInv, Claims
  <1>7. TaskOwnerInv'
    <2>1. Alive(c) /\ pc[Owner] # "initctx"
      BY <1>1 DEF Alive, SInv, TaskOwnerInv
    <2>2. \A a \in Actors : pc'[a] = "none" <=> pc[a] = "none"
      BY <1>1
    <2> QED BY <1>1, <1>2, <1>3, <2>1, <2>2 DEF SInv, TaskOwnerInv, Running, Active
  <1>8. ContextInv'
    <2>1. \A d \in Contexts : pc[d] \in ClientPlaces => Active(d)
      BY DEF Active, ActivePlaces, ClientPlaces
    <2>2. \A d \in Contexts : pc'[d] \in ClientPlaces => client' = d
      BY <1>1, <2>1 DEF SInv, TaskInv, ContextInv, Active
    <2> QED BY <1>1, <2>2 DEF SInv, ContextInv, PastPlaces
  <1>9. GoalInv'
    BY <1>1, <1>2 DEF SInv, GoalInv
  <1> QED BY <1>4, <1>5, <1>6, <1>7, <1>8, <1>9 DEF SInv

\* An active run task is alone: no other task, no terminate's teardown, no init().
LEMMA Alone ==
  ASSUME SInv, NEW c \in Contexts, Active(c)
  PROVE  /\ Alive(c) /\ ~done /\ pc[Owner] # "initctx"
         /\ \A d \in Contexts : d # c => ~Active(d)
         /\ \A k \in Callers : ~Claims(k)
         /\ \A d \in Contexts : pc[d] = "finished" => ~linux /\ done
  <1>1. Alive(c)
    BY DEF Alive, Active, ActivePlaces, UsePlaces, TeardownPlaces
  <1> QED BY <1>1 DEF SInv, TaskInv, ClaimInv, TaskOwnerInv

\* So is a terminate that claimed the teardown.
LEMMA Claimant ==
  ASSUME SInv, NEW k \in Callers, Claims(k)
  PROVE  /\ ~Running /\ pc[Owner] # "initctx" /\ busy
         /\ \A c \in Contexts : ~Active(c)
         /\ \A l \in Callers : l # k => ~Claims(l)
  <1>1. pc[k] \notin {"idle", "initctx", "run", "create", "created"}
    BY DEF Claims, TeardownPlaces
  <1> QED BY <1>1, Names DEF SInv, ClaimInv, TaskOwnerInv, Running

\* The run task claims its teardown, ends it, and is suspended or deleted.
LEMMA TaskEnds ==
  ASSUME AlTypeOK, SInv, NEW c \in Contexts,
         TaskExits(c) \/ TaskFinishes(c) \/ TaskParks(c)
  PROVE  SInv'
  <1> USE Names
  <1>1. CASE TaskExits(c)
    <2>1. /\ pc[c] = "exit" /\ pc'[c] = "drain" /\ \A a \in Actors : a # c => pc'[a] = pc[a]
          /\ \A k \in Callers : pc'[k] = pc[k]
          /\ tearingDown' = TRUE /\ UNCHANGED <<linux, shared, handle, done, busy, goal>>
      BY <1>1 DEF TaskExits, At, GoTo, AlTypeOK
    <2>2. UNCHANGED <<initialized, config, context, allocated, client>>
      BY <2>1 DEF shared
    <2>3. Active(c) /\ \A d \in Contexts : Active(d)' <=> Active(d)
      BY <2>1 DEF Active, ActivePlaces, TeardownPlaces
    <2>4. \A d \in Contexts : d # c => ~Active(d)
      BY <2>3, Alone
    <2>5. pc[Owner] # "initctx"
      BY <2>3, Alone
    <2>6. PcInv'
      BY <2>1 DEF SInv, PcInv, TeardownPlaces
    <2>7. TaskInv'
      <3>1. \A d \in Contexts : pc'[d] \notin UsePlaces
        BY <2>1, <2>4 DEF Active, ActivePlaces, UsePlaces
      <3>2. handle # NoOne => handle \in Contexts /\ Active(handle)
        BY <2>3, Alone DEF SInv, TaskInv, AlTypeOK
      <3>3. \A d \in Contexts : pc'[d] = "finished" => pc[d] = "finished"
        BY <2>1
      <3> QED BY <2>1, <2>2, <2>3, <3>1, <3>2, <3>3 DEF SInv, TaskInv
    <2>8. ClaimInv'
      BY <2>1, <2>3 DEF SInv, ClaimInv, Claims
    <2>9. TaskOwnerInv'
      BY <2>1, <2>2, <2>3, <2>5 DEF SInv, TaskOwnerInv, Running, Active
    <2>10. ContextInv'
      BY <2>1, <2>2 DEF SInv, ContextInv, HoldPlaces, PastPlaces, ClientPlaces, UsePlaces
    <2>11. GoalInv'
      BY <2>1, <2>2, <2>3 DEF SInv, GoalInv
    <2> QED BY <2>6, <2>7, <2>8, <2>9, <2>10, <2>11 DEF SInv
  <1>2. CASE TaskFinishes(c)
    <2>1. /\ pc[c] = "finish" /\ pc'[c] = "finished"
          /\ \A a \in Actors : a # c => pc'[a] = pc[a]
          /\ \A k \in Callers : pc'[k] = pc[k]
          /\ handle' = IF linux THEN NoOne ELSE handle
          /\ done' = (IF linux THEN done ELSE TRUE)
          /\ UNCHANGED <<linux, shared, tearingDown, busy, goal>>
      BY <1>2 DEF TaskFinishes, At, GoTo, AlTypeOK
    <2>2. UNCHANGED <<initialized, config, context, allocated, client>>
      BY <2>1 DEF shared
    <2>3. Active(c) /\ ~Active(c)' /\ \A d \in Contexts : d # c => (Active(d)' <=> Active(d))
      BY <2>1 DEF Active, ActivePlaces, TeardownPlaces, UsePlaces
    <2>4. /\ \A d \in Contexts : ~Active(d)'
          /\ pc[Owner] # "initctx" /\ ~done
          /\ \A d \in Contexts : pc[d] # "finished"
      BY <2>3, Alone
    <2>5. ~initialized /\ context = NoOne /\ allocated = {}
      BY <2>1 DEF SInv, ContextInv, PastPlaces
    <2>6. PcInv'
      BY <2>1 DEF SInv, PcInv, TaskPlaces
    <2>7. TaskInv'
      <3>1. \A d \in Contexts : pc'[d] \notin UsePlaces
        BY <2>4 DEF Active, ActivePlaces
      <3>2. handle = c \/ (pc[Owner] = "created" /\ goal[Owner] = c)
        BY <2>3 DEF SInv, TaskInv
      <3>3. pc[Owner] = "created" => ~linux /\ handle = NoOne
        BY DEF SInv, TaskOwnerInv
      <3>4. CASE linux
        BY <2>1, <2>2, <2>4, <2>5, <3>1, <3>2, <3>4 DEF TaskInv
      <3>5. CASE ~linux
        <4>1. handle \in {c, NoOne}
          BY <3>2, <3>3
        <4> QED BY <2>1, <2>2, <2>4, <3>1, <3>2, <3>5, <4>1 DEF TaskInv
      <3> QED BY <3>4, <3>5
    <2>8. ClaimInv'
      BY <2>1, <2>4 DEF SInv, ClaimInv, Claims
    <2>9. TaskOwnerInv'
      <3>1. pc[Owner] = "created" => goal[Owner] = c /\ ~linux
        BY <2>3, <2>4 DEF SInv, TaskInv, TaskOwnerInv
      <3> QED BY <2>1, <2>2, <2>3, <2>4, <3>1 DEF SInv, TaskOwnerInv, Running
    <2>10. ContextInv'
      BY <2>1, <2>2 DEF SInv, ContextInv, HoldPlaces, PastPlaces, ClientPlaces, UsePlaces
    <2>11. GoalInv'
      BY <2>1, <2>2, <2>5 DEF SInv, GoalInv
    <2> QED BY <2>6, <2>7, <2>8, <2>9, <2>10, <2>11 DEF SInv
  <1>3. CASE TaskParks(c)
    <2>1. /\ pc[c] = "finished" /\ pc'[c] = "parked"
          /\ \A a \in Actors : a # c => pc'[a] = pc[a]
          /\ \A k \in Callers : pc'[k] = pc[k]
          /\ done' = TRUE
          /\ UNCHANGED <<linux, shared, handle, tearingDown, busy, goal>>
      BY <1>3 DEF TaskParks, At, GoTo, AlTypeOK
    <2>2. UNCHANGED <<initialized, config, context, allocated, client>>
      BY <2>1 DEF shared
    <2>3. \A d \in Contexts : Active(d)' <=> Active(d)
      BY <2>1 DEF Active, ActivePlaces, TeardownPlaces, UsePlaces
    <2>4. \A d \in Contexts : ~Active(d)
      BY <2>1, Alone DEF SInv, TaskInv
    <2>5. ~Alive(c)'
      BY <2>1 DEF Alive
    <2>6. PcInv'
      BY <2>1 DEF SInv, PcInv, TaskPlaces
    <2>7. TaskInv'
      <3>1. \A d \in Contexts : pc'[d] \notin UsePlaces
        BY <2>3, <2>4 DEF Active, ActivePlaces
      <3>2. handle # NoOne => handle \in Contexts /\ ~linux /\ pc[handle] \in {"finished", "parked"}
        BY <2>4 DEF SInv, TaskInv, AlTypeOK
      <3> QED BY <2>1, <2>2, <2>3, <2>4, <3>1, <3>2 DEF SInv, TaskInv
    <2>8. ClaimInv'
      BY <2>1, <2>3 DEF SInv, ClaimInv, Claims
    <2>9. TaskOwnerInv'
      <3>1. \A d \in Contexts : Alive(d)' => Alive(d)
        BY <2>1, <2>5 DEF Alive
      <3> QED BY <2>1, <2>2, <2>3, <2>4, <3>1 DEF SInv, TaskOwnerInv, Running
    <2>10. ContextInv'
      BY <2>1, <2>2 DEF SInv, ContextInv, HoldPlaces, PastPlaces, ClientPlaces, UsePlaces
    <2>11. GoalInv'
      BY <2>1, <2>2, <2>3 DEF SInv, GoalInv
    <2> QED BY <2>6, <2>7, <2>8, <2>9, <2>10, <2>11 DEF SInv
  <1> QED BY <1>1, <1>2, <1>3

\* app_webrtc_teardown() on the run task.
LEMMA TaskTeardown ==
  ASSUME AlTypeOK, SInv, NEW c \in Contexts, Teardown(c)
  PROVE  SInv'
  <1> USE Names
  <1>1. /\ \A a \in Actors : a # c => pc'[a] = pc[a]
        /\ \A k \in Callers : pc'[k] = pc[k]
        /\ UNCHANGED <<linux, handle, tearingDown, done, busy, goal>>
        /\ pc[c] \in TeardownPlaces
    BY DEF Teardown, Drain, FreeClients, FreeContext, Uninitialize, ResetState, At, GoTo,
           AlTypeOK, flags, TeardownPlaces
  <1>2. \/ /\ pc[c] = "drain" /\ pc'[c] = "free"
           /\ UNCHANGED <<initialized, config, context, allocated, client>>
        \/ /\ pc[c] = "drain" /\ pc'[c] = "uninit" /\ context = NoOne
           /\ UNCHANGED <<initialized, config, context, allocated, client>>
        \/ /\ pc[c] = "free" /\ pc'[c] = "context"
           /\ UNCHANGED <<initialized, config, context, allocated>>
        \/ /\ pc[c] = "context" /\ pc'[c] = "uninit"
           /\ context' = NoOne /\ allocated' = allocated \ {context}
           /\ UNCHANGED <<initialized, config, client>>
        \/ /\ pc[c] = "uninit" /\ pc'[c] = "reset" /\ initialized' = FALSE
           /\ UNCHANGED <<config, context, allocated, client>>
        \/ /\ pc[c] = "reset" /\ pc'[c] = "finish"
           /\ UNCHANGED <<initialized, context, allocated>>
    BY DEF Teardown, Drain, FreeClients, FreeContext, Uninitialize, ResetState, At, GoTo,
           AlTypeOK, shared
  <1>3. /\ Active(c) /\ pc'[c] \in ActivePlaces /\ pc'[c] \notin UsePlaces
        /\ pc'[c] \notin {"none", "finished", "parked"} /\ pc[c] # "none"
    BY <1>1, <1>2 DEF Active, ActivePlaces, TeardownPlaces, UsePlaces
  <1>4. /\ \A d \in Contexts : Active(d)' <=> Active(d)
        /\ \A d \in Contexts : d # c => ~Active(d)
        /\ pc[Owner] # "initctx" /\ ~done
        /\ \A k \in Callers : ~Claims(k)
        /\ \A d \in Contexts : pc[d] # "finished" /\ pc'[d] # "finished"
    BY <1>1, <1>3, Alone DEF Active
  <1>5. \A d \in Contexts : d # c => pc'[d] \notin ActivePlaces
    BY <1>1, <1>4 DEF Active
  <1>6. PcInv'
    BY <1>1, <1>2 DEF SInv, PcInv, TeardownPlaces, TaskPlaces
  <1>7. TaskInv'
    <2>1. \A d \in Contexts : pc'[d] \notin UsePlaces
      BY <1>3, <1>5 DEF ActivePlaces
    <2>2. handle # NoOne => handle \in Contexts /\ Active(handle)
      BY <1>4 DEF SInv, TaskInv, AlTypeOK
    <2> QED BY <1>1, <1>4, <2>1, <2>2 DEF SInv, TaskInv
  <1>8. ClaimInv'
    BY <1>1, <1>4 DEF SInv, ClaimInv, Claims
  <1>9. ContextInv'
    <2>1. \A d \in Contexts : pc'[d] \notin ClientPlaces
      BY <1>3, <1>5 DEF ActivePlaces, ClientPlaces
    <2>2. \A d \in Contexts : d # c => pc'[d] \notin HoldPlaces \cup PastPlaces
      BY <1>5 DEF ActivePlaces, HoldPlaces, PastPlaces, TeardownPlaces
    <2>3. \A k \in Callers : pc'[k] \notin {"uninit", "reset", "release"}
      BY <1>1, <1>4 DEF Claims, TeardownPlaces
    <2>4. /\ context = NoOne => allocated = {}
          /\ context # NoOne => initialized /\ allocated = {context} /\ config = context
          /\ pc[c] \in HoldPlaces => context = c
          /\ pc[c] \in PastPlaces => context = NoOne
          /\ pc[c] \in {"reset", "finish"} => ~initialized
      BY DEF SInv, ContextInv
    <2>5. /\ context' = NoOne => allocated' = {}
          /\ context' # NoOne => initialized' /\ allocated' = {context'} /\ config' = context'
          /\ pc'[c] \in HoldPlaces => context' = c
          /\ pc'[c] \in PastPlaces => context' = NoOne
          /\ pc'[c] \in {"reset", "finish"} => ~initialized'
      BY <1>2, <2>4 DEF HoldPlaces, PastPlaces, UsePlaces
    <2> QED BY <2>1, <2>2, <2>3, <2>5 DEF ContextInv, PastPlaces
  <1>10. TaskOwnerInv'
    <2>1. Running /\ pc'[goal[Owner]] = "none" => context = goal[Owner] /\ goal[Owner] \in Contexts
      BY <1>1, <1>3 DEF SInv, TaskOwnerInv
    <2>2. context \in {c, NoOne}
      BY <1>2 DEF SInv, ContextInv, HoldPlaces, PastPlaces
    <2>3. Running /\ pc'[goal[Owner]] = "none" => FALSE
      BY <1>3, <2>1, <2>2
    <2> QED BY <1>1, <1>4, <2>3 DEF SInv, TaskOwnerInv, Running, Active
  <1>11. GoalInv'
    <2>1. allocated' \subseteq allocated
      BY <1>2
    <2> QED BY <1>1, <1>4, <2>1 DEF SInv, GoalInv
  <1> QED BY <1>6, <1>7, <1>8, <1>9, <1>10, <1>11 DEF SInv

\* app_webrtc_teardown() on the caller of a terminate, and its end.
LEMMA CallerTeardown ==
  ASSUME AlTypeOK, SInv, NEW k \in Callers, Teardown(k) \/ TermRelease(k)
  PROVE  SInv'
  <1> USE Names
  <1>1. /\ \A a \in Actors : a # k => pc'[a] = pc[a]
        /\ \A c \in Contexts : pc'[c] = pc[c]
        /\ \A l \in Callers : l # k => goal'[l] = goal[l]
        /\ UNCHANGED <<linux, handle, tearingDown, done>>
        /\ UNCHANGED busy \/ pc'[k] = "idle"
        /\ Claims(k)
    BY DEF Teardown, Drain, FreeClients, FreeContext, Uninitialize, ResetState, At, GoTo,
           AlTypeOK, flags, TeardownPlaces, Claims, TermRelease, Return
  <1>2. \/ /\ pc[k] = "drain" /\ pc'[k] = "free"
           /\ UNCHANGED <<initialized, config, context, allocated, client>>
        \/ /\ pc[k] = "drain" /\ pc'[k] = "uninit" /\ context = NoOne
           /\ UNCHANGED <<initialized, config, context, allocated, client>>
        \/ /\ pc[k] = "free" /\ pc'[k] = "context"
           /\ UNCHANGED <<initialized, config, context, allocated>>
        \/ /\ pc[k] = "context" /\ pc'[k] = "uninit"
           /\ context' = NoOne /\ allocated' = allocated \ {context}
           /\ UNCHANGED <<initialized, config, client>>
        \/ /\ pc[k] = "uninit" /\ pc'[k] = "reset" /\ initialized' = FALSE
           /\ UNCHANGED <<config, context, allocated, client>>
        \/ /\ pc[k] = "reset" /\ pc'[k] = "release"
           /\ UNCHANGED <<initialized, context, allocated>>
        \/ /\ pc[k] = "release" /\ pc'[k] = "idle"
           /\ UNCHANGED <<initialized, config, context, allocated, client>>
    BY DEF Teardown, Drain, FreeClients, FreeContext, Uninitialize, ResetState, At, GoTo,
           AlTypeOK, shared, TermRelease, Return
  <1>3. /\ ~Running /\ pc[Owner] # "initctx" /\ busy
        /\ \A c \in Contexts : ~Active(c) /\ ~Active(c)'
        /\ \A l \in Callers : l # k => ~Claims(l) /\ ~Claims(l)'
    BY <1>1, Claimant DEF Active, Claims
  <1>4. pc'[Owner] \notin {"initctx", "run", "create", "created"}
    BY <1>1, <1>2, <1>3 DEF Running
  <1>5. PcInv'
    BY <1>1, <1>2 DEF SInv, PcInv, TeardownPlaces, CallerPlaces
  <1>6. TaskInv'
    <2>1. \A d \in Contexts : pc'[d] \notin UsePlaces
      BY <1>3 DEF Active, ActivePlaces
    <2>2. handle # NoOne => ~linux /\ done /\ handle \in Contexts /\ pc[handle] \in {"finished", "parked"}
      BY <1>3 DEF SInv, TaskInv, AlTypeOK
    <2>3. initialized' => initialized
      BY <1>2
    <2>4. \A c \in Contexts : pc[c] = "finished" => IF linux THEN ~initialized ELSE done /\ handle = c
      BY <1>3 DEF SInv, TaskInv, Running
    <2> QED BY <1>1, <1>3, <2>1, <2>2, <2>3, <2>4 DEF TaskInv
  <1>7. ClaimInv'
    <2>1. Claims(k)' => busy'
      BY <1>1, <1>3 DEF Claims, TeardownPlaces
    <2> QED BY <1>3, <2>1 DEF ClaimInv
  <1>8. TaskOwnerInv'
    BY <1>4 DEF TaskOwnerInv, Running
  <1>9. ContextInv'
    <2>1. \A c \in Contexts : pc'[c] \notin HoldPlaces \cup PastPlaces \cup ClientPlaces
      BY <1>3 DEF Active, ActivePlaces, HoldPlaces, PastPlaces, TeardownPlaces, ClientPlaces
    <2>2. \A l \in Callers : l # k => pc'[l] \notin {"uninit", "reset", "release"}
      BY <1>3 DEF Claims, TeardownPlaces
    <2>3. /\ context = NoOne => allocated = {}
          /\ context # NoOne => initialized /\ allocated = {context} /\ config = context
          /\ pc[k] \in {"uninit", "reset", "release"} => context = NoOne
      BY DEF SInv, ContextInv
    <2>4. /\ context' = NoOne => allocated' = {}
          /\ context' # NoOne => initialized' /\ allocated' = {context'} /\ config' = context'
          /\ pc'[k] \in {"uninit", "reset", "release"} => context' = NoOne
      BY <1>2, <2>3
    <2> QED BY <2>1, <2>2, <2>4 DEF ContextInv, PastPlaces
  <1>10. GoalInv'
    <2>1. allocated' \subseteq allocated
      BY <1>2
    <2>2. pc'[k] \notin {"alive", "wait", "wake", "reap"}
      BY <1>2
    <2> QED BY <1>1, <1>3, <2>1, <2>2 DEF SInv, GoalInv
  <1> QED BY <1>5, <1>6, <1>7, <1>8, <1>9, <1>10 DEF SInv

\* app_webrtc_init(), by an application that waits for the last termination.
LEMMA InitSteps ==
  ASSUME AlTypeOK, SInv, ~EagerInit, InitContext \/ \E c \in Contexts : InitCall(c)
  PROVE  SInv'
  <1> USE Names
  <1>1. ASSUME NEW c \in Contexts, InitCall(c) PROVE SInv'
    <2>1. /\ pc'[Owner] = "initctx" /\ pc[Owner] = "idle"
          /\ \A a \in Actors : a # Owner => pc'[a] = pc[a]
          /\ \A d \in Contexts : pc'[d] = pc[d]
          /\ goal'[Owner] = c /\ config' = c
          /\ ~initialized /\ Quiet
          /\ UNCHANGED <<linux, initialized, context, allocated, client, flags>>
      BY <1>1 DEF InitCall, At, GoTo, AlTypeOK
    <2>2. UNCHANGED <<handle, tearingDown, done, busy>>
      BY <2>1 DEF flags
    <2>3. \A k \in Callers : pc[k] = "idle" /\ (k # Owner => pc'[k] = "idle")
      BY <2>1 DEF Quiet, At
    <2>4. \A d \in Contexts : ~Alive(d) /\ ~Alive(d)'
      BY <2>1 DEF Quiet, Alive
    <2>5. \A d \in Contexts : ~Active(d) /\ ~Active(d)'
      BY <2>1, <2>4 DEF Active, Alive, ActivePlaces, UsePlaces, TeardownPlaces
    <2>6. context = NoOne /\ allocated = {}
      BY <2>1 DEF SInv, ContextInv
    <2>7. PcInv'
      BY <2>1 DEF SInv, PcInv, CallerPlaces
    <2>8. TaskInv'
      <3>1. \A d \in Contexts : pc'[d] \notin UsePlaces
        BY <2>5 DEF Active, ActivePlaces
      <3>2. handle # NoOne => handle \in Contexts
        BY DEF AlTypeOK
      <3>3. \A d \in Contexts : pc[d] = "finished" => ~linux /\ done /\ handle = d
        BY <2>1, <2>4 DEF SInv, TaskInv, Alive
      <3> QED BY <2>1, <2>2, <2>5, <3>1, <3>2, <3>3 DEF SInv, TaskInv
    <2>9. ClaimInv'
      BY <2>1, <2>3 DEF ClaimInv, Claims, TeardownPlaces
    <2>10. TaskOwnerInv'
      BY <2>1, <2>3, <2>4 DEF TaskOwnerInv, Running
    <2>11. ContextInv'
      <3>1. \A d \in Contexts : pc'[d] \notin HoldPlaces \cup PastPlaces \cup ClientPlaces
        BY <2>5 DEF Active, ActivePlaces, HoldPlaces, PastPlaces, TeardownPlaces, ClientPlaces
      <3> QED BY <2>1, <2>3, <2>6, <3>1 DEF ContextInv, PastPlaces
    <2>12. GoalInv'
      BY <2>1, <2>3 DEF GoalInv
    <2> QED BY <2>7, <2>8, <2>9, <2>10, <2>11, <2>12 DEF SInv
  <1>2. CASE InitContext
    <2>1. /\ pc[Owner] = "initctx" /\ pc'[Owner] = "idle"
          /\ \A a \in Actors : a # Owner => pc'[a] = pc[a]
          /\ \A d \in Contexts : pc'[d] = pc[d]
          /\ UNCHANGED <<linux, config, client, flags>>
          /\ \/ /\ context' = goal[Owner] /\ allocated' = allocated \cup {goal[Owner]}
                /\ initialized' = TRUE
             \/ UNCHANGED <<initialized, context, allocated>>
      BY <1>2 DEF InitContext, At, GoTo, Return, AlTypeOK
    <2>2. UNCHANGED <<handle, tearingDown, done, busy>>
      BY <2>1 DEF flags
    <2>3. \A k \in Callers : pc'[k] = "idle"
      BY <2>1 DEF SInv, TaskOwnerInv
    <2>4. \A d \in Contexts : ~Alive(d)
      BY <2>1 DEF SInv, TaskOwnerInv
    <2>5. \A d \in Contexts : ~Active(d) /\ ~Active(d)'
      BY <2>1, <2>4 DEF Active, Alive, ActivePlaces, UsePlaces, TeardownPlaces
    <2>6. /\ context = NoOne /\ allocated = {}
          /\ config = goal[Owner] /\ goal[Owner] \in Contexts
      BY <2>1 DEF SInv, ContextInv, TaskOwnerInv
    <2>7. PcInv'
      BY <2>1 DEF SInv, PcInv, CallerPlaces
    <2>8. TaskInv'
      <3>1. \A d \in Contexts : pc'[d] \notin UsePlaces
        BY <2>5 DEF Active, ActivePlaces
      <3>2. handle # NoOne => handle \in Contexts
        BY DEF AlTypeOK
      <3>3. \A d \in Contexts : pc[d] = "finished" => ~linux /\ done /\ handle = d
        BY <2>1, <2>4 DEF SInv, TaskInv, Alive
      <3> QED BY <2>1, <2>2, <2>5, <3>1, <3>2, <3>3 DEF SInv, TaskInv
    <2>9. ClaimInv'
      BY <2>3 DEF ClaimInv, Claims, TeardownPlaces
    <2>10. TaskOwnerInv'
      BY <2>1 DEF TaskOwnerInv, Running
    <2>11. ContextInv'
      <3>1. \A d \in Contexts : pc'[d] \notin HoldPlaces \cup PastPlaces \cup ClientPlaces
        BY <2>5 DEF Active, ActivePlaces, HoldPlaces, PastPlaces, TeardownPlaces, ClientPlaces
      <3>2. /\ context' = NoOne => allocated' = {}
            /\ context' # NoOne => initialized' /\ allocated' = {context'} /\ config' = context'
        BY <2>1, <2>6
      <3> QED BY <2>3, <3>1, <3>2 DEF ContextInv, PastPlaces
    <2>12. GoalInv'
      BY <2>3 DEF GoalInv
    <2> QED BY <2>7, <2>8, <2>9, <2>10, <2>11, <2>12 DEF SInv
  <1> QED BY <1>1, <1>2

\* app_webrtc_run() up to the creation of the task.
LEMMA RunBegins ==
  ASSUME AlTypeOK, SInv, RunCall \/ RunCheck
  PROVE  SInv'
  <1> USE Names
  <1>1. CASE RunCall
    <2>1. /\ pc'[Owner] = "run" /\ pc[Owner] = "idle" /\ goal'[Owner] = context
          /\ \A a \in Actors : a # Owner => pc'[a] = pc[a]
          /\ \A d \in Contexts : pc'[d] = pc[d]
          /\ \A k \in Callers : pc[k] = "idle" /\ (k # Owner => pc'[k] = "idle")
          /\ context \in Contexts
          /\ UNCHANGED <<linux, shared, flags>>
      BY <1>1 DEF RunCall, At, GoTo, AlTypeOK
    <2>2. UNCHANGED <<handle, tearingDown, done, busy, initialized, config, context, allocated,
                      client>>
      BY <2>1 DEF flags, shared
    <2>3. \A d \in Contexts : Active(d)' <=> Active(d)
      BY <2>1 DEF Active
    <2>4. PcInv'
      BY <2>1 DEF SInv, PcInv, CallerPlaces
    <2>5. TaskInv'
      <3>1. handle # NoOne => handle \in Contexts
        BY DEF AlTypeOK
      <3> QED BY <2>1, <2>2, <2>3, <3>1 DEF SInv, TaskInv
    <2>6. ClaimInv'
      BY <2>1 DEF ClaimInv, Claims, TeardownPlaces
    <2>7. TaskOwnerInv'
      BY <2>1, <2>2 DEF TaskOwnerInv, Running
    <2>8. ContextInv'
      BY <2>1, <2>2 DEF SInv, ContextInv
    <2>9. GoalInv'
      BY <2>1 DEF GoalInv
    <2> QED BY <2>4, <2>5, <2>6, <2>7, <2>8, <2>9 DEF SInv
  <1>2. CASE RunCheck
    <2>1. /\ pc[Owner] = "run" /\ CanReap /\ handle' = Reaped
          /\ \A a \in Actors : a # Owner => pc'[a] = pc[a]
          /\ \A d \in Contexts : pc'[d] = pc[d]
          /\ \/ Reaped = NoOne /\ pc'[Owner] = "create" /\ UNCHANGED goal
             \/ pc'[Owner] = "idle"
          /\ UNCHANGED <<linux, shared, tearingDown, done, busy>>
      BY <1>2 DEF RunCheck, At, GoTo, Return, AlTypeOK
    <2>2. UNCHANGED <<initialized, config, context, allocated, client>>
      BY <2>1 DEF shared
    <2>3. \A d \in Contexts : Active(d)' <=> Active(d)
      BY <2>1 DEF Active
    <2>4. \A k \in Callers \ {Owner} : pc'[k] = "idle"
      BY <2>1 DEF SInv, TaskOwnerInv, Running
    <2>5. PcInv'
      BY <2>1 DEF SInv, PcInv, CallerPlaces
    <2>6. TaskInv'
      <3>1. handle # NoOne => handle \in Contexts
        BY DEF AlTypeOK
      <3>2. \A d \in Contexts : Active(d) => handle' = d
        BY <2>1 DEF SInv, TaskInv, Reaped
      <3>3. \A d \in Contexts : pc[d] = "finished" /\ ~linux => done /\ handle' = d
        BY <2>1 DEF SInv, TaskInv, Reaped, CanReap
      <3>4. handle' # NoOne => handle' = handle
        BY <2>1 DEF Reaped
      <3> QED BY <2>1, <2>2, <2>3, <3>1, <3>2, <3>3, <3>4 DEF SInv, TaskInv
    <2>7. ClaimInv'
      BY <2>1, <2>4 DEF ClaimInv, Claims, TeardownPlaces
    <2>8. TaskOwnerInv'
      BY <2>1, <2>2, <2>4 DEF SInv, TaskOwnerInv, Running
    <2>9. ContextInv'
      BY <2>1, <2>2, <2>4 DEF SInv, ContextInv
    <2>10. GoalInv'
      BY <2>1, <2>4 DEF GoalInv
    <2> QED BY <2>5, <2>6, <2>7, <2>8, <2>9, <2>10 DEF SInv
  <1> QED BY <1>1, <1>2

\* The creation of the task, which may fail, and the store of its handle.
LEMMA RunEnds ==
  ASSUME AlTypeOK, SInv, RunCreate \/ RunReturns
  PROVE  SInv'
  <1> USE Names
  <1>0. \A k \in Callers \ {Owner} : pc[k] = "idle"
    BY DEF RunCreate, RunReturns, At, SInv, TaskOwnerInv, Running
  <1>h. handle # NoOne => handle \in Contexts
    BY DEF AlTypeOK
  <1>1. CASE RunCreate
    <2> DEFINE g == goal[Owner]
    <2>1. /\ pc[Owner] = "create" /\ tearingDown' = FALSE /\ done' = FALSE
          /\ UNCHANGED <<linux, shared, busy>>
          /\ handle = NoOne /\ g \in Contexts
          /\ pc[g] = "none" => context = g
      BY <1>1 DEF RunCreate, At, SInv, TaskOwnerInv, Running
    <2>2. UNCHANGED <<initialized, config, context, allocated, client>>
      BY <2>1 DEF shared
    <2>3. \A d \in Contexts : ~Active(d) /\ (pc[d] = "finished" => linux)
      BY <2>1 DEF SInv, TaskInv
    <2>4. CASE /\ pc[g] = "none"
               /\ pc' = [pc EXCEPT ![g] = "boot", ![Owner] = IF linux THEN "idle" ELSE "created"]
               /\ handle' = IF linux THEN g ELSE handle
               /\ goal' = IF linux THEN [goal EXCEPT ![Owner] = NoOne] ELSE goal
      <3>1. /\ pc'[g] = "boot" /\ pc'[Owner] = IF linux THEN "idle" ELSE "created"
            /\ \A d \in Contexts : d # g => pc'[d] = pc[d]
            /\ \A k \in Callers \ {Owner} : pc'[k] = "idle"
            /\ ~linux => goal'[Owner] = g
        BY <1>0, <2>1, <2>4 DEF AlTypeOK
      <3>2. context = g /\ initialized /\ allocated = {g} /\ config = g
        BY <2>1, <2>4 DEF SInv, ContextInv
      <3>3. \A d \in Contexts : pc[d] # "finished" /\ pc'[d] # "finished"
        BY <2>3, <3>1, <3>2 DEF SInv, TaskInv
      <3>4. \A d \in Contexts : Active(d)' <=> d = g
        BY <2>3, <3>1 DEF Active, ActivePlaces, UsePlaces
      <3>5. PcInv'
        BY <3>1 DEF SInv, PcInv, CallerPlaces, TaskPlaces
      <3>6. TaskInv'
        BY <2>1, <2>4, <3>1, <3>3, <3>4 DEF TaskInv
      <3>7. ClaimInv'
        BY <3>1 DEF ClaimInv, Claims, TeardownPlaces
      <3>8. TaskOwnerInv'
        <4>1. CASE linux
          BY <2>1, <3>1, <4>1 DEF TaskOwnerInv, Running
        <4>2. CASE ~linux
          <5>1. pc'[Owner] = "created" /\ goal'[Owner] = g /\ Active(g)' /\ handle' = NoOne
            BY <2>1, <2>4, <3>1, <3>4, <4>2
          <5>2. pc'[goal'[Owner]] = "boot"
            BY <3>1, <5>1
          <5> QED BY <2>1, <3>1, <4>2, <5>1, <5>2 DEF TaskOwnerInv, Running
        <4> QED BY <4>1, <4>2
      <3>9. ContextInv'
        <4>1. \A d \in Contexts : d # g => pc'[d] \notin HoldPlaces \cup PastPlaces \cup ClientPlaces
          BY <3>4 DEF Active, ActivePlaces, HoldPlaces, PastPlaces, TeardownPlaces, ClientPlaces
        <4>2. pc'[g] \notin PastPlaces \cup ClientPlaces
          BY <3>1 DEF PastPlaces, ClientPlaces
        <4>3. \A k \in Callers : pc'[k] \in {"idle", "created"}
          BY <3>1
        <4>4. pc'[g] \notin {"reset", "finish"}
          BY <3>1
        <4>5. \A d \in Contexts : d # g => pc'[d] \notin {"reset", "finish"}
          BY <4>1 DEF PastPlaces
        <4>6. context' = g /\ initialized' /\ allocated' = {g} /\ config' = g /\ g # NoOne
          BY <2>1, <2>2, <3>2
        <4> HIDE DEF g
        <4>7. \A d \in Contexts : pc'[d] \in HoldPlaces => context' = d
          BY <4>1, <4>6
        <4> QED BY <4>1, <4>2, <4>3, <4>4, <4>5, <4>6, <4>7 DEF ContextInv
      <3>10. GoalInv'
        BY <3>1 DEF GoalInv
      <3> QED BY <3>5, <3>6, <3>7, <3>8, <3>9, <3>10 DEF SInv
    <2>5. CASE Return(Owner) /\ handle' = NoOne
      <3>1. /\ pc'[Owner] = "idle"
            /\ \A d \in Contexts : pc'[d] = pc[d]
            /\ \A k \in Callers : pc'[k] = "idle"
        BY <1>0, <2>5 DEF Return, GoTo, AlTypeOK
      <3>2. \A d \in Contexts : ~Active(d)' /\ (pc'[d] = "finished" => linux /\ ~initialized)
        BY <2>3, <3>1 DEF Active, SInv, TaskInv
      <3>3. PcInv'
        BY <3>1 DEF SInv, PcInv, CallerPlaces
      <3>4. TaskInv'
        BY <2>1, <2>2, <2>5, <3>2 DEF TaskInv
      <3>5. ClaimInv'
        BY <3>1 DEF ClaimInv, Claims, TeardownPlaces
      <3>6. TaskOwnerInv'
        BY <3>1 DEF TaskOwnerInv, Running
      <3>7. ContextInv'
        BY <2>2, <3>1 DEF SInv, ContextInv
      <3>8. GoalInv'
        BY <3>1 DEF GoalInv
      <3> QED BY <3>3, <3>4, <3>5, <3>6, <3>7, <3>8 DEF SInv
    <2> QED BY <1>1, <2>4, <2>5 DEF RunCreate
  <1>2. CASE RunReturns
    <2>1. /\ pc[Owner] = "created" /\ handle' = goal[Owner] /\ pc'[Owner] = "idle"
          /\ \A d \in Contexts : pc'[d] = pc[d]
          /\ \A k \in Callers : pc'[k] = "idle"
          /\ UNCHANGED <<linux, shared, tearingDown, done, busy>>
      BY <1>0, <1>2 DEF RunReturns, Return, At, GoTo, AlTypeOK
    <2>2. UNCHANGED <<initialized, config, context, allocated, client>>
      BY <2>1 DEF shared
    <2>3. /\ handle = NoOne /\ ~linux /\ goal[Owner] \in Contexts
          /\ Active(goal[Owner]) \/ (done /\ pc[goal[Owner]] \in {"finished", "parked"})
      BY <2>1 DEF SInv, TaskOwnerInv, Running
    <2>4. \A d \in Contexts : Active(d)' <=> Active(d)
      BY <2>1 DEF Active
    <2>5. PcInv'
      BY <2>1 DEF SInv, PcInv, CallerPlaces
    <2>6. TaskInv'
      BY <2>1, <2>2, <2>3, <2>4 DEF SInv, TaskInv
    <2>7. ClaimInv'
      BY <2>1 DEF ClaimInv, Claims, TeardownPlaces
    <2>8. TaskOwnerInv'
      BY <2>1 DEF TaskOwnerInv, Running
    <2>9. ContextInv'
      BY <2>1, <2>2 DEF SInv, ContextInv
    <2>10. GoalInv'
      BY <2>1 DEF GoalInv
    <2> QED BY <2>5, <2>6, <2>7, <2>8, <2>9, <2>10 DEF SInv
  <1> QED BY <1>1, <1>2

\* A terminate that is called, waits or returns.
LEMMA TermMoves ==
  ASSUME AlTypeOK, SInv, NEW k \in Callers,
         TermCall(k) \/ TermRaise(k) \/ WakeLock(k) \/ WakeTry(k) \/ TermSees(k) \/ TermTimesOut(k)
  PROVE  SInv'
  <1> USE Names
  <1>1. /\ \A a \in Actors : a # k => pc'[a] = pc[a]
        /\ \A d \in Contexts : pc'[d] = pc[d]
        /\ \A l \in Callers : l # k => goal'[l] = goal[l] /\ pc'[l] = pc[l]
        /\ UNCHANGED <<linux, shared, flags>>
    BY DEF TermCall, TermRaise, WakeLock, WakeTry, TermSees, TermTimesOut, At, GoTo, Return, AlTypeOK
  <1>2. UNCHANGED <<handle, tearingDown, done, busy, initialized, config, context, allocated, client>>
    BY <1>1 DEF flags, shared
  <1>3. /\ pc[k] \in {"alive", "wait", "wake"} \/ (pc[k] = "idle" /\ ~Running /\ initialized)
        /\ pc'[k] \in {"wait", "wake"} => pc[k] \in {"alive", "wait", "wake"} /\ goal'[k] = goal[k]
        /\ pc'[k] = "reap" => pc[k] = "wait" /\ done /\ goal'[k] = goal[k]
        /\ pc'[k] \in {"term", "wait", "wake", "reap", "idle"}
    BY DEF TermCall, TermRaise, WakeLock, WakeTry, TermSees, TermTimesOut, At, GoTo, Return, AlTypeOK
  <1>4. ~Running /\ pc[Owner] # "initctx" /\ ~Running' /\ pc'[Owner] # "initctx"
    BY <1>1, <1>3 DEF SInv, TaskOwnerInv, Running
  <1>5. \A d \in Contexts : Active(d)' <=> Active(d)
    BY <1>1 DEF Active
  <1>6. PcInv'
    BY <1>1, <1>3 DEF SInv, PcInv, CallerPlaces
  <1>7. TaskInv'
    <2>1. handle # NoOne => handle \in Contexts
      BY DEF AlTypeOK
    <2>2. pc[Owner] # "created" /\ pc'[Owner] # "created"
      BY <1>4 DEF Running
    <2> QED BY <1>1, <1>2, <1>5, <2>1, <2>2 DEF SInv, TaskInv
  <1>8. ClaimInv'
    <2>1. ~Claims(k)'
      BY <1>3 DEF Claims, TeardownPlaces
    <2> QED BY <1>1, <1>2, <1>5, <2>1 DEF SInv, ClaimInv, Claims
  <1>9. TaskOwnerInv'
    BY <1>4 DEF TaskOwnerInv, Running
  <1>10. ContextInv'
    BY <1>1, <1>2, <1>3 DEF SInv, ContextInv
  <1>11. GoalInv'
    <2>1. done => \A d \in Contexts : ~Active(d)
      BY DEF SInv, TaskInv
    <2> QED BY <1>1, <1>2, <1>3, <1>5, <2>1 DEF SInv, GoalInv
  <1> QED BY <1>6, <1>7, <1>8, <1>9, <1>10, <1>11 DEF SInv

\* The decisions under gRunTaskLock.
LEMMA TermDecides ==
  ASSUME AlTypeOK, SInv, NEW k \in Callers, TermClaim(k) \/ TermReap(k)
  PROVE  SInv'
  <1> USE Names
  <1>1. /\ \A d \in Contexts : pc'[d] = pc[d]
        /\ \A l \in Callers : l # k => goal'[l] = goal[l] /\ pc'[l] = pc[l]
        /\ handle' = Reaped /\ CanReap
        /\ pc[k] \in {"term", "reap"}
        /\ UNCHANGED <<linux, shared, tearingDown, done>>
    BY DEF TermClaim, TermReap, At, GoTo, Return, AlTypeOK
  <1>2. UNCHANGED <<initialized, config, context, allocated, client>>
    BY <1>1 DEF shared
  <1>3. \/ pc'[k] = "alive" /\ Reaped # NoOne /\ UNCHANGED busy /\ goal'[k] = goal[k]
        \/ pc'[k] = "idle" /\ UNCHANGED busy
        \/ pc'[k] = "drain" /\ Reaped = NoOne /\ ~busy /\ busy' = TRUE
    BY DEF TermClaim, TermReap, At, GoTo, Return, AlTypeOK
  <1>4. ~Running /\ pc[Owner] # "initctx" /\ ~Running' /\ pc'[Owner] # "initctx"
    BY <1>1, <1>3 DEF SInv, TaskOwnerInv, Running
  <1>5. pc[Owner] # "created" /\ pc'[Owner] # "created"
    BY <1>4 DEF Running
  <1>6. \A d \in Contexts : Active(d)' <=> Active(d)
    BY <1>1 DEF Active
  <1>7. /\ \A d \in Contexts : Active(d) => Reaped = d
        /\ Reaped # NoOne => Reaped = handle /\ handle \in Contexts
        /\ \A d \in Contexts : pc[d] = "finished" /\ ~linux => done /\ Reaped = d
    BY <1>1, <1>5 DEF SInv, TaskInv, Reaped, CanReap, AlTypeOK
  <1>8. PcInv'
    BY <1>1, <1>3 DEF SInv, PcInv, CallerPlaces, TeardownPlaces
  <1>9. TaskInv'
    BY <1>1, <1>2, <1>5, <1>6, <1>7 DEF SInv, TaskInv
  <1>10. ClaimInv'
    <2>1. pc'[k] = "drain" => \A d \in Contexts : ~Active(d)
      BY <1>3, <1>7
    <2>2. Claims(k)' => pc'[k] = "drain" /\ ~busy /\ busy'
      BY <1>3 DEF Claims, TeardownPlaces
    <2>3. \A l \in Callers : l # k => (Claims(l)' <=> Claims(l))
      BY <1>1 DEF Claims
    <2>4. busy => busy'
      BY <1>3
    <2> QED BY <1>6, <2>1, <2>2, <2>3, <2>4 DEF SInv, ClaimInv
  <1>11. TaskOwnerInv'
    BY <1>4 DEF TaskOwnerInv, Running
  <1>12. ContextInv'
    BY <1>1, <1>2, <1>3 DEF SInv, ContextInv
  <1>13. GoalInv'
    <2>1. ASSUME pc'[k] = "alive"
          PROVE  goal'[k] \notin allocated \/ (goal'[k] \in Contexts /\ Active(goal'[k]))
      <3>1. handle \in Contexts /\ ~(done /\ ~linux) /\ handle # NoOne
        BY <1>3, <1>7, <2>1 DEF Reaped
      <3>2. Active(handle)
        BY <3>1 DEF SInv, TaskInv
      <3>3. context \in {handle, NoOne}
        BY <3>1, <3>2 DEF SInv, ContextInv, Active, ActivePlaces, HoldPlaces, PastPlaces,
                          TeardownPlaces
      <3>4. allocated \subseteq {handle}
        BY <3>3 DEF SInv, ContextInv
      <3> QED BY <1>3, <3>1, <3>2, <3>4
    <2> QED BY <1>1, <1>2, <1>3, <1>6, <2>1 DEF SInv, GoalInv
  <1> QED BY <1>8, <1>9, <1>10, <1>11, <1>12, <1>13 DEF SInv

\* The steps of a run task before it leaves its loop.
Loops(c) ==
  \/ Boot(c) \/ InitGivesUp(c) \/ SignalingReady(c) \/ FirstConnect(c) \/ LoopTop(c)
  \/ ReconnectGoes(c) \/ ReconnectEnds(c) \/ Relock(c) \/ PassEnds(c) \/ FallsAsleep(c)
  \/ WakesUp(c) \/ SignalingInit(c)

\* What a run task may change while it is in its loop.
LEMMA LoopFacts ==
  ASSUME AlTypeOK, NEW c \in Contexts, Loops(c)
  PROVE  /\ pc[c] \in UsePlaces
         /\ \E v \in UsePlaces \cup {"exit"} :
              /\ pc' = [pc EXCEPT ![c] = v]
              /\ \/ client' = c
                 \/ UNCHANGED client /\ (v \in ClientPlaces => pc[c] \in ClientPlaces)
         /\ UNCHANGED <<linux, initialized, config, context, allocated, flags, goal, terminate, woken>>
  BY DEF Loops, Boot, InitGivesUp, SignalingReady, FirstConnect, LoopTop, ReconnectGoes,
         ReconnectEnds, Relock, PassEnds, FallsAsleep, WakesUp, SignalingInit, taskOnly, At, GoTo,
         UsePlaces, ClientPlaces, shared

\* The steps that leave the structure alone.
LifeAside ==
  \/ \E c \in Contexts : PassTerminates(c) \/ ReconnectStarts(c)
  \/ WorkerLocks \/ WorkerUnlocks \/ Rest \/ UNCHANGED alVars

\* Every step keeps the structure.
LEMMA StructureStep ==
  ASSUME AlTypeOK, SInv, ~EagerInit, [AlNext]_alVars
  PROVE  SInv'
  <1>1. CASE LifeAside
    <2>1. UNCHANGED structure
      BY <1>1 DEF LifeAside, PassTerminates, ReconnectStarts, WorkerLocks, WorkerUnlocks, Rest, alVars,
                  structure
    <2> QED BY <2>1, StructureKept
  <1>2. ASSUME NEW c \in Contexts, Loops(c) PROVE SInv'
    BY <1>2, LoopFacts, TaskMoves
  <1>3. ASSUME NEW c \in Contexts, TaskExits(c) \/ TaskFinishes(c) \/ TaskParks(c) PROVE SInv'
    BY <1>3, TaskEnds
  <1>4. ASSUME NEW a \in Actors, Teardown(a) PROVE SInv'
    BY <1>4, TaskTeardown, CallerTeardown DEF Actors
  <1>5. ASSUME NEW k \in Callers, TermCall(k) \/ TermStep(k) \/ TermTimesOut(k) PROVE SInv'
    BY <1>5, TermMoves, TermDecides, CallerTeardown DEF TermStep
  <1>6. CASE RunCall \/ OwnerStep \/ \E c \in Contexts : InitCall(c)
    BY <1>6, InitSteps, RunBegins, RunEnds DEF OwnerStep
  <1> QED BY <1>1, <1>2, <1>3, <1>4, <1>5, <1>6 DEF AlNext, TaskStep, Loops, LifeAside

-----------------------------------------------------------------------------
(***************************************************************************)
(* The wake-up.                                                            *)
(***************************************************************************)

\* A step that starts no task, wakes nobody and leaves the lock and the loop alone.
LEMMA WakeKept ==
  ASSUME WakeInv, UNCHANGED objLock, terminate \subseteq terminate',
         \A c \in Contexts : pc'[c] \in UsePlaces => pc'[c] = pc[c],
         \A k \in Callers : pc'[k] \in {"term", "alive"} => ~woken'[k],
         \A k \in Callers : pc'[k] \in {"wait", "wake"} =>
            \/ pc[k] \in {"wait", "wake"}
            \/ \A c \in Contexts : pc[c] \in UsePlaces => c \in terminate',
         \A k \in Callers : pc'[k] = "wait" /\ woken'[k] => pc[k] = "wait" /\ woken[k],
         UNCHANGED notified
  PROVE  WakeInv'
  BY DEF WakeInv, Holders, UsePlaces

\* Every step keeps WakeInv: the context lock, and the flag raised before the loop is woken.
LEMMA WakeStep ==
  ASSUME AlTypeOK, SInv, WakeInv, [AlNext]_alVars
  PROVE  WakeInv'
  <1> USE Names
  <1>1. ASSUME NEW c \in Contexts, Loops(c) PROVE WakeInv'
    <2>1. PICK v \in UsePlaces \cup {"exit"} : pc' = [pc EXCEPT ![c] = v]
      BY <1>1, LoopFacts
    <2>2. /\ pc[c] \in UsePlaces /\ pc'[c] = v
          /\ \A a \in Actors : a # c => pc'[a] = pc[a]
          /\ \A k \in Callers : pc'[k] = pc[k]
          /\ UNCHANGED <<terminate, woken>>
      BY <1>1, <2>1, LoopFacts DEF AlTypeOK
    <2>3. \A d \in Contexts : d # c => pc'[d] \notin UsePlaces
      <3>1. Active(c)
        BY <2>2 DEF Active, ActivePlaces
      <3> QED BY <2>2, <3>1, Alone DEF Active, ActivePlaces
    <2>4. v \in Holders => objLock' = c
      BY <1>1, <2>2 DEF WakeInv, Holders, Loops, Boot, InitGivesUp, SignalingReady, FirstConnect,
         LoopTop, ReconnectGoes, ReconnectEnds, Relock, PassEnds, FallsAsleep, WakesUp,
         SignalingInit, At, GoTo, AlTypeOK
    <2>5. v = "drowsy" => c \notin terminate
      BY <1>1, <2>2 DEF Loops, Boot, InitGivesUp, SignalingReady, FirstConnect,
         LoopTop, ReconnectGoes, ReconnectEnds, Relock, PassEnds, FallsAsleep, WakesUp,
         SignalingInit, At, GoTo, AlTypeOK
    <2>6. v = "asleep" => pc[c] = "drowsy"
      BY <1>1, <2>2 DEF Loops, Boot, InitGivesUp, SignalingReady, FirstConnect,
         LoopTop, ReconnectGoes, ReconnectEnds, Relock, PassEnds, FallsAsleep, WakesUp,
         SignalingInit, At, GoTo, AlTypeOK
    <2>7. \A d \in Contexts : d # c => pc'[d] \notin Holders \cup {"asleep"}
      BY <2>3 DEF Holders, UsePlaces
    <2>8. \A d \in Contexts : pc'[d] \in Holders => objLock' = d
      BY <2>2, <2>4, <2>7
    <2>9. \A k \in Callers : pc'[k] \in {"term", "alive"} => ~woken'[k]
      BY <2>2 DEF WakeInv
    <2>10. \A k \in Callers : pc[k] \in {"wait", "wake"} => c \in terminate
      BY <2>2 DEF WakeInv
    <2>11. \A k \in Callers : pc[k] = "wait" /\ woken[k] => pc[c] # "drowsy" /\ v # "drowsy"
      BY <2>5, <2>10 DEF WakeInv
    <2>12. \A d \in Contexts : d # c => pc'[d] # "asleep" /\ pc'[d] # "drowsy"
      BY <2>7 DEF Holders
    <2> QED BY <2>2, <2>3, <2>6, <2>8, <2>9, <2>10, <2>11, <2>12 DEF WakeInv
  <1>2. ASSUME NEW c \in Contexts, TaskExits(c) \/ TaskFinishes(c) \/ TaskParks(c) PROVE WakeInv'
    <2>1. /\ pc'[c] \notin UsePlaces /\ \A a \in Actors : a # c => pc'[a] = pc[a]
          /\ \A k \in Callers : pc'[k] = pc[k]
          /\ UNCHANGED <<objLock, terminate, woken, notified>>
      BY <1>2, ZenonT(60) DEF TaskExits, TaskFinishes, TaskParks, GoTo, AlTypeOK, UsePlaces, locks
    <2> QED BY <2>1, WakeKept DEF WakeInv
  <1>3. ASSUME NEW a \in Actors, Teardown(a) PROVE WakeInv'
    <2>1. /\ pc'[a] \notin UsePlaces \cup {"term", "alive", "wait", "wake"}
          /\ \A b \in Actors : b # a => pc'[b] = pc[b]
          /\ UNCHANGED <<objLock, woken, notified>> /\ terminate \subseteq terminate'
      BY <1>3 DEF Teardown, Drain, FreeClients, FreeContext, Uninitialize, ResetState, GoTo, AlTypeOK,
                  UsePlaces, locks
    <2> QED BY <2>1, WakeKept DEF WakeInv
  <1>4. ASSUME NEW k \in Callers,
               TermCall(k) \/ TermClaim(k) \/ WakeLock(k) \/ TermSees(k) \/ TermTimesOut(k)
               \/ TermReap(k) \/ TermRelease(k)
        PROVE  WakeInv'
    <2>1. /\ \A d \in Contexts : pc'[d] = pc[d]
          /\ \A l \in Callers : l # k => pc'[l] = pc[l] /\ woken'[l] = woken[l]
          /\ UNCHANGED <<objLock, terminate, notified>>
      BY <1>4 DEF TermCall, TermClaim, WakeLock, TermSees, TermTimesOut, TermReap, TermRelease,
                  GoTo, Return, AlTypeOK, locks
    <2>2. /\ pc'[k] # "wait"
          /\ pc'[k] = "wake" => pc[k] = "wait"
          /\ pc'[k] \in {"term", "alive"} => ~woken'[k]
      BY <1>4 DEF TermCall, TermClaim, WakeLock, TermSees, TermTimesOut, TermReap, TermRelease,
                  At, GoTo, Return, AlTypeOK, WakeInv
    <2> QED BY <2>1, <2>2, WakeKept DEF WakeInv
  <1>5. ASSUME NEW k \in Callers, TermRaise(k) PROVE WakeInv'
    <2>1. /\ pc[k] = "alive" /\ pc'[k] = "wait"
          /\ \A d \in Contexts : pc'[d] = pc[d]
          /\ \A l \in Callers : l # k => pc'[l] = pc[l]
          /\ UNCHANGED <<objLock, woken, notified>>
          /\ terminate' = IF ~tearingDown /\ context # NoOne THEN terminate \cup {context} ELSE terminate
      BY <1>5 DEF TermRaise, Raise, At, GoTo, AlTypeOK, locks
    <2>2. \A c \in Contexts : pc[c] \in UsePlaces => ~tearingDown /\ context = c
      BY DEF SInv, TaskInv, ContextInv, HoldPlaces
    <2>3. \A c \in Contexts : pc[c] \in UsePlaces => c \in terminate'
      BY <2>1, <2>2
    <2>4. ~woken[k]
      BY <2>1 DEF WakeInv
    <2> QED BY <2>1, <2>3, <2>4, WakeKept DEF WakeInv
  <1>6. ASSUME NEW k \in Callers, WakeTry(k) PROVE WakeInv'
    <2> DEFINE needed == ~tearingDown /\ context # NoOne
               got == needed /\ objLock \in {NoOne, k}
    <2>1. /\ pc[k] = "wake" /\ pc'[k] = "wait"
          /\ \A d \in Contexts : pc'[d] = pc[d]
          /\ \A l \in Callers : l # k => pc'[l] = pc[l] /\ woken'[l] = woken[l]
          /\ UNCHANGED <<objLock, terminate>>
      BY <1>6 DEF WakeTry, At, GoTo, AlTypeOK
    <2>2. woken'[k] => (needed => got)
      BY <1>6 DEF WakeTry, AlTypeOK
    <2>3. /\ notified => notified'
          /\ got /\ (\E c \in Contexts : pc[c] = "asleep") => notified'
      BY <1>6 DEF WakeTry
    <2>4. \A c \in Contexts : pc[c] \in UsePlaces => needed
      BY DEF SInv, TaskInv, ContextInv, HoldPlaces
    <2>5. \A c \in Contexts : woken'[k] /\ pc[c] = "asleep" => notified'
      BY <2>2, <2>3, <2>4 DEF UsePlaces
    <2>6. \A c \in Contexts : woken'[k] => pc[c] # "drowsy"
      BY <2>2, <2>4 DEF UsePlaces, WakeInv, Holders
    <2> QED BY <2>1, <2>3, <2>5, <2>6 DEF WakeInv
  <1>7. CASE RunCall \/ OwnerStep \/ \E c \in Contexts : InitCall(c)
    <2>1. /\ UNCHANGED <<objLock, terminate, notified, woken>>
          /\ pc'[Owner] \notin {"term", "alive", "wait", "wake"}
          /\ \A k \in Callers : k # Owner => pc'[k] = pc[k]
      BY <1>7 DEF OwnerStep, RunCall, InitContext, RunCheck, RunCreate, RunReturns, InitCall, GoTo,
                  Return, AlTypeOK, locks, SInv, TaskOwnerInv, Running, At
    <2>2. CASE \A c \in Contexts : pc'[c] = pc[c]
      BY <2>1, <2>2, WakeKept DEF WakeInv
    <2>3. CASE RunCreate
      <3>1. \A k \in Callers : k # Owner => pc'[k] = "idle"
        BY <2>1, <2>3 DEF RunCreate, At, SInv, TaskOwnerInv, Running
      <3>2. \A c \in Contexts : pc'[c] \in UsePlaces => pc'[c] \in {pc[c], "boot"}
        BY <2>3 DEF RunCreate, Return, GoTo, AlTypeOK
      <3>3. \A k \in Callers : pc'[k] \notin {"term", "alive", "wait", "wake"}
        BY <2>1, <3>1
      <3>4. \A c \in Contexts : pc'[c] \in Holders => pc'[c] = pc[c]
        BY <3>2 DEF Holders, UsePlaces
      <3>5. \A c \in Contexts : pc'[c] \in Holders => objLock' = c
        BY <2>1, <3>4 DEF WakeInv
      <3> QED BY <3>3, <3>5 DEF WakeInv
    <2>4. RunCreate \/ \A c \in Contexts : pc'[c] = pc[c]
      BY <1>7 DEF OwnerStep, RunCall, InitContext, RunCheck, RunReturns, InitCall, GoTo,
                  Return, AlTypeOK
    <2> QED BY <2>2, <2>3, <2>4
  <1>8. CASE LifeAside
    <2>1. UNCHANGED <<pc, woken, notified>> /\ terminate \subseteq terminate'
      BY <1>8 DEF LifeAside, PassTerminates, ReconnectStarts, WorkerLocks, WorkerUnlocks, Rest, alVars,
                  locks, Raise
    <2>2. \A c \in Contexts : objLock = c => objLock' = c
      BY <1>8 DEF LifeAside, PassTerminates, ReconnectStarts, WorkerLocks, WorkerUnlocks, Rest, alVars,
                  locks
    <2> QED BY <2>1, <2>2 DEF WakeInv
  <1> QED BY <1>1, <1>2, <1>3, <1>4, <1>5, <1>6, <1>7, <1>8 DEF AlNext, TaskStep, Loops, LifeAside, TermStep

-----------------------------------------------------------------------------
(***************************************************************************)
(* The theorems.                                                           *)
(***************************************************************************)

\* The invariant holds in the initial states.
LEMMA LifeInitInv ==
  ASSUME AlInit
  PROVE  LifeInv
  <1> USE Names
  <1>1. /\ \A k \in Callers : pc[k] = "idle"
        /\ \A c \in Contexts : pc[c] = "none"
    BY DEF AlInit
  <1>2. AlTypeOK
    BY DEF AlInit, AlTypeOK, CallerPlaces, TaskPlaces
  <1>3. PcInv
    BY <1>1 DEF PcInv, CallerPlaces, TaskPlaces
  <1>4. TaskInv /\ ClaimInv
    BY <1>1 DEF AlInit, TaskInv, ClaimInv, Active, ActivePlaces, UsePlaces, TeardownPlaces, Claims
  <1>5. TaskOwnerInv /\ GoalInv
    BY <1>1 DEF TaskOwnerInv, Running, GoalInv
  <1>6. ContextInv
    BY <1>1 DEF AlInit, ContextInv, HoldPlaces, PastPlaces, UsePlaces, ClientPlaces
  <1>7. WakeInv
    BY <1>1 DEF WakeInv, Holders
  <1> QED BY <1>2, <1>3, <1>4, <1>5, <1>6, <1>7 DEF LifeInv, SInv

\* The invariant holds in every behaviour.
LEMMA LifeInductive ==
  ASSUME ~EagerInit
  PROVE  AlSpec => []LifeInv
  <1>1. AlInit => LifeInv
    BY LifeInitInv
  <1>2. LifeInv /\ [AlNext]_alVars => LifeInv'
    <2> SUFFICES ASSUME LifeInv, [AlNext]_alVars PROVE LifeInv'
      OBVIOUS
    <2>1. AlTypeOK'
      BY LifeTypeStep DEF LifeInv, SInv
    <2>2. SInv'
      BY StructureStep DEF LifeInv
    <2>3. WakeInv'
      BY WakeStep DEF LifeInv
    <2> QED BY <2>1, <2>2, <2>3 DEF LifeInv
  <1> QED BY <1>1, <1>2, PTL DEF AlSpec

\* Whatever terminates, run task and reconnects do: nothing is freed under the run
\* task, two teardowns never run at once and the loop's wake-up is not lost.
THEOREM TeardownCorrect ==
  ASSUME ~EagerInit
  PROVE  AlSpec => []TeardownSafe
  <1>1. ASSUME LifeInv PROVE NoUseAfterFree
    <2> SUFFICES ASSUME NEW c \in Contexts
        PROVE /\ pc[c] \in UsePlaces => c \in allocated /\ context = c /\ config = c
              /\ pc[c] \in ClientPlaces => client = c
      BY DEF NoUseAfterFree
    <2>1. pc[c] \in UsePlaces => context = c
      BY <1>1 DEF LifeInv, SInv, ContextInv, HoldPlaces
    <2>2. context = c => allocated = {c} /\ config = c
      BY <1>1, Names DEF LifeInv, SInv, ContextInv
    <2>3. pc[c] \in ClientPlaces => client = c
      BY <1>1 DEF LifeInv, SInv, ContextInv
    <2> QED BY <2>1, <2>2, <2>3
  <1>2. ASSUME LifeInv PROVE OneTeardown
    <2> DEFINE T == {a \in Actors : Tearing(a)}
    <2>1. \A a, b \in T : a = b
      <3> SUFFICES ASSUME NEW a \in T, NEW b \in T PROVE a = b
        OBVIOUS
      <3>1. /\ a \in Contexts => Active(a)
            /\ a \in Callers => Claims(a)
            /\ b \in Contexts => Active(b)
            /\ b \in Callers => Claims(b)
        BY DEF Tearing, Active, ActivePlaces, Claims
      <3>2. a \in Contexts \cup Callers /\ b \in Contexts \cup Callers
        BY DEF Actors
      <3> QED BY <1>2, <3>1, <3>2 DEF LifeInv, SInv, TaskInv, ClaimInv
    <2>2. CASE T = {}
      BY <2>2, FS_EmptySet DEF OneTeardown
    <2>3. ASSUME NEW a \in T PROVE OneTeardown
      <3>1. T = {a}
        BY <2>1
      <3>2. Cardinality({a}) = 1
        BY FS_Singleton
      <3> QED BY <3>1, <3>2 DEF OneTeardown
    <2> QED BY <2>2, <2>3
  <1>3. ASSUME LifeInv PROVE WakeupNotLost
    BY <1>3 DEF LifeInv, WakeInv, WakeupNotLost
  <1>4. LifeInv => TeardownSafe
    BY <1>1, <1>2, <1>3 DEF TeardownSafe
  <1> QED BY <1>4, LifeInductive, PTL

\* A terminate that returns success leaves nothing of what it was called for.
THEOREM TerminateCorrect ==
  ASSUME ~EagerInit
  PROVE  AlSpec => TerminateCompletes
  <1> DEFINE Complete ==
        \A k \in Callers :
          (pc[k] \in {"reap", "release"} /\ pc'[k] = "idle") => goal[k] \notin allocated'
  <1>1. ASSUME LifeInv, [AlNext]_alVars PROVE [Complete]_alVars
    <2> SUFFICES ASSUME NEW k \in Callers, pc[k] \in {"reap", "release"}
        PROVE goal[k] \notin allocated'
      OBVIOUS
    <2>1. goal[k] \notin allocated
      BY <1>1 DEF LifeInv, SInv, GoalInv, ContextInv
    <2>2. ~InitContext
      BY <1>1, Names DEF LifeInv, SInv, TaskOwnerInv, InitContext, At
    <2>3. allocated' \subseteq allocated
      BY <1>1, <2>2 DEF AlNext, OwnerStep, RunCall, RunCheck, RunCreate, RunReturns, InitCall,
           TermCall, TermStep, TermTimesOut, TermClaim, TermRaise, WakeLock, WakeTry, TermSees,
           TermReap, TermRelease, Teardown, Drain, FreeClients, FreeContext, Uninitialize,
           ResetState, TaskStep, SignalingInit, PassTerminates, Boot, InitGivesUp,
           SignalingReady, FirstConnect, LoopTop, ReconnectStarts, ReconnectGoes, ReconnectEnds,
           Relock, PassEnds, FallsAsleep, WakesUp, TaskExits, TaskFinishes, TaskParks,
           WorkerLocks, WorkerUnlocks, Rest, taskOnly, alVars, shared
    <2> QED BY <2>1, <2>3
  <1>2. AlSpec => [][Complete]_alVars
    BY <1>1, LifeInductive, PTL DEF AlSpec
  <1> QED BY <1>2 DEF TerminateCompletes

-----------------------------------------------------------------------------
(***************************************************************************)
(* Theorems about AppRtcLink, for every length of a frame that is longer   *)
(* than the fragments that may be lost, and every bound on connections,    *)
(* frames and events.                                                      *)
(***************************************************************************)

Parts    == [frame : Nat, part : 1..Fragments]
Tags     == {"CONNECTED", "DISCONNECTED", "ERROR", "DATA"}
Events   == [ev : Tags, gen : Nat \ {0}, parts : Seq(Parts)]
Handled  == [ev : Tags \cup {"registered"}, gen : Nat \ {0}, parts : Seq(Parts)]

ArTypes ==
  /\ apState \in {"DISCONNECTED", "CONNECTING", "CONNECTED", "ERROR"}
  /\ gen \in Nat /\ wsClient \in Nat /\ epoch \in Nat /\ lost \in Nat
  /\ sock \in {"none", "starting", "up", "down"}
  /\ mutex \in {"none", "app", "timer"}
  /\ rejoin \in [gen : Nat, epoch : Nat]
  /\ jobs \in Seq(Events)
  /\ item \in Handled \cup {NoItem}
  /\ frame \in [gen : Nat, parts : Seq(Parts)]
  /\ rx \in Parts
  /\ heard \in Seq(Seq(Parts))

\* The client's generation is the current one, and no event is younger.
Generations ==
  /\ wsClient \in {0, gen} /\ (wsClient = 0 <=> sock = "none")
  /\ frame.gen <= gen
  /\ item.gen <= gen
  /\ \A i \in 1..Len(jobs) : jobs[i].gen <= gen /\ (wsClient = 0 => jobs[i].gen < gen)

RejoinKnown ==
  /\ rejoin.gen <= gen
  /\ rejoin # NoRejoin /\ rejoin.gen = gen => rejoin.epoch = epoch /\ wsClient = 0
  /\ mutex = "timer" => rejoin # NoRejoin /\ rejoin.gen = gen

ItemCurrent == apState = "CONNECTED" /\ item # NoItem => item.gen = wsClient

\* The frame a list of fragments begins with, and the fragments of one frame, all of them.
First(p) == p[1].frame
Whole(p) == Len(p) = Fragments /\ \A k \in 1..Fragments : p[k] = [frame |-> First(p), part |-> k]

\* Frames in the application's hands, in the item and in the queue are whole, and older ones
\* go before younger ones.
HeardOrder ==
  /\ \A i \in 1..Len(heard) : Whole(heard[i]) /\ First(heard[i]) < rx.frame
  /\ \A i, j \in 1..Len(heard) : i < j => First(heard[i]) < First(heard[j])
ItemOrder ==
  item.ev = "DATA" => /\ Whole(item.parts) /\ First(item.parts) < rx.frame
                      /\ \A i \in 1..Len(heard) : First(heard[i]) < First(item.parts)
JobsOrder ==
  /\ \A i \in 1..Len(jobs) : jobs[i].ev = "DATA" =>
       /\ Whole(jobs[i].parts) /\ First(jobs[i].parts) < rx.frame
       /\ \A j \in 1..Len(heard) : First(heard[j]) < First(jobs[i].parts)
       /\ item.ev = "DATA" => First(item.parts) < First(jobs[i].parts)
  /\ \A i, j \in 1..Len(jobs) : i < j /\ jobs[i].ev = "DATA" /\ jobs[j].ev = "DATA"
       => First(jobs[i].parts) < First(jobs[j].parts)
Order == HeardOrder /\ ItemOrder /\ JobsOrder

\* The fragments kept for the current client are the first ones of the frame that arrives,
\* or of the one before, with no more missing since than were lost.
KeptParts(f, r, l) ==
  LET L == Len(f.parts) m == First(f.parts) IN
  /\ L < Fragments
  /\ \A k \in 1..L : f.parts[k] = [frame |-> m, part |-> k]
  /\ \/ r.frame = m /\ L < r.part /\ r.part <= L + 1 + l
     \/ r.frame = m + 1 /\ Fragments + r.part <= L + 1 + l
FrameKept ==
  frame.parts # <<>> => /\ frame.gen # 0
                        /\ frame.gen = wsClient => sock = "up" /\ KeptParts(frame, rx, lost)

ArInv == /\ ArTypes /\ lost <= MaxLost
         /\ Generations /\ RejoinKnown /\ ItemCurrent /\ Order /\ FrameKept

\* The parts of an event stay within the types.
LEMMA JoinedType ==
  ASSUME ArTypes
  PROVE  /\ Joined(wsClient, rx, rx.part - 1) \in Seq(Parts)
         /\ Len(Joined(wsClient, rx, rx.part - 1)) \in Nat
  <1>1. frame.parts \in Seq(Parts) /\ <<>> \in Seq(Parts) /\ <<rx>> \in Seq(Parts) /\ rx \in Parts
    BY DEF ArTypes
  <1>2. Append(frame.parts, rx) \in Seq(Parts) /\ Append(<<>>, rx) \in Seq(Parts)
    BY <1>1, AppendProperties
  <1>3. Joined(wsClient, rx, rx.part - 1) \in Seq(Parts)
    BY <1>1, <1>2 DEF Joined
  <1> QED
    BY <1>3, LenProperties

\* The part that comes after another.
LEMMA NextPart ==
  ASSUME NEW r \in Parts
  PROVE  (IF r.part = Fragments THEN [frame |-> r.frame + 1, part |-> 1] ELSE [r EXCEPT !.part = @ + 1]) \in Parts
  <1>1. Fragments \in Nat \ {0} /\ r \in [frame : Nat, part : 1..Fragments]
    BY ArBounds DEF Parts
  <1>2. CASE r.part = Fragments
    BY <1>1, <1>2 DEF Parts
  <1>3. CASE r.part # Fragments
    <2>1. r.part + 1 \in 1..Fragments
      BY <1>1, <1>3
    <2> QED
      BY <1>1, <1>3, <2>1 DEF Parts
  <1> QED
    BY <1>2, <1>3

\* An event as the websocket task makes it.
LEMMA EventType ==
  ASSUME NEW ev \in Tags, NEW g \in Nat \ {0}, NEW parts \in Seq(Parts)
  PROVE  Event(ev, g, parts) \in Events
  BY DEF Event, Events

\* The head and the tail of the items.
LEMMA JobsTaken ==
  ASSUME ArTypes, jobs # <<>>
  PROVE  /\ Head(jobs) \in Events /\ Tail(jobs) \in Seq(Events)
         /\ Len(jobs) \in Nat /\ Len(jobs) > 0 /\ Len(Tail(jobs)) = Len(jobs) - 1
         /\ Head(jobs) = jobs[1]
         /\ \A i \in 1..Len(Tail(jobs)) : i + 1 \in 1..Len(jobs) /\ Tail(jobs)[i] = jobs[i+1]
  <1>1. jobs \in Seq(Events) /\ jobs # <<>>
    BY DEF ArTypes
  <1>2. /\ Head(jobs) \in Events /\ Tail(jobs) \in Seq(Events) /\ Len(Tail(jobs)) = Len(jobs) - 1
        /\ \A i \in 1..Len(Tail(jobs)) : Tail(jobs)[i] = jobs[i+1]
    BY <1>1, HeadTailProperties
  <1>3. Len(jobs) \in Nat /\ Len(jobs) # 0
    BY <1>1, LenProperties, EmptySeq
  <1> QED
    BY <1>1, <1>2, <1>3

\* One more item at the end.
LEMMA JobsMore ==
  ASSUME ArTypes, NEW e \in Events
  PROVE  /\ Append(jobs, e) \in Seq(Events) /\ Len(jobs) \in Nat /\ Len(Append(jobs, e)) = Len(jobs) + 1
         /\ \A i \in 1..Len(jobs) : Append(jobs, e)[i] = jobs[i]
         /\ Append(jobs, e)[Len(jobs) + 1] = e
  <1>1. jobs \in Seq(Events)
    BY DEF ArTypes
  <1> QED
    BY <1>1, AppendProperties, LenProperties

\* Two more items at the end.
LEMMA JobsMoreTwo ==
  ASSUME ArTypes, NEW d \in Events, NEW e \in Events
  PROVE  /\ jobs \o <<d, e>> \in Seq(Events) /\ Len(jobs) \in Nat /\ Len(jobs \o <<d, e>>) = Len(jobs) + 2
         /\ \A i \in 1..Len(jobs) : (jobs \o <<d, e>>)[i] = jobs[i]
         /\ (jobs \o <<d, e>>)[Len(jobs) + 1] = d /\ (jobs \o <<d, e>>)[Len(jobs) + 2] = e
  <1>1. jobs \in Seq(Events) /\ Len(jobs) \in Nat
    BY LenProperties DEF ArTypes
  <1>2. <<d, e>> \in Seq(Events) /\ Len(<<d, e>>) = 2 /\ <<d, e>>[1] = d /\ <<d, e>>[2] = e
    OBVIOUS
  <1>3. /\ jobs \o <<d, e>> \in Seq(Events) /\ Len(jobs \o <<d, e>>) = Len(jobs) + 2
        /\ \A i \in 1..Len(jobs) + 2 : (jobs \o <<d, e>>)[i] = IF i <= Len(jobs) THEN jobs[i] ELSE <<d, e>>[i - Len(jobs)]
    BY <1>1, <1>2, ConcatProperties
  <1> QED
    BY <1>1, <1>2, <1>3

\* The types hold at first.
LEMMA TypesInit == ArInit => ArTypes
  <1> SUFFICES ASSUME ArInit PROVE ArTypes
    OBVIOUS
  <1>1. jobs \in Seq(Events) /\ heard \in Seq(Seq(Parts)) /\ frame \in [gen : Nat, parts : Seq(Parts)]
    BY EmptySeq DEF ArInit, NoFrame
  <1>2. rx \in Parts
    BY ArBounds DEF ArInit, Parts
  <1> QED
    BY <1>1, <1>2 DEF ArInit, ArTypes, NoRejoin

\* Every step keeps the types.
LEMMA TypesKept ==
  ASSUME ArTypes, Generations, [ArNext]_arVars
  PROVE  ArTypes'
  <1> USE DEF ArTypes, arVars, connVars, timerVars, dataVars
  <1>1. CASE AppConnects
    BY <1>1 DEF AppConnects, Call
  <1>2. CASE AppDisconnects
    BY <1>2 DEF AppDisconnects, Call
  <1>3. CASE JoinFails
    BY <1>3 DEF JoinFails, Fault, NoRejoin
  <1>4. CASE JoinSucceeds
    BY <1>4 DEF JoinSucceeds, NoRejoin
  <1>5. CASE Rejoins
    BY <1>5 DEF Rejoins, NoRejoin
  <1>6. CASE SocketConnects
    <2>1. wsClient \in Nat \ {0}
      BY <1>6 DEF Generations, SocketConnects
    <2>2. Event("CONNECTED", wsClient, <<>>) \in Events
      BY <2>1, EventType, EmptySeq DEF Tags
    <2>3. jobs' \in Seq(Events)
      BY <1>6, <2>2, JobsMore DEF SocketConnects
    <2>4. rx' \in Parts
      BY <1>6, ArBounds DEF SocketConnects, Parts
    <2> QED
      BY <1>6, <2>3, <2>4 DEF SocketConnects
  <1>7. CASE SocketDrops
    <2>1. wsClient \in Nat \ {0}
      BY <1>7 DEF Generations, SocketDrops
    <2>2. Event("DISCONNECTED", wsClient, <<>>) \in Events /\ Event("ERROR", wsClient, <<>>) \in Events
      BY <2>1, EventType, EmptySeq DEF Tags
    <2>3. jobs' \in Seq(Events)
      <3>1. CASE jobs' = Append(jobs, Event("DISCONNECTED", wsClient, <<>>))
        BY <3>1, <2>2, JobsMore
      <3>2. CASE jobs' = jobs \o <<Event("ERROR", wsClient, <<>>), Event("DISCONNECTED", wsClient, <<>>)>>
        BY <3>2, <2>2, JobsMoreTwo
      <3> QED
        BY <1>7, <3>1, <3>2 DEF SocketDrops
    <2>4. frame' \in [gen : Nat, parts : Seq(Parts)]
      BY <1>7, EmptySeq DEF SocketDrops, NoFrame
    <2> QED
      BY <1>7, <2>3, <2>4 DEF SocketDrops, Fault
  <1>8. CASE SocketCloses
    <2>1. frame' \in [gen : Nat, parts : Seq(Parts)]
      BY <1>8, EmptySeq DEF SocketCloses, NoFrame
    <2> QED
      BY <1>8, <2>1 DEF SocketCloses, Fault
  <1>9. CASE SocketReads
    <2>1. wsClient \in Nat \ {0}
      <3>1. sock = "up"
        BY <1>9 DEF SocketReads
      <3> QED
        BY <3>1 DEF Generations
    <2>2. rx' \in Parts
      <3>1. rx' = IF rx.part = Fragments THEN [frame |-> rx.frame + 1, part |-> 1] ELSE [rx EXCEPT !.part = @ + 1]
        BY <1>9 DEF SocketReads
      <3>2. rx \in Parts
        OBVIOUS
      <3> QED
        BY <3>1, <3>2, NextPart
    <2>3. frame' \in [gen : Nat, parts : Seq(Parts)] /\ jobs' \in Seq(Events)
      <3>1. CASE UNCHANGED <<frame, jobs>>
        BY <3>1
      <3> DEFINE J == Joined(wsClient, rx, rx.part - 1)
      <3>2. CASE frame' = NoFrame /\ jobs' = Append(jobs, Event("DATA", wsClient, J))
        <4>1. Event("DATA", wsClient, J) \in Events
          BY <2>1, EventType, JoinedType DEF Tags
        <4> QED
          BY <3>2, <4>1, JobsMore, EmptySeq DEF NoFrame
      <3>3. CASE frame' = [gen |-> wsClient, parts |-> J] /\ UNCHANGED jobs
        BY <3>3, JoinedType
      <3> QED
        BY <1>9, <3>1, <3>2, <3>3 DEF SocketReads
    <2>4. lost' \in Nat
      BY <1>9 DEF SocketReads
    <2> QED
      BY <1>9, <2>2, <2>3, <2>4 DEF SocketReads
  <1>10. CASE WorkTakes
    <2>1. Head(jobs) \in Events /\ Tail(jobs) \in Seq(Events)
      BY <1>10, JobsTaken DEF WorkTakes
    <2>2. item' \in Handled \cup {NoItem}
      BY <1>10, <2>1 DEF WorkTakes, Handled, Events
    <2> QED
      BY <1>10, <2>1, <2>2 DEF WorkTakes
  <1>11. CASE WorkRegisters
    <2>1. item \in Handled
      BY <1>11 DEF WorkRegisters, NoItem
    <2>2. item' \in Handled \cup {NoItem}
      BY <1>11, <2>1 DEF WorkRegisters, Handled
    <2> QED
      BY <1>11, <2>2 DEF WorkRegisters
  <1>12. CASE WorkConnected
    BY <1>12 DEF WorkConnected
  <1>13. CASE WorkDisconnected
    BY <1>13 DEF WorkDisconnected
  <1>14. CASE WorkError
    BY <1>14 DEF WorkError
  <1>15. CASE WorkData
    <2>1. item.parts \in Seq(Parts)
      BY <1>15 DEF WorkData, NoItem, Handled
    <2>2. heard' \in Seq(Seq(Parts))
      BY <1>15, <2>1, AppendProperties DEF WorkData
    <2> QED
      BY <1>15, <2>2 DEF WorkData
  <1>16. CASE RegisterAnswered
    BY <1>16 DEF RegisterAnswered
  <1>17. CASE RoomTimerFires
    BY <1>17 DEF RoomTimerFires, Fault
  <1>18. CASE ReconnectFires
    BY <1>18 DEF ReconnectFires, TakenOver
  <1>19. CASE UNCHANGED arVars
    BY <1>19
  <1> QED
    BY <1>1, <1>2, <1>3, <1>4, <1>5, <1>6, <1>7, <1>8, <1>9, <1>10, <1>11, <1>12, <1>13, <1>14,
       <1>15, <1>16, <1>17, <1>18, <1>19 DEF ArNext, ArApp, ArWork

\* The generations of the client and of the events hold at first, and every step keeps them.
LEMMA GenerationsKept ==
  /\ ArInit => Generations
  /\ ArTypes /\ Generations /\ [ArNext]_arVars => Generations'
  <1>a. ArInit => Generations
    BY DEF ArInit, Generations, NoFrame, NoItem
  <1> SUFFICES ASSUME ArTypes, Generations, [ArNext]_arVars PROVE Generations'
    BY <1>a
  <1>b. (\A i \in 1..Len(jobs) : jobs[i].gen \in Nat) /\ item.gen \in Nat /\ frame.gen \in Nat
    <2>1. \A i \in 1..Len(jobs) : jobs[i] \in Events
      BY ElementOfSeq DEF ArTypes
    <2> QED
      BY <2>1 DEF ArTypes, Events, Handled, NoItem
  <1> USE DEF ArTypes, Generations, arVars, connVars, timerVars, dataVars
  <1>1. CASE UNCHANGED <<gen, wsClient, sock, frame, item, jobs>>
    BY <1>1
  <1>2. CASE AppDisconnects
    BY <1>2, <1>b DEF AppDisconnects
  <1>3. CASE JoinSucceeds
    <2>1. UNCHANGED <<frame, item, jobs>> /\ sock' = "starting"
      BY <1>3 DEF JoinSucceeds
    <2>2. CASE wsClient = 0
      <3>1. gen' = gen + 1 /\ wsClient' = gen + 1
        BY <1>3, <2>2 DEF JoinSucceeds
      <3> QED
        BY <2>1, <3>1, <1>b
    <2>3. CASE wsClient # 0
      <3>1. gen' = gen /\ wsClient' = wsClient
        BY <1>3, <2>3 DEF JoinSucceeds
      <3> QED
        BY <2>1, <2>3, <3>1
    <2> QED
      BY <2>2, <2>3
  <1>4. CASE SocketConnects
    <2>1. wsClient = gen /\ gen \in Nat \ {0} /\ wsClient # 0
      BY <1>4 DEF SocketConnects
    <2> DEFINE e == Event("CONNECTED", wsClient, <<>>)
    <2>2. e \in Events /\ e.gen = gen
      BY <2>1, EventType, EmptySeq DEF Tags, Event
    <2>3. jobs' = Append(jobs, e)
      BY <1>4, <2>1 DEF SocketConnects
    <2> HIDE DEF e
    <2>4. \A i \in 1..Len(jobs') : jobs'[i].gen <= gen
      BY <2>2, <2>3, JobsMore
    <2> QED
      BY <1>4, <2>1, <2>4 DEF SocketConnects
  <1>5. CASE SocketDrops
    <2>1. wsClient = gen /\ gen \in Nat \ {0} /\ wsClient # 0
      BY <1>5 DEF SocketDrops
    <2> DEFINE d == Event("DISCONNECTED", wsClient, <<>>)
               e == Event("ERROR", wsClient, <<>>)
    <2>2. d \in Events /\ d.gen = gen /\ e \in Events /\ e.gen = gen
      BY <2>1, EventType, EmptySeq DEF Tags, Event
    <2>3. jobs' = Append(jobs, d) \/ jobs' = jobs \o <<e, d>>
      BY <1>5 DEF SocketDrops
    <2> HIDE DEF d, e
    <2>4. \A i \in 1..Len(jobs') : jobs'[i].gen <= gen
      <3>1. CASE jobs' = Append(jobs, d)
        BY <2>2, <3>1, JobsMore
      <3>2. CASE jobs' = jobs \o <<e, d>>
        BY <2>2, <3>2, JobsMoreTwo
      <3> QED
        BY <2>3, <3>1, <3>2
    <2> QED
      BY <1>5, <2>1, <2>4 DEF SocketDrops, NoFrame
  <1>6. CASE SocketCloses
    BY <1>6 DEF SocketCloses, NoFrame
  <1>7. CASE SocketReads
    <2>1. wsClient = gen /\ gen \in Nat \ {0} /\ wsClient # 0 /\ UNCHANGED <<gen, wsClient, sock, item>>
      <3>1. sock = "up" /\ UNCHANGED <<gen, wsClient, sock, item>>
        BY <1>7 DEF SocketReads
      <3> QED
        BY <3>1
    <2> DEFINE J == Joined(wsClient, rx, rx.part - 1)
               e == Event("DATA", wsClient, J)
    <2>2. e \in Events /\ e.gen = gen
      BY <2>1, EventType, JoinedType DEF Tags, Event
    <2>3. \/ UNCHANGED <<frame, jobs>>
          \/ frame' = NoFrame /\ jobs' = Append(jobs, e)
          \/ frame' = [gen |-> wsClient, parts |-> J] /\ UNCHANGED jobs
      BY <1>7 DEF SocketReads
    <2> HIDE DEF e, J
    <2>4. frame'.gen <= gen
      BY <2>1, <2>3 DEF NoFrame
    <2>5. \A i \in 1..Len(jobs') : jobs'[i].gen <= gen
      <3>1. CASE jobs' = jobs
        BY <3>1
      <3>2. CASE jobs' = Append(jobs, e)
        <4>1. ASSUME NEW i \in 1..Len(jobs') PROVE jobs'[i] = e \/ (i \in 1..Len(jobs) /\ jobs'[i] = jobs[i])
          <5>1. /\ Len(jobs) \in Nat /\ Len(jobs') = Len(jobs) + 1
                /\ \A k \in 1..Len(jobs) : jobs'[k] = jobs[k]
                /\ jobs'[Len(jobs) + 1] = e
            BY <3>2, <2>2, JobsMore
          <5> QED
            BY <5>1
        <4> QED
          BY <2>1, <2>2, <4>1
      <3> QED
        BY <2>3, <3>1, <3>2
    <2> QED
      BY <2>1, <2>4, <2>5
  <1>8. CASE WorkTakes
    <2>1. \A i \in 1..Len(jobs') : jobs'[i].gen <= gen /\ (wsClient = 0 => jobs'[i].gen < gen)
      BY <1>8, JobsTaken DEF WorkTakes
    <2>2. item'.gen <= gen
      BY <1>8, JobsTaken DEF WorkTakes, NoItem
    <2> QED
      BY <1>8, <2>1, <2>2 DEF WorkTakes
  <1>9. CASE WorkRegisters
    <2>1. item \in Handled
      BY <1>9 DEF WorkRegisters, NoItem
    <2>2. item' = NoItem \/ item' = [item EXCEPT !.ev = "registered"]
      BY <1>9 DEF WorkRegisters
    <2>3. NoItem.gen <= gen /\ [item EXCEPT !.ev = "registered"].gen <= gen
      <3>1. NoItem.gen = 0 /\ [item EXCEPT !.ev = "registered"].gen = item.gen
        BY <2>1 DEF NoItem, Handled
      <3>2. gen \in Nat /\ item.gen <= gen
        BY DEF ArTypes, Generations
      <3> QED
        BY <3>1, <3>2
    <2>4. item'.gen <= gen
      BY <2>2, <2>3
    <2> QED
      BY <1>9, <2>4 DEF WorkRegisters
  <1>10. CASE item' = NoItem /\ UNCHANGED <<gen, wsClient, sock, frame, jobs>>
    BY <1>10 DEF NoItem
  <1>11. CASE ReconnectFires
    <2>1. \/ UNCHANGED <<gen, wsClient, sock>>
          \/ gen' = gen + 1 /\ wsClient' = 0 /\ sock' = "none"
      BY <1>11 DEF ReconnectFires, TakenOver
    <2>2. UNCHANGED <<frame, item, jobs>>
      BY <1>11 DEF ReconnectFires
    <2>3. CASE gen' = gen + 1 /\ wsClient' = 0 /\ sock' = "none"
      BY <2>2, <2>3, <1>b
    <2> QED
      BY <1>1, <2>1, <2>2, <2>3
  <1> QED
    BY <1>1, <1>2, <1>3, <1>4, <1>5, <1>6, <1>7, <1>8, <1>9, <1>10, <1>11
       DEF ArNext, ArApp, ArWork, AppConnects, JoinFails, Rejoins, WorkConnected, WorkDisconnected,
           WorkError, WorkData, RegisterAnswered, RoomTimerFires

\* So do the rejoin and the item.
LEMMA RejoinKept ==
  /\ ArInit => RejoinKnown /\ ItemCurrent
  /\ ArTypes /\ Generations /\ RejoinKnown /\ ItemCurrent /\ [ArNext]_arVars => RejoinKnown' /\ ItemCurrent'
  <1>a. ArInit => RejoinKnown /\ ItemCurrent
    BY DEF ArInit, RejoinKnown, ItemCurrent, NoRejoin, NoItem
  <1> SUFFICES ASSUME ArTypes, Generations, RejoinKnown, ItemCurrent, [ArNext]_arVars
               PROVE  RejoinKnown' /\ ItemCurrent'
    BY <1>a
  <1> USE DEF ArTypes, RejoinKnown, ItemCurrent, arVars, connVars, timerVars, dataVars
  <1>c. wsClient \in {0, gen} /\ (wsClient = 0 <=> sock = "none") /\ item.gen <= gen
    BY DEF Generations
  <1>1. CASE AppConnects
    BY <1>1 DEF AppConnects
  <1>2. CASE AppDisconnects
    BY <1>2 DEF AppDisconnects
  <1>3. CASE JoinFails
    BY <1>3 DEF JoinFails, NoRejoin
  <1>4. CASE JoinSucceeds
    <2>1. UNCHANGED <<apState, item, epoch>> /\ mutex' = "none"
      BY <1>4 DEF JoinSucceeds
    <2>2. rejoin' = NoRejoin \/ (mutex # "timer" /\ rejoin' = rejoin)
      BY <1>4 DEF JoinSucceeds
    <2>3. \/ wsClient = 0 /\ gen' = gen + 1 /\ wsClient' = gen + 1
          \/ wsClient # 0 /\ UNCHANGED <<gen, wsClient>>
      BY <1>4 DEF JoinSucceeds
    <2>4. apState = "CONNECTED" /\ item # NoItem => wsClient # 0
      BY <1>c DEF Handled
    <2>5. ItemCurrent'
      BY <2>1, <2>3, <2>4
    <2>6. RejoinKnown'
      <3>1. CASE rejoin' = NoRejoin
        BY <2>1, <2>3, <3>1 DEF NoRejoin
      <3>2. CASE rejoin' = rejoin
        BY <2>1, <2>3, <3>2
      <3> QED
        BY <2>2, <3>1, <3>2
    <2> QED
      BY <2>5, <2>6
  <1>5. CASE Rejoins
    BY <1>5 DEF Rejoins, NoRejoin
  <1>6. CASE UNCHANGED <<gen, wsClient, epoch, rejoin, mutex, apState, item>>
    BY <1>6
  <1>7. CASE SocketCloses
    BY <1>7 DEF SocketCloses
  <1>8. CASE WorkTakes
    <2>1. item' # NoItem => item'.gen = wsClient
      <3>1. CASE Head(jobs).gen = gen
        <4>1. Head(jobs) = jobs[1] /\ 1 \in 1..Len(jobs)
          BY <1>8, JobsTaken DEF WorkTakes
        <4>2. wsClient = gen
          BY <1>c, <3>1, <4>1 DEF Generations
        <4> QED
          BY <1>8, <3>1, <4>2 DEF WorkTakes
      <3>2. CASE Head(jobs).gen # gen
        BY <1>8, <3>2 DEF WorkTakes
      <3> QED
        BY <3>1, <3>2
    <2> QED
      BY <1>8, <2>1 DEF WorkTakes
  <1>9. CASE WorkRegisters
    <2>1. item \in Handled
      BY <1>9 DEF WorkRegisters, NoItem
    <2>2. item' # NoItem => item'.gen = item.gen /\ item # NoItem
      BY <1>9, <2>1 DEF WorkRegisters, Handled, NoItem
    <2> QED
      BY <1>9, <2>2 DEF WorkRegisters
  <1>10. CASE item' = NoItem /\ UNCHANGED <<gen, wsClient, epoch, rejoin, mutex>>
    BY <1>10
  <1>11. CASE RoomTimerFires
    BY <1>11 DEF RoomTimerFires
  <1>12. CASE ReconnectFires
    <2>1. UNCHANGED <<epoch, item, mutex>>
      BY <1>12 DEF ReconnectFires, TakenOver
    <2>2. /\ rejoin = NoRejoin /\ mutex = "none"
          /\ \/ UNCHANGED <<gen, wsClient, rejoin>> /\ apState' \in {apState, "ERROR"}
             \/ /\ gen' = gen + 1 /\ wsClient' = 0 /\ rejoin' = [gen |-> gen + 1, epoch |-> epoch]
                /\ apState # "CONNECTED" /\ apState' = apState
      BY <1>12 DEF ReconnectFires, TakenOver
    <2> QED
      BY <2>1, <2>2 DEF NoRejoin
  <1> QED
    BY <1>1, <1>2, <1>3, <1>4, <1>5, <1>6, <1>7, <1>8, <1>9, <1>10, <1>11, <1>12
       DEF ArNext, ArApp, ArWork, WorkConnected, WorkDisconnected, WorkError, WorkData,
           RegisterAnswered, SocketConnects, SocketDrops, SocketReads

\* Every item and every frame heard has a type.
LEMMA ElementsTyped ==
  ASSUME ArTypes
  PROVE  /\ \A i \in 1..Len(jobs) : jobs[i] \in Events
         /\ \A i \in 1..Len(heard) : heard[i] \in Seq(Parts)
         /\ Len(jobs) \in Nat /\ Len(heard) \in Nat
  BY ElementOfSeq, LenProperties DEF ArTypes

\* A whole frame has a number.
LEMMA WholeHasFirst ==
  ASSUME NEW p \in Seq(Parts), Whole(p)
  PROVE  First(p) \in Nat
  <1>1. Len(p) = Fragments /\ 1 \in 1..Fragments
    BY ArBounds DEF Whole
  <1>2. p[1] \in Parts
    BY <1>1, ElementOfSeq
  <1> QED
    BY <1>2 DEF First, Parts

\* What the websocket task puts together on a read: nothing, or the first fragments of the frame
\* that is arriving, up to this one.
LEMMA JoinedIsPrefix ==
  ASSUME ArTypes, FrameKept, lost <= MaxLost, MaxLost < Fragments, sock = "up",
         NEW J, J = Joined(wsClient, rx, rx.part - 1)
  PROVE  \/ J = <<>>
         \/ Len(J) = rx.part /\ \A k \in 1..rx.part : J[k] = [frame |-> rx.frame, part |-> k]
  <1> DEFINE kept == IF frame.gen = wsClient THEN frame.parts ELSE <<>>
  <1>1. /\ rx \in [frame : Nat, part : 1..Fragments] /\ frame.parts \in Seq(Parts)
        /\ Fragments \in Nat \ {0} /\ lost \in Nat /\ MaxLost \in Nat
        /\ rx = [frame |-> rx.frame, part |-> rx.part] /\ kept \in Seq(Parts) /\ Len(kept) \in Nat
    BY ArBounds, EmptySeq, LenProperties DEF ArTypes, Parts
  <1>2. CASE rx.part - 1 = 0
    <2>1. J = <<rx>> /\ rx.part = 1
      BY <1>1, <1>2 DEF Joined
    <2>2. Len(<<rx>>) = 1 /\ <<rx>>[1] = rx
      OBVIOUS
    <2> QED
      BY <1>1, <2>1, <2>2
  <1>3. CASE rx.part - 1 # 0 /\ Len(kept) = rx.part - 1
    <2>1. J = Append(kept, rx)
      BY <1>3 DEF Joined
    <2>2. kept # <<>> /\ frame.gen = wsClient /\ kept = frame.parts
      BY <1>3, EmptySeq
    <2>3. \A k \in 1..Len(kept) : kept[k] = [frame |-> rx.frame, part |-> k]
      <3> DEFINE L == Len(frame.parts) m == First(frame.parts)
      <3>1. /\ L < Fragments /\ L = rx.part - 1 /\ L \in Nat
            /\ \A k \in 1..L : frame.parts[k] = [frame |-> m, part |-> k]
            /\ \/ rx.frame = m
               \/ rx.frame = m + 1 /\ Fragments + rx.part <= L + 1 + lost
        BY <1>1, <1>3, <2>2 DEF FrameKept, KeptParts
      <3> HIDE DEF L, m
      <3>2. ~(Fragments + rx.part <= L + 1 + lost)
        BY <1>1, <3>1
      <3>3. rx.frame = m
        BY <3>1, <3>2
      <3> QED
        BY <2>2, <3>1, <3>3 DEF L
    <2>4. /\ Len(J) = Len(kept) + 1 /\ J[Len(kept) + 1] = rx
          /\ \A k \in 1..Len(kept) : J[k] = kept[k]
      <3> HIDE DEF kept
      <3>1. rx \in Parts
        BY DEF ArTypes
      <3> QED
        BY <1>1, <2>1, <3>1, AppendProperties
    <2> HIDE DEF kept
    <2>5. ASSUME NEW k \in 1..rx.part PROVE J[k] = [frame |-> rx.frame, part |-> k]
      <3>1. CASE k = rx.part
        BY <1>1, <1>3, <2>4, <3>1
      <3>2. CASE k # rx.part
        BY <1>1, <1>3, <2>3, <2>4, <3>2
      <3> QED
        BY <3>1, <3>2
    <2> QED
      BY <1>1, <1>3, <2>4, <2>5
  <1>4. CASE rx.part - 1 # 0 /\ Len(kept) # rx.part - 1
    BY <1>4 DEF Joined
  <1> QED
    BY <1>2, <1>3, <1>4

\* A read, in terms of what was put together.
LEMMA Read ==
  ASSUME ArTypes, FrameKept, lost <= MaxLost, MaxLost < Fragments, SocketReads
  PROVE  /\ sock = "up" /\ UNCHANGED <<gen, wsClient, sock, heard, item>>
         /\ rx' = IF rx.part = Fragments THEN [frame |-> rx.frame + 1, part |-> 1]
                  ELSE [rx EXCEPT !.part = @ + 1]
         /\ \E J \in Seq(Parts) :
              /\ J = <<>> \/ (Len(J) = rx.part /\ \A k \in 1..rx.part : J[k] = [frame |-> rx.frame, part |-> k])
              /\ \/ lost < MaxLost /\ lost' = lost + 1 /\ UNCHANGED <<frame, jobs>>
                 \/ Len(J) = Fragments /\ frame' = NoFrame /\ jobs' = Append(jobs, Event("DATA", wsClient, J))
                    /\ UNCHANGED lost
                 \/ Len(J) # Fragments /\ frame' = [gen |-> wsClient, parts |-> J] /\ UNCHANGED <<jobs, lost>>
  <1>1. sock = "up" /\ UNCHANGED <<gen, wsClient, sock, heard, item>>
        /\ rx' = IF rx.part = Fragments THEN [frame |-> rx.frame + 1, part |-> 1]
                 ELSE [rx EXCEPT !.part = @ + 1]
    BY DEF SocketReads, connVars
  <1> DEFINE J == Joined(wsClient, rx, rx.part - 1)
  <1>2. J \in Seq(Parts)
    BY JoinedType
  <1>3. J = <<>> \/ (Len(J) = rx.part /\ \A k \in 1..rx.part : J[k] = [frame |-> rx.frame, part |-> k])
    BY <1>1, JoinedIsPrefix
  <1>4. \/ lost < MaxLost /\ lost' = lost + 1 /\ UNCHANGED <<frame, jobs>>
        \/ Len(J) = Fragments /\ frame' = NoFrame /\ jobs' = Append(jobs, Event("DATA", wsClient, J))
           /\ UNCHANGED lost
        \/ Len(J) # Fragments /\ frame' = [gen |-> wsClient, parts |-> J] /\ UNCHANGED <<jobs, lost>>
    BY DEF SocketReads
  <1> HIDE DEF J
  <1> QED
    BY <1>1, <1>2, <1>3, <1>4

\* The fragments kept stay the first ones of a frame while the server sends the next one.
LEMMA ReadKeepsParts ==
  ASSUME NEW f \in [gen : Nat, parts : Seq(Parts)], NEW r \in Parts, NEW l \in Nat,
         f.parts # <<>>, KeptParts(f, r, l), l + 1 <= MaxLost, MaxLost < Fragments
  PROVE  KeptParts(f, IF r.part = Fragments THEN [frame |-> r.frame + 1, part |-> 1]
                      ELSE [r EXCEPT !.part = @ + 1], l + 1)
  <1> DEFINE q == IF r.part = Fragments THEN [frame |-> r.frame + 1, part |-> 1]
                  ELSE [r EXCEPT !.part = @ + 1]
             L == Len(f.parts)
             m == First(f.parts)
  <1>1. Fragments \in Nat \ {0} /\ MaxLost \in Nat /\ r.frame \in Nat /\ r.part \in 1..Fragments /\ L \in Nat
    BY ArBounds, LenProperties DEF Parts
  <1>2. L \in Nat \ {0}
    BY <1>1, EmptySeq
  <1>3. m \in Nat
    <2>1. 1 \in 1..Len(f.parts)
      BY <1>2
    <2>2. f.parts[1] \in Parts
      BY <2>1, ElementOfSeq
    <2> QED
      BY <2>2 DEF First, Parts
  <1>4. /\ L < Fragments
        /\ \A k \in 1..L : f.parts[k] = [frame |-> m, part |-> k]
        /\ \/ r.frame = m /\ L < r.part /\ r.part <= L + 1 + l
           \/ r.frame = m + 1 /\ Fragments + r.part <= L + 1 + l
    BY DEF KeptParts
  <1>5. CASE r.part = Fragments
    <2>1. q.frame = r.frame + 1 /\ q.part = 1
      BY <1>5
    <2> HIDE DEF q, L, m
    <2>2. r.frame = m /\ r.part <= L + 1 + l
      BY <1>1, <1>4, <1>5
    <2>3. q.frame = m + 1 /\ Fragments + q.part <= L + 1 + (l + 1)
      BY <1>1, <1>2, <1>5, <2>1, <2>2
    <2> QED
      BY <1>4, <2>3 DEF KeptParts, q, L, m
  <1>6. CASE r.part # Fragments
    <2>1. q.frame = r.frame /\ q.part = r.part + 1
      BY <1>6 DEF Parts
    <2> HIDE DEF q, L, m
    <2>2. \/ q.frame = m /\ L < q.part /\ q.part <= L + 1 + (l + 1)
          \/ q.frame = m + 1 /\ Fragments + q.part <= L + 1 + (l + 1)
      BY <1>1, <1>2, <1>4, <2>1
    <2> QED
      BY <1>4, <2>2 DEF KeptParts, q, L, m
  <1> QED
    BY <1>5, <1>6

\* Fragments put together up to the one that came are the first ones of the frame that arrives.
LEMMA ReadMakesParts ==
  ASSUME NEW g \in Nat, NEW J \in Seq(Parts), NEW r \in Parts, NEW l \in Nat, J # <<>>,
         Len(J) = r.part, Len(J) # Fragments,
         \A k \in 1..r.part : J[k] = [frame |-> r.frame, part |-> k]
  PROVE  KeptParts([gen |-> g, parts |-> J],
                   IF r.part = Fragments THEN [frame |-> r.frame + 1, part |-> 1]
                   ELSE [r EXCEPT !.part = @ + 1], l)
  <1>1. Fragments \in Nat \ {0} /\ r.frame \in Nat /\ r.part \in 1..Fragments
    BY ArBounds DEF Parts
  <1>2. First(J) = r.frame
    <2>1. J[1] = [frame |-> r.frame, part |-> 1]
      BY <1>1
    <2> QED
      BY <2>1 DEF First
  <1> DEFINE q == [r EXCEPT !.part = @ + 1]
  <1>3. q.frame = r.frame /\ q.part = r.part + 1
    BY DEF Parts
  <1> HIDE DEF q
  <1>4. KeptParts([gen |-> g, parts |-> J], q, l)
    BY <1>1, <1>2, <1>3 DEF KeptParts
  <1> QED
    BY <1>4 DEF q

\* The fragments kept are sound at first, and every step keeps them so.
LEMMA FrameKeptKept ==
  /\ ArInit => FrameKept /\ lost <= MaxLost
  /\ ArTypes /\ Generations /\ FrameKept /\ lost <= MaxLost /\ MaxLost < Fragments /\ [ArNext]_arVars
     => FrameKept' /\ lost' <= MaxLost
  <1>a. ArInit => FrameKept /\ lost <= MaxLost
    BY ArBounds DEF ArInit, FrameKept, NoFrame
  <1> SUFFICES ASSUME ArTypes, Generations, FrameKept, lost <= MaxLost, MaxLost < Fragments, [ArNext]_arVars
               PROVE  FrameKept' /\ lost' <= MaxLost
    BY <1>a
  <1>t. wsClient \in {0, gen} /\ frame.gen <= gen /\ gen \in Nat /\ frame.gen \in Nat
        /\ lost \in Nat /\ MaxLost \in Nat /\ (wsClient = 0 <=> sock = "none")
    BY ArBounds DEF ArTypes, Generations
  <1>1. CASE UNCHANGED <<frame, wsClient, sock, rx, lost>>
    BY <1>1 DEF FrameKept
  <1>2. CASE UNCHANGED <<frame, lost>> /\ wsClient' = 0
    BY <1>2 DEF FrameKept
  <1>3. CASE JoinSucceeds
    <2>1. UNCHANGED <<frame, lost>> /\ sock # "up"
          /\ \/ wsClient' = gen + 1
             \/ wsClient' = wsClient
      BY <1>3 DEF JoinSucceeds, dataVars
    <2>2. frame.parts # <<>> => frame.gen # wsClient'
      BY <1>t, <2>1 DEF FrameKept
    <2> QED
      BY <2>1, <2>2 DEF FrameKept
  <1>4. CASE SocketConnects
    <2>1. UNCHANGED <<frame, lost, wsClient>> /\ sock # "up"
      BY <1>4 DEF SocketConnects
    <2> QED
      BY <2>1 DEF FrameKept
  <1>5. CASE frame' = NoFrame /\ UNCHANGED lost
    BY <1>5 DEF FrameKept, NoFrame
  <1>6. CASE SocketReads
    <2>1. /\ sock = "up" /\ UNCHANGED <<gen, wsClient, sock, heard, item>>
          /\ rx' = IF rx.part = Fragments THEN [frame |-> rx.frame + 1, part |-> 1]
                   ELSE [rx EXCEPT !.part = @ + 1]
      BY <1>6, Read
    <2>2. PICK J \in Seq(Parts) :
              /\ J = <<>> \/ (Len(J) = rx.part /\ \A k \in 1..rx.part : J[k] = [frame |-> rx.frame, part |-> k])
              /\ \/ lost < MaxLost /\ lost' = lost + 1 /\ UNCHANGED <<frame, jobs>>
                 \/ Len(J) = Fragments /\ frame' = NoFrame /\ jobs' = Append(jobs, Event("DATA", wsClient, J))
                    /\ UNCHANGED lost
                 \/ Len(J) # Fragments /\ frame' = [gen |-> wsClient, parts |-> J] /\ UNCHANGED <<jobs, lost>>
      BY <1>6, Read
    <2>3. wsClient # 0
      BY <2>1, <1>t
    <2>4. CASE lost < MaxLost /\ lost' = lost + 1 /\ UNCHANGED <<frame, jobs>>
      <3>1. ASSUME frame.parts # <<>>, frame.gen = wsClient PROVE KeptParts(frame, rx', lost')
        <4>1. KeptParts(frame, rx, lost) /\ frame \in [gen : Nat, parts : Seq(Parts)] /\ rx \in Parts
          BY <3>1 DEF FrameKept, ArTypes
        <4>2. lost + 1 <= MaxLost
          BY <1>t, <2>4
        <4> QED
          BY <1>t, <2>1, <2>4, <3>1, <4>1, <4>2, ReadKeepsParts
      <3>2. frame.parts # <<>> => frame.gen # 0
        BY DEF FrameKept
      <3>3. lost' <= MaxLost
        BY <1>t, <2>4
      <3> QED
        BY <2>1, <2>4, <3>1, <3>2, <3>3 DEF FrameKept
    <2>5. CASE Len(J) # Fragments /\ frame' = [gen |-> wsClient, parts |-> J] /\ UNCHANGED <<jobs, lost>>
      <3>1. ASSUME J # <<>> PROVE KeptParts(frame', rx', lost')
        <4>1. rx \in Parts
          BY DEF ArTypes
        <4> QED
          BY <1>t, <2>1, <2>2, <2>5, <3>1, <4>1, ReadMakesParts
      <3>2. frame'.gen = wsClient /\ frame'.parts = J
        BY <2>5
      <3> QED
        BY <1>t, <2>1, <2>3, <2>5, <3>1, <3>2 DEF FrameKept
    <2> QED
      BY <1>5, <2>2, <2>4, <2>5
  <1>7. CASE ReconnectFires
    <2>1. UNCHANGED <<frame, lost, rx>> /\ (wsClient' = 0 \/ UNCHANGED <<wsClient, sock>>)
      BY <1>7 DEF ReconnectFires, TakenOver, connVars, dataVars
    <2> QED
      BY <1>1, <1>2, <2>1
  <1> QED
    BY <1>1, <1>2, <1>3, <1>4, <1>5, <1>6, <1>7
       DEF ArNext, ArApp, ArWork, AppConnects, AppDisconnects, JoinFails, Rejoins, SocketDrops, SocketCloses,
           WorkTakes, WorkRegisters, WorkConnected, WorkDisconnected, WorkError, WorkData,
           RegisterAnswered, RoomTimerFires, arVars, connVars, dataVars

\* Every whole frame that is kept anywhere has a number.
LEMMA FirstsTyped ==
  ASSUME ArTypes, Order
  PROVE  /\ \A i \in 1..Len(heard) : First(heard[i]) \in Nat
         /\ \A i \in 1..Len(jobs) : jobs[i].ev = "DATA" => First(jobs[i].parts) \in Nat
         /\ item.ev = "DATA" => First(item.parts) \in Nat
  <1>1. \A i \in 1..Len(heard) : heard[i] \in Seq(Parts) /\ Whole(heard[i])
    BY ElementsTyped DEF Order, HeardOrder
  <1>2. \A i \in 1..Len(jobs) : jobs[i].ev = "DATA" => jobs[i].parts \in Seq(Parts) /\ Whole(jobs[i].parts)
    BY ElementsTyped DEF Order, JobsOrder, Events
  <1>3. item.ev = "DATA" => item.parts \in Seq(Parts) /\ Whole(item.parts)
    BY DEF ArTypes, Order, ItemOrder, Handled, NoItem
  <1> QED
    BY <1>1, <1>2, <1>3, WholeHasFirst

\* The order of what was received depends on nothing else.
LEMMA OrderUndisturbed ==
  ASSUME ArTypes, Order, rx'.frame \in Nat, rx'.frame >= rx.frame, UNCHANGED <<heard, jobs>>,
         item' = item \/ item'.ev # "DATA"
  PROVE  Order'
  <1>1. rx.frame \in Nat
    BY DEF ArTypes, Parts
  <1>2. /\ \A i \in 1..Len(heard) : First(heard[i]) \in Nat
        /\ \A i \in 1..Len(jobs) : jobs[i].ev = "DATA" => First(jobs[i].parts) \in Nat
        /\ item.ev = "DATA" => First(item.parts) \in Nat
    BY FirstsTyped
  <1>3. HeardOrder'
    BY <1>1, <1>2 DEF Order, HeardOrder
  <1>4. ItemOrder'
    BY <1>1, <1>2 DEF Order, ItemOrder
  <1>5. JobsOrder'
    BY <1>1, <1>2 DEF Order, JobsOrder
  <1> QED
    BY <1>3, <1>4, <1>5 DEF Order

\* Events without data at the end of the queue leave the order alone.
LEMMA OrderWithEvent ==
  ASSUME ArTypes, Order, rx'.frame \in Nat, rx'.frame >= rx.frame, UNCHANGED <<heard, item>>,
         NEW n \in Nat, jobs' \in Seq(Events), Len(jobs') = Len(jobs) + n,
         \A i \in 1..Len(jobs) : jobs'[i] = jobs[i],
         \A i \in 1..n : jobs'[Len(jobs) + i].ev # "DATA"
  PROVE  Order'
  <1>1. rx.frame \in Nat /\ Len(jobs) \in Nat
    BY ElementsTyped DEF ArTypes, Parts
  <1>2. /\ \A i \in 1..Len(heard) : First(heard[i]) \in Nat
        /\ \A i \in 1..Len(jobs) : jobs[i].ev = "DATA" => First(jobs[i].parts) \in Nat
        /\ item.ev = "DATA" => First(item.parts) \in Nat
    BY FirstsTyped
  <1>3. HeardOrder'
    BY <1>1, <1>2 DEF Order, HeardOrder
  <1>4. ItemOrder'
    BY <1>1, <1>2 DEF Order, ItemOrder
  <1>5. \A i \in 1..Len(jobs') : jobs'[i].ev = "DATA" => i \in 1..Len(jobs) /\ jobs'[i] = jobs[i]
    <2> SUFFICES ASSUME NEW i \in 1..Len(jobs'), i \notin 1..Len(jobs) PROVE jobs'[i].ev # "DATA"
      OBVIOUS
    <2>1. PICK k \in 1..n : Len(jobs) + k = i
      BY <1>1
    <2>2. jobs'[Len(jobs) + k].ev # "DATA"
      OBVIOUS
    <2> QED
      BY <2>1, <2>2
  <1>6. ASSUME NEW i \in 1..Len(jobs'), jobs'[i].ev = "DATA"
        PROVE  /\ Whole(jobs'[i].parts) /\ First(jobs'[i].parts) < rx'.frame
               /\ \A j \in 1..Len(heard) : First(heard[j]) < First(jobs'[i].parts)
               /\ item.ev = "DATA" => First(item.parts) < First(jobs'[i].parts)
    <2>1. i \in 1..Len(jobs) /\ jobs'[i] = jobs[i]
      BY <1>5, <1>6
    <2>2. First(jobs[i].parts) < rx.frame /\ First(jobs[i].parts) \in Nat
      BY <1>2, <1>6, <2>1 DEF Order, JobsOrder
    <2> QED
      BY <1>1, <1>6, <2>1, <2>2 DEF Order, JobsOrder
  <1>7. ASSUME NEW i \in 1..Len(jobs'), NEW j \in 1..Len(jobs'), i < j,
               jobs'[i].ev = "DATA", jobs'[j].ev = "DATA"
        PROVE  First(jobs'[i].parts) < First(jobs'[j].parts)
    BY <1>5, <1>7 DEF Order, JobsOrder
  <1>8. JobsOrder'
    BY <1>6, <1>7 DEF JobsOrder
  <1> QED
    BY <1>3, <1>4, <1>8 DEF Order

\* A whole frame that was just completed goes last.
LEMMA OrderWithFrame ==
  ASSUME ArTypes, Order, rx' = [frame |-> rx.frame + 1, part |-> 1], UNCHANGED <<heard, item>>,
         NEW e \in Events, Whole(e.parts), First(e.parts) = rx.frame, jobs' = Append(jobs, e)
  PROVE  Order'
  <1>1. rx.frame \in Nat /\ rx'.frame = rx.frame + 1
    BY DEF ArTypes, Parts
  <1>2. /\ \A i \in 1..Len(heard) : First(heard[i]) \in Nat
        /\ \A i \in 1..Len(jobs) : jobs[i].ev = "DATA" => First(jobs[i].parts) \in Nat
        /\ item.ev = "DATA" => First(item.parts) \in Nat
    BY FirstsTyped
  <1>3. HeardOrder'
    BY <1>1, <1>2 DEF Order, HeardOrder
  <1>4. ItemOrder'
    BY <1>1, <1>2 DEF Order, ItemOrder
  <1>5. /\ Len(jobs) \in Nat /\ Len(jobs') = Len(jobs) + 1
        /\ \A i \in 1..Len(jobs) : jobs'[i] = jobs[i]
        /\ jobs'[Len(jobs) + 1] = e
    BY JobsMore
  <1>6. \A i \in 1..Len(jobs') : (i \in 1..Len(jobs) /\ jobs'[i] = jobs[i]) \/ (i = Len(jobs) + 1 /\ jobs'[i] = e)
    BY <1>5
  <1>7. ASSUME NEW i \in 1..Len(jobs'), jobs'[i].ev = "DATA"
        PROVE  /\ Whole(jobs'[i].parts) /\ First(jobs'[i].parts) < rx'.frame
               /\ \A j \in 1..Len(heard) : First(heard[j]) < First(jobs'[i].parts)
               /\ item.ev = "DATA" => First(item.parts) < First(jobs'[i].parts)
    <2>1. CASE i \in 1..Len(jobs) /\ jobs'[i] = jobs[i]
      BY <1>1, <1>2, <1>7, <2>1 DEF Order, JobsOrder
    <2>2. CASE jobs'[i] = e
      BY <1>1, <2>2 DEF Order, HeardOrder, ItemOrder
    <2> QED
      BY <1>6, <2>1, <2>2
  <1>8. ASSUME NEW i \in 1..Len(jobs'), NEW j \in 1..Len(jobs'), i < j, jobs'[i].ev = "DATA", jobs'[j].ev = "DATA"
        PROVE  First(jobs'[i].parts) < First(jobs'[j].parts)
    <2>1. i \in 1..Len(jobs) /\ jobs'[i] = jobs[i]
      BY <1>5, <1>6, <1>8
    <2>2. CASE j \in 1..Len(jobs) /\ jobs'[j] = jobs[j]
      BY <1>8, <2>1, <2>2 DEF Order, JobsOrder
    <2>3. CASE jobs'[j] = e
      BY <1>8, <2>1, <2>3 DEF Order, JobsOrder
    <2> QED
      BY <1>6, <2>2, <2>3
  <1>9. JobsOrder'
    BY <1>7, <1>8 DEF JobsOrder
  <1> QED
    BY <1>3, <1>4, <1>9 DEF Order

\* The work queue's next item is older than those that stay.
LEMMA OrderTaken ==
  ASSUME ArTypes, Order, WorkTakes
  PROVE  Order'
  <1>1. /\ jobs' = Tail(jobs) /\ UNCHANGED <<heard, rx>> /\ item = NoItem /\ jobs # <<>>
        /\ item' = Head(jobs) \/ item' = NoItem
    BY DEF WorkTakes, dataVars
  <1>2. /\ Len(jobs) \in Nat /\ Len(jobs) > 0 /\ Len(jobs') = Len(jobs) - 1 /\ Head(jobs) = jobs[1]
        /\ \A i \in 1..Len(jobs') : i + 1 \in 1..Len(jobs) /\ jobs'[i] = jobs[i+1]
    BY <1>1, JobsTaken
  <1>3. HeardOrder'
    BY <1>1 DEF Order, HeardOrder
  <1>4. item'.ev = "DATA" => item' = jobs[1] /\ 1 \in 1..Len(jobs)
    BY <1>1, <1>2 DEF NoItem
  <1>5. ItemOrder'
    BY <1>1, <1>4 DEF Order, ItemOrder, JobsOrder
  <1>6. JobsOrder'
    <2>1. ASSUME NEW i \in 1..Len(jobs'), jobs'[i].ev = "DATA"
          PROVE  /\ Whole(jobs'[i].parts) /\ First(jobs'[i].parts) < rx'.frame
                 /\ \A j \in 1..Len(heard') : First(heard'[j]) < First(jobs'[i].parts)
                 /\ item'.ev = "DATA" => First(item'.parts) < First(jobs'[i].parts)
      <3>1. i + 1 \in 1..Len(jobs) /\ jobs'[i] = jobs[i+1] /\ 1 < i + 1 /\ i \in Nat
        BY <1>2
      <3> QED
        BY <1>1, <1>4, <2>1, <3>1 DEF Order, JobsOrder
    <2>2. ASSUME NEW i \in 1..Len(jobs'), NEW j \in 1..Len(jobs'), i < j,
                 jobs'[i].ev = "DATA", jobs'[j].ev = "DATA"
          PROVE  First(jobs'[i].parts) < First(jobs'[j].parts)
      <3>1. /\ i + 1 \in 1..Len(jobs) /\ jobs'[i] = jobs[i+1]
            /\ j + 1 \in 1..Len(jobs) /\ jobs'[j] = jobs[j+1]
        BY <1>2
      <3>2. i + 1 < j + 1
        <4>1. i \in Int /\ j \in Int /\ i < j
          BY <2>2
        <4> QED
          BY <4>1
      <3> QED
        BY <2>2, <3>1, <3>2 DEF Order, JobsOrder
    <2> QED
      BY <2>1, <2>2 DEF JobsOrder
  <1> QED
    BY <1>3, <1>5, <1>6 DEF Order

\* The application gets the frame of the item.
LEMMA OrderHeard ==
  ASSUME ArTypes, Order, WorkData
  PROVE  Order'
  <1>1. item.ev = "DATA" /\ item' = NoItem /\ heard' = Append(heard, item.parts) /\ UNCHANGED <<rx, jobs>>
    BY DEF WorkData
  <1>2. item.parts \in Seq(Parts) /\ Whole(item.parts) /\ First(item.parts) < rx.frame
        /\ heard \in Seq(Seq(Parts))
    BY <1>1 DEF ArTypes, Handled, NoItem, Order, ItemOrder
  <1>3. /\ Len(heard) \in Nat /\ Len(heard') = Len(heard) + 1
        /\ \A i \in 1..Len(heard) : heard'[i] = heard[i]
        /\ heard'[Len(heard) + 1] = item.parts
    BY <1>1, <1>2, AppendProperties, LenProperties
  <1>4. \A i \in 1..Len(heard') :
          (i \in 1..Len(heard) /\ heard'[i] = heard[i]) \/ (i = Len(heard) + 1 /\ heard'[i] = item.parts)
    BY <1>3
  <1>5. HeardOrder'
    <2>1. ASSUME NEW i \in 1..Len(heard') PROVE Whole(heard'[i]) /\ First(heard'[i]) < rx.frame
      BY <1>2, <1>4 DEF Order, HeardOrder
    <2>2. ASSUME NEW i \in 1..Len(heard'), NEW j \in 1..Len(heard'), i < j
          PROVE  First(heard'[i]) < First(heard'[j])
      <3>1. i \in 1..Len(heard) /\ heard'[i] = heard[i]
        BY <1>3, <1>4, <2>2
      <3>2. CASE j \in 1..Len(heard) /\ heard'[j] = heard[j]
        BY <2>2, <3>1, <3>2 DEF Order, HeardOrder
      <3>3. CASE heard'[j] = item.parts
        BY <1>1, <3>1, <3>3 DEF Order, ItemOrder
      <3> QED
        BY <1>4, <3>2, <3>3
    <2> QED
      BY <1>1, <2>1, <2>2 DEF HeardOrder
  <1>6. item'.ev # "DATA"
    BY <1>1 DEF NoItem
  <1>7. ItemOrder'
    BY <1>6 DEF ItemOrder
  <1>8. JobsOrder'
    <2>1. \A i \in 1..Len(jobs) : jobs[i].ev = "DATA" =>
            \A j \in 1..Len(heard') : First(heard'[j]) < First(jobs[i].parts)
      BY <1>1, <1>4 DEF Order, JobsOrder
    <2> QED
      BY <1>1, <1>6, <2>1 DEF Order, JobsOrder
  <1> QED
    BY <1>5, <1>7, <1>8 DEF Order

\* Order holds at first, and every step keeps it.
LEMMA OrderKept ==
  /\ ArInit => Order
  /\ ArTypes /\ Generations /\ FrameKept /\ Order /\ lost <= MaxLost /\ MaxLost < Fragments /\ [ArNext]_arVars
     => Order'
  <1>a. ArInit => Order
    BY DEF ArInit, Order, HeardOrder, ItemOrder, JobsOrder, NoItem
  <1> SUFFICES ASSUME ArTypes, Generations, FrameKept, Order, lost <= MaxLost, MaxLost < Fragments, [ArNext]_arVars
               PROVE  Order'
    BY <1>a
  <1>t. rx.frame \in Nat /\ rx'.frame \in Nat /\ jobs' \in Seq(Events) /\ Len(jobs) \in Nat
    <2>1. ArTypes'
      BY TypesKept
    <2> QED
      BY <2>1, ElementsTyped DEF ArTypes, Parts
  <1>1. CASE UNCHANGED <<heard, item, jobs, rx>>
    BY <1>1, <1>t, OrderUndisturbed
  <1>2. CASE SocketConnects
    <2>1. UNCHANGED <<heard, item>> /\ rx'.frame >= rx.frame
      BY <1>2, <1>t DEF SocketConnects
    <2>2. CASE jobs' = jobs
      BY <1>t, <2>1, <2>2, OrderUndisturbed
    <2>3. CASE jobs' # jobs
      <3> DEFINE e == Event("CONNECTED", wsClient, <<>>)
      <3>1. jobs' = Append(jobs, e)
        BY <1>2, <2>3 DEF SocketConnects
      <3>2. e \in Events /\ e.ev # "DATA"
        <4>1. wsClient \in Nat \ {0}
          BY <1>2 DEF SocketConnects, Generations, ArTypes
        <4> QED
          BY <4>1, EventType, EmptySeq DEF Tags, Event
      <3> HIDE DEF e
      <3>3. Len(jobs') = Len(jobs) + 1 /\ (\A i \in 1..Len(jobs) : jobs'[i] = jobs[i])
            /\ \A i \in 1..1 : jobs'[Len(jobs) + i].ev # "DATA"
        BY <3>1, <3>2, JobsMore
      <3> QED
        BY <1>t, <2>1, <3>3, OrderWithEvent
    <2> QED
      BY <2>2, <2>3
  <1>3. CASE SocketDrops
    <2>1. UNCHANGED <<heard, item, rx>>
      BY <1>3 DEF SocketDrops
    <2> DEFINE d == Event("DISCONNECTED", wsClient, <<>>)
               e == Event("ERROR", wsClient, <<>>)
    <2>2. d \in Events /\ d.ev # "DATA" /\ e \in Events /\ e.ev # "DATA"
      <3>1. wsClient \in Nat \ {0}
        BY <1>3 DEF SocketDrops, Generations, ArTypes
      <3> QED
        BY <3>1, EventType, EmptySeq DEF Tags, Event
    <2>3. jobs' = Append(jobs, d) \/ jobs' = jobs \o <<e, d>>
      BY <1>3 DEF SocketDrops
    <2> HIDE DEF d, e
    <2>4. CASE jobs' = Append(jobs, d)
      <3>1. Len(jobs') = Len(jobs) + 1 /\ (\A i \in 1..Len(jobs) : jobs'[i] = jobs[i])
            /\ \A i \in 1..1 : jobs'[Len(jobs) + i].ev # "DATA"
        BY <2>2, <2>4, JobsMore
      <3> QED
        BY <1>t, <2>1, <3>1, OrderWithEvent
    <2>5. CASE jobs' = jobs \o <<e, d>>
      <3>1. Len(jobs') = Len(jobs) + 2 /\ (\A i \in 1..Len(jobs) : jobs'[i] = jobs[i])
            /\ \A i \in 1..2 : jobs'[Len(jobs) + i].ev # "DATA"
        BY <2>2, <2>5, JobsMoreTwo
      <3> QED
        BY <1>t, <2>1, <3>1, OrderWithEvent
    <2> QED
      BY <2>3, <2>4, <2>5
  <1>4. CASE SocketReads
    <2>1. /\ sock = "up" /\ UNCHANGED <<gen, wsClient, sock, heard, item>>
          /\ rx' = IF rx.part = Fragments THEN [frame |-> rx.frame + 1, part |-> 1]
                   ELSE [rx EXCEPT !.part = @ + 1]
      BY <1>4, Read
    <2>2. rx'.frame >= rx.frame
      BY <1>t, <2>1 DEF ArTypes, Parts
    <2>3. CASE jobs' = jobs
      BY <1>t, <2>1, <2>2, <2>3, OrderUndisturbed
    <2>4. CASE jobs' # jobs
      <3>1. PICK J \in Seq(Parts) :
              /\ J = <<>> \/ (Len(J) = rx.part /\ \A k \in 1..rx.part : J[k] = [frame |-> rx.frame, part |-> k])
              /\ Len(J) = Fragments /\ jobs' = Append(jobs, Event("DATA", wsClient, J))
        BY <1>4, <2>4, Read
      <3>2. Len(J) = rx.part /\ rx.part = Fragments /\ \A k \in 1..Fragments : J[k] = [frame |-> rx.frame, part |-> k]
        BY <3>1, ArBounds, EmptySeq
      <3>3. Whole(J) /\ First(J) = rx.frame
        <4>1. J[1] = [frame |-> rx.frame, part |-> 1]
          BY <3>2, ArBounds
        <4> QED
          BY <3>2, <4>1 DEF Whole, First
      <3> DEFINE e == Event("DATA", wsClient, J)
      <3>4. e \in Events /\ e.parts = J
        <4>1. wsClient \in Nat \ {0}
          BY <2>1 DEF Generations, ArTypes
        <4> QED
          BY <4>1, EventType DEF Tags, Event
      <3>5. jobs' = Append(jobs, e)
        BY <3>1
      <3> HIDE DEF e
      <3> QED
        BY <2>1, <3>2, <3>3, <3>4, <3>5, OrderWithFrame
    <2> QED
      BY <2>3, <2>4
  <1>5. CASE WorkTakes
    BY <1>5, OrderTaken
  <1>6. CASE WorkData
    BY <1>6, OrderHeard
  <1>7. CASE WorkRegisters
    <2>1. UNCHANGED <<heard, jobs, rx>>
      BY <1>7 DEF WorkRegisters, dataVars
    <2>2. item' = NoItem \/ item' = [item EXCEPT !.ev = "registered"]
      BY <1>7 DEF WorkRegisters
    <2>3. item \in Handled
      BY <1>7 DEF WorkRegisters, NoItem, ArTypes
    <2>4. item'.ev # "DATA"
      BY <2>2, <2>3 DEF NoItem, Handled
    <2> QED
      BY <1>t, <2>1, <2>4, OrderUndisturbed
  <1>8. CASE item' = NoItem /\ UNCHANGED <<heard, jobs, rx>>
    <2>1. item'.ev # "DATA"
      BY <1>8 DEF NoItem
    <2> QED
      BY <1>t, <1>8, <2>1, OrderUndisturbed
  <1> QED
    BY <1>1, <1>2, <1>3, <1>4, <1>5, <1>6, <1>7, <1>8
       DEF ArNext, ArApp, ArWork, AppConnects, AppDisconnects, JoinFails, JoinSucceeds, Rejoins, SocketCloses,
           WorkConnected, WorkDisconnected, WorkError, RegisterAnswered, RoomTimerFires, ReconnectFires,
           arVars, connVars, dataVars

\* The whole invariant of the AppRTC client is inductive (apprtc_signaling.c), as long as fewer
\* fragments are lost than a frame has: the code tells the frames of one link apart by the offset only.
THEOREM RoomInductive == MaxLost < Fragments => (ArInit /\ [][ArNext]_arVars => []ArInv)
  <1> SUFFICES ASSUME MaxLost < Fragments PROVE ArInit /\ [][ArNext]_arVars => []ArInv
    OBVIOUS
  <1>1. ArInit => ArInv
    BY TypesInit, GenerationsKept, RejoinKept, FrameKeptKept, OrderKept DEF ArInv
  <1>2. ArInv /\ [ArNext]_arVars => ArInv'
    BY TypesKept, GenerationsKept, RejoinKept, FrameKeptKept, OrderKept DEF ArInv
  <1> QED
    BY <1>1, <1>2, PTL

\* Whatever is lost below that number and whoever reconnects when, the timer rejoins its own
\* session only, the application hears whole frames in order, and no event of a replaced client
\* takes a session down (apprtc_signaling.c:489-578, 926).
THEOREM RoomCorrect == MaxLost < Fragments => (ArInit /\ [][ArNext]_arVars => RoomSound)
  <1> SUFFICES ASSUME MaxLost < Fragments PROVE ArInit /\ [][ArNext]_arVars => RoomSound
    OBVIOUS
  <1>1. ArInit /\ [][ArNext]_arVars => []ArInv
    BY RoomInductive
  <1>2. ArInv => RejoinsOwnSession
    BY DEF ArInv, RejoinKnown, RejoinsOwnSession
  <1>3. ArInv => HeardWhole
    <2> SUFFICES ASSUME ArInv PROVE HeardWhole
      OBVIOUS
    <2>1. ASSUME NEW i \in 1..Len(heard)
          PROVE  heard[i] = [k \in 1..Fragments |-> [frame |-> heard[i][1].frame, part |-> k]]
      <3>1. heard[i] \in Seq(Parts) /\ Whole(heard[i])
        BY ElementsTyped DEF ArInv, Order, HeardOrder
      <3>2. heard[i] = [k \in 1..Len(heard[i]) |-> heard[i][k]] /\ Len(heard[i]) = Fragments
        BY <3>1 DEF Whole
      <3>3. \A k \in 1..Fragments : heard[i][k] = [frame |-> heard[i][1].frame, part |-> k]
        BY <3>1 DEF Whole, First
      <3> QED
        BY <3>2, <3>3
    <2>2. \A i, j \in 1..Len(heard) : i < j => heard[i][1].frame < heard[j][1].frame
      BY DEF ArInv, Order, HeardOrder, First
    <2> QED
      BY <2>1, <2>2 DEF HeardWhole
  <1>4. ArInv /\ [ArNext]_arVars =>
          [apState = "CONNECTED" /\ apState' # "CONNECTED" /\ item # NoItem /\ item' = NoItem => item.gen = wsClient]_arVars
    BY DEF ArInv, ItemCurrent
  <1> QED
    BY <1>1, <1>2, <1>3, <1>4, PTL DEF RoomSound, NoStaleTeardown
=============================================================================
