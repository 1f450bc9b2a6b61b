--------------------------- MODULE PendingProofs ----------------------------
(***************************************************************************)
(* Theorems about the buffer of signaling messages (PendingSignaling), for *)
(* every size of its arrays, every number of viewers, offers, candidates   *)
(* and losses of the link.                                                 *)
(*                                                                         *)
(* The operations of the buffer are recursive functions of an array; what  *)
(* they keep is shown of them place by place (Counting), as a set (In).    *)
(***************************************************************************)
EXTENDS PendingSignaling, FiniteSetTheorems, SequenceTheorems, WellFoundedInduction, TLAPS

----------------------------------------------------------------------------
(* PendingSignaling: the inductive invariant                               *)

PsAnswers  == [peer : Peers, gen : Nat, at : Nat]
PsIce      == [peer : Peers, gen : Nat, attempts : Nat]
PsMessages == [type : {"answer", "ice"}, peer : Peers, gen : Nat]
PsBuffers  == [answers : Seq(PsAnswers), ice : Seq(PsIce)]
FlushPlaces == {"idle", "round", "answers", "sendAnswer", "ice", "sendIce", "merge"}
FlushStates == [pc : FlushPlaces, round : Nat, i : Nat, now : Nat]
Reached     == [type : {"answer", "ice"}, gen : Nat]

OnePerPeer(s) == \A i, j \in DOMAIN s : s[i].peer = s[j].peer => i = j

\* What is in an array.
In(s) == {s[i] : i \in DOMAIN s}

PsTypes ==
  /\ pend \in PsBuffers /\ batch \in PsBuffers
  /\ OnePerPeer(pend.answers) /\ OnePerPeer(batch.answers)
  /\ batchOut \in BOOLEAN /\ purged \in SUBSET Peers /\ flushPeers \in SUBSET Peers
  /\ flush \in FlushStates
  /\ sending = NoMessage \/ sending \in PsMessages
  /\ gen \in [Peers -> Nat] /\ left \in [Peers -> Nat] /\ now \in Nat
  /\ wire \in [Peers -> Seq(Reached)]

\* Nothing is of an offer that was not made; a message that holds the lock is of the last one.
OffersMade ==
  /\ \A p \in Peers : left[p] <= gen[p] /\ \A i \in DOMAIN wire[p] : wire[p][i].gen <= gen[p]
  /\ \A e \in In(pend.answers) \cup In(batch.answers) \cup In(pend.ice) \cup In(batch.ice) :
       e.gen <= gen[e.peer]
  /\ sending # NoMessage => sending.gen = gen[sending.peer] /\ sending.gen > left[sending.peer]

\* The batch is out while a flush is under way, and its answers' peers are those whose messages
\* queue behind it.
BatchOut ==
  /\ ~Flushing => batch = Empty /\ ~batchOut /\ purged = {}
  /\ Flushing => batchOut /\ \A a \in In(batch.answers) : a.peer \in flushPeers
  /\ flush.pc = "sendAnswer" => flush.i \in DOMAIN batch.answers

AnswersSent == IF sending # NoMessage /\ sending.type = "answer" THEN {sending} ELSE {}

\* An answer that waits is newer than all its peer was sent; one in the buffer is newer than that
\* in the batch, and one that a sender holds is newer than both.
AnswersNewer ==
  /\ \A a \in In(pend.answers) \cup In(batch.answers) \cup AnswersSent :
       \A i \in DOMAIN wire[a.peer] : wire[a.peer][i].gen < a.gen
  /\ \A a \in In(batch.answers), b \in In(pend.answers) : a.peer = b.peer => a.gen < b.gen
  /\ \A a \in In(pend.answers) \cup In(batch.answers), b \in AnswersSent :
       a.peer = b.peer => a.gen < b.gen

\* A candidate on its way out has no answer of its peer in front of it: those that wait are newer.
CandidateFree ==
  flush.pc = "sendIce" =>
    /\ flush.i \in DOMAIN batch.ice
    /\ ~HasAnswer(batch, batch.ice[flush.i].peer)
    /\ \A a \in In(pend.answers) \cup AnswersSent :
         a.peer = batch.ice[flush.i].peer => batch.ice[flush.i].gen < a.gen

\* Of a purged peer the batch has only what is older than its leaving.
PurgedLeft ==
  \A e \in In(batch.answers) \cup In(batch.ice) : e.peer \in purged => e.gen <= left[e.peer]

\* What a viewer left behind is in the batch only, and then known to be purged.
LeftForgotten ==
  /\ \A e \in In(pend.answers) \cup In(pend.ice) : e.gen > left[e.peer]
  /\ \A e \in In(batch.answers) \cup In(batch.ice) : e.gen > left[e.peer] \/ e.peer \in purged

\* The purge list has room for every viewer.
PurgeFits == Cardinality(Peers) <= PurgedMax

\* The last answer to a viewer who is there, wherever it is.
AnswersKept ==
  client = "live" =>
    \A p \in Peers : gen[p] > left[p] =>
      \/ \E i \in DOMAIN wire[p] : wire[p][i] = [type |-> "answer", gen |-> gen[p]]
      \/ \E x \in In(pend.answers) \cup In(batch.answers) \cup AnswersSent : x.peer = p /\ x.gen = gen[p]
      \/ \E d \in gone : d.peer = p /\ d.gen = gen[p]

\* Only a live client sends.
LiveSends == client # "live" => sending = NoMessage

PsInv ==
  /\ PsTypes /\ OffersMade /\ BatchOut /\ AnswersNewer /\ CandidateFree /\ PurgedLeft
  /\ DeliveryOrder /\ AnswersKept
  /\ PurgeFits => LeftForgotten
  /\ FreedUnused /\ LiveSends

----------------------------------------------------------------------------
(* Induction by a least counterexample.  A function that is defined from   *)
(* its value at the number before exists and keeps what each step keeps,   *)
(* or there were a least number up to which it did not.                    *)

\* A set of natural numbers has a least element.
LEMMA LeastNumber ==
  ASSUME NEW S \in SUBSET Nat, S # {}
  PROVE  \E m \in S : \A x \in S : m <= x
  <1>1. \E m \in S : \A x \in S : <<x, m>> \notin OpToRel(<, Nat)
    BY NatLessThanWellFounded, WFMin
  <1>2. OpToRel(<, Nat) = {ss \in Nat \X Nat : ss[1] < ss[2]}
    BY Zenon DEF OpToRel
  <1>3. PICK m \in S : \A x \in S : <<x, m>> \notin {ss \in Nat \X Nat : ss[1] < ss[2]}
    BY <1>1, <1>2
  <1>4. \A x \in S : ~(x < m)
    BY <1>3
  <1> QED
    BY <1>4

\* A set that has 0, and with every number below N the next one, has all up to N.
LEMMA Counting ==
  ASSUME NEW N \in Nat, NEW S, 0 \in S, \A n \in 0..N : n # N /\ n \in S => n + 1 \in S
  PROVE  N \in S
  <1> DEFINE bad == {n \in 0..N : n \notin S}
  <1> SUFFICES ASSUME bad # {} PROVE FALSE
    OBVIOUS
  <1>1. bad \in SUBSET Nat
    OBVIOUS
  <1>2. PICK m \in bad : \A x \in bad : m <= x
    <2> HIDE DEF bad
    <2> QED
      BY <1>1, LeastNumber
  <1>3. m \in 0..N /\ m \notin S /\ m # 0
    BY <1>2
  <1>4. m - 1 \in 0..N /\ m - 1 # N /\ m - 1 \notin bad /\ (m - 1) + 1 = m
    BY <1>2, <1>3
  <1> QED
    BY <1>3, <1>4

----------------------------------------------------------------------------
(* PendingSignaling: arrays as the sets of what is in them                 *)

LEMMA AppendIn ==
  ASSUME NEW T, NEW s \in Seq(T), NEW x \in T
  PROVE  /\ Append(s, x) \in Seq(T)
         /\ In(Append(s, x)) = In(s) \cup {x}
         /\ OnePerPeer(s) /\ (\A y \in In(s) : y.peer # x.peer) => OnePerPeer(Append(s, x))
  <1> DEFINE q == Append(s, x)
  <1>1. /\ q \in Seq(T) /\ Len(s) \in Nat /\ Len(q) = Len(s) + 1 /\ q[Len(s) + 1] = x
        /\ \A i \in 1..Len(s) : q[i] = s[i]
    OBVIOUS
  <1>2. DOMAIN s = 1..Len(s) /\ DOMAIN q = 1..(Len(s) + 1)
    BY <1>1
  <1> HIDE DEF q
  <1>3. \A i \in 1..(Len(s) + 1) : i \in 1..Len(s) \/ i = Len(s) + 1
    BY <1>1
  <1>4. In(q) = In(s) \cup {x}
    <2>1. \A y \in In(q) : y \in In(s) \cup {x}
      BY <1>1, <1>2, <1>3 DEF In
    <2>2. \A y \in In(s) \cup {x} : y \in In(q)
      BY <1>1, <1>2 DEF In
    <2> QED
      BY <2>1, <2>2
  <1>5. ASSUME OnePerPeer(s), \A y \in In(s) : y.peer # x.peer
        PROVE  OnePerPeer(q)
    <2> SUFFICES ASSUME NEW i \in DOMAIN q, NEW j \in DOMAIN q, q[i].peer = q[j].peer
                 PROVE  i = j
      BY DEF OnePerPeer
    <2>1. \A k \in 1..Len(s) : s[k].peer # x.peer
      BY <1>2, <1>5 DEF In
    <2>2. CASE i \in 1..Len(s) /\ j \in 1..Len(s)
      BY <1>1, <1>2, <1>5, <2>2 DEF OnePerPeer
    <2>3. CASE i = Len(s) + 1 \/ j = Len(s) + 1
      BY <1>1, <1>2, <1>3, <2>1, <2>3
    <2> QED
      BY <1>2, <1>3, <2>2, <2>3
  <1> QED
    BY <1>1, <1>4, <1>5 DEF q

LEMMA RemoveAtIn ==
  ASSUME NEW T, NEW s \in Seq(T), NEW k \in DOMAIN s
  PROVE  /\ RemoveAt(s, k) \in Seq(T)
         /\ In(RemoveAt(s, k)) = {s[j] : j \in DOMAIN s \ {k}}
         /\ OnePerPeer(s) => OnePerPeer(RemoveAt(s, k))
  <1> DEFINE L == Len(s)
             r == RemoveAt(s, k)
             from(i) == IF i < k THEN i ELSE i + 1
  <1>1. DOMAIN s = 1..L /\ L \in Nat /\ k \in 1..L
    OBVIOUS
  <1>2. /\ SubSeq(s, 1, k - 1) \in Seq(T) /\ Len(SubSeq(s, 1, k - 1)) = k - 1
        /\ \A i \in 1..(k - 1) : SubSeq(s, 1, k - 1)[i] = s[i]
    BY <1>1
  <1>3. /\ SubSeq(s, k + 1, L) \in Seq(T) /\ Len(SubSeq(s, k + 1, L)) = L - k
        /\ \A i \in 1..(L - k) : SubSeq(s, k + 1, L)[i] = s[k + i]
    BY <1>1
  <1>4. r \in Seq(T) /\ DOMAIN r = 1..(L - 1) /\ \A i \in 1..(L - 1) : r[i] = s[from(i)]
    <2> DEFINE u == SubSeq(s, 1, k - 1)
               v == SubSeq(s, k + 1, L)
    <2>1. r = u \o v
      BY DEF RemoveAt
    <2>2. u \in Seq(T) /\ v \in Seq(T) /\ Len(u) = k - 1 /\ Len(v) = L - k
      BY <1>2, <1>3
    <2>3. \A i \in 1..(L - 1) :
            s[from(i)] = IF i <= k - 1 THEN u[i] ELSE v[i - (k - 1)]
      <3> TAKE i \in 1..(L - 1)
      <3>1. CASE i < k
        BY <1>1, <1>2, <3>1
      <3>2. CASE ~(i < k)
        <4>1. i - (k - 1) \in 1..(L - k) /\ k + (i - (k - 1)) = i + 1 /\ ~(i <= k - 1)
          BY <1>1, <3>2
        <4> QED
          BY <1>3, <3>2, <4>1
      <3> QED
        BY <3>1, <3>2
    <2> HIDE DEF u, v
    <2>4. u \o v \in Seq(T) /\ Len(u \o v) = L - 1
      <3>1. u \o v \in Seq(T) /\ Len(u \o v) = Len(u) + Len(v)
        BY <2>2, ConcatProperties
      <3>2. (k - 1) + (L - k) = L - 1
        BY <1>1
      <3> QED
        BY <2>2, <3>1, <3>2
    <2>5. \A i \in 1..(L - 1) : (u \o v)[i] = IF i <= k - 1 THEN u[i] ELSE v[i - (k - 1)]
      BY <1>1, <2>2
    <2> QED
      BY <2>1, <2>3, <2>4, <2>5
  <1>5. \A i \in 1..(L - 1) : from(i) \in DOMAIN s \ {k}
    BY <1>1
  <1>6. \A j \in DOMAIN s \ {k} : \E i \in 1..(L - 1) : from(i) = j
    <2> TAKE j \in DOMAIN s \ {k}
    <2>1. CASE j < k
      BY <1>1, <2>1
    <2>2. CASE j > k
      <3>1. j - 1 \in 1..(L - 1) /\ from(j - 1) = j
        BY <1>1, <2>2
      <3> QED
        BY <3>1
    <2> QED
      BY <1>1, <2>1, <2>2
  <1>7. \A i, j \in 1..(L - 1) : from(i) = from(j) => i = j
    BY <1>1
  <1> HIDE DEF r, from
  <1>8. In(r) = {s[j] : j \in DOMAIN s \ {k}}
    <2>1. \A y \in In(r) : y \in {s[j] : j \in DOMAIN s \ {k}}
      BY <1>4, <1>5 DEF In
    <2>2. \A y \in {s[j] : j \in DOMAIN s \ {k}} : y \in In(r)
      BY <1>4, <1>6 DEF In
    <2> QED
      BY <2>1, <2>2
  <1>9. OnePerPeer(s) => OnePerPeer(r)
    BY <1>4, <1>5, <1>7 DEF OnePerPeer
  <1> QED
    BY <1>4, <1>8, <1>9 DEF r

LEMMA JoinIn ==
  ASSUME NEW T, NEW s \in Seq(T), NEW t \in Seq(T)
  PROVE  s \o t \in Seq(T) /\ In(s \o t) \subseteq In(s) \cup In(t)
  <1>1. /\ s \o t \in Seq(T) /\ Len(s \o t) = Len(s) + Len(t) /\ Len(s) \in Nat /\ Len(t) \in Nat
        /\ \A i \in 1..(Len(s) + Len(t)) : (s \o t)[i] = IF i <= Len(s) THEN s[i] ELSE t[i - Len(s)]
    OBVIOUS
  <1>2. DOMAIN (s \o t) = 1..(Len(s) + Len(t)) /\ DOMAIN s = 1..Len(s) /\ DOMAIN t = 1..Len(t)
    BY <1>1
  <1>3. ASSUME NEW i \in 1..(Len(s) + Len(t))
        PROVE  (s \o t)[i] \in In(s) \cup In(t)
    <2>1. CASE i <= Len(s)
      BY <1>1, <1>2, <2>1 DEF In
    <2>2. CASE ~(i <= Len(s))
      <3>1. i - Len(s) \in 1..Len(t)
        BY <1>1, <2>2
      <3> QED
        BY <1>1, <1>2, <2>2, <3>1 DEF In
    <2> QED
      BY <2>1, <2>2
  <1> QED
    BY <1>1, <1>2, <1>3 DEF In

KeptSteps(s, keep, f, n) ==
  f = [i \in 0..n |-> IF i = 0 THEN <<>>
                      ELSE IF i \in keep THEN Append(f[i - 1], s[i]) ELSE f[i - 1]]

LEMMA KeptExists ==
  ASSUME NEW s, NEW keep, NEW N \in Nat
  PROVE  \E f : KeptSteps(s, keep, f, N)
  <1> DEFINE S == {n \in 0..N : \E f : KeptSteps(s, keep, f, n)}
  <1>1. 0 \in S
    <2>1. KeptSteps(s, keep, [i \in 0..0 |-> <<>>], 0)
      BY DEF KeptSteps
    <2> QED
      BY <2>1
  <1>2. ASSUME NEW m \in 0..N, m # N, m \in S
        PROVE  m + 1 \in S
    <2>1. PICK f : KeptSteps(s, keep, f, m)
      BY <1>2
    <2> DEFINE g == [i \in 0..(m + 1) |-> IF i <= m THEN f[i]
                       ELSE IF i \in keep THEN Append(f[i - 1], s[i]) ELSE f[i - 1]]
    <2>2. \A i \in 0..(m + 1) : i # 0 => i - 1 \in 0..m /\ g[i - 1] = f[i - 1]
      OBVIOUS
    <2>3. \A i \in 0..(m + 1) : g[i] = IF i = 0 THEN <<>>
                      ELSE IF i \in keep THEN Append(g[i - 1], s[i]) ELSE g[i - 1]
      <3> TAKE i \in 0..(m + 1)
      <3>1. CASE i = m + 1
        BY <2>2, <3>1
      <3>2. CASE i # m + 1
        <4>1. i \in 0..m /\ g[i] = f[i]
          BY <3>2
        <4>2. f[i] = IF i = 0 THEN <<>> ELSE IF i \in keep THEN Append(f[i - 1], s[i]) ELSE f[i - 1]
          BY <2>1, <4>1 DEF KeptSteps
        <4> QED
          BY <2>2, <4>1, <4>2
      <3> QED
        BY <3>1, <3>2
    <2>4. g = [i \in 0..(m + 1) |-> g[i]]
      OBVIOUS
    <2> HIDE DEF g
    <2>5. KeptSteps(s, keep, g, m + 1)
      BY <2>3, <2>4 DEF KeptSteps
    <2> QED
      BY <1>2, <2>5
  <1> HIDE DEF S
  <1>3. \A m \in 0..N : m # N /\ m \in S => m + 1 \in S
    BY <1>2
  <1>4. N \in S
    BY <1>1, <1>3, Counting
  <1> QED
    BY <1>4 DEF S

LEMMA KeptIn ==
  ASSUME NEW T, NEW s \in Seq(T), NEW keep
  PROVE  /\ Kept(s, keep) \in Seq(T)
         /\ In(Kept(s, keep)) = {s[j] : j \in DOMAIN s \cap keep}
         /\ OnePerPeer(s) => OnePerPeer(Kept(s, keep))
  <1> DEFINE N == Len(s)
             up == CHOOSE f : KeptSteps(s, keep, f, N)
             Part(n) == {s[j] : j \in (1..n) \cap keep}
             Good(n, q) == /\ q \in Seq(T) /\ In(q) = Part(n)
                           /\ OnePerPeer(s) => OnePerPeer(q)
             S == {n \in 0..N : Good(n, up[n])}
  <1>1. KeptSteps(s, keep, up, N)
    BY KeptExists
  <1>2. Kept(s, keep) = up[N]
    BY DEF Kept, KeptSteps
  <1>3. N \in Nat /\ DOMAIN s = 1..N
    OBVIOUS
  <1> HIDE DEF up, N
  <1>4. up[0] = <<>>
    BY <1>1, <1>3 DEF KeptSteps
  <1>5. ASSUME NEW i \in 0..N, i # N
        PROVE  up[i + 1] = IF i + 1 \in keep THEN Append(up[i], s[i + 1]) ELSE up[i]
    <2>1. i + 1 \in 0..N /\ i + 1 # 0 /\ (i + 1) - 1 = i
      BY <1>3, <1>5
    <2>2. up[i + 1] = IF i + 1 \in keep THEN Append(up[(i + 1) - 1], s[i + 1]) ELSE up[(i + 1) - 1]
      BY <1>1, <2>1 DEF KeptSteps
    <2> QED
      BY <2>1, <2>2
  <1>6. 0 \in S
    <2>1. <<>> \in Seq(T) /\ DOMAIN <<>> = {} /\ Part(0) = {}
      OBVIOUS
    <2>2. In(<<>>) = {} /\ OnePerPeer(<<>>)
      BY <2>1 DEF In, OnePerPeer
    <2>3. Good(0, <<>>)
      BY <2>1, <2>2
    <2> HIDE DEF Good
    <2> QED
      BY <1>3, <1>4, <2>3
  <1>7. ASSUME NEW n \in 0..N, n # N, Good(n, up[n])
        PROVE  Good(n + 1, up[n + 1])
    <2>1. n + 1 \in 1..N /\ s[n + 1] \in T
      BY <1>3, <1>7
    <2>2. CASE n + 1 \notin keep
      <3>1. up[n + 1] = up[n]
        BY <1>5, <1>7, <2>2
      <3>2. (1..(n + 1)) \cap keep = (1..n) \cap keep
        BY <2>1, <2>2
      <3> QED
        BY <1>7, <3>1, <3>2
    <2>3. CASE n + 1 \in keep
      <3> DEFINE q == Append(up[n], s[n + 1])
      <3>1. up[n + 1] = q
        BY <1>5, <1>7, <2>3
      <3>2. up[n] \in Seq(T) /\ In(up[n]) = Part(n) /\ (OnePerPeer(s) => OnePerPeer(up[n]))
        BY <1>7
      <3>3. /\ q \in Seq(T) /\ In(q) = In(up[n]) \cup {s[n + 1]}
            /\ OnePerPeer(up[n]) /\ (\A y \in In(up[n]) : y.peer # s[n + 1].peer) => OnePerPeer(q)
        BY <2>1, <3>2, AppendIn
      <3>4. Part(n + 1) = Part(n) \cup {s[n + 1]}
        <4>1. (1..(n + 1)) \cap keep = ((1..n) \cap keep) \cup {n + 1}
          BY <2>1, <2>3
        <4> QED
          BY <4>1
      <3>5. ASSUME OnePerPeer(s)
            PROVE  \A y \in Part(n) : y.peer # s[n + 1].peer
        BY <1>3, <2>1, <3>5 DEF OnePerPeer
      <3> HIDE DEF q, Part
      <3>6. In(q) = Part(n + 1)
        BY <3>2, <3>3, <3>4
      <3>7. OnePerPeer(s) => OnePerPeer(q)
        BY <3>2, <3>3, <3>5
      <3>8. q \in Seq(T)
        BY <3>3
      <3> QED
        BY <3>1, <3>6, <3>7, <3>8
    <2> QED
      BY <2>2, <2>3
  <1>8. \A n \in 0..N : n # N /\ n \in S => n + 1 \in S
    <2> HIDE DEF Good
    <2> TAKE n \in 0..N
    <2>1. n # N => n + 1 \in 0..N
      BY <1>3
    <2> QED
      BY <1>7, <2>1
  <1>9. N \in S
    <2> HIDE DEF S
    <2> QED
      BY <1>3, <1>6, <1>8, Counting
  <1>10. Good(N, up[N]) /\ Part(N) = {s[j] : j \in DOMAIN s \cap keep}
    BY <1>3, <1>9
  <1> QED
    BY <1>2, <1>10

LEMMA WithoutIn ==
  ASSUME NEW T, NEW s \in Seq(T), NEW peers
  PROVE  /\ Without(s, peers) \in Seq(T)
         /\ In(Without(s, peers)) = {x \in In(s) : x.peer \notin peers}
         /\ OnePerPeer(s) => OnePerPeer(Without(s, peers))
  <1> DEFINE keep == {i \in DOMAIN s : s[i].peer \notin peers}
  <1>1. /\ Kept(s, keep) \in Seq(T)
        /\ In(Kept(s, keep)) = {s[j] : j \in DOMAIN s \cap keep}
        /\ OnePerPeer(s) => OnePerPeer(Kept(s, keep))
    BY KeptIn
  <1>2. {s[j] : j \in DOMAIN s \cap keep} = {x \in In(s) : x.peer \notin peers}
    BY DEF In
  <1> QED
    BY <1>1, <1>2 DEF Without

----------------------------------------------------------------------------
(* PendingSignaling: the operations of the buffer                          *)

LEMMA Answering ==
  \A b, p : HasAnswer(b, p) <=> \E x \in In(b.answers) : x.peer = p
  BY DEF HasAnswer, PeersOf, In

LEMMA BufferParts ==
  /\ \A b \in PsBuffers : /\ b.answers \in Seq(PsAnswers) /\ b.ice \in Seq(PsIce)
                         /\ b = [answers |-> b.answers, ice |-> b.ice]
  /\ \A ans \in Seq(PsAnswers), is \in Seq(PsIce) : [answers |-> ans, ice |-> is] \in PsBuffers
  BY DEF PsBuffers

\* A full array has an oldest answer.
LEMMA OldestThere ==
  ASSUME NEW b \in PsBuffers, b.answers # <<>>
  PROVE  Oldest(b) \in DOMAIN b.answers
  <1> DEFINE s == b.answers
             D == DOMAIN s
             first == {s[i].at : i \in D}
  <1>1. s \in Seq(PsAnswers) /\ Len(s) \in Nat /\ D = 1..Len(s) /\ Len(s) # 0
    <2>1. s \in Seq(PsAnswers) /\ s # <<>>
      BY BufferParts
    <2> HIDE DEF s
    <2>2. Len(s) \in Nat /\ D = 1..Len(s)
      BY <2>1
    <2>3. Len(s) # 0
      BY <2>1, EmptySeq
    <2> QED
      BY <2>1, <2>2, <2>3
  <1>2. \A i \in D : s[i].at \in Nat /\ i \in Nat
    <2>1. \A i \in D : s[i] \in PsAnswers /\ i \in Nat
      <3> HIDE DEF s
      <3> QED
        BY <1>1
    <2> QED
      BY <2>1 DEF PsAnswers
  <1>3. first \in SUBSET Nat /\ first # {}
    <2>1. 1 \in D
      BY <1>1
    <2> QED
      BY <1>2, <2>1
  <1>4. PICK t \in first : \A x \in first : t <= x
    <2> HIDE DEF first
    <2> QED
      BY <1>3, LeastNumber
  <1> DEFINE those == {i \in D : s[i].at = t}
  <1>5. those \in SUBSET Nat /\ those # {}
    BY <1>2, <1>4
  <1>6. PICK k \in those : \A x \in those : k <= x
    <2> HIDE DEF those
    <2> QED
      BY <1>5, LeastNumber
  <1>7. k \in D /\ \A j \in D : (s[k].at < s[j].at) \/ (s[k].at = s[j].at /\ k <= j)
    <2>1. k \in D /\ s[k].at = t
      BY <1>6
    <2>2. ASSUME NEW j \in D
          PROVE  (s[k].at < s[j].at) \/ (s[k].at = s[j].at /\ k <= j)
      <3>1. t <= s[j].at /\ t \in Nat /\ s[j].at \in Nat
        BY <1>2, <1>3, <1>4, <2>2
      <3>2. CASE s[j].at = t
        BY <1>6, <2>1, <2>2, <3>2
      <3>3. CASE s[j].at # t
        BY <2>1, <3>1, <3>3
      <3> QED
        BY <3>2, <3>3
    <2> QED
      BY <2>1, <2>2
  <1> HIDE DEF s, D
  <1>8. \E i \in D : \A j \in D : (s[i].at < s[j].at) \/ (s[i].at = s[j].at /\ i <= j)
    BY <1>7
  <1> QED
    BY <1>8 DEF Oldest, s, D

LEMMA Purging ==
  ASSUME NEW b \in PsBuffers, NEW p
  PROVE  LET c == PurgeIce(DropAnswer(b, p), p)
         IN /\ c \in PsBuffers
            /\ In(c.answers) = {x \in In(b.answers) : x.peer # p}
            /\ In(c.ice) = {x \in In(b.ice) : x.peer # p}
            /\ OnePerPeer(b.answers) => OnePerPeer(c.answers)
            /\ DropAnswer(b, p) \in PsBuffers /\ PurgeIce(b, p) \in PsBuffers
            /\ DropAnswer(b, p).ice = b.ice /\ DropAnswer(b, p).answers = c.answers
            /\ PurgeIce(b, p).answers = b.answers /\ PurgeIce(b, p).ice = c.ice
  <1>1. b.answers \in Seq(PsAnswers) /\ b.ice \in Seq(PsIce)
    BY BufferParts
  <1>2. /\ Without(b.answers, {p}) \in Seq(PsAnswers) /\ Without(b.ice, {p}) \in Seq(PsIce)
        /\ In(Without(b.answers, {p})) = {x \in In(b.answers) : x.peer # p}
        /\ In(Without(b.ice, {p})) = {x \in In(b.ice) : x.peer # p}
        /\ OnePerPeer(b.answers) => OnePerPeer(Without(b.answers, {p}))
    BY <1>1, WithoutIn
  <1>0. b = [answers |-> b.answers, ice |-> b.ice]
    BY BufferParts
  <1>3. /\ DropAnswer(b, p) = [answers |-> Without(b.answers, {p}), ice |-> b.ice]
        /\ PurgeIce(b, p) = [answers |-> b.answers, ice |-> Without(b.ice, {p})]
        /\ PurgeIce(DropAnswer(b, p), p) = [answers |-> Without(b.answers, {p}), ice |-> Without(b.ice, {p})]
    <2> DEFINE ans == Without(b.answers, {p})
               is == Without(b.ice, {p})
    <2>1. DropAnswer(b, p) = [b EXCEPT !.answers = ans] /\ PurgeIce(b, p) = [b EXCEPT !.ice = is]
      BY DEF DropAnswer, PurgeIce
    <2>2. PurgeIce(DropAnswer(b, p), p)
            = [DropAnswer(b, p) EXCEPT !.ice = Without(DropAnswer(b, p).ice, {p})]
      BY DEF PurgeIce
    <2> HIDE DEF ans, is
    <2>3. DropAnswer(b, p) = [answers |-> ans, ice |-> b.ice]
      BY <1>0, <2>1
    <2>4. PurgeIce(b, p) = [answers |-> b.answers, ice |-> is]
      BY <1>0, <2>1
    <2>5. DropAnswer(b, p).ice = b.ice
      BY <2>3
    <2>6. PurgeIce(DropAnswer(b, p), p) = [answers |-> ans, ice |-> is]
      <3>1. Without(DropAnswer(b, p).ice, {p}) = is
        BY <2>5 DEF is
      <3>2. PurgeIce(DropAnswer(b, p), p) = [DropAnswer(b, p) EXCEPT !.ice = is]
        BY <2>2, <3>1
      <3>3. PurgeIce(DropAnswer(b, p), p) = [[answers |-> ans, ice |-> b.ice] EXCEPT !.ice = is]
        BY <2>3, <3>2, Zenon
      <3> QED
        BY <3>3
    <2> QED
      BY <2>3, <2>4, <2>6 DEF ans, is
  <1> QED
    BY <1>1, <1>2, <1>3, BufferParts

LEMMA Pushing ==
  ASSUME NEW b \in PsBuffers, NEW c \in PsIce
  PROVE  /\ PushIce(b, c) \in PsBuffers /\ PushIce(b, c).answers = b.answers
         /\ In(PushIce(b, c).ice) \subseteq In(b.ice) \cup {c}
  <1>1. b.answers \in Seq(PsAnswers) /\ b.ice \in Seq(PsIce)
    BY BufferParts
  <1>2. Append(b.ice, c) \in Seq(PsIce) /\ In(Append(b.ice, c)) = In(b.ice) \cup {c}
    BY <1>1, AppendIn
  <1>3. b = [answers |-> b.answers, ice |-> b.ice]
    BY BufferParts
  <1>4. PushIce(b, c) = b \/ PushIce(b, c) = [answers |-> b.answers, ice |-> Append(b.ice, c)]
    BY <1>3 DEF PushIce
  <1>5. [answers |-> b.answers, ice |-> Append(b.ice, c)] \in PsBuffers
    <2> DEFINE is == Append(b.ice, c)
    <2>1. is \in Seq(PsIce)
      BY <1>2
    <2> HIDE DEF is
    <2>2. [answers |-> b.answers, ice |-> is] \in PsBuffers
      BY <1>1, <2>1 DEF PsBuffers
    <2> QED
      BY <2>2 DEF is
  <1>6. CASE PushIce(b, c) = b
    BY <1>6
  <1>7. CASE PushIce(b, c) = [answers |-> b.answers, ice |-> Append(b.ice, c)]
    <2> DEFINE is == Append(b.ice, c)
    <2>1. PushIce(b, c) = [answers |-> b.answers, ice |-> is]
      BY <1>7
    <2>2. In(is) = In(b.ice) \cup {c}
      BY <1>2
    <2>3. [answers |-> b.answers, ice |-> is] \in PsBuffers
      BY <1>5
    <2> HIDE DEF is
    <2>4. PushIce(b, c).answers = b.answers /\ PushIce(b, c).ice = is
      BY <2>1
    <2> QED
      BY <2>1, <2>2, <2>3, <2>4
  <1> QED
    BY <1>4, <1>6, <1>7

\* An answer is stored in the place of its peer's, or beside the others, of which it may evict one.
LEMMA Inserting ==
  ASSUME NEW b \in PsBuffers, NEW a \in PsAnswers, OnePerPeer(b.answers)
  PROVE  LET c == InsertAnswer(b, a)
         IN /\ c \in PsBuffers /\ OnePerPeer(c.answers)
            /\ In(c.answers) \subseteq In(b.answers) \cup {a} /\ a \in In(c.answers)
            /\ \A x \in In(c.answers) : x = a \/ x.peer # a.peer
            /\ \A x \in In(b.answers) : x \in In(c.answers) \cup Evicted(b, a) \/ x.peer = a.peer
            /\ In(c.ice) \subseteq In(b.ice)
            /\ Evicted(b, a) \subseteq In(b.answers)
            /\ HasAnswer(b, a.peer) => Evicted(b, a) = {}
  <1> DEFINE c == InsertAnswer(b, a)
             s == b.answers
             victims == {v.peer : v \in Evicted(b, a)}
  <1>1. s \in Seq(PsAnswers) /\ b.ice \in Seq(PsIce) /\ DOMAIN s = 1..Len(s) /\ Len(s) \in Nat
    BY DEF PsBuffers
  <1>2. CASE HasAnswer(b, a.peer)
    <2> DEFINE q == [i \in DOMAIN s |-> IF s[i].peer = a.peer THEN a ELSE s[i]]
    <2>1. c = [answers |-> q, ice |-> b.ice] /\ Evicted(b, a) = {}
      BY <1>2 DEF InsertAnswer, Replace, Evicted, PsBuffers
    <2>2. q \in Seq(PsAnswers) /\ DOMAIN q = DOMAIN s
      BY <1>1
    <2>3. PICK i0 \in DOMAIN s : s[i0].peer = a.peer
      BY <1>2 DEF HasAnswer, PeersOf
    <2>4. \A i \in DOMAIN s : q[i].peer = s[i].peer /\ q[i] = IF s[i].peer = a.peer THEN a ELSE s[i]
      OBVIOUS
    <2> HIDE DEF q
    <2>5. OnePerPeer(q)
      BY <2>2, <2>4 DEF OnePerPeer
    <2>6. /\ In(q) \subseteq In(s) \cup {a} /\ a \in In(q)
          /\ \A x \in In(q) : x = a \/ x.peer # a.peer
          /\ \A x \in In(s) : x \in In(q) \/ x.peer = a.peer
      BY <2>2, <2>3, <2>4 DEF In
    <2> QED
      BY <1>1, <2>1, <2>2, <2>5, <2>6 DEF PsBuffers
  <1>3. CASE ~HasAnswer(b, a.peer)
    <2> DEFINE w == Without(s, victims)
    <2>1. c = [answers |-> Append(w, a), ice |-> Without(b.ice, victims)]
      BY <1>3 DEF InsertAnswer
    <2>2. Evicted(b, a) \subseteq In(s)
      <3>1. CASE Len(s) < AnswerMax
        BY <3>1 DEF Evicted
      <3>2. CASE ~(Len(s) < AnswerMax)
        <4>1. s # <<>>
          BY <1>1, <3>2, BoundsAssumption
        <4> QED
          BY <1>3, <3>2, <4>1, OldestThere DEF Evicted, In
      <3> QED
        BY <3>1, <3>2
    <2>3. /\ w \in Seq(PsAnswers) /\ In(w) = {x \in In(s) : x.peer \notin victims} /\ OnePerPeer(w)
          /\ Without(b.ice, victims) \in Seq(PsIce)
          /\ In(Without(b.ice, victims)) = {x \in In(b.ice) : x.peer \notin victims}
      BY <1>1, WithoutIn
    <2>4. \A x \in In(s) : x.peer # a.peer
      BY <1>3, Answering
    <2> HIDE DEF w, victims
    <2>5. Append(w, a) \in Seq(PsAnswers) /\ In(Append(w, a)) = In(w) \cup {a} /\ OnePerPeer(Append(w, a))
      BY <2>3, <2>4, AppendIn
    <2>6. \A x, y \in In(s) : x.peer = y.peer => x = y
      BY DEF OnePerPeer, In
    <2>7. \A x \in In(s) : x \in In(w) \/ x \in Evicted(b, a)
      BY <2>2, <2>3, <2>6 DEF victims
    <2> QED
      BY <1>3, <2>1, <2>2, <2>3, <2>4, <2>5, <2>7 DEF PsBuffers
  <1> QED
    BY <1>2, <1>3

----------------------------------------------------------------------------
(* PendingSignaling: the merge                                             *)

MergeSteps(first, ans, f, n) ==
  f = [i \in 0..n |-> IF i = 0 THEN first ELSE MergeAnswer(f[i - 1], ans[i])]

LEMMA MergingExists ==
  ASSUME NEW first, NEW ans, NEW N \in Nat
  PROVE  \E f : MergeSteps(first, ans, f, N)
  <1> DEFINE S == {n \in 0..N : \E f : MergeSteps(first, ans, f, n)}
  <1>1. 0 \in S
    <2> DEFINE z == [i \in 0..0 |-> first]
    <2>1. MergeSteps(first, ans, z, 0)
      BY DEF MergeSteps
    <2> HIDE DEF z
    <2>2. \E f : MergeSteps(first, ans, f, 0)
      BY <2>1, Zenon
    <2>3. 0 \in 0..N
      OBVIOUS
    <2> QED
      BY <2>2, <2>3, Zenon
  <1>2. ASSUME NEW m \in 0..N, m # N, m \in S
        PROVE  m + 1 \in S
    <2>1. PICK f : MergeSteps(first, ans, f, m)
      BY <1>2
    <2> DEFINE g == [i \in 0..(m + 1) |-> IF i <= m THEN f[i] ELSE MergeAnswer(f[i - 1], ans[i])]
    <2>2. \A i \in 0..(m + 1) : i # 0 => i - 1 \in 0..m /\ g[i - 1] = f[i - 1]
      OBVIOUS
    <2>3. \A i \in 0..(m + 1) : g[i] = IF i = 0 THEN first ELSE MergeAnswer(g[i - 1], ans[i])
      <3> TAKE i \in 0..(m + 1)
      <3>1. CASE i = m + 1
        <4>1. ~(i <= m) /\ i # 0
          BY <3>1
        <4>2. g[i] = MergeAnswer(f[i - 1], ans[i]) /\ g[i - 1] = f[i - 1]
          BY <2>2, <4>1
        <4> HIDE DEF g
        <4> QED
          BY <4>1, <4>2
      <3>2. CASE i # m + 1
        <4>0. i \in 0..m /\ i <= m
          BY <3>2
        <4>1. i \in 0..m /\ g[i] = f[i]
          BY <4>0
        <4>2. f[i] = IF i = 0 THEN first ELSE MergeAnswer(f[i - 1], ans[i])
          BY <2>1, <4>1 DEF MergeSteps
        <4> QED
          BY <2>2, <4>1, <4>2
      <3> QED
        BY <3>1, <3>2
    <2>4. g = [i \in 0..(m + 1) |-> g[i]]
      OBVIOUS
    <2> HIDE DEF g
    <2>5. MergeSteps(first, ans, g, m + 1)
      BY <2>3, <2>4 DEF MergeSteps
    <2> QED
      BY <1>2, <2>5
  <1> HIDE DEF S
  <1>3. \A m \in 0..N : m # N /\ m \in S => m + 1 \in S
    BY <1>2
  <1>4. N \in S
    BY <1>1, <1>3, Counting
  <1> QED
    BY <1>4 DEF S

MergeStates == [m : PsBuffers, ice : Seq(PsIce), moved : SUBSET Peers, out : SUBSET PsAnswers]

\* After k answers of the batch: nothing came from elsewhere, and every answer is in the buffer,
\* was given up, or found one of its peer there.
MergedUpTo(m, b, skip, ans, acc, k) ==
  /\ acc \in MergeStates /\ OnePerPeer(acc.m.answers)
  /\ In(acc.m.answers) \subseteq In(m.answers) \cup {ans[i] : i \in 1..k}
  /\ In(acc.m.ice) \subseteq In(m.ice)
  /\ In(acc.ice) \subseteq {x \in In(b.ice) : x.peer \notin skip}
  /\ In(m.answers) \subseteq In(acc.m.answers) \cup acc.out
  /\ \A i \in 1..k : ans[i] \in In(acc.m.answers) \cup acc.out \/ HasAnswer(m, ans[i].peer)

LEMMA MergeStep ==
  ASSUME NEW m \in PsBuffers, NEW b \in PsBuffers, NEW skip, NEW ans \in Seq(PsAnswers),
         OnePerPeer(ans), NEW acc, NEW k \in Nat, k + 1 \in DOMAIN ans,
         MergedUpTo(m, b, skip, ans, acc, k)
  PROVE  MergedUpTo(m, b, skip, ans, MergeAnswer(acc, ans[k + 1]), k + 1)
  <1> DEFINE a == ans[k + 1]
             next == MergeAnswer(acc, a)
  <1>1. a \in PsAnswers /\ a.peer \in Peers
    <2>1. a \in PsAnswers
      BY ElementOfSeq
    <2> QED
      BY <2>1 DEF PsAnswers
  <1>0. \A i \in 1..(k + 1) : i \in 1..k \/ i = k + 1
    OBVIOUS
  <1>01. 1..k \subseteq 1..(k + 1) /\ k + 1 \in 1..(k + 1)
    OBVIOUS
  <1>02. DOMAIN ans = 1..Len(ans) /\ Len(ans) \in Nat
    BY LenProperties
  <1>03. \A L \in Nat : k + 1 \in 1..L => \A i \in 1..k : i \in 1..L /\ i # k + 1
    OBVIOUS
  <1>04. \A i \in 1..k : i \in DOMAIN ans /\ i # k + 1
    BY <1>02, <1>03, Zenon
  <1>2. {ans[i] : i \in 1..(k + 1)} = {ans[i] : i \in 1..k} \cup {a} /\ \A i \in 1..(k + 1) : i \in 1..k \/ i = k + 1
    BY <1>0, <1>01
  <1>3. /\ acc \in MergeStates /\ OnePerPeer(acc.m.answers)
        /\ In(acc.m.answers) \subseteq In(m.answers) \cup {ans[i] : i \in 1..k}
        /\ In(acc.m.ice) \subseteq In(m.ice)
        /\ In(acc.ice) \subseteq {x \in In(b.ice) : x.peer \notin skip}
        /\ In(m.answers) \subseteq In(acc.m.answers) \cup acc.out
        /\ \A i \in 1..k : ans[i] \in In(acc.m.answers) \cup acc.out \/ HasAnswer(m, ans[i].peer)
    BY DEF MergedUpTo
  <1>4. acc.m \in PsBuffers /\ acc.ice \in Seq(PsIce) /\ acc.moved \in SUBSET Peers /\ acc.out \in SUBSET PsAnswers
    BY <1>3 DEF MergeStates
  <1>5. CASE HasAnswer(acc.m, a.peer)
    <2>1. next = acc
      BY <1>5 DEF MergeAnswer
    <2>2. HasAnswer(m, a.peer)
      <3>1. PICK x \in In(acc.m.answers) : x.peer = a.peer
        BY <1>5, Answering
      <3>2. ASSUME NEW i \in 1..k, x = ans[i] PROVE FALSE
        <4>1. i \in DOMAIN ans /\ i # k + 1
          BY <1>04, <3>2
        <4> QED
          BY <3>1, <3>2, <4>1 DEF OnePerPeer
      <3>3. x \in In(m.answers)
        BY <1>3, <3>1, <3>2
      <3> QED
        BY <3>1, <3>3, Answering
    <2> HIDE DEF next
    <2>3. \A i \in 1..(k + 1) : ans[i] \in In(acc.m.answers) \cup acc.out \/ HasAnswer(m, ans[i].peer)
      BY <1>2, <1>3, <2>2
    <2>4. In(acc.m.answers) \subseteq In(m.answers) \cup {ans[i] : i \in 1..(k + 1)}
      BY <1>2, <1>3
    <2>5. MergedUpTo(m, b, skip, ans, acc, k + 1)
      BY <1>3, <2>3, <2>4 DEF MergedUpTo
    <2> QED
      BY <2>1, <2>5 DEF next
  <1>6. CASE ~HasAnswer(acc.m, a.peer) /\ Fits(acc.m, a)
    <2> DEFINE c == InsertAnswer(acc.m, a)
    <2>1. next = [m |-> c, ice |-> acc.ice, moved |-> acc.moved \cup {a.peer},
                  out |-> acc.out \cup Evicted(acc.m, a)]
      BY <1>3, <1>6 DEF MergeAnswer, MergeStates
    <2>2. /\ c \in PsBuffers /\ OnePerPeer(c.answers)
          /\ In(c.answers) \subseteq In(acc.m.answers) \cup {a} /\ a \in In(c.answers)
          /\ \A x \in In(acc.m.answers) : x \in In(c.answers) \cup Evicted(acc.m, a) \/ x.peer = a.peer
          /\ In(c.ice) \subseteq In(acc.m.ice)
          /\ Evicted(acc.m, a) \subseteq In(acc.m.answers)
      <3>1. OnePerPeer(acc.m.answers)
        BY <1>3
      <3> HIDE DEF a
      <3> QED
        BY <1>1, <1>4, <3>1, Inserting
    <2>3. \A x \in In(acc.m.answers) : x \in In(c.answers) \cup Evicted(acc.m, a)
      BY <1>6, <2>2, Answering
    <2> HIDE DEF c
    <2>4. In(acc.m.answers) \subseteq PsAnswers
      BY <1>4 DEF PsBuffers, In
    <2>5. next \in MergeStates
      <3>1. acc.moved \cup {a.peer} \in SUBSET Peers /\ acc.out \cup Evicted(acc.m, a) \in SUBSET PsAnswers
        BY <1>1, <1>4, <2>2, <2>4
      <3> DEFINE mv == acc.moved \cup {a.peer}
                 ou == acc.out \cup Evicted(acc.m, a)
      <3>2. next = [m |-> c, ice |-> acc.ice, moved |-> mv, out |-> ou]
        BY <2>1
      <3>3. mv \in SUBSET Peers /\ ou \in SUBSET PsAnswers
        BY <3>1
      <3> HIDE DEF mv, ou, next
      <3> QED
        BY <1>4, <2>2, <3>2, <3>3 DEF MergeStates
    <2>6. next.m = c /\ next.ice = acc.ice /\ next.out = acc.out \cup Evicted(acc.m, a)
      BY <2>1
    <2> HIDE DEF next, a
    <2>7. \A i \in 1..(k + 1) : ans[i] \in In(c.answers) \cup next.out \/ HasAnswer(m, ans[i].peer)
      BY <1>2, <1>3, <2>2, <2>3, <2>6 DEF a
    <2>8. In(c.answers) \subseteq In(m.answers) \cup {ans[i] : i \in 1..(k + 1)}
      BY <1>2, <1>3, <2>2
    <2>9. In(m.answers) \subseteq In(c.answers) \cup next.out
      BY <1>3, <2>3, <2>6
    <2>10. In(c.ice) \subseteq In(m.ice)
      BY <1>3, <2>2
    <2>11. MergedUpTo(m, b, skip, ans, next, k + 1)
      BY <1>3, <2>2, <2>5, <2>6, <2>7, <2>8, <2>9, <2>10 DEF MergedUpTo
    <2> QED
      BY <2>11 DEF next, a
  <1>7. CASE ~HasAnswer(acc.m, a.peer) /\ ~Fits(acc.m, a)
    <2> DEFINE w == Without(acc.ice, {a.peer})
    <2>1. next = [m |-> acc.m, ice |-> w, moved |-> acc.moved, out |-> acc.out \cup {a}]
      BY <1>3, <1>7 DEF MergeAnswer, MergeStates
    <2>2. w \in Seq(PsIce) /\ In(w) \subseteq In(acc.ice)
      BY <1>4, WithoutIn
    <2> HIDE DEF w
    <2>3. next \in MergeStates /\ next.m = acc.m /\ next.ice = w /\ next.out = acc.out \cup {a}
      <3> DEFINE ou == acc.out \cup {a}
      <3>1. next = [m |-> acc.m, ice |-> w, moved |-> acc.moved, out |-> ou] /\ ou \in SUBSET PsAnswers
        BY <1>1, <1>4, <2>1
      <3> HIDE DEF ou, next
      <3>2. next \in MergeStates /\ next.m = acc.m /\ next.ice = w /\ next.out = ou
        BY <1>4, <2>2, <3>1 DEF MergeStates
      <3> QED
        BY <3>2 DEF ou
    <2> HIDE DEF next, a
    <2>4. \A i \in 1..(k + 1) : ans[i] \in In(acc.m.answers) \cup next.out \/ HasAnswer(m, ans[i].peer)
      BY <1>2, <1>3, <2>3 DEF a
    <2>5. In(acc.m.answers) \subseteq In(m.answers) \cup {ans[i] : i \in 1..(k + 1)}
      BY <1>2, <1>3
    <2>6. MergedUpTo(m, b, skip, ans, next, k + 1)
      BY <1>3, <2>2, <2>3, <2>4, <2>5 DEF MergedUpTo
    <2> QED
      BY <2>6 DEF next, a
  <1> QED
    BY <1>5, <1>6, <1>7

\* What the merge makes of a buffer m and a batch b, with the peers in skip purged.
LEMMA Merging ==
  ASSUME NEW m \in PsBuffers, NEW b \in PsBuffers, NEW skip, OnePerPeer(m.answers), OnePerPeer(b.answers)
  PROVE  LET r == Merged(m, b, skip)
         IN /\ r.buf \in PsBuffers /\ OnePerPeer(r.buf.answers)
            /\ In(r.buf.answers) \subseteq In(m.answers) \cup {x \in In(b.answers) : x.peer \notin skip}
            /\ In(r.buf.ice) \subseteq In(m.ice) \cup {x \in In(b.ice) : x.peer \notin skip}
            /\ In(m.answers) \subseteq In(r.buf.answers) \cup r.out
            /\ \A x \in In(b.answers) :
                 x.peer \in skip \/ x \in In(r.buf.answers) \cup r.out \/ HasAnswer(m, x.peer)
  <1> DEFINE ans == Without(b.answers, skip)
             N == Len(ans)
             first == [m |-> m, ice |-> Without(b.ice, skip), moved |-> {}, out |-> {}]
             merging == CHOOSE f : MergeSteps(first, ans, f, N)
             Good(n) == MergedUpTo(m, b, skip, ans, merging[n], n)
             S == {n \in 0..N : Good(n)}
             acc == merging[N]
             lost == {p \in acc.moved : ~HasAnswer(acc.m, p)}
             rest == Without(acc.ice, lost)
  <1>1. /\ b.answers \in Seq(PsAnswers) /\ b.ice \in Seq(PsIce)
        /\ m.answers \in Seq(PsAnswers) /\ m.ice \in Seq(PsIce)
    BY DEF PsBuffers
  <1>2. /\ ans \in Seq(PsAnswers) /\ OnePerPeer(ans)
        /\ In(ans) = {x \in In(b.answers) : x.peer \notin skip}
        /\ Without(b.ice, skip) \in Seq(PsIce)
        /\ In(Without(b.ice, skip)) = {x \in In(b.ice) : x.peer \notin skip}
    BY <1>1, WithoutIn
  <1>3. N \in Nat /\ DOMAIN ans = 1..N
    BY <1>2
  <1>4. Merged(m, b, skip) = [buf |-> MergeIce(acc.m, rest), out |-> acc.out]
    BY DEF Merged, MergeSteps
  <1>5. MergeSteps(first, ans, merging, N)
    BY <1>3, MergingExists
  <1> HIDE DEF merging, ans, N
  <1>6. merging[0] = first
    BY <1>3, <1>5 DEF MergeSteps
  <1>7. ASSUME NEW i \in 0..N, i # N
        PROVE  merging[i + 1] = MergeAnswer(merging[i], ans[i + 1])
    <2>1. i + 1 \in 0..N /\ i + 1 # 0 /\ (i + 1) - 1 = i
      BY <1>3, <1>7
    <2>2. merging[i + 1] = MergeAnswer(merging[(i + 1) - 1], ans[i + 1])
      BY <1>5, <2>1 DEF MergeSteps
    <2> QED
      BY <2>1, <2>2
  <1>8. 0 \in S
    <2>1. first \in MergeStates
      BY <1>2 DEF MergeStates
    <2>2. MergedUpTo(m, b, skip, ans, first, 0)
      BY <1>2, <2>1 DEF MergedUpTo
    <2> HIDE DEF first
    <2>3. Good(0)
      BY <1>6, <2>2
    <2>4. 0 \in 0..N
      BY <1>3
    <2> QED
      BY <2>3, <2>4
  <1>9. \A n \in 0..N : n # N /\ n \in S => n + 1 \in S
    <2> SUFFICES ASSUME NEW n \in 0..N, n # N, Good(n)
                 PROVE  n + 1 \in 0..N /\ Good(n + 1)
      OBVIOUS
    <2>1. n \in Nat /\ n + 1 \in 0..N /\ n + 1 \in DOMAIN ans
      BY <1>3
    <2>2. MergedUpTo(m, b, skip, ans, MergeAnswer(merging[n], ans[n + 1]), n + 1)
      BY <1>2, <2>1, MergeStep
    <2> QED
      BY <1>7, <2>1, <2>2
  <1>10. N \in S
    <2> HIDE DEF S
    <2> QED
      BY <1>3, <1>8, <1>9, Counting
  <1>11. /\ acc \in MergeStates /\ OnePerPeer(acc.m.answers)
         /\ In(acc.m.answers) \subseteq In(m.answers) \cup {ans[i] : i \in 1..N}
         /\ In(acc.m.ice) \subseteq In(m.ice)
         /\ In(acc.ice) \subseteq {x \in In(b.ice) : x.peer \notin skip}
         /\ In(m.answers) \subseteq In(acc.m.answers) \cup acc.out
         /\ \A i \in 1..N : ans[i] \in In(acc.m.answers) \cup acc.out \/ HasAnswer(m, ans[i].peer)
    BY <1>10 DEF MergedUpTo
  <1>12. acc.m \in PsBuffers /\ acc.ice \in Seq(PsIce)
    BY <1>11 DEF MergeStates
  <1> HIDE DEF acc
  <1>13. rest \in Seq(PsIce) /\ In(rest) \subseteq In(acc.ice)
    BY <1>12, WithoutIn
  <1> HIDE DEF rest
  <1> DEFINE q == IF acc.m.ice = <<>> THEN rest
                  ELSE acc.m.ice \o Kept(rest, 1..(IceMax - Len(acc.m.ice)))
  <1>14. MergeIce(acc.m, rest) = [answers |-> acc.m.answers, ice |-> q]
    <2>1. MergeIce(acc.m, rest) = [acc.m EXCEPT !.ice = q]
      BY DEF MergeIce
    <2>2. acc.m = [answers |-> acc.m.answers, ice |-> acc.m.ice]
      BY <1>12, BufferParts
    <2> HIDE DEF q
    <2> QED
      BY <2>1, <2>2
  <1>15. q \in Seq(PsIce) /\ In(q) \subseteq In(acc.m.ice) \cup In(rest)
    <2> DEFINE more == Kept(rest, 1..(IceMax - Len(acc.m.ice)))
    <2>1. more \in Seq(PsIce) /\ In(more) \subseteq In(rest)
      <3>1. In(more) = {rest[j] : j \in DOMAIN rest \cap (1..(IceMax - Len(acc.m.ice)))}
        BY <1>13, KeptIn
      <3>2. more \in Seq(PsIce)
        BY <1>13, KeptIn
      <3> HIDE DEF more
      <3> QED
        BY <3>1, <3>2 DEF In
    <2>2. acc.m.ice \in Seq(PsIce)
      BY <1>12 DEF PsBuffers
    <2> HIDE DEF more
    <2>3. In(acc.m.ice \o more) \subseteq In(acc.m.ice) \cup In(more) /\ acc.m.ice \o more \in Seq(PsIce)
      BY <2>1, <2>2, JoinIn
    <2> QED
      BY <1>13, <2>1, <2>3 DEF more
  <1> HIDE DEF q
  <1>16. Merged(m, b, skip).buf.answers = acc.m.answers /\ Merged(m, b, skip).buf.ice = q
         /\ Merged(m, b, skip).out = acc.out /\ Merged(m, b, skip).buf = [answers |-> acc.m.answers, ice |-> q]
    BY <1>4, <1>14
  <1>17. {ans[i] : i \in 1..N} = In(ans)
    BY <1>3 DEF In
  <1>18. \A x \in In(b.answers) :
           x.peer \in skip \/ x \in In(acc.m.answers) \cup acc.out \/ HasAnswer(m, x.peer)
    <2> TAKE x \in In(b.answers)
    <2>1. CASE x.peer \notin skip
      <3>1. x \in In(ans)
        BY <1>2, <2>1
      <3>2. PICK i \in 1..N : x = ans[i]
        BY <1>17, <3>1
      <3> QED
        BY <1>11, <3>2
    <2> QED
      BY <2>1
  <1>19. Merged(m, b, skip).buf \in PsBuffers
    BY <1>12, <1>15, <1>16 DEF PsBuffers
  <1> QED
    BY <1>2, <1>11, <1>13, <1>15, <1>16, <1>17, <1>18, <1>19

----------------------------------------------------------------------------
(* PendingSignaling: the steps                                             *)

LEMMA PsInvInit == PsInit => PsInv
  <1> SUFFICES ASSUME PsInit
               PROVE  PsInv
    OBVIOUS
  <1> USE DEF PsInit, Empty, Idle
  <1>1. \A s : s = <<>> => In(s) = {} /\ OnePerPeer(s) /\ DOMAIN s = {}
    BY DEF In, OnePerPeer
  <1>2. In(pend.answers) = {} /\ In(pend.ice) = {} /\ In(batch.answers) = {} /\ In(batch.ice) = {}
    BY <1>1
  <1>3. \A p \in Peers : DOMAIN wire[p] = {}
    BY <1>1
  <1>4. PsTypes
    <2>1. \A T : <<>> \in Seq(T)
      OBVIOUS
    <2>2. pend \in PsBuffers /\ batch \in PsBuffers
      BY <2>1 DEF PsBuffers
    <2>3. wire \in [Peers -> Seq(Reached)]
      BY <2>1
    <2>4. flush \in FlushStates
      BY DEF FlushStates, FlushPlaces
    <2>5. gen \in [Peers -> Nat] /\ left \in [Peers -> Nat] /\ now \in Nat
      OBVIOUS
    <2>6. OnePerPeer(pend.answers) /\ OnePerPeer(batch.answers)
      BY <1>1
    <2> QED
      BY <2>2, <2>3, <2>4, <2>5, <2>6 DEF PsTypes
  <1>5. AnswersSent = {}
    BY DEF AnswersSent
  <1>6. OffersMade /\ BatchOut /\ AnswersNewer /\ CandidateFree /\ PurgedLeft /\ LeftForgotten
    BY <1>2, <1>3, <1>5 DEF OffersMade, BatchOut, AnswersNewer, CandidateFree, PurgedLeft,
       LeftForgotten, Flushing
  <1>7. DeliveryOrder /\ AnswersKept /\ FreedUnused /\ LiveSends
    BY <1>3 DEF DeliveryOrder, AnswerBeforeCandidates, NewestAnswerLast, AnswersKept, FreedUnused, LiveSends
  <1> QED
    BY <1>4, <1>6, <1>7 DEF PsInv

Data == <<pend, batch, batchOut, purged, flushPeers, sending, gen, left, wire, gone>>

\* Where the worker is may only matter to what it has in hand.
LEMMA SameData ==
  ASSUME PsInv, UNCHANGED Data, now' \in Nat, flush' \in FlushStates, client' = "live" => client = "live",
         BatchOut', CandidateFree', FreedUnused', LiveSends'
  PROVE  PsInv'
  <1> USE DEF Data
  <1>1. PsTypes'
    BY DEF PsInv, PsTypes
  <1>2. OffersMade' /\ AnswersNewer' /\ PurgedLeft' /\ (PurgeFits => LeftForgotten')
    BY DEF PsInv, OffersMade, AnswersNewer, PurgedLeft, LeftForgotten, AnswersSent
  <1>3. DeliveryOrder'
    BY DEF PsInv, DeliveryOrder, AnswerBeforeCandidates, NewestAnswerLast
  <1>4. AnswersKept'
    BY DEF PsInv, AnswersKept, AnswersSent
  <1> QED
    BY <1>1, <1>2, <1>3, <1>4 DEF PsInv, PurgeFits

LEMMA LinkSteps ==
  ASSUME PsInv, LinkStep \/ PsTick \/ Close \/ CloseSyncTimesOut \/ Rest
  PROVE  PsInv'
  <1> USE DEF buffer, psWorker, link, app, psVars
  <1>1. UNCHANGED <<Data, flush>> /\ now' \in Nat /\ (client' = "live" => client = "live")
        /\ (client' = client \/ (client' # "freed" /\ sending = NoMessage))
    BY DEF LinkStep, SocketDrops, SocketOpens, StateLeaves, StateConnected, PsTick, Close,
       CloseSyncTimesOut, Rest, Data, PsInv, PsTypes, Unlocked, LiveSends
  <1>2. BatchOut' /\ CandidateFree'
    BY <1>1 DEF PsInv, Data, BatchOut, Flushing, CandidateFree, HasAnswer, AnswersSent
  <1>3. FreedUnused' /\ LiveSends'
    BY <1>1 DEF PsInv, Data, FreedUnused, LiveSends
  <1>4. flush' \in FlushStates
    BY <1>1 DEF PsInv, PsTypes
  <1> QED
    BY <1>1, <1>2, <1>3, <1>4, SameData

\* What reaches a viewer comes last.
LEMMA Delivering ==
  ASSUME PsTypes, NEW m \in PsMessages, Deliver(m)
  PROVE  /\ wire' \in [Peers -> Seq(Reached)]
         /\ \A p \in Peers : p # m.peer => wire'[p] = wire[p]
         /\ \A p \in Peers : \A i \in DOMAIN wire'[p] :
              \/ i \in DOMAIN wire[p] /\ wire'[p][i] = wire[p][i]
              \/ p = m.peer /\ wire'[p][i] = [type |-> m.type, gen |-> m.gen]
                 /\ \A j \in DOMAIN wire'[p] : j <= i
         /\ \A p \in Peers : \A i \in DOMAIN wire[p] : i \in DOMAIN wire'[p] /\ wire'[p][i] = wire[p][i]
         /\ \E i \in DOMAIN wire'[m.peer] : wire'[m.peer][i] = [type |-> m.type, gen |-> m.gen]
  <1> DEFINE x == [type |-> m.type, gen |-> m.gen]
             s == wire[m.peer]
             q == Append(s, x)
  <1>1. m.peer \in Peers /\ x \in Reached
    BY DEF PsMessages, Reached
  <1>2. s \in Seq(Reached) /\ wire \in [Peers -> Seq(Reached)]
    BY <1>1 DEF PsTypes
  <1>3. wire' = [wire EXCEPT ![m.peer] = q]
    BY DEF Deliver
  <1> HIDE DEF x, s
  <1>4. /\ q \in Seq(Reached) /\ Len(s) \in Nat /\ DOMAIN s = 1..Len(s) /\ DOMAIN q = 1..(Len(s) + 1)
        /\ q[Len(s) + 1] = x /\ \A i \in 1..Len(s) : q[i] = s[i]
    BY <1>1, <1>2
  <1> HIDE DEF q
  <1>5. wire' \in [Peers -> Seq(Reached)] /\ wire'[m.peer] = q /\ \A p \in Peers : p # m.peer => wire'[p] = wire[p]
    BY <1>1, <1>2, <1>3, <1>4
  <1>6. \A i \in DOMAIN q : (i \in DOMAIN s /\ q[i] = s[i]) \/ (q[i] = x /\ \A j \in DOMAIN q : j <= i)
    BY <1>4
  <1>7. \A i \in DOMAIN s : i \in DOMAIN q /\ q[i] = s[i]
    BY <1>4
  <1>8. Len(s) + 1 \in DOMAIN q
    BY <1>4
  <1> QED
    BY <1>1, <1>4, <1>5, <1>6, <1>7, <1>8 DEF x, s

LEMMA DeliveredInOrder ==
  ASSUME PsTypes, DeliveryOrder, NEW m \in PsMessages, Deliver(m),
         m.type = "answer" => \A i \in DOMAIN wire[m.peer] : wire[m.peer][i].gen < m.gen
  PROVE  DeliveryOrder'
  <1>1. wire' \in [Peers -> Seq(Reached)] /\ wire \in [Peers -> Seq(Reached)] /\ m.gen \in Nat
    BY Delivering DEF PsTypes, PsMessages
  <1> SUFFICES ASSUME NEW p \in Peers, NEW i \in DOMAIN wire'[p], NEW j \in DOMAIN wire'[p], i < j,
                      wire'[p][j].type = "answer"
               PROVE  /\ wire'[p][i].type = "ice" => wire'[p][i].gen # wire'[p][j].gen
                      /\ wire'[p][i].type = "answer" => wire'[p][i].gen < wire'[p][j].gen
    BY DEF DeliveryOrder, AnswerBeforeCandidates, NewestAnswerLast
  <1>2. i \in Nat /\ j \in Nat /\ ~(j <= i)
    <2>1. DOMAIN wire'[p] = 1..Len(wire'[p])
      BY <1>1
    <2> QED
      BY <2>1
  <1>3. i \in DOMAIN wire[p] /\ wire'[p][i] = wire[p][i]
    BY <1>2, Delivering
  <1>4. CASE j \in DOMAIN wire[p] /\ wire'[p][j] = wire[p][j]
    BY <1>3, <1>4 DEF DeliveryOrder, AnswerBeforeCandidates, NewestAnswerLast
  <1>5. CASE p = m.peer /\ wire'[p][j] = [type |-> m.type, gen |-> m.gen]
    <2>1. m.type = "answer" /\ wire'[p][j].gen = m.gen
      BY <1>5
    <2>2. wire[p][i].gen < m.gen
      BY <1>3, <1>5, <2>1
    <2>3. wire[p][i] \in Reached
      BY <1>1, <1>3
    <2>4. wire[p][i].gen \in Nat
      BY <2>3 DEF Reached
    <2> QED
      BY <1>1, <1>3, <2>1, <2>2, <2>4
  <1> QED
    BY <1>4, <1>5, Delivering

LEMMA GivenUpKnown ==
  ASSUME NEW S, NEW why, NEW x \in S
  PROVE  \E d \in GivenUp(S, why) : d.peer = x.peer /\ d.gen = x.gen
  <1> DEFINE d == [peer |-> x.peer, gen |-> x.gen, why |-> why]
  <1>1. d \in GivenUp(S, why)
    BY DEF GivenUp
  <1>2. d.peer = x.peer /\ d.gen = x.gen
    OBVIOUS
  <1> QED
    BY <1>1, <1>2

LEMMA FewerViewers ==
  ASSUME NEW S, IsFiniteSet(S), NEW T \in SUBSET S, T # S
  PROVE  Cardinality(T) < Cardinality(S)
  <1>1. IsFiniteSet(T) /\ Cardinality(T) <= Cardinality(S) /\ (Cardinality(S) = Cardinality(T) => S = T)
    BY FS_Subset
  <1>2. Cardinality(T) \in Nat /\ Cardinality(S) \in Nat
    BY <1>1, FS_CardinalityType
  <1> QED
    BY <1>1, <1>2

LEMMA Elements ==
  ASSUME PsTypes
  PROVE  /\ In(pend.answers) \subseteq PsAnswers /\ In(batch.answers) \subseteq PsAnswers
         /\ In(pend.ice) \subseteq PsIce /\ In(batch.ice) \subseteq PsIce
         /\ \A p \in Peers : gen[p] \in Nat /\ left[p] \in Nat /\ \A i \in DOMAIN wire[p] : wire[p][i].gen \in Nat
         /\ \A x \in PsAnswers \cup PsIce \cup PsMessages : x.peer \in Peers /\ x.gen \in Nat
         /\ NoMessage \notin PsMessages
  <1>1. \A T : \A s \in Seq(T) : In(s) \subseteq T
    BY DEF In
  <1>2. /\ pend.answers \in Seq(PsAnswers) /\ batch.answers \in Seq(PsAnswers)
        /\ pend.ice \in Seq(PsIce) /\ batch.ice \in Seq(PsIce)
    BY DEF PsTypes, PsBuffers
  <1>3. \A x \in PsAnswers \cup PsIce \cup PsMessages : x.peer \in Peers /\ x.gen \in Nat
    BY DEF PsAnswers, PsIce, PsMessages
  <1>4. \A p \in Peers : gen[p] \in Nat /\ left[p] \in Nat /\ wire[p] \in Seq(Reached)
    BY DEF PsTypes
  <1>5. \A p \in Peers : \A i \in DOMAIN wire[p] : wire[p][i].gen \in Nat
    <2> TAKE p \in Peers
    <2> TAKE i \in DOMAIN wire[p]
    <2>1. wire[p][i] \in Reached
      BY <1>4, ElementOfSeq
    <2> QED
      BY <2>1 DEF Reached
  <1>6. NoMessage \notin PsMessages
    BY PeersAssumption DEF PsMessages
  <1> QED
    BY <1>1, <1>2, <1>3, <1>4, <1>5, <1>6

\* A viewer's new answer is newer than all there is of that viewer, wherever it goes.
LEMMA SendAnswerStep ==
  ASSUME PsInv, NEW p \in Peers, SendAnswer(p)
  PROVE  PsInv'
  <1> DEFINE m == [type |-> "answer", peer |-> p, gen |-> gen[p] + 1]
             a == NewAnswer(m)
  <1>1. PsTypes /\ OffersMade /\ BatchOut /\ AnswersNewer /\ CandidateFree /\ PurgedLeft
        /\ DeliveryOrder /\ AnswersKept /\ (PurgeFits => LeftForgotten)
    BY DEF PsInv
  <1>2. /\ gen \in [Peers -> Nat] /\ gen' = [gen EXCEPT ![p] = gen[p] + 1] /\ gen' \in [Peers -> Nat]
        /\ m \in PsMessages /\ a \in PsAnswers
    BY <1>1 DEF SendAnswer, PsTypes, NewAnswer, PsMessages, PsAnswers
  <1>3. gen'[p] = gen[p] + 1 /\ \A q \in Peers : gen[q] \in Nat /\ gen[q] <= gen'[q] /\ (q # p => gen'[q] = gen[q])
    BY <1>2
  <1>4. /\ m.peer = p /\ m.type = "answer" /\ m.gen = gen[p] + 1
        /\ a.peer = p /\ a.gen = gen[p] + 1
    BY DEF NewAnswer
  <1>5. /\ Send(m) /\ sending = NoMessage /\ client = "live"
        /\ UNCHANGED <<flushPeers, flush, client, now, left>>
    BY DEF SendAnswer, Send, Unlocked, psWorker
  <1> HIDE DEF m, a
  <1>6. \/ QueuesBehind(m) /\ Queue(m)
        \/ ~QueuesBehind(m) /\ SendThrough(m)
        \/ ~QueuesBehind(m) /\ SendFails(m)
    BY <1>5 DEF Send
  <1>7. UNCHANGED <<batch, batchOut, purged>>
    BY <1>6 DEF Queue, SendThrough, SendFails, buffer
  <1>8. BatchOut' /\ PurgedLeft' /\ FreedUnused' /\ LiveSends'
    BY <1>1, <1>5, <1>7 DEF BatchOut, Flushing, PurgedLeft, FreedUnused, LiveSends
  <1>9. /\ In(pend.answers) \subseteq PsAnswers /\ In(batch.answers) \subseteq PsAnswers
        /\ In(pend.ice) \subseteq PsIce /\ In(batch.ice) \subseteq PsIce
        /\ \A x \in PsAnswers \cup PsIce : x.peer \in Peers /\ x.gen \in Nat
        /\ NoMessage \notin PsMessages
    BY <1>1, Elements
  <1>10. /\ \A x \in In(pend.answers) \cup In(batch.answers) \cup In(pend.ice) \cup In(batch.ice) :
              x.gen <= gen[x.peer] /\ x.gen <= gen'[x.peer] /\ (x.peer = p => x.gen < a.gen)
         /\ \A i \in DOMAIN wire[p] : wire[p][i].gen < a.gen
         /\ \A q \in Peers : \A i \in DOMAIN wire[q] : wire[q][i].gen <= gen'[q]
         /\ \A q \in Peers : left[q] <= gen'[q]
         /\ left[p] < a.gen
    <2>1. \A q \in Peers : left[q] \in Nat /\ \A i \in DOMAIN wire[q] : wire[q][i].gen \in Nat
      BY <1>1, Elements
    <2> QED
      BY <1>1, <1>3, <1>4, <1>9, <2>1 DEF OffersMade
  <1>11. AnswersSent = {}
    BY <1>5 DEF AnswersSent
  <1>12. CASE QueuesBehind(m) /\ Queue(m)
    <2>1. /\ pend' = InsertAnswer(pend, a) /\ gone' = gone \cup GivenUp(Evicted(pend, a), "room")
          /\ UNCHANGED <<sending, wire>>
      BY <1>4, <1>12 DEF Queue, PutAnswer, a
    <2>2. /\ pend' \in PsBuffers /\ OnePerPeer(pend'.answers)
          /\ In(pend'.answers) \subseteq In(pend.answers) \cup {a} /\ a \in In(pend'.answers)
          /\ \A x \in In(pend'.answers) : x = a \/ x.peer # a.peer
          /\ \A x \in In(pend.answers) : x \in In(pend'.answers) \cup Evicted(pend, a) \/ x.peer = a.peer
          /\ In(pend'.ice) \subseteq In(pend.ice)
      BY <1>1, <1>2, <2>1, Inserting DEF PsTypes
    <2>3. AnswersSent' = {}
      BY <1>5, <2>1 DEF AnswersSent
    <2>4. PsTypes'
      BY <1>1, <1>2, <1>5, <1>7, <2>1, <2>2 DEF PsTypes
    <2>5. OffersMade'
      BY <1>3, <1>4, <1>5, <1>7, <1>10, <2>1, <2>2 DEF OffersMade
    <2>6. AnswersNewer'
      BY <1>1, <1>4, <1>7, <1>10, <2>1, <2>2, <2>3 DEF AnswersNewer
    <2>7. CandidateFree'
      <3>1. CASE flush.pc = "sendIce"
        <4>1. batch.ice[flush.i] \in In(batch.ice)
          BY <1>1, <3>1 DEF CandidateFree, In
        <4> QED
          BY <1>1, <1>4, <1>5, <1>7, <1>10, <2>2, <2>3, <3>1, <4>1 DEF CandidateFree, HasAnswer
      <3>2. CASE flush.pc # "sendIce"
        BY <1>5, <3>2 DEF CandidateFree
      <3> QED
        BY <3>1, <3>2
    <2>8. DeliveryOrder'
      BY <1>1, <2>1 DEF DeliveryOrder, AnswerBeforeCandidates, NewestAnswerLast
    <2>9. AnswersKept'
      <3> SUFFICES ASSUME NEW q \in Peers, gen'[q] > left[q]
                   PROVE  \/ \E i \in DOMAIN wire[q] : wire[q][i] = [type |-> "answer", gen |-> gen'[q]]
                          \/ \E x \in In(pend'.answers) \cup In(batch.answers) : x.peer = q /\ x.gen = gen'[q]
                          \/ \E d \in gone' : d.peer = q /\ d.gen = gen'[q]
        BY <1>5, <1>7, <2>1, <2>3 DEF AnswersKept
      <3>1. CASE q = p
        BY <1>3, <1>4, <2>2, <3>1
      <3>2. CASE q # p
        <4>1. \/ \E i \in DOMAIN wire[q] : wire[q][i] = [type |-> "answer", gen |-> gen[q]]
              \/ \E x \in In(pend.answers) \cup In(batch.answers) : x.peer = q /\ x.gen = gen[q]
              \/ \E d \in gone : d.peer = q /\ d.gen = gen[q]
          BY <1>1, <1>3, <1>5, <1>11, <3>2 DEF AnswersKept
        <4>2. \A x \in Evicted(pend, a) : \E d \in gone' : d.peer = x.peer /\ d.gen = x.gen
          BY <2>1, GivenUpKnown
        <4>3. \A x \in In(pend.answers) : x.peer = q => x \in In(pend'.answers) \cup Evicted(pend, a)
          BY <1>4, <2>2, <3>2
        <4> QED
          BY <1>3, <2>1, <3>2, <4>1, <4>2, <4>3
      <3> QED
        BY <3>1, <3>2
    <2>10. PurgeFits => LeftForgotten'
      BY <1>1, <1>4, <1>5, <1>7, <1>10, <2>2 DEF LeftForgotten
    <2> QED
      BY <1>8, <2>4, <2>5, <2>6, <2>7, <2>8, <2>9, <2>10 DEF PsInv, PurgeFits
  <1>13. CASE ~QueuesBehind(m) /\ SendThrough(m)
    <2>1. Deliver(m) /\ pend' = DropAnswer(pend, p) /\ UNCHANGED <<sending, gone>>
      BY <1>4, <1>13 DEF SendThrough
    <2>2. /\ pend' \in PsBuffers /\ OnePerPeer(pend'.answers)
          /\ In(pend'.answers) = {x \in In(pend.answers) : x.peer # p} /\ pend'.ice = pend.ice
      <3>1. pend \in PsBuffers /\ OnePerPeer(pend.answers)
        BY <1>1 DEF PsTypes
      <3> QED
        BY <2>1, <3>1, Purging
    <2>3. \A x \in In(batch.answers) : x.peer # p
      <3>1. CASE Flushing
        BY <1>1, <1>4, <1>13, <3>1 DEF BatchOut, QueuesBehind
      <3>2. CASE ~Flushing
        BY <1>1, <3>2 DEF BatchOut, Empty, In
      <3> QED
        BY <3>1, <3>2
    <2>4. AnswersSent' = {}
      BY <1>5, <2>1 DEF AnswersSent
    <2>5. /\ wire' \in [Peers -> Seq(Reached)]
          /\ \A q \in Peers : q # p => wire'[q] = wire[q]
          /\ \A q \in Peers : \A i \in DOMAIN wire'[q] :
               \/ i \in DOMAIN wire[q] /\ wire'[q][i] = wire[q][i]
               \/ q = p /\ wire'[q][i] = [type |-> "answer", gen |-> a.gen]
          /\ \E i \in DOMAIN wire'[p] : wire'[p][i] = [type |-> "answer", gen |-> a.gen]
      BY <1>1, <1>2, <1>4, <2>1, Delivering
    <2>6. PsTypes'
      BY <1>1, <1>2, <1>5, <1>7, <2>1, <2>2, <2>5 DEF PsTypes
    <2>7. OffersMade'
      <3>1. \A q \in Peers : \A i \in DOMAIN wire'[q] : wire'[q][i].gen <= gen'[q]
        BY <1>3, <1>4, <1>10, <2>5
      <3> QED
        BY <1>5, <1>7, <1>10, <2>1, <2>2, <3>1 DEF OffersMade
    <2>8. AnswersNewer'
      <3>1. \A x \in In(pend'.answers) \cup In(batch.answers) : x.peer # p /\ x \in In(pend.answers) \cup In(batch.answers)
                /\ x.peer \in Peers
        BY <1>9, <2>2, <2>3
      <3>2. \A x \in In(pend'.answers) \cup In(batch.answers) : wire'[x.peer] = wire[x.peer]
        BY <2>5, <3>1
      <3>3. \A x \in In(pend'.answers) \cup In(batch.answers) :
              \A i \in DOMAIN wire'[x.peer] : wire'[x.peer][i].gen < x.gen
        BY <1>1, <3>1, <3>2 DEF AnswersNewer
      <3>4. \A x \in In(batch.answers), y \in In(pend'.answers) : x.peer = y.peer => x.gen < y.gen
        BY <1>1, <2>2 DEF AnswersNewer
      <3> QED
        BY <1>7, <2>4, <3>3, <3>4 DEF AnswersNewer
    <2>9. CandidateFree'
      BY <1>1, <1>5, <1>7, <2>2, <2>4 DEF CandidateFree, HasAnswer
    <2>10. DeliveryOrder'
      BY <1>1, <1>2, <1>4, <1>10, <2>1, DeliveredInOrder
    <2>11. AnswersKept'
      <3> SUFFICES ASSUME NEW q \in Peers, gen'[q] > left[q]
                   PROVE  \/ \E i \in DOMAIN wire'[q] : wire'[q][i] = [type |-> "answer", gen |-> gen'[q]]
                          \/ \E x \in In(pend'.answers) \cup In(batch.answers) : x.peer = q /\ x.gen = gen'[q]
                          \/ \E d \in gone' : d.peer = q /\ d.gen = gen'[q]
        BY <1>5, <1>7, <2>4 DEF AnswersKept
      <3>1. CASE q = p
        BY <1>3, <1>4, <2>5, <3>1
      <3>2. CASE q # p
        <4>1. \/ \E i \in DOMAIN wire[q] : wire[q][i] = [type |-> "answer", gen |-> gen[q]]
              \/ \E x \in In(pend.answers) \cup In(batch.answers) : x.peer = q /\ x.gen = gen[q]
              \/ \E d \in gone : d.peer = q /\ d.gen = gen[q]
          BY <1>1, <1>3, <1>5, <1>11, <3>2 DEF AnswersKept
        <4> QED
          BY <1>3, <2>1, <2>2, <2>5, <3>2, <4>1
      <3> QED
        BY <3>1, <3>2
    <2>12. PurgeFits => LeftForgotten'
      BY <1>1, <1>5, <1>7, <2>2 DEF LeftForgotten
    <2> QED
      BY <1>8, <2>6, <2>7, <2>8, <2>9, <2>10, <2>11, <2>12 DEF PsInv, PurgeFits
  <1>14. CASE ~QueuesBehind(m) /\ SendFails(m)
    <2>1. sending' = m /\ UNCHANGED <<pend, wire, gone>>
      BY <1>14 DEF SendFails, buffer
    <2>2. AnswersSent' = {m} /\ sending' # NoMessage
      BY <1>2, <1>4, <1>9, <2>1 DEF AnswersSent
    <2>3. PsTypes'
      BY <1>1, <1>2, <1>5, <1>7, <2>1 DEF PsTypes
    <2>4. OffersMade'
      BY <1>3, <1>4, <1>5, <1>7, <1>10, <2>1 DEF OffersMade
    <2>5. AnswersNewer'
      BY <1>1, <1>4, <1>7, <1>10, <2>1, <2>2 DEF AnswersNewer
    <2>6. CandidateFree'
      <3>1. CASE flush.pc = "sendIce"
        <4>1. batch.ice[flush.i] \in In(batch.ice)
          BY <1>1, <3>1 DEF CandidateFree, In
        <4> QED
          BY <1>1, <1>4, <1>5, <1>7, <1>10, <2>1, <2>2, <3>1, <4>1 DEF CandidateFree, HasAnswer
      <3>2. CASE flush.pc # "sendIce"
        BY <1>5, <3>2 DEF CandidateFree
      <3> QED
        BY <3>1, <3>2
    <2>7. DeliveryOrder'
      BY <1>1, <2>1 DEF DeliveryOrder, AnswerBeforeCandidates, NewestAnswerLast
    <2>8. AnswersKept'
      <3> SUFFICES ASSUME NEW q \in Peers, gen'[q] > left[q]
                   PROVE  \/ \E i \in DOMAIN wire[q] : wire[q][i] = [type |-> "answer", gen |-> gen'[q]]
                          \/ \E x \in In(pend.answers) \cup In(batch.answers) \cup {m} : x.peer = q /\ x.gen = gen'[q]
                          \/ \E d \in gone : d.peer = q /\ d.gen = gen'[q]
        BY <1>5, <1>7, <2>1, <2>2 DEF AnswersKept
      <3>1. CASE q = p
        BY <1>3, <1>4, <3>1
      <3>2. CASE q # p
        BY <1>1, <1>3, <1>5, <1>11, <3>2 DEF AnswersKept
      <3> QED
        BY <3>1, <3>2
    <2>9. PurgeFits => LeftForgotten'
      BY <1>1, <1>5, <1>7, <2>1 DEF LeftForgotten
    <2> QED
      BY <1>8, <2>3, <2>4, <2>5, <2>6, <2>7, <2>8, <2>9 DEF PsInv, PurgeFits
  <1> QED
    BY <1>6, <1>12, <1>13, <1>14

\* A candidate goes out only when no answer of its viewer is still waiting.
LEMMA SendCandidateStep ==
  ASSUME PsInv, NEW p \in Peers, SendCandidate(p)
  PROVE  PsInv'
  <1> DEFINE m == [type |-> "ice", peer |-> p, gen |-> gen[p]]
             c == NewIce(m)
  <1>1. PsTypes /\ OffersMade /\ BatchOut /\ AnswersNewer /\ CandidateFree /\ PurgedLeft
        /\ DeliveryOrder /\ AnswersKept /\ (PurgeFits => LeftForgotten)
    BY DEF PsInv
  <1>2. m \in PsMessages /\ c \in PsIce /\ gen[p] \in Nat /\ left[p] < gen[p]
    BY <1>1, Elements DEF SendCandidate, NewIce, PsMessages, PsIce
  <1>3. m.peer = p /\ m.type = "ice" /\ m.gen = gen[p] /\ c.peer = p /\ c.gen = gen[p]
    BY DEF NewIce
  <1>4. /\ Send(m) /\ sending = NoMessage /\ client = "live"
        /\ UNCHANGED <<flushPeers, flush, client, now, left, gen>>
    BY DEF SendCandidate, Send, Unlocked, psWorker
  <1> HIDE DEF m, c
  <1>5. \/ QueuesBehind(m) /\ Queue(m)
        \/ ~QueuesBehind(m) /\ SendThrough(m)
        \/ ~QueuesBehind(m) /\ SendFails(m)
    BY <1>4 DEF Send
  <1>6. UNCHANGED <<batch, batchOut, purged>>
    BY <1>5 DEF Queue, SendThrough, SendFails, buffer
  <1>7. BatchOut' /\ PurgedLeft' /\ FreedUnused' /\ LiveSends'
    BY <1>1, <1>4, <1>6 DEF BatchOut, Flushing, PurgedLeft, FreedUnused, LiveSends
  <1>8. /\ AnswersSent = {} /\ AnswersSent' = {}
    BY <1>3, <1>4, <1>5, Elements, <1>1, <1>2 DEF AnswersSent, Queue, SendThrough, SendFails
  <1>9. CASE QueuesBehind(m) /\ Queue(m)
    <2>1. pend' = PushIce(pend, c) /\ UNCHANGED <<gone, sending, wire>>
      BY <1>3, <1>9 DEF Queue, c
    <2>2. pend' \in PsBuffers /\ pend'.answers = pend.answers /\ In(pend'.ice) \subseteq In(pend.ice) \cup {c}
      BY <1>1, <1>2, <2>1, Pushing DEF PsTypes
    <2>3. PsTypes'
      BY <1>1, <1>4, <1>6, <2>1, <2>2 DEF PsTypes
    <2>4. OffersMade'
      BY <1>1, <1>2, <1>3, <1>4, <1>6, <2>1, <2>2 DEF OffersMade
    <2>5. AnswersNewer' /\ CandidateFree'
      BY <1>1, <1>4, <1>6, <1>8, <2>1, <2>2 DEF AnswersNewer, CandidateFree, HasAnswer
    <2>6. DeliveryOrder'
      BY <1>1, <2>1 DEF DeliveryOrder, AnswerBeforeCandidates, NewestAnswerLast
    <2>7. AnswersKept'
      BY <1>1, <1>4, <1>6, <1>8, <2>1, <2>2 DEF AnswersKept
    <2>8. PurgeFits => LeftForgotten'
      BY <1>1, <1>2, <1>3, <1>4, <1>6, <2>2 DEF LeftForgotten
    <2> QED
      BY <1>7, <2>3, <2>4, <2>5, <2>6, <2>7, <2>8 DEF PsInv, PurgeFits
  <1>10. CASE ~QueuesBehind(m) /\ SendThrough(m)
    <2>1. Deliver(m) /\ pend' = pend /\ UNCHANGED <<sending, gone>>
      BY <1>3, <1>10 DEF SendThrough
    <2>2. \A x \in In(pend.answers) \cup In(batch.answers) : x.peer # p
      <3>1. \A x \in In(pend.answers) : x.peer # p
        BY <1>3, <1>10, Answering DEF QueuesBehind
      <3>2. CASE Flushing
        BY <1>1, <1>3, <1>10, <3>1, <3>2 DEF BatchOut, QueuesBehind
      <3>3. CASE ~Flushing
        BY <1>1, <3>1, <3>3 DEF BatchOut, Empty, In
      <3> QED
        BY <3>2, <3>3
    <2>3. /\ wire' \in [Peers -> Seq(Reached)]
          /\ \A q \in Peers : q # p => wire'[q] = wire[q]
          /\ \A q \in Peers : \A i \in DOMAIN wire'[q] :
               \/ i \in DOMAIN wire[q] /\ wire'[q][i] = wire[q][i]
               \/ q = p /\ wire'[q][i] = [type |-> "ice", gen |-> gen[p]]
          /\ \A q \in Peers : \A i \in DOMAIN wire[q] : i \in DOMAIN wire'[q] /\ wire'[q][i] = wire[q][i]
      BY <1>1, <1>2, <1>3, <2>1, Delivering
    <2>4. PsTypes'
      BY <1>1, <1>4, <1>6, <2>1, <2>3 DEF PsTypes
    <2>5. OffersMade'
      <3>1. \A q \in Peers : \A i \in DOMAIN wire'[q] : wire'[q][i].gen <= gen[q]
        BY <1>1, <1>2, <2>3 DEF OffersMade
      <3> QED
        BY <1>1, <1>4, <1>6, <2>1, <3>1 DEF OffersMade
    <2>6. AnswersNewer'
      <3>1. \A x \in In(pend.answers) \cup In(batch.answers) : wire'[x.peer] = wire[x.peer]
        BY <1>1, <2>2, <2>3, Elements
      <3> QED
        BY <1>1, <1>6, <1>8, <2>1, <3>1 DEF AnswersNewer
    <2>7. CandidateFree'
      BY <1>1, <1>4, <1>6, <1>8, <2>1 DEF CandidateFree, HasAnswer
    <2>8. DeliveryOrder'
      BY <1>1, <1>2, <1>3, <2>1, DeliveredInOrder
    <2>9. AnswersKept'
      BY <1>1, <1>4, <1>6, <1>8, <2>1, <2>3 DEF AnswersKept
    <2>10. PurgeFits => LeftForgotten'
      BY <1>1, <1>4, <1>6, <2>1 DEF LeftForgotten
    <2> QED
      BY <1>7, <2>4, <2>5, <2>6, <2>7, <2>8, <2>9, <2>10 DEF PsInv, PurgeFits
  <1>11. CASE ~QueuesBehind(m) /\ SendFails(m)
    <2>1. sending' = m /\ UNCHANGED <<pend, wire, gone>>
      BY <1>11 DEF SendFails, buffer
    <2>2. PsTypes'
      BY <1>1, <1>2, <1>4, <1>6, <2>1 DEF PsTypes
    <2>3. OffersMade'
      BY <1>1, <1>2, <1>3, <1>4, <1>6, <2>1 DEF OffersMade
    <2>4. AnswersNewer' /\ CandidateFree'
      BY <1>1, <1>4, <1>6, <1>8, <2>1 DEF AnswersNewer, CandidateFree, HasAnswer
    <2>5. DeliveryOrder' /\ AnswersKept'
      BY <1>1, <1>4, <1>6, <1>8, <2>1 DEF DeliveryOrder, AnswerBeforeCandidates, NewestAnswerLast, AnswersKept
    <2>6. PurgeFits => LeftForgotten'
      BY <1>1, <1>4, <1>6, <2>1 DEF LeftForgotten
    <2> QED
      BY <1>7, <2>2, <2>3, <2>4, <2>5, <2>6 DEF PsInv, PurgeFits
  <1> QED
    BY <1>5, <1>9, <1>10, <1>11

\* A viewer that leaves takes what is buffered for it along; of the batch, its name is kept.
LEMMA PurgeStep ==
  ASSUME PsInv, NEW p \in Peers, Purge(p)
  PROVE  PsInv'
  <1>1. PsTypes /\ OffersMade /\ BatchOut /\ AnswersNewer /\ CandidateFree /\ PurgedLeft
        /\ DeliveryOrder /\ AnswersKept /\ (PurgeFits => LeftForgotten)
    BY DEF PsInv
  <1>2. /\ sending = NoMessage /\ client = "live" /\ pend' = PurgeIce(DropAnswer(pend, p), p)
        /\ left' = [left EXCEPT ![p] = gen[p]]
        /\ UNCHANGED <<batch, batchOut, flushPeers, flush, sending, client, now, gen, wire, gone>>
    BY DEF Purge, Unlocked, psWorker
  <1>3. purged' = IF batchOut /\ Cardinality(purged) < PurgedMax THEN purged \cup {p} ELSE purged
    BY DEF Purge
  <1>4. /\ left' \in [Peers -> Nat] /\ left'[p] = gen[p] /\ \A q \in Peers : q # p => left'[q] = left[q]
        /\ \A q \in Peers : left[q] \in Nat /\ gen[q] \in Nat /\ left[q] <= left'[q] /\ left'[q] <= gen[q]
    <2>1. left \in [Peers -> Nat] /\ gen \in [Peers -> Nat] /\ \A q \in Peers : left[q] <= gen[q]
      BY <1>1 DEF PsTypes, OffersMade
    <2> QED
      BY <1>2, <2>1
  <1>5. /\ pend' \in PsBuffers /\ OnePerPeer(pend'.answers)
        /\ In(pend'.answers) = {x \in In(pend.answers) : x.peer # p}
        /\ In(pend'.ice) = {x \in In(pend.ice) : x.peer # p}
    <2>1. pend \in PsBuffers /\ OnePerPeer(pend.answers)
      BY <1>1 DEF PsTypes
    <2> QED
      BY <1>2, <2>1, Purging
  <1>6. AnswersSent = {} /\ AnswersSent' = {}
    BY <1>2 DEF AnswersSent
  <1>7. purged' \in SUBSET Peers /\ purged' \subseteq purged \cup {p}
    BY <1>1, <1>3 DEF PsTypes
  <1>8. PsTypes'
    BY <1>1, <1>2, <1>4, <1>5, <1>7 DEF PsTypes
  <1>9. OffersMade'
    BY <1>1, <1>2, <1>4, <1>5 DEF OffersMade
  <1>10. BatchOut'
    BY <1>1, <1>2, <1>3 DEF BatchOut, Flushing
  <1>11. AnswersNewer' /\ CandidateFree'
    BY <1>1, <1>2, <1>5, <1>6 DEF AnswersNewer, CandidateFree, HasAnswer
  <1>12. PurgedLeft'
    <2>1. \A e \in In(batch.answers) \cup In(batch.ice) : e.peer \in Peers /\ e.gen \in Nat /\ e.gen <= gen[e.peer]
      BY <1>1, Elements DEF OffersMade
    <2> QED
      BY <1>1, <1>2, <1>4, <1>7, <2>1 DEF PurgedLeft
  <1>13. DeliveryOrder'
    BY <1>1, <1>2 DEF DeliveryOrder, AnswerBeforeCandidates, NewestAnswerLast
  <1>14. AnswersKept'
    <2> SUFFICES ASSUME NEW q \in Peers, gen[q] > left'[q]
                 PROVE  \/ \E i \in DOMAIN wire[q] : wire[q][i] = [type |-> "answer", gen |-> gen[q]]
                        \/ \E x \in In(pend'.answers) \cup In(batch.answers) : x.peer = q /\ x.gen = gen[q]
                        \/ \E d \in gone : d.peer = q /\ d.gen = gen[q]
      BY <1>2, <1>6 DEF AnswersKept
    <2>1. q # p /\ gen[q] > left[q]
      BY <1>4
    <2> QED
      BY <1>1, <1>2, <1>5, <1>6, <2>1 DEF AnswersKept
  <1>15. ASSUME PurgeFits PROVE LeftForgotten'
    <2>1. LeftForgotten
      BY <1>1, <1>15
    <2>2. \A e \in In(batch.answers) \cup In(batch.ice) : e.peer = p => p \in purged'
      <3>1. CASE ~batchOut
        BY <1>1, <3>1 DEF BatchOut, Empty, In
      <3>2. CASE batchOut /\ p \notin purged
        <4>1. IsFiniteSet(Peers) /\ purged \subseteq Peers
          BY <1>1, PeersAssumption DEF PsTypes
        <4>2. Cardinality(purged) < Cardinality(Peers)
          <5>1. purged # Peers
            BY <3>2
          <5> QED
            BY <4>1, <5>1, FewerViewers
        <4>3. Cardinality(purged) \in Nat /\ Cardinality(Peers) \in Nat
          BY <4>1, FS_Subset, FS_CardinalityType
        <4>4. Cardinality(purged) < PurgedMax
          BY <1>15, <4>2, <4>3, BoundsAssumption DEF PurgeFits
        <4> QED
          BY <1>3, <3>2, <4>4
      <3>3. CASE p \in purged
        BY <1>3, <3>3
      <3> QED
        BY <3>1, <3>2, <3>3
    <2>3. purged \subseteq purged'
      BY <1>3
    <2>4. \A e \in In(pend.answers) \cup In(batch.answers) \cup In(pend.ice) \cup In(batch.ice) : e.peer \in Peers
      BY <1>1, Elements
    <2> QED
      BY <1>2, <1>4, <1>5, <2>1, <2>2, <2>3, <2>4 DEF LeftForgotten
  <1>16. FreedUnused' /\ LiveSends'
    BY <1>2 DEF FreedUnused, LiveSends
  <1> QED
    BY <1>8, <1>9, <1>10, <1>11, <1>12, <1>13, <1>14, <1>15, <1>16 DEF PsInv, PurgeFits

\* What could not be sent is buffered, or its sender is told.
LEMMA BufferFailedSendStep ==
  ASSUME PsInv, BufferFailedSend
  PROVE  PsInv'
  <1> DEFINE m == sending
             a == NewAnswer(m)
             c == NewIce(m)
  <1>1. PsTypes /\ OffersMade /\ BatchOut /\ AnswersNewer /\ CandidateFree /\ PurgedLeft
        /\ DeliveryOrder /\ AnswersKept /\ (PurgeFits => LeftForgotten) /\ LiveSends
    BY DEF PsInv
  <1>2. /\ m # NoMessage /\ sending' = NoMessage /\ client = "live"
        /\ UNCHANGED <<batch, batchOut, purged, flushPeers, flush, client, now, gen, left, wire>>
    BY <1>1 DEF BufferFailedSend, psWorker, app, LiveSends
  <1>3. \/ m.type = "answer" /\ PutAnswer(m)
        \/ m.type = "answer" /\ pend' = pend /\ gone' = gone \cup GivenUp({m}, "error")
        \/ m.type = "ice" /\ gone' = gone /\ (pend' = pend \/ pend' = PushIce(pend, c))
    BY <1>1, <1>2 DEF BufferFailedSend, PsTypes, PsMessages
  <1>4. m \in PsMessages /\ a \in PsAnswers /\ c \in PsIce /\ m.gen = gen[m.peer] /\ m.gen > left[m.peer]
        /\ a.peer = m.peer /\ a.gen = m.gen /\ c.peer = m.peer /\ c.gen = m.gen /\ m.peer \in Peers /\ m.gen \in Nat
    BY <1>1, <1>2 DEF PsTypes, PsMessages, PsAnswers, PsIce, NewAnswer, NewIce, OffersMade
  <1>5. AnswersSent' = {} /\ AnswersSent = IF m.type = "answer" THEN {m} ELSE {}
    BY <1>2 DEF AnswersSent
  <1> HIDE DEF m, a, c
  <1>6. BatchOut' /\ PurgedLeft' /\ FreedUnused' /\ LiveSends'
    BY <1>1, <1>2 DEF BatchOut, Flushing, PurgedLeft, FreedUnused, LiveSends
  <1>7. DeliveryOrder'
    BY <1>1, <1>2 DEF DeliveryOrder, AnswerBeforeCandidates, NewestAnswerLast
  <1>8. CASE m.type = "answer" /\ PutAnswer(m)
    <2>1. pend' = InsertAnswer(pend, a) /\ gone' = gone \cup GivenUp(Evicted(pend, a), "room")
      BY <1>8 DEF PutAnswer, a
    <2>2. /\ pend' \in PsBuffers /\ OnePerPeer(pend'.answers)
          /\ In(pend'.answers) \subseteq In(pend.answers) \cup {a} /\ a \in In(pend'.answers)
          /\ \A x \in In(pend'.answers) : x = a \/ x.peer # a.peer
          /\ \A x \in In(pend.answers) : x \in In(pend'.answers) \cup Evicted(pend, a) \/ x.peer = a.peer
          /\ In(pend'.ice) \subseteq In(pend.ice)
      BY <1>1, <1>4, <2>1, Inserting DEF PsTypes
    <2>3. PsTypes'
      BY <1>1, <1>2, <2>2 DEF PsTypes
    <2>4. OffersMade'
      BY <1>1, <1>2, <1>4, <2>2 DEF OffersMade
    <2>5. AnswersNewer'
      BY <1>1, <1>2, <1>4, <1>5, <1>8, <2>2 DEF AnswersNewer
    <2>6. CandidateFree'
      BY <1>1, <1>2, <1>4, <1>5, <1>8, <2>2 DEF CandidateFree, HasAnswer
    <2>7. AnswersKept'
      <3> SUFFICES ASSUME NEW q \in Peers, gen[q] > left[q]
                   PROVE  \/ \E i \in DOMAIN wire[q] : wire[q][i] = [type |-> "answer", gen |-> gen[q]]
                          \/ \E x \in In(pend'.answers) \cup In(batch.answers) : x.peer = q /\ x.gen = gen[q]
                          \/ \E d \in gone' : d.peer = q /\ d.gen = gen[q]
        BY <1>2, <1>5 DEF AnswersKept
      <3>1. CASE q = m.peer
        BY <1>4, <2>2, <3>1
      <3>2. CASE q # m.peer
        <4>1. \/ \E i \in DOMAIN wire[q] : wire[q][i] = [type |-> "answer", gen |-> gen[q]]
              \/ \E x \in In(pend.answers) \cup In(batch.answers) : x.peer = q /\ x.gen = gen[q]
              \/ \E d \in gone : d.peer = q /\ d.gen = gen[q]
          BY <1>1, <1>2, <1>5, <3>2 DEF AnswersKept
        <4>2. \A x \in Evicted(pend, a) : \E d \in gone' : d.peer = x.peer /\ d.gen = x.gen
          BY <2>1, GivenUpKnown
        <4>3. \A x \in In(pend.answers) : x.peer = q => x \in In(pend'.answers) \cup Evicted(pend, a)
          BY <1>4, <2>2, <3>2
        <4> QED
          BY <2>1, <4>1, <4>2, <4>3
      <3> QED
        BY <3>1, <3>2
    <2>8. PurgeFits => LeftForgotten'
      BY <1>1, <1>2, <1>4, <2>2 DEF LeftForgotten
    <2> QED
      BY <1>6, <1>7, <2>3, <2>4, <2>5, <2>6, <2>7, <2>8 DEF PsInv, PurgeFits
  <1>9. ASSUME pend' \in PsBuffers, pend'.answers = pend.answers, In(pend'.ice) \subseteq In(pend.ice) \cup {c},
               gone \subseteq gone', m.type = "answer" => \E d \in gone' : d.peer = m.peer /\ d.gen = m.gen
        PROVE  PsInv'
    <2>1. PsTypes'
      BY <1>1, <1>2, <1>9 DEF PsTypes
    <2>2. OffersMade'
      BY <1>1, <1>2, <1>4, <1>9 DEF OffersMade
    <2>3. AnswersNewer' /\ CandidateFree'
      BY <1>1, <1>2, <1>5, <1>9 DEF AnswersNewer, CandidateFree, HasAnswer
    <2>4. AnswersKept'
      <3> SUFFICES ASSUME NEW q \in Peers, gen[q] > left[q]
                   PROVE  \/ \E i \in DOMAIN wire[q] : wire[q][i] = [type |-> "answer", gen |-> gen[q]]
                          \/ \E x \in In(pend.answers) \cup In(batch.answers) : x.peer = q /\ x.gen = gen[q]
                          \/ \E d \in gone' : d.peer = q /\ d.gen = gen[q]
        BY <1>2, <1>5, <1>9 DEF AnswersKept
      <3>1. \/ \E i \in DOMAIN wire[q] : wire[q][i] = [type |-> "answer", gen |-> gen[q]]
            \/ \E x \in In(pend.answers) \cup In(batch.answers) : x.peer = q /\ x.gen = gen[q]
            \/ m.type = "answer" /\ m.peer = q /\ m.gen = gen[q]
            \/ \E d \in gone : d.peer = q /\ d.gen = gen[q]
        BY <1>1, <1>2, <1>5 DEF AnswersKept
      <3> QED
        BY <1>9, <3>1
    <2>5. PurgeFits => LeftForgotten'
      BY <1>1, <1>2, <1>4, <1>9 DEF LeftForgotten
    <2> QED
      BY <1>6, <1>7, <2>1, <2>2, <2>3, <2>4, <2>5 DEF PsInv, PurgeFits
  <1>10. CASE m.type = "answer" /\ pend' = pend /\ gone' = gone \cup GivenUp({m}, "error")
    <2>1. \E d \in gone' : d.peer = m.peer /\ d.gen = m.gen
      BY <1>10, GivenUpKnown
    <2>2. pend \in PsBuffers
      BY <1>1 DEF PsTypes
    <2> QED
      BY <1>9, <1>10, <2>1, <2>2
  <1>11. CASE m.type = "ice" /\ gone' = gone /\ (pend' = pend \/ pend' = PushIce(pend, c))
    <2>1. pend \in PsBuffers
      BY <1>1 DEF PsTypes
    <2>2. pend' \in PsBuffers /\ pend'.answers = pend.answers /\ In(pend'.ice) \subseteq In(pend.ice) \cup {c}
      BY <1>4, <1>11, <2>1, Pushing
    <2> QED
      BY <1>9, <1>11, <2>2
  <1> QED
    BY <1>3, <1>8, <1>10, <1>11

\* A batch is taken while no other is out.
LEMMA FlushTakeStep ==
  ASSUME PsInv, FlushTake
  PROVE  PsInv'
  <1>1. PsTypes /\ OffersMade /\ BatchOut /\ AnswersNewer /\ CandidateFree /\ PurgedLeft
        /\ DeliveryOrder /\ AnswersKept /\ (PurgeFits => LeftForgotten) /\ FreedUnused /\ LiveSends
    BY DEF PsInv
  <1>2. /\ flush.pc = "round" /\ sending = NoMessage /\ batch = Empty /\ ~batchOut /\ purged = {}
        /\ UNCHANGED <<sending, client, now, gen, left, wire, gone>>
    BY <1>1 DEF FlushTake, Unlocked, app, BatchOut, Flushing
  <1>3. Idle \in FlushStates /\ Idle.pc = "idle" /\ [flush EXCEPT !.pc = "answers", !.i = 1, !.now = now] \in FlushStates
        /\ [flush EXCEPT !.pc = "answers", !.i = 1, !.now = now].pc = "answers"
    BY <1>1 DEF Idle, FlushStates, FlushPlaces, PsTypes
  <1>4. FreedUnused' /\ LiveSends'
    <2>1. client # "freed"
      BY <1>1, <1>2 DEF FreedUnused
    <2> QED
      BY <1>1, <1>2, <2>1 DEF FreedUnused, LiveSends
  <1>5. CASE ~Alive
    <2>1. UNCHANGED Data /\ now' \in Nat /\ flush' = Idle /\ client' = client
      BY <1>1, <1>2, <1>5 DEF FlushTake, Data, buffer, PsTypes
    <2>2. BatchOut' /\ CandidateFree'
      BY <1>2, <1>3, <2>1 DEF Data, BatchOut, Flushing, CandidateFree
    <2> QED
      BY <1>3, <1>4, <2>1, <2>2, SameData
  <1>6. CASE Alive
    <2>1. /\ batch' = pend /\ pend' = Empty /\ batchOut' = (Count(pend) > 0) /\ purged' = purged
          /\ \/ Count(pend) = 0 /\ flush' = Idle /\ flushPeers' = flushPeers
             \/ /\ Count(pend) # 0 /\ flushPeers' = PeersOf(pend.answers)
                /\ flush' = [flush EXCEPT !.pc = "answers", !.i = 1, !.now = now]
      BY <1>6 DEF FlushTake, Take
    <2>2. pend \in PsBuffers /\ OnePerPeer(pend.answers) /\ pend.answers \in Seq(PsAnswers) /\ pend.ice \in Seq(PsIce)
      BY <1>1 DEF PsTypes, PsBuffers
    <2>3. Empty \in PsBuffers /\ OnePerPeer(Empty.answers) /\ In(Empty.answers) = {} /\ In(Empty.ice) = {}
      BY DEF Empty, PsBuffers, OnePerPeer, In
    <2>4. Len(pend.answers) \in Nat /\ Len(pend.ice) \in Nat /\ Count(pend) \in Nat
          /\ (Count(pend) = 0 => pend = Empty)
      BY <2>2 DEF Count, Empty, PsBuffers
    <2>5. flushPeers' \in SUBSET Peers /\ flush' \in FlushStates /\ flush'.pc \in {"idle", "answers"}
      <3>1. PeersOf(pend.answers) \subseteq Peers
        <4>1. \A i \in DOMAIN pend.answers : pend.answers[i] \in PsAnswers
          BY <2>2, ElementOfSeq
        <4> QED
          BY <4>1 DEF PeersOf, PsAnswers
      <3>2. flushPeers \in SUBSET Peers
        BY <1>1 DEF PsTypes
      <3>3. CASE Count(pend) = 0
        BY <1>3, <2>1, <3>2, <3>3
      <3>4. CASE Count(pend) # 0
        BY <1>3, <2>1, <3>1, <3>4
      <3> QED
        BY <3>3, <3>4
    <2>6. PsTypes'
      BY <1>1, <1>2, <2>1, <2>2, <2>3, <2>4, <2>5 DEF PsTypes
    <2>7. OffersMade'
      BY <1>1, <1>2, <2>1, <2>3 DEF OffersMade
    <2>8. BatchOut'
      <3>0. batchOut' <=> Count(pend) > 0
        BY <2>1
      <3>1. CASE Count(pend) = 0
        <4>1. batch' = Empty /\ flush'.pc = "idle" /\ purged' = {}
          BY <1>2, <1>3, <2>1, <2>4, <3>1
        <4>2. ~batchOut'
          BY <3>0, <3>1
        <4> QED
          BY <4>1, <4>2 DEF BatchOut, Flushing
      <3>2. CASE Count(pend) # 0
        <4>0. flush'.pc = "answers"
          BY <1>3, <2>1, <3>2
        <4>1. flush'.pc = "answers" /\ batchOut'
          BY <2>4, <3>0, <3>2, <4>0
        <4>2. \A x \in In(pend.answers) : x.peer \in flushPeers'
          BY <2>1, <3>2 DEF PeersOf, In
        <4> QED
          BY <2>1, <4>1, <4>2 DEF BatchOut, Flushing
      <3> QED
        BY <3>1, <3>2
    <2>9. AnswersSent = {} /\ AnswersSent' = {}
      BY <1>2 DEF AnswersSent
    <2>10. AnswersNewer' /\ CandidateFree' /\ PurgedLeft'
      BY <1>1, <1>2, <2>1, <2>3, <2>5, <2>9 DEF AnswersNewer, CandidateFree, PurgedLeft
    <2>11. DeliveryOrder'
      BY <1>1, <1>2 DEF DeliveryOrder, AnswerBeforeCandidates, NewestAnswerLast
    <2>12. AnswersKept'
      BY <1>1, <1>2, <2>1, <2>3, <2>9 DEF AnswersKept
    <2>13. PurgeFits => LeftForgotten'
      BY <1>1, <1>2, <2>1, <2>3 DEF LeftForgotten
    <2> QED
      BY <1>4, <2>6, <2>7, <2>8, <2>10, <2>11, <2>12, <2>13 DEF PsInv, PurgeFits
  <1> QED
    BY <1>5, <1>6

\* The places of the worker that leave the data alone.
LEMMA FlushMoves ==
  ASSUME PsInv, FlushStart \/ FlushAnswersDone \/ FlushIceDone
  PROVE  PsInv'
  <1> USE DEF buffer, app
  <1>1. PsTypes /\ BatchOut /\ FreedUnused /\ LiveSends
    BY DEF PsInv
  <1>2. UNCHANGED <<Data, client, now>> /\ now' \in Nat
    BY <1>1 DEF FlushStart, FlushAnswersDone, FlushIceDone, Data, PsTypes
  <1>3. CASE FlushStart
    <2>1. flush' \in FlushStates /\ flush'.pc \in {"idle", "round"} /\ (~Alive => flush'.pc = "idle")
      BY <1>3 DEF FlushStart, Idle, FlushStates, FlushPlaces
    <2>2. flush.pc = "idle"
      BY <1>3 DEF FlushStart
    <2>3. BatchOut' /\ CandidateFree' /\ FreedUnused' /\ LiveSends'
      BY <1>1, <1>2, <2>1, <2>2 DEF Data, BatchOut, Flushing, CandidateFree, FreedUnused, LiveSends, Alive
    <2> QED
      BY <1>2, <2>1, <2>3, SameData
  <1>4. CASE FlushAnswersDone \/ FlushIceDone
    <2>1. flush' \in FlushStates /\ flush.pc \in {"answers", "ice"} /\ flush'.pc \in {"ice", "merge"}
      <3>0. flush \in FlushStates
        BY <1>1 DEF PsTypes
      <3>1. CASE FlushAnswersDone
        <4>1. flush.pc = "answers" /\ flush' = [flush EXCEPT !.pc = "ice", !.i = 1]
          BY <3>1 DEF FlushAnswersDone
        <4> QED
          BY <3>0, <4>1 DEF FlushStates, FlushPlaces
      <3>2. CASE FlushIceDone
        <4>1. flush.pc = "ice" /\ flush' = [flush EXCEPT !.pc = "merge"]
          BY <3>2 DEF FlushIceDone, At
        <4> QED
          BY <3>0, <4>1 DEF FlushStates, FlushPlaces
      <3> QED
        BY <1>4, <3>1, <3>2
    <2>2. BatchOut' /\ CandidateFree' /\ FreedUnused' /\ LiveSends'
      BY <1>1, <1>2, <2>1 DEF Data, BatchOut, Flushing, CandidateFree, FreedUnused, LiveSends
    <2> QED
      BY <1>2, <2>1, <2>2, SameData
  <1> QED
    BY <1>3, <1>4

\* From a message to the next one.
LEMMA NextMessage ==
  ASSUME flush \in FlushStates, Next1, flush.pc \in {"answers", "sendAnswer", "ice", "sendIce"}
  PROVE  /\ flush' \in FlushStates /\ flush'.i = flush.i + 1
         /\ flush.pc \in {"answers", "sendAnswer"} => flush'.pc = "answers"
         /\ flush.pc \in {"ice", "sendIce"} => flush'.pc = "ice"
  <1> DEFINE pc == CASE flush.pc = "sendIce" -> "ice" [] flush.pc = "sendAnswer" -> "answers" [] OTHER -> flush.pc
  <1>1. flush' = [flush EXCEPT !.pc = pc, !.i = flush.i + 1]
    BY DEF Next1, FlushStates
  <1>2. /\ flush.pc \in {"answers", "sendAnswer"} => pc = "answers"
        /\ flush.pc \in {"ice", "sendIce"} => pc = "ice"
    OBVIOUS
  <1> HIDE DEF pc
  <1>3. pc \in FlushPlaces
    BY <1>2 DEF FlushPlaces
  <1>4. /\ flush = [pc |-> flush.pc, round |-> flush.round, i |-> flush.i, now |-> flush.now]
        /\ flush.round \in Nat /\ flush.i \in Nat /\ flush.now \in Nat
    BY DEF FlushStates
  <1>5. flush' = [pc |-> pc, round |-> flush.round, i |-> flush.i + 1, now |-> flush.now]
    BY <1>1, <1>4
  <1>6. flush' \in FlushStates
    BY <1>3, <1>4, <1>5 DEF FlushStates
  <1> QED
    BY <1>2, <1>5, <1>6

\* One answer less in the batch.
LessAnswer ==
  LET a == batch.answers[flush.i] IN
  /\ batch' \in PsBuffers /\ OnePerPeer(batch'.answers)
  /\ \A x \in In(batch'.answers) : x \in In(batch.answers) /\ x.peer # a.peer
  /\ \A x \in In(batch.answers) : x = a \/ x \in In(batch'.answers)
  /\ In(batch'.ice) \subseteq In(batch.ice)

LEMMA AnsweredLess ==
  ASSUME PsTypes, flush.i \in DOMAIN batch.answers,
         LET b == [batch EXCEPT !.answers = RemoveAt(@, flush.i)] IN
         batch' = b \/ \E p : batch' = PurgeIce(b, p)
  PROVE  LessAnswer
  <1> DEFINE s == batch.answers
             b == [batch EXCEPT !.answers = RemoveAt(@, flush.i)]
  <1>1. batch \in PsBuffers /\ s \in Seq(PsAnswers) /\ batch.ice \in Seq(PsIce) /\ OnePerPeer(s)
    BY DEF PsTypes, PsBuffers
  <1>2. /\ RemoveAt(s, flush.i) \in Seq(PsAnswers) /\ OnePerPeer(RemoveAt(s, flush.i))
        /\ In(RemoveAt(s, flush.i)) = {s[j] : j \in DOMAIN s \ {flush.i}}
    BY <1>1, RemoveAtIn
  <1>3. b = [answers |-> RemoveAt(s, flush.i), ice |-> batch.ice] /\ b \in PsBuffers
    BY <1>1, <1>2 DEF PsBuffers
  <1>4. batch' \in PsBuffers /\ batch'.answers = RemoveAt(s, flush.i) /\ In(batch'.ice) \subseteq In(batch.ice)
    <2>1. CASE batch' = b
      BY <1>3, <2>1
    <2>2. ASSUME NEW p, batch' = PurgeIce(b, p) 
          PROVE  batch' \in PsBuffers /\ batch'.answers = RemoveAt(s, flush.i) /\ In(batch'.ice) \subseteq In(batch.ice)
      <3> HIDE DEF b
      <3>1. /\ PurgeIce(b, p) \in PsBuffers /\ PurgeIce(b, p).answers = b.answers
            /\ In(PurgeIce(b, p).ice) = {x \in In(b.ice) : x.peer # p}
        BY <1>3, Purging
      <3> QED
        BY <1>3, <2>2, <3>1
    <2> QED
      BY <2>1, <2>2
  <1>5. \A x \in In(RemoveAt(s, flush.i)) : x \in In(s) /\ x.peer # s[flush.i].peer
    <2> TAKE x \in In(RemoveAt(s, flush.i))
    <2>1. PICK j \in DOMAIN s \ {flush.i} : x = s[j]
      BY <1>2
    <2>2. s[j].peer # s[flush.i].peer
      BY <1>1, <2>1 DEF OnePerPeer
    <2> QED
      BY <2>1, <2>2 DEF In
  <1>6. \A x \in In(s) : x = s[flush.i] \/ x \in In(RemoveAt(s, flush.i))
    BY <1>2 DEF In
  <1> QED
    BY <1>2, <1>4, <1>5, <1>6 DEF LessAnswer

LEMMA AnswerLeaves ==
  ASSUME PsInv, LessAnswer, flush.pc \in {"answers", "sendAnswer"}, flush.i \in DOMAIN batch.answers,
         flush' \in FlushStates, flush'.pc = "answers",
         UNCHANGED <<pend, batchOut, purged, flushPeers, sending, client, now, gen, left>>,
         wire' \in [Peers -> Seq(Reached)], OffersMade', AnswersNewer', DeliveryOrder', AnswersKept'
  PROVE  PsInv'
  <1>1. PsTypes /\ BatchOut /\ PurgedLeft /\ (PurgeFits => LeftForgotten) /\ FreedUnused /\ LiveSends
    BY DEF PsInv
  <1>2. PsTypes'
    BY <1>1 DEF PsTypes, LessAnswer
  <1>3. BatchOut' /\ CandidateFree' /\ FreedUnused' /\ LiveSends'
    BY <1>1 DEF BatchOut, Flushing, CandidateFree, FreedUnused, LiveSends, LessAnswer
  <1>4. PurgedLeft' /\ (PurgeFits => LeftForgotten')
    BY <1>1 DEF PurgedLeft, LeftForgotten, LessAnswer
  <1> QED
    BY <1>2, <1>3, <1>4 DEF PsInv, PurgeFits

\* An answer of the batch expires, is superseded, belongs to a viewer that left, or is sent next.
LEMMA FlushAnswerStep ==
  ASSUME PsInv, FlushAnswer
  PROVE  PsInv'
  <1> DEFINE a == batch.answers[flush.i]
  <1>1. PsTypes /\ OffersMade /\ BatchOut /\ AnswersNewer /\ CandidateFree /\ PurgedLeft
        /\ DeliveryOrder /\ AnswersKept /\ (PurgeFits => LeftForgotten) /\ FreedUnused /\ LiveSends
    BY DEF PsInv
  <1>2. /\ flush.pc = "answers" /\ flush.i \in DOMAIN batch.answers
        /\ UNCHANGED <<pend, batchOut, purged, flushPeers, sending, client, now, gen, left, wire>>
    BY DEF FlushAnswer, app
  <1>3. a \in In(batch.answers) /\ a.peer \in Peers /\ a.gen \in Nat /\ gen[a.peer] \in Nat /\ left[a.peer] \in Nat
    BY <1>1, <1>2, Elements DEF In
  <1>4. flush \in FlushStates /\ wire \in [Peers -> Seq(Reached)] /\ now \in Nat /\ flush.i \in Nat
    BY <1>1 DEF PsTypes, FlushStates
  <1>5. ASSUME LessAnswer, flush' = flush, gone \subseteq gone',
               \/ \E d \in gone' : d.peer = a.peer /\ d.gen = a.gen
               \/ a.gen <= left[a.peer] \/ a.gen < gen[a.peer]
        PROVE  PsInv'
    <2>1. OffersMade'
      BY <1>1, <1>2, <1>5 DEF OffersMade, LessAnswer
    <2>2. AnswersSent' = AnswersSent
      BY <1>2 DEF AnswersSent
    <2>3. AnswersNewer'
      BY <1>1, <1>2, <1>5, <2>2 DEF AnswersNewer, LessAnswer
    <2>4. DeliveryOrder'
      BY <1>1, <1>2 DEF DeliveryOrder, AnswerBeforeCandidates, NewestAnswerLast
    <2>5. AnswersKept'
      <3> SUFFICES ASSUME client = "live", NEW q \in Peers, gen[q] > left[q]
                   PROVE  \/ \E i \in DOMAIN wire[q] : wire[q][i] = [type |-> "answer", gen |-> gen[q]]
                          \/ \E x \in In(pend.answers) \cup In(batch'.answers) \cup AnswersSent : x.peer = q /\ x.gen = gen[q]
                          \/ \E d \in gone' : d.peer = q /\ d.gen = gen[q]
        BY <1>2, <2>2 DEF AnswersKept
      <3>1. \/ \E i \in DOMAIN wire[q] : wire[q][i] = [type |-> "answer", gen |-> gen[q]]
            \/ \E x \in In(pend.answers) \cup In(batch.answers) \cup AnswersSent : x.peer = q /\ x.gen = gen[q]
            \/ \E d \in gone : d.peer = q /\ d.gen = gen[q]
        BY <1>1 DEF AnswersKept
      <3>2. \A x \in In(batch.answers) : x = a \/ x \in In(batch'.answers)
        BY <1>5 DEF LessAnswer
      <3>3. CASE a.peer = q /\ a.gen = gen[q]
        BY <1>3, <1>5, <3>3
      <3>4. CASE ~(a.peer = q /\ a.gen = gen[q])
        <4> HIDE DEF a
        <4> QED
          BY <1>5, <3>1, <3>2, <3>4
      <3> QED
        BY <3>3, <3>4
    <2> QED
      BY <1>2, <1>4, <1>5, <2>1, <2>3, <2>4, <2>5, AnswerLeaves
  <1>6. ASSUME flush' \in FlushStates, flush'.pc \in {"answers", "sendAnswer"}, batch' = batch, gone' = gone,
               flush'.pc = "sendAnswer" => flush'.i = flush.i
        PROVE  PsInv'
    <2>1. UNCHANGED Data /\ now' \in Nat /\ client' = client
      BY <1>2, <1>4, <1>6 DEF Data
    <2>2. BatchOut' /\ CandidateFree' /\ FreedUnused' /\ LiveSends'
      BY <1>1, <1>2, <1>6 DEF BatchOut, Flushing, CandidateFree, FreedUnused, LiveSends
    <2> QED
      BY <1>6, <2>1, <2>2, SameData
  <1>7. \/ /\ batch' = PurgeIce([batch EXCEPT !.answers = RemoveAt(@, flush.i)], a.peer)
           /\ gone' = gone \cup GivenUp({a}, "expired") /\ flush' = flush
        \/ Next1 /\ batch' = batch /\ gone' = gone
        \/ (a.peer \in purged \/ HasAnswer(pend, a.peer)) /\ Answered /\ flush' = flush /\ gone' = gone
        \/ At("sendAnswer") /\ batch' = batch /\ gone' = gone
    BY DEF FlushAnswer
  <1>8. CASE /\ batch' = PurgeIce([batch EXCEPT !.answers = RemoveAt(@, flush.i)], a.peer)
             /\ gone' = gone \cup GivenUp({a}, "expired") /\ flush' = flush
    <2>1. LessAnswer
      <3>1. \E p : batch' = PurgeIce([batch EXCEPT !.answers = RemoveAt(@, flush.i)], p)
        BY <1>8, Zenon
      <3> QED
        BY <1>1, <1>2, <3>1, AnsweredLess
    <2>2. \E d \in gone' : d.peer = a.peer /\ d.gen = a.gen
      <3>1. \E d \in GivenUp({a}, "expired") : d.peer = a.peer /\ d.gen = a.gen
        <4> HIDE DEF a
        <4> QED
          BY GivenUpKnown
      <3> HIDE DEF a
      <3>2. GivenUp({a}, "expired") \subseteq gone'
        BY <1>8
      <3> QED
        BY <3>1, <3>2
    <2> QED
      BY <1>5, <1>8, <2>1, <2>2
  <1>9. CASE Next1 /\ batch' = batch /\ gone' = gone
    <2>2. flush' \in FlushStates /\ flush'.pc = "answers"
      BY <1>2, <1>4, <1>9, NextMessage
    <2> QED
      BY <1>6, <1>9, <2>2
  <1>10. CASE (a.peer \in purged \/ HasAnswer(pend, a.peer)) /\ Answered /\ flush' = flush /\ gone' = gone
    <2>1. LessAnswer
      BY <1>1, <1>2, <1>10, AnsweredLess DEF Answered
    <2>2. a.gen <= left[a.peer] \/ a.gen < gen[a.peer]
      <3>1. CASE a.peer \in purged
        BY <1>1, <1>3, <3>1 DEF PurgedLeft
      <3>2. CASE HasAnswer(pend, a.peer)
        <4>1. PICK x \in In(pend.answers) : x.peer = a.peer
          BY <3>2, Answering
        <4>2. a.gen < x.gen /\ x.gen <= gen[a.peer] /\ x.gen \in Nat
          BY <1>1, <1>3, <4>1, Elements DEF AnswersNewer, OffersMade
        <4> QED
          BY <1>3, <4>2
      <3> QED
        BY <1>10, <3>1, <3>2
    <2> QED
      BY <1>5, <1>10, <2>1, <2>2
  <1>11. CASE At("sendAnswer") /\ batch' = batch /\ gone' = gone
    <2>1. flush' \in FlushStates /\ flush'.pc = "sendAnswer" /\ flush'.i = flush.i
      BY <1>4, <1>11 DEF At, FlushStates, FlushPlaces
    <2> QED
      BY <1>6, <1>11, <2>1
  <1> QED
    BY <1>7, <1>8, <1>9, <1>10, <1>11

\* An answer of the batch is sent: it is newer than all its viewer was sent, and the oldest that waits.
LEMMA FlushSendAnswerStep ==
  ASSUME PsInv, FlushSendAnswer
  PROVE  PsInv'
  <1> DEFINE a == batch.answers[flush.i]
             m == [type |-> "answer", peer |-> a.peer, gen |-> a.gen]
  <1>1. PsTypes /\ OffersMade /\ BatchOut /\ AnswersNewer /\ CandidateFree /\ PurgedLeft
        /\ DeliveryOrder /\ AnswersKept /\ (PurgeFits => LeftForgotten) /\ FreedUnused /\ LiveSends
    BY DEF PsInv
  <1>2. /\ flush.pc = "sendAnswer" /\ flush.i \in DOMAIN batch.answers
        /\ UNCHANGED <<pend, batchOut, purged, flushPeers, sending, client, now, gen, left, gone>>
    BY <1>1 DEF FlushSendAnswer, app, BatchOut
  <1>3. a \in In(batch.answers) /\ a \in PsAnswers /\ a.peer \in Peers /\ a.gen \in Nat /\ m \in PsMessages
    BY <1>1, <1>2, Elements DEF In, PsMessages
  <1>4. flush \in FlushStates /\ now \in Nat /\ flush.i \in Nat
    BY <1>1 DEF PsTypes, FlushStates
  <1>5. CASE sockUp
    <2>1. Deliver(m) /\ Answered /\ At("answers")
      BY <1>5 DEF FlushSendAnswer
    <2>2. flush' \in FlushStates /\ flush'.pc = "answers"
      BY <1>4, <2>1 DEF At, FlushStates, FlushPlaces
    <2>3. LessAnswer
      BY <1>1, <1>2, <2>1, AnsweredLess DEF Answered
    <2>4. m.peer = a.peer /\ m.gen = a.gen /\ m.type = "answer"
      OBVIOUS
    <2> HIDE DEF m
    <2>5. /\ wire' \in [Peers -> Seq(Reached)]
          /\ \A q \in Peers : q # a.peer => wire'[q] = wire[q]
          /\ \A q \in Peers : \A i \in DOMAIN wire'[q] :
               \/ i \in DOMAIN wire[q] /\ wire'[q][i] = wire[q][i]
               \/ q = a.peer /\ wire'[q][i] = [type |-> "answer", gen |-> a.gen]
          /\ \A q \in Peers : \A i \in DOMAIN wire[q] : i \in DOMAIN wire'[q] /\ wire'[q][i] = wire[q][i]
          /\ \E i \in DOMAIN wire'[a.peer] : wire'[a.peer][i] = [type |-> "answer", gen |-> a.gen]
      BY <1>1, <1>3, <2>1, <2>4, Delivering
    <2>6. AnswersSent' = AnswersSent
      BY <1>2 DEF AnswersSent
    <2> DEFINE waits == In(pend.answers) \cup In(batch'.answers) \cup AnswersSent
    <2>7. \A x \in waits : x.peer = a.peer => a.gen < x.gen
      BY <1>1, <1>3, <2>3 DEF AnswersNewer, LessAnswer
    <2>8. \A x \in waits : \A i \in DOMAIN wire[x.peer] : wire[x.peer][i].gen < x.gen
      BY <1>1, <2>3 DEF AnswersNewer, LessAnswer
    <2>9. \A x \in waits : x.peer \in Peers
      BY <1>1, <2>3, Elements DEF LessAnswer, AnswersSent, PsTypes
    <2> HIDE DEF a
    <2>10. OffersMade'
      <3>1. \A q \in Peers : \A i \in DOMAIN wire'[q] : wire'[q][i].gen <= gen[q]
        BY <1>1, <1>3, <2>5 DEF OffersMade
      <3>2. \A q \in Peers : left[q] <= gen[q]
        BY <1>1 DEF OffersMade
      <3> QED
        BY <1>1, <1>2, <2>3, <3>1, <3>2 DEF OffersMade, LessAnswer
    <2>11. AnswersNewer'
      <3> HIDE DEF waits
      <3>1. \A x \in waits : \A i \in DOMAIN wire'[x.peer] : wire'[x.peer][i].gen < x.gen
        <4> TAKE x \in waits
        <4> TAKE i \in DOMAIN wire'[x.peer]
        <4>1. \/ i \in DOMAIN wire[x.peer] /\ wire'[x.peer][i] = wire[x.peer][i]
              \/ x.peer = a.peer /\ wire'[x.peer][i] = [type |-> "answer", gen |-> a.gen]
          BY <2>5, <2>9
        <4>2. CASE i \in DOMAIN wire[x.peer] /\ wire'[x.peer][i] = wire[x.peer][i]
          BY <2>8, <4>2
        <4>3. CASE x.peer = a.peer /\ wire'[x.peer][i] = [type |-> "answer", gen |-> a.gen]
          BY <2>7, <4>3
        <4> QED
          BY <4>1, <4>2, <4>3
      <3>2. \A x \in In(batch'.answers) : x \in In(batch.answers)
        BY <2>3 DEF LessAnswer
      <3> QED
        BY <1>1, <1>2, <2>6, <3>1, <3>2 DEF AnswersNewer, waits
    <2>12. DeliveryOrder'
      <3>1. \A i \in DOMAIN wire[a.peer] : wire[a.peer][i].gen < a.gen
        BY <1>1, <1>3 DEF AnswersNewer
      <3> QED
        BY <1>1, <1>3, <2>1, <2>4, <3>1, DeliveredInOrder
    <2>13. AnswersKept'
      <3>1. \A x \in In(batch.answers) : x = a \/ x \in In(batch'.answers)
        BY <2>3 DEF LessAnswer, a
      <3> QED
        BY <1>1, <1>2, <1>3, <2>5, <2>6, <3>1 DEF AnswersKept
    <2> QED
      BY <1>2, <2>2, <2>3, <2>5, <2>10, <2>11, <2>12, <2>13, AnswerLeaves
  <1>6. CASE ~sockUp
    <2>1. Next1 /\ UNCHANGED <<batch, wire>>
      BY <1>6 DEF FlushSendAnswer
    <2>3. flush' \in FlushStates /\ flush'.pc = "answers"
      BY <1>2, <1>4, <2>1, NextMessage
    <2>4. UNCHANGED Data /\ now' \in Nat /\ client' = client
      BY <1>2, <1>4, <2>1 DEF Data
    <2>5. BatchOut' /\ CandidateFree' /\ FreedUnused' /\ LiveSends'
      BY <1>1, <1>2, <2>1, <2>3 DEF BatchOut, Flushing, CandidateFree, FreedUnused, LiveSends
    <2> QED
      BY <2>3, <2>4, <2>5, SameData
  <1> QED
    BY <1>5, <1>6

\* The candidates of the batch are fewer, or tried once more.
LessIce ==
  /\ batch' \in PsBuffers /\ batch'.answers = batch.answers
  /\ \A e \in In(batch'.ice) : \E x \in In(batch.ice) : x.peer = e.peer /\ x.gen = e.gen

LEMMA TrickledLess ==
  ASSUME PsTypes, flush.i \in DOMAIN batch.ice, Trickled
  PROVE  LessIce
  <1>1. batch \in PsBuffers /\ batch.ice \in Seq(PsIce)
    BY DEF PsTypes, PsBuffers
  <1>2. /\ RemoveAt(batch.ice, flush.i) \in Seq(PsIce)
        /\ In(RemoveAt(batch.ice, flush.i)) = {batch.ice[j] : j \in DOMAIN batch.ice \ {flush.i}}
    BY <1>1, RemoveAtIn
  <1>3. batch' = [answers |-> batch.answers, ice |-> RemoveAt(batch.ice, flush.i)]
    BY <1>1 DEF Trickled, PsBuffers
  <1>4. batch' \in PsBuffers
    BY <1>1, <1>2, <1>3 DEF PsBuffers
  <1>5. In(batch'.ice) \subseteq In(batch.ice)
    BY <1>2, <1>3 DEF In
  <1> QED
    BY <1>3, <1>4, <1>5 DEF LessIce

LEMMA AttemptedLess ==
  ASSUME PsTypes, flush.pc \in {"ice", "sendIce"}, flush.i \in DOMAIN batch.ice, Attempted
  PROVE  LessIce /\ flush' \in FlushStates /\ flush'.pc = "ice"
  <1>1. flush \in FlushStates /\ flush.i \in Nat
    BY DEF PsTypes, FlushStates
  <1>2. CASE Trickled /\ At("ice")
    <2>1. flush' \in FlushStates /\ flush'.pc = "ice"
      BY <1>1, <1>2 DEF At, FlushStates, FlushPlaces
    <2> QED
      BY <1>2, <2>1, TrickledLess
  <1>3. CASE batch' = [batch EXCEPT !.ice[flush.i].attempts = @ + 1] /\ Next1
    <2>2. flush' \in FlushStates /\ flush'.pc = "ice"
      BY <1>1, <1>3, NextMessage
    <2> DEFINE s == batch.ice
               e == [s[flush.i] EXCEPT !.attempts = @ + 1]
               q == [s EXCEPT ![flush.i] = e]
    <2>3. batch \in PsBuffers /\ s \in Seq(PsIce) /\ s[flush.i] \in PsIce
      <3>1. batch \in PsBuffers
        BY DEF PsTypes
      <3> QED
        BY <3>1, BufferParts, ElementOfSeq
    <2>4. e \in PsIce /\ e.peer = s[flush.i].peer /\ e.gen = s[flush.i].gen
      <3>1. \A y \in PsIce : LET z == [y EXCEPT !.attempts = @ + 1]
                              IN z \in PsIce /\ z.peer = y.peer /\ z.gen = y.gen
        BY DEF PsIce
      <3> QED
        BY <2>3, <3>1
    <2>5. batch' = [answers |-> batch.answers, ice |-> q]
      BY <1>3, <2>3 DEF PsBuffers
    <2> HIDE DEF e
    <2>6. q \in Seq(PsIce) /\ DOMAIN q = DOMAIN s /\ \A j \in DOMAIN s : q[j] = IF j = flush.i THEN e ELSE s[j]
      BY <2>3, <2>4
    <2> HIDE DEF q
    <2>7. \A x \in In(q) : \E y \in In(s) : y.peer = x.peer /\ y.gen = x.gen
      BY <2>4, <2>6 DEF In
    <2> HIDE DEF s
    <2>8. batch' \in PsBuffers /\ batch'.answers = batch.answers /\ batch'.ice = q
      BY <2>3, <2>5, <2>6 DEF PsBuffers
    <2> QED
      BY <2>2, <2>7, <2>8 DEF LessIce, s
  <1> QED
    BY <1>2, <1>3 DEF Attempted

LEMMA CandidateLeaves ==
  ASSUME PsInv, LessIce, flush.pc \in {"ice", "sendIce"}, flush' \in FlushStates, flush'.pc = "ice",
         UNCHANGED <<batchOut, purged, flushPeers, sending, client, now, gen, left, gone>>,
         pend' \in PsBuffers, pend'.answers = pend.answers,
         \A e \in In(pend'.ice) : e \in In(pend.ice)
           \/ (e.gen <= gen[e.peer] /\ (PurgeFits => e.gen > left[e.peer])),
         wire' \in [Peers -> Seq(Reached)],
         \A p \in Peers : \A i \in DOMAIN wire'[p] : wire'[p][i].gen <= gen[p],
         \A p \in Peers : \A i \in DOMAIN wire[p] : i \in DOMAIN wire'[p] /\ wire'[p][i] = wire[p][i],
         \A x \in In(pend.answers) \cup In(batch.answers) \cup AnswersSent :
           \A i \in DOMAIN wire'[x.peer] : wire'[x.peer][i].gen < x.gen,
         DeliveryOrder'
  PROVE  PsInv'
  <1>1. PsTypes /\ OffersMade /\ BatchOut /\ AnswersNewer /\ PurgedLeft /\ AnswersKept
        /\ (PurgeFits => LeftForgotten) /\ FreedUnused /\ LiveSends
    BY DEF PsInv
  <1>2. /\ batch'.answers = batch.answers /\ batch' \in PsBuffers
        /\ \A e \in In(batch'.ice) : \E x \in In(batch.ice) : x.peer = e.peer /\ x.gen = e.gen
    BY DEF LessIce
  <1>3. AnswersSent' = AnswersSent
    BY DEF AnswersSent
  <1>4. PsTypes'
    BY <1>1, <1>2 DEF PsTypes
  <1>5. OffersMade'
    <2>1. \A e \in In(pend'.answers) \cup In(batch'.answers) \cup In(pend'.ice) \cup In(batch'.ice) : e.gen <= gen[e.peer]
      BY <1>1, <1>2 DEF OffersMade
    <2> QED
      BY <1>1, <2>1 DEF OffersMade
  <1>6. BatchOut' /\ CandidateFree' /\ FreedUnused' /\ LiveSends'
    BY <1>1, <1>2 DEF BatchOut, Flushing, CandidateFree, FreedUnused, LiveSends
  <1>7. AnswersNewer'
    BY <1>1, <1>2, <1>3 DEF AnswersNewer
  <1>8. PurgedLeft' /\ (PurgeFits => LeftForgotten')
    BY <1>1, <1>2 DEF PurgedLeft, LeftForgotten
  <1>9. AnswersKept'
    BY <1>1, <1>2, <1>3 DEF AnswersKept
  <1> QED
    BY <1>4, <1>5, <1>6, <1>7, <1>8, <1>9 DEF PsInv, PurgeFits

\* A candidate of the batch waits for its answer, or goes behind one that was buffered since, or
\* is dropped, or is sent next.
LEMMA FlushIceStep ==
  ASSUME PsInv, FlushIce
  PROVE  PsInv'
  <1> DEFINE c == batch.ice[flush.i]
  <1>1. PsTypes /\ OffersMade /\ BatchOut /\ AnswersNewer /\ CandidateFree /\ PurgedLeft
        /\ DeliveryOrder /\ AnswersKept /\ (PurgeFits => LeftForgotten) /\ FreedUnused /\ LiveSends
    BY DEF PsInv
  <1>2. /\ flush.pc = "ice" /\ flush.i \in DOMAIN batch.ice
        /\ UNCHANGED <<batchOut, purged, flushPeers, sending, client, now, gen, left, wire, gone>>
    BY DEF FlushIce, app
  <1>3. c \in In(batch.ice) /\ c \in PsIce
    BY <1>1, <1>2, Elements DEF In
  <1>4. flush \in FlushStates /\ wire \in [Peers -> Seq(Reached)] /\ now \in Nat /\ flush.i \in Nat /\ pend \in PsBuffers
    BY <1>1 DEF PsTypes, FlushStates
  <1>5. /\ \A p \in Peers : \A i \in DOMAIN wire[p] : wire[p][i].gen <= gen[p]
        /\ \A x \in In(pend.answers) \cup In(batch.answers) \cup AnswersSent :
             \A i \in DOMAIN wire[x.peer] : wire[x.peer][i].gen < x.gen
    BY <1>1 DEF OffersMade, AnswersNewer
  <1>6. ASSUME LessIce, flush' \in FlushStates, flush'.pc = "ice",
               pend' \in PsBuffers, pend'.answers = pend.answers,
               \A e \in In(pend'.ice) : e \in In(pend.ice)
                 \/ (e.gen <= gen[e.peer] /\ (PurgeFits => e.gen > left[e.peer]))
        PROVE  PsInv'
    <2>1. DeliveryOrder'
      BY <1>1, <1>2 DEF DeliveryOrder, AnswerBeforeCandidates, NewestAnswerLast
    <2> QED
      BY <1>2, <1>4, <1>5, <1>6, <2>1, CandidateLeaves
  <1>7. \/ Next1 /\ UNCHANGED <<pend, batch>>
        \/ Attempted /\ UNCHANGED pend
        \/ Trickled /\ UNCHANGED <<pend, flush>>
        \/ /\ c.peer \notin purged /\ pend' = PushIce(pend, [c EXCEPT !.attempts = 0])
           /\ Trickled /\ UNCHANGED flush
        \/ /\ ~HasAnswer(batch, c.peer) /\ ~HasAnswer(pend, c.peer) /\ sending = NoMessage
           /\ At("sendIce") /\ UNCHANGED <<pend, batch>>
    BY DEF FlushIce, HoldBehindAnswer, Unlocked
  <1>8. CASE Next1 /\ UNCHANGED <<pend, batch>>
    <2>2. flush' \in FlushStates /\ flush'.pc = "ice"
      BY <1>2, <1>4, <1>8, NextMessage
    <2>3. LessIce
      BY <1>1, <1>8 DEF LessIce, PsTypes
    <2> QED
      BY <1>4, <1>6, <1>8, <2>2, <2>3
  <1>9. CASE Attempted /\ UNCHANGED pend
    <2>1. LessIce /\ flush' \in FlushStates /\ flush'.pc = "ice"
      BY <1>1, <1>2, <1>9, AttemptedLess
    <2> QED
      BY <1>4, <1>6, <1>9, <2>1
  <1>10. CASE Trickled /\ UNCHANGED <<pend, flush>>
    <2>1. LessIce
      BY <1>1, <1>2, <1>10, TrickledLess
    <2> QED
      BY <1>2, <1>4, <1>6, <1>10, <2>1
  <1>11. CASE c.peer \notin purged /\ pend' = PushIce(pend, [c EXCEPT !.attempts = 0]) /\ Trickled /\ UNCHANGED flush
    <2> DEFINE d == [c EXCEPT !.attempts = 0]
    <2>1. LessIce
      BY <1>1, <1>2, <1>11, TrickledLess
    <2>2. d \in PsIce /\ d.peer = c.peer /\ d.gen = c.gen
      BY <1>3 DEF PsIce
    <2>3. d.gen <= gen[d.peer] /\ (PurgeFits => d.gen > left[d.peer])
      BY <1>1, <1>3, <1>11, <2>2 DEF OffersMade, LeftForgotten
    <2> HIDE DEF d
    <2>4. pend' \in PsBuffers /\ pend'.answers = pend.answers /\ In(pend'.ice) \subseteq In(pend.ice) \cup {d}
      BY <1>4, <1>11, <2>2, Pushing DEF d
    <2> QED
      BY <1>2, <1>4, <1>6, <1>11, <2>1, <2>3, <2>4
  <1>12. CASE /\ ~HasAnswer(batch, c.peer) /\ ~HasAnswer(pend, c.peer) /\ sending = NoMessage
              /\ At("sendIce") /\ UNCHANGED <<pend, batch>>
    <2>1. flush' \in FlushStates /\ flush'.pc = "sendIce" /\ flush'.i = flush.i
      BY <1>4, <1>12 DEF At, FlushStates, FlushPlaces
    <2>2. UNCHANGED Data /\ now' \in Nat /\ client' = client
      BY <1>2, <1>4, <1>12 DEF Data
    <2>3. AnswersSent' = {}
      BY <1>2, <1>12 DEF AnswersSent
    <2>4. \A x \in In(pend.answers) : x.peer # c.peer
      BY <1>12, Answering
    <2>5. CandidateFree'
      BY <1>2, <1>12, <2>1, <2>3, <2>4 DEF CandidateFree, HasAnswer
    <2>6. BatchOut' /\ FreedUnused' /\ LiveSends'
      BY <1>1, <1>2, <1>12, <2>1 DEF BatchOut, Flushing, FreedUnused, LiveSends
    <2> QED
      BY <2>1, <2>2, <2>5, <2>6, SameData
  <1> QED
    BY <1>7, <1>8, <1>9, <1>10, <1>11, <1>12

LEMMA FlushSendIceStep ==
  ASSUME PsInv, FlushSendIce
  PROVE  PsInv'
  <1> DEFINE c == batch.ice[flush.i]
             m == [type |-> "ice", peer |-> c.peer, gen |-> c.gen]
  <1>1. PsTypes /\ OffersMade /\ BatchOut /\ AnswersNewer /\ CandidateFree /\ PurgedLeft
        /\ DeliveryOrder /\ AnswersKept /\ (PurgeFits => LeftForgotten) /\ FreedUnused /\ LiveSends
    BY DEF PsInv
  <1>2. /\ flush.pc = "sendIce" /\ flush.i \in DOMAIN batch.ice
        /\ UNCHANGED <<pend, batchOut, purged, flushPeers, sending, client, now, gen, left, gone>>
    BY <1>1 DEF FlushSendIce, app, CandidateFree
  <1>3. c \in In(batch.ice) /\ c.peer \in Peers /\ c.gen \in Nat /\ c.gen <= gen[c.peer] /\ m \in PsMessages
    BY <1>1, <1>2, Elements DEF In, OffersMade, PsMessages
  <1>4. flush \in FlushStates /\ pend \in PsBuffers /\ wire \in [Peers -> Seq(Reached)]
    BY <1>1 DEF PsTypes
  <1>5. /\ \A p \in Peers : \A i \in DOMAIN wire[p] : wire[p][i].gen <= gen[p]
        /\ \A x \in In(pend.answers) \cup In(batch.answers) \cup AnswersSent :
             \A i \in DOMAIN wire[x.peer] : wire[x.peer][i].gen < x.gen
    BY <1>1 DEF OffersMade, AnswersNewer
  <1>6. CASE sockUp
    <2>1. Deliver(m) /\ Trickled /\ At("ice")
      BY <1>6 DEF FlushSendIce
    <2>2. flush' \in FlushStates /\ flush'.pc = "ice"
      BY <1>4, <2>1 DEF At, FlushStates, FlushPlaces
    <2>3. LessIce
      BY <1>1, <1>2, <2>1, TrickledLess
    <2>4. m.peer = c.peer /\ m.gen = c.gen /\ m.type = "ice"
      OBVIOUS
    <2> HIDE DEF m
    <2>5. /\ wire' \in [Peers -> Seq(Reached)]
          /\ \A q \in Peers : q # c.peer => wire'[q] = wire[q]
          /\ \A q \in Peers : \A i \in DOMAIN wire'[q] :
               \/ i \in DOMAIN wire[q] /\ wire'[q][i] = wire[q][i]
               \/ q = c.peer /\ wire'[q][i] = [type |-> "ice", gen |-> c.gen]
          /\ \A q \in Peers : \A i \in DOMAIN wire[q] : i \in DOMAIN wire'[q] /\ wire'[q][i] = wire[q][i]
      BY <1>1, <1>3, <2>1, <2>4, Delivering
    <2>6. DeliveryOrder'
      BY <1>1, <1>3, <2>1, <2>4, DeliveredInOrder
    <2> DEFINE waits == In(pend.answers) \cup In(batch.answers) \cup AnswersSent
    <2>7. \A x \in waits : x.peer = c.peer => c.gen < x.gen
      BY <1>1, <1>2, Answering DEF CandidateFree
    <2>8. \A x \in waits : x.peer \in Peers
      BY <1>1, Elements DEF AnswersSent, PsTypes
    <2> HIDE DEF c
    <2>9. \A q \in Peers : \A i \in DOMAIN wire'[q] : wire'[q][i].gen <= gen[q]
      BY <1>3, <1>5, <2>5
    <2>10. \A x \in waits : \A i \in DOMAIN wire'[x.peer] : wire'[x.peer][i].gen < x.gen
      <3>1. \A x \in waits : \A i \in DOMAIN wire[x.peer] : wire[x.peer][i].gen < x.gen
        BY <1>5
      <3> HIDE DEF waits
      <3> QED
        <4> TAKE x \in waits
        <4> TAKE i \in DOMAIN wire'[x.peer]
        <4>1. \/ i \in DOMAIN wire[x.peer] /\ wire'[x.peer][i] = wire[x.peer][i]
              \/ x.peer = c.peer /\ wire'[x.peer][i] = [type |-> "ice", gen |-> c.gen]
          BY <2>5, <2>8
        <4>2. CASE i \in DOMAIN wire[x.peer] /\ wire'[x.peer][i] = wire[x.peer][i]
          BY <3>1, <4>2
        <4>3. CASE x.peer = c.peer /\ wire'[x.peer][i] = [type |-> "ice", gen |-> c.gen]
          BY <2>7, <4>3
        <4> QED
          BY <4>1, <4>2, <4>3
    <2> QED
      BY <1>2, <1>4, <2>2, <2>3, <2>5, <2>6, <2>9, <2>10, CandidateLeaves
  <1>7. CASE ~sockUp
    <2>1. Attempted /\ UNCHANGED wire
      BY <1>7 DEF FlushSendIce
    <2>2. LessIce /\ flush' \in FlushStates /\ flush'.pc = "ice"
      BY <1>1, <1>2, <2>1, AttemptedLess
    <2>3. DeliveryOrder'
      BY <1>1, <2>1 DEF DeliveryOrder, AnswerBeforeCandidates, NewestAnswerLast
    <2> QED
      BY <1>2, <1>4, <1>5, <2>1, <2>2, <2>3, CandidateLeaves
  <1> QED
    BY <1>6, <1>7

\* What is left of the batch goes back, unless its viewer left or has a newer answer.
LEMMA FlushMergeStep ==
  ASSUME PsInv, FlushMerge
  PROVE  PsInv'
  <1> DEFINE merged == Merged(pend, batch, purged)
  <1>1. PsTypes /\ OffersMade /\ BatchOut /\ AnswersNewer /\ CandidateFree /\ PurgedLeft
        /\ DeliveryOrder /\ AnswersKept /\ (PurgeFits => LeftForgotten) /\ FreedUnused /\ LiveSends
    BY DEF PsInv
  <1>2. /\ flush.pc = "merge" /\ sending = NoMessage
        /\ pend' = merged.buf /\ gone' = gone \cup GivenUp(merged.out, "room")
        /\ batch' = Empty /\ batchOut' = FALSE /\ purged' = {} /\ flushPeers' = {}
        /\ UNCHANGED <<sending, client, now, gen, left, wire>>
    BY DEF FlushMerge, Unlocked, app
  <1>3. flush' \in FlushStates /\ flush'.pc \in {"idle", "round"}
    <2>1. flush' = Idle \/ flush' = [Idle EXCEPT !.pc = "round", !.round = flush.round + 1]
      BY DEF FlushMerge
    <2>2. flush.round \in Nat
      BY <1>1 DEF PsTypes, FlushStates
    <2>3. CASE flush' = Idle
      BY <2>3 DEF Idle, FlushStates, FlushPlaces
    <2>4. CASE flush' = [Idle EXCEPT !.pc = "round", !.round = flush.round + 1]
      <3>1. flush' = [pc |-> "round", round |-> flush.round + 1, i |-> 0, now |-> 0]
        BY <2>4 DEF Idle
      <3> QED
        BY <2>2, <3>1 DEF FlushStates, FlushPlaces
    <2> QED
      BY <2>1, <2>3, <2>4
  <1>4. /\ pend \in PsBuffers /\ batch \in PsBuffers /\ OnePerPeer(pend.answers) /\ OnePerPeer(batch.answers)
    BY <1>1 DEF PsTypes
  <1>5. /\ pend' \in PsBuffers /\ OnePerPeer(pend'.answers)
        /\ In(pend'.answers) \subseteq In(pend.answers) \cup {x \in In(batch.answers) : x.peer \notin purged}
        /\ In(pend'.ice) \subseteq In(pend.ice) \cup {x \in In(batch.ice) : x.peer \notin purged}
        /\ In(pend.answers) \subseteq In(pend'.answers) \cup merged.out
        /\ \A x \in In(batch.answers) :
             x.peer \in purged \/ x \in In(pend'.answers) \cup merged.out \/ HasAnswer(pend, x.peer)
    BY <1>2, <1>4, Merging
  <1> HIDE DEF merged
  <1>6. Empty \in PsBuffers /\ OnePerPeer(Empty.answers) /\ In(Empty.answers) = {} /\ In(Empty.ice) = {}
    BY DEF Empty, PsBuffers, OnePerPeer, In
  <1>7. AnswersSent = {} /\ AnswersSent' = {}
    BY <1>2 DEF AnswersSent
  <1>8. PsTypes'
    BY <1>1, <1>2, <1>3, <1>5, <1>6 DEF PsTypes
  <1>9. OffersMade'
    BY <1>1, <1>2, <1>5, <1>6 DEF OffersMade
  <1>10. BatchOut' /\ CandidateFree' /\ PurgedLeft'
    BY <1>2, <1>3, <1>6 DEF BatchOut, Flushing, CandidateFree, PurgedLeft
  <1>11. AnswersNewer'
    BY <1>1, <1>2, <1>5, <1>6, <1>7 DEF AnswersNewer
  <1>12. DeliveryOrder'
    BY <1>1, <1>2 DEF DeliveryOrder, AnswerBeforeCandidates, NewestAnswerLast
  <1>13. AnswersKept'
    <2> SUFFICES ASSUME client = "live", NEW q \in Peers, gen[q] > left[q]
                 PROVE  \/ \E i \in DOMAIN wire[q] : wire[q][i] = [type |-> "answer", gen |-> gen[q]]
                        \/ \E x \in In(pend'.answers) : x.peer = q /\ x.gen = gen[q]
                        \/ \E d \in gone' : d.peer = q /\ d.gen = gen[q]
      BY <1>2 DEF AnswersKept
    <2>1. \/ \E i \in DOMAIN wire[q] : wire[q][i] = [type |-> "answer", gen |-> gen[q]]
          \/ \E x \in In(pend.answers) \cup In(batch.answers) : x.peer = q /\ x.gen = gen[q]
          \/ \E d \in gone : d.peer = q /\ d.gen = gen[q]
      BY <1>1, <1>7 DEF AnswersKept
    <2>2. ASSUME NEW x \in merged.out, x.peer = q, x.gen = gen[q]
          PROVE  \E d \in gone' : d.peer = q /\ d.gen = gen[q]
      BY <1>2, <2>2, GivenUpKnown
    <2>3. ASSUME NEW x \in In(batch.answers), x.peer = q, x.gen = gen[q]
          PROVE  x \in In(pend'.answers) \cup merged.out
      <3>1. gen[q] \in Nat /\ left[q] \in Nat
        BY <1>1, Elements
      <3>2. x.peer \notin purged
        BY <1>1, <2>3, <3>1 DEF PurgedLeft
      <3>3. ~HasAnswer(pend, x.peer)
        <4> SUFFICES ASSUME NEW y \in In(pend.answers), y.peer = q
                     PROVE  FALSE
          BY <2>3, Answering
        <4>1. x.gen < y.gen /\ y.gen <= gen[q] /\ y.gen \in Nat
          BY <1>1, <2>3, Elements DEF AnswersNewer, OffersMade
        <4> QED
          BY <2>3, <3>1, <4>1
      <3> QED
        BY <1>5, <3>2, <3>3
    <2> QED
      BY <1>2, <1>5, <2>1, <2>2, <2>3
  <1>14. PurgeFits => LeftForgotten'
    BY <1>1, <1>2, <1>5, <1>6 DEF LeftForgotten
  <1>15. FreedUnused' /\ LiveSends'
    BY <1>1, <1>2 DEF FreedUnused, LiveSends
  <1> QED
    BY <1>8, <1>9, <1>10, <1>11, <1>12, <1>13, <1>14, <1>15 DEF PsInv, PurgeFits

\* The client is freed when the worker has drained, and with it the buffer.
LEMMA CloseSyncStep ==
  ASSUME PsInv, CloseSyncReturns
  PROVE  PsInv'
  <1>1. PsTypes /\ OffersMade /\ BatchOut /\ AnswersNewer /\ CandidateFree /\ PurgedLeft
        /\ DeliveryOrder /\ AnswersKept /\ (PurgeFits => LeftForgotten) /\ FreedUnused /\ LiveSends
    BY DEF PsInv
  <1>2. /\ flush.pc = "idle"
        /\ UNCHANGED <<batch, batchOut, purged, flushPeers, flush, sending, now, gen, left, wire, gone>>
    BY DEF CloseSyncReturns, psWorker, app, buffer
  <1>3. CASE client = "closing"
    <2>1. client' = "freed" /\ pend' = Empty /\ sending = NoMessage
      BY <1>1, <1>3 DEF CloseSyncReturns, LiveSends
    <2>2. Empty \in PsBuffers /\ OnePerPeer(Empty.answers) /\ In(Empty.answers) = {} /\ In(Empty.ice) = {}
      BY DEF Empty, PsBuffers, OnePerPeer, In
    <2>3. AnswersSent' = AnswersSent
      BY <1>2 DEF AnswersSent
    <2>4. PsTypes'
      BY <1>1, <1>2, <2>1, <2>2 DEF PsTypes
    <2>5. OffersMade' /\ AnswersNewer' /\ PurgedLeft' /\ (PurgeFits => LeftForgotten')
      BY <1>1, <1>2, <2>1, <2>2, <2>3 DEF OffersMade, AnswersNewer, PurgedLeft, LeftForgotten
    <2>6. BatchOut' /\ CandidateFree' /\ DeliveryOrder' /\ AnswersKept' /\ FreedUnused' /\ LiveSends'
      BY <1>1, <1>2, <2>1 DEF BatchOut, Flushing, CandidateFree, DeliveryOrder, AnswerBeforeCandidates,
         NewestAnswerLast, AnswersKept, FreedUnused, LiveSends
    <2> QED
      BY <2>4, <2>5, <2>6 DEF PsInv, PurgeFits
  <1>4. CASE client # "closing"
    <2>1. UNCHANGED <<Data, client, flush>> /\ now' \in Nat /\ flush' \in FlushStates
      BY <1>1, <1>2, <1>4 DEF CloseSyncReturns, Data, buffer, PsTypes
    <2>2. BatchOut' /\ CandidateFree' /\ FreedUnused' /\ LiveSends'
      BY <1>1, <1>2, <2>1 DEF Data, BatchOut, Flushing, CandidateFree, FreedUnused, LiveSends
    <2> QED
      BY <2>1, <2>2, SameData
  <1> QED
    BY <1>3, <1>4

LEMMA PsInvSound == PsInv => DeliveryOrder /\ NoAnswerVanishes /\ FreedUnused /\ (PurgeFits => DepartedForgotten)
  <1> SUFFICES ASSUME PsInv
               PROVE  NoAnswerVanishes /\ (PurgeFits => DepartedForgotten)
    BY DEF PsInv
  <1>1. NoAnswerVanishes
    <2> SUFFICES ASSUME client = "live", NEW p \in Peers, gen[p] > left[p]
                 PROVE  \/ \E i \in DOMAIN wire[p] : wire[p][i] = [type |-> "answer", gen |-> gen[p]]
                        \/ \E i \in DOMAIN pend.answers : pend.answers[i].peer = p /\ pend.answers[i].gen = gen[p]
                        \/ \E i \in DOMAIN batch.answers : batch.answers[i].peer = p /\ batch.answers[i].gen = gen[p]
                        \/ sending = [type |-> "answer", peer |-> p, gen |-> gen[p]]
                        \/ \E d \in gone : d.peer = p /\ d.gen = gen[p]
      BY DEF NoAnswerVanishes
    <2>1. \/ \E i \in DOMAIN wire[p] : wire[p][i] = [type |-> "answer", gen |-> gen[p]]
          \/ \E x \in In(pend.answers) \cup In(batch.answers) \cup AnswersSent : x.peer = p /\ x.gen = gen[p]
          \/ \E d \in gone : d.peer = p /\ d.gen = gen[p]
      BY DEF PsInv, AnswersKept
    <2>2. ASSUME NEW x \in AnswersSent, x.peer = p, x.gen = gen[p]
          PROVE  sending = [type |-> "answer", peer |-> p, gen |-> gen[p]]
      BY <2>2 DEF AnswersSent, PsInv, PsTypes, PsMessages
    <2> QED
      BY <2>1, <2>2 DEF In
  <1>2. ASSUME PurgeFits PROVE DepartedForgotten
    <2>1. LeftForgotten /\ PsTypes
      BY <1>2 DEF PsInv
    <2>2. /\ \A x \in In(pend.answers) \cup In(pend.ice) \cup In(batch.answers) \cup In(batch.ice) :
               x.gen \in Nat /\ x.peer \in Peers
          /\ \A p \in Peers : left[p] \in Nat
      BY <2>1, Elements
    <2> SUFFICES ASSUME NEW p \in Peers
                 PROVE  /\ ~\E i \in DOMAIN pend.answers : pend.answers[i].peer = p /\ pend.answers[i].gen <= left[p]
                        /\ ~\E i \in DOMAIN pend.ice : pend.ice[i].peer = p /\ pend.ice[i].gen <= left[p]
                        /\ \A i \in DOMAIN batch.answers :
                             batch.answers[i].peer = p /\ batch.answers[i].gen <= left[p] => p \in purged
                        /\ \A i \in DOMAIN batch.ice :
                             batch.ice[i].peer = p /\ batch.ice[i].gen <= left[p] => p \in purged
      BY DEF DepartedForgotten
    <2>3. \A x \in In(pend.answers) \cup In(pend.ice) : ~(x.peer = p /\ x.gen <= left[p])
      BY <2>1, <2>2 DEF LeftForgotten
    <2>4. \A x \in In(batch.answers) \cup In(batch.ice) : x.peer = p /\ x.gen <= left[p] => p \in purged
      BY <2>1, <2>2 DEF LeftForgotten
    <2> QED
      BY <2>3, <2>4 DEF In
  <1> QED
    BY <1>1, <1>2

\* The pending buffer's invariant, whatever the sizes of its arrays: an answer that waits is
\* newer than all its viewer was sent, and each last answer is accounted for
\* (kvs_pending_ice.c, kvs_flush_pending_task()).
THEOREM PendingInductive == PsSpec => []PsInv
  <1>1. ASSUME PsInv, UNCHANGED psVars
        PROVE  PsInv'
    <2>1. UNCHANGED <<Data, client, flush>> /\ now' \in Nat /\ flush' \in FlushStates
      BY <1>1 DEF psVars, Data, buffer, psWorker, app, PsInv, PsTypes
    <2>2. BatchOut' /\ CandidateFree' /\ FreedUnused' /\ LiveSends'
      BY <1>1, <2>1 DEF PsInv, Data, BatchOut, Flushing, CandidateFree, HasAnswer, AnswersSent,
         FreedUnused, LiveSends
    <2> QED
      BY <1>1, <2>1, <2>2, SameData
  <1>2. ASSUME PsInv, PsNext
        PROVE  PsInv'
    BY <1>2, LinkSteps, SendAnswerStep, SendCandidateStep, PurgeStep, BufferFailedSendStep, FlushMoves,
       FlushTakeStep, FlushAnswerStep, FlushSendAnswerStep, FlushIceStep, FlushSendIceStep, FlushMergeStep,
       CloseSyncStep
       DEF PsNext, WorkerStep
  <1>3. PsInv /\ [PsNext]_psVars => PsInv'
    BY <1>1, <1>2
  <1> QED
    BY <1>3, PsInvInit, PTL DEF PsSpec

\* A buffered message goes out in order and once, or is given up where the code says so; and if
\* the list of purged viewers has room for all of them, nothing comes back for one that left.
THEOREM PendingCorrect == PurgeFits => (PsSpec => []PendingSound)
  <1> SUFFICES ASSUME PurgeFits
               PROVE  PsSpec => []PendingSound
    OBVIOUS
  <1>1. PsInv => PendingSound
    BY PsInvSound DEF PendingSound
  <1> QED
    BY <1>1, PendingInductive, PTL

\* The same but for those that left, whatever the length of that list.
THEOREM PendingOrdered ==
  PsSpec => [](DeliveryOrder /\ NoAnswerVanishes /\ FreedUnused)
  <1>1. PsInv => DeliveryOrder /\ NoAnswerVanishes /\ FreedUnused
    BY PsInvSound
  <1> QED
    BY <1>1, PendingInductive, PTL
=============================================================================
