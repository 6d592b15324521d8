---------------------- MODULE SignalingEncryptionProofs ----------------------
(***************************************************************************)
(* Proofs about SignalingEncryption, for packets and messages of any size, *)
(* any number of messages, losses and repetitions.                         *)
(*                                                                         *)
(* The invariant is about one direction at a time.  Way says of it what    *)
(* holds even if packets overtake each other; InTurnWay adds what holds    *)
(* if they do not.  Both are written as operators on the values a          *)
(* direction consists of, so that the lemmas about a step (a message is    *)
(* accepted, a packet leaves, arrives or is lost, acknowledgements come)   *)
(* speak of values and not of the two ends.                                *)
(***************************************************************************)
EXTENDS SignalingEncryption, TLAPS, WellFoundedInduction, FiniteSetTheorems, SequenceTheorems

\* A set of natural numbers that is not empty has a least element.
LEMMA LeastExists ==
  ASSUME NEW S \in SUBSET Nat, S # {}
  PROVE  \E m \in S : \A x \in S : m <= x
<1> DEFINE R == {ss \in Nat \X Nat : ss[1] < ss[2]}
<1>1. IsWellFoundedOn(R, Nat)
  BY NatLessThanWellFounded DEF OpToRel
<1> HIDE DEF R
<1>2. PICK m \in S : \A y \in S : ~(<<y, m>> \in R)
  BY <1>1, WFMin
<1>3. ASSUME NEW x \in S PROVE m <= x
  <2>1. x \in Nat /\ m \in Nat
    OBVIOUS
  <2>2. ~(x < m)
    BY <1>2, <2>1 DEF R
  <2> QED BY <2>1, <2>2
<1>4. QED BY <1>3

Rising(s) == \A i, j \in DOMAIN s : i < j => s[i] < s[j]

\* The messages of a packet: whatever precedes one of them was handed over or is in
\* the packet too.
Sound(m, L, D) ==
  /\ Rising(m)
  /\ Elements(m) \subseteq Elements(L)
  /\ \A d \in Elements(m), c \in Elements(L) :
       c < d => c \in Elements(D) \/ c \in Elements(m)

\* One direction: the numbers q of the messages that wait at its sender, the counter
\* k of the sender, the messages L it accepted; the messages D handed over at its
\* receiver, which remembers S and owes the acknowledgements A; the packets on their
\* way forth and back.
Way(q, k, L, D, A, S, forth, back) ==
  /\ Rising(L) /\ \A c \in Elements(L) : c <= k
  /\ Rising(q) /\ Elements(q) \subseteq Elements(L)
  /\ Elements(A) \subseteq Elements(D)
  /\ S \subseteq Elements(D)
  /\ \A i \in DOMAIN back : Elements(back[i].acks) \subseteq Elements(D)
  /\ Elements(D) \subseteq Elements(L)
  /\ \A c \in Elements(L) : c \in Elements(D) \/ c \in Elements(q)
  /\ \A i \in DOMAIN forth : Sound(forth[i].messages, L, D)
  /\ \A i \in DOMAIN D : \A c \in Elements(L) :
       c < D[i] => \E j \in 1 .. i - 1 : D[j] = c
  /\ \A c \in Elements(D) : c \in S \/ \E d \in Elements(D) : d > c
  /\ \A i, j \in DOMAIN D :
       i < j /\ D[i] = D[j] => \E k2 \in 1 .. j : D[k2] > D[j]

\* What was handed over of these messages is remembered.
Remembered(m, D, S) == \A c \in Elements(m) : c \in Elements(D) => c \in S

\* The messages n are not before the first of m.
NotBefore(m, n) == m # <<>> => \A d \in Elements(n) : m[1] <= d

\* One direction whose packets arrive in the order they left.
InTurnWay(q, D, S, forth) ==
  /\ Rising(D)
  /\ Remembered(q, D, S)
  /\ \A i \in DOMAIN forth :
       /\ Remembered(forth[i].messages, D, S)
       /\ NotBefore(forth[i].messages, q)
       /\ \A j \in DOMAIN forth :
            i < j => NotBefore(forth[i].messages, forth[j].messages)

\* Both directions of the call, whose ends are es, whose packets are in net, and which
\* accepted lg and handed over dl.
WayIn(es, net, lg, dl, x) ==
  Way(Counters(es[x].waiting), es[x].counter, lg[x], dl[Peer(x)],
      es[Peer(x)].acks, es[Peer(x)].sentAcks, net[Peer(x)], net[x])

InTurnIn(es, net, dl, x) ==
  InTurnWay(Counters(es[x].waiting), dl[Peer(x)], es[Peer(x)].sentAcks, net[Peer(x)])

Typed(es, net, lg, dl) ==
  /\ es \in [Ends -> End]
  /\ net \in [Ends -> Seq(Packet)]
  /\ lg \in [Ends -> Seq(Nat)]
  /\ dl \in [Ends -> Seq(Nat)]

Good(es, net, lg, dl) ==
  /\ Typed(es, net, lg, dl)
  /\ \A x \in Ends : WayIn(es, net, lg, dl, x)
  /\ ~ Reordering => \A x \in Ends : InTurnIn(es, net, dl, x)

Inv == Good(ends, network, log, delivered)

-----------------------------------------------------------------------------
(* What is left of a sequence.                                              *)

\* The places up to one of them, and how many there are.
UpTo(places, i) == {j \in places : j <= i}

LEMMA UpToIsFinite ==
  ASSUME NEW n \in Nat, NEW places \in SUBSET (1 .. n), NEW i \in Nat
  PROVE  /\ IsFiniteSet(UpTo(places, i))
         /\ Cardinality(UpTo(places, i)) \in Nat
<1>1. IsFiniteSet(1 .. n)
  BY FS_Interval
<1>2. UpTo(places, i) \subseteq 1 .. n
  BY DEF UpTo
<1>3. IsFiniteSet(UpTo(places, i))
  BY <1>1, <1>2, FS_Subset
<1>. QED  BY <1>3, FS_CardinalityType

LEMMA UpToGrows ==
  ASSUME NEW n \in Nat, NEW places \in SUBSET (1 .. n), NEW i \in Nat, NEW j \in places, i < j
  PROVE  Cardinality(UpTo(places, i)) < Cardinality(UpTo(places, j))
<1>. DEFINE U == UpTo(places, i)
            V == UpTo(places, j)
<1>1. j \in Nat /\ j \notin U /\ U \cup {j} \subseteq V
  <2>1. \A p \in places : p \in Nat /\ (p <= i => p <= j /\ p # j)
    OBVIOUS
  <2>2. j \in Nat /\ j <= j /\ ~ (j <= i)
    OBVIOUS
  <2>. QED  BY <2>1, <2>2, Zenon DEF UpTo
<1>2. /\ IsFiniteSet(U) /\ IsFiniteSet(V)
      /\ Cardinality(U) \in Nat /\ Cardinality(V) \in Nat
  BY <1>1, UpToIsFinite
<1>. HIDE DEF U, V
<1>3. IsFiniteSet(U \cup {j}) /\ Cardinality(U \cup {j}) = Cardinality(U) + 1
  BY <1>1, <1>2, FS_AddElement
<1>4. Cardinality(U \cup {j}) <= Cardinality(V)
  BY <1>1, <1>2, FS_Subset
<1>5. Cardinality(U) < Cardinality(V)
  BY <1>2, <1>3, <1>4
<1>. QED  BY <1>5 DEF U, V

\* There is a place of every number.
LEMMA PlaceOf ==
  ASSUME NEW n \in Nat, NEW places \in SUBSET (1 .. n), NEW k \in 1 .. Cardinality(places)
  PROVE  \E i \in places : Cardinality(UpTo(places, i)) = k
<1>. DEFINE C(i) == Cardinality(UpTo(places, i))
            S == {i \in Nat : k <= C(i)}
<1>1. \A i \in Nat : C(i) \in Nat
  BY UpToIsFinite
<1>2. UpTo(places, n) = places /\ UpTo(places, 0) = {}
  <2>1. \A p \in places : p <= n /\ ~ (p <= 0)
    OBVIOUS
  <2>. QED  BY <2>1, Zenon DEF UpTo
<1>3. C(0) = 0 /\ n \in S
  <2>1. C(0) = 0
    BY <1>2, FS_EmptySet
  <2>2. C(n) \in Nat /\ C(n) = Cardinality(places)
    BY <1>1, <1>2
  <2>. HIDE DEF C
  <2>. QED  BY <2>1, <2>2
<1>. HIDE DEF C
<1>4. PICK m \in S : \A i \in S : m <= i
  BY <1>3, LeastExists
<1>5. m \in Nat /\ m # 0 /\ k <= C(m)
  BY <1>1, <1>3, <1>4
<1>6. m - 1 \in Nat /\ C(m - 1) \in Nat /\ C(m - 1) < k
  BY <1>1, <1>4, <1>5
<1>7. CASE m \notin places
  <2>1. \A j \in places : j <= m <=> j <= m - 1
    BY <1>5, <1>7
  <2>2. UpTo(places, m) = UpTo(places, m - 1)
    BY <2>1 DEF UpTo
  <2>3. C(m) = C(m - 1)
    BY <2>2 DEF C
  <2>. QED  BY <1>5, <1>6, <2>3
<1>8. CASE m \in places
  <2>. DEFINE U == UpTo(places, m - 1)
  <2>1. m \notin U /\ UpTo(places, m) = U \cup {m}
    <3>1. (\A j \in places : j <= m <=> j <= m - 1 \/ j = m) /\ ~ (m <= m - 1)
      BY <1>5
    <3>. QED  BY <1>8, <3>1, Zenon DEF UpTo
  <2>2. IsFiniteSet(U)
    BY <1>6, UpToIsFinite
  <2>. HIDE DEF U
  <2>3. Cardinality(U \cup {m}) = Cardinality(U) + 1
    BY <2>1, <2>2, FS_AddElement
  <2>4. C(m) = C(m - 1) + 1
    BY <2>1, <2>3 DEF C, U
  <2>5. C(m) = k
    BY <1>5, <1>6, <2>4
  <2>. QED  BY <1>8, <2>5 DEF C
<1>. QED  BY <1>7, <1>8

\* The sequence t has the elements of s at these places, in their order.
Picks(t, s, places) ==
  \E f \in [DOMAIN t -> places] :
    /\ \A k, l \in DOMAIN t : k < l => f[k] < f[l]
    /\ \A i \in places : \E k \in DOMAIN t : f[k] = i
    /\ \A k \in DOMAIN t : t[k] = s[f[k]]

LEMMA AtPlacesPicks ==
  ASSUME NEW T, NEW s \in Seq(T), NEW places \in SUBSET DOMAIN s
  PROVE  AtPlaces(s, places) \in Seq(T) /\ Picks(AtPlaces(s, places), s, places)
<1>. DEFINE n == Len(s)
            N == Cardinality(places)
            C(i) == Cardinality(UpTo(places, i))
            f == [k \in 1 .. N |-> CHOOSE i \in places : C(i) = k]
            t == AtPlaces(s, places)
<1>1. n \in Nat /\ places \in SUBSET (1 .. n) /\ DOMAIN s = 1 .. n
  OBVIOUS
<1>. HIDE DEF n
<1>2. IsFiniteSet(places) /\ N \in Nat
  <2>1. IsFiniteSet(1 .. n)
    BY <1>1, FS_Interval
  <2>2. IsFiniteSet(places)
    BY <1>1, <2>1, FS_Subset
  <2>. QED  BY <2>2, FS_CardinalityType
<1>3. \A i \in places : i \in Nat /\ C(i) \in Nat /\ IsFiniteSet(UpTo(places, i))
  <2>1. \A i \in places : i \in Nat
    BY <1>1
  <2>. QED  BY <1>1, <2>1, UpToIsFinite
<1>4. \A i, j \in places : i < j => C(i) < C(j)
  BY <1>1, <1>3, UpToGrows
<1>5. \A k \in 1 .. N : \E i \in places : C(i) = k
  BY <1>1, PlaceOf
<1>6. ASSUME NEW i \in places PROVE C(i) \in 1 .. N
  <2>1. i \in UpTo(places, i) /\ UpTo(places, i) \subseteq places
    BY <1>3 DEF UpTo
  <2>2. C(i) <= N
    BY <1>2, <2>1, FS_Subset
  <2>3. C(i) # 0
    BY <1>3, <2>1, FS_EmptySet
  <2>. HIDE DEF C, N
  <2>. QED  BY <1>2, <1>3, <2>2, <2>3
<1>7. t = [k \in 1 .. N |-> s[f[k]]]
  BY DEF AtPlaces, UpTo
<1>. HIDE DEF C, N
<1>8. f \in [1 .. N -> places] /\ \A k \in 1 .. N : C(f[k]) = k
  BY <1>5
<1>. HIDE DEF f, t
<1>9. ASSUME NEW k \in 1 .. N, NEW l \in 1 .. N, k < l PROVE f[k] < f[l]
  <2>1. f[k] \in places /\ f[l] \in places /\ C(f[k]) = k /\ C(f[l]) = l
    BY <1>8
  <2>2. ~ (f[l] < f[k]) /\ f[k] # f[l]
    BY <1>2, <1>4, <1>9, <2>1
  <2>. QED  BY <1>3, <2>1, <2>2
<1>10. ASSUME NEW i \in places PROVE f[C(i)] = i
  <2>1. f[C(i)] \in places /\ C(f[C(i)]) = C(i)
    BY <1>6, <1>8
  <2>2. ~ (f[C(i)] < i) /\ ~ (i < f[C(i)])
    BY <1>3, <1>4, <2>1
  <2>. QED  BY <1>3, <2>1, <2>2
<1>11. DOMAIN t = 1 .. N /\ t \in Seq(T)
  <2>1. \A k \in 1 .. N : s[f[k]] \in T
    BY <1>8
  <2>. QED  BY <1>2, <1>7, <2>1
<1>12. Picks(t, s, places)
  <2>1. \A k \in DOMAIN t : t[k] = s[f[k]]
    BY <1>7, <1>11
  <2>2. \A i \in places : \E k \in DOMAIN t : f[k] = i
    BY <1>6, <1>10, <1>11
  <2>. QED  BY <1>8, <1>9, <1>11, <2>1, <2>2 DEF Picks
<1>. QED  BY <1>11, <1>12 DEF t

\* What is not in a set, of rising numbers.
LEMMA NotInIs ==
  ASSUME NEW m \in Seq(Nat), NEW S
  PROVE  /\ NotIn(m, S) \in Seq(Nat)
         /\ Elements(NotIn(m, S)) = Elements(m) \ S
         /\ Rising(m) => Rising(NotIn(m, S))
<1>. DEFINE places == {i \in DOMAIN m : m[i] \notin S}
            t == NotIn(m, S)
<1>1. t \in Seq(Nat) /\ Picks(t, m, places)
  BY AtPlacesPicks DEF NotIn
<1>2. \A i \in DOMAIN m : i \in places <=> m[i] \notin S
  OBVIOUS
<1>3. places \subseteq DOMAIN m
  OBVIOUS
<1>. HIDE DEF t, places
<1>4. PICK f \in [DOMAIN t -> places] :
        /\ \A k, l \in DOMAIN t : k < l => f[k] < f[l]
        /\ \A i \in places : \E k \in DOMAIN t : f[k] = i
        /\ \A k \in DOMAIN t : t[k] = m[f[k]]
  BY <1>1 DEF Picks
<1>5. Elements(t) = Elements(m) \ S
  BY <1>2, <1>3, <1>4 DEF Elements
<1>6. Rising(m) => Rising(t)
  BY <1>3, <1>4 DEF Rising
<1>. QED  BY <1>1, <1>5, <1>6 DEF t

Waiting == [counter : Nat, size : Nat, recent : BOOLEAN]

\* The places of the messages that are not among the acknowledged ones.
Unacked(w, acked) == {i \in DOMAIN w : w[i].counter \notin acked}

\* What acknowledgements leave of the messages that wait.
LEMMA AckedIs ==
  ASSUME NEW w \in Seq(Waiting), NEW acked,
         NEW v, v = AtPlaces(w, Unacked(w, acked))
  PROVE  /\ v \in Seq(Waiting)
         /\ Elements(Counters(v)) = Elements(Counters(w)) \ acked
         /\ Rising(Counters(w)) => Rising(Counters(v))
<1>. DEFINE places == Unacked(w, acked)
            q == Counters(w)
            r == Counters(v)
<1>1. v \in Seq(Waiting) /\ Picks(v, w, places)
  <2>1. places \in SUBSET DOMAIN w
    BY DEF Unacked
  <2>. HIDE DEF places
  <2>2. v = AtPlaces(w, places)
    BY DEF places
  <2>. QED  BY <2>1, <2>2, AtPlacesPicks
<1>2. /\ DOMAIN q = DOMAIN w /\ \A i \in DOMAIN w : q[i] = w[i].counter
      /\ DOMAIN r = DOMAIN v /\ \A i \in DOMAIN v : r[i] = v[i].counter
  BY DEF Counters
<1>3. places \subseteq DOMAIN w /\ \A i \in DOMAIN w : i \in places <=> q[i] \notin acked
  BY <1>2 DEF Unacked
<1>. HIDE DEF places, q, r
<1>4. PICK f \in [DOMAIN v -> places] :
        /\ \A k, l \in DOMAIN v : k < l => f[k] < f[l]
        /\ \A i \in places : \E k \in DOMAIN v : f[k] = i
        /\ \A k \in DOMAIN v : v[k] = w[f[k]]
  BY <1>1 DEF Picks
<1>5. \A k \in DOMAIN v : f[k] \in DOMAIN w /\ f[k] \in places /\ r[k] = q[f[k]]
  BY <1>2, <1>3, <1>4
<1>6. Elements(r) = Elements(q) \ acked
  BY <1>2, <1>3, <1>4, <1>5 DEF Elements
<1>7. Rising(q) => Rising(r)
  BY <1>2, <1>4, <1>5 DEF Rising
<1>. QED  BY <1>1, <1>6, <1>7 DEF q, r

-----------------------------------------------------------------------------
(* What may happen in one direction.                                        *)

LEMMA AppendIs ==
  ASSUME NEW T, NEW s \in Seq(T), NEW c \in T
  PROVE  /\ Append(s, c) \in Seq(T)
         /\ Len(s) \in Nat /\ DOMAIN s = 1 .. Len(s)
         /\ DOMAIN Append(s, c) = 1 .. Len(s) + 1
         /\ \A i \in 1 .. Len(s) : Append(s, c)[i] = s[i]
         /\ Append(s, c)[Len(s) + 1] = c
         /\ \A i \in 1 .. Len(s) + 1 : i \in 1 .. Len(s) \/ i = Len(s) + 1
         /\ Elements(Append(s, c)) = Elements(s) \cup {c}
<1>1. /\ Append(s, c) \in Seq(T)
      /\ Len(s) \in Nat /\ DOMAIN s = 1 .. Len(s)
      /\ DOMAIN Append(s, c) = 1 .. Len(s) + 1
      /\ \A i \in 1 .. Len(s) : Append(s, c)[i] = s[i]
      /\ Append(s, c)[Len(s) + 1] = c
  OBVIOUS
<1>2. \A i \in 1 .. Len(s) + 1 : i \in 1 .. Len(s) \/ i = Len(s) + 1
  OBVIOUS
<1>. DEFINE t == Append(s, c)
            n == Len(s)
<1>3. /\ DOMAIN t = 1 .. n + 1 /\ DOMAIN s = 1 .. n /\ n \in Nat
      /\ (\A i \in 1 .. n : t[i] = s[i]) /\ t[n + 1] = c
  BY <1>1
<1>. HIDE DEF t, n
<1>4. Elements(t) = Elements(s) \cup {c}
  BY <1>3 DEF Elements
<1>. QED  BY <1>1, <1>2, <1>4 DEF t

LEMMA ElementsAre ==
  ASSUME NEW s \in Seq(Nat)
  PROVE  /\ Elements(s) \subseteq Nat
         /\ \A i \in DOMAIN s : s[i] \in Elements(s)
         /\ s # <<>> => 1 \in DOMAIN s
BY DEF Elements

LEMMA RisingAppend ==
  ASSUME NEW s \in Seq(Nat), NEW c \in Nat, Rising(s), \A d \in Elements(s) : d < c
  PROVE  Rising(Append(s, c))
<1>. DEFINE t == Append(s, c)
            n == Len(s)
<1>1. /\ n \in Nat /\ DOMAIN s = 1 .. n /\ DOMAIN t = 1 .. n + 1
      /\ \A i \in 1 .. n : t[i] = s[i] /\ t[i] \in Elements(s)
      /\ t[n + 1] = c
  BY AppendIs DEF Elements
<1>. HIDE DEF t, n
<1>2. ASSUME NEW i \in 1 .. n + 1, NEW j \in 1 .. n + 1, i < j PROVE t[i] < t[j]
  <2>1. i \in 1 .. n /\ (j \in 1 .. n \/ j = n + 1)
    BY <1>1, <1>2
  <2>. QED  BY <1>1, <1>2, <2>1 DEF Rising
<1>. QED  BY <1>1, <1>2 DEF Rising, t

LEMMA ConcatIs ==
  ASSUME NEW T, NEW s \in Seq(T), NEW t \in Seq(T)
  PROVE  /\ s \o t \in Seq(T)
         /\ Len(s) \in Nat /\ Len(t) \in Nat
         /\ DOMAIN s = 1 .. Len(s) /\ DOMAIN t = 1 .. Len(t)
         /\ DOMAIN (s \o t) = 1 .. Len(s) + Len(t)
         /\ \A i \in 1 .. Len(s) : (s \o t)[i] = s[i]
         /\ \A i \in 1 .. Len(t) : (s \o t)[Len(s) + i] = t[i]
         /\ Elements(s \o t) = Elements(s) \cup Elements(t)
<1>1. /\ s \o t \in Seq(T)
      /\ Len(s) \in Nat /\ Len(t) \in Nat
      /\ DOMAIN s = 1 .. Len(s) /\ DOMAIN t = 1 .. Len(t)
      /\ DOMAIN (s \o t) = 1 .. Len(s) + Len(t)
      /\ \A i \in 1 .. Len(s) : (s \o t)[i] = s[i]
      /\ \A i \in 1 .. Len(t) : (s \o t)[Len(s) + i] = t[i]
  OBVIOUS
<1>. DEFINE u == s \o t
            n == Len(s)
            l == Len(t)
<1>2. /\ n \in Nat /\ l \in Nat
      /\ DOMAIN u = 1 .. n + l /\ DOMAIN s = 1 .. n /\ DOMAIN t = 1 .. l
      /\ (\A i \in 1 .. n : u[i] = s[i]) /\ (\A i \in 1 .. l : u[n + i] = t[i])
  BY <1>1
<1>. HIDE DEF u, n, l
<1>3. \A i \in 1 .. n + l : i \in 1 .. n \/ (i - n \in 1 .. l /\ n + (i - n) = i)
  BY <1>2
<1>4. \A i \in DOMAIN u : u[i] \in Elements(s) \cup Elements(t)
  BY <1>2, <1>3 DEF Elements
<1>5. \A i \in DOMAIN s : i \in DOMAIN u /\ u[i] = s[i]
  BY <1>2
<1>6. \A i \in DOMAIN t : n + i \in DOMAIN u /\ u[n + i] = t[i]
  BY <1>2
<1>7. Elements(u) = Elements(s) \cup Elements(t)
  BY <1>4, <1>5, <1>6 DEF Elements
<1>. QED  BY <1>1, <1>7 DEF u

\* The message c is accepted.
LEMMA WayAccepts ==
  ASSUME NEW q \in Seq(Nat), NEW k \in Nat, NEW L \in Seq(Nat), NEW D \in Seq(Nat),
         NEW A \in Seq(Nat), NEW S \in SUBSET Nat, NEW forth, NEW back,
         Way(q, k, L, D, A, S, forth, back),
         NEW c \in Nat, NEW k2 \in Nat, k < c, c <= k2
  PROVE  Way(Append(q, c), k2, Append(L, c), D, A, S, forth, back)
<1>. DEFINE q2 == Append(q, c)
            L2 == Append(L, c)
<1>0. Elements(q2) = Elements(q) \cup {c}
  BY AppendIs
<1>1. Elements(q2) = Elements(q) \cup {c} /\ Elements(L2) = Elements(L) \cup {c}
  BY <1>0, AppendIs
<1>2. /\ \A d \in Elements(L) : d \in Nat /\ d <= k
      /\ Elements(q) \subseteq Elements(L) /\ Elements(D) \subseteq Elements(L)
  BY ElementsAre DEF Way
<1>3. \A d \in Elements(L) : d < c /\ d \in Nat
  BY <1>2
<1>4. Rising(L2) /\ Rising(q2)
  BY <1>2, <1>3, RisingAppend DEF Way
<1>. HIDE DEF q2, L2
<1>5. \A d \in Elements(L2) : d <= k2
  BY <1>1, <1>3
<1>6. \A i \in DOMAIN forth : Sound(forth[i].messages, L2, D)
  <2>. SUFFICES ASSUME NEW i \in DOMAIN forth PROVE Sound(forth[i].messages, L2, D)
    OBVIOUS
  <2>. DEFINE m == forth[i].messages
  <2>1. Sound(m, L, D)
    BY DEF Way
  <2>. HIDE DEF m
  <2>2. \A d \in Elements(m) : d \in Elements(L) /\ ~ (c < d)
    BY <1>3, <2>1 DEF Sound
  <2>3. Sound(m, L2, D)
    BY <1>1, <2>1, <2>2 DEF Sound
  <2>. QED  BY <2>3 DEF m
<1>7. \A i \in DOMAIN D : \A d \in Elements(L2) :
        d < D[i] => \E j \in 1 .. i - 1 : D[j] = d
  <2>. SUFFICES ASSUME NEW i \in DOMAIN D, NEW d \in Elements(L2), d < D[i]
                PROVE  \E j \in 1 .. i - 1 : D[j] = d
    OBVIOUS
  <2>1. D[i] \in Elements(L)
    BY <1>2 DEF Elements
  <2>2. d \in Elements(L)
    BY <1>1, <1>3, <2>1
  <2>. QED  BY <2>2 DEF Way
<1>8. \A d \in Elements(L2) : d \in Elements(D) \/ d \in Elements(q2)
  BY <1>1 DEF Way
<1>9. Elements(q2) \subseteq Elements(L2) /\ Elements(D) \subseteq Elements(L2)
  BY <1>1, <1>2
<1>10. Way(q2, k2, L2, D, A, S, forth, back)
  BY <1>4, <1>5, <1>6, <1>7, <1>8, <1>9 DEF Way
<1>. QED  BY <1>10 DEF q2, L2

LEMMA InTurnAccepts ==
  ASSUME NEW q \in Seq(Nat), NEW k \in Nat, NEW L \in Seq(Nat), NEW D \in Seq(Nat),
         NEW A, NEW S \in SUBSET Nat, NEW forth \in Seq(Packet), NEW back,
         Way(q, k, L, D, A, S, forth, back), InTurnWay(q, D, S, forth),
         NEW c \in Nat, k < c
  PROVE  InTurnWay(Append(q, c), D, S, forth)
<1>. DEFINE q2 == Append(q, c)
<1>1. Elements(q2) = Elements(q) \cup {c}
  BY AppendIs
<1>2. \A d \in Elements(L) : d \in Nat /\ d < c
  <2>1. \A d \in Elements(L) : d \in Nat /\ d <= k
    BY ElementsAre DEF Way
  <2>. QED  BY <2>1
<1>. HIDE DEF q2
<1>3. c \notin Elements(D)
  BY <1>2 DEF Way
<1>4. Remembered(q2, D, S)
  BY <1>1, <1>3 DEF InTurnWay, Remembered
<1>5. ASSUME NEW i \in DOMAIN forth PROVE NotBefore(forth[i].messages, q2)
  <2>. DEFINE m == forth[i].messages
  <2>0. forth[i] \in Packet
    OBVIOUS
  <2>1. m \in Seq(Nat) /\ NotBefore(m, q) /\ Sound(m, L, D)
    BY <2>0 DEF InTurnWay, Way, Packet
  <2>. HIDE DEF m
  <2>2. ASSUME m # <<>> PROVE m[1] <= c
    <3>0. m[1] \in Elements(m)
      BY <2>1, <2>2, ElementsAre
    <3>1. m[1] \in Elements(L) /\ m[1] \in Nat
      BY <1>2, <2>1, <3>0 DEF Sound
    <3>2. m[1] < c
      BY <1>2, <3>1
    <3>. QED  BY <3>1, <3>2
  <2>3. NotBefore(m, q2)
    BY <1>1, <2>1, <2>2 DEF NotBefore
  <2>. QED  BY <2>3 DEF m
<1>6. InTurnWay(q2, D, S, forth)
  BY <1>4, <1>5 DEF InTurnWay
<1>. QED  BY <1>6 DEF q2

\* A number is used up without a message.
LEMMA WayCounts ==
  ASSUME NEW q, NEW k \in Nat, NEW L \in Seq(Nat), NEW D, NEW A, NEW S, NEW forth, NEW back,
         Way(q, k, L, D, A, S, forth, back), NEW k2 \in Nat, k <= k2
  PROVE  Way(q, k2, L, D, A, S, forth, back)
<1>1. \A c \in Elements(L) : c \in Nat /\ c <= k
  BY ElementsAre DEF Way
<1>2. \A c \in Elements(L) : c <= k2
  BY <1>1
<1>. QED  BY <1>2 DEF Way

\* The first messages that wait make a packet.
LEMMA PrefixIs ==
  ASSUME NEW q \in Seq(Nat), NEW n \in 0 .. Len(q)
  PROVE  /\ SubSeq(q, 1, n) \in Seq(Nat)
         /\ DOMAIN SubSeq(q, 1, n) = 1 .. n
         /\ \A i \in 1 .. n : SubSeq(q, 1, n)[i] = q[i] /\ i \in DOMAIN q
OBVIOUS

LEMMA PrefixSound ==
  ASSUME NEW q \in Seq(Nat), NEW k, NEW L, NEW D, NEW A, NEW S, NEW forth, NEW back,
         Way(q, k, L, D, A, S, forth, back), NEW n \in 0 .. Len(q), NEW m, m = SubSeq(q, 1, n)
  PROVE  Sound(m, L, D)
<1>1. /\ DOMAIN m = 1 .. n /\ n \in Nat /\ DOMAIN q = 1 .. Len(q) /\ Len(q) \in Nat
      /\ \A i \in 1 .. n : m[i] = q[i] /\ i \in DOMAIN q
  BY PrefixIs
<1>2. /\ Rising(q) /\ Elements(q) \subseteq Elements(L)
      /\ \A c \in Elements(L) : c \in Elements(D) \/ c \in Elements(q)
  BY DEF Way
<1>3. Rising(m)
  BY <1>1, <1>2 DEF Rising
<1>4. Elements(m) \subseteq Elements(L)
  BY <1>1, <1>2 DEF Elements
<1>5. ASSUME NEW d \in Elements(m), NEW c \in Elements(L), c < d, c \notin Elements(D)
      PROVE  c \in Elements(m)
  <2>1. PICK i \in 1 .. n : d = q[i]
    BY <1>1, <1>5 DEF Elements
  <2>2. PICK j \in DOMAIN q : c = q[j]
    BY <1>2, <1>5 DEF Elements
  <2>3. q[i] \in Nat /\ q[j] \in Nat /\ i \in DOMAIN q
    BY <1>1, <2>1, <2>2
  <2>4. ~ (i < j) /\ i # j
    BY <1>2, <1>5, <2>1, <2>2, <2>3 DEF Rising
  <2>5. j \in 1 .. n
    BY <1>1, <2>1, <2>4
  <2>. QED  BY <1>1, <2>2, <2>5 DEF Elements
<1>. QED  BY <1>3, <1>4, <1>5 DEF Sound

LEMMA WaySends ==
  ASSUME NEW q \in Seq(Nat), NEW k, NEW L, NEW D, NEW A, NEW S,
         NEW forth \in Seq(Packet), NEW back,
         Way(q, k, L, D, A, S, forth, back),
         NEW n \in 0 .. Len(q), NEW p \in Packet, p.messages = SubSeq(q, 1, n)
  PROVE  Way(q, k, L, D, A, S, Append(forth, p), back)
<1>. DEFINE forth2 == Append(forth, p)
<1>1. Sound(p.messages, L, D)
  BY PrefixSound
<1>2. \A i \in DOMAIN forth : Sound(forth[i].messages, L, D)
  BY DEF Way
<1>3. \A i \in DOMAIN forth2 : forth2[i] = p \/ (i \in DOMAIN forth /\ forth2[i] = forth[i])
  BY AppendIs
<1>. HIDE DEF forth2
<1>4. \A i \in DOMAIN forth2 : Sound(forth2[i].messages, L, D)
  BY <1>1, <1>2, <1>3
<1>5. Way(q, k, L, D, A, S, forth2, back)
  BY <1>4 DEF Way
<1>. QED  BY <1>5 DEF forth2

LEMMA InTurnSends ==
  ASSUME NEW q \in Seq(Nat), NEW D, NEW S, NEW forth \in Seq(Packet),
         Rising(q), InTurnWay(q, D, S, forth),
         NEW n \in 0 .. Len(q), NEW p \in Packet, p.messages = SubSeq(q, 1, n)
  PROVE  InTurnWay(q, D, S, Append(forth, p))
<1>. DEFINE forth2 == Append(forth, p)
            m == p.messages
            l == Len(forth)
<1>1. /\ l \in Nat /\ DOMAIN forth = 1 .. l /\ DOMAIN forth2 = 1 .. l + 1
      /\ \A i \in 1 .. l : forth2[i] = forth[i]
      /\ forth2[l + 1] = p
      /\ \A i \in 1 .. l + 1 : i \in 1 .. l \/ i = l + 1
  BY AppendIs
<1>2. /\ m \in Seq(Nat) /\ DOMAIN m = 1 .. n
      /\ \A i \in 1 .. n : m[i] = q[i] /\ i \in DOMAIN q
  BY PrefixIs
<1>. HIDE DEF forth2, l, m
<1>3. Elements(m) \subseteq Elements(q)
  BY <1>2 DEF Elements
<1>4. Remembered(m, D, S)
  BY <1>3 DEF InTurnWay, Remembered
<1>5. NotBefore(m, q)
  <2>. SUFFICES ASSUME m # <<>>, NEW d \in Elements(q) PROVE m[1] <= d
    BY DEF NotBefore
  <2>1. 1 \in 1 .. n
    BY <1>2, ElementsAre
  <2>2. m[1] = q[1] /\ 1 \in DOMAIN q
    BY <1>2, <2>1
  <2>3. PICK j \in DOMAIN q : d = q[j]
    BY DEF Elements
  <2>4. q[1] \in Nat /\ q[j] \in Nat /\ (j = 1 \/ 1 < j)
    BY <2>2, <2>3
  <2>. QED  BY <2>2, <2>3, <2>4 DEF Rising
<1>6. \A i \in 1 .. l : NotBefore(forth[i].messages, m)
  BY <1>1, <1>3 DEF InTurnWay, NotBefore
<1>7. \A i \in 1 .. l + 1 : /\ Remembered(forth2[i].messages, D, S)
                            /\ NotBefore(forth2[i].messages, q)
  BY <1>1, <1>4, <1>5 DEF InTurnWay, m
<1>8. ASSUME NEW i \in 1 .. l + 1, NEW j \in 1 .. l + 1, i < j
      PROVE  NotBefore(forth2[i].messages, forth2[j].messages)
  <2>1. i \in 1 .. l
    BY <1>1, <1>8
  <2>2. CASE j \in 1 .. l
    BY <1>1, <1>8, <2>1, <2>2 DEF InTurnWay
  <2>3. CASE j = l + 1
    BY <1>1, <1>6, <2>1, <2>3 DEF m
  <2>. QED  BY <1>1, <2>2, <2>3
<1>9. InTurnWay(q, D, S, forth2)
  BY <1>1, <1>7, <1>8 DEF InTurnWay
<1>. QED  BY <1>9 DEF forth2

\* The receiver sends some of the acknowledgements that are due.
LEMMA WayAnswers ==
  ASSUME NEW q, NEW k, NEW L, NEW D, NEW A, NEW S, NEW forth, NEW back \in Seq(Packet),
         Way(q, k, L, D, A, S, forth, back),
         NEW A2, Elements(A2) \subseteq Elements(A),
         NEW p \in Packet, Elements(p.acks) \subseteq Elements(A)
  PROVE  Way(q, k, L, D, A2, S, forth, Append(back, p))
<1>. DEFINE back2 == Append(back, p)
<1>1. \A i \in DOMAIN back2 : back2[i] = p \/ (i \in DOMAIN back /\ back2[i] = back[i])
  BY AppendIs
<1>. HIDE DEF back2
<1>2. Elements(A) \subseteq Elements(D)
      /\ \A i \in DOMAIN back : Elements(back[i].acks) \subseteq Elements(D)
  BY DEF Way
<1>3. \A i \in DOMAIN back2 : Elements(back2[i].acks) \subseteq Elements(D)
  BY <1>1, <1>2
<1>4. Way(q, k, L, D, A2, S, forth, back2)
  BY <1>2, <1>3 DEF Way
<1>. QED  BY <1>4 DEF back2

\* The sequence t has elements of s, in their order.
Thinned(t, s) ==
  \E f \in [DOMAIN t -> DOMAIN s] :
    /\ \A i, j \in DOMAIN t : i < j => f[i] < f[j]
    /\ \A i \in DOMAIN t : t[i] = s[f[i]]

LEMMA SameThinned ==
  ASSUME NEW s
  PROVE  Thinned(s, s)
<1>. DEFINE f == [i \in DOMAIN s |-> i]
<1>1. /\ f \in [DOMAIN s -> DOMAIN s]
      /\ \A i \in DOMAIN s : f[i] = i
  OBVIOUS
<1>. HIDE DEF f
<1>. QED  BY <1>1 DEF Thinned

LEMMA WithoutThinned ==
  ASSUME NEW T, NEW s \in Seq(T), NEW i \in DOMAIN s
  PROVE  Without(s, i) \in Seq(T) /\ Thinned(Without(s, i), s)
<1>. DEFINE n == Len(s)
            a == SubSeq(s, 1, i - 1)
            b == SubSeq(s, i + 1, n)
            t == Without(s, i)
            f == [k \in 1 .. n - 1 |-> IF k < i THEN k ELSE k + 1]
<1>1. n \in Nat /\ DOMAIN s = 1 .. n /\ i \in 1 .. n
  OBVIOUS
<1>2. /\ a \in Seq(T) /\ Len(a) = i - 1 /\ \A k \in 1 .. i - 1 : a[k] = s[k]
      /\ b \in Seq(T) /\ Len(b) = n - i /\ \A k \in 1 .. n - i : b[k] = s[i + k]
  BY <1>1
<1>3. t = a \o b
  BY DEF Without
<1>. HIDE DEF a, b, t, n
<1>4. /\ t \in Seq(T) /\ DOMAIN t = 1 .. (i - 1) + (n - i)
      /\ \A k \in 1 .. i - 1 : t[k] = a[k]
      /\ \A k \in 1 .. n - i : t[(i - 1) + k] = b[k]
  BY <1>2, <1>3, ConcatIs
<1>5. DOMAIN t = 1 .. n - 1
  BY <1>1, <1>4
<1>6. \A k \in 1 .. n - 1 : f[k] \in 1 .. n /\ f[k] = IF k < i THEN k ELSE k + 1
  BY <1>1
<1>7. f \in [1 .. n - 1 -> 1 .. n]
  BY <1>6
<1>. HIDE DEF f
<1>8. \A k, l \in 1 .. n - 1 : k < l => f[k] < f[l]
  BY <1>1, <1>6
<1>9. ASSUME NEW k \in 1 .. n - 1 PROVE t[k] = s[f[k]]
  <2>1. CASE k < i
    <3>1. k \in 1 .. i - 1
      BY <1>1, <2>1
    <3>2. t[k] = a[k] /\ a[k] = s[k]
      BY <1>2, <1>4, <3>1
    <3>. QED  BY <1>6, <2>1, <3>2
  <2>2. CASE ~ (k < i)
    <3>1. k - (i - 1) \in 1 .. n - i /\ (i - 1) + (k - (i - 1)) = k
          /\ i + (k - (i - 1)) = k + 1
      BY <1>1, <2>2
    <3>2. t[k] = b[k - (i - 1)] /\ b[k - (i - 1)] = s[k + 1]
      BY <1>2, <1>4, <3>1
    <3>. QED  BY <1>6, <2>2, <3>2
  <2>. QED  BY <2>1, <2>2
<1>10. Thinned(t, s)
  BY <1>1, <1>5, <1>7, <1>8, <1>9 DEF Thinned
<1>. QED  BY <1>4, <1>10 DEF t

\* Packets are gone.
LEMMA WayLoses ==
  ASSUME NEW q, NEW k, NEW L, NEW D, NEW A, NEW S, NEW forth, NEW back,
         Way(q, k, L, D, A, S, forth, back),
         NEW forth2, Thinned(forth2, forth), NEW back2, Thinned(back2, back)
  PROVE  Way(q, k, L, D, A, S, forth2, back2)
<1>1. \A i \in DOMAIN forth2 : Sound(forth2[i].messages, L, D)
  BY DEF Way, Thinned
<1>2. \A i \in DOMAIN back2 : Elements(back2[i].acks) \subseteq Elements(D)
  BY DEF Way, Thinned
<1>. QED  BY <1>1, <1>2 DEF Way

LEMMA InTurnLoses ==
  ASSUME NEW q, NEW D, NEW S, NEW forth, InTurnWay(q, D, S, forth),
         NEW forth2, Thinned(forth2, forth)
  PROVE  InTurnWay(q, D, S, forth2)
<1>1. PICK f \in [DOMAIN forth2 -> DOMAIN forth] :
        /\ \A i, j \in DOMAIN forth2 : i < j => f[i] < f[j]
        /\ \A i \in DOMAIN forth2 : forth2[i] = forth[f[i]]
  BY DEF Thinned
<1>2. ASSUME NEW i \in DOMAIN forth2
      PROVE  /\ Remembered(forth2[i].messages, D, S)
             /\ NotBefore(forth2[i].messages, q)
  BY <1>1 DEF InTurnWay
<1>3. ASSUME NEW i \in DOMAIN forth2, NEW j \in DOMAIN forth2, i < j
      PROVE  NotBefore(forth2[i].messages, forth2[j].messages)
  <2>1. f[i] \in DOMAIN forth /\ f[j] \in DOMAIN forth /\ f[i] < f[j]
    BY <1>1, <1>3
  <2>2. NotBefore(forth[f[i]].messages, forth[f[j]].messages)
    BY <2>1 DEF InTurnWay
  <2>. QED  BY <1>1, <2>2
<1>. QED  BY <1>2, <1>3 DEF InTurnWay

\* Acknowledgements reach the sender.
LEMMA WayAcked ==
  ASSUME NEW q, NEW k, NEW L, NEW D, NEW A, NEW S, NEW forth, NEW back,
         Way(q, k, L, D, A, S, forth, back),
         NEW acked, acked \subseteq Elements(D),
         NEW q2, Rising(q2), Elements(q2) = Elements(q) \ acked
  PROVE  Way(q2, k, L, D, A, S, forth, back)
<1>1. Elements(q2) \subseteq Elements(L)
      /\ \A c \in Elements(L) : c \in Elements(D) \/ c \in Elements(q2)
  BY DEF Way
<1>. QED  BY <1>1 DEF Way

LEMMA InTurnAcked ==
  ASSUME NEW q, NEW D, NEW S, NEW forth, InTurnWay(q, D, S, forth),
         NEW q2, Elements(q2) \subseteq Elements(q)
  PROVE  InTurnWay(q2, D, S, forth)
<1>1. Remembered(q2, D, S)
  BY DEF InTurnWay, Remembered
<1>2. \A i \in DOMAIN forth : NotBefore(forth[i].messages, q2)
  BY DEF InTurnWay, NotBefore
<1>. QED  BY <1>1, <1>2 DEF InTurnWay

\* The messages m of a packet arrive: what the receiver does not remember is handed
\* over, and it remembers these and what is not before them.
Remembers(S, m) == IF m = <<>> THEN S ELSE {c \in S : c >= m[1]} \cup Elements(m)

LEMMA WayDelivers ==
  ASSUME NEW q \in Seq(Nat), NEW k, NEW L \in Seq(Nat), NEW D \in Seq(Nat), NEW A,
         NEW S \in SUBSET Nat, NEW forth, NEW back,
         Way(q, k, L, D, A, S, forth, back),
         NEW m \in Seq(Nat), Sound(m, L, D),
         NEW news, news = NotIn(m, S),
         NEW A2, Elements(A2) \subseteq Elements(A) \cup Elements(m)
  PROVE  Way(q, k, L, D \o news, A2, Remembers(S, m), forth, back)
<1>. DEFINE D2 == D \o news
            S2 == Remembers(S, m)
            n == Len(D)
            l == Len(news)
<1>1. news \in Seq(Nat) /\ Elements(news) = Elements(m) \ S /\ Rising(news)
  BY NotInIs DEF Sound
<1>2. /\ n \in Nat /\ l \in Nat /\ DOMAIN D = 1 .. n /\ DOMAIN news = 1 .. l
      /\ DOMAIN D2 = 1 .. n + l
      /\ \A i \in 1 .. n : D2[i] = D[i]
      /\ \A i \in 1 .. l : D2[n + i] = news[i]
      /\ Elements(D2) = Elements(D) \cup Elements(news)
  BY <1>1, ConcatIs
<1>3. /\ Elements(D) \subseteq Nat /\ Elements(m) \subseteq Nat /\ Elements(L) \subseteq Nat
      /\ \A i \in 1 .. n : D[i] \in Elements(D)
      /\ \A i \in 1 .. l : news[i] \in Elements(news)
  BY <1>1, <1>2, ElementsAre
<1>. HIDE DEF D2, S2, n, l
<1>4. S \subseteq Elements(D) /\ Elements(D) \subseteq Elements(L)
      /\ Elements(A) \subseteq Elements(D)
  BY DEF Way
<1>5. Elements(D2) = Elements(D) \cup Elements(m)
  BY <1>1, <1>2, <1>4
<1>6. Elements(A2) \subseteq Elements(D2)
  BY <1>4, <1>5
<1>7. S2 \subseteq Elements(D2)
  BY <1>4, <1>5 DEF S2, Remembers
<1>8. Elements(D2) \subseteq Elements(L)
  BY <1>4, <1>5 DEF Sound
<1>9. /\ \A i \in DOMAIN back : Elements(back[i].acks) \subseteq Elements(D2)
      /\ \A c \in Elements(L) : c \in Elements(D2) \/ c \in Elements(q)
      /\ \A i \in DOMAIN forth : Sound(forth[i].messages, L, D2)
  <2>1. \A i \in DOMAIN back : Elements(back[i].acks) \subseteq Elements(D2)
    BY <1>5 DEF Way
  <2>2. \A c \in Elements(L) : c \in Elements(D2) \/ c \in Elements(q)
    BY <1>5 DEF Way
  <2>3. \A i \in DOMAIN forth : Sound(forth[i].messages, L, D2)
    BY <1>5 DEF Way, Sound
  <2>. QED  BY <2>1, <2>2, <2>3
<1>10. \A i \in 1 .. n + l : i \in 1 .. n \/ (i - n \in 1 .. l /\ n + (i - n) = i /\ n < i)
  BY <1>2
<1>11. ASSUME NEW i \in 1 .. n + l, NEW c \in Elements(L), c < D2[i]
       PROVE  \E j \in 1 .. i - 1 : D2[j] = c
  <2>1. CASE i \in 1 .. n
    <3>1. \E j \in 1 .. i - 1 : D[j] = c
      BY <1>2, <1>11, <2>1 DEF Way
    <3>2. \A j \in 1 .. i - 1 : j \in 1 .. n
      BY <1>2, <2>1
    <3>. QED  BY <1>2, <3>1, <3>2
  <2>2. CASE c \in Elements(D) /\ n < i
    <3>1. PICK j \in 1 .. n : D[j] = c
      BY <1>2, <2>2 DEF Elements
    <3>2. j \in 1 .. i - 1 /\ D2[j] = c
      BY <1>2, <2>2, <3>1
    <3>. QED  BY <3>2
  <2>3. CASE c \notin Elements(D) /\ i - n \in 1 .. l /\ n + (i - n) = i
    <3>. DEFINE h == i - n
    <3>1. D2[i] = news[h] /\ h \in 1 .. l
      BY <1>2, <2>3
    <3>2. news[h] \in Elements(m)
      BY <1>1, <1>3, <3>1
    <3>3. c \in Elements(m)
      BY <1>11, <2>3, <3>1, <3>2 DEF Sound
    <3>4. c \in Elements(news)
      BY <1>1, <1>4, <2>3, <3>3
    <3>5. PICK j \in 1 .. l : news[j] = c
      BY <1>2, <3>4 DEF Elements
    <3>6. /\ h \in DOMAIN news /\ j \in DOMAIN news /\ news[j] < news[h]
          /\ news[j] \in Nat /\ news[h] \in Nat
      BY <1>1, <1>2, <1>11, <3>1, <3>5
    <3>7. ~ (h < j) /\ h # j
      BY <1>1, <3>6 DEF Rising
    <3>8. n + j \in 1 .. i - 1 /\ D2[n + j] = c
      BY <1>2, <3>1, <3>5, <3>7
    <3>. QED  BY <3>8
  <2>. QED  BY <1>10, <2>1, <2>2, <2>3
<1>12. ASSUME NEW c \in Elements(D2)
       PROVE  c \in S2 \/ \E d \in Elements(D2) : d > c
  <2>1. CASE c \in Elements(m)
    <3>1. m # <<>>
      BY <2>1 DEF Elements
    <3>. QED  BY <2>1, <3>1 DEF S2, Remembers
  <2>2. CASE c \notin Elements(m)
    <3>1. c \in Elements(D) /\ c \in Nat
      BY <1>3, <1>5, <1>12, <2>2
    <3>2. CASE \E d \in Elements(D) : d > c
      BY <1>5, <3>2
    <3>3. CASE c \in S
      <4>1. CASE m = <<>> \/ c >= m[1]
        BY <3>3, <4>1 DEF S2, Remembers
      <4>2. CASE m # <<>> /\ ~ (c >= m[1])
        <5>1. m[1] \in Elements(m) /\ m[1] \in Nat
          BY <1>3, <4>2, ElementsAre
        <5>2. m[1] \in Elements(D2) /\ m[1] > c
          BY <1>5, <3>1, <4>2, <5>1
        <5>. QED  BY <5>2
      <4>. QED  BY <4>1, <4>2
    <3>. QED  BY <3>1, <3>2, <3>3 DEF Way
  <2>. QED  BY <2>1, <2>2
<1>13. ASSUME NEW i \in 1 .. n + l, NEW j \in 1 .. n + l, i < j, D2[i] = D2[j]
       PROVE  \E h \in 1 .. j : D2[h] > D2[j]
  <2>1. CASE j \in 1 .. n
    <3>1. i \in 1 .. n /\ D[i] = D[j] /\ D2[j] = D[j]
      BY <1>2, <1>13, <2>1
    <3>2. PICK h \in 1 .. j : D[h] > D[j]
      BY <1>2, <1>13, <2>1, <3>1 DEF Way
    <3>3. D2[h] = D[h]
      BY <1>2, <2>1, <3>2
    <3>. QED  BY <3>1, <3>2, <3>3
  <2>2. CASE j - n \in 1 .. l /\ n + (j - n) = j /\ n < j
    <3>1. D2[j] = news[j - n] /\ D2[j] \in Elements(m) /\ D2[j] \notin S
      <4>1. D2[n + (j - n)] = news[j - n] /\ news[j - n] \in Elements(news)
        BY <1>2, <1>3, <2>2
      <4>. QED  BY <1>1, <2>2, <4>1
    <3>2. i \in 1 .. n
      <4>. SUFFICES ASSUME i - n \in 1 .. l, n + (i - n) = i PROVE FALSE
        BY <1>10
      <4>1. D2[n + (i - n)] = news[i - n]
        BY <1>2
      <4>2. news[i - n] = news[j - n] /\ i - n < j - n
        BY <1>2, <1>13, <3>1, <4>1
      <4>3. i - n \in DOMAIN news /\ j - n \in DOMAIN news
        BY <1>2, <2>2
      <4>4. news[i - n] < news[j - n]
        BY <1>1, <4>2, <4>3 DEF Rising
      <4>5. news[i - n] \in Nat
        BY <1>1, <4>3
      <4>. QED  BY <4>2, <4>4, <4>5
    <3>3. D2[j] \in Elements(D)
      BY <1>2, <1>3, <1>13, <3>2
    <3>4. PICK d \in Elements(D) : d > D2[j]
      BY <3>1, <3>3 DEF Way
    <3>5. PICK h \in 1 .. n : D[h] = d
      BY <1>2 DEF Elements
    <3>6. h \in 1 .. j /\ D2[h] > D2[j]
      BY <1>2, <2>2, <3>4, <3>5
    <3>. QED  BY <3>6
  <2>. QED  BY <1>10, <2>1, <2>2
<1>14. Way(q, k, L, D2, A2, S2, forth, back)
  BY <1>2, <1>6, <1>7, <1>8, <1>9, <1>11, <1>12, <1>13 DEF Way
<1>. QED  BY <1>14 DEF D2, S2

LEMMA InTurnDelivers ==
  ASSUME NEW q \in Seq(Nat), NEW k, NEW L \in Seq(Nat), NEW D \in Seq(Nat), NEW A,
         NEW S \in SUBSET Nat, NEW forth \in Seq(Packet), NEW back,
         Way(q, k, L, D, A, S, forth, back), InTurnWay(q, D, S, forth),
         1 \in DOMAIN forth, NEW m, m = forth[1].messages,
         NEW news, news = NotIn(m, S)
  PROVE  InTurnWay(q, D \o news, Remembers(S, m), forth)
<1>. DEFINE D2 == D \o news
            S2 == Remembers(S, m)
            n == Len(D)
            l == Len(news)
<1>0. m \in Seq(Nat)
  <2>1. forth[1] \in Packet
    OBVIOUS
  <2>. QED  BY <2>1 DEF Packet
<1>1. news \in Seq(Nat) /\ Elements(news) = Elements(m) \ S /\ Rising(news) /\ Sound(m, L, D)
  BY <1>0, NotInIs DEF Way, Sound
<1>2. /\ n \in Nat /\ l \in Nat /\ DOMAIN D = 1 .. n /\ DOMAIN news = 1 .. l
      /\ DOMAIN D2 = 1 .. n + l
      /\ \A i \in 1 .. n : D2[i] = D[i]
      /\ \A i \in 1 .. l : D2[n + i] = news[i]
      /\ Elements(D2) = Elements(D) \cup Elements(news)
  BY <1>1, ConcatIs
<1>3. /\ Elements(D) \subseteq Nat /\ Elements(m) \subseteq Nat
      /\ \A i \in 1 .. n : D[i] \in Elements(D)
      /\ \A i \in 1 .. l : news[i] \in Elements(news)
  BY <1>0, <1>1, <1>2, ElementsAre
<1>4. S \subseteq Elements(D) /\ Elements(D2) = Elements(D) \cup Elements(m)
  BY <1>1, <1>2 DEF Way
<1>. HIDE DEF D2, S2, n, l
<1>5. Remembered(m, D, S) /\ \A i \in DOMAIN forth : i = 1 \/ 1 < i
  BY DEF InTurnWay
<1>6. ASSUME NEW c \in Elements(D), NEW d \in Elements(news) PROVE c < d
  <2>1. d \in Elements(m) /\ d \notin S /\ d \notin Elements(D)
    BY <1>1, <1>5 DEF Remembered
  <2>2. ~ (d < c)
    <3>. SUFFICES ASSUME d < c PROVE FALSE
      OBVIOUS
    <3>1. PICK i \in DOMAIN D : D[i] = c
      BY DEF Elements
    <3>2. d \in Elements(L)
      BY <1>1, <2>1 DEF Sound
    <3>3. PICK j \in 1 .. i - 1 : D[j] = d
      BY <3>1, <3>2 DEF Way
    <3>4. j \in 1 .. n
      BY <1>2, <3>1, <3>3
    <3>. QED  BY <1>3, <2>1, <3>3, <3>4
  <2>. QED  BY <1>3, <2>1, <2>2
<1>7. Rising(D2)
  <2>. SUFFICES ASSUME NEW i \in 1 .. n + l, NEW j \in 1 .. n + l, i < j PROVE D2[i] < D2[j]
    BY <1>2 DEF Rising
  <2>1. \A h \in 1 .. n + l : h \in 1 .. n \/ (h - n \in 1 .. l /\ n + (h - n) = h)
    BY <1>2
  <2>2. CASE j \in 1 .. n
    <3>1. i \in 1 .. n
      BY <1>2, <2>2
    <3>2. D[i] < D[j]
      BY <1>2, <2>2, <3>1 DEF InTurnWay, Rising
    <3>. QED  BY <1>2, <2>2, <3>1, <3>2
  <2>3. CASE i \in 1 .. n /\ j - n \in 1 .. l /\ n + (j - n) = j
    <3>1. D2[i] = D[i] /\ D2[n + (j - n)] = news[j - n]
      BY <1>2, <2>3
    <3>. QED  BY <1>3, <1>6, <2>3, <3>1
  <2>4. CASE i - n \in 1 .. l /\ n + (i - n) = i /\ j - n \in 1 .. l /\ n + (j - n) = j
    <3>1. D2[n + (i - n)] = news[i - n] /\ D2[n + (j - n)] = news[j - n] /\ i - n < j - n
      BY <1>2, <2>4
    <3>2. news[i - n] < news[j - n]
      BY <1>1, <1>2, <2>4, <3>1 DEF Rising
    <3>. QED  BY <2>4, <3>1, <3>2
  <2>. QED  BY <2>1, <2>2, <2>3, <2>4
<1>8. ASSUME NEW r, Remembered(r, D, S), NotBefore(m, r) \/ r = m
      PROVE  Remembered(r, D2, S2)
  <2>. SUFFICES ASSUME NEW c \in Elements(r), c \in Elements(D2) PROVE c \in S2
    BY DEF Remembered
  <2>1. CASE c \in Elements(m)
    <3>1. m # <<>>
      BY <2>1 DEF Elements
    <3>. QED  BY <2>1, <3>1 DEF S2, Remembers
  <2>2. CASE c \notin Elements(m)
    <3>1. c \in S /\ c \in Nat
      BY <1>3, <1>4, <1>8, <2>2 DEF Remembered
    <3>2. m # <<>> => m[1] <= c
      BY <1>8, <2>2 DEF NotBefore
    <3>3. m # <<>> => m[1] \in Nat
      BY <1>0, <1>3, ElementsAre
    <3>. QED  BY <3>1, <3>2, <3>3 DEF S2, Remembers
  <2>. QED  BY <2>1, <2>2
<1>9. Remembered(q, D2, S2)
  <2>1. Remembered(q, D, S) /\ NotBefore(m, q)
    BY DEF InTurnWay
  <2>. QED  BY <1>8, <2>1
<1>10. ASSUME NEW i \in DOMAIN forth PROVE Remembered(forth[i].messages, D2, S2)
  <2>1. Remembered(forth[i].messages, D, S)
    BY DEF InTurnWay
  <2>2. NotBefore(m, forth[i].messages) \/ forth[i].messages = m
    BY <1>5 DEF InTurnWay
  <2>. QED  BY <1>8, <2>1, <2>2
<1>11. InTurnWay(q, D2, S2, forth)
  BY <1>7, <1>9, <1>10 DEF InTurnWay
<1>. QED  BY <1>11 DEF D2, S2

-----------------------------------------------------------------------------
(* Both directions.                                                         *)

LEMMA PeerIs ==
  ASSUME NEW x \in Ends
  PROVE  /\ Peer(x) \in Ends /\ Peer(x) # x /\ Peer(Peer(x)) = x
         /\ \A y \in Ends : y = x \/ y = Peer(x)
<1>1. PICK a, b \in Ends : a # b /\ Ends = {a, b}
  BY SignalingAssumption
<1>2. \A y \in Ends : \E w \in Ends : w # y
  BY <1>1
<1>3. \A y \in Ends : Peer(y) \in Ends /\ Peer(y) # y
  BY <1>2 DEF Peer
<1>. QED  BY <1>1, <1>3

LEMMA CountersAre ==
  ASSUME NEW w \in Seq(Waiting)
  PROVE  /\ Counters(w) \in Seq(Nat) /\ Len(Counters(w)) = Len(w)
         /\ DOMAIN Counters(w) = DOMAIN w
         /\ \A i \in DOMAIN w : Counters(w)[i] = w[i].counter
<1>1. \A i \in DOMAIN w : w[i] \in Waiting
  OBVIOUS
<1>2. \A i \in DOMAIN w : w[i].counter \in Nat
  BY <1>1 DEF Waiting
<1>3. Len(w) \in Nat /\ DOMAIN w = 1 .. Len(w)
  OBVIOUS
<1>. QED  BY <1>2, <1>3 DEF Counters

LEMMA EndIs ==
  ASSUME NEW e \in End
  PROVE  /\ e.counter \in Nat /\ e.incoming \in SUBSET Nat /\ e.waiting \in Seq(Waiting)
         /\ e.sentAcks \in SUBSET Nat /\ e.acks \in Seq(Nat)
         /\ e.ackTimer \in BOOLEAN /\ e.resendTimer \in BOOLEAN /\ e.services \in Nat
BY DEF End, Waiting

\* Accepting a message in one direction leaves the other alone.
LEMMA GoodAccepts ==
  ASSUME NEW es, NEW net, NEW lg, NEW dl, Good(es, net, lg, dl), NEW z \in Ends,
         NEW c, c = es[z].counter + 1, NEW e \in End,
         Counters(e.waiting) = Append(Counters(es[z].waiting), c),
         e.counter = c, e.acks = es[z].acks, e.sentAcks = es[z].sentAcks
  PROVE  Good([es EXCEPT ![z] = e], net, [lg EXCEPT ![z] = Append(@, c)], dl)
<1>. DEFINE fs == [es EXCEPT ![z] = e]
            mg == [lg EXCEPT ![z] = Append(@, c)]
            y == Peer(z)
<1>1. /\ es \in [Ends -> End] /\ net \in [Ends -> Seq(Packet)]
      /\ lg \in [Ends -> Seq(Nat)] /\ dl \in [Ends -> Seq(Nat)]
  BY DEF Good, Typed
<1>2. y \in Ends /\ y # z /\ Peer(y) = z /\ \A x \in Ends : x = z \/ x = y
  BY PeerIs
<1>. HIDE DEF y
<1>3. /\ c \in Nat /\ es[z].counter \in Nat /\ es[z].counter < c
      /\ Counters(es[z].waiting) \in Seq(Nat)
      /\ es[y].acks \in Seq(Nat) /\ es[y].sentAcks \in SUBSET Nat
      /\ lg[z] \in Seq(Nat) /\ dl[y] \in Seq(Nat)
  <2>1. es[z] \in End /\ es[y] \in End /\ lg[z] \in Seq(Nat) /\ dl[y] \in Seq(Nat)
    BY <1>1, <1>2
  <2>2. es[y].acks \in Seq(Nat) /\ es[y].sentAcks \in SUBSET Nat
    BY <2>1, EndIs
  <2>3. es[z].counter \in Nat /\ es[z].waiting \in Seq(Waiting)
    BY <2>1, EndIs
  <2>4. Counters(es[z].waiting) \in Seq(Nat)
    BY <2>3, CountersAre
  <2>. QED  BY <2>1, <2>2, <2>3, <2>4
<1>4. fs[z] = e /\ fs[y] = es[y] /\ mg[z] = Append(lg[z], c) /\ mg[y] = lg[y]
  BY <1>1, <1>2
<1>5. Typed(fs, net, mg, dl)
  BY <1>1, <1>3 DEF Typed
<1>. HIDE DEF fs, mg
<1>6. WayIn(fs, net, mg, dl, z)
  <2>1. WayIn(es, net, lg, dl, z)
    BY DEF Good
  <2>2. Way(Counters(es[z].waiting), es[z].counter, lg[z], dl[y], es[y].acks, es[y].sentAcks,
            net[y], net[z])
    BY <2>1 DEF WayIn, y
  <2>3. Way(Append(Counters(es[z].waiting), c), c, Append(lg[z], c), dl[y], es[y].acks,
            es[y].sentAcks, net[y], net[z])
    <3>1. c <= c
      BY <1>3
    <3>. QED  BY <1>3, <2>2, <3>1, WayAccepts
  <2>. QED  BY <1>4, <2>3 DEF WayIn, y
<1>7. WayIn(fs, net, mg, dl, y)
  <2>1. WayIn(es, net, lg, dl, y)
    BY <1>2 DEF Good
  <2>. QED  BY <1>2, <1>4, <2>1 DEF WayIn
<1>8. ASSUME ~ Reordering PROVE InTurnIn(fs, net, dl, z) /\ InTurnIn(fs, net, dl, y)
  <2>1. InTurnIn(es, net, dl, z) /\ InTurnIn(es, net, dl, y) /\ WayIn(es, net, lg, dl, z)
    BY <1>2, <1>8 DEF Good
  <2>2. InTurnIn(fs, net, dl, y)
    BY <1>2, <1>4, <2>1 DEF InTurnIn
  <2>3. /\ Way(Counters(es[z].waiting), es[z].counter, lg[z], dl[y], es[y].acks,
               es[y].sentAcks, net[y], net[z])
        /\ InTurnWay(Counters(es[z].waiting), dl[y], es[y].sentAcks, net[y])
    BY <2>1 DEF WayIn, InTurnIn, y
  <2>4. InTurnWay(Append(Counters(es[z].waiting), c), dl[y], es[y].sentAcks, net[y])
    BY <1>1, <1>2, <1>3, <2>3, InTurnAccepts
  <2>. QED  BY <1>4, <2>2, <2>4 DEF InTurnIn, y
<1>9. Good(fs, net, mg, dl)
  BY <1>2, <1>5, <1>6, <1>7, <1>8 DEF Good
<1>. QED  BY <1>9 DEF fs, mg

\* The end z is now e, which sends and receives nothing.
LEMMA GoodWaits ==
  ASSUME NEW es, NEW net, NEW lg, NEW dl, Good(es, net, lg, dl), NEW z \in Ends,
         NEW e \in End, Counters(e.waiting) = Counters(es[z].waiting),
         es[z].counter <= e.counter, e.acks = es[z].acks, e.sentAcks = es[z].sentAcks
  PROVE  Good([es EXCEPT ![z] = e], net, lg, dl)
<1>. DEFINE fs == [es EXCEPT ![z] = e]
            y == Peer(z)
<1>1. /\ es \in [Ends -> End] /\ net \in [Ends -> Seq(Packet)]
      /\ lg \in [Ends -> Seq(Nat)] /\ dl \in [Ends -> Seq(Nat)]
  BY DEF Good, Typed
<1>2. y \in Ends /\ y # z /\ Peer(y) = z /\ \A x \in Ends : x = z \/ x = y
  BY PeerIs
<1>. HIDE DEF y
<1>3. es[z].counter \in Nat /\ e.counter \in Nat /\ lg[z] \in Seq(Nat)
  BY <1>1, EndIs
<1>4. fs[z] = e /\ fs[y] = es[y]
  BY <1>1, <1>2
<1>5. Typed(fs, net, lg, dl)
  BY <1>1 DEF Typed
<1>. HIDE DEF fs
<1>6. WayIn(fs, net, lg, dl, z)
  <2>1. Way(Counters(es[z].waiting), es[z].counter, lg[z], dl[y], es[y].acks, es[y].sentAcks,
            net[y], net[z])
    BY DEF Good, WayIn, y
  <2>2. Way(Counters(es[z].waiting), e.counter, lg[z], dl[y], es[y].acks, es[y].sentAcks,
            net[y], net[z])
    BY <1>3, <2>1, WayCounts
  <2>. QED  BY <1>4, <2>2 DEF WayIn, y
<1>7. WayIn(fs, net, lg, dl, y)
  <2>1. WayIn(es, net, lg, dl, y)
    BY <1>2 DEF Good
  <2>. QED  BY <1>2, <1>4, <2>1 DEF WayIn
<1>8. ASSUME ~ Reordering PROVE InTurnIn(fs, net, dl, z) /\ InTurnIn(fs, net, dl, y)
  <2>1. InTurnIn(es, net, dl, z) /\ InTurnIn(es, net, dl, y)
    BY <1>2, <1>8 DEF Good
  <2>. QED  BY <1>2, <1>4, <2>1 DEF InTurnIn, y
<1>9. Good(fs, net, lg, dl)
  BY <1>2, <1>5, <1>6, <1>7, <1>8 DEF Good
<1>. QED  BY <1>9 DEF fs

\* The end z is now e and sent the packet p.
LEMMA GoodSends ==
  ASSUME NEW es, NEW net, NEW lg, NEW dl, Good(es, net, lg, dl), NEW z \in Ends,
         NEW e \in End, Counters(e.waiting) = Counters(es[z].waiting),
         es[z].counter <= e.counter, Elements(e.acks) \subseteq Elements(es[z].acks),
         e.sentAcks = es[z].sentAcks,
         NEW p \in Packet, Elements(p.acks) \subseteq Elements(es[z].acks),
         NEW n \in 0 .. Len(Counters(es[z].waiting)),
         p.messages = SubSeq(Counters(es[z].waiting), 1, n)
  PROVE  Good([es EXCEPT ![z] = e], [net EXCEPT ![Peer(z)] = Append(@, p)], lg, dl)
<1>. DEFINE fs == [es EXCEPT ![z] = e]
            y == Peer(z)
            mt == [net EXCEPT ![y] = Append(@, p)]
            q == Counters(es[z].waiting)
<1>1. /\ es \in [Ends -> End] /\ net \in [Ends -> Seq(Packet)]
      /\ lg \in [Ends -> Seq(Nat)] /\ dl \in [Ends -> Seq(Nat)]
  BY DEF Good, Typed
<1>2. y \in Ends /\ y # z /\ Peer(y) = z /\ \A x \in Ends : x = z \/ x = y
  BY PeerIs
<1>. HIDE DEF y
<1>3. /\ es[z].counter \in Nat /\ e.counter \in Nat /\ lg[z] \in Seq(Nat)
      /\ q \in Seq(Nat) /\ net[y] \in Seq(Packet)
  BY <1>1, <1>2, EndIs, CountersAre
<1>. HIDE DEF q
<1>4. fs[z] = e /\ fs[y] = es[y] /\ mt[y] = Append(net[y], p) /\ mt[z] = net[z]
  BY <1>1, <1>2
<1>5. Typed(fs, mt, lg, dl)
  <2>1. Append(net[y], p) \in Seq(Packet)
    BY <1>3
  <2>. QED  BY <1>1, <2>1 DEF Typed
<1>. HIDE DEF fs, mt
<1>6. /\ Way(q, es[z].counter, lg[z], dl[y], es[y].acks, es[y].sentAcks, net[y], net[z])
      /\ Way(Counters(es[y].waiting), es[y].counter, lg[y], dl[z], es[z].acks, es[z].sentAcks,
             net[z], net[y])
  <2>1. WayIn(es, net, lg, dl, z) /\ WayIn(es, net, lg, dl, y)
    BY <1>2 DEF Good
  <2>. QED  BY <1>2, <2>1 DEF WayIn, q, y
<1>7. WayIn(fs, mt, lg, dl, z)
  <2>1. Way(q, e.counter, lg[z], dl[y], es[y].acks, es[y].sentAcks, net[y], net[z])
    BY <1>3, <1>6, WayCounts
  <2>2. n \in 0 .. Len(q) /\ p.messages = SubSeq(q, 1, n)
    BY DEF q
  <2>3. Way(q, e.counter, lg[z], dl[y], es[y].acks, es[y].sentAcks, Append(net[y], p), net[z])
    BY <1>3, <2>1, <2>2, WaySends
  <2>. QED  BY <1>4, <2>3 DEF WayIn, q, y
<1>8. WayIn(fs, mt, lg, dl, y)
  <2>1. Way(Counters(es[y].waiting), es[y].counter, lg[y], dl[z], e.acks, es[z].sentAcks,
            net[z], Append(net[y], p))
    BY <1>3, <1>6, WayAnswers
  <2>. QED  BY <1>2, <1>4, <2>1 DEF WayIn
<1>9. ASSUME ~ Reordering PROVE InTurnIn(fs, mt, dl, z) /\ InTurnIn(fs, mt, dl, y)
  <2>1. InTurnIn(es, net, dl, z) /\ InTurnIn(es, net, dl, y)
    BY <1>2, <1>9 DEF Good
  <2>2. InTurnIn(fs, mt, dl, y)
    BY <1>2, <1>4, <2>1 DEF InTurnIn
  <2>3. InTurnWay(q, dl[y], es[y].sentAcks, net[y]) /\ Rising(q)
        /\ n \in 0 .. Len(q) /\ p.messages = SubSeq(q, 1, n)
    BY <1>6, <2>1 DEF InTurnIn, Way, q, y
  <2>4. InTurnWay(q, dl[y], es[y].sentAcks, Append(net[y], p))
    BY <1>3, <2>3, InTurnSends
  <2>. QED  BY <1>4, <2>2, <2>4 DEF InTurnIn, q, y
<1>10. Good(fs, mt, lg, dl)
  BY <1>2, <1>5, <1>7, <1>8, <1>9 DEF Good
<1>. QED  BY <1>10 DEF fs, mt, y

\* A packet to z is gone.
LEMMA GoodLoses ==
  ASSUME NEW es, NEW net, NEW lg, NEW dl, Good(es, net, lg, dl), NEW z \in Ends,
         NEW i \in DOMAIN net[z]
  PROVE  Good(es, [net EXCEPT ![z] = Without(@, i)], lg, dl)
<1>. DEFINE t == Without(net[z], i)
            y == Peer(z)
            mt == [net EXCEPT ![z] = Without(@, i)]
<1>1. net \in [Ends -> Seq(Packet)] /\ net[z] \in Seq(Packet)
  BY DEF Good, Typed
<1>2. y \in Ends /\ y # z /\ Peer(y) = z /\ \A x \in Ends : x = z \/ x = y
  BY PeerIs
<1>3. t \in Seq(Packet) /\ Thinned(t, net[z]) /\ Thinned(net[y], net[y])
  BY <1>1, SameThinned, WithoutThinned
<1>. HIDE DEF y, t
<1>4. mt[z] = t /\ mt[y] = net[y]
  BY <1>1, <1>2 DEF t
<1>5. mt \in [Ends -> Seq(Packet)]
  BY <1>1, <1>3 DEF t
<1>. HIDE DEF mt
<1>6. WayIn(es, net, lg, dl, z) /\ WayIn(es, net, lg, dl, y)
  BY <1>2 DEF Good
<1>7. WayIn(es, mt, lg, dl, z) /\ WayIn(es, mt, lg, dl, y)
  <2>1. WayIn(es, mt, lg, dl, z)
    BY <1>3, <1>4, <1>6, WayLoses DEF WayIn, y
  <2>2. WayIn(es, mt, lg, dl, y)
    BY <1>2, <1>3, <1>4, <1>6, WayLoses DEF WayIn
  <2>. QED  BY <2>1, <2>2
<1>8. ASSUME ~ Reordering PROVE InTurnIn(es, mt, dl, z) /\ InTurnIn(es, mt, dl, y)
  <2>1. InTurnIn(es, net, dl, z) /\ InTurnIn(es, net, dl, y)
    BY <1>2, <1>8 DEF Good
  <2>2. InTurnIn(es, mt, dl, z)
    BY <1>4, <2>1 DEF InTurnIn, y
  <2>3. InTurnIn(es, mt, dl, y)
    BY <1>2, <1>3, <1>4, <2>1, InTurnLoses DEF InTurnIn
  <2>. QED  BY <2>2, <2>3
<1>9. Good(es, mt, lg, dl)
  BY <1>2, <1>5, <1>7, <1>8 DEF Good, Typed
<1>. QED  BY <1>9 DEF mt

\* The end z, now e, took the packet p.
LEMMA GoodTakes ==
  ASSUME NEW es, NEW net, NEW lg, NEW dl, Good(es, net, lg, dl), NEW z \in Ends,
         NEW i \in DOMAIN net[z], Reordering \/ i = 1, NEW p, p = net[z][i],
         NEW e \in End, Rising(Counters(es[z].waiting)) => Rising(Counters(e.waiting)),
         Elements(Counters(e.waiting)) = Elements(Counters(es[z].waiting)) \ Elements(p.acks),
         e.counter = es[z].counter,
         Elements(e.acks) \subseteq Elements(es[z].acks) \cup Elements(p.messages),
         e.sentAcks = Remembers(es[z].sentAcks, p.messages),
         NEW news, news = NotIn(p.messages, es[z].sentAcks)
  PROVE  Good([es EXCEPT ![z] = e], net, lg, [dl EXCEPT ![z] = @ \o news])
<1>. DEFINE fs == [es EXCEPT ![z] = e]
            el == [dl EXCEPT ![z] = @ \o news]
            y == Peer(z)
            q == Counters(es[y].waiting)
            m == p.messages
            S == es[z].sentAcks
<1>1. /\ es \in [Ends -> End] /\ net \in [Ends -> Seq(Packet)]
      /\ lg \in [Ends -> Seq(Nat)] /\ dl \in [Ends -> Seq(Nat)]
  BY DEF Good, Typed
<1>2. y \in Ends /\ y # z /\ Peer(y) = z /\ \A x \in Ends : x = z \/ x = y
  BY PeerIs
<1>. HIDE DEF y
<1>3. p \in Packet /\ net[z] \in Seq(Packet)
  BY <1>1
<1>4. m \in Seq(Nat) /\ lg[y] \in Seq(Nat) /\ dl[z] \in Seq(Nat)
  BY <1>1, <1>2, <1>3 DEF Packet
<1>5. q \in Seq(Nat) /\ S \in SUBSET Nat
  <2>1. es[z] \in End /\ es[y] \in End
    BY <1>1, <1>2
  <2>2. es[y].waiting \in Seq(Waiting) /\ S \in SUBSET Nat
    BY <2>1, EndIs
  <2>. QED  BY <2>2, CountersAre
<1>. HIDE DEF q, S, m
<1>6. news \in Seq(Nat) /\ dl[z] \o news \in Seq(Nat)
  <2>1. news \in Seq(Nat)
    BY <1>4, NotInIs DEF m
  <2>. QED  BY <1>4, <2>1
<1>7. fs[z] = e /\ fs[y] = es[y] /\ el[z] = dl[z] \o news /\ el[y] = dl[y]
  BY <1>1, <1>2
<1>8. Typed(fs, net, lg, el)
  BY <1>1, <1>6 DEF Typed
<1>. HIDE DEF fs, el
<1>9. /\ Way(Counters(es[z].waiting), es[z].counter, lg[z], dl[y], es[y].acks, es[y].sentAcks,
             net[y], net[z])
      /\ Way(q, es[y].counter, lg[y], dl[z], es[z].acks, S, net[z], net[y])
  <2>1. WayIn(es, net, lg, dl, z) /\ WayIn(es, net, lg, dl, y)
    BY <1>2 DEF Good
  <2>. QED  BY <1>2, <2>1 DEF WayIn, q, y, S
<1>10. Sound(m, lg[y], dl[z])
  BY <1>9 DEF Way, m
<1>11. Elements(p.acks) \subseteq Elements(dl[y]) /\ Rising(Counters(e.waiting))
  BY <1>9 DEF Way
<1>12. WayIn(fs, net, lg, el, z)
  <2>1. Way(Counters(e.waiting), es[z].counter, lg[z], dl[y], es[y].acks, es[y].sentAcks,
            net[y], net[z])
    BY <1>9, <1>11, WayAcked
  <2>. QED  BY <1>7, <2>1 DEF WayIn, y
<1>13. WayIn(fs, net, lg, el, y)
  <2>1. /\ Elements(e.acks) \subseteq Elements(es[z].acks) \cup Elements(m)
        /\ e.sentAcks = Remembers(S, m) /\ news = NotIn(m, S)
    BY DEF m, S
  <2>2. Way(q, es[y].counter, lg[y], dl[z] \o news, e.acks, Remembers(S, m), net[z], net[y])
    BY <1>4, <1>5, <1>9, <1>10, <2>1, WayDelivers
  <2>. QED  BY <1>2, <1>7, <2>1, <2>2 DEF WayIn, q
<1>14. ASSUME ~ Reordering PROVE InTurnIn(fs, net, el, z) /\ InTurnIn(fs, net, el, y)
  <2>1. InTurnIn(es, net, dl, z) /\ InTurnIn(es, net, dl, y) /\ 1 \in DOMAIN net[z] /\ i = 1
    BY <1>2, <1>14 DEF Good
  <2>2. InTurnIn(fs, net, el, z)
    <3>1. InTurnWay(Counters(es[z].waiting), dl[y], es[y].sentAcks, net[y])
      BY <2>1 DEF InTurnIn, y
    <3>2. InTurnWay(Counters(e.waiting), dl[y], es[y].sentAcks, net[y])
      BY <3>1, InTurnAcked
    <3>. QED  BY <1>7, <3>2 DEF InTurnIn, y
  <2>3. InTurnIn(fs, net, el, y)
    <3>1. InTurnWay(q, dl[z], S, net[z]) /\ m = net[z][1] .messages /\ news = NotIn(m, S)
          /\ e.sentAcks = Remembers(S, m)
      BY <1>2, <2>1 DEF InTurnIn, q, S, m
    <3>2. InTurnWay(q, dl[z] \o news, Remembers(S, m), net[z])
      BY <1>3, <1>4, <1>5, <1>9, <2>1, <3>1, InTurnDelivers
    <3>. QED  BY <1>2, <1>7, <3>1, <3>2 DEF InTurnIn, q
  <2>. QED  BY <2>2, <2>3
<1>15. Good(fs, net, lg, el)
  BY <1>2, <1>8, <1>12, <1>13, <1>14 DEF Good
<1>. QED  BY <1>15 DEF fs, el

-----------------------------------------------------------------------------
(* Building and reading packets.                                            *)

LEMMA AcksThatFitType ==
  ASSUME NEW e \in End, NEW used \in Nat, used <= Room
  PROVE  AcksThatFit(e, used) \in 0 .. Len(e.acks)
<1>1. Len(e.acks) \in Nat /\ Room \in Nat
  BY EndIs, SignalingAssumption
<1>. QED  BY <1>1 DEF AcksThatFit

\* There is a first message that is not repeated, or all are.
LEMMA RepeatedType ==
  ASSUME NEW e \in End, NEW used
  PROVE  Repeated(e, used) \in 0 .. Len(e.waiting)
<1>. DEFINE Goes(i) == ~ e.waiting[i].recent /\ used + TotalSize(e.waiting)[i] <= Room
            l == Len(e.waiting)
            S == {n \in 0 .. l : n < l => ~ Goes(n + 1)}
<1>1. l \in Nat
  BY EndIs
<1>. HIDE DEF l, Goes
<1>2. l \in S /\ S \subseteq Nat
  BY <1>1
<1>3. PICK n \in S : \A x \in S : n <= x
  BY <1>2, LeastExists
<1>4. n \in 0 .. l /\ n \in Nat /\ (n < l => ~ Goes(n + 1))
  BY <1>1, <1>3
<1>5. ASSUME NEW i \in 1 .. n PROVE Goes(i)
  <2>1. i - 1 \in 0 .. l /\ i - 1 < l /\ i - 1 < n /\ (i - 1) + 1 = i
    BY <1>1, <1>4
  <2>2. i - 1 \notin S
    BY <1>3, <1>4, <2>1
  <2>. QED  BY <2>1, <2>2
<1>6. Repeated(e, used) = CHOOSE k \in 0 .. l : /\ \A i \in 1 .. k : Goes(i)
                                                /\ k < l => ~ Goes(k + 1)
  BY DEF Repeated, Goes, l
<1>7. Repeated(e, used) \in 0 .. l
  BY <1>4, <1>5, <1>6
<1>. QED  BY <1>7 DEF l

\* The packet p has some of the acknowledgements due at e and the first messages that
\* wait there.
Carries(p, e) ==
  /\ p \in Packet
  /\ Elements(p.acks) \subseteq Elements(e.acks)
  /\ \E n \in 0 .. Len(Counters(e.waiting)) :
       p.messages = SubSeq(Counters(e.waiting), 1, n)

LEMMA PacketIs ==
  ASSUME NEW e \in End, NEW used \in Nat, used <= Room, NEW c \in Nat,
         NEW p, p = AppendMessages(e, used, c)
  PROVE  Carries(p, e)
<1>. DEFINE a == AcksThatFit(e, used)
            n == Repeated(e, used + a)
            w == e.waiting
            q == Counters(w)
<1>1. /\ a \in 0 .. Len(e.acks) /\ n \in 0 .. Len(w)
      /\ e.acks \in Seq(Nat) /\ w \in Seq(Waiting)
  BY AcksThatFitType, RepeatedType, EndIs
<1>2. p = [counter |-> c, acks |-> SubSeq(e.acks, 1, a), messages |-> Counters(SubSeq(w, 1, n))]
  BY DEF AppendMessages
<1>. HIDE DEF a, n, w
<1>3. /\ q \in Seq(Nat) /\ Len(q) = Len(w) /\ DOMAIN q = DOMAIN w
      /\ \A i \in DOMAIN w : q[i] = w[i].counter
  BY <1>1, CountersAre
<1>. HIDE DEF q
<1>4. Counters(SubSeq(w, 1, n)) = SubSeq(q, 1, n) /\ SubSeq(q, 1, n) \in Seq(Nat)
  <2>1. /\ SubSeq(w, 1, n) \in Seq(Waiting) /\ DOMAIN SubSeq(w, 1, n) = 1 .. n
        /\ \A i \in 1 .. n : SubSeq(w, 1, n)[i] = w[i] /\ i \in DOMAIN w
    BY <1>1
  <2>2. /\ SubSeq(q, 1, n) \in Seq(Nat) /\ DOMAIN SubSeq(q, 1, n) = 1 .. n
        /\ \A i \in 1 .. n : SubSeq(q, 1, n)[i] = q[i]
    BY <1>1, <1>3, PrefixIs
  <2>3. Counters(SubSeq(w, 1, n)) = [i \in 1 .. n |-> SubSeq(w, 1, n)[i].counter]
    BY <2>1 DEF Counters
  <2>4. SubSeq(q, 1, n) = [i \in 1 .. n |-> SubSeq(q, 1, n)[i]]
    BY <2>2
  <2>. QED  BY <1>3, <2>1, <2>2, <2>3, <2>4
<1>5. SubSeq(e.acks, 1, a) \in Seq(Nat) /\ Elements(SubSeq(e.acks, 1, a)) \subseteq Elements(e.acks)
  <2>1. /\ SubSeq(e.acks, 1, a) \in Seq(Nat) /\ DOMAIN SubSeq(e.acks, 1, a) = 1 .. a
        /\ \A i \in 1 .. a : SubSeq(e.acks, 1, a)[i] = e.acks[i] /\ i \in DOMAIN e.acks
    BY <1>1, PrefixIs
  <2>. QED  BY <2>1 DEF Elements
<1>6. p \in Packet
  <2>. DEFINE b == SubSeq(e.acks, 1, a)
              m == Counters(SubSeq(w, 1, n))
  <2>1. b \in Seq(Nat) /\ m \in Seq(Nat) /\ p = [counter |-> c, acks |-> b, messages |-> m]
    BY <1>2, <1>4, <1>5
  <2>. HIDE DEF b, m
  <2>. QED  BY <2>1 DEF Packet
<1>7. Elements(p.acks) \subseteq Elements(e.acks)
  BY <1>2, <1>5
<1>8. n \in 0 .. Len(q) /\ p.messages = SubSeq(q, 1, n)
  BY <1>1, <1>2, <1>3, <1>4
<1>. QED  BY <1>6, <1>7, <1>8 DEF Carries, q, w

LEMMA AfterIs ==
  ASSUME NEW e \in End, NEW used \in Nat, used <= Room, NEW f, f = AfterMessages(e, used)
  PROVE  /\ f \in End /\ Counters(f.waiting) = Counters(e.waiting)
         /\ f.counter = e.counter /\ f.sentAcks = e.sentAcks
         /\ Elements(f.acks) \subseteq Elements(e.acks)
<1>. DEFINE a == AcksThatFit(e, used)
            n == Repeated(e, used + a)
            w == e.waiting
            v == [i \in DOMAIN w |-> [w[i] EXCEPT !.recent = w[i].recent \/ i <= n]]
            b == SubSeq(e.acks, a + 1, Len(e.acks))
<1>1. /\ a \in 0 .. Len(e.acks) /\ n \in 0 .. Len(w) /\ Len(w) \in Nat
      /\ e.acks \in Seq(Nat) /\ w \in Seq(Waiting) /\ Len(e.acks) \in Nat
  BY AcksThatFitType, RepeatedType, EndIs
<1>2. f = [e EXCEPT !.acks = b, !.waiting = v,
                    !.resendTimer = e.resendTimer \/ e.waiting # <<>>]
  BY DEF AfterMessages
<1>. HIDE DEF a, n, w
<1>3. v \in Seq(Waiting) /\ Counters(v) = Counters(w)
  <2>1. \A i \in DOMAIN w : v[i] \in Waiting /\ v[i].counter = w[i].counter
    <3>. SUFFICES ASSUME NEW i \in DOMAIN w
                  PROVE v[i] \in Waiting /\ v[i].counter = w[i].counter
      OBVIOUS
    <3>1. w[i] \in Waiting /\ v[i] = [w[i] EXCEPT !.recent = w[i].recent \/ i <= n]
      BY <1>1
    <3>2. (w[i].recent \/ i <= n) \in BOOLEAN
      OBVIOUS
    <3>. QED  BY <3>1 DEF Waiting
  <2>2. DOMAIN v = DOMAIN w /\ DOMAIN w = 1 .. Len(w)
    BY <1>1
  <2>3. v \in [1 .. Len(w) -> Waiting]
    BY <2>1, <2>2
  <2>4. v \in Seq(Waiting)
    BY <1>1, <2>3
  <2>. HIDE DEF v
  <2>5. Counters(v) = Counters(w)
    BY <2>1, <2>2 DEF Counters
  <2>. QED  BY <2>4, <2>5
<1>4. b \in Seq(Nat) /\ Elements(b) \subseteq Elements(e.acks)
  <2>1. /\ b \in Seq(Nat) /\ DOMAIN b = 1 .. Len(e.acks) - a
        /\ \A i \in 1 .. Len(e.acks) - a : b[i] = e.acks[a + i] /\ a + i \in DOMAIN e.acks
    BY <1>1
  <2>. HIDE DEF b
  <2>. QED  BY <2>1 DEF Elements
<1>. HIDE DEF v, b
<1>5. f \in End
  BY <1>2, <1>3, <1>4 DEF End, Waiting
<1>6. f.waiting = v /\ f.acks = b /\ f.counter = e.counter /\ f.sentAcks = e.sentAcks
  BY <1>2 DEF End
<1>. QED  BY <1>3, <1>4, <1>5, <1>6 DEF w

\* What the end e is, f, after it read the packet p.
Read(f, e, p) ==
  /\ f \in End /\ f.counter = e.counter
  /\ Rising(Counters(e.waiting)) => Rising(Counters(f.waiting))
  /\ Elements(Counters(f.waiting)) = Elements(Counters(e.waiting)) \ Elements(p.acks)
  /\ Elements(f.acks) \subseteq Elements(e.acks) \cup Elements(p.messages)
  /\ f.sentAcks = Remembers(e.sentAcks, p.messages)

LEMMA ReadIs ==
  ASSUME NEW e \in End, NEW p \in Packet,
         NEW f, f = ProcessRawPacket(RegisterIncomingCounter(e, p.counter), p)
  PROVE  Read(f, e, p)
<1>. DEFINE e1 == RegisterIncomingCounter(e, p.counter)
            acked == Elements(p.acks)
            v == AtPlaces(e.waiting, Unacked(e.waiting, acked))
            e2 == AckMyMessage(e1, acked)
            m == p.messages
            e3 == RegisterSentAcks(e2, m)
            e4 == SendAcksPostponed(e3, m)
            b == e.acks \o NotIn(m, Elements(e.acks))
<1>1. m \in Seq(Nat) /\ p.counter \in Nat
  BY DEF Packet
<1>2. /\ e1 \in End /\ e1.counter = e.counter /\ e1.waiting = e.waiting
      /\ e1.acks = e.acks /\ e1.sentAcks = e.sentAcks
  <2>. DEFINE I == {k \in e.incoming : k + Keep > p.counter} \cup {p.counter}
  <2>1. I \in SUBSET Nat
    BY <1>1, EndIs
  <2>2. e1 = [e EXCEPT !.incoming = I]
    BY DEF RegisterIncomingCounter
  <2>. HIDE DEF I, e1
  <2>. QED  BY <2>1, <2>2 DEF End
<1>3. /\ v \in Seq(Waiting)
      /\ Elements(Counters(v)) = Elements(Counters(e.waiting)) \ acked
      /\ Rising(Counters(e.waiting)) => Rising(Counters(v))
  <2>1. e.waiting \in Seq(Waiting)
    BY EndIs
  <2>2. v = AtPlaces(e.waiting, Unacked(e.waiting, acked))
    OBVIOUS
  <2>. HIDE DEF v, acked
  <2>. QED  BY <2>1, <2>2, AckedIs
<1>4. /\ e2 \in End /\ e2.counter = e.counter /\ e2.waiting = v
      /\ e2.acks = e.acks /\ e2.sentAcks = e.sentAcks
  <2>. HIDE DEF e1
  <2>1. e2 = [e1 EXCEPT !.waiting = v]
    BY <1>2 DEF AckMyMessage, Unacked
  <2>. HIDE DEF e2, v
  <2>. QED  BY <1>2, <1>3, <2>1 DEF End, Waiting
<1>5. /\ e3 \in End /\ e3.counter = e.counter /\ e3.waiting = v
      /\ e3.acks = e.acks /\ e3.sentAcks = Remembers(e.sentAcks, m)
  <2>. HIDE DEF e2, v
  <2>1. CASE m = <<>>
    BY <1>4, <2>1 DEF RegisterSentAcks, Remembers
  <2>2. CASE m # <<>>
    <3>. DEFINE S == {k \in e2.sentAcks : k >= m[1]} \cup Elements(m)
    <3>1. S \in SUBSET Nat
      BY <1>1, <1>4, EndIs, ElementsAre
    <3>2. e3 = [e2 EXCEPT !.sentAcks = S]
      BY <2>2 DEF RegisterSentAcks
    <3>3. S = Remembers(e.sentAcks, m)
      BY <1>4, <2>2 DEF Remembers
    <3>. HIDE DEF S, e3
    <3>. QED  BY <1>4, <3>1, <3>2, <3>3 DEF End
  <2>. QED  BY <2>1, <2>2
<1>6. b \in Seq(Nat) /\ Elements(b) \subseteq Elements(e.acks) \cup Elements(m)
  <2>1. e.acks \in Seq(Nat)
    BY EndIs
  <2>2. /\ NotIn(m, Elements(e.acks)) \in Seq(Nat)
        /\ Elements(NotIn(m, Elements(e.acks))) \subseteq Elements(m)
    BY <1>1, NotInIs
  <2>. QED  BY <2>1, <2>2, ConcatIs
<1>7. /\ e4 \in End /\ e4.counter = e.counter /\ e4.waiting = v
      /\ e4.acks = b /\ e4.sentAcks = Remembers(e.sentAcks, m)
  <2>. HIDE DEF e3, v
  <2>1. e4 = [e3 EXCEPT !.acks = b]
    BY <1>5 DEF SendAcksPostponed
  <2>. HIDE DEF e4, b
  <2>. QED  BY <1>5, <1>6, <2>1 DEF End
<1>. DEFINE news == News(e1, p)
<1>8. f = RequestService(e4, news)
  BY DEF ProcessRawPacket
<1>. HIDE DEF e4, news, v, b, m, acked
<1>9. /\ f \in End /\ f.counter = e.counter /\ f.waiting = v
      /\ f.acks = b /\ f.sentAcks = Remembers(e.sentAcks, m)
  <2>1. e4.services + 1 \in Nat
    BY <1>7, EndIs
  <2>. QED  BY <1>7, <1>8, <2>1 DEF RequestService, End
<1>. QED  BY <1>3, <1>6, <1>9 DEF Read, m, acked

-----------------------------------------------------------------------------
(* The steps.                                                               *)

LEMMA InvTypes ==
  ASSUME Inv, NEW x \in Ends
  PROVE  /\ ends \in [Ends -> End] /\ ends[x] \in End
         /\ network \in [Ends -> Seq(Packet)] /\ network[x] \in Seq(Packet)
         /\ log \in [Ends -> Seq(Nat)] /\ delivered \in [Ends -> Seq(Nat)]
BY DEF Inv, Good, Typed

LEMMA InitGood == Init => Inv
<1>. SUFFICES ASSUME Init PROVE Inv
  OBVIOUS
<1>. DEFINE E == NewEnd
<1>1. E \in End /\ E.counter = 0 /\ E.waiting = <<>> /\ E.acks = <<>> /\ E.sentAcks = {}
  BY DEF NewEnd, End
<1>2. /\ \A x \in Ends : ends[x] = E /\ network[x] = <<>> /\ log[x] = <<>> /\ delivered[x] = <<>>
      /\ ends \in [Ends -> End]
  BY <1>1 DEF Init
<1>. HIDE DEF E
<1>3. Typed(ends, network, log, delivered)
  BY <1>2 DEF Init, Typed
<1>4. Counters(<<>>) = <<>> /\ Elements(<<>>) = {} /\ Rising(<<>>)
  BY DEF Counters, Elements, Rising
<1>5. Way(<<>>, 0, <<>>, <<>>, <<>>, {}, <<>>, <<>>)
  BY <1>4 DEF Way
<1>6. InTurnWay(<<>>, <<>>, {}, <<>>)
  BY <1>4 DEF InTurnWay, Remembered
<1>7. ASSUME NEW x \in Ends
      PROVE  WayIn(ends, network, log, delivered, x) /\ InTurnIn(ends, network, delivered, x)
  <2>1. Peer(x) \in Ends
    BY PeerIs
  <2>. QED  BY <1>1, <1>2, <1>4, <1>5, <1>6, <2>1 DEF WayIn, InTurnIn
<1>. QED  BY <1>3, <1>7 DEF Inv, Good

\* A packet is sent if there is anything to send: e is the end that sends it.
LEMMA PrepareGood ==
  ASSUME NEW z \in Ends, NEW e \in End, NEW es, NEW lg, es[z] = e,
         Good(es, network, lg, delivered),
         PrepareForSendingService(z, e), ends = [es EXCEPT ![z] = ends[z]]
  PROVE  Good(ends', network', lg, delivered)
<1>1. e.counter \in Nat /\ 1 \in Nat /\ 1 <= Room
  BY EndIs, SignalingAssumption
<1>2. CASE HaveService(e)
  <2>. DEFINE f == AfterMessages(e, 1)
              g == [f EXCEPT !.counter = e.counter + 1]
              p == AppendMessages(e, 1, e.counter + 1)
  <2>1. /\ f \in End /\ Counters(f.waiting) = Counters(e.waiting)
        /\ f.counter = e.counter /\ f.sentAcks = e.sentAcks
        /\ Elements(f.acks) \subseteq Elements(e.acks)
    BY <1>1, AfterIs
  <2>2. Carries(p, e)
    <3>. DEFINE c == e.counter + 1
    <3>1. c \in Nat /\ p = AppendMessages(e, 1, c)
      BY <1>1
    <3>. HIDE DEF c, p
    <3>. QED  BY <1>1, <3>1, PacketIs
  <2>3. ends' = [es EXCEPT ![z] = g] /\ network' = [network EXCEPT ![Peer(z)] = Append(@, p)]
    <3>1. ends' = [ends EXCEPT ![z] = g]
      BY <1>2 DEF PrepareForSendingService
    <3>2. network' = [network EXCEPT ![Peer(z)] = Append(@, p)]
      BY <1>2 DEF PrepareForSendingService
    <3>. HIDE DEF g
    <3>3. ends' = [es EXCEPT ![z] = g]
      BY <3>1
    <3>. QED  BY <3>2, <3>3
  <2>. HIDE DEF f, p
  <2>4. /\ g \in End /\ Counters(g.waiting) = Counters(e.waiting) /\ e.counter <= g.counter
        /\ Elements(g.acks) \subseteq Elements(e.acks) /\ g.sentAcks = e.sentAcks
    <3>. DEFINE c == e.counter + 1
    <3>0. c \in Nat /\ g = [f EXCEPT !.counter = c]
      BY <1>1
    <3>. HIDE DEF c, g
    <3>1. g \in End /\ g.waiting = f.waiting /\ g.acks = f.acks /\ g.sentAcks = f.sentAcks
          /\ g.counter = e.counter + 1
      BY <2>1, <3>0 DEF End, c
    <3>. QED  BY <1>1, <2>1, <3>1
  <2>. HIDE DEF g
  <2>5. PICK n \in 0 .. Len(Counters(e.waiting)) : p.messages = SubSeq(Counters(e.waiting), 1, n)
    BY <2>2 DEF Carries
  <2>. QED  BY <2>2, <2>3, <2>4, <2>5, GoodSends DEF Carries
<1>3. CASE ~ HaveService(e)
  <2>1. ends' = [es EXCEPT ![z] = e] /\ network' = network
    BY <1>3 DEF PrepareForSendingService
  <2>2. es \in [Ends -> End]
    BY DEF Good, Typed
  <2>3. ends' = es
    BY <2>1, <2>2
  <2>. QED  BY <2>1, <2>3
<1>. QED  BY <1>2, <1>3

LEMMA TooLargeGood ==
  ASSUME Inv, NEW x \in Ends, NEW size \in Sizes, EncryptTooLarge(x, size)
  PROVE  Inv'
<1>. DEFINE e == ends[x]
            c == e.counter + 1
            f == [e EXCEPT !.counter = c]
<1>1. e \in End /\ ends \in [Ends -> End] /\ e.counter \in Nat /\ c \in Nat /\ e.counter <= c
  BY InvTypes, EndIs
<1>2. /\ ends' = [ends EXCEPT ![x] = f]
      /\ network' = network /\ log' = log /\ delivered' = delivered
  BY <1>1 DEF EncryptTooLarge
<1>3. f = [e EXCEPT !.counter = c]
  OBVIOUS
<1>. HIDE DEF c, f
<1>4. /\ f \in End /\ Counters(f.waiting) = Counters(e.waiting) /\ f.counter = c
      /\ f.acks = e.acks /\ f.sentAcks = e.sentAcks
  BY <1>1, <1>3 DEF End
<1>5. Good([ends EXCEPT ![x] = f], network, log, delivered)
  BY <1>1, <1>4, GoodWaits DEF Inv
<1>. QED  BY <1>2, <1>5 DEF Inv

LEMMA FirstGood ==
  ASSUME Inv, NEW x \in Ends, NEW size \in Sizes, EncryptFirst(x, size)
  PROVE  Inv'
<1>. DEFINE e == ends[x]
            c == e.counter + 1
            w == <<[counter |-> c, size |-> size, recent |-> TRUE]>>
            d == [e EXCEPT !.counter = c, !.waiting = w]
            f == AfterMessages(e, size)
            g == [f EXCEPT !.counter = c, !.waiting = w]
            o == AppendMessages(e, size, c)
            p == [o EXCEPT !.messages = <<c>>]
            es == [ends EXCEPT ![x] = d]
<1>1. e \in End /\ ends \in [Ends -> End] /\ e.counter \in Nat /\ c \in Nat /\ c = e.counter + 1
  BY InvTypes, EndIs
<1>2. size \in Nat /\ size <= Room /\ e.waiting = <<>>
  BY SignalingAssumption DEF EncryptFirst
<1>3. /\ ends' = [ends EXCEPT ![x] = g]
      /\ network' = [network EXCEPT ![Peer(x)] = Append(@, p)]
      /\ log' = [log EXCEPT ![x] = Append(@, c)] /\ delivered' = delivered
  BY DEF EncryptFirst
<1>4. /\ f \in End /\ f.sentAcks = e.sentAcks /\ Elements(f.acks) \subseteq Elements(e.acks)
  BY <1>1, <1>2, AfterIs
<1>5. Carries(o, e)
  BY <1>1, <1>2, PacketIs
<1>. HIDE DEF c, f, o
<1>6. w \in Seq(Waiting) /\ Counters(w) = <<c>> /\ Counters(<<>>) = <<>>
  BY <1>1, <1>2 DEF Waiting, Counters
<1>. HIDE DEF w
<1>7. d \in End /\ d.waiting = w /\ d.counter = c /\ d.acks = e.acks /\ d.sentAcks = e.sentAcks
  BY <1>1, <1>6 DEF End, Waiting
<1>8. g \in End /\ g.waiting = w /\ g.counter = c /\ g.acks = f.acks /\ g.sentAcks = f.sentAcks
  BY <1>1, <1>4, <1>6 DEF End, Waiting
<1>9. p \in Packet /\ p.acks = o.acks /\ p.messages = <<c>>
  <2>. DEFINE m == <<c>>
  <2>1. m \in Seq(Nat) /\ p = [o EXCEPT !.messages = m] /\ o \in Packet
    BY <1>1, <1>5 DEF Carries
  <2>. HIDE DEF m, p
  <2>2. p \in Packet /\ p.acks = o.acks /\ p.messages = m
    BY <2>1 DEF Packet
  <2>. QED  BY <2>2 DEF m
<1>. HIDE DEF d, g, p
<1>10. Counters(d.waiting) = Append(Counters(e.waiting), c)
  <2>1. Counters(e.waiting) = <<>> /\ Append(<<>>, c) = <<c>>
    BY <1>2, <1>6
  <2>. QED  BY <1>6, <1>7, <2>1
<1>11. Good(es, network, log', delivered)
  <2>1. Good(ends, network, log, delivered)
    BY DEF Inv
  <2>2. Good(es, network, [log EXCEPT ![x] = Append(@, c)], delivered)
    BY <1>1, <1>7, <1>10, <2>1, GoodAccepts
  <2>. QED  BY <1>3, <2>2
<1>12. es[x] = d /\ ends' = [es EXCEPT ![x] = g]
  BY <1>1, <1>3
<1>. HIDE DEF es
<1>13. /\ 1 \in 0 .. Len(Counters(es[x].waiting))
       /\ p.messages = SubSeq(Counters(es[x].waiting), 1, 1)
  BY <1>1, <1>6, <1>7, <1>9, <1>12
<1>14. /\ Counters(g.waiting) = Counters(es[x].waiting) /\ es[x].counter <= g.counter
       /\ Elements(g.acks) \subseteq Elements(es[x].acks) /\ g.sentAcks = es[x].sentAcks
       /\ Elements(p.acks) \subseteq Elements(es[x].acks)
  BY <1>1, <1>4, <1>5, <1>7, <1>8, <1>9, <1>12 DEF Carries
<1>15. Good([es EXCEPT ![x] = g], [network EXCEPT ![Peer(x)] = Append(@, p)], log', delivered)
  BY <1>8, <1>9, <1>11, <1>13, <1>14, GoodSends
<1>. QED  BY <1>3, <1>12, <1>15 DEF Inv

LEMMA NextGood ==
  ASSUME Inv, NEW x \in Ends, NEW size \in Sizes, EncryptNext(x, size)
  PROVE  Inv'
<1>. DEFINE e == ends[x]
            c == e.counter + 1
            new == [counter |-> c, size |-> size, recent |-> FALSE]
            all == Append(e.waiting, new)
            w == [i \in DOMAIN all |-> [all[i] EXCEPT !.recent = FALSE]]
            d == [e EXCEPT !.counter = c, !.waiting = w]
            es == [ends EXCEPT ![x] = d]
<1>1. /\ e \in End /\ ends \in [Ends -> End] /\ e.counter \in Nat /\ c \in Nat
      /\ c = e.counter + 1 /\ e.waiting \in Seq(Waiting)
  BY InvTypes, EndIs
<1>2. /\ PrepareForSendingService(x, d)
      /\ log' = [log EXCEPT ![x] = Append(@, c)] /\ delivered' = delivered
  BY DEF EncryptNext
<1>3. new \in Waiting /\ new.counter = c
  BY <1>1, SignalingAssumption DEF Waiting
<1>. HIDE DEF c, new
<1>4. /\ all \in Seq(Waiting) /\ Len(e.waiting) \in Nat /\ DOMAIN e.waiting = 1 .. Len(e.waiting)
      /\ DOMAIN all = 1 .. Len(e.waiting) + 1
      /\ \A i \in 1 .. Len(e.waiting) : all[i] = e.waiting[i]
      /\ all[Len(e.waiting) + 1] = new
  BY <1>1, <1>3, AppendIs
<1>. HIDE DEF all
<1>5. w \in Seq(Waiting) /\ DOMAIN w = DOMAIN all
      /\ \A i \in DOMAIN all : w[i].counter = all[i].counter
  <2>1. \A i \in DOMAIN all : w[i] \in Waiting /\ w[i].counter = all[i].counter
    <3>. SUFFICES ASSUME NEW i \in DOMAIN all
                  PROVE w[i] \in Waiting /\ w[i].counter = all[i].counter
      OBVIOUS
    <3>1. all[i] \in Waiting
      BY <1>4
    <3>. QED  BY <3>1 DEF Waiting
  <2>2. w \in [1 .. Len(e.waiting) + 1 -> Waiting]
    BY <1>4, <2>1
  <2>. QED  BY <1>4, <2>1, <2>2
<1>. HIDE DEF w
<1>6. Counters(w) = Append(Counters(e.waiting), c)
  <2>. DEFINE q == Counters(e.waiting)
              n == Len(e.waiting)
              t == Append(q, c)
  <2>1. q \in Seq(Nat) /\ Len(q) = n /\ \A i \in DOMAIN e.waiting : q[i] = e.waiting[i].counter
    BY <1>1, CountersAre
  <2>. HIDE DEF q
  <2>2. /\ t \in Seq(Nat) /\ DOMAIN t = 1 .. Len(q) + 1
        /\ (\A i \in 1 .. Len(q) : t[i] = q[i]) /\ t[Len(q) + 1] = c
    BY <1>1, <2>1, AppendIs
  <2>3. /\ DOMAIN Counters(w) = 1 .. n + 1
        /\ \A i \in 1 .. n + 1 : Counters(w)[i] = w[i].counter
        /\ Counters(w) = [i \in 1 .. n + 1 |-> w[i].counter]
    BY <1>4, <1>5 DEF Counters
  <2>4. \A i \in 1 .. n + 1 : i \in 1 .. n \/ i = n + 1
    BY <1>4
  <2>. HIDE DEF t
  <2>5. \A i \in 1 .. n + 1 : Counters(w)[i] = t[i]
    <3>. SUFFICES ASSUME NEW i \in 1 .. n + 1 PROVE Counters(w)[i] = t[i]
      OBVIOUS
    <3>1. Counters(w)[i] = all[i].counter
      BY <1>4, <1>5, <2>3
    <3>2. CASE i \in 1 .. n
      <4>1. all[i] = e.waiting[i] /\ t[i] = q[i]
        BY <1>4, <2>1, <2>2, <3>2
      <4>2. q[i] = e.waiting[i].counter
        BY <1>4, <2>1, <3>2
      <4>. QED  BY <3>1, <4>1, <4>2
    <3>3. CASE i = n + 1
      BY <1>3, <1>4, <2>1, <2>2, <3>1, <3>3
    <3>. QED  BY <2>4, <3>2, <3>3
  <2>6. t = [i \in 1 .. n + 1 |-> t[i]]
    BY <2>1, <2>2
  <2>7. Counters(w) = t
    BY <2>3, <2>5, <2>6
  <2>. QED  BY <2>7 DEF q, t
<1>7. d \in End /\ d.waiting = w /\ d.counter = c /\ d.acks = e.acks /\ d.sentAcks = e.sentAcks
  BY <1>1, <1>5 DEF End, Waiting
<1>. HIDE DEF d
<1>8. Good(es, network, log', delivered)
  <2>1. Good(ends, network, log, delivered)
    BY DEF Inv
  <2>2. Good(es, network, [log EXCEPT ![x] = Append(@, c)], delivered)
    BY <1>1, <1>6, <1>7, <2>1, GoodAccepts
  <2>. QED  BY <1>2, <2>2
<1>9. es[x] = d /\ ends = [es EXCEPT ![x] = ends[x]]
  BY <1>1
<1>. HIDE DEF es
<1>10. Good(ends', network', log', delivered)
  BY <1>2, <1>7, <1>8, <1>9, PrepareGood
<1>. QED  BY <1>2, <1>10 DEF Inv

\* The tasks of an end: d is the end without the task that runs.
LEMMA TaskGood ==
  ASSUME Inv, NEW x \in Ends, NEW d \in End, d.counter = ends[x].counter,
         d.waiting = ends[x].waiting, d.acks = ends[x].acks, d.sentAcks = ends[x].sentAcks,
         PrepareForSendingService(x, d), log' = log, delivered' = delivered
  PROVE  Inv'
<1>. DEFINE es == [ends EXCEPT ![x] = d]
<1>1. /\ ends \in [Ends -> End] /\ ends[x].counter \in Nat
      /\ Good(ends, network, log, delivered)
  BY InvTypes, EndIs DEF Inv
<1>2. Good(es, network, log, delivered)
  <2>1. ends[x].counter <= d.counter
    BY <1>1
  <2>. QED  BY <1>1, <2>1, GoodWaits
<1>3. es[x] = d /\ ends = [es EXCEPT ![x] = ends[x]]
  BY <1>1
<1>. HIDE DEF es
<1>4. Good(ends', network', log, delivered)
  BY <1>2, <1>3, PrepareGood
<1>. QED  BY <1>4 DEF Inv

LEMMA ServiceGood ==
  ASSUME Inv, NEW x \in Ends, Service(x) \/ ServiceAcks(x) \/ ServiceResend(x)
  PROVE  Inv'
<1>1. ends[x] \in End
  BY InvTypes
<1>2. CASE Service(x)
  <2>. DEFINE n == ends[x].services - 1
              d == [ends[x] EXCEPT !.services = n]
  <2>1. n \in Nat /\ PrepareForSendingService(x, d) /\ log' = log /\ delivered' = delivered
    <3>1. ends[x].services \in Nat /\ ends[x].services > 0
      BY <1>1, <1>2, EndIs DEF Service
    <3>. QED  BY <1>2, <3>1 DEF Service
  <2>2. d = [ends[x] EXCEPT !.services = n]
    OBVIOUS
  <2>. HIDE DEF n, d
  <2>3. /\ d \in End /\ d.counter = ends[x].counter /\ d.waiting = ends[x].waiting
        /\ d.acks = ends[x].acks /\ d.sentAcks = ends[x].sentAcks
    BY <1>1, <2>1, <2>2 DEF End
  <2>. QED  BY <2>1, <2>3, TaskGood
<1>3. CASE ServiceAcks(x)
  <2>. DEFINE d == [ends[x] EXCEPT !.ackTimer = FALSE]
  <2>1. PrepareForSendingService(x, d) /\ log' = log /\ delivered' = delivered
    BY <1>3 DEF ServiceAcks
  <2>2. d = [ends[x] EXCEPT !.ackTimer = FALSE]
    OBVIOUS
  <2>. HIDE DEF d
  <2>3. /\ d \in End /\ d.counter = ends[x].counter /\ d.waiting = ends[x].waiting
        /\ d.acks = ends[x].acks /\ d.sentAcks = ends[x].sentAcks
    BY <1>1, <2>2 DEF End
  <2>. QED  BY <2>1, <2>3, TaskGood
<1>4. CASE ServiceResend(x)
  <2>. DEFINE d == [ends[x] EXCEPT !.resendTimer = FALSE]
  <2>1. PrepareForSendingService(x, d) /\ log' = log /\ delivered' = delivered
    BY <1>4 DEF ServiceResend
  <2>2. d = [ends[x] EXCEPT !.resendTimer = FALSE]
    OBVIOUS
  <2>. HIDE DEF d
  <2>3. /\ d \in End /\ d.counter = ends[x].counter /\ d.waiting = ends[x].waiting
        /\ d.acks = ends[x].acks /\ d.sentAcks = ends[x].sentAcks
    BY <1>1, <2>2 DEF End
  <2>. QED  BY <2>1, <2>3, TaskGood
<1>. QED  BY <1>2, <1>3, <1>4

LEMMA ElapseGood ==
  ASSUME Inv, NEW x \in Ends, NEW i \in DOMAIN ends[x].waiting, Elapse(x, i)
  PROVE  Inv'
<1>. DEFINE e == ends[x]
            w == [e.waiting EXCEPT ![i].recent = FALSE]
            d == [e EXCEPT !.waiting = w]
<1>1. e \in End /\ ends \in [Ends -> End] /\ e.waiting \in Seq(Waiting) /\ e.counter \in Nat
  BY InvTypes, EndIs
<1>2. /\ ends' = [ends EXCEPT ![x] = d]
      /\ network' = network /\ log' = log /\ delivered' = delivered
  BY <1>1 DEF Elapse
<1>3. w \in Seq(Waiting) /\ Counters(w) = Counters(e.waiting)
  <2>. DEFINE v == e.waiting
  <2>1. v \in Seq(Waiting) /\ i \in DOMAIN v /\ v[i] \in Waiting
    BY <1>1
  <2>2. [v[i] EXCEPT !.recent = FALSE] \in Waiting
        /\ [v[i] EXCEPT !.recent = FALSE].counter = v[i].counter
    BY <2>1 DEF Waiting
  <2>3. w = [v EXCEPT ![i] = [v[i] EXCEPT !.recent = FALSE]]
    OBVIOUS
  <2>. HIDE DEF v, w
  <2>4. w \in Seq(Waiting) /\ DOMAIN w = DOMAIN v
        /\ \A j \in DOMAIN v : w[j].counter = v[j].counter
    BY <2>1, <2>2, <2>3
  <2>5. Counters(w) = Counters(v)
    BY <2>4 DEF Counters
  <2>. QED  BY <2>4, <2>5 DEF v
<1>4. d = [e EXCEPT !.waiting = w]
  OBVIOUS
<1>. HIDE DEF w, d
<1>5. d \in End /\ d.waiting = w /\ d.counter = e.counter /\ d.acks = e.acks
      /\ d.sentAcks = e.sentAcks
  BY <1>1, <1>3, <1>4 DEF End, Waiting
<1>6. Good([ends EXCEPT ![x] = d], network, log, delivered)
  <2>1. ends[x].counter <= d.counter /\ Counters(d.waiting) = Counters(ends[x].waiting)
    BY <1>1, <1>3, <1>5
  <2>. QED  BY <1>5, <2>1, GoodWaits DEF Inv
<1>. QED  BY <1>2, <1>6 DEF Inv

\* A packet that is in turn is taken or refused.
LEMMA DecryptGood ==
  ASSUME Inv, NEW x \in Ends, NEW i, InTurn(x, i), Decrypt(x, network[x][i])
  PROVE  Good(ends', network, log, delivered')
<1>. DEFINE e == ends[x]
            p == network[x][i]
            f == ProcessRawPacket(RegisterIncomingCounter(e, p.counter), p)
            news == NotIn(p.messages, e.sentAcks)
<1>1. e \in End /\ p \in Packet /\ i \in DOMAIN network[x] /\ (Reordering \/ i = 1)
      /\ Good(ends, network, log, delivered)
  <2>1. i \in DOMAIN network[x] /\ (Reordering \/ i = 1)
    BY DEF InTurn
  <2>. QED  BY <2>1, InvTypes DEF Inv
<1>2. CASE Registers(e, p.counter)
  <2>1. /\ ends' = [ends EXCEPT ![x] = f]
        /\ delivered' = [delivered EXCEPT ![x] = @ \o news]
    BY <1>2 DEF Decrypt, News
  <2>2. p = network[x][i] /\ news = NotIn(p.messages, ends[x].sentAcks)
    OBVIOUS
  <2>3. Read(f, e, p)
    <3>. HIDE DEF p
    <3>. QED  BY <1>1, ReadIs
  <2>. HIDE DEF f, p, news
  <2>. QED  BY <1>1, <2>1, <2>2, <2>3, GoodTakes DEF Read
<1>3. CASE ~ Registers(e, p.counter)
  BY <1>1, <1>3 DEF Decrypt
<1>. QED  BY <1>2, <1>3

LEMMA NetworkGood ==
  ASSUME Inv, NEW x \in Ends, NEW i \in DOMAIN network[x],
         Receive(x, i) \/ ReceiveAgain(x, i) \/ Lose(x, i)
  PROVE  Inv'
<1>1. CASE Receive(x, i)
  <2>1. Good(ends', network, log, delivered')
    BY <1>1, DecryptGood DEF Receive
  <2>2. Good(ends', [network EXCEPT ![x] = Without(@, i)], log, delivered')
    BY <2>1, GoodLoses
  <2>. QED  BY <1>1, <2>2 DEF Receive, Inv
<1>2. CASE ReceiveAgain(x, i)
  <2>1. Good(ends', network, log, delivered')
    BY <1>2, DecryptGood DEF ReceiveAgain
  <2>. QED  BY <1>2, <2>1 DEF ReceiveAgain, Inv
<1>3. CASE Lose(x, i)
  <2>1. Good(ends, [network EXCEPT ![x] = Without(@, i)], log, delivered)
    BY GoodLoses DEF Inv
  <2>. QED  BY <1>3, <2>1 DEF Lose, Inv
<1>. QED  BY <1>1, <1>2, <1>3

LEMMA StepGood == Inv /\ [Next]_vars => Inv'
<1>. SUFFICES ASSUME Inv, [Next]_vars PROVE Inv'
  OBVIOUS
<1>1. CASE Next
  <2>. SUFFICES ASSUME NEW x \in Ends,
         \/ \E size \in Sizes :
              EncryptTooLarge(x, size) \/ EncryptFirst(x, size) \/ EncryptNext(x, size)
         \/ Service(x) \/ ServiceAcks(x) \/ ServiceResend(x)
         \/ \E i \in DOMAIN ends[x].waiting : Elapse(x, i)
         \/ \E i \in DOMAIN network[x] : Receive(x, i) \/ ReceiveAgain(x, i) \/ Lose(x, i)
                PROVE Inv'
    BY <1>1 DEF Next
  <2>. QED  BY TooLargeGood, FirstGood, NextGood, ServiceGood, ElapseGood, NetworkGood
<1>2. CASE UNCHANGED vars
  BY <1>2 DEF vars, Inv
<1>. QED  BY <1>1, <1>2

\* The invariant holds in every behaviour.
THEOREM Invariance == Spec => []Inv
BY InitGood, StepGood, PTL DEF Spec

-----------------------------------------------------------------------------
(* What the invariant says.                                                 *)

\* The ends, the packets on their way and both histories keep their types.
THEOREM TypeCorrect == Spec => []Typed(ends, network, log, delivered)
<1>1. ASSUME Inv PROVE Typed(ends, network, log, delivered)
  BY <1>1 DEF Inv, Good
<1>. QED  BY <1>1, Invariance, PTL

\* A message that was accepted is kept until it was handed over at the other end, even
\* if packets are lost, repeated or overtake each other.
THEOREM NothingIsForgotten == Spec => []NothingForgotten
<1>1. ASSUME Inv PROVE NothingForgotten
  <2>. SUFFICES ASSUME NEW x \in Ends, NEW c \in Elements(log[x]),
                       c \notin Elements(delivered[Peer(x)])
                PROVE \E i \in DOMAIN ends[x].waiting : ends[x].waiting[i].counter = c
    BY DEF NothingForgotten
  <2>1. c \in Elements(Counters(ends[x].waiting))
    BY <1>1 DEF Inv, Good, WayIn, Way
  <2>. QED  BY <2>1 DEF Elements, Counters
<1>. QED  BY <1>1, Invariance, PTL

\* No message is handed over before one its sender accepted earlier, even then.
THEOREM EarlierComeFirst == Spec => []EarlierFirst
<1>1. ASSUME Inv PROVE EarlierFirst
  <2>. SUFFICES ASSUME NEW x \in Ends, NEW i \in DOMAIN delivered[Peer(x)],
                       NEW c \in Elements(log[x]), c < delivered[Peer(x)][i]
                PROVE \E j \in 1 .. i - 1 : delivered[Peer(x)][j] = c
    BY DEF EarlierFirst
  <2>. QED  BY <1>1 DEF Inv, Good, WayIn, Way
<1>. QED  BY <1>1, Invariance, PTL

\* A message is handed over again only if a later one was handed over before.
THEOREM OnlyOldRepeated == Spec => []OldRepeated
<1>1. ASSUME Inv PROVE OldRepeated
  <2>. SUFFICES ASSUME NEW x \in Ends, NEW i \in DOMAIN delivered[x], NEW j \in DOMAIN delivered[x],
                       i < j, delivered[x][i] = delivered[x][j]
                PROVE \E k \in 1 .. j : delivered[x][k] > delivered[x][j]
    BY DEF OldRepeated
  <2>1. Peer(x) \in Ends /\ Peer(Peer(x)) = x
    BY PeerIs
  <2>2. WayIn(ends, network, log, delivered, Peer(x))
    BY <1>1, <2>1 DEF Inv, Good
  <2>. QED  BY <2>1, <2>2 DEF WayIn, Way
<1>. QED  BY <1>1, Invariance, PTL

\* What was handed over of rising messages, in rising order and nothing before
\* something earlier, are the first of them.
LEMMA FirstOnes ==
  ASSUME NEW L \in Seq(Nat), NEW D \in Seq(Nat), Rising(L), Rising(D),
         Elements(D) \subseteq Elements(L),
         \A i \in DOMAIN D : \A c \in Elements(L) :
           c < D[i] => \E j \in 1 .. i - 1 : D[j] = c
  PROVE  Len(D) \in 0 .. Len(L) /\ D = SubSeq(L, 1, Len(D))
<1>. DEFINE n == Len(D)
            l == Len(L)
            Same(i) == i <= l /\ D[i] = L[i]
            S == {i \in 1 .. n : ~ Same(i)}
<1>1. n \in Nat /\ l \in Nat /\ DOMAIN D = 1 .. n /\ DOMAIN L = 1 .. l
  OBVIOUS
<1>2. (\A i \in 1 .. n : D[i] \in Nat) /\ (\A i \in 1 .. l : L[i] \in Nat)
  OBVIOUS
<1>. HIDE DEF n, l
<1>3. S = {}
  <2>. SUFFICES ASSUME S # {} PROVE FALSE
    OBVIOUS
  <2>1. S \in SUBSET Nat
    BY <1>1
  <2>2. PICK i \in S : \A x \in S : i <= x
    BY <2>1, LeastExists
  <2>3. i \in 1 .. n /\ ~ Same(i) /\ \A h \in 1 .. n : h < i => Same(h)
    BY <1>1, <2>2
  <2>4. D[i] \in Elements(L)
    BY <1>1, <2>3 DEF Elements
  <2>5. PICK j \in 1 .. l : L[j] = D[i]
    BY <1>1, <2>4 DEF Elements
  <2>6. ~ (j < i)
    <3>. SUFFICES ASSUME j < i PROVE FALSE
      OBVIOUS
    <3>1. j \in 1 .. n /\ D[j] = L[j]
      BY <1>1, <2>3
    <3>2. D[j] < D[i]
      BY <1>1, <2>3, <3>1 DEF Rising
    <3>. QED  BY <1>2, <2>3, <2>5, <3>1, <3>2
  <2>7. i < j /\ i \in 1 .. l
    BY <1>1, <2>3, <2>5, <2>6
  <2>8. L[i] < D[i] /\ L[i] \in Elements(L)
    BY <1>1, <2>5, <2>7 DEF Rising, Elements
  <2>9. PICK h \in 1 .. i - 1 : D[h] = L[i]
    BY <1>1, <2>3, <2>8
  <2>10. h \in 1 .. n /\ h < i /\ h \in 1 .. l /\ D[h] = L[h]
    BY <1>1, <2>3, <2>7
  <2>11. L[h] < L[i]
    BY <1>1, <2>7, <2>10 DEF Rising
  <2>. QED  BY <1>2, <2>7, <2>9, <2>10, <2>11
<1>4. \A i \in 1 .. n : i <= l /\ D[i] = L[i]
  BY <1>3
<1>5. n \in 0 .. l
  BY <1>1, <1>4
<1>6. D = SubSeq(L, 1, n)
  <2>1. SubSeq(L, 1, n) \in Seq(Nat) /\ DOMAIN SubSeq(L, 1, n) = 1 .. n
        /\ \A i \in 1 .. n : SubSeq(L, 1, n)[i] = L[i]
    BY <1>5, PrefixIs DEF l
  <2>2. \A i \in 1 .. n : D[i] = SubSeq(L, 1, n)[i]
    BY <1>4, <2>1
  <2>3. D = [i \in 1 .. n |-> D[i]] /\ SubSeq(L, 1, n) = [i \in 1 .. n |-> SubSeq(L, 1, n)[i]]
    BY <1>1, <2>1
  <2>. QED  BY <2>2, <2>3
<1>. QED  BY <1>5, <1>6 DEF n, l

\* What a step does to a direction: the messages accepted and those handed over.
Moves(x) ==
  \/ /\ log'[x] = log[x]
     /\ \E news \in Seq(Nat) : delivered'[Peer(x)] = delivered[Peer(x)] \o news
  \/ /\ delivered'[Peer(x)] = delivered[Peer(x)]
     /\ \E c \in Nat : log'[x] = Append(log[x], c)

LEMMA StepMoves ==
  ASSUME Inv, Next, NEW x \in Ends
  PROVE  Moves(x)
<1>. DEFINE y == Peer(x)
<1>0. y \in Ends
  BY PeerIs
<1>1. /\ log \in [Ends -> Seq(Nat)] /\ delivered \in [Ends -> Seq(Nat)]
      /\ delivered[y] \o <<>> = delivered[y]
  BY <1>0, InvTypes
<1>. HIDE DEF y
<1>2. ASSUME log'[x] = log[x], delivered'[y] = delivered[y] PROVE Moves(x)
  <2>1. <<>> \in Seq(Nat) /\ delivered'[y] = delivered[y] \o <<>>
    BY <1>1, <1>2
  <2>2. \E news \in Seq(Nat) : delivered'[y] = delivered[y] \o news
    BY <2>1
  <2>. QED  BY <1>2, <2>2 DEF Moves, y
<1>3. PICK z \in Ends :
         \/ \E size \in Sizes :
              EncryptTooLarge(z, size) \/ EncryptFirst(z, size) \/ EncryptNext(z, size)
         \/ Service(z) \/ ServiceAcks(z) \/ ServiceResend(z)
         \/ \E i \in DOMAIN ends[z].waiting : Elapse(z, i)
         \/ \E i \in DOMAIN network[z] : Receive(z, i) \/ ReceiveAgain(z, i) \/ Lose(z, i)
  BY DEF Next
<1>4. ASSUME NEW size \in Sizes, EncryptFirst(z, size) \/ EncryptNext(z, size) PROVE Moves(x)
  <2>. DEFINE c == ends[z].counter + 1
  <2>1. c \in Nat
    BY InvTypes, EndIs
  <2>2. log' = [log EXCEPT ![z] = Append(@, c)] /\ delivered' = delivered
    BY <1>4 DEF EncryptFirst, EncryptNext
  <2>. HIDE DEF c
  <2>3. CASE x = z
    BY <1>1, <2>1, <2>2, <2>3 DEF Moves
  <2>4. CASE x # z
    <3>1. log'[x] = log[x] /\ delivered'[y] = delivered[y]
      BY <1>1, <2>2, <2>4
    <3>. QED  BY <1>2, <3>1
  <2>. QED  BY <2>3, <2>4
<1>5. ASSUME NEW i \in DOMAIN network[z], Receive(z, i) \/ ReceiveAgain(z, i) PROVE Moves(x)
  <2>. DEFINE p == network[z][i]
              news == News(ends[z], p)
  <2>1. p.messages \in Seq(Nat)
    <3>1. p \in Packet
      BY InvTypes
    <3>. QED  BY <3>1 DEF Packet
  <2>2. news \in Seq(Nat)
    BY <2>1, NotInIs DEF News
  <2>3. log' = log /\ (delivered' = [delivered EXCEPT ![z] = @ \o news] \/ delivered' = delivered)
    BY <1>5 DEF Receive, ReceiveAgain, Decrypt
  <2>. HIDE DEF p, news
  <2>4. CASE delivered' = delivered
    BY <1>2, <2>3, <2>4
  <2>5. CASE delivered' = [delivered EXCEPT ![z] = @ \o news] /\ z = y
    <3>1. delivered'[y] = delivered[y] \o news
      BY <1>0, <1>1, <2>5
    <3>. QED  BY <2>2, <2>3, <3>1 DEF Moves, y
  <2>6. CASE delivered' = [delivered EXCEPT ![z] = @ \o news] /\ z # y
    <3>1. log'[x] = log[x] /\ delivered'[y] = delivered[y]
      BY <1>0, <1>1, <2>3, <2>6
    <3>. QED  BY <1>2, <3>1
  <2>. QED  BY <2>3, <2>4, <2>5, <2>6
<1>6. ASSUME \/ \E size \in Sizes : EncryptTooLarge(z, size)
             \/ Service(z) \/ ServiceAcks(z) \/ ServiceResend(z)
             \/ \E i \in DOMAIN ends[z].waiting : Elapse(z, i)
             \/ \E i \in DOMAIN network[z] : Lose(z, i)
      PROVE  Moves(x)
  <2>1. log' = log /\ delivered' = delivered
    BY <1>6 DEF EncryptTooLarge, Service, ServiceAcks, ServiceResend, Elapse, Lose
  <2>. QED  BY <1>2, <2>1
<1>. QED  BY <1>3, <1>4, <1>5, <1>6

\* If packets do not overtake each other, what was handed over is the beginning of what
\* was accepted.
LEMMA BeginningHandedOver ==
  ASSUME NEW es, NEW net, NEW lg, NEW dl, Good(es, net, lg, dl), ~ Reordering, NEW x \in Ends
  PROVE  /\ lg[x] \in Seq(Nat) /\ dl[Peer(x)] \in Seq(Nat)
         /\ Len(dl[Peer(x)]) \in 0 .. Len(lg[x])
         /\ dl[Peer(x)] = SubSeq(lg[x], 1, Len(dl[Peer(x)]))
<1>. DEFINE D == dl[Peer(x)]
            L == lg[x]
<1>1. D \in Seq(Nat) /\ L \in Seq(Nat)
  BY PeerIs DEF Good, Typed
<1>2. WayIn(es, net, lg, dl, x) /\ InTurnIn(es, net, dl, x)
  BY DEF Good
<1>3. /\ Rising(L) /\ Rising(D) /\ Elements(D) \subseteq Elements(L)
      /\ \A i \in DOMAIN D : \A c \in Elements(L) :
           c < D[i] => \E j \in 1 .. i - 1 : D[j] = c
  BY <1>2 DEF WayIn, Way, InTurnIn, InTurnWay
<1>. HIDE DEF D, L
<1>4. Len(D) \in 0 .. Len(L) /\ D = SubSeq(L, 1, Len(D))
  BY <1>1, <1>3, FirstOnes
<1>. QED  BY <1>1, <1>4 DEF D, L

\* If packets do not overtake each other, each direction is a channel that hands over
\* every message once and in order, whatever is lost or repeated.
THEOREM ChannelsKeepOrder ==
  ASSUME ~ Reordering
  PROVE  Spec => ChannelsInOrder
<1>1. ASSUME Init, NEW x \in Ends PROVE Channel(x)!Init
  <2>1. Peer(x) \in Ends
    BY PeerIs
  <2>. QED  BY <1>1, <2>1 DEF Init, Channel!Init
<1>2. ASSUME Inv, Inv', [Next]_vars, NEW x \in Ends
      PROVE  [Channel(x)!Next]_(Channel(x)!vars)
  <2>. DEFINE L == log[x]
              D == delivered[Peer(x)]
  <2>1. /\ L \in Seq(Nat) /\ D \in Seq(Nat)
        /\ Len(D) \in 0 .. Len(L) /\ D = SubSeq(L, 1, Len(D))
    BY <1>2, BeginningHandedOver DEF Inv
  <2>2. /\ L' \in Seq(Nat) /\ D' \in Seq(Nat)
        /\ Len(D') \in 0 .. Len(L') /\ D' = SubSeq(L', 1, Len(D'))
    BY <1>2, BeginningHandedOver DEF Inv
  <2>3. CASE UNCHANGED vars
    BY <2>3 DEF vars, Channel!vars
  <2>4. CASE Next
    <3>1. Moves(x)
      BY <1>2, <2>4, StepMoves
    <3>. HIDE DEF L, D
    <3>2. ASSUME L' = L, NEW news \in Seq(Nat), D' = D \o news
          PROVE  (L' = L /\ D' = D) \/ Channel(x)!HandOver
      <4>1. Len(D) \in Nat /\ Len(news) \in Nat /\ Len(D') = Len(D) + Len(news)
        BY <2>1, <3>2
      <4>2. CASE Len(news) = 0
        <5>1. D' = D
          BY <2>1, <3>2, <4>2
        <5>. QED  BY <3>2, <5>1
      <4>3. CASE Len(news) # 0
        <5>1. Len(D') \in Len(D) + 1 .. Len(L) /\ D' = SubSeq(L, 1, Len(D'))
          BY <2>1, <2>2, <3>2, <4>1, <4>3
        <5>2. \E n \in Len(D) + 1 .. Len(L) : D' = SubSeq(L, 1, n)
          BY <5>1
        <5>. QED  BY <3>2, <5>2 DEF Channel!HandOver, L, D
      <4>. QED  BY <4>2, <4>3
    <3>3. ASSUME D' = D, NEW c \in Nat, L' = Append(L, c)
          PROVE  Channel(x)!Send
      <4>1. Len(L') = Len(L) + 1 /\ SubSeq(L', 1, Len(L)) = L
        BY <2>1, <3>3
      <4>. QED  BY <3>3, <4>1 DEF Channel!Send, L, D
    <3>4. (L' = L /\ D' = D) \/ Channel(x)!Next
      BY <3>1, <3>2, <3>3 DEF Moves, Channel!Next, L, D
    <3>. QED  BY <3>4 DEF Channel!vars, L, D
  <2>. QED  BY <1>2, <2>3, <2>4
<1>3. Init => \A x \in Ends : Channel(x)!Init
  BY <1>1
<1>4. Inv /\ Inv' /\ [Next]_vars => [\A x \in Ends : [Channel(x)!Next]_(Channel(x)!vars)]_vars
  BY <1>2
<1>. QED  BY <1>3, <1>4, Invariance, PTL DEF Spec, ChannelsInOrder

=============================================================================
