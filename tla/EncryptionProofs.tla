-------------------------- MODULE EncryptionProofs --------------------------
(***************************************************************************)
(* Proofs about Encryption, for every set of users, delay, limit of epochs *)
(* and window.  One part is about the window of sequence numbers (Seen),   *)
(* the other about the keys in use and the queue of those to forget        *)
(* (Keyed, Kept), which are facts about one user's state e, the moments r  *)
(* at which it applied the blocks, and the time t.                         *)
(***************************************************************************)
EXTENDS Encryption, TLAPS, WellFoundedInduction, FiniteSetTheorems, SequenceTheorems

\* A set of natural numbers that is not empty has a least element.
LEMMA LeastExists ==
  ASSUME NEW S \in SUBSET Nat, S # {}
  PROVE  \E m \in S : \A x \in S : m <= x
<1> DEFINE R == {ss \in Nat \X Nat : ss[1] < ss[2]}
<1>1. IsWellFoundedOn(R, Nat)
  BY NatLessThanWellFounded DEF OpToRel
<1> HIDE DEF R
<1>2. PICK m \in S : \A y \in S : ~(<<y, m>> \in R)
  BY <1>1, WFMin
<1>3. ASSUME NEW x \in S PROVE m <= x
  <2>1. x \in Nat /\ m \in Nat
    OBVIOUS
  <2>2. ~(x < m)
    BY <1>2, <2>1 DEF R
  <2> QED BY <2>1, <2>2
<1>4. QED BY <1>3

-----------------------------------------------------------------------------
(* The window.                                                              *)

\* A set of numbers up to K that is not empty has a greatest element.
LEMMA GreatestExists ==
  ASSUME NEW K \in Nat, NEW A \in SUBSET (0 .. K), A # {}
  PROVE  \E m \in A : \A x \in A : x <= m
<1> DEFINE B == {K - x : x \in A}
<1>1. B \in SUBSET Nat /\ B # {}
  <2>1. \A x \in A : K - x \in Nat
    OBVIOUS
  <2>2. QED BY <2>1
<1>2. PICK b \in B : \A y \in B : b <= y
  <2> HIDE DEF B
  <2>1. QED BY <1>1, LeastExists
<1>3. PICK m \in A : b = K - m
  BY <1>2
<1>4. \A x \in A : x <= m
  <2>1. ASSUME NEW x \in A PROVE x <= m
    <3>1. K - x \in B
      OBVIOUS
    <3>2. K - m <= K - x
      BY <1>2, <1>3, <3>1
    <3>3. QED BY <3>2
  <2>2. QED BY <2>1
<1>5. QED BY <1>4

\* The number n is refused by the set of numbers seen.
Refused(seen, n) == ~ CheckNotSeen(seen, n)

\* Recording a number keeps every number refused, and adds the new one, if the
\* sums with Window do not wrap.
LEMMA MarkKeepsRefused ==
  ASSUME NEW K \in Nat, K + Window <= MaxSeqno,
         NEW seen \in SUBSET (1 .. K), NEW n \in 1 .. K, CheckNotSeen(seen, n)
  PROVE  /\ MarkAsSeen(seen, n) \in SUBSET (1 .. K)
         /\ Refused(MarkAsSeen(seen, n), n)
         /\ \A k \in Nat : Refused(seen, k) => Refused(MarkAsSeen(seen, n), k)
<1> DEFINE all == seen \cup {n}
           From(m) == {x \in all : x >= m}
           Stops(m) == /\ Cardinality(From(m)) <= Window
                       /\ ~ (m + Window) % (MaxSeqno + 1) < n
           T == {x \in all : \E m \in all : m <= x /\ Stops(m)}
<1>1. T = MarkAsSeen(seen, n)
  BY DEF MarkAsSeen
<1>2. all \in SUBSET (1 .. K) /\ n \in all
  OBVIOUS
<1>3. PICK top \in all : \A x \in all : x <= top
  <2> HIDE DEF all
  <2>1. all \in SUBSET (0 .. K) /\ all # {}
    BY <1>2
  <2>2. QED BY <2>1, GreatestExists
<1>4. Stops(top)
  <2>1. From(top) = {top}
    <3>1. ASSUME NEW x \in all, x >= top PROVE x = top
      <4>1. x <= top /\ x \in Nat /\ top \in Nat
        BY <1>2, <1>3
      <4>2. QED BY <3>1, <4>1
    <3>2. top >= top
      BY <1>2
    <3> HIDE DEF all
    <3>3. QED BY <3>1, <3>2
  <2>2. Cardinality(From(top)) = 1
    BY <2>1, FS_Singleton
  <2>3. (top + Window) % (MaxSeqno + 1) = top + Window
    <3>1. top \in Nat /\ top <= K /\ Window \in Nat /\ MaxSeqno \in Nat
      BY <1>2, EncryptionAssumption
    <3>2. 0 <= top + Window /\ top + Window < MaxSeqno + 1
      BY <3>1
    <3> HIDE DEF T, all
    <3>3. QED BY <3>1, <3>2
  <2>4. n <= top /\ n \in Nat /\ top \in Nat
    BY <1>2, <1>3
  <2>5. Window \in Nat \ {0}
    BY EncryptionAssumption
  <2> HIDE DEF T, all, From
  <2>6. QED BY <2>2, <2>3, <2>4, <2>5
<1>5. top \in T
  <2> HIDE DEF Stops
  <2>1. top <= top
    BY <1>2
  <2>2. QED BY <1>4, <2>1
<1>6. T \in SUBSET all
  OBVIOUS
<1>7. \A x \in all : x \in T \/ \A y \in T : x < y
  <2> HIDE DEF Stops
  <2>1. SUFFICES ASSUME NEW x \in all, x \notin T, NEW y \in T PROVE x < y
    OBVIOUS
  <2>2. PICK m \in all : m <= y /\ Stops(m)
    OBVIOUS
  <2>3. ~ m <= x
    BY <2>1, <2>2
  <2>4. x \in Nat /\ y \in Nat /\ m \in Nat
    BY <1>2
  <2> HIDE DEF T, all
  <2>5. QED BY <2>2, <2>3, <2>4
<1> HIDE DEF T, Stops, From
<1>8. \A k : Refused(T, k) <=> (k \in T \/ \A x \in T : ~ x < k)
  BY <1>5 DEF Refused, CheckNotSeen
<1>9. \A k \in all : Refused(T, k)
  <2>1. ASSUME NEW k \in all, k \notin T, NEW x \in T PROVE ~ x < k
    <3>1. k < x /\ k \in Nat /\ x \in Nat
      BY <1>2, <1>6, <1>7, <2>1
    <3>2. QED BY <3>1
  <2>2. QED BY <1>8, <2>1
<1>10. ASSUME NEW k \in Nat, Refused(seen, k) PROVE Refused(T, k)
  <2>1. seen # {} /\ (k \in seen \/ \A x \in seen : ~ x < k)
    BY <1>10 DEF Refused, CheckNotSeen
  <2>2. CASE k \in seen
    BY <1>9, <2>2
  <2>3. CASE \A x \in seen : ~ x < k
    <3>1. PICK z \in seen : z < n
      BY <2>1 DEF CheckNotSeen
    <3>2. z \in Nat /\ n \in Nat
      OBVIOUS
    <3>3. ~ n < k
      <4>1. ~ z < k
        BY <2>3, <3>1
      <4>2. QED BY <3>1, <3>2, <4>1
    <3>4. \A x \in T : ~ x < k
      BY <1>6, <2>3, <3>3
    <3>5. QED BY <1>8, <3>4
  <2>4. QED BY <2>1, <2>2, <2>3
<1>11. QED BY <1>1, <1>2, <1>6, <1>9, <1>10

-----------------------------------------------------------------------------
(* The queue.                                                               *)

\* The fields of an encryption state have their types.
LEMMA EncryptionFields ==
  ASSUME NEW e \in EncryptionState
  PROVE  /\ e.height \in Nat /\ e.failed \in BOOLEAN
         /\ e.epochs \in SUBSET Nat
         /\ e.forget \in Seq([at : Nat, epoch : Int])
         /\ e.seqno \in Nat
         /\ e.seen \in [Users -> SUBSET Nat]
BY DEF EncryptionState

\* What is in the queue.
LEMMA QueueElements ==
  ASSUME NEW e \in EncryptionState
  PROVE  \A i \in 1 .. Len(e.forget) : e.forget[i] \in [at : Nat, epoch : Int]
<1> DEFINE X == [at : Nat, epoch : Int]
<1>1. e.forget \in Seq(X)
  BY EncryptionFields
<1> HIDE DEF X
<1>2. \A i \in 1 .. Len(e.forget) : e.forget[i] \in X
  BY <1>1
<1>3. QED BY <1>2 DEF X

\* Sync takes the longest run of due entries off the front of the queue.
LEMMA SyncFacts ==
  ASSUME NEW e \in EncryptionState
  PROVE  \E n \in 0 .. Len(e.forget) :
           /\ Sync(e) \in EncryptionState
           /\ Sync(e).epochs = e.epochs \ Queued(e, n)
           /\ Sync(e).forget = SubSeq(e.forget, n + 1, Len(e.forget))
           /\ Sync(e).height = e.height /\ Sync(e).failed = e.failed
           /\ Sync(e).seqno = e.seqno /\ Sync(e).seen = e.seen
           /\ \A i \in 1 .. n : Due(e, i)
           /\ n < Len(e.forget) => ~ Due(e, n + 1)
<1> DEFINE L == Len(e.forget)
           out == {i \in DOMAIN e.forget : \A j \in 1 .. i : Due(e, j)}
<1>1. L \in Nat /\ DOMAIN e.forget = 1 .. L
  BY EncryptionFields
<1>2. PICK n \in 0 .. L : /\ \A i \in 1 .. n : Due(e, i)
                          /\ n < L => ~ Due(e, n + 1)
  <2> DEFINE A == {i \in 1 .. L : ~ Due(e, i)}
  <2>1. CASE A = {}
    <3>1. \A i \in 1 .. L : Due(e, i)
      BY <2>1
    <3>2. L \in 0 .. L
      BY <1>1
    <3> HIDE DEF L
    <3>3. QED BY <1>1, <3>1, <3>2
  <2>2. CASE A # {}
    <3>1. A \in SUBSET Nat
      OBVIOUS
    <3>2. PICK a \in A : \A x \in A : a <= x
      <4> HIDE DEF A
      <4>1. QED BY <2>2, <3>1, LeastExists
    <3>3. a \in 1 .. L /\ ~ Due(e, a)
      BY <3>2
    <3>4. \A i \in 1 .. a - 1 : Due(e, i)
      <4>1. ASSUME NEW i \in 1 .. a - 1, ~ Due(e, i) PROVE FALSE
        <5>1. i \in 1 .. L /\ i < a
          BY <1>1, <3>3
        <5>2. QED BY <3>2, <3>3, <4>1, <5>1
      <4>2. QED BY <4>1
    <3>5. a - 1 \in 0 .. L /\ (a - 1) + 1 = a
      BY <1>1, <3>3
    <3>6. QED BY <3>3, <3>4, <3>5
  <2>3. QED BY <2>1, <2>2
<1>3. out = 1 .. n
  <2>1. ASSUME NEW i \in out PROVE i \in 1 .. n
    <3>1. i \in 1 .. L /\ \A j \in 1 .. i : Due(e, j)
      BY <1>1
    <3>2. CASE i > n
      <4>1. n < L /\ n + 1 \in 1 .. i
        BY <1>1, <3>1, <3>2
      <4>2. QED BY <1>2, <3>1, <4>1
    <3>3. QED BY <1>1, <3>1, <3>2
  <2>2. ASSUME NEW i \in 1 .. n PROVE i \in out
    <3>1. i \in DOMAIN e.forget /\ \A j \in 1 .. i : j \in 1 .. n
      BY <1>1
    <3>2. QED BY <1>2, <3>1
  <2>3. QED BY <2>1, <2>2
<1>4. Cardinality(out) = n
  <2>1. Cardinality(1 .. n) = n
    BY <1>1, FS_Interval
  <2>2. QED BY <1>3, <2>1
<1> HIDE DEF out
<1>5. Sync(e) = [e EXCEPT !.epochs = @ \ Queued(e, n),
                          !.forget = SubSeq(@, n + 1, Len(@))]
  BY <1>4 DEF Sync, out
<1>6. SubSeq(e.forget, n + 1, L) \in Seq([at : Nat, epoch : Int])
  <2>1. \A i \in n + 1 .. L : e.forget[i] \in [at : Nat, epoch : Int]
    <3>1. \A i \in n + 1 .. L : i \in 1 .. L
      BY <1>1
    <3>2. QED BY <3>1, QueueElements
  <2>2. n + 1 \in Int /\ L \in Int
    BY <1>1
  <2> HIDE DEF L
  <2>3. QED BY <2>1, <2>2, SubSeqProperties
<1>7. e.epochs \ Queued(e, n) \in SUBSET Nat
  BY EncryptionFields
<1>8. /\ Sync(e) \in EncryptionState
      /\ Sync(e).epochs = e.epochs \ Queued(e, n)
      /\ Sync(e).forget = SubSeq(e.forget, n + 1, L)
      /\ Sync(e).height = e.height /\ Sync(e).failed = e.failed
      /\ Sync(e).seqno = e.seqno /\ Sync(e).seen = e.seen
  BY <1>5, <1>6, <1>7 DEF EncryptionState
<1>9. QED BY <1>2, <1>8

-----------------------------------------------------------------------------
(* The keys of one user.                                                    *)

\* When a user applied each block: at the latest now, and none above the top.
Moments(r, top, t) ==
  /\ r \in [1 .. MaxHeight -> Nat]
  /\ top \in 0 .. MaxHeight
  /\ t \in Nat \ {0}
  /\ \A h \in 1 .. MaxHeight : r[h] <= t /\ (r[h] > 0 => h <= top)

\* The queue holds, in order, epochs that were superseded Delay before their
\* deadline; every epoch in use is the top one or in the queue.
Keyed(e, top, r) ==
  /\ e \in EncryptionState
  /\ \A i \in 1 .. Len(e.forget) :
       LET q == e.forget[i]
       IN  /\ q.epoch >= 0 /\ q.epoch < top
           /\ r[q.epoch + 1] > 0
           /\ q.at = r[q.epoch + 1] + Delay
  /\ \A i, j \in 1 .. Len(e.forget) : i < j =>
       /\ e.forget[i].epoch < e.forget[j].epoch
       /\ e.forget[i].at <= e.forget[j].at
  /\ \A h \in e.epochs :
       /\ h \in 1 .. top
       /\ r[h] > 0
       /\ h = top \/ \E i \in 1 .. Len(e.forget) : e.forget[i].epoch = h

\* Of the epochs up to low, those of the last MaxEpochs blocks that were not
\* superseded Delay ago are in use.
Kept(e, top, low, r, t) ==
  \A h \in 1 .. low :
    /\ r[h] > 0
    /\ top < h + MaxEpochs
    /\ h < top => t < r[h + 1] + Delay
    => h \in e.epochs

\* Sync changes none of this, and afterwards no epoch in use is overdue.
LEMMA SyncKeyed ==
  ASSUME NEW e, NEW top, NEW r, NEW low \in 0 .. top,
         Moments(r, top, now), Keyed(e, top, r), Kept(e, top, low, r, now)
  PROVE  /\ Keyed(Sync(e), top, r)
         /\ Kept(Sync(e), top, low, r, now)
         /\ Sync(e).epochs \subseteq e.epochs
         /\ top \in e.epochs => top \in Sync(e).epochs
         /\ \A h \in Sync(e).epochs : h # top => now < r[h + 1] + Delay
         /\ Cardinality(Sync(e).epochs) <= MaxEpochs
<1> DEFINE s == Sync(e)
           L == Len(e.forget)
<1>0. /\ e \in EncryptionState /\ L \in Nat /\ top \in Nat /\ low \in Nat
      /\ now \in Nat /\ Delay \in Nat /\ MaxEpochs \in Nat \ {0} /\ MaxHeight \in Nat
      /\ top <= MaxHeight
      /\ r \in [1 .. MaxHeight -> Nat]
  BY EncryptionFields, EncryptionAssumption DEF Keyed, Moments
<1>1. PICK n \in 0 .. L :
        /\ s \in EncryptionState
        /\ s.epochs = e.epochs \ Queued(e, n)
        /\ s.forget = SubSeq(e.forget, n + 1, L)
        /\ \A i \in 1 .. n : Due(e, i)
        /\ n < L => ~ Due(e, n + 1)
  BY <1>0, SyncFacts
<1>2. \A i \in 1 .. L : e.forget[i] \in [at : Nat, epoch : Int]
  BY <1>0, QueueElements
<1>3. /\ Len(s.forget) = L - n
      /\ \A i \in 1 .. L - n : s.forget[i] = e.forget[n + i]
  <2>1. \A i \in n + 1 .. L : e.forget[i] \in [at : Nat, epoch : Int]
    BY <1>0, <1>2
  <2>2. n + 1 \in Int /\ L \in Int
    BY <1>0
  <2> HIDE DEF s, L
  <2>3. /\ Len(SubSeq(e.forget, n + 1, L)) = IF n + 1 <= L THEN L - (n + 1) + 1 ELSE 0
        /\ \A i \in 1 .. L - (n + 1) + 1 :
             SubSeq(e.forget, n + 1, L)[i] = e.forget[n + 1 + i - 1]
    BY <2>1, <2>2, SubSeqProperties
  <2>4. /\ (IF n + 1 <= L THEN L - (n + 1) + 1 ELSE 0) = L - n
        /\ L - (n + 1) + 1 = L - n
        /\ \A i \in 1 .. L - n : n + 1 + i - 1 = n + i
    BY <1>0
  <2>5. Len(s.forget) = L - n
    BY <1>1, <2>3, <2>4
  <2>6. ASSUME NEW i \in 1 .. L - n
        PROVE  s.forget[i] = e.forget[n + i]
    <3>1. SubSeq(e.forget, n + 1, L)[i] = e.forget[n + 1 + i - 1]
      BY <2>3, <2>4
    <3>2. n + 1 + i - 1 = n + i
      BY <2>4
    <3>3. QED BY <1>1, <3>1, <3>2
  <2>7. QED BY <2>5, <2>6
<1> HIDE DEF s, L
<1>4. \A h \in s.epochs : h # top =>
        \E i \in n + 1 .. L : e.forget[i].epoch = h
  <2> SUFFICES ASSUME NEW h \in s.epochs, h # top
               PROVE  \E i \in n + 1 .. L : e.forget[i].epoch = h
    OBVIOUS
  <2>1. PICK i \in 1 .. L : e.forget[i].epoch = h
    BY <1>1 DEF Keyed, L
  <2>2. ~ i <= n
    BY <1>1, <2>1 DEF Queued
  <2>3. QED BY <1>0, <2>1, <2>2
<1>5. Keyed(s, top, r)
  <2>1. \A i \in 1 .. Len(s.forget) :
          n + i \in 1 .. L /\ s.forget[i] = e.forget[n + i]
    BY <1>0, <1>3
  <2>2. \A i \in 1 .. Len(s.forget) :
          LET q == s.forget[i]
          IN  /\ q.epoch >= 0 /\ q.epoch < top
              /\ r[q.epoch + 1] > 0
              /\ q.at = r[q.epoch + 1] + Delay
    BY <2>1 DEF Keyed, L
  <2>3. \A i, j \in 1 .. Len(s.forget) : i < j =>
          /\ s.forget[i].epoch < s.forget[j].epoch
          /\ s.forget[i].at <= s.forget[j].at
    <3> SUFFICES ASSUME NEW i \in 1 .. Len(s.forget), NEW j \in 1 .. Len(s.forget), i < j
                 PROVE  /\ s.forget[i].epoch < s.forget[j].epoch
                        /\ s.forget[i].at <= s.forget[j].at
      OBVIOUS
    <3>1. n + i \in 1 .. L /\ n + j \in 1 .. L /\ n + i < n + j
      BY <1>0, <2>1
    <3>2. QED BY <2>1, <3>1 DEF Keyed, L
  <2>4. \A h \in s.epochs :
          /\ h \in 1 .. top
          /\ r[h] > 0
          /\ h = top \/ \E i \in 1 .. Len(s.forget) : s.forget[i].epoch = h
    <3> SUFFICES ASSUME NEW h \in s.epochs, h # top
                 PROVE  \E i \in 1 .. Len(s.forget) : s.forget[i].epoch = h
      BY <1>1 DEF Keyed
    <3>1. PICK i \in n + 1 .. L : e.forget[i].epoch = h
      BY <1>4
    <3>2. i - n \in 1 .. Len(s.forget) /\ n + (i - n) = i
      BY <1>0, <1>3, <3>1
    <3>3. s.forget[i - n] = e.forget[i]
      BY <2>1, <3>2
    <3>4. QED BY <3>1, <3>2, <3>3
  <2>5. QED BY <1>1, <2>2, <2>3, <2>4 DEF Keyed
<1>6. Kept(s, top, low, r, now)
  <2> SUFFICES ASSUME NEW h \in 1 .. low, r[h] > 0, top < h + MaxEpochs,
                      h < top => now < r[h + 1] + Delay
               PROVE  h \in s.epochs
    BY DEF Kept
  <2>1. h \in e.epochs
    BY DEF Kept
  <2>2. SUFFICES ASSUME h \in Queued(e, n) PROVE FALSE
    BY <1>1, <2>1
  <2>3. PICK i \in 1 .. n : e.forget[i].epoch = h
    BY <2>2 DEF Queued
  <2>4. i \in 1 .. L /\ Due(e, i)
    BY <1>0, <1>1, <2>3
  <2>5. h < top /\ e.forget[i].at = r[h + 1] + Delay
    BY <2>3, <2>4 DEF Keyed, L
  <2>6. ~ e.forget[i].at <= now
    <3>1. h + 1 \in 1 .. MaxHeight /\ r[h + 1] \in Nat
      BY <1>0, <2>5
    <3>2. QED BY <1>0, <2>5, <3>1
  <2> DEFINE rest == e.epochs \ Queued(e, i - 1)
  <2>7. Cardinality(rest) > MaxEpochs
    BY <2>4, <2>6 DEF Due
  <2>8. rest \in SUBSET (h .. top)
    <3> SUFFICES ASSUME NEW g \in rest PROVE g \in h .. top
      OBVIOUS
    <3>1. g \in 1 .. top
      BY DEF Keyed
    <3>2. CASE g = top
      BY <1>0, <2>5, <3>2
    <3>3. CASE g # top
      <4>1. PICK k \in 1 .. L : e.forget[k].epoch = g
        BY <3>3 DEF Keyed, L
      <4>2. ~ k <= i - 1
        BY <1>0, <4>1 DEF Queued
      <4>3. k = i \/ i < k
        BY <1>0, <2>4, <4>2
      <4>4. h <= g
        <5>1. CASE k = i
          BY <2>3, <4>1, <5>1
        <5>2. CASE i < k
          <6>1. e.forget[i].epoch < e.forget[k].epoch
            BY <2>4, <5>2 DEF Keyed, L
          <6>2. g \in Int /\ h \in Int
            BY <1>0, <3>1
          <6>3. QED BY <2>3, <4>1, <6>1, <6>2
        <5>3. QED BY <4>3, <5>1, <5>2
      <4>5. QED BY <1>0, <3>1, <4>4
    <3>4. QED BY <3>2, <3>3
  <2> HIDE DEF rest
  <2>9. Cardinality(rest) <= top - h + 1 /\ Cardinality(rest) \in Nat
    <3>1. h \in Int /\ top \in Int /\ ~ h > top
      BY <1>0, <2>5
    <3>2. IsFiniteSet(h .. top) /\ Cardinality(h .. top) = top - h + 1
      BY <3>1, FS_Interval
    <3>3. QED BY <2>8, <3>2, FS_Subset, FS_CardinalityType
  <2>10. QED BY <1>0, <2>7, <2>9
<1>7. \A h \in s.epochs : h # top => now < r[h + 1] + Delay
  <2> SUFFICES ASSUME NEW h \in s.epochs, h # top PROVE now < r[h + 1] + Delay
    OBVIOUS
  <2>1. PICK i \in n + 1 .. L : e.forget[i].epoch = h
    BY <1>4
  <2>2. n < L /\ n + 1 \in 1 .. L /\ i \in 1 .. L
    BY <1>0, <2>1
  <2>3. ~ e.forget[n + 1].at <= now
    BY <1>1, <2>2 DEF Due
  <2>4. e.forget[n + 1].at <= e.forget[i].at
    <3>1. CASE i = n + 1
      BY <1>0, <1>2, <2>2, <3>1
    <3>2. CASE n + 1 < i
      BY <2>2, <3>2 DEF Keyed, L
    <3>3. QED BY <1>0, <2>1, <3>1, <3>2
  <2>5. e.forget[i].at = r[h + 1] + Delay
    BY <2>1, <2>2 DEF Keyed, L
  <2>6. e.forget[i].at \in Nat /\ e.forget[n + 1].at \in Nat
    BY <1>2, <2>2
  <2>7. now < e.forget[i].at
    <3>1. \A a, b \in Nat : ~ a <= now /\ a <= b => now < b
      BY <1>0
    <3>2. QED BY <2>3, <2>4, <2>6, <3>1
  <2>8. QED BY <2>5, <2>7
<1>8. top \in e.epochs => top \in s.epochs
  <2>1. \A i \in 1 .. n : e.forget[i].epoch # top
    <3> SUFFICES ASSUME NEW i \in 1 .. n PROVE e.forget[i].epoch # top
      OBVIOUS
    <3>1. i \in 1 .. L
      BY <1>0
    <3>2. e.forget[i].epoch < top /\ e.forget[i].epoch \in Int
      BY <1>2, <3>1 DEF Keyed, L
    <3>3. QED BY <1>0, <3>2
  <2>2. QED BY <1>1, <2>1 DEF Queued
<1>9. Cardinality(s.epochs) <= MaxEpochs
  <2>1. CASE n < L
    <3>1. ~ Cardinality(e.epochs \ Queued(e, n)) > MaxEpochs
      <4>1. (n + 1) - 1 = n
        BY <1>0
      <4>2. QED BY <1>1, <2>1, <4>1 DEF Due
    <3>2. s.epochs \in SUBSET (1 .. top)
      BY <1>5 DEF Keyed
    <3>3. Cardinality(s.epochs) \in Nat
      <4>1. 1 \in Int /\ top \in Int
        BY <1>0
      <4>2. QED BY <3>2, <4>1, FS_Interval, FS_Subset, FS_CardinalityType
    <3>4. QED BY <1>0, <1>1, <3>1, <3>3
  <2>2. CASE ~ n < L
    <3>1. n = L
      BY <1>0, <2>2
    <3>2. s.epochs \in SUBSET {top}
      BY <1>0, <1>4, <3>1
    <3>3. Cardinality(s.epochs) <= 1 /\ Cardinality(s.epochs) \in Nat
      <4>1. IsFiniteSet({top}) /\ Cardinality({top}) = 1
        BY FS_Singleton
      <4>2. IsFiniteSet(s.epochs) /\ Cardinality(s.epochs) <= Cardinality({top})
        BY <3>2, <4>1, FS_Subset
      <4>3. Cardinality(s.epochs) \in Nat
        BY <4>2, FS_CardinalityType
      <4>4. QED BY <4>1, <4>2, <4>3
    <3>4. QED BY <1>0, <3>3
  <2>3. QED BY <2>1, <2>2
<1>10. s.epochs \subseteq e.epochs
  BY <1>1
<1>11. QED BY <1>5, <1>6, <1>7, <1>8, <1>9, <1>10 DEF s

-----------------------------------------------------------------------------
(* The invariant of the keys of the user u, with the groups G.              *)

KeysInv(u, e, r, t, G) ==
  /\ Moments(r, e.height, t)
  /\ Keyed(e, e.height, r)
  /\ ~ e.failed => /\ Kept(e, e.height, e.height, r, t)
                   /\ e.height > 0 => e.height \in e.epochs
  /\ e.height <= Len(G)
  /\ \A h \in e.epochs : u \in G[h]

\* Sync preserves it and touches nothing else.
LEMMA SyncKeysInv ==
  ASSUME NEW u, NEW e, NEW r, NEW G, KeysInv(u, e, r, now, G)
  PROVE  /\ KeysInv(u, Sync(e), r, now, G)
         /\ e \in EncryptionState /\ Sync(e) \in EncryptionState
         /\ Sync(e).height = e.height /\ Sync(e).failed = e.failed
         /\ Sync(e).seqno = e.seqno /\ Sync(e).seen = e.seen
         /\ \A h \in Sync(e).epochs : h # e.height => now < r[h + 1] + Delay
         /\ Cardinality(Sync(e).epochs) <= MaxEpochs
<1> DEFINE s == Sync(e)
<1>1. /\ e \in EncryptionState /\ s \in EncryptionState
      /\ s.height = e.height /\ s.failed = e.failed
      /\ s.seqno = e.seqno /\ s.seen = e.seen
  BY SyncFacts DEF KeysInv, Keyed
<1>2. Moments(r, e.height, now) /\ Keyed(e, e.height, r) /\ e.height \in Nat
  BY <1>1, EncryptionFields DEF KeysInv
<1>3. /\ Keyed(s, e.height, r)
      /\ s.epochs \subseteq e.epochs
      /\ e.height \in e.epochs => e.height \in s.epochs
      /\ \A h \in s.epochs : h # e.height => now < r[h + 1] + Delay
      /\ Cardinality(s.epochs) <= MaxEpochs
  <2>1. 0 \in 0 .. e.height /\ Kept(e, e.height, 0, r, now)
    BY <1>2 DEF Kept
  <2> HIDE DEF s
  <2>2. QED BY <1>2, <2>1, SyncKeyed DEF s
<1>4. Kept(e, e.height, e.height, r, now) => Kept(s, e.height, e.height, r, now)
  <2>1. e.height \in 0 .. e.height
    BY <1>2
  <2> HIDE DEF s
  <2>2. QED BY <1>2, <2>1, SyncKeyed DEF s
<1> HIDE DEF s
<1>5. KeysInv(u, s, r, now, G)
  BY <1>1, <1>2, <1>3, <1>4 DEF KeysInv
<1>6. QED BY <1>1, <1>3, <1>5 DEF s

\* It is about the height, the failure, the epochs and the queue only.
LEMMA SameKeysInv ==
  ASSUME NEW u, NEW e, NEW r, NEW t, NEW G, KeysInv(u, e, r, t, G),
         NEW d \in EncryptionState,
         d.height = e.height, d.failed = e.failed, d.epochs = e.epochs,
         d.forget = e.forget
  PROVE  KeysInv(u, d, r, t, G)
BY DEF KeysInv, Keyed, Kept

\* Time passes.
LEMMA LaterKeysInv ==
  ASSUME NEW u, NEW e, NEW r, NEW t, NEW G, KeysInv(u, e, r, t, G)
  PROVE  KeysInv(u, e, r, t + 1, G)
<1>1. /\ r \in [1 .. MaxHeight -> Nat] /\ t \in Nat \ {0} /\ Delay \in Nat
      /\ e.height \in 0 .. MaxHeight /\ MaxHeight \in Nat
  BY EncryptionAssumption DEF KeysInv, Moments
<1>2. Moments(r, e.height, t + 1)
  <2>1. \A h \in 1 .. MaxHeight : r[h] <= t + 1
    <3> SUFFICES ASSUME NEW h \in 1 .. MaxHeight PROVE r[h] <= t + 1
      OBVIOUS
    <3>1. r[h] <= t /\ r[h] \in Nat
      BY <1>1 DEF KeysInv, Moments
    <3>2. QED BY <1>1, <3>1
  <2>2. QED BY <1>1, <2>1 DEF KeysInv, Moments
<1>3. Kept(e, e.height, e.height, r, t) => Kept(e, e.height, e.height, r, t + 1)
  <2> SUFFICES ASSUME Kept(e, e.height, e.height, r, t),
                      NEW h \in 1 .. e.height, r[h] > 0, e.height < h + MaxEpochs,
                      h < e.height => t + 1 < r[h + 1] + Delay
               PROVE  h \in e.epochs
    BY DEF Kept
  <2>1. h < e.height => t < r[h + 1] + Delay
    <3>1. h < e.height => r[h + 1] \in Nat
      BY <1>1
    <3>2. QED BY <1>1, <3>1
  <2>2. QED BY <2>1 DEF Kept
<1>4. QED BY <1>2, <1>3 DEF KeysInv

\* More main blocks.
LEMMA MoreBlocksKeysInv ==
  ASSUME NEW u, NEW e, NEW r, NEW t, NEW G \in Seq(SUBSET Users), KeysInv(u, e, r, t, G),
         NEW g \in SUBSET Users
  PROVE  KeysInv(u, e, r, t, Append(G, g))
<1>1. /\ e.height <= Len(G) /\ e.height \in Nat /\ Len(G) \in Nat
      /\ \A h \in e.epochs : h \in 1 .. e.height
  BY EncryptionFields DEF KeysInv, Keyed
<1>2. \A h \in e.epochs : Append(G, g)[h] = G[h]
  <2>1. \A h \in e.epochs : h \in 1 .. Len(G)
    BY <1>1
  <2>2. QED BY <2>1
<1>3. e.height <= Len(Append(G, g))
  <2>1. Len(Append(G, g)) = Len(G) + 1
    OBVIOUS
  <2>2. QED BY <1>1, <2>1
<1>4. QED BY <1>2, <1>3 DEF KeysInv

\* The state of a user after the block at height h with the groups G.
AfterBlock(u, e, h, G) ==
  LET d == [ForgetSharedKey(e, h - 1) EXCEPT !.height = h]
  IN  IF u \in G[h] THEN AddSharedKey(d, h) ELSE [d EXCEPT !.failed = TRUE]

\* A user applies a block: the epoch before it enters the queue, its own is used.
LEMMA UpdateKeysInv ==
  ASSUME NEW u, NEW e, NEW r, NEW G, KeysInv(u, e, r, now, G), ~ e.failed,
         NEW h \in 1 .. MaxHeight, h <= Len(G),
         e.height = 0 \/ h = e.height + 1
  PROVE  /\ KeysInv(u, AfterBlock(u, e, h, G), [r EXCEPT ![h] = now], now, G)
         /\ AfterBlock(u, e, h, G) \in EncryptionState
         /\ AfterBlock(u, e, h, G).seqno = e.seqno
         /\ AfterBlock(u, e, h, G).seen = e.seen
         /\ AfterBlock(u, e, h, G).height = h
<1> DEFINE s == Sync(e)
           H == e.height
           q == [at |-> now + Delay, epoch |-> h - 1]
           d == [ForgetSharedKey(e, h - 1) EXCEPT !.height = h]
           rr == [r EXCEPT ![h] = now]
           a == Sync(d)
           L == Len(s.forget)
<1>1. /\ KeysInv(u, s, r, now, G)
      /\ e \in EncryptionState /\ s \in EncryptionState
      /\ s.height = H /\ s.failed = e.failed
      /\ s.seqno = e.seqno /\ s.seen = e.seen
  BY SyncKeysInv
<1>2. /\ H \in Nat /\ h \in Nat /\ now \in Nat \ {0} /\ Delay \in Nat
      /\ MaxHeight \in Nat /\ MaxEpochs \in Nat
      /\ L \in Nat
      /\ H <= MaxHeight /\ H < h /\ h <= MaxHeight
      /\ H = 0 \/ h = H + 1
  BY <1>1, EncryptionFields, EncryptionAssumption DEF KeysInv, Moments
<1>2a. /\ s.forget \in Seq([at : Nat, epoch : Int]) /\ s.epochs \in SUBSET Nat
       /\ r \in [1 .. MaxHeight -> Nat]
  BY <1>1, EncryptionFields DEF KeysInv, Moments
<1>3. q \in [at : Nat, epoch : Int]
  BY <1>2
<1>4. /\ d \in EncryptionState
      /\ d.forget = Append(s.forget, q)
      /\ d.epochs = s.epochs /\ d.height = h /\ d.failed = e.failed
      /\ d.seqno = e.seqno /\ d.seen = e.seen
  <2> HIDE DEF s, q
  <2>1. ForgetSharedKey(e, h - 1) = [s EXCEPT !.forget = Append(@, q)]
    BY DEF ForgetSharedKey, s, q
  <2>2. Append(s.forget, q) \in Seq([at : Nat, epoch : Int])
    BY <1>2a, <1>3
  <2>3. d = [[s EXCEPT !.forget = Append(@, q)] EXCEPT !.height = h]
    BY <2>1
  <2> HIDE DEF d
  <2>4. QED BY <1>1, <1>2, <1>2a, <2>2, <2>3 DEF EncryptionState
<1>5. /\ Len(d.forget) = L + 1
      /\ d.forget[L + 1] = q
      /\ \A i \in 1 .. L : d.forget[i] = s.forget[i]
      /\ q.epoch = h - 1 /\ q.at = now + Delay
  <2> DEFINE X == [at : Nat, epoch : Int]
  <2>1. s.forget \in Seq(X) /\ q \in X
    BY <1>2a, <1>3
  <2>2. q.epoch = h - 1 /\ q.at = now + Delay
    OBVIOUS
  <2> HIDE DEF X, q, s, d
  <2>3. QED BY <1>4, <2>1, <2>2
<1>6. /\ rr \in [1 .. MaxHeight -> Nat] /\ rr[h] = now
      /\ \A k \in 1 .. MaxHeight : k # h => rr[k] = r[k]
  BY <1>2, <1>2a
<1> HIDE DEF s, d, q, rr, a
<1>7. /\ Moments(r, H, now) /\ Keyed(s, H, r) /\ Kept(s, H, H, r, now)
      /\ H > 0 => H \in s.epochs
      /\ \A g \in s.epochs : u \in G[g]
  BY <1>1 DEF KeysInv
<1>8. Moments(rr, h, now)
  <2> SUFFICES ASSUME NEW k \in 1 .. MaxHeight
               PROVE  rr[k] <= now /\ (rr[k] > 0 => k <= h)
    BY <1>2, <1>6 DEF Moments
  <2>1. r[k] <= now /\ (r[k] > 0 => k <= H) /\ r[k] \in Nat
    BY <1>2a, <1>7 DEF Moments
  <2>2. CASE k = h
    BY <1>2, <1>6, <2>2
  <2>3. CASE k # h
    <3>1. rr[k] = r[k]
      BY <1>6, <2>3
    <3>2. QED BY <1>2, <2>1, <3>1
  <2>4. QED BY <2>2, <2>3
<1>9. Keyed(d, h, rr)
  <2>1. \A i \in 1 .. L : /\ s.forget[i].epoch \in Int /\ s.forget[i].at \in Nat
                          /\ s.forget[i].epoch >= 0 /\ s.forget[i].epoch < H
                          /\ r[s.forget[i].epoch + 1] > 0
                          /\ s.forget[i].at = r[s.forget[i].epoch + 1] + Delay
    <3> SUFFICES ASSUME NEW i \in 1 .. L
                 PROVE  /\ s.forget[i].epoch \in Int /\ s.forget[i].at \in Nat
                        /\ s.forget[i].epoch >= 0 /\ s.forget[i].epoch < H
                        /\ r[s.forget[i].epoch + 1] > 0
                        /\ s.forget[i].at = r[s.forget[i].epoch + 1] + Delay
      OBVIOUS
    <3>1. s.forget[i] \in [at : Nat, epoch : Int]
      BY <1>1, QueueElements
    <3>2. QED BY <1>7, <3>1 DEF Keyed
  <2>2. \A i \in 1 .. L : /\ s.forget[i].epoch + 1 \in 1 .. MaxHeight
                          /\ s.forget[i].epoch + 1 # h
    <3>1. \A x \in Int : x >= 0 /\ x < H => x + 1 \in 1 .. MaxHeight /\ x + 1 # h
      BY <1>2
    <3>2. QED BY <2>1, <3>1
  <2>3. \A i \in 1 .. Len(d.forget) :
          /\ d.forget[i].epoch >= 0 /\ d.forget[i].epoch < h
          /\ rr[d.forget[i].epoch + 1] > 0
          /\ d.forget[i].at = rr[d.forget[i].epoch + 1] + Delay
    <3> SUFFICES ASSUME NEW i \in 1 .. L + 1
                 PROVE  /\ d.forget[i].epoch >= 0 /\ d.forget[i].epoch < h
                        /\ rr[d.forget[i].epoch + 1] > 0
                        /\ d.forget[i].at = rr[d.forget[i].epoch + 1] + Delay
      BY <1>5
    <3>1. CASE i = L + 1
      <4>1. d.forget[i].epoch = h - 1 /\ d.forget[i].at = now + Delay
        BY <1>5, <3>1
      <4>2. (h - 1) + 1 = h /\ h - 1 >= 0 /\ h - 1 < h /\ now > 0
        BY <1>2
      <4>3. QED BY <1>6, <4>1, <4>2
    <3>2. CASE i # L + 1
      <4>1. i \in 1 .. L /\ d.forget[i] = s.forget[i]
        BY <1>2, <1>5, <3>2
      <4>2. rr[s.forget[i].epoch + 1] = r[s.forget[i].epoch + 1]
        BY <1>6, <2>2, <4>1
      <4>3. s.forget[i].epoch < h
        <5>1. s.forget[i].epoch \in Int /\ s.forget[i].epoch < H
          BY <2>1, <4>1
        <5>2. QED BY <1>2, <5>1
      <4>4. QED BY <2>1, <4>1, <4>2, <4>3
    <3>3. QED BY <3>1, <3>2
  <2>4. \A i, j \in 1 .. Len(d.forget) : i < j =>
          /\ d.forget[i].epoch < d.forget[j].epoch
          /\ d.forget[i].at <= d.forget[j].at
    <3> SUFFICES ASSUME NEW i \in 1 .. L + 1, NEW j \in 1 .. L + 1, i < j
                 PROVE  /\ d.forget[i].epoch < d.forget[j].epoch
                        /\ d.forget[i].at <= d.forget[j].at
      BY <1>5
    <3>1. i \in 1 .. L /\ d.forget[i] = s.forget[i]
      BY <1>2, <1>5
    <3>2. CASE j = L + 1
      <4>1. H = h - 1
        <5>1. s.forget[i].epoch \in Int /\ 0 <= s.forget[i].epoch /\ s.forget[i].epoch < H
          BY <2>1, <3>1
        <5>2. H # 0
          <6>1. \A x \in Int : 0 <= x /\ x < H => H # 0
            BY <1>2
          <6>2. QED BY <5>1, <6>1
        <5>3. QED BY <1>2, <5>2
      <4>2. r[s.forget[i].epoch + 1] <= now /\ r[s.forget[i].epoch + 1] \in Nat
        BY <1>2, <1>7, <2>2, <3>1 DEF Moments
      <4>3. d.forget[j].epoch = h - 1 /\ d.forget[j].at = now + Delay
        BY <1>5, <3>2
      <4>4. /\ s.forget[i].epoch < H
            /\ s.forget[i].at = r[s.forget[i].epoch + 1] + Delay
        BY <2>1, <3>1
      <4>5. r[s.forget[i].epoch + 1] + Delay <= now + Delay
        BY <1>2, <4>2
      <4>6. QED BY <3>1, <4>1, <4>3, <4>4, <4>5
    <3>3. CASE j # L + 1
      <4>0. j \in 1 .. L
        BY <1>2, <3>3
      <4>1. j \in 1 .. L /\ d.forget[j] = s.forget[j]
        BY <1>5, <4>0
      <4>2. QED BY <1>7, <3>1, <4>1 DEF Keyed, L
    <3>4. QED BY <3>2, <3>3
  <2>5. \A g \in d.epochs :
          /\ g \in 1 .. h
          /\ rr[g] > 0
          /\ g = h \/ \E i \in 1 .. Len(d.forget) : d.forget[i].epoch = g
    <3> SUFFICES ASSUME NEW g \in s.epochs
                 PROVE  /\ g \in 1 .. h
                        /\ rr[g] > 0
                        /\ \E i \in 1 .. L + 1 : d.forget[i].epoch = g
      BY <1>4, <1>5
    <3>1. g \in 1 .. H /\ r[g] > 0
      BY <1>7 DEF Keyed
    <3>2. g \in 1 .. h /\ g \in 1 .. MaxHeight /\ g # h
      BY <1>2, <3>1
    <3>3. CASE g = H
      <4>1. h - 1 = H /\ L + 1 \in 1 .. L + 1
        BY <1>2, <3>1
      <4>2. QED BY <1>5, <1>6, <3>1, <3>2, <3>3, <4>1
    <3>4. CASE g # H
      <4>1. PICK i \in 1 .. L : s.forget[i].epoch = g
        BY <1>7, <3>4 DEF Keyed, L
      <4>2. i \in 1 .. L + 1
        BY <1>2
      <4>3. QED BY <1>5, <1>6, <3>1, <3>2, <4>1, <4>2
    <3>5. QED BY <3>3, <3>4
  <2>6. QED BY <1>4, <2>3, <2>4, <2>5 DEF Keyed
<1>10. Kept(d, h, h - 1, rr, now)
  <2> SUFFICES ASSUME NEW g \in 1 .. h - 1, rr[g] > 0, h < g + MaxEpochs,
                      now < rr[g + 1] + Delay
               PROVE  g \in s.epochs
    <3>1. \A g \in 1 .. h - 1 : g < h
      BY <1>2
    <3>2. QED BY <1>4, <3>1 DEF Kept
  <2>1. g \in 1 .. MaxHeight /\ g # h /\ g < h
    BY <1>2
  <2>2. r[g] > 0 /\ g <= H
    BY <1>6, <1>7, <2>1 DEF Moments
  <2>3. CASE g = H
    BY <1>2, <1>7, <2>1, <2>3
  <2>4. CASE g # H
    <3>1. g \in 1 .. H /\ g < H /\ g + 1 \in 1 .. MaxHeight /\ g + 1 # h
      BY <1>2, <2>1, <2>2, <2>4
    <3>2. now < r[g + 1] + Delay
      BY <1>6, <3>1
    <3>3. H < g + MaxEpochs
      BY <1>2, <2>1
    <3>4. QED BY <1>7, <2>2, <3>1, <3>2, <3>3 DEF Kept
  <2>5. QED BY <2>3, <2>4
<1>11. \A g \in s.epochs : u \in G[g]
  BY <1>7
<1>12. CASE u \notin G[h]
  <2> DEFINE w == [d EXCEPT !.failed = TRUE]
  <2>1. /\ w \in EncryptionState /\ w.failed /\ w.height = h
        /\ w.epochs = d.epochs /\ w.forget = d.forget
        /\ w.seqno = e.seqno /\ w.seen = e.seen
    BY <1>4 DEF EncryptionState
  <2> HIDE DEF w
  <2>2. KeysInv(u, w, rr, now, G)
    BY <1>4, <1>8, <1>9, <1>11, <2>1 DEF KeysInv, Keyed
  <2>3. AfterBlock(u, e, h, G) = w
    BY <1>12 DEF AfterBlock, w, d
  <2>4. QED BY <2>1, <2>2, <2>3 DEF rr
<1>13. CASE u \in G[h]
  <2> DEFINE w == [a EXCEPT !.epochs = @ \cup {h}]
  <2>1. /\ a \in EncryptionState
        /\ a.height = h /\ a.failed = e.failed
        /\ a.seqno = e.seqno /\ a.seen = e.seen
    BY <1>4, SyncFacts DEF a
  <2>2. /\ Keyed(a, h, rr) /\ Kept(a, h, h - 1, rr, now)
        /\ a.epochs \subseteq d.epochs
    <3>1. h - 1 \in 0 .. h
      BY <1>2
    <3>2. QED BY <1>8, <1>9, <1>10, <3>1, SyncKeyed DEF a
  <2>3. /\ w \in EncryptionState /\ w.height = h /\ w.failed = e.failed
        /\ w.epochs = a.epochs \cup {h} /\ w.forget = a.forget
        /\ w.seqno = e.seqno /\ w.seen = e.seen
    BY <1>2, <2>1 DEF EncryptionState
  <2> HIDE DEF w
  <2>4. Keyed(w, h, rr)
    <3>1. h \in 1 .. h /\ rr[h] > 0
      BY <1>2, <1>6
    <3>2. QED BY <2>2, <2>3, <3>1 DEF Keyed
  <2>5. Kept(w, h, h, rr, now)
    <3> SUFFICES ASSUME NEW g \in 1 .. h, rr[g] > 0, h < g + MaxEpochs,
                        g < h => now < rr[g + 1] + Delay, g # h
                 PROVE  g \in a.epochs
      BY <2>3 DEF Kept
    <3>1. g \in 1 .. h - 1
      BY <1>2
    <3>2. QED BY <2>2, <3>1 DEF Kept
  <2>6. \A g \in w.epochs : u \in G[g]
    BY <1>4, <1>11, <1>13, <2>2, <2>3
  <2>7. KeysInv(u, w, rr, now, G)
    BY <1>8, <2>3, <2>4, <2>5, <2>6 DEF KeysInv
  <2>8. AddSharedKey(d, h) = w
    BY DEF AddSharedKey, a, w
  <2>9. AfterBlock(u, e, h, G) = w
    BY <1>13, <2>8 DEF AfterBlock, d
  <2>10. QED BY <2>3, <2>7, <2>9 DEF rr
<1>14. QED BY <1>12, <1>13

-----------------------------------------------------------------------------
(* The invariant.                                                           *)

Types ==
  /\ now \in Nat \ {0}
  /\ groups \in Seq(SUBSET Users)
  /\ Len(groups) <= MaxHeight
  /\ encryption \in [Users -> EncryptionState]
  /\ packets \subseteq Packet
  /\ since \in [Users -> [1 .. MaxHeight -> Nat]]
  /\ opened \in [Users -> SUBSET packets]
  /\ twice \in [Users -> SUBSET packets]

Keys == \A u \in Users : KeysInv(u, encryption[u], since[u], now, groups)

\* The numbers seen are those of packets that were sent and opened.
NumbersInv ==
  \A u, s \in Users :
    /\ encryption[u].seen[s] \subseteq 1 .. encryption[s].seqno
    /\ \A x \in encryption[u].seen[s] :
         \E q \in opened[u] : q.sender = s /\ q.seqno = x

\* What a packet owes to its sender.
Sent(p, e, r, t, G) ==
  /\ p.seqno \in 1 .. e.seqno
  /\ p.sentAt <= t
  /\ Cardinality(p.epochs) <= MaxEpochs
  /\ \A h \in p.epochs :
       /\ h \in 1 .. e.height
       /\ p.sender \in G[h]
       /\ h < MaxHeight /\ r[h + 1] > 0 => p.sentAt < r[h + 1] + Delay

PacketsInv ==
  \A p \in packets : Sent(p, encryption[p.sender], since[p.sender], now, groups)

NoWrap == \A u \in Users : encryption[u].seqno + Window <= MaxSeqno

WindowInv ==
  NoWrap => \A u \in Users :
    /\ twice[u] = {}
    /\ \A p \in opened[u] : Refused(encryption[u].seen[p.sender], p.seqno)

Inv == Types /\ Keys /\ NumbersInv /\ PacketsInv /\ WindowInv

\* Nothing has been sent at first.
LEMMA InitInv == Init => Inv
<1> SUFFICES ASSUME Init PROVE Inv
  OBVIOUS
<1>1. NewEncryption \in EncryptionState
  BY DEF NewEncryption, EncryptionState
<1>2. Types
  BY <1>1, EncryptionAssumption DEF Init, Types
<1>3. Keys
  <2> SUFFICES ASSUME NEW u \in Users
               PROVE  KeysInv(u, NewEncryption, [h \in 1 .. MaxHeight |-> 0], 1, <<>>)
    BY DEF Keys, Init
  <2>1. /\ NewEncryption.height = 0 /\ NewEncryption.epochs = {}
        /\ NewEncryption.forget = <<>> /\ ~ NewEncryption.failed
    BY DEF NewEncryption
  <2>2. Moments([h \in 1 .. MaxHeight |-> 0], 0, 1)
    BY EncryptionAssumption DEF Moments
  <2>3. Keyed(NewEncryption, 0, [h \in 1 .. MaxHeight |-> 0])
    BY <1>1, <2>1 DEF Keyed
  <2>4. Kept(NewEncryption, 0, 0, [h \in 1 .. MaxHeight |-> 0], 1)
    BY DEF Kept
  <2>5. QED BY <2>1, <2>2, <2>3, <2>4 DEF KeysInv
<1>4. NumbersInv /\ PacketsInv /\ WindowInv
  BY DEF Init, NewEncryption, NumbersInv, PacketsInv, WindowInv
<1>5. QED BY <1>2, <1>3, <1>4 DEF Inv

\* Sync, a number more and a change of what is seen keep the keys in order.
LEMMA StepKeysInv ==
  ASSUME Inv, NEW u \in Users, NEW d \in EncryptionState,
         d.height = encryption[u].height, d.failed = encryption[u].failed,
         d.epochs = Sync(encryption[u]).epochs, d.forget = Sync(encryption[u]).forget,
         encryption' = [encryption EXCEPT ![u] = d],
         now' = now, groups' = groups, since' = since
  PROVE  /\ encryption' \in [Users -> EncryptionState]
         /\ \A x \in Users : encryption'[x] = IF x = u THEN d ELSE encryption[x]
         /\ Keys'
<1>1. encryption \in [Users -> EncryptionState]
  BY DEF Inv, Types
<1>2. \A x \in Users : encryption'[x] = IF x = u THEN d ELSE encryption[x]
  BY <1>1
<1>3. KeysInv(u, encryption[u], since[u], now, groups)
  BY DEF Inv, Keys
<1>4. /\ KeysInv(u, Sync(encryption[u]), since[u], now, groups)
      /\ Sync(encryption[u]).height = encryption[u].height
      /\ Sync(encryption[u]).failed = encryption[u].failed
  BY <1>3, SyncKeysInv
<1>5. KeysInv(u, d, since[u], now, groups)
  BY <1>4, SameKeysInv
<1>6. Keys'
  BY <1>2, <1>5 DEF Keys, Inv
<1>7. QED BY <1>1, <1>2, <1>6

\* What Sync leaves of one user's state in a reachable state.
LEMMA SyncOfUser ==
  ASSUME Inv, NEW u \in Users
  PROVE  LET e == encryption[u]
             s == Sync(e)
         IN  /\ e \in EncryptionState /\ s \in EncryptionState
             /\ s.height = e.height /\ s.failed = e.failed
             /\ s.seqno = e.seqno /\ s.seen = e.seen
             /\ Moments(since[u], e.height, now)
             /\ Keyed(s, e.height, since[u])
             /\ ~ e.failed => Kept(s, e.height, e.height, since[u], now)
             /\ ~ e.failed /\ e.height > 0 => e.height \in s.epochs
             /\ \A h \in s.epochs : h # e.height => now < since[u][h + 1] + Delay
             /\ \A h \in s.epochs : u \in groups[h]
             /\ Cardinality(s.epochs) <= MaxEpochs
<1>1. KeysInv(u, encryption[u], since[u], now, groups)
  BY DEF Inv, Keys
<1> DEFINE e == encryption[u]
           s == Sync(e)
<1>2. /\ KeysInv(u, s, since[u], now, groups)
      /\ e \in EncryptionState /\ s \in EncryptionState
      /\ s.height = e.height /\ s.failed = e.failed
      /\ s.seqno = e.seqno /\ s.seen = e.seen
      /\ \A h \in s.epochs : h # e.height => now < since[u][h + 1] + Delay
      /\ Cardinality(s.epochs) <= MaxEpochs
  BY <1>1, SyncKeysInv
<1> HIDE DEF s, e
<1>3. QED BY <1>2 DEF KeysInv, s, e

-----------------------------------------------------------------------------
(* The steps.                                                               *)

\* The clock ticks.
LEMMA TickInv == ASSUME Inv, Tick PROVE Inv'
<1>1. /\ now' = now + 1
      /\ UNCHANGED <<groups, encryption, packets, since, opened, twice>>
      /\ now \in Nat \ {0}
  BY DEF Tick, Inv, Types
<1>2. Types'
  BY <1>1 DEF Inv, Types
<1>3. Keys'
  <2>1. \A u \in Users : KeysInv(u, encryption[u], since[u], now + 1, groups)
    BY LaterKeysInv DEF Inv, Keys
  <2>2. QED BY <1>1, <2>1 DEF Keys
<1>4. PacketsInv'
  <2>1. ASSUME NEW p \in packets
        PROVE  Sent(p, encryption[p.sender], since[p.sender], now + 1, groups)
    <3>1. p.sentAt <= now /\ p.sentAt \in Nat
      BY DEF Inv, PacketsInv, Sent, Types, Packet
    <3>2. p.sentAt <= now + 1
      BY <1>1, <3>1
    <3>3. QED BY <3>2 DEF Inv, PacketsInv, Sent
  <2>2. QED BY <1>1, <2>1 DEF PacketsInv
<1>5. NumbersInv' /\ WindowInv'
  BY <1>1 DEF Inv, NumbersInv, WindowInv, NoWrap
<1>6. QED BY <1>2, <1>3, <1>4, <1>5 DEF Inv

\* The server accepts a main block.
LEMMA NewMainBlockInv ==
  ASSUME Inv, NEW g \in SUBSET Users, NewMainBlock(g)
  PROVE  Inv'
<1>1. /\ groups' = Append(groups, g)
      /\ UNCHANGED <<now, encryption, packets, since, opened, twice>>
      /\ groups \in Seq(SUBSET Users) /\ Len(groups) \in Nat
      /\ Len(groups) < MaxHeight /\ MaxHeight \in Nat
  BY EncryptionAssumption DEF NewMainBlock, Inv, Types
<1>2. /\ groups' \in Seq(SUBSET Users) /\ Len(groups') = Len(groups) + 1
      /\ \A h \in 1 .. Len(groups) : groups'[h] = groups[h]
  BY <1>1
<1>3. Types'
  BY <1>1, <1>2 DEF Inv, Types
<1>4. Keys'
  <2>1. \A u \in Users : KeysInv(u, encryption[u], since[u], now, groups')
    BY <1>1, MoreBlocksKeysInv DEF Inv, Keys
  <2>2. QED BY <1>1, <2>1 DEF Keys
<1>5. PacketsInv'
  <2>1. ASSUME NEW p \in packets
        PROVE  Sent(p, encryption[p.sender], since[p.sender], now, groups')
    <3>1. p.sender \in Users
      BY DEF Inv, Types, Packet
    <3>2. /\ encryption[p.sender].height <= Len(groups)
          /\ encryption[p.sender].height \in Nat
      BY <3>1, EncryptionFields DEF Inv, Types, Keys, KeysInv
    <3>3. \A h \in p.epochs : h \in 1 .. Len(groups)
      BY <1>1, <3>2 DEF Inv, PacketsInv, Sent
    <3>4. QED BY <1>2, <3>3 DEF Inv, PacketsInv, Sent
  <2>2. QED BY <1>1, <2>1 DEF PacketsInv
<1>6. NumbersInv' /\ WindowInv'
  BY <1>1 DEF Inv, NumbersInv, WindowInv, NoWrap
<1>7. QED BY <1>3, <1>4, <1>5, <1>6 DEF Inv

\* A user applies a main block.
LEMMA UpdateInv ==
  ASSUME Inv, NEW u \in Users, UpdateGroupSharedKey(u)
  PROVE  Inv'
<1>1. PICK h \in DOMAIN groups :
        /\ NextHeight(u, h)
        /\ LET e == [ForgetSharedKey(encryption[u], h - 1) EXCEPT !.height = h]
           IN  encryption' = [encryption EXCEPT ![u] =
                 IF u \in groups[h] THEN AddSharedKey(e, h)
                 ELSE [e EXCEPT !.failed = TRUE]]
        /\ since' = [since EXCEPT ![u][h] = now]
  BY DEF UpdateGroupSharedKey
<1>2. ~ encryption[u].failed /\ UNCHANGED <<now, groups, packets, opened, twice>>
  BY DEF UpdateGroupSharedKey
<1> DEFINE old == encryption[u]
           w == AfterBlock(u, old, h, groups)
           rr == [since[u] EXCEPT ![h] = now]
<1>3. /\ encryption \in [Users -> EncryptionState]
      /\ since \in [Users -> [1 .. MaxHeight -> Nat]]
      /\ h \in 1 .. MaxHeight /\ h <= Len(groups) /\ now \in Nat \ {0}
      /\ MaxHeight \in Nat
  BY EncryptionAssumption DEF Inv, Types
<1>4. old.height = 0 \/ h = old.height + 1
  BY <1>1 DEF NextHeight
<1>5. /\ KeysInv(u, w, rr, now, groups)
      /\ w \in EncryptionState /\ w.seqno = old.seqno /\ w.seen = old.seen
      /\ w.height = h
  <2>1. KeysInv(u, old, since[u], now, groups)
    BY DEF Inv, Keys
  <2>2. ~ old.failed
    BY <1>2
  <2> HIDE DEF old
  <2>3. QED BY <1>3, <1>4, <2>1, <2>2, UpdateKeysInv
<1>6. encryption' = [encryption EXCEPT ![u] = w] /\ since' = [since EXCEPT ![u] = rr]
  BY <1>1 DEF AfterBlock
<1> HIDE DEF w
<1>7. /\ \A x \in Users : encryption'[x] = IF x = u THEN w ELSE encryption[x]
      /\ \A x \in Users : since'[x] = IF x = u THEN rr ELSE since[x]
      /\ rr \in [1 .. MaxHeight -> Nat]
      /\ rr[h] = now /\ \A k \in 1 .. MaxHeight : k # h => rr[k] = since[u][k]
  BY <1>3, <1>6
<1> HIDE DEF rr
<1>8. Types'
  BY <1>2, <1>3, <1>5, <1>6, <1>7 DEF Inv, Types
<1>9. Keys'
  BY <1>2, <1>5, <1>7 DEF Inv, Keys
<1>10. \A x \in Users : /\ encryption'[x].seqno = encryption[x].seqno
                        /\ encryption'[x].seen = encryption[x].seen
  BY <1>5, <1>7
<1>11. NumbersInv' /\ WindowInv'
  <2>1. NumbersInv'
    BY <1>2, <1>10 DEF Inv, NumbersInv
  <2>2. NoWrap' => NoWrap
    BY <1>10 DEF NoWrap
  <2>3. \A x \in Users : \A p \in opened[x] : p.sender \in Users
    BY DEF Inv, Types, Packet
  <2>4. WindowInv'
    BY <1>2, <1>10, <2>2, <2>3 DEF Inv, WindowInv
  <2>5. QED BY <2>1, <2>4
<1>12. PacketsInv'
  <2> SUFFICES ASSUME NEW p \in packets
               PROVE  Sent(p, encryption'[p.sender], since'[p.sender], now, groups)
    BY <1>2 DEF PacketsInv
  <2>1. /\ p.sender \in Users /\ p.sentAt \in Nat
        /\ Sent(p, encryption[p.sender], since[p.sender], now, groups)
    BY DEF Inv, PacketsInv, Types, Packet
  <2>2. CASE p.sender # u
    BY <1>7, <2>1, <2>2
  <2>3. CASE p.sender = u
    <3>1. old.height \in Nat /\ old.height < h
      <4>1. old.height \in Nat
        BY <1>3, EncryptionFields
      <4>2. QED BY <1>3, <1>4, <4>1
    <3>2. \A k \in p.epochs : k \in 1 .. old.height /\ k \in 1 .. h
      <4>1. \A k \in p.epochs : k \in 1 .. old.height
        BY <2>1, <2>3 DEF Sent
      <4>2. QED BY <1>3, <3>1, <4>1
    <3>3. ASSUME NEW k \in p.epochs, k < MaxHeight, rr[k + 1] > 0
          PROVE  p.sentAt < rr[k + 1] + Delay
      <4>1. k + 1 \in 1 .. MaxHeight
        BY <1>3, <3>2, <3>3
      <4>2. CASE k + 1 = h
        <5>1. p.sentAt <= now /\ Delay \in Nat \ {0}
          BY <2>1, EncryptionAssumption DEF Sent
        <5>2. now < now + Delay
          BY <1>3, <5>1
        <5>3. QED BY <1>3, <1>7, <2>1, <4>2, <5>1, <5>2
      <4>3. CASE k + 1 # h
        BY <1>7, <2>1, <2>3, <3>3, <4>1, <4>3 DEF Sent
      <4>4. QED BY <4>2, <4>3
    <3>4. encryption'[p.sender] = w /\ since'[p.sender] = rr
      BY <1>7, <2>1, <2>3
    <3> HIDE DEF old
    <3>5. QED BY <1>5, <2>1, <2>3, <3>2, <3>3, <3>4 DEF Sent, old
  <2>4. QED BY <2>2, <2>3
<1>13. QED BY <1>8, <1>9, <1>11, <1>12 DEF Inv

\* A user sends a packet.
LEMMA SendInv ==
  ASSUME Inv, NEW u \in Users, Send(u)
  PROVE  Inv'
<1> DEFINE old == encryption[u]
           s == Sync(old)
           d == [s EXCEPT !.seqno = @ + 1]
           n == s.seqno + 1
           p == [sender |-> u, seqno |-> n, epochs |-> s.epochs, sentAt |-> now]
<1>1. /\ ~ s.failed
      /\ encryption' = [encryption EXCEPT ![u] = d]
      /\ packets' = packets \cup {p}
      /\ UNCHANGED <<now, groups, since, opened, twice>>
  BY DEF Send
<1>2. /\ old \in EncryptionState /\ s \in EncryptionState
      /\ s.height = old.height /\ s.failed = old.failed
      /\ s.seqno = old.seqno /\ s.seen = old.seen
      /\ Moments(since[u], old.height, now)
      /\ Keyed(s, old.height, since[u])
      /\ \A h \in s.epochs : h # old.height => now < since[u][h + 1] + Delay
      /\ \A h \in s.epochs : u \in groups[h]
      /\ Cardinality(s.epochs) <= MaxEpochs
  BY SyncOfUser
<1>3. s.seqno \in Nat /\ s.epochs \in SUBSET Nat /\ now \in Nat /\ old.height \in Nat
  BY <1>2, EncryptionFields DEF Moments
<1>4. p \in Packet /\ p.sender = u /\ p.seqno = n /\ p.epochs = s.epochs /\ p.sentAt = now
  BY <1>3 DEF Packet
<1>5. /\ d \in EncryptionState
      /\ d.height = old.height /\ d.failed = old.failed
      /\ d.epochs = s.epochs /\ d.forget = s.forget
      /\ d.seqno = n /\ d.seen = old.seen
  <2>1. n \in Nat
    BY <1>3
  <2>2. s.seqno + 1 = n
    OBVIOUS
  <2> HIDE DEF old, s, n
  <2>3. d = [s EXCEPT !.seqno = n]
    BY <2>2
  <2>4. /\ d \in EncryptionState
        /\ d.height = s.height /\ d.failed = s.failed
        /\ d.epochs = s.epochs /\ d.forget = s.forget
        /\ d.seqno = n /\ d.seen = s.seen
    BY <1>2, <2>1, <2>3 DEF EncryptionState
  <2>5. QED BY <1>2, <2>4
<1> HIDE DEF d, p, s
<1>6. /\ encryption' \in [Users -> EncryptionState]
      /\ \A x \in Users : encryption'[x] = IF x = u THEN d ELSE encryption[x]
      /\ Keys'
  BY <1>1, <1>5, StepKeysInv DEF s
<1>7. Types'
  BY <1>1, <1>4, <1>6 DEF Inv, Types
<1>8. \A x \in Users : /\ encryption[x].seqno \in Nat
                       /\ encryption'[x].seqno \in Nat
                       /\ encryption[x].seqno <= encryption'[x].seqno
                       /\ encryption'[x].seen = encryption[x].seen
                       /\ encryption'[x].height = encryption[x].height
  <2> SUFFICES ASSUME NEW x \in Users
               PROVE  /\ encryption[x].seqno \in Nat
                      /\ encryption'[x].seqno \in Nat
                      /\ encryption[x].seqno <= encryption'[x].seqno
                      /\ encryption'[x].seen = encryption[x].seen
                      /\ encryption'[x].height = encryption[x].height
    OBVIOUS
  <2>1. encryption[x].seqno \in Nat
    BY EncryptionFields DEF Inv, Types
  <2>2. CASE x = u
    BY <1>2, <1>3, <1>5, <1>6, <2>2
  <2>3. CASE x # u
    BY <1>6, <2>1, <2>3
  <2>4. QED BY <2>2, <2>3
<1>9. NumbersInv'
  <2> SUFFICES ASSUME NEW x \in Users, NEW y \in Users
               PROVE  /\ encryption'[x].seen[y] \subseteq 1 .. encryption'[y].seqno
                      /\ \A k \in encryption'[x].seen[y] :
                           \E q \in opened'[x] : q.sender = y /\ q.seqno = k
    BY DEF NumbersInv
  <2>1. 1 .. encryption[y].seqno \subseteq 1 .. encryption'[y].seqno
    BY <1>8
  <2>2. QED BY <1>1, <1>8, <2>1 DEF Inv, NumbersInv
<1>10. WindowInv'
  <2>1. NoWrap' => NoWrap
    <3> SUFFICES ASSUME NoWrap', NEW x \in Users
                 PROVE  encryption[x].seqno + Window <= MaxSeqno
      BY DEF NoWrap
    <3>1. encryption'[x].seqno + Window <= MaxSeqno
      BY DEF NoWrap
    <3>2. Window \in Nat /\ MaxSeqno \in Nat
      BY EncryptionAssumption
    <3>3. QED BY <1>8, <3>1, <3>2
  <2>2. QED BY <1>1, <1>8, <2>1 DEF Inv, WindowInv
<1>11. PacketsInv'
  <2> SUFFICES ASSUME NEW q \in packets'
               PROVE  Sent(q, encryption'[q.sender], since[q.sender], now, groups)
    BY <1>1 DEF PacketsInv
  <2>1. CASE q \in packets
    <3>1. q.sender \in Users /\ q.seqno \in Nat
      BY <2>1 DEF Inv, Types, Packet
    <3>2. Sent(q, encryption[q.sender], since[q.sender], now, groups)
      BY <2>1 DEF Inv, PacketsInv
    <3>3. 1 .. encryption[q.sender].seqno \subseteq 1 .. encryption'[q.sender].seqno
      BY <1>8, <3>1
    <3>4. QED BY <1>8, <3>1, <3>2, <3>3 DEF Sent
  <2>2. CASE q = p
    <3>1. encryption'[q.sender] = d /\ since[q.sender] = since[u] /\ q.sender = u
      BY <1>4, <1>6, <2>2
    <3>2. q.seqno \in 1 .. d.seqno
      BY <1>3, <1>4, <1>5, <2>2
    <3>3. \A h \in s.epochs :
            /\ h \in 1 .. old.height
            /\ h < MaxHeight /\ since[u][h + 1] > 0 => now < since[u][h + 1] + Delay
      <4> SUFFICES ASSUME NEW h \in s.epochs
                   PROVE  /\ h \in 1 .. old.height
                          /\ h < MaxHeight /\ since[u][h + 1] > 0 =>
                               now < since[u][h + 1] + Delay
        OBVIOUS
      <4>1. h \in 1 .. old.height
        BY <1>2 DEF Keyed
      <4>2. CASE h = old.height
        <5>1. h < MaxHeight => h + 1 \in 1 .. MaxHeight
          BY <1>3, <4>1, EncryptionAssumption
        <5>2. h < MaxHeight => ~ since[u][h + 1] > 0
          <6>1. ~ h + 1 <= old.height
            BY <1>3, <4>2
          <6>2. QED BY <1>2, <5>1, <6>1 DEF Moments
        <5>3. QED BY <4>1, <5>2
      <4>3. QED BY <1>2, <4>1, <4>2
    <3>4. q.sentAt <= now
      BY <1>3, <1>4, <2>2
    <3>5. QED BY <1>2, <1>4, <1>5, <2>2, <3>1, <3>2, <3>3, <3>4 DEF Sent
  <2>3. QED BY <1>1, <2>1, <2>2
<1>12. QED BY <1>6, <1>7, <1>9, <1>10, <1>11 DEF Inv

\* A step that only syncs one user's state.
LEMMA OnlySyncInv ==
  ASSUME Inv, NEW u \in Users,
         encryption' = [encryption EXCEPT ![u] = Sync(encryption[u])],
         UNCHANGED <<now, groups, packets, since, opened, twice>>
  PROVE  Inv'
<1> DEFINE s == Sync(encryption[u])
<1>1. /\ s \in EncryptionState
      /\ s.height = encryption[u].height /\ s.failed = encryption[u].failed
      /\ s.seqno = encryption[u].seqno /\ s.seen = encryption[u].seen
  BY SyncOfUser
<1>2. /\ encryption' \in [Users -> EncryptionState]
      /\ \A x \in Users : encryption'[x] = IF x = u THEN s ELSE encryption[x]
      /\ Keys'
  BY <1>1, StepKeysInv
<1> HIDE DEF s
<1>3. \A x \in Users : /\ encryption'[x].seqno = encryption[x].seqno
                       /\ encryption'[x].seen = encryption[x].seen
                       /\ encryption'[x].height = encryption[x].height
  BY <1>1, <1>2
<1>4. Types'
  BY <1>2 DEF Inv, Types
<1>5. NumbersInv' /\ WindowInv'
  <2>1. NumbersInv'
    BY <1>3 DEF Inv, NumbersInv
  <2>2. NoWrap' => NoWrap
    BY <1>3 DEF NoWrap
  <2>3. \A x \in Users : \A p \in opened[x] : p.sender \in Users
    BY DEF Inv, Types, Packet
  <2>4. WindowInv'
    BY <1>3, <2>2, <2>3 DEF Inv, WindowInv
  <2>5. QED BY <2>1, <2>4
<1>6. PacketsInv'
  <2>1. \A p \in packets : p.sender \in Users
    BY DEF Inv, Types, Packet
  <2>2. QED BY <1>3, <2>1 DEF Inv, PacketsInv, Sent
<1>7. QED BY <1>2, <1>4, <1>5, <1>6 DEF Inv

\* Recording a number adds no other.
LEMMA MarkSubset ==
  ASSUME NEW seen, NEW n
  PROVE  MarkAsSeen(seen, n) \subseteq seen \cup {n}
BY DEF MarkAsSeen

\* A user accepts a packet.
LEMMA ReceiveInv ==
  ASSUME Inv, NEW u \in Users, NEW p \in packets, Receive(u, p)
  PROVE  Inv'
<1> DEFINE old == encryption[u]
           s == Sync(old)
           o == p.sender
           marked == MarkAsSeen(old.seen[o], p.seqno)
           d == [s EXCEPT !.seen[o] = MarkAsSeen(@, p.seqno)]
<1>1. /\ Opens(u, s, p)
      /\ encryption' = [encryption EXCEPT ![u] = d]
      /\ opened' = [opened EXCEPT ![u] = @ \cup {p}]
      /\ twice' = [twice EXCEPT ![u] = IF p \in opened[u] THEN @ \cup {p} ELSE @]
      /\ UNCHANGED <<now, groups, packets, since>>
  BY DEF Receive
<1>2. /\ old \in EncryptionState /\ s \in EncryptionState
      /\ s.height = old.height /\ s.failed = old.failed
      /\ s.seqno = old.seqno /\ s.seen = old.seen
  BY SyncOfUser
<1>3. /\ o \in Users /\ p.seqno \in Nat
      /\ p.seqno \in 1 .. encryption[o].seqno
      /\ encryption[o].seqno \in Nat
      /\ old.seen \in [Users -> SUBSET Nat]
  BY <1>2, EncryptionFields DEF Inv, Types, Packet, PacketsInv, Sent
<1>4. marked \in SUBSET Nat
  BY <1>3, MarkSubset
<1>5. /\ d \in EncryptionState
      /\ d.height = old.height /\ d.failed = old.failed
      /\ d.epochs = s.epochs /\ d.forget = s.forget
      /\ d.seqno = old.seqno
      /\ d.seen = [old.seen EXCEPT ![o] = marked]
  <2> HIDE DEF marked, o
  <2>1. d = [s EXCEPT !.seen = [old.seen EXCEPT ![o] = marked]]
    BY <1>2, <1>3 DEF EncryptionState, marked
  <2>2. [old.seen EXCEPT ![o] = marked] \in [Users -> SUBSET Nat]
    BY <1>3, <1>4
  <2> DEFINE f == [old.seen EXCEPT ![o] = marked]
  <2> HIDE DEF f, d
  <2>3. d = [s EXCEPT !.seen = f] /\ f \in [Users -> SUBSET Nat]
    BY <2>1, <2>2 DEF f
  <2>4. /\ d \in EncryptionState
        /\ d.height = s.height /\ d.failed = s.failed
        /\ d.epochs = s.epochs /\ d.forget = s.forget
        /\ d.seqno = s.seqno /\ d.seen = f
    BY <1>2, <2>3 DEF EncryptionState
  <2>5. QED BY <1>2, <2>4 DEF f
<1>6. CheckNotSeen(old.seen[o], p.seqno)
  BY <1>1, <1>2 DEF Opens
<1> HIDE DEF d, marked
<1>7. /\ encryption' \in [Users -> EncryptionState]
      /\ \A x \in Users : encryption'[x] = IF x = u THEN d ELSE encryption[x]
      /\ Keys'
  <2> HIDE DEF o
  <2>1. QED BY <1>1, <1>5, StepKeysInv
<1>8. /\ \A x \in Users : /\ encryption'[x].seqno = encryption[x].seqno
                          /\ encryption'[x].height = encryption[x].height
      /\ \A x, y \in Users : encryption'[x].seen[y] =
           IF x = u /\ y = o THEN marked ELSE encryption[x].seen[y]
  <2>1. \A y \in Users : d.seen[y] = IF y = o THEN marked ELSE old.seen[y]
    BY <1>3, <1>5
  <2>2. QED BY <1>5, <1>7, <2>1
<1>9. /\ \A x \in Users : opened'[x] = IF x = u THEN opened[x] \cup {p} ELSE opened[x]
      /\ opened' \in [Users -> SUBSET packets]
      /\ \A x \in Users : x # u => twice'[x] = twice[x]
      /\ twice'[u] = IF p \in opened[u] THEN twice[u] \cup {p} ELSE twice[u]
      /\ twice' \in [Users -> SUBSET packets]
  BY <1>1 DEF Inv, Types
<1>10. Types'
  BY <1>1, <1>7, <1>9 DEF Inv, Types
<1>11. PacketsInv'
  <2>1. \A q \in packets : q.sender \in Users
    BY DEF Inv, Types, Packet
  <2>2. QED BY <1>1, <1>8, <2>1 DEF Inv, PacketsInv, Sent
<1>12. NumbersInv'
  <2> SUFFICES ASSUME NEW x \in Users, NEW y \in Users
               PROVE  /\ encryption'[x].seen[y] \subseteq 1 .. encryption[y].seqno
                      /\ \A k \in encryption'[x].seen[y] :
                           \E q \in opened'[x] : q.sender = y /\ q.seqno = k
    BY <1>8 DEF NumbersInv
  <2>1. CASE x = u /\ y = o
    <3>1. marked \subseteq old.seen[o] \cup {p.seqno}
      BY MarkSubset DEF marked
    <3>2. /\ old.seen[o] \subseteq 1 .. encryption[o].seqno
          /\ \A k \in old.seen[o] : \E q \in opened[u] : q.sender = o /\ q.seqno = k
      BY <1>3 DEF Inv, NumbersInv
    <3>3. QED BY <1>3, <1>8, <1>9, <2>1, <3>1, <3>2
  <2>2. CASE ~(x = u /\ y = o)
    BY <1>8, <1>9, <2>2 DEF Inv, NumbersInv
  <2>3. QED BY <2>1, <2>2
<1>13. WindowInv'
  <2> SUFFICES ASSUME NoWrap, NEW x \in Users
               PROVE  /\ twice'[x] = {}
                      /\ \A q \in opened'[x] : Refused(encryption'[x].seen[q.sender], q.seqno)
    BY <1>8 DEF WindowInv, NoWrap
  <2>1. /\ twice[x] = {}
        /\ \A q \in opened[x] : Refused(encryption[x].seen[q.sender], q.seqno)
    BY DEF Inv, WindowInv
  <2>2. \A q \in opened[x] : q.sender \in Users /\ q.seqno \in Nat
    BY DEF Inv, Types, Packet
  <2>3. CASE x # u
    BY <1>8, <1>9, <2>1, <2>2, <2>3
  <2>4. CASE x = u
    <3>1. p \notin opened[u]
      BY <1>6, <2>1, <2>4 DEF Refused
    <3>2. twice'[x] = {}
      BY <1>9, <2>1, <2>4, <3>1
    <3>3. /\ Refused(marked, p.seqno)
          /\ \A k \in Nat : Refused(old.seen[o], k) => Refused(marked, k)
      <4>1. encryption[o].seqno + Window <= MaxSeqno
        BY <1>3 DEF NoWrap
      <4>2. old.seen[o] \in SUBSET (1 .. encryption[o].seqno)
        BY <1>3 DEF Inv, NumbersInv
      <4> DEFINE K == encryption[o].seqno
                 seen == old.seen[o]
                 k == p.seqno
      <4>3. /\ K \in Nat /\ K + Window <= MaxSeqno /\ seen \in SUBSET (1 .. K)
            /\ k \in 1 .. K /\ CheckNotSeen(seen, k)
        BY <1>3, <1>6, <4>1, <4>2
      <4>4. marked = MarkAsSeen(seen, k)
        BY DEF marked
      <4> HIDE DEF K, seen, k
      <4>5. /\ Refused(MarkAsSeen(seen, k), k)
            /\ \A j \in Nat : Refused(seen, j) => Refused(MarkAsSeen(seen, k), j)
        BY <4>3, MarkKeepsRefused
      <4>6. QED BY <4>4, <4>5 DEF seen, k
    <3>4. ASSUME NEW q \in opened'[x] PROVE Refused(encryption'[x].seen[q.sender], q.seqno)
      <4>1. CASE q = p
        BY <1>3, <1>8, <2>4, <3>3, <4>1
      <4>2. CASE q \in opened[x] /\ q.sender = o
        BY <1>3, <1>8, <2>1, <2>2, <2>4, <3>3, <4>2
      <4>3. CASE q \in opened[x] /\ q.sender # o
        BY <1>8, <2>1, <2>2, <2>4, <4>3
      <4>4. QED BY <1>9, <2>4, <3>4, <4>1, <4>2, <4>3
    <3>5. QED BY <3>2, <3>4
  <2>5. QED BY <2>3, <2>4
<1>14. QED BY <1>7, <1>10, <1>11, <1>12, <1>13 DEF Inv

\* The invariant is inductive.
LEMMA NextInv == Inv /\ [Next]_vars => Inv'
<1> SUFFICES ASSUME Inv, [Next]_vars PROVE Inv'
  OBVIOUS
<1>1. CASE Tick
  BY <1>1, TickInv
<1>2. CASE \E g \in SUBSET Users : NewMainBlock(g)
  BY <1>2, NewMainBlockInv
<1>3. CASE \E u \in Users : UpdateGroupSharedKey(u)
  BY <1>3, UpdateInv
<1>4. CASE \E u \in Users : Send(u)
  BY <1>4, SendInv
<1>5. CASE \E u \in Users : SendFails(u)
  <2>1. PICK u \in Users : SendFails(u)
    BY <1>5
  <2>2. QED BY <2>1, OnlySyncInv DEF SendFails
<1>6. CASE \E u \in Users, p \in packets : Receive(u, p)
  BY <1>6, ReceiveInv
<1>7. CASE \E u \in Users, p \in packets : ReceiveFails(u, p)
  <2>1. PICK u \in Users, p \in packets : ReceiveFails(u, p)
    BY <1>7
  <2>2. QED BY <2>1, OnlySyncInv DEF ReceiveFails
<1>8. CASE UNCHANGED vars
  BY <1>8 DEF vars, Inv, Types, Keys, NumbersInv, PacketsInv, WindowInv, NoWrap
<1>9. QED BY <1>1, <1>2, <1>3, <1>4, <1>5, <1>6, <1>7, <1>8 DEF Next

-----------------------------------------------------------------------------
(* The theorems.                                                            *)

\* The inductive invariant holds in every reachable state.
THEOREM Invariant == Spec => []Inv
BY InitInv, NextInv, PTL DEF Spec

\* Every variable has its type, and the current epoch of a member is in use.
THEOREM TypeCorrect == Spec => []TypeOK
<1>1. Inv => TypeOK
  <2> SUFFICES ASSUME Inv PROVE TypeOK
    OBVIOUS
  <2>1. \A u \in Users : encryption[u].height > 0 /\ ~ encryption[u].failed =>
          encryption[u].height \in Sync(encryption[u]).epochs
    BY SyncOfUser
  <2>2. QED BY <2>1 DEF Inv, Types, TypeOK
<1>2. QED BY <1>1, Invariant, PTL

\* No packet is accepted twice while no sequence number is within Window of the
\* last 32-bit number.
THEOREM NoReplay == Spec => []AcceptedOnce
<1>1. Inv => AcceptedOnce
  BY DEF Inv, WindowInv, NoWrap, AcceptedOnce
<1>2. QED BY <1>1, Invariant, PTL

\* No packet is encrypted for an epoch that its sender superseded Delay before.
THEOREM OldKeysNotSent == Spec => []SentWithFreshKeys
<1>1. Inv => SentWithFreshKeys
  BY DEF Inv, PacketsInv, Sent, SentWithFreshKeys
<1>2. QED BY <1>1, Invariant, PTL

\* The epoch that a packet is opened with is one of those its header names and
\* its receiver keeps (the loop of SessionEncryption::decrypt).
LEMMA OpenedWithCommon ==
  ASSUME Inv, NEW u \in Users, NEW p \in packets,
         p.epochs \cap Sync(encryption[u]).epochs # {}
  PROVE  OpenedWith(Sync(encryption[u]), p) \in
           p.epochs \cap Sync(encryption[u]).epochs
<1> DEFINE s == Sync(encryption[u])
           S == p.epochs \cap s.epochs
<1>1. S \subseteq Nat
  BY DEF Inv, Types, Packet
<1> HIDE DEF S
<1>2. S # {}
  BY DEF S
<1>3. \E h \in S : \A g \in S : h <= g
  BY <1>1, <1>2, LeastExists
<1>4. OpenedWith(s, p) \in S
  BY <1>3 DEF OpenedWith, S
<1>5. QED BY <1>4 DEF S

\* The newest packet of a sender is accepted by whoever shares an epoch with it.
THEOREM NewestGetsThrough == Spec => []NewestAccepted
<1>1. ASSUME Inv PROVE NewestAccepted
  <2> SUFFICES ASSUME NEW u \in Users, NEW p \in packets, u # p.sender,
                      p.epochs \cap Sync(encryption[u]).epochs # {},
                      \A q \in opened[u] : q.sender = p.sender => q.seqno < p.seqno
               PROVE  Opens(u, Sync(encryption[u]), p)
    BY DEF NewestAccepted
  <2> DEFINE s == Sync(encryption[u])
  <2>1. s \in EncryptionState /\ s.seen = encryption[u].seen /\ s.epochs \in SUBSET Nat
    BY <1>1, SyncOfUser, EncryptionFields
  <2>2. p.sender \in Users /\ p.seqno \in Nat
    BY <1>1 DEF Inv, Types, Packet
  <2>3. /\ Cardinality(p.epochs) <= MaxEpochs
        /\ \A h \in p.epochs : p.sender \in groups[h]
    BY <1>1 DEF Inv, PacketsInv, Sent
  <2>4. OpenedWith(s, p) \in p.epochs
    <3>1. OpenedWith(s, p) \in p.epochs \cap s.epochs
      BY <1>1, OpenedWithCommon
    <3>2. QED BY <3>1
  <2>5. CheckNotSeen(s.seen[p.sender], p.seqno)
    <3>1. \A x \in s.seen[p.sender] : x < p.seqno /\ x \in Nat
      <4>1. \A x \in encryption[u].seen[p.sender] :
              \E q \in opened[u] : q.sender = p.sender /\ q.seqno = x /\ q.seqno \in Nat
        BY <1>1, <2>2 DEF Inv, NumbersInv, Types, Packet
      <4>2. QED BY <2>1, <4>1
    <3>2. p.seqno \notin s.seen[p.sender]
      BY <2>2, <3>1
    <3>3. QED BY <3>1, <3>2 DEF CheckNotSeen
  <2> HIDE DEF s
  <2>6. Opens(u, s, p)
    BY <2>3, <2>4, <2>5 DEF Opens, s
  <2>7. QED BY <2>6 DEF s
<1>2. QED BY <1>1, Invariant, PTL

\* Members whose chains are close enough in blocks and in time share an epoch.
THEOREM KeysAlwaysMeet == Spec => []KeysMeet
<1>1. ASSUME Inv PROVE KeysMeet
  <2> SUFFICES ASSUME NEW s \in Users, NEW u \in Users,
                      ~ encryption[s].failed, ~ encryption[u].failed,
                      0 < encryption[s].height,
                      encryption[s].height <= encryption[u].height,
                      encryption[u].height < encryption[s].height + MaxEpochs,
                      since[u][encryption[s].height] > 0,
                      encryption[s].height < encryption[u].height =>
                        now < since[u][encryption[s].height + 1] + Delay
               PROVE  encryption[s].height \in
                        Sync(encryption[s]).epochs \cap Sync(encryption[u]).epochs
    BY DEF KeysMeet
  <2>1. encryption[s].height \in Sync(encryption[s]).epochs
    BY <1>1, SyncOfUser
  <2>2. encryption[s].height \in 1 .. encryption[u].height
    <3>1. encryption[s].height \in Nat /\ encryption[u].height \in Nat
      BY <1>1, EncryptionFields DEF Inv, Types
    <3>2. QED BY <3>1
  <2>3. Kept(Sync(encryption[u]), encryption[u].height, encryption[u].height,
             since[u], now)
    BY <1>1, SyncOfUser
  <2>4. encryption[s].height \in Sync(encryption[u]).epochs
    BY <2>2, <2>3 DEF Kept
  <2>5. QED BY <2>1, <2>4
<1>2. QED BY <1>1, Invariant, PTL

\* No packet is accepted with a key that its receiver superseded Delay before:
\* the epoch it is opened with is current there, or superseded less long ago.
THEOREM OldKeysNotAccepted == Spec => OpenedWithFreshKeys
<1> DEFINE Fresh(u, p) ==
             LET h == OpenedWith(Sync(encryption[u]), p)
             IN  \/ h = encryption[u].height
                 \/ /\ h < encryption[u].height
                    /\ since[u][h] > 0
                    /\ now < since[u][h + 1] + Delay
           Step == \A u \in Users : \A p \in packets : Receive(u, p) => Fresh(u, p)
<1>1. ASSUME Inv, NEW u \in Users, NEW p \in packets, Receive(u, p)
      PROVE  Fresh(u, p)
  <2> DEFINE s == Sync(encryption[u])
             h == OpenedWith(s, p)
  <2>1. p.epochs \cap s.epochs # {}
    BY <1>1 DEF Receive, Opens
  <2>2. h \in s.epochs
    <3>1. h \in p.epochs \cap s.epochs
      BY <1>1, <2>1, OpenedWithCommon
    <3>2. QED BY <3>1
  <2> HIDE DEF h
  <2>3. /\ Keyed(s, encryption[u].height, since[u])
        /\ h # encryption[u].height => now < since[u][h + 1] + Delay
    BY <1>1, <2>2, SyncOfUser
  <2>4. h \in 1 .. encryption[u].height /\ since[u][h] > 0
    BY <2>2, <2>3 DEF Keyed
  <2>5. encryption[u].height \in Nat
    BY <1>1, EncryptionFields DEF Inv, Types
  <2>6. h = encryption[u].height \/ h < encryption[u].height
    BY <2>4, <2>5
  <2>7. QED BY <2>3, <2>4, <2>6 DEF h
<1>2. Inv => Step
  <2> HIDE DEF Fresh
  <2>1. QED BY <1>1
<1> HIDE DEF Step
<1>3. Inv /\ [Next]_vars => [Step]_vars
  BY <1>2
<1>4. Spec => [][Step]_vars
  BY <1>3, Invariant, PTL DEF Spec
<1>5. QED BY <1>4 DEF Step, OpenedWithFreshKeys

=============================================================================
