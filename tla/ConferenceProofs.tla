------------------------- MODULE ConferenceProofs -------------------------
(***************************************************************************)
(* Proofs about the two parts of an encrypted conference: how a session    *)
(* receives blocks and broadcasts (Session), and what the blocks do        *)
(* (GroupChain).                                                           *)
(*                                                                         *)
(* Session, for every bound and every position of the user's membership.   *)
(* Good is the invariant of the session alone, given what the server has   *)
(* produced; each operation of the session preserves it (one lemma per     *)
(* operation) and only moves forward (Forward).  Inv adds what is on its   *)
(* way to the session.  The second part is about the broadcasts: each      *)
(* operation hands over one run of them, or none (Takes).                  *)
(*                                                                         *)
(* GroupChain, for any users, keys, sessions, proposals and bounds, and    *)
(* for every block that MakeJoinBlock and Craft can make.  The heart is    *)
(* Begins: the state a session reaches by applying a block depends on that *)
(* block alone, and is the one a session that begins with it reads off it. *)
(***************************************************************************)
EXTENDS Session, GroupChain, Functions, TLAPS, WellFoundedInduction,
        FiniteSetTheorems, SequenceTheorems

-----------------------------------------------------------------------------
(* Runs of indexes, and the least element of a set of indexes.              *)

\* A non-empty set of natural numbers has a least element: the cursor of a
\* subchain always meets a first index that is not waiting.
LEMMA LeastExists ==
  ASSUME NEW S \in SUBSET Nat, S # {}
  PROVE  \E m \in S : \A x \in S : m <= x
<1> DEFINE R == {ss \in Nat \X Nat : ss[1] < ss[2]}
<1>1. IsWellFoundedOn(R, Nat)
  BY NatLessThanWellFounded DEF OpToRel
<1> HIDE DEF R
<1>2. PICK m \in S : \A y \in S : ~(<<y, m>> \in R)
  BY <1>1, WFMin
<1>3. ASSUME NEW x \in S PROVE m <= x
  <2>1. x \in Nat /\ m \in Nat
    OBVIOUS
  <2>2. ~(x < m)
    BY <1>2, <2>1 DEF R
  <2> QED BY <2>1, <2>2
<1>4. QED BY <1>3

\* A run is a sequence of indexes.
LEMMA RunType ==
  ASSUME NEW a \in Nat, NEW b \in Nat
  PROVE  Run(a, b) \in Seq(Nat)
BY DEF Run

\* The run of one index.
LEMMA RunOne ==
  ASSUME NEW a \in Nat
  PROVE  Run(a, a + 1) = Append(<<>>, a)
BY DEF Run

\* The last index of a run that is not empty, and its length.
LEMMA RunLast ==
  ASSUME NEW a \in Nat, NEW b \in Nat, a < b
  PROVE  /\ Len(Run(a, b)) = b - a
         /\ Run(a, b)[Len(Run(a, b))] = b - 1
         /\ Run(a, b) # <<>>
BY DEF Run

\* A run continued by the run that starts at its end is one run.
LEMMA RunConcat ==
  ASSUME NEW a \in Nat, NEW b \in Nat, NEW c \in Nat, a <= b, b <= c
  PROVE  Run(a, b) \o Run(b, c) = Run(a, c)
BY DEF Run

\* The sequence t is s followed by the indexes a .. b - 1.
FollowedBy(s, a, b, t) ==
  /\ t \in Seq(Nat)
  /\ Len(s) \in Nat
  /\ DOMAIN s = 1 .. Len(s)
  /\ Len(t) = Len(s) + (b - a)
  /\ DOMAIN t = 1 .. Len(s) + (b - a)
  /\ \A k \in 1 .. Len(s) : t[k] = s[k]
  /\ \A i \in a .. b - 1 : t[Len(s) + (i - a) + 1] = i
  /\ \A k \in 1 .. Len(s) + (b - a) :
       k > Len(s) => t[k] = a + (k - Len(s)) - 1

\* What a sequence is when a run was appended to it.
LEMMA RunAppended ==
  ASSUME NEW s \in Seq(Nat), NEW a \in Nat, NEW b \in Nat, a <= b,
         NEW t, t = s \o Run(a, b)
  PROVE  FollowedBy(s, a, b, t)
<1> DEFINE r == Run(a, b)
<1>1. r \in Seq(Nat) /\ Len(r) = b - a /\ \A k \in 1 .. b - a : r[k] = a + k - 1
  <2>1. r \in Seq(Nat)
    BY RunType
  <2>2. DOMAIN r = 1 .. (b - a) /\ \A k \in 1 .. b - a : r[k] = a + k - 1
    BY DEF Run
  <2>3. Len(r) = b - a
    <3>1. CASE a < b
      BY <3>1, RunLast
    <3>2. CASE a = b
      BY <2>1, <2>2, <3>2
    <3>3. QED BY <3>1, <3>2
  <2>4. QED BY <2>1, <2>2, <2>3
<1> HIDE DEF r
<1>2. /\ t \in Seq(Nat) /\ Len(t) = Len(s) + Len(r)
      /\ \A k \in 1 .. Len(s) + Len(r) : t[k] = IF k <= Len(s) THEN s[k] ELSE r[k - Len(s)]
  <2>1. t = s \o r
    BY DEF r
  <2>2. r \in Seq(Nat)
    BY <1>1
  <2>3. QED BY <2>1, <2>2, ConcatProperties, Zenon
<1>3. Len(s) \in Nat /\ DOMAIN s = 1 .. Len(s) /\ DOMAIN t = 1 .. Len(s) + (b - a)
  BY <1>1, <1>2
<1>4. ASSUME NEW k \in 1 .. Len(s) PROVE t[k] = s[k]
  BY <1>1, <1>2, <1>3
<1>5. ASSUME NEW k \in 1 .. Len(s) + (b - a), k > Len(s) PROVE t[k] = a + (k - Len(s)) - 1
  <2>1. t[k] = r[k - Len(s)] /\ k - Len(s) \in 1 .. b - a
    BY <1>1, <1>2, <1>3, <1>5
  <2>2. QED BY <1>1, <2>1
<1>6. ASSUME NEW i \in a .. b - 1 PROVE t[Len(s) + (i - a) + 1] = i
  <2> DEFINE k == Len(s) + (i - a) + 1
  <2>1. k \in 1 .. Len(s) + (b - a) /\ k > Len(s) /\ k - Len(s) = i - a + 1
    BY <1>3
  <2> HIDE DEF k
  <2>2. t[k] = a + (k - Len(s)) - 1
    BY <1>5, <2>1
  <2>3. t[k] = i
    BY <2>1, <2>2
  <2>4. QED BY <2>3 DEF k
<1>7. QED BY <1>1, <1>2, <1>3, <1>4, <1>5, <1>6 DEF FollowedBy

\* Two runs appended one after the other are one run appended.
LEMMA RunAppendedTwice ==
  ASSUME NEW s \in Seq(Nat), NEW a \in Nat, NEW b \in Nat, NEW c \in Nat,
         a <= b, b <= c
  PROVE  (s \o Run(a, b)) \o Run(b, c) = s \o Run(a, c)
<1> DEFINE r == Run(a, b)
           q == Run(b, c)
<1>1. r \in Seq(Nat) /\ q \in Seq(Nat) /\ r \o q = Run(a, c)
  BY RunType, RunConcat
<1> HIDE DEF r, q
<1>2. (s \o r) \o q = s \o (r \o q)
  <2>1. r \in Seq(Nat) /\ q \in Seq(Nat)
    BY <1>1
  <2>2. QED BY <2>1
<1>3. QED BY <1>1, <1>2 DEF r, q

-----------------------------------------------------------------------------
(* A cursor and the sequence of the indexes handed over before it: between  *)
(* two moments either nothing was handed over, or one run that ends at the  *)
(* new cursor. It begins at the old cursor, or beyond it as far as limit.   *)

Handed(h, old, g, new, limit) ==
  \/ g = h /\ new = old
  \/ \E first \in Nat : /\ h <= first /\ first < g
                        /\ first <= Larger(h, limit)
                        /\ new = old \o Run(first, g)

\* All that was handed over is below the cursor, and all below it that is not
\* below gone was handed over.
HandedBelow(h, log, gone) ==
  /\ \A k \in DOMAIN log : log[k] < h
  /\ \A i \in 0 .. h - 1 : i < gone \/ \E k \in DOMAIN log : log[k] = i

\* A second run that begins at the cursor continues the first.
LEMMA HandedTrans ==
  ASSUME NEW h \in Nat, NEW g \in Nat, NEW e \in Nat, NEW old \in Seq(Nat),
         NEW new, NEW newer, NEW limit \in Nat,
         Handed(h, old, g, new, limit), Handed(g, new, e, newer, 0)
  PROVE  Handed(h, old, e, newer, limit)
<1>1. CASE e = g /\ newer = new
  BY <1>1
<1>2. CASE \E first \in Nat : /\ g <= first /\ first < e
                              /\ first <= Larger(g, 0)
                              /\ newer = new \o Run(first, e)
  <2>1. g < e /\ newer = new \o Run(g, e)
    <3>1. PICK first \in Nat : /\ g <= first /\ first < e
                               /\ first <= Larger(g, 0)
                               /\ newer = new \o Run(first, e)
      BY <1>2
    <3>2. first = g
      BY <3>1 DEF Larger
    <3>3. QED BY <3>1, <3>2
  <2>2. CASE g = h /\ new = old
    BY <2>1, <2>2 DEF Handed, Larger
  <2>3. CASE \E first \in Nat : /\ h <= first /\ first < g
                                /\ first <= Larger(h, limit)
                                /\ new = old \o Run(first, g)
    <3>1. PICK first \in Nat : /\ h <= first /\ first < g
                               /\ first <= Larger(h, limit)
                               /\ new = old \o Run(first, g)
      BY <2>3
    <3>2. newer = old \o Run(first, e) /\ first < e
      <4>1. (old \o Run(first, g)) \o Run(g, e) = old \o Run(first, e)
        <5>1. first <= g /\ g <= e
          BY <2>1, <3>1
        <5>2. QED BY <5>1, RunAppendedTwice
      <4>2. first < e
        BY <2>1, <3>1
      <4>3. QED BY <2>1, <3>1, <4>1, <4>2
    <3>3. QED BY <3>1, <3>2 DEF Handed
  <2>4. QED BY <2>2, <2>3 DEF Handed
<1>3. QED BY <1>1, <1>2 DEF Handed

\* A run that skips only what is gone leaves nothing out.
LEMMA HandedKeepsBelow ==
  ASSUME NEW h \in Nat, NEW g \in Nat, NEW old \in Seq(Nat), NEW new,
         NEW gone \in Nat, Handed(h, old, g, new, gone), HandedBelow(h, old, gone)
  PROVE  h <= g /\ new \in Seq(Nat) /\ HandedBelow(g, new, gone)
<1>1. CASE g = h /\ new = old
  BY <1>1
<1>2. CASE \E first \in Nat : /\ h <= first /\ first < g
                              /\ first <= Larger(h, gone)
                              /\ new = old \o Run(first, g)
  <2>1. PICK first \in Nat : /\ h <= first /\ first < g
                             /\ first <= Larger(h, gone)
                             /\ new = old \o Run(first, g)
    BY <1>2
  <2>2. /\ new \in Seq(Nat) /\ Len(old) \in Nat
        /\ DOMAIN old = 1 .. Len(old) /\ DOMAIN new = 1 .. Len(old) + (g - first)
        /\ \A k \in 1 .. Len(old) : new[k] = old[k]
        /\ \A i \in first .. g - 1 : new[Len(old) + (i - first) + 1] = i
        /\ \A k \in 1 .. Len(old) + (g - first) :
             k > Len(old) => new[k] = first + (k - Len(old)) - 1
    <3>1. first <= g
      BY <2>1
    <3>2. first \in Nat /\ new = old \o Run(first, g)
      BY <2>1
    <3>3. FollowedBy(old, first, g, new)
      BY <3>1, <3>2, RunAppended
    <3>4. QED BY <3>3 DEF FollowedBy
  <2>3. \A k \in 1 .. Len(old) : old[k] \in Nat
    BY <2>2
  <2>4. ASSUME NEW k \in DOMAIN new PROVE new[k] < g
    <3>1. CASE k <= Len(old)
      <4>1. k \in 1 .. Len(old) /\ k \in DOMAIN old
        BY <2>1, <2>2, <2>4, <3>1
      <4>2. new[k] = old[k] /\ old[k] < h /\ old[k] \in Nat
        BY <2>2, <2>3, <4>1 DEF HandedBelow
      <4>3. QED BY <2>1, <4>2
    <3>2. CASE k > Len(old)
      <4>1. k \in 1 .. Len(old) + (g - first) /\ Len(old) \in Nat
        BY <2>2, <2>4
      <4>2. new[k] = first + (k - Len(old)) - 1
        BY <2>2, <3>2, <4>1
      <4>3. QED BY <2>1, <4>1, <4>2
    <3>3. QED BY <2>2, <2>4, <3>1, <3>2
  <2>5. ASSUME NEW i \in 0 .. g - 1, ~(i < gone) PROVE \E k \in DOMAIN new : new[k] = i
    <3>1. CASE i < h
      <4>1. PICK k \in DOMAIN old : old[k] = i
        BY <2>5, <3>1 DEF HandedBelow
      <4>2. k \in DOMAIN new /\ new[k] = i
        BY <2>1, <2>2, <4>1
      <4>3. QED BY <4>2
    <3>2. CASE h <= i /\ i < first
      BY <2>1, <2>5, <3>2 DEF Larger
    <3>3. CASE first <= i
      <4>1. Len(old) + (i - first) + 1 \in DOMAIN new
        BY <2>1, <2>2, <2>5, <3>3
      <4>2. new[Len(old) + (i - first) + 1] = i
        BY <2>2, <2>5, <3>3
      <4>3. QED BY <4>1, <4>2
    <3>4. QED BY <2>1, <2>5, <3>1, <3>2, <3>3
  <2>6. h <= g
    BY <2>1
  <2>7. QED BY <2>2, <2>4, <2>5, <2>6 DEF HandedBelow
<1>3. QED BY <1>1, <1>2 DEF Handed

\* The cursor never goes back.
LEMMA HandedForward ==
  ASSUME NEW h \in Nat, NEW g \in Nat, NEW old, NEW new, NEW limit,
         Handed(h, old, g, new, limit)
  PROVE  h <= g
BY DEF Handed

-----------------------------------------------------------------------------
(* The invariant of the session.                                            *)

\* What the server has produced stays within the bounds of the instance.
Produced(n) ==
  /\ n \in [Chains -> Nat]
  /\ \A c \in Chains : n[c] <= MaxLen(c)

\* The session knows of no block the server has not produced.
WithinServer(s, n) ==
  \A c \in Chains : /\ s.height[c] <= n[c]
                    /\ s.waiting[c] \subseteq 0 .. n[c] - 1

\* The applied main blocks are those from JoinIndex up to the tip.
LogIsChain(s, n) ==
  /\ ~Created(s) => /\ s.height[Main] = 0
                    /\ s.log[Main] = <<>>
                    /\ ~s.failed
  /\ Created(s) => /\ JoinIndex <= s.tip
                   /\ s.tip < n[Main]
                   /\ s.log[Main] = Run(JoinIndex, s.tip + 1)
  /\ Created(s) /\ ~s.failed => s.height[Main] = s.tip + 1
  /\ s.failed <=> Created(s) /\ ~Member(s.tip)

\* No queued request asks beyond the height, and none asks for broadcasts
\* before there is a blockchain.
AsksKnown(s) ==
  \A a \in s.asks : /\ a[1] = Main => a[2] <= s.height[Main]
                    /\ a[1] = Broadcast => Created(s)

Good(s, n) ==
  /\ s \in SessionState
  /\ WithinServer(s, n)
  /\ LogIsChain(s, n)
  /\ AsksKnown(s)

\* The session t is the session s some steps later.
Forward(s, t) == s.tip <= t.tip /\ s.height[Main] <= t.height[Main]

\* What the chains of an instance are.
LEMMA ChainFacts ==
  /\ Main \in Chains
  /\ Broadcast \in Chains
  /\ Main # Broadcast
  /\ \A c \in Chains : c = Main \/ c = Broadcast
  /\ \A c \in Chains : MaxLen(c) \in Nat
  /\ JoinIndex \in Nat /\ LeaveIndex \in Nat
  /\ JoinIndex < LeaveIndex /\ JoinIndex < MaxMain
BY SessionAssumption DEF Chains, Main, Broadcast, MaxLen

\* The fields of a session have their types.
LEMMA FieldTypes ==
  ASSUME NEW s \in SessionState
  PROVE  /\ s.height \in [Chains -> Nat]
         /\ s.waiting \in [Chains -> SUBSET Nat]
         /\ s.waitingActive \in [Chains -> BOOLEAN]
         /\ s.pollTimer \in [Chains -> BOOLEAN]
         /\ s.shortPolling \in [Chains -> BOOLEAN]
         /\ s.tip \in Nat \cup {-1}
         /\ s.failed \in BOOLEAN
         /\ s.lastBlock \in Nat
         /\ s.asks \in SUBSET (Chains \X Nat)
         /\ s.log \in [Chains -> Seq(Nat)]
BY DEF SessionState

\* A session that kept its tip and its heights has moved forward.
LEMMA ForwardSame ==
  ASSUME NEW s \in SessionState, NEW t, t.tip = s.tip, t.height = s.height
  PROVE  Forward(s, t)
<1>1. s.tip \in Int /\ s.height[Main] \in Int
  BY FieldTypes, ChainFacts
<1>2. QED BY <1>1 DEF Forward

\* Scheduling and cancelling the timers preserve the invariant.
LEMMA TimersGood ==
  ASSUME NEW s, NEW n, NEW c \in Chains, Good(s, n)
  PROVE  /\ Good(ScheduleWaiting(s, c), n)
         /\ Good(CancelWaiting(s, c), n)
         /\ Good(ScheduleShortPoll(s, c), n)
         /\ Good(CancelShortPoll(s, c), n)
<1>1. Good(ScheduleWaiting(s, c), n)
  BY DEF Good, ScheduleWaiting, SessionState, WithinServer, LogIsChain, AsksKnown, Created
<1>2. Good(CancelWaiting(s, c), n)
  BY DEF Good, CancelWaiting, SessionState, WithinServer, LogIsChain, AsksKnown, Created
<1>3. Good(ScheduleShortPoll(s, c), n)
  BY DEF Good, ScheduleShortPoll, SessionState, WithinServer, LogIsChain, AsksKnown, Created
<1>4. Good(CancelShortPoll(s, c), n)
  BY DEF Good, CancelShortPoll, SessionState, WithinServer, LogIsChain, AsksKnown, Created
<1>5. QED BY <1>1, <1>2, <1>3, <1>4

\* The timers leave the rest of the session alone.
LEMMA TimersKeep ==
  ASSUME NEW s \in SessionState, NEW c \in Chains,
         NEW t \in {ScheduleWaiting(s, c), CancelWaiting(s, c),
                    ScheduleShortPoll(s, c), CancelShortPoll(s, c)}
  PROVE  /\ t.tip = s.tip /\ t.height = s.height /\ t.waiting = s.waiting
         /\ t.failed = s.failed /\ t.shortPolling = s.shortPolling
         /\ t.log = s.log /\ t.asks = s.asks
BY DEF ScheduleWaiting, CancelWaiting, ScheduleShortPoll, CancelShortPoll, SessionState

\* Asking for a page preserves the invariant, and the height is what is asked.
LEMMA ShortPollGood ==
  ASSUME NEW s, NEW n, NEW c \in Chains, Good(s, n)
  PROVE  Good(ShortPoll(s, c), n) /\ Forward(s, ShortPoll(s, c))
<1> DEFINE idle == CancelShortPoll(CancelWaiting(s, c), c)
<1>1. Good(idle, n)
  BY TimersGood
<1>2. idle.tip = s.tip /\ idle.height = s.height
  BY TimersKeep, TimersGood DEF Good
<1>3. CASE c = Broadcast /\ ~Created(s)
  <2>1. ShortPoll(s, c) = ScheduleWaiting(idle, c)
    BY <1>3 DEF ShortPoll
  <2>2. Good(ShortPoll(s, c), n)
    BY <1>1, <2>1, TimersGood
  <2>3. ShortPoll(s, c).tip = s.tip /\ ShortPoll(s, c).height = s.height
    BY <1>1, <1>2, <2>1, TimersKeep DEF Good
  <2>4. QED BY <2>2, <2>3, ForwardSame DEF Good
<1>4. CASE ~(c = Broadcast /\ ~Created(s))
  <2> DEFINE t == [idle EXCEPT !.shortPolling[c] = TRUE,
                               !.asks = @ \cup {<<c, s.height[c]>>}]
  <2>1. ShortPoll(s, c) = t
    BY <1>4 DEF ShortPoll
  <2>2. idle \in SessionState /\ s.height[c] \in Nat /\ s.height[Main] \in Nat
    BY <1>1, FieldTypes, ChainFacts DEF Good
  <2> HIDE DEF idle
  <2>3. t \in SessionState
    <3>1. [idle.shortPolling EXCEPT ![c] = TRUE] \in [Chains -> BOOLEAN]
      BY <2>2, FieldTypes
    <3>2. idle.asks \cup {<<c, s.height[c]>>} \in SUBSET (Chains \X Nat)
      BY <2>2, FieldTypes
    <3>3. QED BY <2>2, <3>1, <3>2 DEF SessionState
  <2>4. /\ t.tip = idle.tip /\ t.height = idle.height /\ t.waiting = idle.waiting
        /\ t.failed = idle.failed /\ t.log = idle.log
        /\ t.asks = idle.asks \cup {<<c, s.height[c]>>}
    BY <2>2 DEF SessionState
  <2> HIDE DEF t
  <2>5. WithinServer(t, n) /\ LogIsChain(t, n)
    BY <1>1, <2>4 DEF Good, WithinServer, LogIsChain, Created
  <2>6. AsksKnown(t)
    BY <1>1, <1>2, <1>4, <2>2, <2>4, ChainFacts DEF Good, AsksKnown, Created
  <2>7. Forward(s, t)
    BY <1>2, <2>4, ForwardSame DEF Good
  <2>8. QED BY <2>1, <2>3, <2>5, <2>6, <2>7 DEF Good
<1>5. QED BY <1>3, <1>4

\* A session that differs from a good one only in its timers, its polling and
\* its waiting blocks is good.
LEMMA SameCoreGood ==
  ASSUME NEW s, NEW t \in SessionState, NEW n, Good(s, n),
         t.tip = s.tip, t.height = s.height, t.failed = s.failed,
         t.log = s.log, t.asks = s.asks,
         \A c \in Chains : t.waiting[c] \subseteq 0 .. n[c] - 1
  PROVE  Good(t, n) /\ Forward(s, t)
<1>1. Good(t, n)
  BY DEF Good, WithinServer, LogIsChain, AsksKnown, Created
<1>2. Forward(s, t)
  BY ForwardSame DEF Good
<1>3. QED BY <1>1, <1>2

-----------------------------------------------------------------------------
(* Taking blocks. Extended says what the main chain is once the blocks up   *)
(* to next - 1 were applied, before the height is moved.                    *)

Extended(s, t, next) ==
  /\ t \in SessionState
  /\ t.tip = next - 1
  /\ t.failed <=> ~Member(next - 1)
  /\ t.log = [s.log EXCEPT ![Main] = Run(JoinIndex, next)]
  /\ t.height = s.height /\ t.waiting = s.waiting /\ t.asks = s.asks
  /\ t.shortPolling = s.shortPolling

\* The blocks after the tip extend the chain, and the session fails exactly
\* if the last of them lacks the user: once removed, never a member again.
LEMMA ExtendWithExtends ==
  ASSUME NEW s \in SessionState, NEW first \in Nat, NEW next \in Nat,
         first < next, Created(s), ~s.failed, s.tip = first - 1,
         JoinIndex <= s.tip, s.log[Main] = Run(JoinIndex, first)
  PROVE  Extended(s, ExtendWith(s, first, next), next)
<1> DEFINE t == ExtendWith(s, first, next)
<1>1. /\ s.tip \in Nat /\ s.failed = FALSE
      /\ s.log \in [Chains -> Seq(Nat)] /\ s.log[Main] \in Seq(Nat)
  BY FieldTypes, ChainFacts DEF Created
<1>2. s.log[Main] \o Run(first, next) = Run(JoinIndex, next)
  <2>1. JoinIndex \in Nat /\ JoinIndex <= first /\ first <= next
    BY <1>1, ChainFacts
  <2>2. Run(JoinIndex, first) \o Run(first, next) = Run(JoinIndex, next)
    BY <2>1, RunConcat
  <2>3. QED BY <2>2
<1>3. Run(JoinIndex, next) \in Seq(Nat)
  BY RunType, ChainFacts
<1>4. (\E i \in first .. next - 1 : ~Member(i)) <=> ~Member(next - 1)
  <2>1. ASSUME NEW i \in first .. next - 1, ~Member(i) PROVE ~Member(next - 1)
    BY <1>1, <2>1, ChainFacts DEF Member
  <2>2. next - 1 \in first .. next - 1
    OBVIOUS
  <2>3. QED BY <2>1, <2>2
<1>5. Larger(s.tip, next - 1) = next - 1 /\ next - 1 \in Nat
  BY <1>1 DEF Larger
<1>6. t.tip = next - 1
  BY <1>1, <1>5 DEF ExtendWith, SessionState
<1>7. t.failed = (\E i \in first .. next - 1 : ~Member(i))
  BY <1>1 DEF ExtendWith, SessionState
<1>8. t.log = [s.log EXCEPT ![Main] = Run(JoinIndex, next)]
  BY <1>2 DEF ExtendWith, SessionState
<1>9. /\ t.height = s.height /\ t.waiting = s.waiting /\ t.asks = s.asks
      /\ t.shortPolling = s.shortPolling
  BY DEF ExtendWith, SessionState
<1>10. t \in SessionState
  <2>1. s.log[Main] \o Run(first, next) \in Seq(Nat)
    BY <1>2, <1>3
  <2>2. (IF first <= s.tip + 1 THEN Larger(s.tip, next - 1) ELSE s.tip) \in Nat
    BY <1>1, <1>5
  <2>3. QED BY <2>1, <2>2 DEF ExtendWith, SessionState
<1>11. QED BY <1>4, <1>6, <1>7, <1>8, <1>9, <1>10 DEF Extended

\* The block that added the user starts the chain.
LEMMA CreateFromExtends ==
  ASSUME NEW s \in SessionState, ~s.failed, s.log[Main] = <<>>
  PROVE  Extended(s, CreateFrom(s, JoinIndex), JoinIndex + 1)
<1> DEFINE t == CreateFrom(s, JoinIndex)
<1>1. JoinIndex \in Nat /\ Member(JoinIndex)
  BY ChainFacts DEF Member
<1>2. Append(s.log[Main], JoinIndex) = Run(JoinIndex, JoinIndex + 1)
  BY <1>1, RunOne
<1>3. t.tip = JoinIndex /\ t.failed = FALSE
  BY <1>1, FieldTypes DEF CreateFrom, SessionState
<1>4. t.log = [s.log EXCEPT ![Main] = Run(JoinIndex, JoinIndex + 1)]
  BY <1>2 DEF CreateFrom, SessionState
<1>5. /\ t.height = s.height /\ t.waiting = s.waiting /\ t.asks = s.asks
      /\ t.shortPolling = s.shortPolling
  BY DEF CreateFrom, SessionState
<1>6. t \in SessionState
  <2>1. Run(JoinIndex, JoinIndex + 1) \in Seq(Nat)
    BY <1>1, RunType
  <2>2. [c \in Chains |-> s.pollTimer[c] \/ (Member(JoinIndex) /\ ~s.waitingActive[c])]
          \in [Chains -> BOOLEAN]
    BY <1>1, FieldTypes
  <2>3. QED BY <1>1, <1>2, <2>1, <2>2 DEF CreateFrom, SessionState
<1>7. JoinIndex + 1 - 1 = JoinIndex
  BY <1>1
<1>8. QED BY <1>1, <1>3, <1>4, <1>5, <1>6, <1>7 DEF Extended

\* Taking the main blocks first .. next - 1, first being the next to apply.
LEMMA ApplyMainExtends ==
  ASSUME NEW s, NEW n, Good(s, n), ~s.failed,
         NEW first \in Nat, NEW next \in Nat, first < next,
         first = IF Created(s) THEN s.tip + 1 ELSE JoinIndex
  PROVE  Extended(s, Apply(s, Main, first, next), next)
<1>1. /\ s \in SessionState /\ Main # Broadcast
      /\ JoinIndex \in Nat /\ Main \in Chains
      /\ s.log \in [Chains -> Seq(Nat)] /\ s.tip \in Nat \cup {-1}
  BY ChainFacts, FieldTypes DEF Good
<1>2. CASE Created(s)
  <2>1. Apply(s, Main, first, next) = ExtendWith(s, first, next)
    BY <1>1, <1>2 DEF Apply
  <2>2. /\ s.tip = first - 1 /\ JoinIndex <= s.tip
        /\ s.log[Main] = Run(JoinIndex, first)
    BY <1>1, <1>2 DEF Good, LogIsChain, Created
  <2>3. QED BY <1>1, <1>2, <2>1, <2>2, ExtendWithExtends
<1>3. CASE ~Created(s)
  <2> DEFINE u == CreateFrom(s, JoinIndex)
  <2>1. Extended(s, u, JoinIndex + 1)
    BY <1>1, <1>3, CreateFromExtends DEF Good, LogIsChain
  <2>2. CASE first + 1 = next
    <3>1. Apply(s, Main, first, next) = u
      BY <1>1, <1>3, <2>2 DEF Apply
    <3>2. next = JoinIndex + 1
      BY <1>3, <2>2
    <3>3. QED BY <2>1, <3>1, <3>2
  <2>3. CASE first + 1 # next
    <3>1. Apply(s, Main, first, next) = ExtendWith(u, JoinIndex + 1, next)
      BY <1>1, <1>3, <2>3 DEF Apply
    <3>2. /\ u \in SessionState /\ u.tip = JoinIndex /\ Created(u) /\ ~u.failed
          /\ u.log = [s.log EXCEPT ![Main] = Run(JoinIndex, JoinIndex + 1)]
      BY <1>1, <2>1, ChainFacts DEF Extended, Created, Member
    <3> HIDE DEF u
    <3>3. u.log[Main] = Run(JoinIndex, JoinIndex + 1)
      BY <1>1, <3>2
    <3>4. /\ JoinIndex + 1 \in Nat /\ JoinIndex + 1 < next
          /\ u.tip = (JoinIndex + 1) - 1 /\ JoinIndex <= u.tip
      BY <1>1, <1>3, <2>3, <3>2
    <3>5. Extended(u, ExtendWith(u, JoinIndex + 1, next), next)
      BY <3>2, <3>3, <3>4, ExtendWithExtends
    <3>6. [u.log EXCEPT ![Main] = Run(JoinIndex, next)]
          = [s.log EXCEPT ![Main] = Run(JoinIndex, next)]
      BY <1>1, <3>2
    <3>7. QED BY <2>1, <3>1, <3>5, <3>6 DEF Extended
  <2>4. QED BY <2>2, <2>3
<1>4. QED BY <1>2, <1>3

\* Handing over broadcasts changes the log of the broadcast chain alone.
LEMMA ApplyBroadcastKeeps ==
  ASSUME NEW s \in SessionState, Created(s),
         NEW first \in Nat, NEW next \in Nat
  PROVE  LET t == Apply(s, Broadcast, first, next)
         IN  /\ t \in SessionState
             /\ t.tip = s.tip /\ t.failed = s.failed /\ t.height = s.height
             /\ t.waiting = s.waiting /\ t.asks = s.asks
             /\ t.shortPolling = s.shortPolling /\ t.log[Main] = s.log[Main]
<1>1. CASE first >= next
  BY <1>1 DEF Apply
<1>2. CASE ~(first >= next)
  <2> DEFINE t == [s EXCEPT !.log[Broadcast] = @ \o Run(first, next)]
  <2>1. Apply(s, Broadcast, first, next) = t
    BY <1>2 DEF Apply, TakeBroadcast
  <2>2. [s.log EXCEPT ![Broadcast] = @ \o Run(first, next)] \in [Chains -> Seq(Nat)]
    <3>1. Run(first, next) \in Seq(Nat) /\ s.log[Broadcast] \in Seq(Nat)
      BY RunType, FieldTypes, ChainFacts
    <3>2. s.log[Broadcast] \o Run(first, next) \in Seq(Nat)
      BY <3>1
    <3>3. QED BY <3>2, FieldTypes
  <2>3. t \in SessionState
    BY <2>2 DEF SessionState
  <2>4. /\ t.tip = s.tip /\ t.failed = s.failed /\ t.height = s.height
        /\ t.waiting = s.waiting /\ t.asks = s.asks
        /\ t.shortPolling = s.shortPolling
        /\ t.log = [s.log EXCEPT ![Broadcast] = @ \o Run(first, next)]
    BY DEF SessionState
  <2>5. t.log[Main] = s.log[Main]
    BY <2>4, FieldTypes, ChainFacts
  <2>6. QED BY <2>1, <2>3, <2>4, <2>5
<1>3. QED BY <1>1, <1>2

\* Once the blocks up to next - 1 were applied, moving the height to next, or
\* anywhere when the session failed, restores the invariant.
LEMMA MainMoved ==
  ASSUME NEW s, NEW n, Produced(n), Good(s, n),
         NEW t, NEW next \in Nat, Extended(s, t, next),
         next <= n[Main], JoinIndex < next, s.tip < next,
         NEW h \in Nat, s.height[Main] <= h, h <= n[Main],
         Member(next - 1) => h = next,
         NEW W \in [Chains -> SUBSET Nat],
         \A c \in Chains : W[c] \subseteq 0 .. n[c] - 1,
         NEW u, u = [t EXCEPT !.height[Main] = h, !.waiting = W]
  PROVE  Good(u, n) /\ Forward(s, u)
<1>1. /\ s \in SessionState /\ t \in SessionState
      /\ s.log \in [Chains -> Seq(Nat)] /\ s.height \in [Chains -> Nat]
      /\ s.tip \in Int /\ Main \in Chains /\ Broadcast \in Chains
      /\ Main # Broadcast /\ JoinIndex \in Nat
      /\ n \in [Chains -> Nat]
      /\ \A c \in Chains : c = Main \/ c = Broadcast
  BY FieldTypes, ChainFacts DEF Good, Extended, Produced
<1>2. [s.height EXCEPT ![Main] = h] \in [Chains -> Nat]
  BY <1>1
<1>3. u \in SessionState
  <2>1. t.height = s.height
    BY DEF Extended
  <2>2. QED BY <1>1, <1>2, <2>1 DEF SessionState
<1>4. /\ u.tip = next - 1 /\ u.failed = t.failed
      /\ u.log = t.log /\ u.asks = s.asks
      /\ u.height = [s.height EXCEPT ![Main] = h] /\ u.waiting = W
  BY <1>1 DEF SessionState, Extended
<1>5. /\ u.height[Main] = h /\ u.height[Broadcast] = s.height[Broadcast]
      /\ u.log[Main] = Run(JoinIndex, next)
      /\ u.failed <=> ~Member(next - 1)
  BY <1>1, <1>4 DEF Extended
<1>6. WithinServer(u, n)
  BY <1>1, <1>4, <1>5 DEF WithinServer, Good
<1>7. LogIsChain(u, n)
  <2>1. next = u.tip + 1 /\ u.tip \in Nat
    BY <1>1, <1>4
  <2>2. Created(u)
    BY <2>1 DEF Created
  <2>3. JoinIndex <= u.tip /\ u.tip < n[Main] /\ u.log[Main] = Run(JoinIndex, u.tip + 1)
    BY <1>1, <1>4, <1>5, <2>1
  <2>4. ~u.failed => u.height[Main] = u.tip + 1
    BY <1>5, <2>1
  <2>5. u.failed <=> ~Member(u.tip)
    BY <1>4, <1>5
  <2>6. QED BY <2>2, <2>3, <2>4, <2>5 DEF LogIsChain
<1>8. AsksKnown(u)
  <2>1. Created(u)
    BY <1>1, <1>4 DEF Created
  <2>2. \A a \in s.asks : a[2] \in Nat
    BY <1>1, FieldTypes
  <2>3. QED BY <1>1, <1>4, <1>5, <2>1, <2>2 DEF AsksKnown, Good
<1>9. Forward(s, u)
  BY <1>1, <1>4, <1>5 DEF Forward
<1>10. QED BY <1>3, <1>6, <1>7, <1>8, <1>9 DEF Good

-----------------------------------------------------------------------------
(* Blocks that came early.                                                  *)

\* There is a first index that is not waiting, and the server has produced
\* every index before it.
LEMMA GapAfterExists ==
  ASSUME NEW s, NEW n, NEW c \in Chains, Produced(n), Good(s, n)
  PROVE  /\ GapAfter(s, c) \in Nat
         /\ s.height[c] <= GapAfter(s, c)
         /\ GapAfter(s, c) <= n[c]
<1> DEFINE h == s.height[c]
           free == {i \in h .. MaxLen(c) : i \notin s.waiting[c]}
<1>1. /\ h \in Nat /\ MaxLen(c) \in Nat /\ n[c] \in Nat /\ n[c] <= MaxLen(c)
      /\ h <= n[c] /\ s.waiting[c] \subseteq 0 .. n[c] - 1
  BY FieldTypes, ChainFacts DEF Good, Produced, WithinServer
<1>2. free \subseteq Nat
  BY <1>1
<1>3. MaxLen(c) \in free
  BY <1>1
<1>4. PICK m \in free : \A x \in free : m <= x
  BY <1>2, <1>3, LeastExists
<1>5. h .. m - 1 \subseteq s.waiting[c]
  <2>1. ASSUME NEW i \in h .. m - 1, i \notin s.waiting[c] PROVE FALSE
    <3>1. i \in free
      BY <1>1, <1>2, <1>4, <2>1
    <3>2. QED BY <1>1, <1>2, <1>4, <2>1, <3>1
  <2>2. QED BY <2>1
<1>6. \E i \in h .. MaxLen(c) : /\ h .. i - 1 \subseteq s.waiting[c]
                                /\ i \notin s.waiting[c]
  BY <1>4, <1>5
<1> DEFINE gap == GapAfter(s, c)
<1>7. gap \in h .. MaxLen(c) /\ h .. gap - 1 \subseteq s.waiting[c]
  BY <1>6 DEF GapAfter
<1> HIDE DEF gap, h
<1>8. gap <= n[c]
  <2>1. CASE gap = h
    BY <1>1, <2>1
  <2>2. CASE gap # h
    <3>1. gap - 1 \in h .. gap - 1
      BY <1>1, <1>7, <2>2
    <3>2. gap - 1 \in 0 .. n[c] - 1
      BY <1>1, <1>7, <3>1
    <3>3. QED BY <1>1, <1>7, <3>2
  <2>3. QED BY <2>1, <2>2
<1>9. QED BY <1>1, <1>7, <1>8 DEF gap, h

\* Draining the waiting blocks preserves the invariant.
LEMMA DrainGood ==
  ASSUME NEW s, NEW n, NEW c \in Chains, Produced(n), Good(s, n),
         Created(s), ~s.failed
  PROVE  Good(Drain(s, c), n) /\ Forward(s, Drain(s, c))
<1> DEFINE h    == s.height[c]
           gap  == GapAfter(s, c)
           bad  == {i \in h .. gap - 1 : c = Main /\ (h # s.tip + 1 \/ ~Member(i))}
           stop == IF bad = {} THEN gap
                   ELSE CHOOSE i \in bad : \A j \in bad : i <= j
           done == Apply(s, c, h, IF bad = {} THEN gap ELSE stop + 1)
           u    == [done EXCEPT !.height[c] = stop,
                                !.waiting[c] = {i \in @ : i >= stop}]
<1>1. Drain(s, c) = u
  BY DEF Drain
<1>2. /\ gap \in Nat /\ h \in Nat /\ h <= gap /\ gap <= n[c]
      /\ s \in SessionState /\ JoinIndex \in Nat /\ LeaveIndex \in Nat
      /\ s.tip \in Nat /\ s.waiting \in [Chains -> SUBSET Nat]
      /\ n \in [Chains -> Nat] /\ s.height \in [Chains -> Nat]
      /\ \A d \in Chains : s.waiting[d] \subseteq 0 .. n[d] - 1
  BY GapAfterExists, FieldTypes, ChainFacts DEF Good, Created, WithinServer, Produced
<1>3. CASE c = Broadcast
  <2>1. bad = {} /\ stop = gap /\ done = Apply(s, c, h, gap)
    BY <1>3, ChainFacts
  <2> HIDE DEF gap, bad, stop
  <2>2. /\ done \in SessionState
        /\ done.tip = s.tip /\ done.failed = s.failed /\ done.height = s.height
        /\ done.waiting = s.waiting /\ done.asks = s.asks
        /\ done.log[Main] = s.log[Main]
    BY <1>2, <1>3, <2>1, ApplyBroadcastKeeps
  <2> HIDE DEF done, h
  <2>3. /\ u \in SessionState /\ u.tip = s.tip /\ u.failed = s.failed
        /\ u.asks = s.asks /\ u.log[Main] = s.log[Main]
        /\ u.height = [s.height EXCEPT ![c] = gap]
        /\ u.waiting = [s.waiting EXCEPT ![c] = {i \in @ : i >= stop}]
    <3>1. [s.height EXCEPT ![c] = gap] \in [Chains -> Nat]
      BY <1>2
    <3>2. [s.waiting EXCEPT ![c] = {i \in @ : i >= stop}] \in [Chains -> SUBSET Nat]
      BY <1>2
    <3>3. QED BY <2>1, <2>2, <3>1, <3>2 DEF SessionState
  <2>4. u.height[Main] = s.height[Main] /\ u.height[c] = gap
    BY <1>2, <1>3, <2>3, ChainFacts
  <2>5. WithinServer(u, n)
    BY <1>2, <1>3, <2>3, <2>4, ChainFacts DEF Good, WithinServer
  <2>6. LogIsChain(u, n) /\ AsksKnown(u)
    BY <2>3, <2>4 DEF Good, LogIsChain, AsksKnown, Created
  <2>7. Forward(s, u)
    BY <1>2, <2>3, <2>4, ChainFacts DEF Forward
  <2>8. QED BY <1>1, <2>3, <2>5, <2>6, <2>7 DEF Good
<1>4. CASE c = Main
  <2>1. /\ h = s.tip + 1 /\ JoinIndex <= s.tip /\ s.tip < LeaveIndex
    BY <1>4 DEF Good, LogIsChain, Member
  <2>2. bad = {i \in h .. gap - 1 : LeaveIndex <= i}
    BY <1>2, <1>4, <2>1 DEF Member
  <2> DEFINE W == [s.waiting EXCEPT ![c] = {i \in @ : i >= stop}]
  <2>3. W \in [Chains -> SUBSET Nat] /\ \A d \in Chains : W[d] \subseteq 0 .. n[d] - 1
    BY <1>2
  <2>4. CASE bad = {} /\ h < gap
    <3>1. stop = gap /\ done = Apply(s, Main, h, gap)
      BY <1>4, <2>4
    <3>2. Extended(s, done, gap)
      BY <1>2, <2>1, <2>4, <3>1, ApplyMainExtends
    <3> HIDE DEF done, bad, stop, gap, h
    <3>3. u = [done EXCEPT !.height[Main] = gap, !.waiting = W]
      BY <1>4, <3>1, <3>2 DEF Extended, SessionState
    <3> HIDE DEF W, u
    <3>4. s.height[Main] <= gap /\ gap <= n[Main] /\ JoinIndex < gap /\ s.tip < gap
      BY <1>2, <1>4, <2>1 DEF h
    <3>5. Member(gap - 1) => gap = gap
      OBVIOUS
    <3>6. gap \in Nat /\ gap <= n[Main]
      BY <1>2, <1>4
    <3>7. Good(u, n) /\ Forward(s, u)
      BY <2>3, <3>2, <3>3, <3>4, <3>5, <3>6, MainMoved, Zenon
    <3>8. QED BY <1>1, <3>7
  <2>5. CASE bad = {} /\ h = gap
    <3>1. stop = gap /\ done = s
      BY <1>2, <2>5 DEF Apply
    <3> HIDE DEF bad, stop, gap
    <3>2. /\ u \in SessionState /\ u.tip = s.tip /\ u.height = s.height
          /\ u.failed = s.failed /\ u.log = s.log /\ u.asks = s.asks
          /\ u.waiting = W
      <4>1. [s.height EXCEPT ![c] = gap] = s.height
        BY <1>2, <2>5
      <4>2. QED BY <1>2, <2>3, <3>1, <4>1 DEF SessionState
    <3> HIDE DEF u
    <3>3. QED BY <1>1, <2>3, <3>2, SameCoreGood
  <2>6. CASE bad # {}
    <3>1. LeaveIndex \in bad /\ \A j \in bad : LeaveIndex <= j
      BY <1>2, <2>1, <2>2, <2>6
    <3>2. stop = LeaveIndex
      <4>1. \A i \in bad : (\A j \in bad : i <= j) => i = LeaveIndex
        BY <1>2, <2>2, <3>1
      <4>2. QED BY <2>6, <3>1, <4>1
    <3>3. h <= LeaveIndex /\ LeaveIndex < gap
      BY <1>2, <2>2, <3>1
    <3> DEFINE next == LeaveIndex + 1
    <3> HIDE DEF bad, stop, gap, h
    <3>4. done = Apply(s, Main, h, next)
      BY <1>4, <2>6, <3>2
    <3>5. Extended(s, done, next)
      BY <1>2, <2>1, <3>3, <3>4, ApplyMainExtends
    <3> HIDE DEF done
    <3>6. u = [done EXCEPT !.height[Main] = LeaveIndex, !.waiting = W]
      BY <1>4, <3>2, <3>5 DEF Extended, SessionState
    <3> HIDE DEF W, u
    <3>7. /\ s.height[Main] <= LeaveIndex /\ next <= n[Main]
          /\ LeaveIndex <= n[Main] /\ JoinIndex < next /\ s.tip < next
      BY <1>2, <1>4, <2>1, <3>3, ChainFacts DEF h
    <3>8. LeaveIndex \in Nat /\ next \in Nat
      BY <1>2
    <3>9. Member(next - 1) => LeaveIndex = next
      BY <1>2 DEF Member
    <3> HIDE DEF next
    <3>10. Good(u, n) /\ Forward(s, u)
      BY <2>3, <3>5, <3>6, <3>7, <3>8, <3>9, MainMoved, Zenon
    <3>11. QED BY <1>1, <3>10
  <2>7. QED BY <1>2, <2>4, <2>5, <2>6
<1>5. QED BY <1>3, <1>4, ChainFacts

\* Steps forward compose.
LEMMA ForwardTrans ==
  ASSUME NEW s \in SessionState, NEW t \in SessionState, NEW u \in SessionState,
         Forward(s, t), Forward(t, u)
  PROVE  Forward(s, u)
<1>1. /\ s.tip \in Int /\ t.tip \in Int /\ u.tip \in Int
      /\ s.height[Main] \in Int /\ t.height[Main] \in Int /\ u.height[Main] \in Int
  BY FieldTypes, ChainFacts
<1>2. QED BY <1>1 DEF Forward

\* Looking through the waiting blocks preserves the invariant.
LEMMA CheckWaitingBlocksGood ==
  ASSUME NEW s, NEW n, NEW c \in Chains, NEW waited \in BOOLEAN,
         Produced(n), Good(s, n)
  PROVE  LET t == CheckWaitingBlocks(s, c, waited)
         IN  Good(t, n) /\ Forward(s, t)
<1> DEFINE t == CheckWaitingBlocks(s, c, waited)
           idle == CancelShortPoll(s, c)
           drained == Drain(idle, c)
<1> SUFFICES Good(t, n) /\ Forward(s, t)
  OBVIOUS
<1>1. /\ s \in SessionState /\ s.tip = s.tip /\ s.height = s.height
      /\ Good(ScheduleWaiting(s, c), n) /\ ScheduleWaiting(s, c) \in SessionState
  BY TimersGood DEF Good
<1>2. CASE s.failed
  <2>1. t = s
    BY <1>2 DEF CheckWaitingBlocks
  <2>2. QED BY <1>1, <2>1, ForwardSame
<1>3. CASE ~s.failed /\ ~Created(s)
  <2>1. t = ScheduleWaiting(s, c)
    BY <1>3 DEF CheckWaitingBlocks
  <2>2. t.tip = s.tip /\ t.height = s.height
    BY <1>1, <2>1, TimersKeep
  <2>3. QED BY <1>1, <2>1, <2>2, ForwardSame
<1>4. CASE ~s.failed /\ Created(s) /\ s.shortPolling[c]
  <2>1. t = s
    BY <1>4 DEF CheckWaitingBlocks
  <2>2. QED BY <1>1, <2>1, ForwardSame
<1>5. CASE ~s.failed /\ Created(s) /\ ~s.shortPolling[c]
  <2>1. /\ Good(idle, n) /\ idle \in SessionState
        /\ idle.tip = s.tip /\ idle.height = s.height /\ idle.failed = s.failed
    BY <1>1, TimersGood, TimersKeep DEF Good
  <2>2. Forward(s, idle)
    BY <1>1, <2>1, ForwardSame
  <2>3. Created(idle) /\ ~idle.failed
    BY <1>5, <2>1 DEF Created
  <2>4. Good(drained, n) /\ Forward(idle, drained) /\ drained \in SessionState
    BY <2>1, <2>3, DrainGood DEF Good
  <2>5. Forward(s, drained)
    BY <1>1, <2>1, <2>2, <2>4, ForwardTrans
  <2>6. t = IF drained.failed THEN drained
            ELSE IF drained.waiting[c] = {}
            THEN ScheduleShortPoll(CancelWaiting(drained, c), c)
            ELSE IF waited THEN ShortPoll(drained, c)
            ELSE ScheduleWaiting(drained, c)
    BY <1>5 DEF CheckWaitingBlocks
  <2> HIDE DEF t, idle, drained
  <2>7. CASE t = drained
    BY <2>4, <2>5, <2>7
  <2>8. CASE t = ScheduleShortPoll(CancelWaiting(drained, c), c)
    <3>1. /\ Good(CancelWaiting(drained, c), n)
          /\ CancelWaiting(drained, c) \in SessionState
          /\ CancelWaiting(drained, c).tip = drained.tip
          /\ CancelWaiting(drained, c).height = drained.height
      BY <2>4, TimersGood, TimersKeep DEF Good
    <3>2. Good(t, n) /\ t \in SessionState /\ t.tip = drained.tip
          /\ t.height = drained.height
      BY <2>8, <3>1, TimersGood, TimersKeep DEF Good
    <3>3. QED BY <1>1, <2>4, <2>5, <3>2, ForwardSame, ForwardTrans
  <2>9. CASE t = ShortPoll(drained, c)
    <3>1. Good(t, n) /\ Forward(drained, t) /\ t \in SessionState
      BY <2>4, <2>9, ShortPollGood DEF Good
    <3>2. QED BY <1>1, <2>4, <2>5, <3>1, ForwardTrans
  <2>10. CASE t = ScheduleWaiting(drained, c)
    <3>1. Good(t, n) /\ t \in SessionState /\ t.tip = drained.tip
          /\ t.height = drained.height
      BY <2>4, <2>10, TimersGood, TimersKeep DEF Good
    <3>2. QED BY <1>1, <2>4, <2>5, <3>1, ForwardSame, ForwardTrans
  <2>11. QED BY <2>6, <2>7, <2>8, <2>9, <2>10 DEF t
<1>6. QED BY <1>2, <1>3, <1>4, <1>5

\* The end of a request preserves the invariant.
LEMMA FinishSubchainRequestGood ==
  ASSUME NEW s, NEW n, NEW c \in Chains, Produced(n), Good(s, n)
  PROVE  LET t == FinishSubchainRequest(s, c)
         IN  Good(t, n) /\ Forward(s, t)
<1> DEFINE u == [s EXCEPT !.shortPolling[c] = FALSE]
<1>1. CASE s.failed
  <2>1. FinishSubchainRequest(s, c) = s
    BY <1>1 DEF FinishSubchainRequest
  <2>2. QED BY <2>1, ForwardSame DEF Good
<1>2. CASE ~s.failed
  <2>1. /\ u \in SessionState /\ u.tip = s.tip /\ u.height = s.height
        /\ u.failed = s.failed /\ u.log = s.log /\ u.asks = s.asks
        /\ u.waiting = s.waiting
    BY DEF Good, SessionState
  <2>2. FinishSubchainRequest(s, c) = CheckWaitingBlocks(u, c, FALSE)
    BY <1>2 DEF FinishSubchainRequest
  <2> HIDE DEF u
  <2>3. Good(u, n) /\ Forward(s, u)
    BY <2>1, SameCoreGood DEF Good, WithinServer
  <2>4. /\ Good(CheckWaitingBlocks(u, c, FALSE), n)
        /\ Forward(u, CheckWaitingBlocks(u, c, FALSE))
    BY <2>3, CheckWaitingBlocksGood
  <2>5. QED BY <2>1, <2>2, <2>3, <2>4, ForwardTrans DEF Good
<1>3. QED BY <1>1, <1>2

-----------------------------------------------------------------------------
(* An update or a page. The blocks were produced, those of the main chain   *)
(* begin at the one that added the user or later, and a page was fetched    *)
(* from a height the session had then.                                      *)

Applicable(s, n, c, first, next, fromShortPoll) ==
  /\ first < next
  /\ next <= n[c]
  /\ c = Main => JoinIndex <= first
  /\ c = Main /\ fromShortPoll => first <= Larger(s.height[Main], JoinIndex)
  /\ c = Broadcast /\ fromShortPoll => Created(s)

\* Applying the blocks of the main chain that are next.
LEMMA ApplyMainGood ==
  ASSUME NEW s, NEW n, Produced(n), Good(s, n), ~s.failed,
         NEW first \in Nat, NEW next \in Nat, NEW fromShortPoll \in BOOLEAN,
         Applicable(s, n, Main, first, next, fromShortPoll),
         fromShortPoll \/ ~TooEarly(s, Main, first)
  PROVE  LET t == [Apply(s, Main, FirstApplied(s, Main, first), next)
                     EXCEPT !.height[Main] = HeightAfter(s, Main, next)]
         IN  Good(t, n) /\ Forward(s, t)
<1> DEFINE f == FirstApplied(s, Main, first)
           H == HeightAfter(s, Main, next)
           done == Apply(s, Main, f, next)
           t == [done EXCEPT !.height[Main] = H]
<1>1. /\ s \in SessionState /\ s.height[Main] \in Nat /\ s.tip \in Nat \cup {-1}
      /\ s.height \in [Chains -> Nat] /\ s.waiting \in [Chains -> SUBSET Nat]
      /\ s.height[Main] <= n[Main] /\ n[Main] \in Nat
      /\ \A c \in Chains : s.waiting[c] \subseteq 0 .. n[c] - 1
      /\ JoinIndex \in Nat /\ Main \in Chains
      /\ first < next /\ next <= n[Main] /\ JoinIndex <= first
      /\ fromShortPoll => first <= Larger(s.height[Main], JoinIndex)
  BY FieldTypes, ChainFacts DEF Good, WithinServer, Produced, Applicable
<1>2. /\ Created(s) => /\ s.height[Main] = s.tip + 1 /\ JoinIndex <= s.tip
      /\ ~Created(s) => s.height[Main] = 0 /\ s.tip = -1
  BY DEF Good, LogIsChain, Created
<1>3. first <= Larger(s.height[Main], JoinIndex)
  BY <1>1 DEF TooEarly, Larger
<1>4. f = IF Created(s) THEN s.tip + 1 ELSE JoinIndex
  BY <1>1, <1>2, <1>3, ChainFacts DEF FirstApplied, Larger
<1>5. H \in Nat /\ s.height[Main] <= H /\ H <= n[Main] /\ f \in Nat
  BY <1>1, <1>2, <1>4 DEF HeightAfter, Larger, Created
<1>6. CASE f < next
  <2> HIDE DEF f
  <2>1. Extended(s, done, next)
    BY <1>1, <1>4, <1>5, <1>6, ApplyMainExtends
  <2>2. H = next
    BY <1>1, <1>2, <1>4, <1>6 DEF HeightAfter, Larger
  <2>3. JoinIndex < next /\ s.tip < next
    BY <1>1, <1>2, <1>4, <1>6
  <2> HIDE DEF done, H
  <2>4. t = [done EXCEPT !.height[Main] = H, !.waiting = s.waiting]
    BY <2>1 DEF Extended, SessionState
  <2>5. Member(next - 1) => H = next
    BY <2>2
  <2> HIDE DEF t
  <2>6. Good(t, n) /\ Forward(s, t)
    BY <1>1, <1>5, <2>1, <2>3, <2>4, <2>5, MainMoved, Zenon
  <2>7. QED BY <2>6 DEF t, done, f, H
<1>7. CASE ~(f < next)
  <2>1. done = s
    BY <1>1, <1>5, <1>7 DEF Apply
  <2>2. H = s.height[Main]
    BY <1>1, <1>2, <1>4, <1>5, <1>7 DEF HeightAfter, Larger
  <2>3. t = s
    <3>1. [s.height EXCEPT ![Main] = H] = s.height
      BY <1>1, <2>2
    <3>2. QED BY <1>1, <2>1, <3>1 DEF SessionState
  <2>4. QED BY <1>1, <2>3, ForwardSame
<1>8. QED BY <1>6, <1>7

\* Handing over the broadcasts that are next.
LEMMA ApplyBroadcastGood ==
  ASSUME NEW s, NEW n, Produced(n), Good(s, n), Created(s),
         NEW first \in Nat, NEW next \in Nat, next <= n[Broadcast]
  PROVE  LET t == [Apply(s, Broadcast, FirstApplied(s, Broadcast, first), next)
                     EXCEPT !.height[Broadcast] = HeightAfter(s, Broadcast, next)]
         IN  Good(t, n) /\ Forward(s, t)
<1> DEFINE f == FirstApplied(s, Broadcast, first)
           H == HeightAfter(s, Broadcast, next)
           done == Apply(s, Broadcast, f, next)
           t == [done EXCEPT !.height[Broadcast] = H]
<1>1. /\ s \in SessionState /\ s.height \in [Chains -> Nat]
      /\ Broadcast \in Chains /\ Main \in Chains /\ Main # Broadcast
      /\ s.height[Broadcast] \in Nat /\ s.height[Broadcast] <= n[Broadcast]
      /\ s.tip \in Int /\ s.height[Main] \in Int
  BY FieldTypes, ChainFacts DEF Good, WithinServer
<1>2. f \in Nat
  BY <1>1 DEF FirstApplied
<1>3. H \in Nat /\ H <= n[Broadcast]
  BY <1>1 DEF HeightAfter, Larger
<1> HIDE DEF f, H
<1>4. /\ done \in SessionState
      /\ done.tip = s.tip /\ done.failed = s.failed /\ done.height = s.height
      /\ done.waiting = s.waiting /\ done.asks = s.asks
      /\ done.log[Main] = s.log[Main]
  BY <1>1, <1>2, ApplyBroadcastKeeps
<1> HIDE DEF done
<1>5. /\ t \in SessionState /\ t.tip = s.tip /\ t.failed = s.failed
      /\ t.asks = s.asks /\ t.log[Main] = s.log[Main] /\ t.waiting = s.waiting
      /\ t.height = [s.height EXCEPT ![Broadcast] = H]
  <2>1. [s.height EXCEPT ![Broadcast] = H] \in [Chains -> Nat]
    BY <1>1, <1>3
  <2>2. QED BY <1>4, <2>1 DEF SessionState
<1> HIDE DEF t
<1>6. t.height[Main] = s.height[Main] /\ t.height[Broadcast] = H
  BY <1>1, <1>5
<1>7. WithinServer(t, n)
  BY <1>1, <1>3, <1>5, <1>6, ChainFacts DEF Good, WithinServer
<1>8. LogIsChain(t, n) /\ AsksKnown(t)
  BY <1>5, <1>6 DEF Good, LogIsChain, AsksKnown, Created
<1>9. Forward(s, t)
  BY <1>1, <1>5, <1>6 DEF Forward
<1>10. QED BY <1>5, <1>7, <1>8, <1>9 DEF Good, t, done, f, H

\* Applying an update or a page preserves the invariant.
LEMMA ApplyBlocksGood ==
  ASSUME NEW s, NEW n, NEW c \in Chains, Produced(n), Good(s, n),
         NEW first \in Nat, NEW next \in Nat, NEW fromShortPoll \in BOOLEAN,
         Applicable(s, n, c, first, next, fromShortPoll)
  PROVE  LET t == ApplyBlocks(s, c, first, next, fromShortPoll)
         IN  Good(t, n) /\ Forward(s, t)
<1> DEFINE t == ApplyBlocks(s, c, first, next, fromShortPoll)
           noted == NoteLastBlock(s, c, first, next)
           kept == [noted EXCEPT !.waiting[c] =
                      IF fromShortPoll THEN {i \in @ : i >= next} ELSE @]
           early == [kept EXCEPT !.waiting[c] = @ \cup (first .. next - 1)]
           taken == [Apply(kept, c, FirstApplied(s, c, first), next)
                       EXCEPT !.height[c] = HeightAfter(s, c, next)]
<1> SUFFICES Good(t, n) /\ Forward(s, t)
  OBVIOUS
<1>1. /\ s \in SessionState /\ s.waiting \in [Chains -> SUBSET Nat]
      /\ s.height \in [Chains -> Nat] /\ n \in [Chains -> Nat]
      /\ first < next /\ next <= n[c]
      /\ \A d \in Chains : s.waiting[d] \subseteq 0 .. n[d] - 1
  BY FieldTypes DEF Good, WithinServer, Produced, Applicable
<1>2. /\ noted \in SessionState /\ noted.tip = s.tip /\ noted.height = s.height
      /\ noted.failed = s.failed /\ noted.log = s.log /\ noted.asks = s.asks
      /\ noted.waiting = s.waiting
  <2>1. (IF c = Main /\ first < next /\ next > s.lastBlock THEN next ELSE s.lastBlock) \in Nat
    BY <1>1, FieldTypes
  <2>2. QED BY <1>1, <2>1 DEF NoteLastBlock, SessionState
<1> HIDE DEF noted
<1>3. /\ kept \in SessionState /\ kept.tip = s.tip /\ kept.height = s.height
      /\ kept.failed = s.failed /\ kept.log = s.log /\ kept.asks = s.asks
      /\ \A d \in Chains : kept.waiting[d] \subseteq 0 .. n[d] - 1
  <2> DEFINE W == [s.waiting EXCEPT ![c] =
                     IF fromShortPoll THEN {i \in @ : i >= next} ELSE @]
  <2>1. W \in [Chains -> SUBSET Nat] /\ \A d \in Chains : W[d] \subseteq 0 .. n[d] - 1
    BY <1>1
  <2>2. kept = [noted EXCEPT !.waiting = W]
    BY <1>2 DEF SessionState
  <2> HIDE DEF W, kept
  <2>3. QED BY <1>2, <2>1, <2>2 DEF SessionState
<1> HIDE DEF kept
<1>4. Good(kept, n) /\ Forward(s, kept)
  BY <1>3, SameCoreGood
<1>5. t = IF s.failed THEN kept
          ELSE IF ~fromShortPoll /\ TooEarly(s, c, first)
          THEN CheckWaitingBlocks(early, c, FALSE)
          ELSE CheckWaitingBlocks(taken, c, FALSE)
  <2>1. ~(fromShortPoll /\ c = Broadcast /\ ~Created(s) /\ first < next)
    BY DEF Applicable
  <2>2. QED BY <2>1 DEF ApplyBlocks, kept, noted
<1> HIDE DEF t
<1>6. CASE s.failed
  BY <1>4, <1>5, <1>6
<1>7. CASE ~s.failed /\ ~fromShortPoll /\ TooEarly(s, c, first)
  <2> DEFINE W == [kept.waiting EXCEPT ![c] = @ \cup (first .. next - 1)]
  <2>1. W \in [Chains -> SUBSET Nat] /\ \A d \in Chains : W[d] \subseteq 0 .. n[d] - 1
    BY <1>1, <1>3, FieldTypes
  <2>2. early = [kept EXCEPT !.waiting = W]
    BY <1>3 DEF SessionState
  <2> HIDE DEF W, early
  <2>3. /\ early \in SessionState /\ early.tip = s.tip /\ early.height = s.height
        /\ early.failed = s.failed /\ early.log = s.log /\ early.asks = s.asks
        /\ \A d \in Chains : early.waiting[d] \subseteq 0 .. n[d] - 1
    BY <1>3, <2>1, <2>2 DEF SessionState
  <2>4. Good(early, n) /\ Forward(s, early)
    BY <2>3, SameCoreGood
  <2>5. /\ Good(CheckWaitingBlocks(early, c, FALSE), n)
        /\ Forward(early, CheckWaitingBlocks(early, c, FALSE))
    BY <2>4, CheckWaitingBlocksGood
  <2>6. t = CheckWaitingBlocks(early, c, FALSE)
    BY <1>5, <1>7
  <2>7. QED BY <1>1, <2>3, <2>4, <2>5, <2>6, ForwardTrans DEF Good
<1>8. CASE ~s.failed /\ (fromShortPoll \/ ~TooEarly(s, c, first))
  <2>1. t = CheckWaitingBlocks(taken, c, FALSE)
    BY <1>5, <1>8
  <2>2. /\ FirstApplied(s, c, first) = FirstApplied(kept, c, first)
        /\ HeightAfter(s, c, next) = HeightAfter(kept, c, next)
        /\ TooEarly(s, c, first) = TooEarly(kept, c, first)
        /\ Applicable(kept, n, c, first, next, fromShortPoll)
        /\ Created(kept) = Created(s)
    BY <1>3 DEF FirstApplied, HeightAfter, TooEarly, Applicable, Created
  <2>3. Good(taken, n) /\ Forward(kept, taken)
    <3>1. CASE c = Main
      <4>1. /\ ~kept.failed /\ Applicable(kept, n, Main, first, next, fromShortPoll)
            /\ fromShortPoll \/ ~TooEarly(kept, Main, first)
        BY <1>3, <1>8, <2>2, <3>1
      <4>2. taken = [Apply(kept, Main, FirstApplied(kept, Main, first), next)
                       EXCEPT !.height[Main] = HeightAfter(kept, Main, next)]
        BY <2>2, <3>1
      <4> HIDE DEF taken
      <4>3. QED BY <1>4, <4>1, <4>2, ApplyMainGood
    <3>2. CASE c = Broadcast
      <4>1. Created(kept)
        BY <1>8, <2>2, <3>2 DEF Applicable, TooEarly
      <4>2. QED BY <1>1, <1>4, <2>2, <3>2, <4>1, ApplyBroadcastGood
    <3>3. QED BY <3>1, <3>2, ChainFacts
  <2> HIDE DEF taken
  <2>4. Forward(s, taken)
    BY <1>1, <1>3, <1>4, <2>3, ForwardTrans DEF Good
  <2>5. /\ Good(CheckWaitingBlocks(taken, c, FALSE), n)
        /\ Forward(taken, CheckWaitingBlocks(taken, c, FALSE))
    BY <2>3, CheckWaitingBlocksGood
  <2>6. QED BY <1>1, <2>1, <2>3, <2>4, <2>5, ForwardTrans DEF Good
<1>9. QED BY <1>6, <1>7, <1>8

-----------------------------------------------------------------------------
(* The specification.                                                       *)

\* Everything but the session and the server.
Surroundings ==
  /\ trimmed \in Nat
  /\ request \in [Slots -> [stage : {"free", "fetched", "answered"},
                           chain : Chains, first : Nat, next : Nat]]
  /\ pushes \in Nat /\ errors \in Nat /\ connects \in Nat

\* A fetched page can still be applied.
PagesApplicable ==
  \A r \in Slots : request[r].stage = "fetched" =>
    Applicable(session, server, request[r].chain, request[r].first,
               request[r].next, TRUE)

Inv ==
  /\ Produced(server)
  /\ Good(session, server)
  /\ Surroundings
  /\ PagesApplicable

\* What a step does to the session and to the server.
Advances ==
  /\ Good(session', server')
  /\ Forward(session, session')
  /\ Produced(server')
  /\ \A c \in Chains : server[c] <= server'[c]

\* An applicable page stays so while the session and the server advance.
LEMMA ApplicableStays ==
  ASSUME NEW s \in SessionState, NEW t \in SessionState, Forward(s, t),
         NEW n, NEW m, NEW c \in Chains,
         n \in [Chains -> Nat], m \in [Chains -> Nat], n[c] <= m[c],
         NEW first \in Nat, NEW next \in Nat,
         Applicable(s, n, c, first, next, TRUE)
  PROVE  Applicable(t, m, c, first, next, TRUE)
<1>1. /\ s.height[Main] \in Nat /\ t.height[Main] \in Nat /\ JoinIndex \in Nat
      /\ s.tip \in Nat \cup {-1} /\ t.tip \in Nat \cup {-1}
      /\ n[c] \in Nat /\ m[c] \in Nat
  BY FieldTypes, ChainFacts
<1>2. Created(s) => Created(t)
  BY <1>1 DEF Created, Forward
<1>3. Larger(s.height[Main], JoinIndex) <= Larger(t.height[Main], JoinIndex)
  BY <1>1 DEF Forward, Larger
<1>4. Larger(s.height[Main], JoinIndex) \in Nat /\ Larger(t.height[Main], JoinIndex) \in Nat
  BY <1>1 DEF Larger
<1>5. QED BY <1>1, <1>2, <1>3, <1>4 DEF Applicable

\* The initial states.
LEMMA InitInv == Init => Inv
<1> SUFFICES ASSUME Init PROVE Inv
  OBVIOUS
<1>1. /\ Main \in Chains /\ Broadcast \in Chains /\ Main # Broadcast
      /\ JoinIndex \in Nat /\ JoinIndex < MaxMain
      /\ \A c \in Chains : MaxLen(c) \in Nat
  BY ChainFacts
<1>2. Produced(server)
  <2>1. MaxLen(Main) = MaxMain /\ MaxMain \in Nat
    BY SessionAssumption DEF MaxLen
  <2>2. QED BY <1>1, <2>1 DEF Init, Produced
<1>3. session \in SessionState
  <2>1. [c \in Chains |-> <<>>] \in [Chains -> Seq(Nat)]
    OBVIOUS
  <2>2. QED BY <2>1 DEF Init, EmptySession, SessionState
<1>4. Good(session, server)
  <2>1. WithinServer(session, server)
    BY <1>1, <1>2 DEF Init, EmptySession, WithinServer, Produced
  <2>2. LogIsChain(session, server) /\ AsksKnown(session)
    BY <1>1 DEF Init, EmptySession, LogIsChain, AsksKnown, Created
  <2>3. QED BY <1>3, <2>1, <2>2 DEF Good
<1>5. Surroundings /\ PagesApplicable
  BY <1>1 DEF Init, NoRequest, Surroundings, PagesApplicable
<1>6. QED BY <1>2, <1>4, <1>5 DEF Inv

\* Every step preserves the invariant of the session and moves forward.
LEMMA NextAdvances == Inv /\ [Next]_vars => Advances
<1> SUFFICES ASSUME Inv, [Next]_vars PROVE Advances
  OBVIOUS
<1>1. /\ Good(session, server) /\ Produced(server) /\ session \in SessionState
      /\ server \in [Chains -> Nat] /\ Surroundings /\ PagesApplicable
  BY DEF Inv, Good, Produced
<1>2. Forward(session, session) /\ \A c \in Chains : server[c] <= server[c]
  BY <1>1, ForwardSame
<1>3. ASSUME UNCHANGED server, Good(session', server), Forward(session, session')
      PROVE  Advances
  BY <1>1, <1>2, <1>3 DEF Advances
<1>4. CASE Connect
  <2> DEFINE u == ShortPoll(session, Main)
  <2>1. Good(u, server) /\ Forward(session, u) /\ u \in SessionState
    BY <1>1, ShortPollGood, ChainFacts DEF Good
  <2> HIDE DEF u
  <2>2. Good(ShortPoll(u, Broadcast), server) /\ Forward(u, ShortPoll(u, Broadcast))
    BY <2>1, ShortPollGood, ChainFacts
  <2>3. session' = ShortPoll(u, Broadcast) /\ UNCHANGED server
    BY <1>4 DEF Connect, u
  <2>4. Forward(session, session')
    BY <1>1, <2>1, <2>2, <2>3, ForwardTrans DEF Good
  <2>5. QED BY <1>3, <2>2, <2>3, <2>4
<1>5. ASSUME NEW c \in Chains, WaitingTimer(c) PROVE Advances
  <2> DEFINE u == CancelWaiting(session, c)
  <2>1. Good(u, server) /\ u \in SessionState /\ u.tip = session.tip
        /\ u.height = session.height
    BY <1>1, TimersGood, TimersKeep DEF Good
  <2>2. session' = CheckWaitingBlocks(u, c, TRUE) /\ UNCHANGED server
    BY <1>5 DEF WaitingTimer
  <2> HIDE DEF u
  <2>3. Good(session', server) /\ Forward(u, session')
    BY <1>1, <2>1, <2>2, CheckWaitingBlocksGood
  <2>4. Forward(session, session')
    BY <1>1, <2>1, <2>3, ForwardSame, ForwardTrans DEF Good
  <2>5. QED BY <1>3, <2>2, <2>3, <2>4
<1>6. ASSUME NEW c \in Chains, PollTimer(c) PROVE Advances
  <2>1. session' = ShortPoll(session, c) /\ UNCHANGED server
    BY <1>6 DEF PollTimer
  <2>2. QED BY <1>1, <1>3, <2>1, ShortPollGood
<1>7. ASSUME NEW c \in Chains, Produce(c) PROVE Advances
  <2>1. /\ server[c] < MaxLen(c) /\ UNCHANGED session
        /\ server' = [server EXCEPT ![c] = @ + 1]
    BY <1>7 DEF Produce
  <2>2. MaxLen(c) \in Nat
    BY ChainFacts
  <2>3. Produced(server') /\ \A d \in Chains : server[d] <= server'[d]
    BY <1>1, <2>1, <2>2 DEF Produced
  <2>4. WithinServer(session, server')
    <3>1. \A d \in Chains : session.height[d] \in Nat
      BY <1>1, FieldTypes
    <3>2. QED BY <1>1, <2>3, <3>1 DEF Good, WithinServer, Produced
  <2>5. LogIsChain(session, server')
    <3>1. session.tip \in Int /\ server[Main] \in Nat /\ server'[Main] \in Nat
      BY <1>1, <2>3, FieldTypes, ChainFacts DEF Produced
    <3>2. QED BY <1>1, <2>3, <3>1, ChainFacts DEF Good, LogIsChain
  <2>6. QED BY <1>1, <1>2, <2>1, <2>3, <2>4, <2>5 DEF Advances, Good
<1>8. ASSUME NEW c \in Chains,
             NEW first \in 0 .. MaxMain + MaxBroadcast,
             NEW next \in 0 .. MaxMain + MaxBroadcast,
             Push(c, first, next)
      PROVE  Advances
  <2>1. /\ session' = ApplyBlocks(session, c, first, next, FALSE)
        /\ UNCHANGED server
        /\ Applicable(session, server, c, first, next, FALSE)
    BY <1>8, SessionAssumption DEF Push, Applicable
  <2>2. first \in Nat /\ next \in Nat
    BY SessionAssumption
  <2>3. Good(session', server) /\ Forward(session, session')
    BY <1>1, <2>1, <2>2, ApplyBlocksGood
  <2>4. QED BY <1>3, <2>1, <2>3
<1>9. ASSUME NEW ask, session' = [session EXCEPT !.asks = @ \ {ask}],
             UNCHANGED server
      PROVE  Advances
  <2>1. /\ session' \in SessionState /\ session'.tip = session.tip
        /\ session'.height = session.height /\ session'.waiting = session.waiting
        /\ session'.failed = session.failed /\ session'.log = session.log
        /\ session'.asks = session.asks \ {ask}
    BY <1>1, <1>9 DEF SessionState
  <2>2. Good(session', server)
    BY <1>1, <2>1 DEF Good, WithinServer, LogIsChain, AsksKnown, Created
  <2>3. QED BY <1>1, <1>3, <1>9, <2>1, <2>2, ForwardSame
<1>10. ASSUME NEW r \in Slots, NEW c \in Chains, NEW height,
              OnSubchainRequest(r, c, height)
       PROVE  Advances
  BY <1>9, <1>10 DEF OnSubchainRequest
<1>11. ASSUME NEW r \in Slots, NEW c \in Chains, NEW height,
              OnSubchainRequestFails(r, c, height)
       PROVE  Advances
  BY <1>9, <1>11 DEF OnSubchainRequestFails
<1>12. ASSUME NEW r \in Slots, ApplyPage(r) PROVE Advances
  <2>1. /\ request[r].chain \in Chains /\ request[r].first \in Nat
        /\ request[r].next \in Nat
        /\ Applicable(session, server, request[r].chain, request[r].first,
                      request[r].next, TRUE)
    BY <1>1, <1>12 DEF Surroundings, PagesApplicable, ApplyPage
  <2>2. /\ UNCHANGED server
        /\ session' = ApplyBlocks(session, request[r].chain, request[r].first,
                                  request[r].next, TRUE)
    BY <1>12 DEF ApplyPage
  <2>3. Good(session', server) /\ Forward(session, session')
    BY <1>1, <2>1, <2>2, ApplyBlocksGood
  <2>4. QED BY <1>3, <2>2, <2>3
<1>13. ASSUME NEW r \in Slots, FinishRequest(r) PROVE Advances
  <2>1. /\ request[r].chain \in Chains /\ UNCHANGED server
        /\ session' = FinishSubchainRequest(session, request[r].chain)
    BY <1>1, <1>13 DEF Surroundings, FinishRequest
  <2>2. Good(session', server) /\ Forward(session, session')
    BY <1>1, <2>1, FinishSubchainRequestGood
  <2>3. QED BY <1>3, <2>1, <2>2
<1>14. CASE Trim \/ UNCHANGED vars
  BY <1>1, <1>2, <1>3, <1>14 DEF Trim, vars
<1>15. QED
  BY <1>4, <1>5, <1>6, <1>7, <1>8, <1>10, <1>11, <1>12, <1>13, <1>14 DEF Next

\* The page of a request is within what the server has, and begins where the
\* request asked or at the block that added the user.
LEMMA PageBounds ==
  ASSUME NEW c \in Chains, NEW height \in Nat, NEW first, NEW next,
         server \in [Chains -> Nat], trimmed \in Nat,
         first = PageFirst(c, height), next = PageNext(c, first)
  PROVE  /\ first \in Nat /\ next \in Nat
         /\ first < next => next <= server[c]
         /\ c = Main => first = Larger(height, JoinIndex)
<1>1. /\ PageSize \in Nat /\ JoinIndex \in Nat /\ server[c] \in Nat
  BY SessionAssumption
<1>2. first \in Nat
  BY <1>1 DEF PageFirst, Larger
<1>3. next \in Nat /\ (first < next => next <= server[c])
  BY <1>1, <1>2 DEF PageNext, Larger
<1>4. QED BY <1>2, <1>3 DEF PageFirst

\* The invariant is inductive.
LEMMA NextInv == Inv /\ [Next]_vars => Inv'
<1> SUFFICES ASSUME Inv, [Next]_vars PROVE Inv'
  OBVIOUS
<1>1. /\ Good(session, server) /\ Produced(server) /\ session \in SessionState
      /\ server \in [Chains -> Nat] /\ Surroundings /\ PagesApplicable
  BY DEF Inv, Good, Produced
<1>2. Advances
  BY NextAdvances
<1>3. /\ session' \in SessionState /\ Forward(session, session')
      /\ server' \in [Chains -> Nat] /\ \A c \in Chains : server[c] <= server'[c]
  BY <1>2 DEF Advances, Good, Produced
<1>4. ASSUME NEW r \in Slots, request'[r] = request[r],
             request[r].stage = "fetched"
      PROVE  Applicable(session, server, request[r].chain, request[r].first,
                        request[r].next, TRUE)'
  <2>1. /\ request[r].chain \in Chains /\ request[r].first \in Nat
        /\ request[r].next \in Nat
        /\ Applicable(session, server, request[r].chain, request[r].first,
                      request[r].next, TRUE)
    BY <1>1, <1>4 DEF Surroundings, PagesApplicable
  <2>2. Applicable(session', server', request[r].chain, request[r].first,
                   request[r].next, TRUE)
    BY <1>1, <1>3, <2>1, ApplicableStays
  <2>3. QED BY <1>4, <2>2
<1>5. ASSUME UNCHANGED request PROVE PagesApplicable'
  BY <1>4, <1>5 DEF PagesApplicable
<1>6. ASSUME NEW q \in Slots,
             request'[q].stage # "fetched",
             \A r \in Slots \ {q} : request'[r] = request[r]
      PROVE  PagesApplicable'
  BY <1>4, <1>6 DEF PagesApplicable
<1>7. CASE UNCHANGED request
  <2>1. trimmed' \in Nat /\ pushes' \in Nat /\ errors' \in Nat /\ connects' \in Nat
    <3>1. CASE Connect \/ Trim \/ UNCHANGED vars
      BY <1>1, <3>1 DEF Connect, Trim, vars, Surroundings
    <3>2. CASE \E c \in Chains : WaitingTimer(c) \/ PollTimer(c) \/ Produce(c)
      BY <1>1, <3>2 DEF WaitingTimer, PollTimer, Produce, Surroundings
    <3>3. CASE \E c \in Chains, first, next \in 0 .. MaxMain + MaxBroadcast :
                 Push(c, first, next)
      BY <1>1, <3>3 DEF Push, Surroundings
    <3>4. CASE \E r \in Slots, c \in Chains, height \in 0 .. MaxMain + MaxBroadcast :
                 OnSubchainRequest(r, c, height) \/ OnSubchainRequestFails(r, c, height)
      BY <1>1, <3>4 DEF OnSubchainRequest, OnSubchainRequestFails, Surroundings
    <3>5. CASE \E r \in Slots : ApplyPage(r) \/ FinishRequest(r)
      BY <1>1, <3>5 DEF ApplyPage, FinishRequest, Surroundings
    <3>6. QED BY <3>1, <3>2, <3>3, <3>4, <3>5 DEF Next
  <2>2. QED BY <1>1, <1>2, <1>5, <1>7, <2>1 DEF Inv, Advances, Surroundings
<1>8. ASSUME NEW q \in Slots, NEW c \in Chains,
             NEW height \in 0 .. MaxMain + MaxBroadcast,
             OnSubchainRequest(q, c, height)
      PROVE  Inv'
  <2> DEFINE first == PageFirst(c, height)
             next == PageNext(c, first)
  <2>1. /\ <<c, height>> \in session.asks /\ height \in Nat
        /\ request' = [request EXCEPT ![q] =
             [stage |-> IF first < next THEN "fetched" ELSE "answered",
              chain |-> c, first |-> first, next |-> next]]
        /\ session' = [session EXCEPT !.asks = @ \ {<<c, height>>}]
        /\ UNCHANGED <<server, trimmed, pushes, errors, connects>>
    BY <1>8, SessionAssumption DEF OnSubchainRequest
  <2>2. /\ first \in Nat /\ next \in Nat
        /\ first < next => next <= server[c]
        /\ c = Main => first = Larger(height, JoinIndex)
    BY <1>1, <2>1, PageBounds DEF Surroundings
  <2> HIDE DEF first, next
  <2>3. Surroundings'
    BY <1>1, <2>1, <2>2 DEF Surroundings
  <2>4. ASSUME first < next
        PROVE  Applicable(session', server', c, first, next, TRUE)
    <3>1. session'.height = session.height /\ session'.tip = session.tip
      BY <1>1, <2>1 DEF SessionState
    <3>2. /\ c = Main => height <= session.height[Main]
          /\ c = Broadcast => Created(session)
      BY <1>1, <2>1 DEF Good, AsksKnown
    <3>3. session.height[Main] \in Nat /\ JoinIndex \in Nat
      BY <1>1, FieldTypes, ChainFacts
    <3>4. c = Main => JoinIndex <= first /\ first <= Larger(session.height[Main], JoinIndex)
      BY <2>1, <2>2, <3>2, <3>3 DEF Larger
    <3>5. QED BY <2>1, <2>2, <2>4, <3>1, <3>2, <3>4 DEF Applicable, Created
  <2>5. /\ request'[q] = [stage |-> IF first < next THEN "fetched" ELSE "answered",
                          chain |-> c, first |-> first, next |-> next]
        /\ \A r \in Slots \ {q} : request'[r] = request[r]
    BY <1>1, <2>1 DEF Surroundings
  <2>6. PagesApplicable'
    <3>1. Applicable(session, server, request[q].chain, request[q].first,
                     request[q].next, TRUE)' \/ request'[q].stage # "fetched"
      <4>1. CASE first < next
        <5>1. /\ request'[q].chain = c /\ request'[q].first = first
              /\ request'[q].next = next
          BY <2>5
        <5>2. Applicable(session', server', c, first, next, TRUE)
          BY <2>4, <4>1
        <5>3. QED BY <5>1, <5>2
      <4>2. CASE ~(first < next)
        BY <2>5, <4>2
      <4>3. QED BY <4>1, <4>2
    <3>2. QED BY <1>4, <2>5, <3>1 DEF PagesApplicable
  <2>7. QED BY <1>2, <2>3, <2>6 DEF Inv, Advances
<1>9. ASSUME NEW q \in Slots, NEW c \in Chains, NEW height,
             OnSubchainRequestFails(q, c, height)
      PROVE  Inv'
  <2>1. Surroundings'
    BY <1>1, <1>9 DEF OnSubchainRequestFails, Surroundings
  <2>2. request'[q].stage # "fetched" /\ \A r \in Slots \ {q} : request'[r] = request[r]
    BY <1>1, <1>9 DEF OnSubchainRequestFails, Surroundings
  <2>3. QED BY <1>2, <1>6, <2>1, <2>2 DEF Inv, Advances
<1>10. ASSUME NEW q \in Slots, ApplyPage(q) \/ FinishRequest(q) PROVE Inv'
  <2>1. NoRequest \in [stage : {"free", "fetched", "answered"},
                       chain : Chains, first : Nat, next : Nat]
    BY ChainFacts DEF NoRequest
  <2>2. CASE ApplyPage(q)
    <3>1. Surroundings'
      BY <1>1, <2>2 DEF ApplyPage, Surroundings
    <3>2. request'[q].stage # "fetched" /\ \A r \in Slots \ {q} : request'[r] = request[r]
      BY <1>1, <2>2 DEF ApplyPage, Surroundings
    <3>3. QED BY <1>2, <1>6, <3>1, <3>2 DEF Inv, Advances
  <2>3. CASE FinishRequest(q)
    <3>1. Surroundings'
      BY <1>1, <2>1, <2>3 DEF FinishRequest, Surroundings
    <3>2. request'[q].stage # "fetched" /\ \A r \in Slots \ {q} : request'[r] = request[r]
      BY <1>1, <2>3 DEF FinishRequest, NoRequest, Surroundings
    <3>3. QED BY <1>2, <1>6, <3>1, <3>2 DEF Inv, Advances
  <2>4. QED BY <1>10, <2>2, <2>3
<1>11. QED
  <2>1. CASE Next
    <3>1. Connect \/ Trim \/ (\E c \in Chains : WaitingTimer(c) \/ PollTimer(c) \/ Produce(c))
            \/ (\E c \in Chains, first, next \in 0 .. MaxMain + MaxBroadcast :
                  Push(c, first, next))
          => UNCHANGED request
      BY DEF Connect, Trim, WaitingTimer, PollTimer, Produce, Push
    <3>2. QED BY <1>7, <1>8, <1>9, <1>10, <2>1, <3>1 DEF Next
  <2>2. CASE UNCHANGED vars
    BY <1>7, <2>2 DEF vars
  <2>3. QED BY <2>1, <2>2

-----------------------------------------------------------------------------
(* The theorems.                                                            *)

\* The invariant holds in every state, for every position of the membership,
\* every page size and every number of blocks, pushes and failures.
THEOREM Invariant == Spec => []Inv
BY InitInv, NextInv, PTL DEF Spec

\* The session and what surrounds it keep their types, and the session never
\* knows of a block the server has not produced.
THEOREM TypeCorrect == Spec => []TypeOK
<1>1. Inv => TypeOK
  BY DEF Inv, Good, WithinServer, Produced, Surroundings, TypeOK
<1>2. QED BY <1>1, Invariant, PTL

\* The index asked of the server and the height of the blockchain agree.
THEOREM HeightAgrees == Spec => []HeightFollowsTip
<1>1. Inv => HeightFollowsTip
  BY DEF Inv, Good, LogIsChain, HeightFollowsTip
<1>2. QED BY <1>1, Invariant, PTL

\* With an honest server the session fails exactly when its user was removed.
THEOREM FailureIsRemoval == Spec => []FailsExactlyWhenRemoved
<1>1. Inv => FailsExactlyWhenRemoved
  BY DEF Inv, Good, LogIsChain, FailsExactlyWhenRemoved
<1>2. QED BY <1>1, Invariant, PTL

\* The runs of the replica are those of the session.
LEMMA SameRun == \A a, b : MainReplica!Run(a, b) = Run(a, b)
BY DEF MainReplica!Run, Run

\* The session hands the main blocks over in order, each once, none skipped:
\* it implements the gapless replica.
THEOREM MainIsOrdered == Spec => MainInOrder
<1>1. Init => MainReplica!Init
  BY ChainFacts DEF Init, EmptySession, MainReplica!Init
<1>2. Inv /\ [Next]_vars => [MainReplica!Next]_(MainReplica!vars)
  <2> SUFFICES ASSUME Inv, [Next]_vars
               PROVE  [MainReplica!Next]_(MainReplica!vars)
    OBVIOUS
  <2> DEFINE log == session.log[Main]
  <2>1. /\ LogIsChain(session, server) /\ LogIsChain(session, server)'
        /\ session.tip \in Nat \cup {-1} /\ session'.tip \in Nat \cup {-1}
        /\ session.tip <= session'.tip
        /\ server[Main] \in Nat /\ server'[Main] \in Nat
        /\ JoinIndex \in Nat
    BY NextAdvances, FieldTypes, ChainFacts
       DEF Inv, Advances, Good, Forward, Produced
  <2>2. CASE session'.tip = session.tip
    <3>1. log' = log
      BY <2>1, <2>2 DEF LogIsChain, Created
    <3>2. server[Main] <= server'[Main]
      BY NextAdvances, ChainFacts DEF Advances
    <3>3. CASE server[Main] = server'[Main]
      BY <3>1, <3>3 DEF MainReplica!vars
    <3>4. CASE server[Main] # server'[Main]
      <4>1. server'[Main] > server[Main]
        BY <2>1, <3>2, <3>4
      <4>2. MainReplica!Produce
        BY <2>1, <3>1, <4>1 DEF MainReplica!Produce
      <4>3. QED BY <4>2 DEF MainReplica!Next
    <3>5. QED BY <3>3, <3>4
  <2>3. CASE session'.tip # session.tip
    <3> DEFINE first == IF Created(session) THEN session.tip + 1 ELSE JoinIndex
               next == session'.tip + 1
    <3>1. server'[Main] = server[Main]
      BY <2>3 DEF Next, vars, Connect, WaitingTimer, PollTimer, Produce, Push,
         OnSubchainRequest, OnSubchainRequestFails, ApplyPage, FinishRequest, Trim
    <3>2. session'.tip \in Nat /\ Created(session)'
      BY <2>1, <2>3 DEF Created
    <3>3. /\ first \in Nat /\ next \in Nat /\ first < next
          /\ next <= server[Main] /\ JoinIndex <= first
      BY <2>1, <2>3, <3>1, <3>2 DEF LogIsChain, Created
    <3>4. log' = Run(JoinIndex, next)
      BY <3>2, <2>1 DEF LogIsChain
    <3>5. log' = log \o Run(first, next)
      <4>1. CASE Created(session)
        <5>1. log = Run(JoinIndex, first)
          BY <2>1, <4>1 DEF LogIsChain
        <5>2. Run(JoinIndex, first) \o Run(first, next) = Run(JoinIndex, next)
          <6>1. JoinIndex <= first /\ first <= next
            BY <2>1, <3>3
          <6>2. QED BY <2>1, <3>3, <6>1, RunConcat
        <5>3. QED BY <3>4, <5>1, <5>2
      <4>2. CASE ~Created(session)
        <5>1. log = <<>> /\ first = JoinIndex
          BY <2>1, <4>2 DEF LogIsChain
        <5>2. Run(JoinIndex, next) \in Seq(Nat)
          BY <2>1, <3>3, RunType
        <5>3. QED BY <3>4, <5>1, <5>2
      <4>3. QED BY <4>1, <4>2
    <3>6. log # <<>> => first = log[Len(log)] + 1
      <4>1. CASE Created(session)
        <5>1. log = Run(JoinIndex, first) /\ JoinIndex < first
          BY <2>1, <4>1 DEF LogIsChain, Created
        <5>2. log[Len(log)] = first - 1
          BY <2>1, <3>3, <5>1, RunLast
        <5>3. QED BY <3>3, <5>2
      <4>2. CASE ~Created(session)
        BY <2>1, <4>2 DEF LogIsChain
      <4>3. QED BY <4>1, <4>2
    <3> HIDE DEF first, next
    <3>7. first \in 0 .. server[Main] /\ next \in 0 .. server[Main]
      BY <2>1, <3>3
    <3>8. log # <<>> => first > log[Len(log)]
      <4>1. CASE Created(session)
        <5>1. log = Run(JoinIndex, first) /\ JoinIndex < first
          BY <2>1, <4>1 DEF LogIsChain, Created, first
        <5>2. log[Len(log)] = first - 1
          BY <2>1, <3>3, <5>1, RunLast
        <5>3. QED BY <3>3, <5>2
      <4>2. CASE ~Created(session)
        BY <2>1, <4>2 DEF LogIsChain
      <4>3. QED BY <4>1, <4>2
    <3> HIDE DEF log
    <3>9. /\ first < next
          /\ log # <<>> => first > log[Len(log)]
          /\ TRUE /\ log # <<>> => first = log[Len(log)] + 1
          /\ log' = log \o Run(first, next)
      BY <3>3, <3>5, <3>6, <3>8
    <3>10. \E a, b \in 0 .. server[Main] :
             /\ a < b
             /\ log # <<>> => a > log[Len(log)]
             /\ TRUE /\ log # <<>> => a = log[Len(log)] + 1
             /\ log' = log \o Run(a, b)
      BY <3>7, <3>9
    <3>11. MainReplica!HandOver
      BY <3>1, <3>10, SameRun DEF MainReplica!HandOver, log
    <3>12. QED BY <3>11 DEF MainReplica!Next
  <2>4. QED BY <2>2, <2>3
<1>3. QED BY <1>1, <1>2, Invariant, PTL DEF Spec, MainInOrder, MainReplica!Spec

-----------------------------------------------------------------------------
(* The broadcast chain. An operation of the session hands over one run of   *)
(* broadcasts that ends at the height it leaves, or none, and asks for no   *)
(* broadcast beyond that height.                                            *)

Takes(s, t, limit) ==
  /\ t \in SessionState
  /\ Handed(s.height[Broadcast], s.log[Broadcast],
            t.height[Broadcast], t.log[Broadcast], limit)
  /\ \A a \in t.asks : a \in s.asks \/ (a[1] = Broadcast => a[2] <= t.height[Broadcast])

\* The types of what the broadcast chain is about.
LEMMA BroadcastTypes ==
  ASSUME NEW s \in SessionState
  PROVE  /\ s.height[Broadcast] \in Nat
         /\ s.log[Broadcast] \in Seq(Nat)
         /\ \A a \in s.asks : a[1] \in Chains /\ a[2] \in Nat
BY FieldTypes, ChainFacts

\* An operation that leaves the broadcasts and the requests alone.
LEMMA RestsTakes ==
  ASSUME NEW s, NEW t \in SessionState, NEW limit, t.asks \subseteq s.asks,
         t.height[Broadcast] = s.height[Broadcast], t.log[Broadcast] = s.log[Broadcast]
  PROVE  Takes(s, t, limit)
BY DEF Takes, Handed

\* After an operation, one that begins at the height it left.
LEMMA TakesTrans ==
  ASSUME NEW s \in SessionState, NEW t, NEW u, NEW limit \in Nat,
         Takes(s, t, limit), Takes(t, u, 0)
  PROVE  Takes(s, u, limit)
<1> DEFINE h == s.height[Broadcast]
           g == t.height[Broadcast]
           e == u.height[Broadcast]
<1>1. /\ h \in Nat /\ g \in Nat /\ e \in Nat /\ s.log[Broadcast] \in Seq(Nat)
      /\ u \in SessionState /\ \A a \in t.asks : a[2] \in Nat
  BY BroadcastTypes DEF Takes
<1>2. /\ Handed(h, s.log[Broadcast], g, t.log[Broadcast], limit)
      /\ Handed(g, t.log[Broadcast], e, u.log[Broadcast], 0)
      /\ \A a \in t.asks : a \in s.asks \/ (a[1] = Broadcast => a[2] <= g)
      /\ \A a \in u.asks : a \in t.asks \/ (a[1] = Broadcast => a[2] <= e)
  BY DEF Takes
<1> HIDE DEF h, g, e
<1>3. Handed(h, s.log[Broadcast], e, u.log[Broadcast], limit)
  BY <1>1, <1>2, HandedTrans
<1>4. g <= e
  BY <1>1, <1>2, HandedForward
<1>5. \A a \in u.asks : a \in s.asks \/ (a[1] = Broadcast => a[2] <= e)
  BY <1>1, <1>2, <1>4
<1>6. QED BY <1>1, <1>3, <1>5 DEF Takes, h, e

\* The timers.
LEMMA TimersTake ==
  ASSUME NEW s, NEW n, NEW c \in Chains, Good(s, n),
         NEW t \in {ScheduleWaiting(s, c), CancelWaiting(s, c),
                    ScheduleShortPoll(s, c), CancelShortPoll(s, c)}
  PROVE  Takes(s, t, 0)
<1>1. t \in SessionState /\ s \in SessionState
  BY TimersGood DEF Good
<1>2. t.height = s.height /\ t.log = s.log /\ t.asks = s.asks
  BY <1>1, TimersKeep
<1>3. QED BY <1>1, <1>2, RestsTakes

\* A request asks from the height on.
LEMMA ShortPollTakes ==
  ASSUME NEW s, NEW n, NEW c \in Chains, Good(s, n)
  PROVE  Takes(s, ShortPoll(s, c), 0)
<1> DEFINE idle == CancelShortPoll(CancelWaiting(s, c), c)
           t == ShortPoll(s, c)
<1>1. Good(CancelWaiting(s, c), n) /\ Good(idle, n) /\ Good(t, n)
  BY TimersGood, ShortPollGood
<1>2. /\ s \in SessionState /\ idle \in SessionState /\ t \in SessionState
      /\ CancelWaiting(s, c) \in SessionState
  BY <1>1 DEF Good
<1>3. idle.height = s.height /\ idle.log = s.log /\ idle.asks = s.asks
  BY <1>2, TimersKeep
<1>4. t.height = s.height /\ t.log = s.log /\ t.asks \subseteq s.asks \cup {<<c, s.height[c]>>}
  <2>1. CASE c = Broadcast /\ ~Created(s)
    <3>1. t = ScheduleWaiting(idle, c)
      BY <2>1 DEF ShortPoll
    <3>2. t.height = idle.height /\ t.log = idle.log /\ t.asks = idle.asks
      BY <1>2, <3>1, TimersKeep
    <3>3. QED BY <1>3, <3>2
  <2>2. CASE ~(c = Broadcast /\ ~Created(s))
    <3>1. t = [idle EXCEPT !.shortPolling[c] = TRUE,
                           !.asks = @ \cup {<<c, s.height[c]>>}]
      BY <2>2 DEF ShortPoll
    <3> HIDE DEF idle, t
    <3>2. QED BY <1>2, <1>3, <3>1 DEF SessionState
  <2>3. QED BY <2>1, <2>2
<1> HIDE DEF idle, t
<1>5. s.height[Broadcast] \in Nat
  BY <1>2, BroadcastTypes
<1>6. ASSUME NEW a \in t.asks, a \notin s.asks, a[1] = Broadcast
      PROVE  a[2] <= t.height[Broadcast]
  <2>1. a = <<c, s.height[c]>>
    BY <1>4, <1>6
  <2>2. a[2] = s.height[Broadcast]
    BY <1>6, <2>1
  <2>3. QED BY <1>4, <1>5, <2>2
<1>7. QED BY <1>2, <1>4, <1>6 DEF Takes, Handed, t

\* Taking main blocks leaves the broadcasts alone.
LEMMA ApplyMainRests ==
  ASSUME NEW s \in SessionState, NEW first \in Nat, NEW next \in Nat
  PROVE  LET t == Apply(s, Main, first, next)
         IN  /\ t.height = s.height /\ t.asks = s.asks
             /\ t.log[Broadcast] = s.log[Broadcast]
<1>1. s.log \in [Chains -> Seq(Nat)] /\ Main # Broadcast /\ Broadcast \in Chains
  BY FieldTypes, ChainFacts
<1> DEFINE u == CreateFrom(s, first)
<1>2. /\ u.height = s.height /\ u.asks = s.asks
      /\ u.log = [s.log EXCEPT ![Main] = Append(@, first)]
  BY DEF CreateFrom, SessionState
<1>3. /\ ExtendWith(s, first, next).height = s.height
      /\ ExtendWith(s, first, next).asks = s.asks
      /\ ExtendWith(s, first, next).log = [s.log EXCEPT ![Main] = @ \o Run(first, next)]
  BY DEF ExtendWith, SessionState
<1>4. /\ ExtendWith(u, first + 1, next).height = u.height
      /\ ExtendWith(u, first + 1, next).asks = u.asks
      /\ ExtendWith(u, first + 1, next).log = [u.log EXCEPT ![Main] = @ \o Run(first + 1, next)]
  BY DEF ExtendWith, CreateFrom, SessionState
<1> HIDE DEF u
<1>5. u.log[Broadcast] = s.log[Broadcast]
  BY <1>1, <1>2
<1>6. ExtendWith(s, first, next).log[Broadcast] = s.log[Broadcast]
  BY <1>1, <1>3
<1>7. ExtendWith(u, first + 1, next).log[Broadcast] = s.log[Broadcast]
  BY <1>1, <1>2, <1>4, <1>5
<1>8. Apply(s, Main, first, next)
        \in {s, u, ExtendWith(s, first, next), ExtendWith(u, first + 1, next)}
  BY <1>1 DEF Apply, u
<1>9. QED BY <1>2, <1>3, <1>4, <1>5, <1>6, <1>7, <1>8

\* Draining the waiting broadcasts begins at the height.
LEMMA DrainTakes ==
  ASSUME NEW s, NEW n, NEW c \in Chains, Produced(n), Good(s, n),
         Created(s), ~s.failed
  PROVE  Takes(s, Drain(s, c), 0)
<1> DEFINE h    == s.height[c]
           gap  == GapAfter(s, c)
           bad  == {i \in h .. gap - 1 : c = Main /\ (h # s.tip + 1 \/ ~Member(i))}
           stop == IF bad = {} THEN gap
                   ELSE CHOOSE i \in bad : \A j \in bad : i <= j
           to   == IF bad = {} THEN gap ELSE stop + 1
           done == Apply(s, c, h, to)
           u    == [done EXCEPT !.height[c] = stop,
                                !.waiting[c] = {i \in @ : i >= stop}]
<1>1. Drain(s, c) = u
  BY DEF Drain
<1>2. /\ s \in SessionState /\ gap \in Nat /\ h \in Nat /\ h <= gap
      /\ s.height \in [Chains -> Nat] /\ s.log \in [Chains -> Seq(Nat)]
      /\ Main # Broadcast /\ Broadcast \in Chains
  <2>1. s \in SessionState
    BY DEF Good
  <2>2. gap \in Nat /\ h <= gap
    BY GapAfterExists
  <2>3. /\ h \in Nat /\ s.height \in [Chains -> Nat] /\ s.log \in [Chains -> Seq(Nat)]
        /\ Main # Broadcast /\ Broadcast \in Chains
    BY <2>1, FieldTypes, ChainFacts
  <2>4. QED BY <2>1, <2>2, <2>3
<1>3. u \in SessionState
  <2>1. Good(Drain(s, c), n)
    BY DrainGood
  <2>2. Drain(s, c) \in SessionState
    BY <2>1 DEF Good
  <2>3. QED BY <1>1, <2>2
<1>4. CASE c = Main
  <2>1. bad # {} => \E i \in bad : \A j \in bad : i <= j
    <3>1. bad \in SUBSET Nat
      BY <1>2
    <3>2. QED BY <3>1, LeastExists
  <2>2. stop \in Nat
    <3>1. CASE bad = {}
      BY <1>2, <3>1
    <3>2. CASE bad # {}
      <4>1. stop \in bad
        BY <2>1, <3>2
      <4>2. QED BY <1>2, <4>1
    <3>3. QED BY <3>1, <3>2
  <2> HIDE DEF gap, bad, stop
  <2>3. to \in Nat
    BY <1>2, <2>2
  <2> HIDE DEF to
  <2>4. /\ done.height = s.height /\ done.asks = s.asks
        /\ done.log[Broadcast] = s.log[Broadcast]
    BY <1>2, <1>4, <2>3, ApplyMainRests
  <2> HIDE DEF done, h
  <2>5. u.height[Broadcast] = done.height[Broadcast] /\ u.log = done.log /\ u.asks = done.asks
    BY <1>2, <1>3, <1>4, <2>4 DEF SessionState
  <2> HIDE DEF u
  <2>6. QED BY <1>1, <1>3, <2>4, <2>5, RestsTakes
<1>5. CASE c = Broadcast
  <2>1. bad = {} /\ stop = gap /\ done = Apply(s, Broadcast, h, gap)
    BY <1>2, <1>5
  <2> HIDE DEF gap, bad, stop, h
  <2>2. done \in SessionState /\ done.height = s.height /\ done.asks = s.asks
    BY <1>2, <2>1, ApplyBroadcastKeeps
  <2>3. done.log[Broadcast] = IF h >= gap THEN s.log[Broadcast]
                              ELSE s.log[Broadcast] \o Run(h, gap)
    BY <1>2, <2>1 DEF Apply, TakeBroadcast, SessionState
  <2> HIDE DEF done
  <2>4. u.height[Broadcast] = gap /\ u.log = done.log /\ u.asks = done.asks
    BY <1>2, <1>5, <2>1, <2>2 DEF SessionState
  <2> HIDE DEF u
  <2>5. Handed(h, s.log[Broadcast], gap, u.log[Broadcast], 0)
    <3>1. CASE h >= gap
      BY <1>2, <2>3, <2>4, <3>1 DEF Handed
    <3>2. CASE ~(h >= gap)
      <4>1. h <= h /\ h < gap /\ h <= Larger(h, 0)
        BY <1>2, <3>2 DEF Larger
      <4>2. QED BY <1>2, <2>3, <2>4, <3>2, <4>1 DEF Handed
    <3>3. QED BY <3>1, <3>2
  <2>6. u.asks = s.asks /\ h = s.height[Broadcast]
    BY <1>5, <2>2, <2>4 DEF h
  <2>7. QED BY <1>1, <1>3, <2>4, <2>5, <2>6 DEF Takes
<1>6. QED BY <1>4, <1>5, ChainFacts

\* Looking through the waiting blocks begins at the height.
LEMMA CheckWaitingBlocksTakes ==
  ASSUME NEW s, NEW n, NEW c \in Chains, NEW waited \in BOOLEAN,
         Produced(n), Good(s, n)
  PROVE  Takes(s, CheckWaitingBlocks(s, c, waited), 0)
<1> DEFINE t == CheckWaitingBlocks(s, c, waited)
           idle == CancelShortPoll(s, c)
           drained == Drain(idle, c)
           rested == CancelWaiting(drained, c)
<1>1. s \in SessionState
  BY DEF Good
<1>2. CASE s.failed
  <2>1. t = s
    BY <1>2 DEF CheckWaitingBlocks
  <2>2. QED BY <1>1, <2>1, RestsTakes
<1>3. CASE ~s.failed /\ ~Created(s)
  <2>1. t = ScheduleWaiting(s, c)
    BY <1>3 DEF CheckWaitingBlocks
  <2>2. QED BY <2>1, TimersTake
<1>4. CASE ~s.failed /\ Created(s) /\ s.shortPolling[c]
  <2>1. t = s
    BY <1>4 DEF CheckWaitingBlocks
  <2>2. QED BY <1>1, <2>1, RestsTakes
<1>5. CASE ~s.failed /\ Created(s) /\ ~s.shortPolling[c]
  <2>1. /\ Good(idle, n) /\ Takes(s, idle, 0) /\ Created(idle) /\ ~idle.failed
    <3>1. Good(idle, n) /\ Takes(s, idle, 0)
      BY TimersGood, TimersTake
    <3>2. idle.tip = s.tip /\ idle.failed = s.failed
      BY <1>1, TimersKeep
    <3>3. QED BY <1>5, <3>1, <3>2 DEF Created
  <2>2. Good(drained, n) /\ Takes(idle, drained, 0)
    BY <2>1, DrainGood, DrainTakes
  <2>3. t = IF drained.failed THEN drained
            ELSE IF drained.waiting[c] = {}
            THEN ScheduleShortPoll(rested, c)
            ELSE IF waited THEN ShortPoll(drained, c)
            ELSE ScheduleWaiting(drained, c)
    BY <1>5 DEF CheckWaitingBlocks
  <2>4. Takes(s, drained, 0)
    BY <1>1, <2>1, <2>2, TakesTrans
  <2> HIDE DEF t, idle, drained
  <2>5. Good(rested, n) /\ Takes(drained, rested, 0)
    BY <2>2, TimersGood, TimersTake
  <2> HIDE DEF rested
  <2>6. /\ Takes(rested, ScheduleShortPoll(rested, c), 0)
        /\ Takes(drained, ShortPoll(drained, c), 0)
        /\ Takes(drained, ScheduleWaiting(drained, c), 0)
    BY <2>2, <2>5, TimersTake, ShortPollTakes
  <2>7. Takes(s, rested, 0)
    BY <1>1, <2>4, <2>5, TakesTrans
  <2>8. /\ Takes(s, ScheduleShortPoll(rested, c), 0)
        /\ Takes(s, ShortPoll(drained, c), 0)
        /\ Takes(s, ScheduleWaiting(drained, c), 0)
    BY <1>1, <2>4, <2>6, <2>7, TakesTrans
  <2>9. QED BY <2>3, <2>4, <2>8 DEF t
<1>6. QED BY <1>2, <1>3, <1>4, <1>5

\* So does the end of a request.
LEMMA FinishSubchainRequestTakes ==
  ASSUME NEW s, NEW n, NEW c \in Chains, Produced(n), Good(s, n)
  PROVE  Takes(s, FinishSubchainRequest(s, c), 0)
<1> DEFINE u == [s EXCEPT !.shortPolling[c] = FALSE]
<1>1. CASE s.failed
  <2>1. FinishSubchainRequest(s, c) = s
    BY <1>1 DEF FinishSubchainRequest
  <2>2. QED BY <2>1, RestsTakes DEF Good
<1>2. CASE ~s.failed
  <2>1. /\ s \in SessionState /\ u \in SessionState /\ u.tip = s.tip /\ u.height = s.height
        /\ u.failed = s.failed /\ u.log = s.log /\ u.asks = s.asks
        /\ u.waiting = s.waiting
    BY DEF Good, SessionState
  <2>2. FinishSubchainRequest(s, c) = CheckWaitingBlocks(u, c, FALSE)
    BY <1>2 DEF FinishSubchainRequest
  <2> HIDE DEF u
  <2>3. Good(u, n) /\ Takes(s, u, 0)
    BY <2>1, SameCoreGood, RestsTakes DEF Good, WithinServer
  <2>4. Takes(u, CheckWaitingBlocks(u, c, FALSE), 0)
    BY <2>3, CheckWaitingBlocksTakes
  <2>5. QED BY <2>1, <2>2, <2>3, <2>4, TakesTrans
<1>3. QED BY <1>1, <1>2

\* Applying an update begins at the height, and applying a page where the page does.
LEMMA ApplyBlocksTakes ==
  ASSUME NEW s, NEW n, NEW c \in Chains, Produced(n), Good(s, n),
         NEW first \in Nat, NEW next \in Nat, NEW fromShortPoll \in BOOLEAN,
         Applicable(s, n, c, first, next, fromShortPoll), NEW limit \in Nat,
         c = Broadcast /\ fromShortPoll => first <= Larger(s.height[Broadcast], limit)
  PROVE  Takes(s, ApplyBlocks(s, c, first, next, fromShortPoll), limit)
<1> DEFINE t == ApplyBlocks(s, c, first, next, fromShortPoll)
           noted == NoteLastBlock(s, c, first, next)
           kept == [noted EXCEPT !.waiting[c] =
                      IF fromShortPoll THEN {i \in @ : i >= next} ELSE @]
           early == [kept EXCEPT !.waiting[c] = @ \cup (first .. next - 1)]
           H == HeightAfter(s, c, next)
           f == FirstApplied(s, c, first)
           done == Apply(kept, c, f, next)
           taken == [done EXCEPT !.height[c] = H]
<1>1. /\ s \in SessionState /\ s.waiting \in [Chains -> SUBSET Nat]
      /\ s.height \in [Chains -> Nat] /\ n \in [Chains -> Nat]
      /\ s.log \in [Chains -> Seq(Nat)]
      /\ first < next /\ next <= n[c]
      /\ \A d \in Chains : s.waiting[d] \subseteq 0 .. n[d] - 1
      /\ Main # Broadcast /\ Broadcast \in Chains
  BY FieldTypes, ChainFacts DEF Good, WithinServer, Produced, Applicable
<1>2. /\ noted \in SessionState /\ noted.tip = s.tip /\ noted.height = s.height
      /\ noted.failed = s.failed /\ noted.log = s.log /\ noted.asks = s.asks
      /\ noted.waiting = s.waiting
  <2>1. (IF c = Main /\ first < next /\ next > s.lastBlock THEN next ELSE s.lastBlock) \in Nat
    BY <1>1, FieldTypes
  <2>2. QED BY <1>1, <2>1 DEF NoteLastBlock, SessionState
<1> HIDE DEF noted
<1>3. /\ kept \in SessionState /\ kept.tip = s.tip /\ kept.height = s.height
      /\ kept.failed = s.failed /\ kept.log = s.log /\ kept.asks = s.asks
      /\ \A d \in Chains : kept.waiting[d] \subseteq 0 .. n[d] - 1
  <2> DEFINE W == [s.waiting EXCEPT ![c] =
                     IF fromShortPoll THEN {i \in @ : i >= next} ELSE @]
  <2>1. W \in [Chains -> SUBSET Nat] /\ \A d \in Chains : W[d] \subseteq 0 .. n[d] - 1
    BY <1>1
  <2>2. kept = [noted EXCEPT !.waiting = W]
    BY <1>2 DEF SessionState
  <2> HIDE DEF W, kept
  <2>3. QED BY <1>2, <2>1, <2>2 DEF SessionState
<1>4. t = IF s.failed THEN kept
          ELSE IF ~fromShortPoll /\ TooEarly(s, c, first)
          THEN CheckWaitingBlocks(early, c, FALSE)
          ELSE CheckWaitingBlocks(taken, c, FALSE)
  <2>1. ~(fromShortPoll /\ c = Broadcast /\ ~Created(s) /\ first < next)
    BY DEF Applicable
  <2>2. QED BY <2>1 DEF ApplyBlocks, kept, noted
<1> HIDE DEF kept, t
<1>5. Good(kept, n) /\ Takes(s, kept, limit)
  BY <1>3, SameCoreGood, RestsTakes
<1>6. CASE s.failed
  BY <1>4, <1>5, <1>6 DEF t
<1>7. CASE ~s.failed /\ ~fromShortPoll /\ TooEarly(s, c, first)
  <2> DEFINE W == [kept.waiting EXCEPT ![c] = @ \cup (first .. next - 1)]
  <2>1. W \in [Chains -> SUBSET Nat] /\ \A d \in Chains : W[d] \subseteq 0 .. n[d] - 1
    BY <1>1, <1>3, FieldTypes
  <2>2. early = [kept EXCEPT !.waiting = W]
    BY <1>3 DEF SessionState
  <2> HIDE DEF W, early
  <2>3. /\ early \in SessionState /\ early.tip = s.tip /\ early.height = s.height
        /\ early.failed = s.failed /\ early.log = s.log /\ early.asks = s.asks
        /\ \A d \in Chains : early.waiting[d] \subseteq 0 .. n[d] - 1
    BY <1>3, <2>1, <2>2 DEF SessionState
  <2>4. Good(early, n) /\ Takes(s, early, limit)
    BY <2>3, SameCoreGood, RestsTakes
  <2>5. Takes(early, CheckWaitingBlocks(early, c, FALSE), 0)
    BY <2>4, CheckWaitingBlocksTakes
  <2>6. t = CheckWaitingBlocks(early, c, FALSE)
    BY <1>4, <1>7
  <2>7. QED BY <1>1, <2>4, <2>5, <2>6, TakesTrans DEF t
<1>8. CASE ~s.failed /\ (fromShortPoll \/ ~TooEarly(s, c, first))
  <2>1. t = CheckWaitingBlocks(taken, c, FALSE)
    BY <1>4, <1>8
  <2>2. /\ f = FirstApplied(kept, c, first)
        /\ H = HeightAfter(kept, c, next)
        /\ TooEarly(s, c, first) = TooEarly(kept, c, first)
        /\ Applicable(kept, n, c, first, next, fromShortPoll)
        /\ Created(kept) = Created(s)
    BY <1>3 DEF FirstApplied, HeightAfter, TooEarly, Applicable, Created
  <2>3. s.height[c] \in Nat
    BY <1>1
  <2>4. f \in Nat /\ H \in Nat
    BY <2>3 DEF FirstApplied, HeightAfter, Larger
  <2>5. Good(taken, n) /\ Takes(s, taken, limit)
    <3>1. CASE c = Main
      <4>1. /\ ~kept.failed /\ Applicable(kept, n, Main, first, next, fromShortPoll)
            /\ fromShortPoll \/ ~TooEarly(kept, Main, first)
        BY <1>3, <1>8, <2>2, <3>1
      <4>2. taken = [Apply(kept, Main, FirstApplied(kept, Main, first), next)
                       EXCEPT !.height[Main] = HeightAfter(kept, Main, next)]
        BY <2>2, <3>1
      <4>3. /\ done.height = kept.height /\ done.asks = kept.asks
            /\ done.log[Broadcast] = kept.log[Broadcast]
        BY <1>3, <2>4, <3>1, ApplyMainRests
      <4> HIDE DEF f, H
      <4>4. Good(taken, n)
        <5> HIDE DEF taken
        <5>1. QED BY <1>5, <4>1, <4>2, ApplyMainGood
      <4> HIDE DEF done
      <4>5. taken \in SessionState
        BY <4>4 DEF Good
      <4>6. /\ taken.height[Broadcast] = done.height[Broadcast]
            /\ taken.log = done.log /\ taken.asks = done.asks
        BY <1>1, <3>1, <4>3, <4>5 DEF SessionState
      <4>7. QED BY <1>3, <4>3, <4>4, <4>5, <4>6, RestsTakes
    <3>2. CASE c = Broadcast
      <4>1. Created(kept)
        BY <1>8, <2>2, <3>2 DEF Applicable, TooEarly
      <4>2. Good(taken, n)
        BY <1>1, <1>5, <2>2, <3>2, <4>1, ApplyBroadcastGood
      <4> DEFINE h == s.height[Broadcast]
      <4>3. /\ h \in Nat /\ h <= f /\ f <= Larger(h, limit)
            /\ H = IF h >= next THEN h ELSE next
            /\ f >= next => H = h
        <5>1. h \in Nat /\ (~fromShortPoll => first <= h)
          BY <1>8, <2>3, <3>2 DEF TooEarly
        <5>2. fromShortPoll => first <= Larger(h, limit)
          BY <3>2
        <5>3. f = IF first > h THEN first ELSE h
          BY <1>1, <3>2, <5>1 DEF FirstApplied
        <5>4. H = IF h >= next THEN h ELSE next
          BY <3>2 DEF HeightAfter, Larger
        <5> HIDE DEF f, H, h
        <5>5. QED BY <1>1, <5>1, <5>2, <5>3, <5>4 DEF Larger
      <4> HIDE DEF f, H, h
      <4>4. done \in SessionState /\ done.height = kept.height /\ done.asks = kept.asks
        BY <1>3, <2>4, <3>2, <4>1, ApplyBroadcastKeeps
      <4>5. done.log[Broadcast] = IF f >= next THEN s.log[Broadcast]
                                  ELSE s.log[Broadcast] \o Run(f, next)
        BY <1>1, <1>3, <3>2, <4>1 DEF Apply, TakeBroadcast, SessionState
      <4> HIDE DEF done
      <4>6. taken.height[Broadcast] = H /\ taken.log = done.log /\ taken.asks = done.asks
        BY <1>1, <1>3, <3>2, <4>4 DEF SessionState
      <4> HIDE DEF taken
      <4>7. Handed(h, s.log[Broadcast], H, taken.log[Broadcast], limit)
        <5>1. CASE f >= next
          BY <4>3, <4>5, <4>6, <5>1 DEF Handed
        <5>2. CASE ~(f >= next)
          <6>1. f < H /\ H = next
            BY <2>4, <4>3, <5>2
          <6>2. taken.log[Broadcast] = s.log[Broadcast] \o Run(f, H)
            BY <4>5, <4>6, <5>2, <6>1
          <6>3. QED BY <2>4, <4>3, <6>1, <6>2 DEF Handed
        <5>3. QED BY <5>1, <5>2
      <4>8. taken.asks = s.asks /\ taken \in SessionState
        BY <1>3, <4>2, <4>4, <4>6 DEF Good
      <4>9. QED BY <4>2, <4>6, <4>7, <4>8 DEF Takes, h
    <3>3. QED BY <3>1, <3>2, ChainFacts
  <2> HIDE DEF taken
  <2>6. Takes(taken, CheckWaitingBlocks(taken, c, FALSE), 0)
    BY <2>5, CheckWaitingBlocksTakes
  <2>7. QED BY <1>1, <2>1, <2>5, <2>6, TakesTrans DEF t
<1>9. QED BY <1>6, <1>7, <1>8

-----------------------------------------------------------------------------
(* The broadcasts in the specification. A fetched page of broadcasts begins *)
(* where the session is, before it, or where the server's oldest is: it     *)
(* began there when it was fetched, and both have only grown.               *)

BroadcastInv ==
  /\ HandedBelow(session.height[Broadcast], session.log[Broadcast], trimmed)
  /\ \A a \in session.asks : a[1] = Broadcast => a[2] <= session.height[Broadcast]
  /\ \A r \in Slots :
       request[r].stage = "fetched" /\ request[r].chain = Broadcast
         => request[r].first <= Larger(session.height[Broadcast], trimmed)

\* Every step takes broadcasts, or leaves them alone.
LEMMA NextTakes == Inv /\ BroadcastInv /\ [Next]_vars => Takes(session, session', trimmed)
<1> SUFFICES ASSUME Inv, BroadcastInv, [Next]_vars
             PROVE  Takes(session, session', trimmed)
  OBVIOUS
<1>1. /\ Good(session, server) /\ Produced(server) /\ session \in SessionState
      /\ Surroundings /\ PagesApplicable /\ trimmed \in Nat
      /\ session' \in SessionState
  BY NextAdvances DEF Inv, Good, Surroundings, Advances
<1>2. \A t : Takes(session, t, 0) => Takes(session, t, trimmed)
  <2>1. Takes(session, session, trimmed)
    BY <1>1, RestsTakes
  <2>2. ASSUME NEW t, Takes(session, t, 0) PROVE Takes(session, t, trimmed)
    BY <1>1, <2>1, <2>2, TakesTrans
  <2>3. QED BY <2>2
<1>3. CASE Connect
  <2> DEFINE u == ShortPoll(session, Main)
  <2>1. Good(u, server) /\ Takes(session, u, 0)
    BY <1>1, ShortPollGood, ShortPollTakes, ChainFacts
  <2>2. session' = ShortPoll(u, Broadcast)
    BY <1>3 DEF Connect
  <2> HIDE DEF u
  <2>3. Takes(u, session', 0)
    BY <2>1, <2>2, ShortPollTakes, ChainFacts
  <2>4. QED BY <1>1, <1>2, <2>1, <2>3, TakesTrans
<1>4. ASSUME NEW c \in Chains, WaitingTimer(c) PROVE Takes(session, session', trimmed)
  <2> DEFINE u == CancelWaiting(session, c)
  <2>1. Good(u, server) /\ Takes(session, u, 0)
    BY <1>1, TimersGood, TimersTake
  <2>2. session' = CheckWaitingBlocks(u, c, TRUE)
    BY <1>4 DEF WaitingTimer
  <2> HIDE DEF u
  <2>3. Takes(u, session', 0)
    BY <1>1, <2>1, <2>2, CheckWaitingBlocksTakes
  <2>4. QED BY <1>1, <1>2, <2>1, <2>3, TakesTrans
<1>5. ASSUME NEW c \in Chains, PollTimer(c) PROVE Takes(session, session', trimmed)
  <2>1. session' = ShortPoll(session, c)
    BY <1>5 DEF PollTimer
  <2>2. QED BY <1>1, <1>2, <2>1, ShortPollTakes
<1>6. ASSUME NEW c \in Chains,
             NEW first \in 0 .. MaxMain + MaxBroadcast,
             NEW next \in 0 .. MaxMain + MaxBroadcast,
             Push(c, first, next)
      PROVE  Takes(session, session', trimmed)
  <2>1. /\ session' = ApplyBlocks(session, c, first, next, FALSE)
        /\ Applicable(session, server, c, first, next, FALSE)
    BY <1>6, SessionAssumption DEF Push, Applicable
  <2>2. first \in Nat /\ next \in Nat
    BY SessionAssumption
  <2>3. QED BY <1>1, <2>1, <2>2, ApplyBlocksTakes
<1>7. ASSUME NEW ask, session' = [session EXCEPT !.asks = @ \ {ask}]
      PROVE  Takes(session, session', trimmed)
  <2>1. /\ session'.height = session.height /\ session'.log = session.log
        /\ session'.asks = session.asks \ {ask}
    BY <1>1, <1>7 DEF SessionState
  <2>2. QED BY <1>1, <2>1, RestsTakes
<1>8. ASSUME NEW r \in Slots, NEW c \in Chains, NEW height,
             OnSubchainRequest(r, c, height) \/ OnSubchainRequestFails(r, c, height)
      PROVE  Takes(session, session', trimmed)
  BY <1>7, <1>8 DEF OnSubchainRequest, OnSubchainRequestFails
<1>9. ASSUME NEW r \in Slots, ApplyPage(r) PROVE Takes(session, session', trimmed)
  <2>1. /\ request[r].chain \in Chains /\ request[r].first \in Nat
        /\ request[r].next \in Nat
        /\ Applicable(session, server, request[r].chain, request[r].first,
                      request[r].next, TRUE)
        /\ request[r].chain = Broadcast
             => request[r].first <= Larger(session.height[Broadcast], trimmed)
    BY <1>1, <1>9 DEF Surroundings, PagesApplicable, ApplyPage, BroadcastInv
  <2>2. session' = ApplyBlocks(session, request[r].chain, request[r].first,
                               request[r].next, TRUE)
    BY <1>9 DEF ApplyPage
  <2>3. QED BY <1>1, <2>1, <2>2, ApplyBlocksTakes
<1>10. ASSUME NEW r \in Slots, FinishRequest(r) PROVE Takes(session, session', trimmed)
  <2>1. /\ request[r].chain \in Chains
        /\ session' = FinishSubchainRequest(session, request[r].chain)
    BY <1>1, <1>10 DEF Surroundings, FinishRequest
  <2>2. QED BY <1>1, <1>2, <2>1, FinishSubchainRequestTakes
<1>11. CASE (\E c \in Chains : Produce(c)) \/ Trim \/ UNCHANGED vars
  <2>1. session' = session
    BY <1>11 DEF Produce, Trim, vars
  <2>2. QED BY <1>1, <2>1, RestsTakes
<1>12. QED
  BY <1>3, <1>4, <1>5, <1>6, <1>8, <1>9, <1>10, <1>11 DEF Next

\* The invariant of the broadcasts is inductive.
LEMMA BroadcastInvInductive == Inv /\ BroadcastInv /\ [Next]_vars => BroadcastInv'
<1> SUFFICES ASSUME Inv, BroadcastInv, [Next]_vars PROVE BroadcastInv'
  OBVIOUS
<1> DEFINE h == session.height[Broadcast]
           g == session'.height[Broadcast]
           old == session.log[Broadcast]
           new == session'.log[Broadcast]
<1>1. Takes(session, session', trimmed)
  BY NextTakes
<1>2. /\ session \in SessionState /\ session' \in SessionState
      /\ trimmed \in Nat /\ Surroundings /\ server \in [Chains -> Nat]
  BY <1>1 DEF Inv, Good, Surroundings, Takes, Produced
<1>3. /\ h \in Nat /\ g \in Nat /\ old \in Seq(Nat)
      /\ \A a \in session.asks : a[2] \in Nat
  BY <1>2, BroadcastTypes
<1>4. /\ Handed(h, old, g, new, trimmed) /\ HandedBelow(h, old, trimmed)
      /\ \A a \in session'.asks : a \in session.asks \/ (a[1] = Broadcast => a[2] <= g)
      /\ \A a \in session.asks : a[1] = Broadcast => a[2] <= h
      /\ \A r \in Slots :
           request[r].stage = "fetched" /\ request[r].chain = Broadcast
             => request[r].first <= Larger(h, trimmed)
  BY <1>1 DEF Takes, BroadcastInv
<1> HIDE DEF h, g, old, new
<1>5. h <= g /\ HandedBelow(g, new, trimmed)
  BY <1>2, <1>3, <1>4, HandedKeepsBelow
<1>6. trimmed' \in Nat /\ trimmed <= trimmed'
  <2>1. CASE Trim
    BY <1>2, <2>1 DEF Trim
  <2>2. CASE ~ Trim
    <3>1. trimmed' = trimmed
      BY <2>2 DEF Next, vars, Connect, WaitingTimer, PollTimer, Produce, Push,
         OnSubchainRequest, OnSubchainRequestFails, ApplyPage, FinishRequest
    <3>2. QED BY <1>2, <3>1
  <2>3. QED BY <2>1, <2>2
<1>7. HandedBelow(g, new, trimmed')
  BY <1>2, <1>3, <1>5, <1>6 DEF HandedBelow
<1>8. \A a \in session'.asks : a[1] = Broadcast => a[2] <= g
  BY <1>3, <1>4, <1>5
<1>9. \A x \in Nat : x <= Larger(h, trimmed) => x <= Larger(g, trimmed')
  BY <1>2, <1>3, <1>5, <1>6 DEF Larger
<1>10. ASSUME NEW r \in Slots, request'[r] = request[r],
              request[r].stage = "fetched", request[r].chain = Broadcast
       PROVE  request[r].first <= Larger(g, trimmed')
  BY <1>2, <1>4, <1>9, <1>10 DEF Surroundings
<1>11. ASSUME NEW q \in Slots, NEW c \in Chains, NEW height, c = Broadcast,
              OnSubchainRequest(q, c, height)
       PROVE  PageFirst(c, height) <= Larger(g, trimmed')
  <2>1. <<c, height>> \in session.asks
    BY <1>11 DEF OnSubchainRequest
  <2>2. height \in Nat /\ height <= h
    BY <1>3, <1>4, <1>11, <2>1
  <2>3. PageFirst(c, height) = Larger(height, trimmed)
    BY <1>11, ChainFacts DEF PageFirst
  <2>4. PageFirst(c, height) \in Nat /\ PageFirst(c, height) <= Larger(h, trimmed)
    BY <1>2, <1>3, <2>2, <2>3 DEF Larger
  <2>5. QED BY <1>9, <2>4
<1>12. ASSUME NEW r \in Slots, request'[r].stage = "fetched", request'[r].chain = Broadcast
       PROVE  request'[r].first <= Larger(g, trimmed')
  <2>1. CASE request'[r] = request[r]
    BY <1>10, <1>12, <2>1
  <2>2. ASSUME NEW q \in Slots, NEW c \in Chains, NEW height,
               OnSubchainRequest(q, c, height), q = r
        PROVE  request'[r].first <= Larger(g, trimmed')
    <3>1. request'[r].chain = c /\ request'[r].first = PageFirst(c, height)
      BY <1>2, <2>2 DEF OnSubchainRequest, Surroundings
    <3>2. QED BY <1>11, <1>12, <2>2, <3>1
  <2>3. ASSUME NEW q \in Slots, NEW c \in Chains, NEW height,
               OnSubchainRequest(q, c, height), q # r
        PROVE  request'[r] = request[r]
    BY <1>2, <2>3 DEF OnSubchainRequest, Surroundings
  <2>4. ASSUME NEW q \in Slots, NEW c \in Chains, NEW height,
               OnSubchainRequestFails(q, c, height)
        PROVE  request'[r] = request[r]
    BY <1>2, <1>12, <2>4 DEF OnSubchainRequestFails, Surroundings
  <2>5. ASSUME NEW q \in Slots, ApplyPage(q) \/ FinishRequest(q)
        PROVE  request'[r] = request[r]
    <3>1. request'[r].stage = "fetched" /\ q \in Slots /\ r \in Slots
      BY <1>12
    <3>2. CASE ApplyPage(q)
      BY <1>2, <3>1, <3>2 DEF ApplyPage, Surroundings
    <3>3. CASE FinishRequest(q)
      BY <1>2, <3>1, <3>3 DEF FinishRequest, NoRequest, Surroundings
    <3>4. QED BY <2>5, <3>2, <3>3
  <2>6. CASE Connect \/ Trim \/ (\E c \in Chains : WaitingTimer(c) \/ PollTimer(c) \/ Produce(c))
             \/ (\E c \in Chains, first, next \in 0 .. MaxMain + MaxBroadcast :
                   Push(c, first, next))
             \/ UNCHANGED vars
    <3>1. request' = request
      BY <2>6 DEF Connect, Trim, WaitingTimer, PollTimer, Produce, Push, vars
    <3>2. QED BY <2>1, <3>1
  <2>7. QED BY <2>1, <2>2, <2>3, <2>4, <2>5, <2>6 DEF Next
<1>13. QED BY <1>7, <1>8, <1>12 DEF BroadcastInv, g, new

\* The initial states.
LEMMA BroadcastInvInit == Init => BroadcastInv
<1> SUFFICES ASSUME Init PROVE BroadcastInv
  OBVIOUS
<1>1. /\ session.height[Broadcast] = 0 /\ session.log[Broadcast] = <<>>
      /\ session.asks = {}
  BY ChainFacts DEF Init, EmptySession
<1>2. \A r \in Slots : request[r].stage = "free"
  BY DEF Init, NoRequest
<1>3. HandedBelow(0, <<>>, trimmed)
  BY DEF HandedBelow
<1>4. QED BY <1>1, <1>2, <1>3 DEF BroadcastInv

\* The invariant of the broadcasts holds in every state.
LEMMA BroadcastInvHolds == Spec => []BroadcastInv
BY InitInv, NextInv, BroadcastInvInit, BroadcastInvInductive, PTL DEF Spec

\* However pushes, pages and timers interleave, and wherever the server has begun to
\* discard, no broadcast it still serves is passed over: all those below the height were
\* handed to the verification.
THEOREM NoneSkipped == Spec => []NoBroadcastSkipped
<1>1. BroadcastInv => NoBroadcastSkipped
  BY DEF BroadcastInv, HandedBelow, NoBroadcastSkipped
<1>2. QED BY <1>1, BroadcastInvHolds, PTL

\* The runs of this replica are those of the session, too.
LEMMA SameRunOfBroadcasts == \A a, b : BroadcastReplica!Run(a, b) = Run(a, b)
BY DEF BroadcastReplica!Run, Run

\* The session hands the broadcasts over in order, none of them twice: it implements the
\* replica with gaps.
THEOREM BroadcastIsOrdered == Spec => BroadcastInOrder
<1>1. Init => BroadcastReplica!Init
  BY ChainFacts DEF Init, EmptySession, BroadcastReplica!Init
<1>2. Inv /\ BroadcastInv /\ [Next]_vars => [BroadcastReplica!Next]_(BroadcastReplica!vars)
  <2> SUFFICES ASSUME Inv, BroadcastInv, [Next]_vars
               PROVE  [BroadcastReplica!Next]_(BroadcastReplica!vars)
    OBVIOUS
  <2> DEFINE h == session.height[Broadcast]
             g == session'.height[Broadcast]
             old == session.log[Broadcast]
             new == session'.log[Broadcast]
             n == server[Broadcast]
             m == server'[Broadcast]
  <2>1. Takes(session, session', trimmed) /\ Advances
    BY NextTakes, NextAdvances
  <2>2. /\ h \in Nat /\ g \in Nat /\ old \in Seq(Nat) /\ n \in Nat /\ m \in Nat
        /\ g <= m /\ n <= m
    <3>1. session \in SessionState /\ session' \in SessionState
      BY <2>1 DEF Takes, Inv, Good
    <3>2. h \in Nat /\ g \in Nat /\ old \in Seq(Nat)
      BY <3>1, BroadcastTypes
    <3>3. n \in Nat /\ m \in Nat /\ g <= m /\ n <= m
      BY <2>1, ChainFacts DEF Inv, Advances, Produced, Good, WithinServer
    <3>4. QED BY <3>2, <3>3
  <2>3. Handed(h, old, g, new, trimmed) /\ HandedBelow(h, old, trimmed)
    BY <2>1 DEF Takes, BroadcastInv
  <2> HIDE DEF h, g
  <2>4. CASE g = h /\ new = old
    <3>1. CASE n = m
      BY <2>4, <3>1 DEF BroadcastReplica!vars
    <3>2. CASE n # m
      <4>1. BroadcastReplica!Produce
        BY <2>2, <2>4, <3>2 DEF BroadcastReplica!Produce
      <4>2. QED BY <4>1 DEF BroadcastReplica!Next
    <3>3. QED BY <3>1, <3>2
  <2>5. CASE ~(g = h /\ new = old)
    <3>1. PICK first \in Nat : h <= first /\ first < g /\ new = old \o Run(first, g)
      BY <2>3, <2>5 DEF Handed
    <3>2. server' = server
      <4>1. session' # session
        BY <2>2, <3>1 DEF h, g
      <4>2. QED BY <4>1 DEF Next, vars, Connect, WaitingTimer, PollTimer, Produce, Push,
         OnSubchainRequest, OnSubchainRequestFails, ApplyPage, FinishRequest, Trim
    <3>3. old # <<>> => first > old[Len(old)]
      <4>1. ASSUME old # <<>> PROVE old[Len(old)] \in Nat /\ old[Len(old)] < h
        <5>1. Len(old) \in DOMAIN old
          BY <2>2, <4>1
        <5>2. QED BY <2>2, <2>3, <5>1 DEF HandedBelow
      <4>2. QED BY <2>2, <3>1, <4>1
    <3>4. first \in 0 .. n /\ g \in 0 .. n /\ n = m
      BY <2>2, <3>1, <3>2
    <3> HIDE DEF old, new, n, m
    <3>5. \E a, b \in 0 .. n :
            /\ a < b
            /\ old # <<>> => a > old[Len(old)]
            /\ FALSE /\ old # <<>> => a = old[Len(old)] + 1
            /\ new = old \o Run(a, b)
      BY <3>1, <3>3, <3>4
    <3>6. BroadcastReplica!HandOver
      BY <3>2, <3>5, SameRunOfBroadcasts DEF BroadcastReplica!HandOver, old, new, n
    <3>7. QED BY <3>6 DEF BroadcastReplica!Next
  <2>6. QED BY <2>4, <2>5
<1>3. QED
  BY <1>1, <1>2, Invariant, BroadcastInvHolds, PTL
  DEF Spec, BroadcastInOrder, BroadcastReplica!Spec

-----------------------------------------------------------------------------
(* GroupChain: the blocks and their states.                                 *)

State == [group : Group, key : SharedKey, hasValue : BOOLEAN, hasKey : BOOLEAN,
          hasGroup : BOOLEAN]

\* What is known of every block there is.
Sound(b) ==
  /\ b.height \in Nat
  /\ b.first \in Change
  /\ b.second \in Change
  /\ b.proof \in Proof

\* A session has begun with a block, or reached it as if it had.
Begun(chain) ==
  \E b \in Blocks : Sound(b) /\ Validates(StateOf(b), b.proof) /\ chain = ChainOf(b)

\* A block of this library was possible on the chain it was built on.
OfLibrary(b) ==
  \E base, first, second, k :
    /\ base # NoChain => \E c : base = ChainOf(c)
    /\ b = Build(base, first, second, k)
    /\ CanBuild(base, first, second, k)

\* The invariant.
ChainInv ==
  /\ DOMAIN replica = Sessions
  /\ IsFiniteSet(built)
  /\ \A b \in Blocks : Sound(b)
  /\ \A b \in built : OfLibrary(b)
  /\ \A s \in Sessions : replica[s] = NoChain \/ Begun(replica[s])

-----------------------------------------------------------------------------
(* States.                                                                  *)

LEMMA NoKeyType == NoKey \in SharedKey
BY DEF NoKey, SharedKey

LEMMA SameState ==
  ASSUME NEW s \in State, NEW t \in State,
         s.group = t.group, s.key = t.key, s.hasValue = t.hasValue,
         s.hasKey = t.hasKey, s.hasGroup = t.hasGroup
  PROVE  s = t
BY DEF State

\* What a change makes of each part of the state.
LEMMA AfterChange ==
  ASSUME NEW s \in State, NEW c \in Change
  PROVE  /\ After(s, c) \in State
         /\ After(s, c).group = IF c.type = "group" THEN c.group ELSE s.group
         /\ After(s, c).key = IF c.type = "group" THEN NoKey
                              ELSE IF c.type = "key" THEN c.key ELSE s.key
         /\ After(s, c).hasValue = (s.hasValue \/ c.type = "value")
         /\ After(s, c).hasKey = (s.hasKey \/ c.type = "key")
         /\ After(s, c).hasGroup = (s.hasGroup \/ c.type = "group")
<1>1. c.type \in {"noop", "value", "group", "key"} /\ c.group \in Group /\ c.key \in SharedKey
  BY DEF Change
<1>2. CASE c.type = "group"
  BY <1>1, <1>2, NoKeyType DEF After, State
<1>3. CASE c.type = "key"
  BY <1>1, <1>3 DEF After, State
<1>4. CASE c.type = "value"
  BY <1>1, <1>4 DEF After, State
<1>5. CASE c.type = "noop"
  BY <1>1, <1>5 DEF After, State
<1> QED BY <1>1, <1>2, <1>3, <1>4, <1>5

LEMMA AfterGroup ==
  ASSUME NEW s \in State, NEW c \in Change
  PROVE  After(s, c).group = IF c.type = "group" THEN c.group ELSE s.group
BY AfterChange

LEMMA AfterKey ==
  ASSUME NEW s \in State, NEW c \in Change
  PROVE  After(s, c).key = IF c.type = "group" THEN NoKey
                           ELSE IF c.type = "key" THEN c.key ELSE s.key
BY AfterChange

LEMMA AfterFlags ==
  ASSUME NEW s \in State, NEW c \in Change
  PROVE  /\ After(s, c) \in State
         /\ After(s, c).hasValue = (s.hasValue \/ c.type = "value")
         /\ After(s, c).hasKey = (s.hasKey \/ c.type = "key")
         /\ After(s, c).hasGroup = (s.hasGroup \/ c.type = "group")
BY AfterChange

LEMMA StartType ==
  ASSUME NEW s \in State
  PROVE  /\ Start(s) \in State
         /\ Start(s).group = s.group /\ Start(s).key = s.key
         /\ Start(s).hasValue = FALSE /\ Start(s).hasKey = FALSE /\ Start(s).hasGroup = FALSE
BY NoKeyType DEF Start, NewState, State

LEMMA NewStateType ==
  ASSUME NEW g \in Group
  PROVE  NewState(g) \in State /\ NewState(g).hasValue = FALSE
         /\ NewState(g).hasKey = FALSE /\ NewState(g).hasGroup = FALSE
BY NoKeyType DEF NewState, State

LEMMA EmptyGroupType == EmptyGroup \in Group /\ FirstGroup \in Group
BY DEF EmptyGroup, FirstGroup, Group

-----------------------------------------------------------------------------
(* Beginning with a block, and applying it.                                 *)

\* The state before the changes of a block are read off it.
Blank(b) == NewState(IF b.height = 0 THEN FirstGroup ELSE EmptyGroup)
Read(b) == After(After(Blank(b), b.first), b.second)

LEMMA ReadType ==
  ASSUME NEW b, Sound(b)
  PROVE  /\ Blank(b) \in State /\ Blank(b).hasValue = FALSE
         /\ Blank(b).hasKey = FALSE /\ Blank(b).hasGroup = FALSE
         /\ After(Blank(b), b.first) \in State /\ Read(b) \in State
<1>1. Blank(b) \in State /\ Blank(b).hasValue = FALSE
      /\ Blank(b).hasKey = FALSE /\ Blank(b).hasGroup = FALSE
  BY NewStateType, EmptyGroupType DEF Blank
<1>2. After(Blank(b), b.first) \in State
  BY <1>1, AfterChange DEF Sound
<1>3. Read(b) \in State
  BY <1>2, AfterChange DEF Sound, Read
<1> QED BY <1>1, <1>2, <1>3

\* The state of a session that begins with a block, part by part.
LEMMA StateOfType ==
  ASSUME NEW b, Sound(b)
  PROVE  /\ StateOf(b) \in State
         /\ StateOf(b).group = IF b.proof.group = {} THEN Read(b).group
                               ELSE CHOOSE g \in b.proof.group : TRUE
         /\ StateOf(b).key = IF b.proof.key = {} THEN Read(b).key
                             ELSE CHOOSE key \in b.proof.key : TRUE
         /\ StateOf(b).hasValue = Read(b).hasValue
         /\ StateOf(b).hasKey = Read(b).hasKey
         /\ StateOf(b).hasGroup = Read(b).hasGroup
<1>1. Read(b) \in State
  BY ReadType
<1>2. b.proof.group \in SUBSET Group /\ b.proof.key \in SUBSET SharedKey
  BY DEF Sound, Proof
<1>3. b.proof.group # {} => (CHOOSE g \in b.proof.group : TRUE) \in Group
  BY <1>2
<1>4. b.proof.key # {} => (CHOOSE key \in b.proof.key : TRUE) \in SharedKey
  BY <1>2
<1>5. StateOf(b) = [Read(b) EXCEPT !.group = IF b.proof.group = {} THEN @
                                             ELSE CHOOSE g \in b.proof.group : TRUE,
                                   !.key = IF b.proof.key = {} THEN @
                                           ELSE CHOOSE key \in b.proof.key : TRUE]
  BY DEF StateOf, Read, Blank
<1> HIDE DEF Read
<1> QED BY <1>1, <1>3, <1>4, <1>5 DEF State

\* The parts of the state after a block was applied, beside those it may have kept.
LEMMA ResultParts ==
  ASSUME NEW s \in State, NEW b, Sound(b)
  PROVE  /\ Result(s, b) \in State
         /\ Result(s, b).hasValue = Read(b).hasValue
         /\ Result(s, b).hasKey = Read(b).hasKey
         /\ Result(s, b).hasGroup = Read(b).hasGroup
         /\ Read(b).hasGroup => Result(s, b).group = Read(b).group
         /\ Read(b).hasGroup \/ Read(b).hasKey => Result(s, b).key = Read(b).key
<1> DEFINE f == After(Start(s), b.first)
           g == After(Blank(b), b.first)
<1>1. b.first \in Change /\ b.second \in Change
  BY DEF Sound
<1>2. Start(s) \in State /\ Start(s).hasValue = FALSE /\ Start(s).hasKey = FALSE
      /\ Start(s).hasGroup = FALSE
  BY StartType
<1>3. Blank(b) \in State /\ Blank(b).hasValue = FALSE /\ Blank(b).hasKey = FALSE
      /\ Blank(b).hasGroup = FALSE
  BY ReadType
<1>4. /\ f \in State /\ g \in State
      /\ f.hasValue = (b.first.type = "value") /\ g.hasValue = (b.first.type = "value")
      /\ f.hasKey = (b.first.type = "key") /\ g.hasKey = (b.first.type = "key")
      /\ f.hasGroup = (b.first.type = "group") /\ g.hasGroup = (b.first.type = "group")
  BY <1>1, <1>2, <1>3, AfterFlags
<1>5. b.first.type = "group" => f.group = g.group
  BY <1>1, <1>2, <1>3, AfterGroup
<1>6. b.first.type \in {"group", "key"} => f.key = g.key
  BY <1>1, <1>2, <1>3, AfterKey
<1>7. Result(s, b) = After(f, b.second) /\ Read(b) = After(g, b.second)
  BY DEF Result, Read
<1> HIDE DEF f, g
<1>8. /\ Result(s, b) \in State
      /\ Result(s, b).hasValue = (f.hasValue \/ b.second.type = "value")
      /\ Result(s, b).hasKey = (f.hasKey \/ b.second.type = "key")
      /\ Result(s, b).hasGroup = (f.hasGroup \/ b.second.type = "group")
  BY <1>1, <1>4, <1>7, AfterFlags
<1>9. /\ Read(b).hasValue = (g.hasValue \/ b.second.type = "value")
      /\ Read(b).hasKey = (g.hasKey \/ b.second.type = "key")
      /\ Read(b).hasGroup = (g.hasGroup \/ b.second.type = "group")
  BY <1>1, <1>4, <1>7, AfterFlags
<1>10. Read(b).hasGroup => Result(s, b).group = Read(b).group
  <2>1. /\ Result(s, b).group = IF b.second.type = "group" THEN b.second.group ELSE f.group
        /\ Read(b).group = IF b.second.type = "group" THEN b.second.group ELSE g.group
    BY <1>1, <1>4, <1>7, AfterGroup
  <2> QED BY <2>1, <1>4, <1>5, <1>9
<1>11. Read(b).hasGroup \/ Read(b).hasKey => Result(s, b).key = Read(b).key
  <2>1. /\ Result(s, b).key = IF b.second.type = "group" THEN NoKey
                              ELSE IF b.second.type = "key" THEN b.second.key ELSE f.key
        /\ Read(b).key = IF b.second.type = "group" THEN NoKey
                         ELSE IF b.second.type = "key" THEN b.second.key ELSE g.key
    BY <1>1, <1>4, <1>7, AfterKey
  <2> QED BY <2>1, <1>4, <1>6, <1>9
<1> QED BY <1>4, <1>8, <1>9, <1>10, <1>11

\* Applying a block leads to the state that a session which begins with it reads off it.
LEMMA Begins ==
  ASSUME NEW chain, chain.state \in State, NEW b, Sound(b), TakesBlock(chain, b)
  PROVE  /\ ChainAfter(chain, b) = ChainOf(b)
         /\ Validates(StateOf(b), b.proof)
<1> DEFINE r == Result(chain.state, b)
<1>1. /\ r \in State
      /\ r.hasValue = Read(b).hasValue
      /\ r.hasKey = Read(b).hasKey
      /\ r.hasGroup = Read(b).hasGroup
      /\ Read(b).hasGroup => r.group = Read(b).group
      /\ Read(b).hasGroup \/ Read(b).hasKey => r.key = Read(b).key
  BY ResultParts
<1>2. Validates(r, b.proof)
  BY DEF TakesBlock, Applies, Result
<1>3. Read(b) \in State
  BY ReadType
<1> HIDE DEF r
<1>4. /\ b.proof.group = IF r.hasGroup THEN {} ELSE {r.group}
      /\ b.proof.key = IF r.hasGroup \/ r.hasKey THEN {} ELSE {r.key}
  BY <1>2 DEF Validates
<1>5. StateOf(b).group = r.group
  BY <1>1, <1>4, StateOfType
<1>6. StateOf(b).key = r.key
  BY <1>1, <1>4, StateOfType
<1>7. StateOf(b) = r
  BY <1>1, <1>5, <1>6, StateOfType, SameState
<1> QED BY <1>2, <1>7 DEF ChainAfter, ChainOf, r

-----------------------------------------------------------------------------
(* Groups and keys.                                                         *)

LEMMA ParticipantsFinite == IsFiniteSet(Participant)
<1> DEFINE T == (Users \X Keys) \X SUBSET Flags
           f == [p \in Participant |-> <<<<p.user, p.key>>, p.flags>>]
<1>1. IsFiniteSet(Users \X Keys)
  BY FS_Product, ChainAssumption
<1>2. IsFiniteSet(Flags)
  <2>1. IsFiniteSet({"add"})
    BY FS_Singleton
  <2>2. IsFiniteSet({"add"} \cup {"remove"})
    BY <2>1, FS_AddElement
  <2>3. IsFiniteSet(({"add"} \cup {"remove"}) \cup {"value"})
    BY <2>2, FS_AddElement
  <2>4. Flags = ({"add"} \cup {"remove"}) \cup {"value"}
    BY DEF Flags
  <2> QED BY <2>3, <2>4
<1>3. IsFiniteSet(T)
  BY <1>1, <1>2, FS_SUBSET, FS_Product
<1>4. f \in Injection(Participant, T)
  <2>1. f \in [Participant -> T]
    BY DEF Participant
  <2>2. ASSUME NEW p \in Participant, NEW q \in Participant, f[p] = f[q]
        PROVE  p = q
    BY <2>2 DEF Participant
  <2> QED BY <2>1, <2>2 DEF Injection, IsInjective
<1> HIDE DEF T, f
<1> QED BY <1>3, <1>4, FS_Injection

\* A list of participants with as many users as entries has each user once.
LEMMA UniqueField ==
  ASSUME NEW S, IsFiniteSet(S), NEW g, g \in [S -> {g[x] : x \in S}],
         Cardinality({g[x] : x \in S}) = Cardinality(S)
  PROVE  \A x, y \in S : g[x] = g[y] => x = y
<1> DEFINE T == {g[x] : x \in S}
<1>1. g \in Surjection(S, T)
  BY DEF Surjection
<1>2. g \in Injection(S, T)
  BY <1>1, FS_SurjSameCardinalityImpliesInj
<1> QED BY <1>2 DEF Injection, IsInjective

LEMMA UniqueParticipants ==
  ASSUME NEW group \in Group, ValidGroup(group)
  PROVE  \A p, q \in group.members : p.user = q.user \/ p.key = q.key => p = q
<1> DEFINE M == group.members
           u == [p \in M |-> p.user]
           k == [p \in M |-> p.key]
<1>1. IsFiniteSet(M)
  BY ParticipantsFinite, FS_Subset DEF Group
<1>2. UsersOf(group) = {u[p] : p \in M} /\ KeysOf(group) = {k[p] : p \in M}
  BY DEF UsersOf, KeysOf
<1>3. u \in [M -> {u[p] : p \in M}] /\ k \in [M -> {k[p] : p \in M}]
  OBVIOUS
<1>4. Cardinality({u[p] : p \in M}) = Cardinality(M)
      /\ Cardinality({k[p] : p \in M}) = Cardinality(M)
  BY <1>2 DEF ValidGroup
<1>5. \A p, q \in M : u[p] = u[q] => p = q
  <2> HIDE DEF u, M
  <2> QED BY <1>1, <1>3, <1>4, UniqueField
<1>6. \A p, q \in M : k[p] = k[q] => p = q
  <2> HIDE DEF k, M
  <2> QED BY <1>1, <1>3, <1>4, UniqueField
<1> QED BY <1>5, <1>6

LEMMA ExactKey ==
  ASSUME NEW state \in State, ValidGroup(state.group), ValidKey(state.key, state.group),
         state.key # NoKey
  PROVE  state.key.to = UsersOf(state.group)
<1>1. state.key.to \in SUBSET Users
  BY DEF State, SharedKey
<1>2. IsFiniteSet(state.key.to)
  BY <1>1, ChainAssumption, FS_Subset
<1>3. Cardinality(state.key.to) = Cardinality(UsersOf(state.group))
      /\ UsersOf(state.group) \subseteq state.key.to
  BY DEF ValidKey, ValidGroup
<1> QED BY <1>2, <1>3, FS_Subset

-----------------------------------------------------------------------------
(* The invariant.                                                           *)

LEMMA BegunState ==
  ASSUME ChainInv, NEW s \in Sessions, replica[s] # NoChain
  PROVE  Begun(replica[s]) /\ replica[s].state \in State
<1>1. Begun(replica[s])
  BY DEF ChainInv
<1>2. PICK b \in Blocks : Sound(b) /\ replica[s] = ChainOf(b)
  BY <1>1 DEF Begun
<1>3. StateOf(b) \in State
  BY <1>2, StateOfType
<1>4. replica[s].state = StateOf(b)
  BY <1>2 DEF ChainOf
<1> QED BY <1>1, <1>3, <1>4

LEMMA InvInit == ChainInit => ChainInv
BY FS_EmptySet DEF ChainInit, ChainInv, Blocks

\* What is built on a chain that some block begins, from sound changes, is sound.
LEMMA BuiltSound ==
  ASSUME NEW chain, chain.state \in State, chain.height \in Nat \cup {-1},
         NEW first \in Change, NEW second \in Change, NEW k
  PROVE  Sound(Build(chain, first, second, k))
<1> DEFINE start == IF chain.height = -1 THEN NewState(FirstGroup) ELSE chain.state
           end == After(After(Start(start), first), second)
<1>1. start \in State
  BY NewStateType, EmptyGroupType
<1>2. end \in State
  <2> HIDE DEF start
  <2> QED BY <1>1, StartType, AfterFlags
<1> HIDE DEF end
<1>3. {end.group} \in SUBSET Group /\ {end.key} \in SUBSET SharedKey
  BY <1>2 DEF State
<1>4. Build(chain, first, second, k) =
        [height |-> chain.height + 1, prev |-> chain.last, first |-> first,
         second |-> second, signer |-> {k}, signed |-> k,
         proof |-> [group |-> IF end.hasGroup THEN {} ELSE {end.group},
                    key |-> IF end.hasGroup \/ end.hasKey THEN {} ELSE {end.key}]]
  BY DEF Build, end
<1> QED BY <1>3, <1>4 DEF Sound, Proof

LEMMA BaseState ==
  ASSUME ChainInv, NEW base \in Bases
  PROVE  base.state \in State /\ base.height \in Nat \cup {-1}
<1>1. CASE base = NoChain
  BY <1>1, NewStateType, EmptyGroupType DEF NoChain
<1>2. CASE base # NoChain
  <2>1. PICK b \in Blocks : base = ChainOf(b)
    BY <1>2 DEF Bases
  <2>2. Sound(b)
    BY DEF ChainInv
  <2>3. base.state = StateOf(b) /\ base.height = b.height
    BY <2>1 DEF ChainOf
  <2> QED BY <2>2, <2>3, StateOfType DEF Sound
<1> QED BY <1>1, <1>2

LEMMA JoinedGroup ==
  ASSUME NEW base, base.state \in State, NEW k \in Keys
  PROVE  Joined(base, k) \in Group /\ UsersOf(Joined(base, k)) \in SUBSET Users
<1>1. [user |-> Owner[k], key |-> k, flags |-> {"add", "remove"}] \in Participant
  BY ChainAssumption DEF Participant, Flags
<1>2. base.state.group.members \in SUBSET Participant
      /\ base.state.group.external \in SUBSET Flags
  BY DEF State, Group
<1>3. Joined(base, k) \in Group
  BY <1>1, <1>2 DEF Joined, Group, Flags
<1> QED BY <1>3 DEF UsersOf, Group, Participant

LEMMA ChangeTypes ==
  /\ Noop \in Change /\ SetValue \in Change
  /\ \A g \in Group : SetGroup(g) \in Change
  /\ \A key \in SharedKey : SetKey(key) \in Change
BY NoKeyType, EmptyGroupType DEF Noop, SetValue, SetGroup, SetKey, Change

\* Blocks are only added, and replicas that stay are still begun with one of them.
LEMMA StillBegun ==
  ASSUME ChainInv, Blocks \subseteq Blocks', UNCHANGED replica
  PROVE  /\ DOMAIN replica' = Sessions
         /\ \A s \in Sessions : replica'[s] = NoChain \/ Begun(replica[s])'
BY DEF ChainInv, Begun

LEMMA MakeJoinBlockKeeps ==
  ASSUME ChainInv, NEW k \in Keys, MakeJoinBlock(k)
  PROVE  ChainInv'
<1>1. PICK base \in Bases :
        LET group == Joined(base, k)
            key == NewKey(group)
        IN  /\ CanBuild(base, SetGroup(group), SetKey(key), k)
            /\ built' = built \cup {Build(base, SetGroup(group), SetKey(key), k)}
  BY DEF MakeJoinBlock
<1> DEFINE group == Joined(base, k)
           key == NewKey(group)
           block == Build(base, SetGroup(group), SetKey(key), k)
<1>2. CanBuild(base, SetGroup(group), SetKey(key), k) /\ built' = built \cup {block}
      /\ UNCHANGED <<replica, crafted>>
  BY <1>1 DEF MakeJoinBlock
<1>3. base.state \in State /\ base.height \in Nat \cup {-1}
  BY BaseState
<1>4. group \in Group /\ UsersOf(group) \in SUBSET Users
  BY <1>3, JoinedGroup
<1>5. key \in SharedKey
  <2>1. Cardinality(built) \in Nat
    BY FS_CardinalityType DEF ChainInv
  <2> QED BY <1>4, <2>1 DEF NewKey, SharedKey
<1>6. Sound(block)
  BY <1>3, <1>4, <1>5, ChangeTypes, BuiltSound
<1>7. OfLibrary(block)
  <2>1. base # NoChain => \E c : base = ChainOf(c)
    BY DEF Bases
  <2> QED BY <1>2, <2>1 DEF OfLibrary
<1> HIDE DEF block
<1>8. \A b \in Blocks' : Sound(b)
  BY <1>2, <1>6 DEF ChainInv, Blocks
<1>9. \A b \in built' : OfLibrary(b)
  BY <1>2, <1>7 DEF ChainInv
<1>10. Blocks \subseteq Blocks' /\ UNCHANGED replica
  BY <1>2 DEF Blocks
<1>11. IsFiniteSet(built)'
  BY <1>2, FS_AddElement DEF ChainInv
<1> QED BY <1>8, <1>9, <1>10, <1>11, StillBegun DEF ChainInv

LEMMA CraftKeeps ==
  ASSUME ChainInv, Craft
  PROVE  ChainInv'
<1>1. PICK base \in Bases \ {NoChain}, first \in Changes, second \in Changes, k \in Keys,
           signer \in {{}} \cup {{j} : j \in Keys}, repeats \in BOOLEAN :
        crafted' = crafted \cup {Crafted(base, first, second, k, signer, repeats)}
  BY DEF Craft
<1> DEFINE built1 == Build(base, first, second, k)
           proof == [group |-> {base.state.group}, key |-> {base.state.key}]
           block == Crafted(base, first, second, k, signer, repeats)
<1>2. crafted' = crafted \cup {block} /\ UNCHANGED <<replica, built>>
  BY <1>1 DEF Craft
<1>3. base.state \in State /\ base.height \in Nat \cup {-1}
  BY BaseState
<1>4. first \in Change /\ second \in Change
  <2>1. \A to \in SUBSET Users : [to |-> to, secret |-> 0] \in SharedKey
    BY DEF SharedKey
  <2>2. Changes \subseteq Change
    BY <2>1, ChangeTypes, ChainAssumption DEF Changes
  <2> QED BY <2>2
<1>5. Sound(built1)
  BY <1>3, <1>4, BuiltSound
<1>6. proof \in Proof
  BY <1>3 DEF Proof, State
<1>7. Sound(block)
  <2>1. /\ block.height = built1.height
        /\ block.first = built1.first /\ block.second = built1.second
        /\ block.proof \in {proof, built1.proof}
    BY DEF Build, Crafted
  <2> QED BY <1>5, <1>6, <2>1 DEF Sound
<1> HIDE DEF block
<1>8. \A b \in Blocks' : Sound(b)
  BY <1>2, <1>7 DEF ChainInv, Blocks
<1>9. Blocks \subseteq Blocks' /\ UNCHANGED <<replica, built>>
  BY <1>2 DEF Blocks
<1> QED BY <1>8, <1>9, StillBegun DEF ChainInv

LEMMA InitBlockchainKeeps ==
  ASSUME ChainInv, NEW s \in Sessions, NEW b \in Blocks, InitBlockchain(s, b)
  PROVE  ChainInv'
<1>1. replica' = [replica EXCEPT ![s] = ChainOf(b)] /\ UNCHANGED <<built, crafted>>
      /\ Validates(StateOf(b), b.proof)
  BY DEF InitBlockchain
<1>2. Blocks' = Blocks
  BY <1>1 DEF Blocks
<1>3. Sound(b)
  BY DEF ChainInv
<1>4. \A r \in Sessions : replica'[r] = NoChain \/ Begun(replica[r])'
  <2> TAKE r \in Sessions
  <2>1. CASE r = s
    BY <1>1, <1>2, <1>3, <2>1 DEF Begun, ChainInv
  <2>2. CASE r # s
    BY <1>1, <1>2, <2>2 DEF Begun, ChainInv
  <2> QED BY <2>1, <2>2
<1> QED BY <1>1, <1>2, <1>4 DEF ChainInv

\* A step of a session that applies a block, as one of beginning with it.
LEMMA Applied ==
  ASSUME ChainInv, NEW s \in Sessions, NEW b \in Blocks, ApplyBlock(s, b)
  PROVE  /\ replica' = [replica EXCEPT ![s] = ChainOf(b)] /\ UNCHANGED <<built, crafted>>
         /\ Validates(StateOf(b), b.proof)
         /\ StateOf(b) = Result(replica[s].state, b)
<1>1. replica[s].state \in State
  BY BegunState DEF ApplyBlock
<1>2. ChainAfter(replica[s], b) = ChainOf(b) /\ Validates(StateOf(b), b.proof)
  BY <1>1, Begins DEF ApplyBlock, ChainInv
<1>3. ChainAfter(replica[s], b).state = Result(replica[s].state, b)
      /\ ChainOf(b).state = StateOf(b)
  BY DEF ChainAfter, ChainOf
<1> QED BY <1>2, <1>3 DEF ApplyBlock

LEMMA ApplyBlockKeeps ==
  ASSUME ChainInv, NEW s \in Sessions, NEW b \in Blocks, ApplyBlock(s, b)
  PROVE  ChainInv'
<1>1. /\ replica' = [replica EXCEPT ![s] = ChainOf(b)] /\ UNCHANGED <<built, crafted>>
      /\ Validates(StateOf(b), b.proof)
  BY Applied
<1>2. Blocks' = Blocks
  BY <1>1 DEF Blocks
<1>3. Sound(b)
  BY DEF ChainInv
<1>4. \A r \in Sessions : replica'[r] = NoChain \/ Begun(replica[r])'
  <2> TAKE r \in Sessions
  <2>1. CASE r = s
    BY <1>1, <1>2, <1>3, <2>1 DEF Begun, ChainInv
  <2>2. CASE r # s
    BY <1>1, <1>2, <2>2 DEF Begun, ChainInv
  <2> QED BY <2>1, <2>2
<1> QED BY <1>1, <1>2, <1>4 DEF ChainInv

LEMMA InvNext == ChainInv /\ [ChainNext]_chainVars => ChainInv'
<1> SUFFICES ASSUME ChainInv, [ChainNext]_chainVars PROVE ChainInv'
  OBVIOUS
<1>1. CASE \E k \in Keys : MakeJoinBlock(k)
  BY <1>1, MakeJoinBlockKeeps
<1>2. CASE Craft
  BY <1>2, CraftKeeps
<1>3. CASE \E s \in Sessions, b \in Blocks : InitBlockchain(s, b)
  BY <1>3, InitBlockchainKeeps
<1>4. CASE \E s \in Sessions, b \in Blocks : ApplyBlock(s, b)
  BY <1>4, ApplyBlockKeeps
<1>5. CASE UNCHANGED chainVars
  BY <1>5 DEF chainVars, ChainInv, Begun, Blocks
<1> QED BY <1>1, <1>2, <1>3, <1>4, <1>5 DEF ChainNext

LEMMA Invariance == ChainSpec => []ChainInv
BY InvInit, InvNext, PTL DEF ChainSpec

-----------------------------------------------------------------------------
(* The theorems.                                                            *)

\* Agreement: what a session knows at a block is what every other knows that is at it.
THEOREM SpecAgreement == ChainSpec => []Agreement
<1>1. ChainInv => Agreement
  <2> SUFFICES ASSUME ChainInv, NEW r \in Sessions, NEW s \in Sessions,
                      replica[r].last = replica[s].last
               PROVE  replica[r].state = replica[s].state
    BY DEF Agreement
  <2>1. \A q \in Sessions : replica[q] # NoChain
          => \E b : replica[q].last = {b} /\ replica[q].state = StateOf(b)
    BY DEF ChainInv, Begun, ChainOf
  <2>2. NoChain.last = {}
    BY DEF NoChain
  <2> QED BY <2>1, <2>2
<1> QED BY <1>1, Invariance, PTL

\* KeyForMembers: the key is for exactly those who take part.
THEOREM SpecKeyForMembers == ChainSpec => []KeyForMembers
<1>1. ChainInv => KeyForMembers
  <2> SUFFICES ASSUME ChainInv, NEW s \in Sessions
               PROVE  /\ replica[s].state.key # NoKey
                           => replica[s].state.key.to = UsersOf(replica[s].state.group)
                      /\ \A p, q \in replica[s].state.group.members :
                           p.user = q.user \/ p.key = q.key => p = q
    BY DEF KeyForMembers
  <2>1. CASE replica[s] = NoChain
    BY <2>1 DEF NoChain, NewState, EmptyGroup
  <2>2. CASE replica[s] # NoChain
    <3>1. replica[s].state \in State
      BY <2>2, BegunState
    <3>2. ValidGroup(replica[s].state.group)
          /\ ValidKey(replica[s].state.key, replica[s].state.group)
      <4>1. PICK b \in Blocks : Validates(StateOf(b), b.proof) /\ replica[s] = ChainOf(b)
        BY <2>2 DEF ChainInv, Begun
      <4>2. replica[s].state = StateOf(b)
        BY <4>1 DEF ChainOf
      <4> QED BY <4>1, <4>2 DEF Validates
    <3>3. replica[s].state.group \in Group
      BY <3>1 DEF State
    <3> QED BY <3>1, <3>2, <3>3, ExactKey, UniqueParticipants
  <2> QED BY <2>1, <2>2
<1> QED BY <1>1, Invariance, PTL

\* What a signer may do is among what the group has.
LEMMA PermissionsBound ==
  ASSUME NEW group, NEW signer
  PROVE  Permissions(group, signer) \subseteq Powers(group)
BY DEF Permissions, Powers

\* A group that may be set has no powers the old one had not.
LEMMA SetGroupShrinks ==
  ASSUME NEW old \in Group, NEW new \in Group, NEW may, may \subseteq Powers(old),
         MaySetGroup(old, new, may)
  PROVE  Powers(new) \subseteq Powers(old)
<1>1. new.external \subseteq Powers(old)
  BY DEF MaySetGroup, Powers
<1>2. ASSUME NEW p \in new.members, NEW f \in p.flags
      PROVE  f \in Powers(old)
  <2>1. CASE p \in Added(old, new)
    <3>1. f \in Needed(old, new)
      BY <1>2, <2>1 DEF Needed, AddedFlags
    <3> QED BY <3>1 DEF MaySetGroup
  <2>2. CASE p \notin Added(old, new)
    <3>1. PICK q \in old.members : Same(p, q)
      BY <2>2 DEF Added
    <3>2. CASE f \in q.flags
      BY <3>2 DEF Powers
    <3>3. CASE f \notin q.flags
      <4>1. <<p, q>> \in Changed(old, new)
        BY <1>2, <3>1, <3>3 DEF Changed
      <4>2. f \in <<p, q>>[1].flags \ <<p, q>>[2].flags
        BY <1>2, <3>3
      <4>3. \E pq \in Changed(old, new) : f \in pq[1].flags \ pq[2].flags
        BY <4>1, <4>2
      <4>4. f \in GainedFlags(old, new)
        BY <4>3 DEF GainedFlags
      <4>5. f \in Needed(old, new)
        BY <4>4 DEF Needed
      <4> QED BY <4>5 DEF MaySetGroup
    <3> QED BY <3>2, <3>3
  <2> QED BY <2>1, <2>2
<1> QED BY <1>1, <1>2 DEF Powers

LEMMA ChangeShrinks ==
  ASSUME NEW s \in State, NEW c \in Change, NEW signer, MayApply(s, c, signer)
  PROVE  After(s, c) \in State /\ Powers(After(s, c).group) \subseteq Powers(s.group)
<1>1. After(s, c) \in State
  BY AfterFlags
<1>2. CASE c.type = "group"
  <2>1. MaySetGroup(s.group, c.group, Permissions(s.group, signer))
    BY <1>2 DEF MayApply
  <2>2. s.group \in Group /\ c.group \in Group
    BY DEF State, Change
  <2> QED BY <1>1, <1>2, <2>1, <2>2, AfterGroup, PermissionsBound, SetGroupShrinks
<1>3. CASE c.type # "group"
  BY <1>1, <1>3, AfterGroup
<1> QED BY <1>2, <1>3

\* PowersShrink: no block gives a permission that nobody had.
THEOREM SpecPowersShrink == ChainSpec => PowersShrink
<1>1. ASSUME ChainInv, [ChainNext]_chainVars, NEW s \in Sessions, replica[s] # NoChain
      PROVE  Powers(replica'[s].state.group) \subseteq Powers(replica[s].state.group)
  <2>1. CASE replica'[s] = replica[s]
    BY <2>1
  <2>2. CASE replica'[s] # replica[s]
    <3>1. PICK b \in Blocks : ApplyBlock(s, b)
      BY <1>1, <2>2
      DEF ChainNext, chainVars, MakeJoinBlock, Craft, InitBlockchain, ApplyBlock, ChainInv
    <3> DEFINE start == Start(replica[s].state)
               mid == After(start, b.first)
               end == After(mid, b.second)
    <3>2. PICK signer : MayApply(start, b.first, signer) /\ MayApply(mid, b.second, signer)
      BY <3>1 DEF ApplyBlock, TakesBlock, Applies
    <3>3. b.first \in Change /\ b.second \in Change
      BY <1>1 DEF ChainInv, Sound
    <3>4. start \in State /\ start.group = replica[s].state.group
      BY <1>1, BegunState, StartType
    <3>5. replica'[s].state = end
      BY <1>1, <3>1 DEF ApplyBlock, ChainAfter, Result, ChainInv
    <3> HIDE DEF start
    <3>6. mid \in State /\ Powers(mid.group) \subseteq Powers(start.group)
      BY <3>2, <3>3, <3>4, ChangeShrinks
    <3> HIDE DEF mid
    <3>7. Powers(end.group) \subseteq Powers(mid.group)
      BY <3>2, <3>3, <3>6, ChangeShrinks
    <3> QED BY <3>4, <3>5, <3>6, <3>7
  <2> QED BY <2>1, <2>2
<1>2. ChainInv /\ [ChainNext]_chainVars
        => [\A s \in Sessions :
              replica[s] # NoChain
                => Powers(replica'[s].state.group) \subseteq Powers(replica[s].state.group)]_chainVars
  BY <1>1
<1> QED BY <1>2, Invariance, PTL DEF ChainSpec, PowersShrink

\* BuiltIsTaken: what this library builds on a block, a session that is at it takes.
THEOREM SpecBuiltIsTaken == ChainSpec => []BuiltIsTaken
<1>1. ChainInv => BuiltIsTaken
  <2> SUFFICES ASSUME ChainInv, NEW block \in built, NEW s \in Sessions,
                      replica[s] # NoChain, replica[s].last = block.prev
               PROVE  TakesBlock(replica[s], block)
    BY DEF BuiltIsTaken
  <2>1. PICK base, first, second, k :
          /\ base # NoChain => \E c : base = ChainOf(c)
          /\ block = Build(base, first, second, k)
          /\ CanBuild(base, first, second, k)
    BY DEF ChainInv, OfLibrary
  <2>2. PICK b \in Blocks : Sound(b) /\ replica[s] = ChainOf(b)
    BY DEF ChainInv, Begun
  <2>3. block.prev = base.last /\ block.height = base.height + 1 /\ block.signer = {k}
    BY <2>1 DEF Build
  <2>4. base = replica[s]
    <3>1. base # NoChain
      BY <2>2, <2>3 DEF NoChain, ChainOf
    <3>2. PICK c : base = ChainOf(c)
      BY <2>1, <3>1
    <3>3. c = b
      BY <2>2, <2>3, <3>2 DEF ChainOf
    <3> QED BY <2>2, <3>2, <3>3
  <2>5. base.height \in Nat
    BY <2>2, <2>4 DEF ChainOf, Sound
  <2>6. base.height # MaxHeight /\ Applies(base.state, block, k)
    BY <2>1, <2>5 DEF CanBuild
  <2> QED BY <2>3, <2>4, <2>6 DEF TakesBlock, Signers
<1> QED BY <1>1, Invariance, PTL

=============================================================================
