------------------------- MODULE VerificationProofs -------------------------
(***************************************************************************)
(* Proofs about Verification, for every set of users and every bound.      *)
(* Sound is what one member's verification owes to the groups G of the     *)
(* main blocks and to the set S of stored broadcasts; both only grow.  Inv *)
(* adds what is known of the messages and of the emojis shown.             *)
(***************************************************************************)
EXTENDS Verification, TLAPS, FiniteSetTheorems

\* A message names a member of the group of its block and that member's nonce.
Known(m, G) ==
  /\ m.height \in DOMAIN G
  /\ m.user \in G[m.height]
  /\ m.nonce = m.height

\* The commitment of user p to the block at height h is stored.
HasCommitted(p, h, S) ==
  \E c \in S : c.kind = "commit" /\ c.user = p /\ c.height = h

\* A reveal is only sent when all the commitments to its block are stored.
Bound(m, G, S) ==
  m.kind = "reveal" => \A p \in G[m.height] : HasCommitted(p, m.height, S)

\* The emojis of a whole group.
Whole(h, keys) ==
  [height |-> h, nonces |-> [p \in Users |-> IF p \in keys THEN h ELSE 0]]

Sound(v, G, S) ==
  /\ v \in VerificationState
  /\ v.height \in 0 .. Len(G)
  /\ v.height > 0 => v.keys = G[v.height]
  /\ v.height = 0 => v.keys = {}
  /\ v.selfNonce = v.height
  /\ \A p \in Users : v.committed[p] # 0 =>
       p \in v.keys /\ HasCommitted(p, v.height, S)
  /\ v.phase # "commit" => \A p \in v.keys : v.committed[p] # 0
  /\ \A p \in Users : v.revealed[p] # 0 => p \in v.keys /\ v.revealed[p] = v.height
  /\ v.phase = "end" => \A p \in v.keys : v.revealed[p] # 0
  /\ v.emojis # NoEmojis => v.height > 0 /\ v.emojis = Whole(v.height, v.keys)

\* What a member is about to send.
Outbound(v, G, S) ==
  \/ v.pending = <<>>
  \/ \E m \in Message : v.pending = <<m>> /\ Known(m, G) /\ Bound(m, G, S)

Types ==
  /\ groups \in Seq(SUBSET Users)
  /\ broadcasts \in Seq(Message)
  /\ sending \subseteq Message
  /\ verification \in [Users -> VerificationState]
  /\ cursor \in [Users -> Nat]
  /\ removed \subseteq Users
  /\ shown \in [Users -> Emojis]
  /\ losses \in Nat
  /\ duplicates \in Nat

MessagesKnown ==
  \A m \in sending \cup Stored : Known(m, groups) /\ Bound(m, groups, Stored)

MembersSound ==
  \A u \in Users :
    /\ Sound(verification[u], groups, Stored)
    /\ u \notin removed =>
         /\ verification[u].pending = <<>>
         /\ verification[u].height > 0 => u \in verification[u].keys
    /\ cursor[u] <= Len(broadcasts)

\* Emojis e shown to the user u are those of a whole group.
Shows(u, e, G) ==
  e # NoEmojis => /\ e.height \in DOMAIN G
                  /\ u \in G[e.height]
                  /\ e = Whole(e.height, G[e.height])

Inv ==
  /\ Types
  /\ MessagesKnown
  /\ MembersSound
  /\ \A u \in Users : Shows(u, shown[u], groups)

-----------------------------------------------------------------------------
(* Maps of nonces.                                                          *)

\* A map with entries for some members only and as many entries as there are
\* members has an entry for each of them.
LEMMA FullMap ==
  ASSUME NEW f \in [Users -> Nat], NEW K \in SUBSET Users,
         \A p \in Users : f[p] # 0 => p \in K,
         Size(f) = Cardinality(K)
  PROVE  \A p \in K : f[p] # 0
<1> DEFINE T == {u \in Users : f[u] # 0}
<1>1. IsFiniteSet(K)
  BY FS_Subset, VerificationAssumption
<1>2. T \in SUBSET K
  OBVIOUS
<1>3. Cardinality(K) = Cardinality(T)
  BY DEF Size
<1> HIDE DEF T
<1>4. K = T
  BY <1>1, <1>2, <1>3, FS_Subset
<1>5. QED BY <1>4 DEF T

\* The fields of a verification have their types.
LEMMA VerificationFields ==
  ASSUME NEW v \in VerificationState
  PROVE  /\ v.height \in Nat /\ v.selfNonce \in Nat
         /\ v.phase \in {"commit", "reveal", "end"}
         /\ v.keys \in SUBSET Users
         /\ v.committed \in [Users -> Nat]
         /\ v.revealed \in [Users -> Nat]
         /\ v.sent \in BOOLEAN
         /\ v.pending \in Seq(Message)
         /\ v.emojis \in Emojis
         /\ v.delayed \in SUBSET Message
BY DEF VerificationState

-----------------------------------------------------------------------------
(* One lemma per operation of SessionVerification.                          *)

\* A commitment leaves a member sound.
LEMMA ProcessCommitSound ==
  ASSUME NEW v, NEW G \in Seq(SUBSET Users), NEW S \in SUBSET Message, NEW m \in S,
         Sound(v, G, S), m.kind = "commit", m.height = v.height
  PROVE  LET w == ProcessCommit(v, m)
         IN  /\ Sound(w, G, S)
             /\ w.height = v.height /\ w.keys = v.keys /\ w.pending = v.pending
<1>0. CASE ~(v.phase = "commit" /\ m.user \in v.keys /\ v.committed[m.user] = 0)
  BY <1>0 DEF ProcessCommit
<1>1. CASE v.phase = "commit" /\ m.user \in v.keys /\ v.committed[m.user] = 0
  <2> DEFINE all == [v.committed EXCEPT ![m.user] = m.nonce]
             w == [v EXCEPT !.committed = all,
                            !.phase = IF Size(all) = Cardinality(v.keys)
                                      THEN "reveal" ELSE @]
  <2>1. v \in VerificationState
    BY DEF Sound
  <2>2. m \in Message
    OBVIOUS
  <2>3. all \in [Users -> Nat]
    BY <2>1, <2>2, VerificationFields DEF Message
  <2>4. \A p \in Users : all[p] # 0 => p \in v.keys /\ HasCommitted(p, v.height, S)
    <3> SUFFICES ASSUME NEW p \in Users, all[p] # 0
                 PROVE  p \in v.keys /\ HasCommitted(p, v.height, S)
      OBVIOUS
    <3>1. CASE p = m.user
      BY <1>1, <3>1 DEF HasCommitted
    <3>2. CASE p # m.user
      <4>1. v.committed[p] # 0
        BY <3>2, <2>1, VerificationFields
      <4>2. QED BY <4>1 DEF Sound
    <3>3. QED BY <3>1, <3>2
  <2>5. Size(all) = Cardinality(v.keys) => \A p \in v.keys : all[p] # 0
    <3> HIDE DEF all
    <3>1. v.keys \in SUBSET Users
      BY <2>1, VerificationFields
    <3>2. QED BY <2>3, <2>4, <3>1, FullMap
  <2>6. w \in VerificationState
    <3> HIDE DEF all
    <3>1. QED BY <2>1, <2>3 DEF VerificationState
  <2>7. /\ w.height = v.height /\ w.keys = v.keys /\ w.pending = v.pending
        /\ w.selfNonce = v.selfNonce /\ w.revealed = v.revealed
        /\ w.emojis = v.emojis /\ w.committed = all
        /\ w.phase = IF Size(all) = Cardinality(v.keys) THEN "reveal" ELSE "commit"
    <3> HIDE DEF all
    <3>1. QED BY <1>1, <2>1 DEF VerificationState
  <2>8. ProcessCommit(v, m) = w
    BY <1>1 DEF ProcessCommit
  <2> HIDE DEF all, w
  <2>9. Sound(w, G, S)
    BY <2>4, <2>5, <2>6, <2>7 DEF Sound
  <2>10. QED BY <2>7, <2>8, <2>9
<1>2. QED BY <1>0, <1>1

\* A reveal leaves a member sound; the emojis it may complete are whole.
LEMMA ProcessRevealSound ==
  ASSUME NEW v, NEW G \in Seq(SUBSET Users), NEW S \in SUBSET Message, NEW m \in S,
         Sound(v, G, S), Known(m, G), m.height = v.height
  PROVE  LET w == ProcessReveal(v, m)
         IN  /\ Sound(w, G, S)
             /\ w.height = v.height /\ w.keys = v.keys /\ w.pending = v.pending
<1> DEFINE Acts == /\ v.phase = "reveal" /\ m.user \in v.keys /\ v.revealed[m.user] = 0
                   /\ v.committed[m.user] = m.nonce
<1>0. CASE ~Acts
  BY <1>0 DEF ProcessReveal
<1>1. CASE Acts
  <2> DEFINE all == [v.revealed EXCEPT ![m.user] = m.nonce]
             done == Size(all) = Cardinality(v.keys)
             w == [v EXCEPT !.revealed = all,
                            !.phase = IF done THEN "end" ELSE @,
                            !.emojis = IF done THEN [height |-> v.height, nonces |-> all]
                                       ELSE @]
  <2>1. v \in VerificationState
    BY DEF Sound
  <2>2. m \in Message /\ m.nonce = v.height /\ v.height > 0
    BY DEF Known
  <2>3. all \in [Users -> Nat]
    BY <2>1, <2>2, VerificationFields DEF Message
  <2>4. \A p \in Users : all[p] # 0 => p \in v.keys /\ all[p] = v.height
    <3> SUFFICES ASSUME NEW p \in Users, all[p] # 0
                 PROVE  p \in v.keys /\ all[p] = v.height
      OBVIOUS
    <3>1. CASE p = m.user
      BY <1>1, <2>1, <2>2, <3>1, VerificationFields
    <3>2. CASE p # m.user
      <4>1. v.revealed[p] # 0 /\ all[p] = v.revealed[p]
        BY <3>2, <2>1, VerificationFields
      <4>2. QED BY <4>1 DEF Sound
    <3>3. QED BY <3>1, <3>2
  <2>5. done => \A p \in v.keys : all[p] # 0
    <3> HIDE DEF all
    <3>1. v.keys \in SUBSET Users
      BY <2>1, VerificationFields
    <3>2. QED BY <2>3, <2>4, <3>1, FullMap
  <2>6. done => [height |-> v.height, nonces |-> all] = Whole(v.height, v.keys)
    <3> SUFFICES ASSUME done PROVE all = [p \in Users |-> IF p \in v.keys THEN v.height ELSE 0]
      BY DEF Whole
    <3>1. \A p \in Users : all[p] = IF p \in v.keys THEN v.height ELSE 0
      BY <2>4, <2>5
    <3> HIDE DEF all, done
    <3>2. QED BY <2>3, <3>1
  <2>7. w \in VerificationState
    <3>1. [height |-> v.height, nonces |-> all] \in Emojis
      <4> HIDE DEF all
      <4>1. QED BY <2>1, <2>3, VerificationFields DEF Emojis
    <3> HIDE DEF all, done
    <3>2. QED BY <2>1, <2>3, <3>1 DEF VerificationState
  <2>8. /\ w.height = v.height /\ w.keys = v.keys /\ w.pending = v.pending
        /\ w.selfNonce = v.selfNonce /\ w.committed = v.committed
        /\ w.revealed = all
        /\ w.phase = IF done THEN "end" ELSE "reveal"
        /\ w.emojis = IF done THEN [height |-> v.height, nonces |-> all] ELSE v.emojis
    <3> HIDE DEF all, done
    <3>1. QED BY <1>1, <2>1 DEF VerificationState
  <2>9. ProcessReveal(v, m) = w
    BY <1>1 DEF ProcessReveal
  <2> HIDE DEF all, done, w
  <2>10. Sound(w, G, S)
    <3>1. \A p \in v.keys : v.committed[p] # 0
      BY <1>1 DEF Sound
    <3>2. QED BY <2>2, <2>4, <2>5, <2>6, <2>7, <2>8, <3>1 DEF Sound
  <2>11. QED BY <2>8, <2>9, <2>10
<1>2. QED BY <1>0, <1>1

\* A member that has all the commitments adds its reveal, which is bound.
LEMMA EmitRevealSound ==
  ASSUME NEW u \in Users, NEW v, NEW G \in Seq(SUBSET Users), NEW S \in SUBSET Message,
         Sound(v, G, S), v.pending = <<>>, v.height > 0, u \in v.keys
  PROVE  LET w == EmitRevealIfNeeded(u, v)
         IN  /\ Sound(w, G, S)
             /\ w.height = v.height /\ w.keys = v.keys
             /\ Outbound(w, G, S)
<1>0. CASE ~(v.phase = "reveal" /\ ~v.sent)
  BY <1>0 DEF EmitRevealIfNeeded, Outbound
<1>1. CASE v.phase = "reveal" /\ ~v.sent
  <2> DEFINE r == [kind |-> "reveal", user |-> u, height |-> v.height,
                   nonce |-> v.selfNonce]
             w == [v EXCEPT !.sent = TRUE, !.pending = Append(@, r)]
  <2>1. v \in VerificationState /\ v.height \in Nat /\ v.selfNonce = v.height
    BY VerificationFields DEF Sound
  <2>2. r \in Message
    BY <2>1 DEF Message
  <2>3. Append(v.pending, r) = <<r>> /\ <<r>> \in Seq(Message)
    BY <2>2
  <2>4. Known(r, G)
    BY <2>1 DEF Known, Sound
  <2>5. Bound(r, G, S)
    <3>1. \A p \in v.keys : v.committed[p] # 0 /\ p \in Users
      BY <1>1, <2>1, VerificationFields DEF Sound
    <3>2. \A p \in v.keys : HasCommitted(p, v.height, S)
      BY <3>1 DEF Sound
    <3>3. QED BY <3>2 DEF Bound, Sound
  <2> HIDE DEF r
  <2>6. /\ w \in VerificationState
        /\ w.height = v.height /\ w.keys = v.keys /\ w.selfNonce = v.selfNonce
        /\ w.committed = v.committed /\ w.revealed = v.revealed
        /\ w.phase = v.phase /\ w.emojis = v.emojis /\ w.pending = <<r>>
    BY <2>1, <2>3 DEF VerificationState
  <2>7. EmitRevealIfNeeded(u, v) = w
    BY <1>1 DEF EmitRevealIfNeeded, r
  <2> HIDE DEF w
  <2>8. Sound(w, G, S)
    BY <2>6 DEF Sound
  <2>9. Outbound(w, G, S)
    BY <2>2, <2>4, <2>5, <2>6 DEF Outbound
  <2>10. QED BY <2>6, <2>7, <2>8, <2>9
<1>2. QED BY <1>0, <1>1

\* A broadcast leaves a member sound, and what it then sends is bound.
LEMMA ReceiveSound ==
  ASSUME NEW u \in Users, NEW v, NEW G \in Seq(SUBSET Users), NEW S \in SUBSET Message,
         NEW m \in S,
         Sound(v, G, S), v.pending = <<>>, Known(m, G), v.height > 0, u \in v.keys
  PROVE  LET w == ReceiveInboundMessage(u, v, m)
         IN  /\ Sound(w, G, S)
             /\ w.height = v.height /\ w.keys = v.keys
             /\ Outbound(w, G, S)
<1>1. v \in VerificationState /\ v.height \in Nat /\ m \in Message /\ m.height \in Nat
  BY VerificationFields DEF Sound, Message
<1>2. CASE m.height < v.height
  BY <1>2 DEF ReceiveInboundMessage, Outbound
<1>3. CASE m.height > v.height
  <2> DEFINE w == [v EXCEPT !.delayed = @ \cup {m}]
  <2>1. /\ w \in VerificationState
        /\ w.height = v.height /\ w.keys = v.keys /\ w.selfNonce = v.selfNonce
        /\ w.committed = v.committed /\ w.revealed = v.revealed
        /\ w.phase = v.phase /\ w.emojis = v.emojis /\ w.pending = v.pending
    BY <1>1, VerificationFields DEF VerificationState
  <2>2. ReceiveInboundMessage(u, v, m) = w
    BY <1>1, <1>3 DEF ReceiveInboundMessage
  <2> HIDE DEF w
  <2>3. Sound(w, G, S)
    BY <2>1 DEF Sound
  <2>4. QED BY <2>1, <2>2, <2>3 DEF Outbound
<1>4. CASE m.height = v.height
  <2> DEFINE w == ProcessBroadcast(v, m)
  <2>1. /\ Sound(w, G, S)
        /\ w.height = v.height /\ w.keys = v.keys /\ w.pending = v.pending
    <3>1. CASE m.kind = "commit"
      BY <1>4, <3>1, ProcessCommitSound DEF ProcessBroadcast
    <3>2. CASE m.kind # "commit"
      BY <1>4, <3>2, ProcessRevealSound DEF ProcessBroadcast
    <3>3. QED BY <3>1, <3>2
  <2>2. ReceiveInboundMessage(u, v, m) = EmitRevealIfNeeded(u, w)
    BY <1>1, <1>4 DEF ReceiveInboundMessage
  <2> HIDE DEF w
  <2>3. QED BY <2>1, <2>2, EmitRevealSound
<1>5. QED BY <1>1, <1>2, <1>3, <1>4

\* A new main block opens a sound round, and the commitment it sends is known.
LEMMA NewMainBlockSound ==
  ASSUME NEW u \in Users, NEW v, NEW G \in Seq(SUBSET Users), NEW S \in SUBSET Message,
         Sound(v, G, S), NEW h \in DOMAIN G
  PROVE  LET w == OnNewMainBlock(u, v, h, G[h])
         IN  /\ Sound(w, G, S)
             /\ w.height = h /\ w.keys = G[h] /\ w.emojis = NoEmojis
             /\ u \in G[h] => Outbound(w, G, S)
<1> DEFINE c == [kind |-> "commit", user |-> u, height |-> h, nonce |-> h]
           w == OnNewMainBlock(u, v, h, G[h])
<1>1. v \in VerificationState /\ h \in Nat /\ h > 0 /\ h <= Len(G) /\ G[h] \in SUBSET Users
  BY DEF Sound
<1>2. c \in Message
  BY <1>1 DEF Message
<1>3. NoNonces \in [Users -> Nat] /\ NoEmojis \in Emojis
  BY DEF NoNonces, NoEmojis, Emojis
<1>4. /\ w \in VerificationState
      /\ w.height = h /\ w.keys = G[h] /\ w.selfNonce = h
      /\ w.committed = NoNonces /\ w.revealed = NoNonces
      /\ w.phase = "commit" /\ w.emojis = NoEmojis /\ w.pending = <<c>>
  <2>1. <<c>> \in Seq(Message)
    BY <1>2
  <2>2. {m \in v.delayed : m.height # h} \in SUBSET Message
    BY <1>1, VerificationFields
  <2> HIDE DEF c
  <2>3. w = [v EXCEPT !.height = h, !.selfNonce = h, !.phase = "commit",
            !.keys = G[h], !.sent = FALSE, !.emojis = NoEmojis,
            !.committed = NoNonces, !.revealed = NoNonces,
            !.pending = <<c>>, !.delayed = {m \in @ : m.height # h}]
    BY DEF OnNewMainBlock, c
  <2> HIDE DEF w
  <2>4. QED BY <1>1, <1>3, <2>1, <2>2, <2>3 DEF VerificationState
<1> HIDE DEF w
<1>5. Sound(w, G, S)
  BY <1>1, <1>4 DEF Sound, NoNonces
<1>6. u \in G[h] => Known(c, G) /\ Bound(c, G, S)
  BY DEF Known, Bound
<1> HIDE DEF c
<1>7. u \in G[h] => Outbound(w, G, S)
  BY <1>2, <1>4, <1>6 DEF Outbound
<1>8. QED BY <1>4, <1>5, <1>7 DEF w

\* More main blocks and more stored broadcasts take nothing away.
LEMMA SoundGrows ==
  ASSUME NEW G \in Seq(SUBSET Users), NEW H \in Seq(SUBSET Users),
         NEW S \in SUBSET Message, NEW T \in SUBSET Message, S \subseteq T,
         H = G \/ \E g \in SUBSET Users : H = Append(G, g)
  PROVE  /\ \A v : Sound(v, G, S) => Sound(v, H, T)
         /\ \A m : Known(m, G) => Known(m, H)
         /\ \A m : Known(m, G) /\ Bound(m, G, S) => Bound(m, H, T)
         /\ \A u, e : Shows(u, e, G) => Shows(u, e, H)
<1>1. /\ Len(G) <= Len(H)
      /\ DOMAIN G \subseteq DOMAIN H
      /\ \A h \in DOMAIN G : H[h] = G[h]
      /\ Len(G) \in Nat /\ Len(H) \in Nat
      /\ DOMAIN G = 1 .. Len(G)
  OBVIOUS
<1>2. \A p, h : HasCommitted(p, h, S) => HasCommitted(p, h, T)
  BY DEF HasCommitted
<1>3. ASSUME NEW v, Sound(v, G, S) PROVE Sound(v, H, T)
  <2>1. v \in VerificationState /\ v.height \in 0 .. Len(G)
    BY <1>3 DEF Sound
  <2>2. v.height \in 0 .. Len(H) /\ (v.height > 0 => v.keys = H[v.height])
    BY <1>1, <1>3, <2>1 DEF Sound
  <2>3. QED BY <1>2, <1>3, <2>1, <2>2 DEF Sound
<1>4. \A m : Known(m, G) => Known(m, H)
  BY <1>1 DEF Known
<1>5. \A m : Known(m, G) /\ Bound(m, G, S) => Bound(m, H, T)
  BY <1>1, <1>2 DEF Known, Bound
<1>6. \A u, e : Shows(u, e, G) => Shows(u, e, H)
  BY <1>1 DEF Shows
<1>7. QED BY <1>3, <1>4, <1>5, <1>6

-----------------------------------------------------------------------------
(* The steps.                                                               *)

\* What is stored are messages.
LEMMA StoredType ==
  ASSUME broadcasts \in Seq(Message)
  PROVE  Stored \in SUBSET Message
BY DEF Stored

\* What the emojis of a sound member may add to the display.
LEMMA SoundShows ==
  ASSUME NEW u \in Users, NEW v, NEW G \in Seq(SUBSET Users), NEW S,
         Sound(v, G, S), v.height > 0 => u \in v.keys
  PROVE  v.emojis \in Emojis /\ Shows(u, v.emojis, G)
<1>1. v \in VerificationState /\ v.emojis \in Emojis /\ v.height \in Nat
  BY VerificationFields DEF Sound
<1>2. ASSUME v.emojis # NoEmojis PROVE Shows(u, v.emojis, G)
  <2>1. v.height > 0 /\ v.emojis = Whole(v.height, v.keys) /\ v.keys = G[v.height]
        /\ v.height \in 0 .. Len(G)
    BY <1>2 DEF Sound
  <2>2. v.emojis.height = v.height
    BY <2>1 DEF Whole
  <2>3. v.height \in DOMAIN G
    BY <1>1, <2>1
  <2>4. QED BY <2>1, <2>2, <2>3 DEF Shows
<1>3. QED BY <1>1, <1>2 DEF Shows

\* Nothing has been sent or shown at first.
LEMMA InitInv == Init => Inv
<1> SUFFICES ASSUME Init PROVE Inv
  OBVIOUS
<1>1. NoNonces \in [Users -> Nat] /\ NoEmojis \in Emojis
  BY DEF NoNonces, NoEmojis, Emojis
<1>2. NewVerification \in VerificationState
  BY <1>1 DEF NewVerification, VerificationState
<1>3. Types
  BY <1>1, <1>2 DEF Init, Types
<1>4. Stored = {}
  BY DEF Init, Stored
<1>5. Sound(NewVerification, <<>>, {})
  BY <1>2 DEF Sound, NewVerification, NoNonces
<1>6. MembersSound
  BY <1>4, <1>5 DEF MembersSound, Init, NewVerification
<1>7. QED BY <1>3, <1>4, <1>6 DEF Inv, MessagesKnown, Init, Shows

\* The display and the outbound messages after an operation on the member u
\* that left it sound.
LEMMA AfterOperation ==
  ASSUME Inv, NEW u \in Users, NEW v,
         Sound(v, groups, Stored), v.height > 0, u \in v.keys,
         Outbound(v, groups, Stored),
         UpdateEmojis(u, v), CheckForOutboundMessages(u, v),
         groups' = groups, broadcasts' = broadcasts, removed' = removed,
         cursor' \in [Users -> Nat], \A p \in Users : cursor'[p] <= Len(broadcasts),
         losses' = losses, duplicates' = duplicates
  PROVE  Inv'
<1>1. Types
  BY DEF Inv
<1>2. Stored' = Stored /\ Stored \in SUBSET Message
  BY <1>1, StoredType DEF Types, Stored
<1> DEFINE w == [v EXCEPT !.pending = <<>>]
<1>3. v \in VerificationState
  BY DEF Sound
<1>4. /\ w \in VerificationState /\ w.pending = <<>>
      /\ w.height = v.height /\ w.keys = v.keys /\ w.selfNonce = v.selfNonce
      /\ w.committed = v.committed /\ w.revealed = v.revealed
      /\ w.phase = v.phase /\ w.emojis = v.emojis
  <2>1. <<>> \in Seq(Message)
    OBVIOUS
  <2>2. QED BY <1>3, <2>1 DEF VerificationState
<1>5. verification' = [verification EXCEPT ![u] = w]
  BY DEF CheckForOutboundMessages
<1> HIDE DEF w
<1>6. Sound(w, groups, Stored)
  BY <1>4 DEF Sound
<1>7. MembersSound'
  <2>1. \A p \in Users : verification'[p] = IF p = u THEN w ELSE verification[p]
    BY <1>1, <1>5 DEF Types
  <2>2. QED BY <1>2, <1>4, <1>6, <2>1 DEF MembersSound, Inv
<1>8. sending' \subseteq Message /\ MessagesKnown'
  <2>1. CASE v.pending = <<>>
    BY <1>1, <1>2, <2>1 DEF CheckForOutboundMessages, MessagesKnown, Inv, Types
  <2>2. CASE v.pending # <<>>
    <3>1. PICK m \in Message : v.pending = <<m>> /\ Known(m, groups)
                               /\ Bound(m, groups, Stored)
      BY <2>2 DEF Outbound
    <3>2. sending' = sending \cup {m}
      BY <2>2, <3>1 DEF CheckForOutboundMessages
    <3>3. QED BY <1>1, <1>2, <3>1, <3>2 DEF MessagesKnown, Inv, Types
  <2>3. QED BY <2>1, <2>2
<1>9. shown' \in [Users -> Emojis] /\ \A p \in Users : Shows(p, shown'[p], groups)
  <2>1. v.emojis \in Emojis /\ Shows(u, v.emojis, groups)
    BY <1>1, SoundShows DEF Types
  <2>2. CASE v.emojis = NoEmojis
    BY <1>1, <2>2 DEF UpdateEmojis, Inv, Types
  <2>3. CASE v.emojis # NoEmojis
    BY <1>1, <2>1, <2>3 DEF UpdateEmojis, Inv, Types
  <2>4. QED BY <2>2, <2>3
<1>10. Types'
  BY <1>1, <1>4, <1>5, <1>8, <1>9 DEF Types
<1>11. QED BY <1>7, <1>8, <1>9, <1>10 DEF Inv

\* The server accepts a main block.
LEMMA NewMainBlockInv ==
  ASSUME Inv, NEW g \in SUBSET Users, NewMainBlock(g)
  PROVE  Inv'
<1>1. Types
  BY DEF Inv
<1>2. Stored' = Stored /\ Stored \in SUBSET Message
  BY <1>1, StoredType DEF NewMainBlock, Types, Stored
<1>3. groups \in Seq(SUBSET Users) /\ groups' \in Seq(SUBSET Users)
      /\ groups' = Append(groups, g)
  BY <1>1 DEF NewMainBlock, Types
<1>4. Types'
  BY <1>1, <1>3 DEF NewMainBlock, Types
<1>5. /\ \A v : Sound(v, groups, Stored) => Sound(v, groups', Stored)
      /\ \A m : Known(m, groups) => Known(m, groups')
      /\ \A m : Known(m, groups) /\ Bound(m, groups, Stored) => Bound(m, groups', Stored)
      /\ \A u, e : Shows(u, e, groups) => Shows(u, e, groups')
  BY <1>2, <1>3, SoundGrows
<1>6. MembersSound'
  BY <1>2, <1>5 DEF MembersSound, Inv, NewMainBlock
<1>7. MessagesKnown'
  BY <1>2, <1>5 DEF MessagesKnown, Inv, NewMainBlock
<1>8. QED BY <1>4, <1>5, <1>6, <1>7 DEF Inv, NewMainBlock

\* A member applies a main block, which may remove it.
LEMMA ApplyMainInv ==
  ASSUME Inv, NEW u \in Users, ApplyMain(u)
  PROVE  Inv'
<1>1. Types
  BY DEF Inv
<1>2. PICK h \in DOMAIN groups :
        LET v == OnNewMainBlock(u, verification[u], h, groups[h])
        IN  IF u \in groups[h]
            THEN /\ UpdateEmojis(u, v)
                 /\ CheckForOutboundMessages(u, v)
                 /\ UNCHANGED removed
            ELSE /\ verification' = [verification EXCEPT ![u] = v]
                 /\ removed' = removed \cup {u}
                 /\ UNCHANGED <<sending, shown>>
  BY DEF ApplyMain
<1>3. UNCHANGED <<groups, broadcasts, cursor, losses, duplicates>>
  BY DEF ApplyMain
<1> DEFINE v == OnNewMainBlock(u, verification[u], h, groups[h])
<1>4. Stored' = Stored /\ Stored \in SUBSET Message
  BY <1>1, <1>3, StoredType DEF Types, Stored
<1>5. /\ Sound(v, groups, Stored)
      /\ v.height = h /\ v.keys = groups[h] /\ v.emojis = NoEmojis
      /\ u \in groups[h] => Outbound(v, groups, Stored)
  <2>1. Sound(verification[u], groups, Stored)
    BY DEF Inv, MembersSound
  <2>2. QED BY <1>1, <1>4, <2>1, NewMainBlockSound DEF Types
<1>6. h > 0 /\ h \in Nat
  BY <1>1 DEF Types
<1>7. CASE u \in groups[h]
  <2>1. UpdateEmojis(u, v) /\ CheckForOutboundMessages(u, v) /\ removed' = removed
    BY <1>2, <1>7
  <2>2. cursor' \in [Users -> Nat] /\ \A p \in Users : cursor'[p] <= Len(broadcasts)
    BY <1>1, <1>3 DEF Types, Inv, MembersSound
  <2> HIDE DEF v
  <2>3. QED BY <1>3, <1>5, <1>6, <1>7, <2>1, <2>2, AfterOperation
<1>8. CASE u \notin groups[h]
  <2>1. /\ verification' = [verification EXCEPT ![u] = v]
        /\ removed' = removed \cup {u}
        /\ UNCHANGED <<sending, shown>>
    BY <1>2, <1>8
  <2> HIDE DEF v
  <2>2. v \in VerificationState
    BY <1>5 DEF Sound
  <2>3. Types'
    BY <1>1, <1>3, <2>1, <2>2 DEF Types
  <2>4. MembersSound'
    BY <1>1, <1>3, <1>4, <1>5, <2>1 DEF MembersSound, Inv, Types
  <2>5. MessagesKnown'
    BY <1>3, <1>4, <2>1 DEF MessagesKnown, Inv
  <2>6. QED BY <1>3, <2>1, <2>3, <2>4, <2>5 DEF Inv
<1>9. QED BY <1>7, <1>8

\* A member takes the next broadcast.
LEMMA ApplyBroadcastInv ==
  ASSUME Inv, NEW u \in Users, ApplyBroadcast(u)
  PROVE  Inv'
<1>1. Types
  BY DEF Inv
<1>2. Stored \in SUBSET Message
  BY <1>1, StoredType DEF Types
<1> DEFINE m == broadcasts[cursor[u] + 1]
           v == ReceiveInboundMessage(u, verification[u], m)
<1>3. UpdateEmojis(u, v) /\ CheckForOutboundMessages(u, v)
  BY DEF ApplyBroadcast
<1>4. /\ u \notin removed /\ verification[u].height > 0
      /\ cursor[u] < Len(broadcasts)
      /\ cursor' = [cursor EXCEPT ![u] = @ + 1]
      /\ UNCHANGED <<groups, broadcasts, removed, losses, duplicates>>
  BY DEF ApplyBroadcast
<1>5. m \in Stored
  BY <1>1, <1>4 DEF Stored, Types
<1>6. Known(m, groups)
  BY <1>5 DEF Inv, MessagesKnown
<1>7. /\ Sound(verification[u], groups, Stored) /\ verification[u].pending = <<>>
      /\ u \in verification[u].keys
  BY <1>4 DEF Inv, MembersSound
<1>8. /\ Sound(v, groups, Stored)
      /\ v.height = verification[u].height /\ v.keys = verification[u].keys
      /\ Outbound(v, groups, Stored)
  <2> HIDE DEF m
  <2>1. QED BY <1>1, <1>2, <1>4, <1>5, <1>6, <1>7, ReceiveSound DEF Types
<1> HIDE DEF v, m
<1>9. cursor' \in [Users -> Nat] /\ \A p \in Users : cursor'[p] <= Len(broadcasts)
  BY <1>1, <1>4 DEF Types, Inv, MembersSound
<1>10. QED BY <1>3, <1>4, <1>7, <1>8, <1>9, AfterOperation

\* The application and the server move a message, twice or not at all.
LEMMA TransportInv ==
  ASSUME Inv, NEW m \in sending, SendBroadcast(m) \/ SendTwice(m) \/ Lose(m)
  PROVE  Inv'
<1>1. Types /\ m \in Message /\ Stored \in SUBSET Message
  BY StoredType DEF Inv, Types
<1>2. /\ broadcasts' = Append(broadcasts, m) \/ broadcasts' = broadcasts
      /\ sending' \subseteq sending
      /\ UNCHANGED <<groups, verification, cursor, removed, shown>>
      /\ losses' \in Nat /\ duplicates' \in Nat
  BY <1>1 DEF SendBroadcast, SendTwice, Lose, Types
<1>3. broadcasts \in Seq(Message) /\ broadcasts' \in Seq(Message)
  <2>1. broadcasts \in Seq(Message)
    BY <1>1 DEF Types
  <2>2. Append(broadcasts, m) \in Seq(Message)
    BY <1>1, <2>1
  <2>3. QED BY <1>2, <2>1, <2>2
<1>4. Types'
  BY <1>1, <1>2, <1>3 DEF Types
<1>5. /\ Stored' \in SUBSET Message
      /\ Stored \subseteq Stored' /\ Stored' \subseteq Stored \cup {m}
      /\ Len(broadcasts) <= Len(broadcasts')
  <2>1. CASE broadcasts' = broadcasts
    BY <1>1, <1>3, <2>1 DEF Stored
  <2>2. CASE broadcasts' = Append(broadcasts, m)
    <3>1. /\ DOMAIN broadcasts' = 1 .. Len(broadcasts) + 1
          /\ DOMAIN broadcasts = 1 .. Len(broadcasts)
          /\ Len(broadcasts') = Len(broadcasts) + 1
          /\ \A i \in 1 .. Len(broadcasts) : broadcasts'[i] = broadcasts[i]
          /\ broadcasts'[Len(broadcasts) + 1] = m
          /\ Len(broadcasts) \in Nat
      BY <1>1, <1>3, <2>2
    <3>2. QED BY <1>1, <3>1 DEF Stored
  <2>3. QED BY <1>2, <2>1, <2>2
<1>6. /\ \A v : Sound(v, groups, Stored) => Sound(v, groups, Stored')
      /\ \A x : Known(x, groups) /\ Bound(x, groups, Stored) => Bound(x, groups, Stored')
  <2>1. groups \in Seq(SUBSET Users)
    BY <1>1 DEF Types
  <2>2. QED BY <1>1, <1>5, <2>1, SoundGrows
<1>7. MessagesKnown'
  BY <1>2, <1>5, <1>6 DEF MessagesKnown, Inv
<1>8. MembersSound'
  <2>1. \A u \in Users : cursor[u] <= Len(broadcasts')
    BY <1>1, <1>3, <1>5 DEF Inv, MembersSound, Types
  <2>2. QED BY <1>2, <1>6, <2>1 DEF MembersSound, Inv
<1>9. QED BY <1>2, <1>4, <1>7, <1>8 DEF Inv

\* The invariant is inductive.
LEMMA NextInv == Inv /\ [Next]_vars => Inv'
<1> SUFFICES ASSUME Inv, [Next]_vars PROVE Inv'
  OBVIOUS
<1>1. CASE \E g \in SUBSET Users : NewMainBlock(g)
  BY <1>1, NewMainBlockInv
<1>2. CASE \E u \in Users : ApplyMain(u) \/ ApplyBroadcast(u)
  BY <1>2, ApplyMainInv, ApplyBroadcastInv
<1>3. CASE \E m \in sending : SendBroadcast(m) \/ SendTwice(m) \/ Lose(m)
  BY <1>3, TransportInv
<1>4. CASE UNCHANGED vars
  BY <1>4 DEF vars, Inv, Types, MessagesKnown, MembersSound, Stored
<1>5. QED BY <1>1, <1>2, <1>3, <1>4 DEF Next

-----------------------------------------------------------------------------
(* The theorems.                                                            *)

\* The inductive invariant holds in every reachable state.
THEOREM Invariant == Spec => []Inv
BY InitInv, NextInv, PTL DEF Spec

\* Every variable has its type, nobody is ahead of the server, and the phase of
\* a member says whether it has the commitments and the nonces of its group.
THEOREM TypeCorrect == Spec => []TypeOK
<1>1. Inv => TypeOK
  BY DEF Inv, Types, MembersSound, Sound, TypeOK
<1>2. QED BY <1>1, Invariant, PTL

\* A member reveals its nonce only when the commitments of all the members of
\* the group are stored, so nobody can still choose a nonce that depends on it.
THEOREM RevealsAreBound == Spec => []RevealsFollowCommits
<1>1. Inv => RevealsFollowCommits
  BY DEF Inv, MessagesKnown, Known, Bound, HasCommitted, RevealsFollowCommits
<1>2. QED BY <1>1, Invariant, PTL

\* The emojis a member shows are those of the whole group of one main block, so
\* two members that show emojis for the same block show the same.
THEOREM EmojisAreWhole == Spec => []ShownIsWhole
<1>1. ASSUME Inv PROVE ShownIsWhole
  <2> SUFFICES ASSUME NEW u \in Users, shown[u] # NoEmojis
               PROVE  /\ shown[u].height \in DOMAIN groups
                      /\ u \in groups[shown[u].height]
                      /\ shown[u].nonces =
                           [p \in Users |-> IF p \in groups[shown[u].height]
                                            THEN shown[u].height ELSE 0]
    BY DEF ShownIsWhole
  <2> DEFINE e == shown[u]
  <2>1. /\ e.height \in DOMAIN groups
        /\ u \in groups[e.height]
        /\ e = Whole(e.height, groups[e.height])
    BY <1>1 DEF Inv, Shows
  <2>2. Whole(e.height, groups[e.height]).nonces =
          [p \in Users |-> IF p \in groups[e.height] THEN e.height ELSE 0]
    <3> HIDE DEF e
    <3>1. QED BY DEF Whole
  <2> HIDE DEF e
  <2>3. QED BY <2>1, <2>2 DEF e
<1>2. QED BY <1>1, Invariant, PTL

=============================================================================
