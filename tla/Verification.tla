---------------------------- MODULE Verification ----------------------------
(***************************************************************************)
(* The key verification of an encrypted conference                         *)
(* (ntgcalls::e2e::SessionVerification).  After every main block each      *)
(* member of the new group commits to a nonce on the broadcast subchain,   *)
(* reveals it when it has seen the commitments of all members, and shows   *)
(* the emojis computed from all the nonces.  The members apply the main    *)
(* blocks and the broadcasts in order (module Session), each subchain at   *)
(* its own pace.                                                           *)
(*                                                                         *)
(* A signature is valid exactly if its signer is in the group, a hash      *)
(* stands for its preimage, and the nonce a member draws at a block is     *)
(* named by the height of that block: two draws never coincide.  Blocks    *)
(* are counted from 1, and 0 stands for no block and for no nonce.         *)
(***************************************************************************)
EXTENDS Integers, Sequences, FiniteSets

CONSTANTS
  Users,          \* everyone who may ever take part
  Overtaking,     \* whether a broadcast may arrive before its main block
  MaxHeight,      \* bound: main blocks
  Troubled,       \* bound: the heights whose messages may be lost or stored twice
  MaxTroubles     \* bound: messages lost on their way to the server or stored twice

ASSUME VerificationAssumption ==
  /\ IsFiniteSet(Users)
  /\ Overtaking \in BOOLEAN
  /\ MaxHeight \in Nat
  /\ Troubled \subseteq Nat
  /\ MaxTroubles \in Nat

VARIABLES
  groups,         \* the group each main block carries
  broadcasts,     \* the broadcast subchain on the server
  sending,        \* messages handed to the application, not yet stored
  verification,   \* the SessionVerification of each user
  cursor,         \* broadcasts each user has taken
  removed,        \* users whose session failed: a block removed them
  shown,          \* the fingerprint_emojis_ of each user
  losses,         \* messages lost so far
  duplicates      \* messages stored twice so far

vars == <<groups, broadcasts, sending, verification, cursor, removed, shown,
          losses, duplicates>>

Heights == 1 .. MaxHeight

Message == [kind : {"commit", "reveal"}, user : Users, height : Nat, nonce : Nat]

\* What the emojis are computed from: the block and everyone's nonce.
Emojis == [height : Nat, nonces : [Users -> Nat]]

NoNonces == [u \in Users |-> 0]
NoEmojis == [height |-> 0, nonces |-> NoNonces]

VerificationState ==
  [height    : Nat,                        \* height_
   selfNonce : Nat,                        \* self_nonce_
   phase     : {"commit", "reveal", "end"},
   keys      : SUBSET Users,               \* participant_keys_
   committed : [Users -> Nat],             \* committed_, 0 where absent
   revealed  : [Users -> Nat],             \* revealed_, 0 where absent
   sent      : BOOLEAN,                    \* sent_reveal_
   pending   : Seq(Message),               \* pending_outbound_
   emojis    : Emojis,                     \* emoji_hash_value_
   delayed   : SUBSET Message]             \* delayed_

NewVerification ==
  [height |-> 0, selfNonce |-> 0, phase |-> "commit", keys |-> {},
   committed |-> NoNonces, revealed |-> NoNonces, sent |-> FALSE,
   pending |-> <<>>, emojis |-> NoEmojis, delayed |-> {}]

-----------------------------------------------------------------------------
(* SessionVerification.                                                     *)

\* The number of entries of a map from users to nonces.
Size(nonces) == Cardinality({u \in Users : nonces[u] # 0})

ProcessCommit(v, m) ==
  IF v.phase = "commit" /\ m.user \in v.keys /\ v.committed[m.user] = 0
  THEN LET all == [v.committed EXCEPT ![m.user] = m.nonce]
       IN  [v EXCEPT !.committed = all,
                     !.phase = IF Size(all) = Cardinality(v.keys)
                               THEN "reveal" ELSE @]
  ELSE v

\* Mutant: the emojis are computed when one nonce is still missing.
ProcessRevealEarly(v, m) ==
  IF /\ v.phase = "reveal" /\ m.user \in v.keys /\ v.revealed[m.user] = 0
     /\ v.committed[m.user] = m.nonce
  THEN LET all  == [v.revealed EXCEPT ![m.user] = m.nonce]
           done == Size(all) + 1 >= Cardinality(v.keys)
       IN  [v EXCEPT !.revealed = all,
                     !.phase = IF done THEN "end" ELSE @,
                     !.emojis = IF done
                                THEN [height |-> v.height, nonces |-> all] ELSE @]
  ELSE v

ProcessReveal(v, m) ==
  IF /\ v.phase = "reveal" /\ m.user \in v.keys /\ v.revealed[m.user] = 0
     /\ v.committed[m.user] = m.nonce
  THEN LET all  == [v.revealed EXCEPT ![m.user] = m.nonce]
           done == Size(all) = Cardinality(v.keys)
       IN  [v EXCEPT !.revealed = all,
                     !.phase = IF done THEN "end" ELSE @,
                     !.emojis = IF done
                                THEN [height |-> v.height, nonces |-> all] ELSE @]
  ELSE v

\* The hash of the block a message names is that of its height.
ProcessBroadcast(v, m) ==
  IF m.height # v.height THEN v
  ELSE IF m.kind = "commit" THEN ProcessCommit(v, m) ELSE ProcessReveal(v, m)

EmitRevealIfNeeded(u, v) ==
  IF v.phase = "reveal" /\ ~v.sent
  THEN [v EXCEPT !.sent = TRUE,
                 !.pending = Append(@, [kind |-> "reveal", user |-> u,
                               height |-> v.height, nonce |-> v.selfNonce])]
  ELSE v

\* A message of an older block is ignored, one of a later block is put aside.
ReceiveInboundMessage(u, v, m) ==
  IF m.height < v.height THEN v
  ELSE IF m.height > v.height THEN [v EXCEPT !.delayed = @ \cup {m}]
  ELSE EmitRevealIfNeeded(u, ProcessBroadcast(v, m))

\* Mutant: who left the group still counts as a participant.
OnNewMainBlockAdding(u, v, height, group) ==
  [v EXCEPT !.height = height, !.selfNonce = height, !.phase = "commit",
            !.keys = @ \cup group, !.sent = FALSE, !.emojis = NoEmojis,
            !.committed = NoNonces, !.revealed = NoNonces,
            !.pending = <<[kind |-> "commit", user |-> u, height |-> height,
                           nonce |-> height]>>,
            !.delayed = {m \in @ : m.height # height}]

\* A new block: the previous round is forgotten and the new one opened with a
\* commitment. The messages put aside for this block are taken out and none of
\* them is processed: the code processes those whose reader did not finish,
\* and only those whose reader finished were put aside.
OnNewMainBlock(u, v, height, group) ==
  [v EXCEPT !.height = height, !.selfNonce = height, !.phase = "commit",
            !.keys = group, !.sent = FALSE, !.emojis = NoEmojis,
            !.committed = NoNonces, !.revealed = NoNonces,
            !.pending = <<[kind |-> "commit", user |-> u, height |-> height,
                           nonce |-> height]>>,
            !.delayed = {m \in @ : m.height # height}]

-----------------------------------------------------------------------------
(* The session around it, the application and the server.                   *)

\* The emojis shown are replaced when the verification has new ones.
UpdateEmojis(u, v) ==
  shown' = IF v.emojis = NoEmojis THEN shown ELSE [shown EXCEPT ![u] = v.emojis]

\* All the pending messages are pulled and the last one is sent.
CheckForOutboundMessages(u, v) ==
  /\ verification' = [verification EXCEPT ![u] = [v EXCEPT !.pending = <<>>]]
  /\ sending' = IF v.pending = <<>> THEN sending
                ELSE sending \cup {v.pending[Len(v.pending)]}

Init ==
  /\ groups = <<>>
  /\ broadcasts = <<>>
  /\ sending = {}
  /\ verification = [u \in Users |-> NewVerification]
  /\ cursor = [u \in Users |-> 0]
  /\ removed = {}
  /\ shown = [u \in Users |-> NoEmojis]
  /\ losses = 0
  /\ duplicates = 0

\* Everyone who was ever in a group and is not in the last one.
Departed ==
  UNION {groups[h] : h \in DOMAIN groups}
    \ (IF groups = <<>> THEN {} ELSE groups[Len(groups)])

\* The server accepts a main block. Who left does not come back: that is a
\* session of its own.
NewMainBlock(group) ==
  /\ Len(groups) < MaxHeight
  /\ group # {}
  /\ group \cap Departed = {}
  /\ groups' = Append(groups, group)
  /\ UNCHANGED <<broadcasts, sending, verification, cursor, removed, shown,
                 losses, duplicates>>

\* The main block a user applies next: the one that adds it, then each one.
NextHeight(u, h) ==
  IF verification[u].height = 0
  THEN u \in groups[h] /\ \A k \in 1 .. h - 1 : u \notin groups[k]
  ELSE h = verification[u].height + 1

\* A user applies the next main block. If the group lacks the user the session
\* fails, after the verification was told and before anything is sent.
ApplyMain(u) ==
  /\ u \notin removed
  /\ \E h \in DOMAIN groups :
       /\ NextHeight(u, h)
       /\ LET v == OnNewMainBlock(u, verification[u], h, groups[h])
          IN  IF u \in groups[h]
              THEN /\ UpdateEmojis(u, v)
                   /\ CheckForOutboundMessages(u, v)
                   /\ UNCHANGED removed
              ELSE /\ verification' = [verification EXCEPT ![u] = v]
                   /\ removed' = removed \cup {u}
                   /\ UNCHANGED <<sending, shown>>
  /\ UNCHANGED <<groups, broadcasts, cursor, losses, duplicates>>

\* A user with a blockchain takes the next broadcast.
ApplyBroadcast(u) ==
  /\ u \notin removed
  /\ verification[u].height > 0
  /\ cursor[u] < Len(broadcasts)
  /\ LET m == broadcasts[cursor[u] + 1]
         v == ReceiveInboundMessage(u, verification[u], m)
     IN  /\ Overtaking \/ m.height <= verification[u].height
         /\ UpdateEmojis(u, v)
         /\ CheckForOutboundMessages(u, v)
  /\ cursor' = [cursor EXCEPT ![u] = @ + 1]
  /\ UNCHANGED <<groups, broadcasts, removed, losses, duplicates>>

\* The application sends a message and the server appends it to the subchain.
SendBroadcast(m) ==
  /\ m \in sending
  /\ sending' = sending \ {m}
  /\ broadcasts' = Append(broadcasts, m)
  /\ UNCHANGED <<groups, verification, cursor, removed, shown, losses, duplicates>>

\* It is appended, and the application sends it again.
SendTwice(m) ==
  /\ m \in sending
  /\ losses + duplicates < MaxTroubles /\ m.height \in Troubled
  /\ duplicates' = duplicates + 1
  /\ broadcasts' = Append(broadcasts, m)
  /\ UNCHANGED <<groups, sending, verification, cursor, removed, shown, losses>>

\* The application fails to send it and drops it.
Lose(m) ==
  /\ m \in sending
  /\ losses + duplicates < MaxTroubles /\ m.height \in Troubled
  /\ losses' = losses + 1
  /\ sending' = sending \ {m}
  /\ UNCHANGED <<groups, broadcasts, verification, cursor, removed, shown, duplicates>>

Next ==
  \/ \E group \in SUBSET Users : NewMainBlock(group)
  \/ \E u \in Users : ApplyMain(u) \/ ApplyBroadcast(u)
  \/ \E m \in sending : SendBroadcast(m) \/ SendTwice(m) \/ Lose(m)

Spec == Init /\ [][Next]_vars

\* Sessions catch up with both subchains and the application sends what it was
\* given. New main blocks may stop coming at any time. What is left to do is never
\* much, so it is enough that some of it is done.
Fairness ==
  WF_vars(\/ \E u \in Users : ApplyMain(u) \/ ApplyBroadcast(u)
          \/ \E m \in sending : SendBroadcast(m))

FairSpec == Spec /\ Fairness

-----------------------------------------------------------------------------
(* Properties.                                                              *)

\* Every variable has its type, nobody is ahead of the server, and the phase of
\* a member says whether it has the commitments and the nonces of its group.
TypeOK ==
  /\ groups \in Seq(SUBSET Users)
  /\ broadcasts \in Seq(Message)
  /\ sending \subseteq Message
  /\ verification \in [Users -> VerificationState]
  /\ cursor \in [Users -> Nat]
  /\ removed \subseteq Users
  /\ shown \in [Users -> Emojis]
  /\ losses \in Nat
  /\ duplicates \in Nat
  /\ \A u \in Users :
       LET v == verification[u]
       IN  /\ cursor[u] <= Len(broadcasts)
           /\ v.height \in 0 .. Len(groups)
           /\ v.height > 0 => v.keys = groups[v.height]
           /\ v.phase # "commit" => \A p \in v.keys : v.committed[p] # 0
           /\ v.phase = "end" => \A p \in v.keys : v.revealed[p] # 0

Stored == {broadcasts[i] : i \in DOMAIN broadcasts}

\* Nobody's nonce is known before everyone is bound to one: when a member
\* reveals, the commitments of all members are already on the subchain.
RevealsFollowCommits ==
  \A m \in sending \cup Stored : m.kind = "reveal" =>
    /\ m.height \in DOMAIN groups
    /\ \A u \in groups[m.height] :
         \E c \in Stored : /\ c.kind = "commit" /\ c.user = u
                           /\ c.height = m.height

\* The emojis shown are computed from the nonces that the whole group drew for
\* that block, so any two users who show emojis of one block show the same.
ShownIsWhole ==
  \A u \in Users : shown[u] # NoEmojis =>
    /\ shown[u].height \in DOMAIN groups
    /\ u \in groups[shown[u].height]
    /\ shown[u].nonces =
         [p \in Users |-> IF p \in groups[shown[u].height]
                          THEN shown[u].height ELSE 0]

\* Once the group stays the same and no message is lost, all its members end up
\* showing its emojis, whatever is sent twice.
EveryoneVerifies ==
  <>[](losses > 0 \/ groups = <<>> \/ \A u \in groups[Len(groups)] :
          shown[u].height = Len(groups))

=============================================================================
