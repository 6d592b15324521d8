----------------------------- MODULE Encryption -----------------------------
(***************************************************************************)
(* The packet encryption of an encrypted conference                        *)
(* (ntgcalls::e2e::SessionEncryption).  Every main block opens an epoch    *)
(* with a key of its own; a member keeps the keys of superseded epochs for *)
(* a while, encrypts every packet for all the epochs it keeps, and opens a *)
(* packet with the first of those epochs it keeps itself.  Sequence        *)
(* numbers and a window of the numbers seen keep a packet from being       *)
(* accepted twice, whatever the network loses, repeats or reorders.        *)
(*                                                                         *)
(* An epoch is the height of its main block, counted from 1; its key, its  *)
(* hash and its block are named by it.  Members apply the main blocks in   *)
(* order (module Session), each at its own pace, and Users are sessions: a *)
(* person who comes back has a new one, with a new key pair.               *)
(***************************************************************************)
EXTENDS Integers, Sequences, FiniteSets

CONSTANTS
  Users,          \* the sessions that may take part
  Delay,          \* kForgetEpochDelayMs, in ticks of the clock
  MaxEpochs,      \* kMaxActiveEpochs
  Window,         \* how many sequence numbers are remembered, and how far back
  MaxSeqno,       \* the largest 32-bit number
  MaxHeight,      \* bound: main blocks
  MaxTime,        \* bound: ticks of the clock
  MaxPackets      \* bound: packets sent

ASSUME EncryptionAssumption ==
  /\ Delay \in Nat \ {0}
  /\ MaxEpochs \in Nat \ {0}
  /\ Window \in Nat \ {0}
  /\ MaxSeqno \in Nat
  /\ MaxHeight \in Nat
  /\ MaxTime \in Nat
  /\ MaxPackets \in Nat

VARIABLES
  now,            \* the clock, the same for all
  groups,         \* the group each main block carries
  encryption,     \* the SessionEncryption of each user, with height and failed_
  packets,        \* every packet sent: the network may deliver any at any time
  since,          \* when each user applied each block, 0 if it did not
  opened,         \* the packets each user accepted
  twice           \* those it accepted more than once

vars == <<now, groups, encryption, packets, since, opened, twice>>

Packet == [sender : Users, seqno : Nat, epochs : SUBSET Nat, sentAt : Nat]

EncryptionState ==
  [height : Nat,                                 \* blockchain_->height()
   failed : BOOLEAN,                             \* Session::failed_
   epochs : SUBSET Nat,                          \* epochs_, epoch_by_hash_
   forget : Seq([at : Nat, epoch : Int]),        \* epochs_to_forget_
   seqno  : Nat,                                 \* seqno_[0]
   seen   : [Users -> SUBSET Nat]]               \* seen_, of channel 0

NewEncryption ==
  [height |-> 0, failed |-> FALSE, epochs |-> {}, forget |-> <<>>, seqno |-> 0,
   seen |-> [u \in Users |-> {}]]

-----------------------------------------------------------------------------
(* SessionEncryption.                                                       *)

\* The epochs of the first n entries of the queue.
Queued(e, n) == {e.forget[i].epoch : i \in 1 .. n}

\* Whether the i-th entry goes when those before it are gone.
Due(e, i) ==
  \/ e.forget[i].at <= now
  \/ Cardinality(e.epochs \ Queued(e, i - 1)) > MaxEpochs

\* The entries leave from the front until one is not due.
Sync(e) ==
  LET out == {i \in DOMAIN e.forget : \A j \in 1 .. i : Due(e, j)}
      n   == Cardinality(out)
  IN  [e EXCEPT !.epochs = @ \ Queued(e, n),
                !.forget = SubSeq(@, n + 1, Len(@))]

\* Mutant: an epoch is forgotten as soon as it is superseded.
ForgetSharedKeyAtOnce(e, epoch) ==
  LET s == Sync(e)
  IN  [s EXCEPT !.forget = Append(@, [at |-> now, epoch |-> epoch])]

ForgetSharedKey(e, epoch) ==
  LET s == Sync(e)
  IN  [s EXCEPT !.forget = Append(@, [at |-> now + Delay, epoch |-> epoch])]

AddSharedKey(e, epoch) ==
  LET s == Sync(e) IN [s EXCEPT !.epochs = @ \cup {epoch}]

\* Mutant: what is older than everything remembered counts as new.
CheckNotSeenInSet(seen, n) == n \notin seen

\* Below the least number remembered everything counts as seen.
CheckNotSeen(seen, n) ==
  seen = {} \/ (n \notin seen /\ \E x \in seen : x < n)

\* Numbers are removed from the least on, until at most Window are left and the
\* least is close enough to n. The sum has 32 bits.
MarkAsSeen(seen, n) ==
  LET all   == seen \cup {n}
      From(m) == {x \in all : x >= m}
      Stops(m) == /\ Cardinality(From(m)) <= Window
                  /\ ~ (m + Window) % (MaxSeqno + 1) < n
  IN  {x \in all : \E m \in all : m <= x /\ Stops(m)}

\* A group is found by the epoch the packet is opened with: the first in the
\* order of the header, which is that of the epochs.
OpenedWith(e, p) ==
  CHOOSE h \in p.epochs \cap e.epochs : \A g \in p.epochs \cap e.epochs : h <= g

Opens(u, e, p) ==
  /\ u # p.sender
  /\ Cardinality(p.epochs) <= MaxEpochs
  /\ p.epochs \cap e.epochs # {}
  /\ p.sender \in groups[OpenedWith(e, p)]
  /\ CheckNotSeen(e.seen[p.sender], p.seqno)

-----------------------------------------------------------------------------
(* The session around it and the network.                                   *)

Init ==
  /\ now = 1
  /\ groups = <<>>
  /\ encryption = [u \in Users |-> NewEncryption]
  /\ packets = {}
  /\ since = [u \in Users |-> [h \in 1 .. MaxHeight |-> 0]]
  /\ opened = [u \in Users |-> {}]
  /\ twice = [u \in Users |-> {}]

Tick ==
  /\ now < MaxTime
  /\ now' = now + 1
  /\ UNCHANGED <<groups, encryption, packets, since, opened, twice>>

\* Everyone who was ever in a group and is not in the last one.
Departed ==
  UNION {groups[h] : h \in DOMAIN groups}
    \ (IF groups = <<>> THEN {} ELSE groups[Len(groups)])

\* The server accepts a main block.
NewMainBlock(group) ==
  /\ Len(groups) < MaxHeight
  /\ group # {}
  /\ group \cap Departed = {}
  /\ groups' = Append(groups, group)
  /\ UNCHANGED <<now, encryption, packets, since, opened, twice>>

\* The main block a user applies next: the one that adds it, then each one.
NextHeight(u, h) ==
  IF encryption[u].height = 0
  THEN u \in groups[h] /\ \A k \in 1 .. h - 1 : u \notin groups[k]
  ELSE h = encryption[u].height + 1

\* A user applies the next main block: the epoch before it is put on the list of
\* those to forget, and its own is added if the user belongs to the group.
UpdateGroupSharedKey(u) ==
  /\ ~ encryption[u].failed
  /\ \E h \in DOMAIN groups :
       /\ NextHeight(u, h)
       /\ LET e == [ForgetSharedKey(encryption[u], h - 1) EXCEPT !.height = h]
          IN  encryption' = [encryption EXCEPT ![u] =
                IF u \in groups[h] THEN AddSharedKey(e, h)
                ELSE [e EXCEPT !.failed = TRUE]]
       /\ since' = [since EXCEPT ![u][h] = now]
  /\ UNCHANGED <<now, groups, packets, opened, twice>>

\* A packet is numbered and encrypted for all the epochs in use. One that the
\* frame transformer discards is a packet that the network never delivers.
Send(u) ==
  LET e == Sync(encryption[u])
  IN  /\ Cardinality(packets) < MaxPackets
      /\ ~ e.failed
      /\ e.epochs # {}
      /\ e.seqno < MaxSeqno
      /\ encryption' = [encryption EXCEPT ![u] = [e EXCEPT !.seqno = @ + 1]]
      /\ packets' = packets \cup
           {[sender |-> u, seqno |-> e.seqno + 1, epochs |-> e.epochs, sentAt |-> now]}
      /\ UNCHANGED <<now, groups, since, opened, twice>>

\* There is no epoch yet, or no number left.
SendFails(u) ==
  LET e == Sync(encryption[u])
  IN  /\ ~ e.failed
      /\ e.epochs = {} \/ e.seqno >= MaxSeqno
      /\ encryption' = [encryption EXCEPT ![u] = e]
      /\ UNCHANGED <<now, groups, packets, since, opened, twice>>

\* The network delivers a packet, perhaps again, and it is opened and accepted.
Receive(u, p) ==
  LET e == Sync(encryption[u])
  IN  /\ ~ e.failed
      /\ Opens(u, e, p)
      /\ encryption' = [encryption EXCEPT ![u] =
           [e EXCEPT !.seen[p.sender] = MarkAsSeen(@, p.seqno)]]
      /\ opened' = [opened EXCEPT ![u] = @ \cup {p}]
      /\ twice' = [twice EXCEPT ![u] = IF p \in opened[u] THEN @ \cup {p} ELSE @]
      /\ UNCHANGED <<now, groups, packets, since>>

\* The network delivers a packet and it is rejected.
ReceiveFails(u, p) ==
  LET e == Sync(encryption[u])
  IN  /\ ~ e.failed
      /\ ~ Opens(u, e, p)
      /\ encryption' = [encryption EXCEPT ![u] = e]
      /\ UNCHANGED <<now, groups, packets, since, opened, twice>>

Next ==
  \/ Tick
  \/ \E group \in SUBSET Users : NewMainBlock(group)
  \/ \E u \in Users : UpdateGroupSharedKey(u) \/ Send(u) \/ SendFails(u)
  \/ \E u \in Users, p \in packets : Receive(u, p) \/ ReceiveFails(u, p)

Spec == Init /\ [][Next]_vars

-----------------------------------------------------------------------------
(* Properties.                                                              *)

\* Every variable has its type, and the current epoch of a member is in use.
TypeOK ==
  /\ now \in Nat
  /\ groups \in Seq(SUBSET Users)
  /\ encryption \in [Users -> EncryptionState]
  /\ packets \subseteq Packet
  /\ since \in [Users -> [1 .. MaxHeight -> Nat]]
  /\ opened \in [Users -> SUBSET packets]
  /\ twice \in [Users -> SUBSET packets]
  /\ \A u \in Users :
       LET e == encryption[u]
       IN  e.height > 0 /\ ~ e.failed => e.height \in Sync(e).epochs

\* No packet is accepted twice, as long as no sender comes so close to the last
\* 32-bit number that the reach of the window wraps around.
AcceptedOnce ==
  (\A u \in Users : encryption[u].seqno + Window <= MaxSeqno) =>
    \A u \in Users : twice[u] = {}

\* A packet cannot be opened with a key that its sender superseded Delay or more
\* before it sent it, so who has left cannot be sent to for longer than that.
SentWithFreshKeys ==
  \A p \in packets : \A h \in p.epochs :
    h < MaxHeight /\ since[p.sender][h + 1] > 0 =>
      p.sentAt < since[p.sender][h + 1] + Delay

\* A packet newer than all that its receiver accepted from that sender is only
\* refused when the two have no epoch in common any more.
NewestAccepted ==
  \A u \in Users : \A p \in packets :
    LET e == Sync(encryption[u])
    IN  /\ u # p.sender
        /\ p.epochs \cap e.epochs # {}
        /\ \A q \in opened[u] : q.sender = p.sender => q.seqno < p.seqno
        => Opens(u, e, p)

\* Two members whose main chains are at most Delay and MaxEpochs blocks apart
\* have an epoch in common: changing keys interrupts nobody.
KeysMeet ==
  \A s, u \in Users :
    LET a == encryption[s]
        b == encryption[u]
    IN  /\ ~ a.failed /\ ~ b.failed
        /\ 0 < a.height /\ a.height <= b.height
        /\ b.height < a.height + MaxEpochs
        /\ since[u][a.height] > 0
        /\ a.height < b.height => now < since[u][a.height + 1] + Delay
        => a.height \in Sync(a).epochs \cap Sync(b).epochs

\* The epoch a packet is opened with is current at its receiver or was superseded
\* there less than Delay ago, also when the packet is accepted once more.
OpenedWithFreshKeys ==
  [][\A u \in Users : \A p \in packets :
       Receive(u, p) =>
         LET h == OpenedWith(Sync(encryption[u]), p)
         IN  \/ h = encryption[u].height
             \/ /\ h < encryption[u].height
                /\ since[u][h] > 0
                /\ now < since[u][h + 1] + Delay]_vars

=============================================================================
