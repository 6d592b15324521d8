------------------------ MODULE SignalingEncryption ------------------------
(***************************************************************************)
(* The signaling of a one-to-one call in the protocol version that brings  *)
(* its own reliability (ntgcalls::signaling::crypto::SignalingEncryption,  *)
(* used raw by ExternalSignalingConnection).  Two ends exchange messages   *)
(* in numbered packets that the application and the servers may lose,      *)
(* repeat or reorder.  A message is kept until its acknowledgement comes,  *)
(* and every packet carries the acknowledgements that are due and the      *)
(* oldest messages not acknowledged yet.                                   *)
(*                                                                         *)
(* A message is named by its number.  Sizes count in units of an empty     *)
(* message, which is also that of an acknowledgement.                      *)
(***************************************************************************)
EXTENDS Integers, Sequences, FiniteSets

CONSTANTS
  Ends,           \* the two ends of the call
  Room,           \* kMaxSignalingPacketSize without the key: units in a packet
  Keep,           \* kEepIncomingCountersCount
  Limit,          \* kNotAckedMessagesLimit
  MaxCounter,     \* kMaxAllowedCounter
  Sizes,          \* sizes of messages
  Senders,        \* the ends whose calls send messages
  Reordering,     \* whether packets may overtake each other
  Prompt,         \* whether the delays are kept: see Quiet and Turn
  MaxMessages,    \* bound: messages each end sends
  MaxLosses,      \* bound: packets lost
  MaxRepeats      \* bound: packets delivered more than once

ASSUME SignalingAssumption ==
  /\ \E a, b \in Ends : a # b /\ Ends = {a, b}
  /\ Room \in Nat \ {0}
  /\ Keep \in Nat \ {0}
  /\ Limit \in Nat \ {0}
  /\ MaxCounter \in Nat
  /\ Sizes \subseteq Nat \ {0}
  /\ Senders \subseteq Ends
  /\ Reordering \in BOOLEAN
  /\ Prompt \in BOOLEAN
  /\ MaxMessages \in Nat
  /\ MaxLosses \in Nat
  /\ MaxRepeats \in Nat

VARIABLES
  ends,           \* the SignalingEncryption of each end, with its posted tasks
  network,        \* the packets on their way to each end
  log,            \* the messages each end accepted for sending
  delivered,      \* the messages each end handed to its call
  due,            \* if delays are kept, the delayed tasks in the order of posting
  losses,         \* packets lost so far
  repeats         \* packets delivered more than once so far

vars == <<ends, network, log, delivered, due, losses, repeats>>

Peer(x) == CHOOSE y \in Ends : y # x

\* The acknowledgements and the messages of a packet, each in their order; the number
\* of a packet is that of its first message if it begins with one.
Packet == [counter : Nat, acks : Seq(Nat), messages : Seq(Nat)]

End ==
  [counter     : Nat,                          \* counter_
   incoming    : SUBSET Nat,                   \* largest_incoming_counters_
   waiting     : Seq([counter : Nat, size : Nat, recent : BOOLEAN]),
                                               \* my_not_yet_acked_messages_
   sentAcks    : SUBSET Nat,                   \* acks_sent_counters_
   acks        : Seq(Nat),                     \* acks_to_send_seqs_
   ackTimer    : BOOLEAN,                      \* send_acks_timer_active_
   resendTimer : BOOLEAN,                      \* resend_timer_active_
   services    : Nat]                          \* posted tasks without delay

NewEnd ==
  [counter |-> 0, incoming |-> {}, waiting |-> <<>>, sentAcks |-> {}, acks |-> <<>>,
   ackTimer |-> FALSE, resendTimer |-> FALSE, services |-> 0]

Elements(s) == {s[i] : i \in DOMAIN s}
Counters(waiting) == [i \in DOMAIN waiting |-> waiting[i].counter]

\* What is left of a sequence: its elements at some places, in their order.
AtPlaces(s, places) ==
  [k \in 1 .. Cardinality(places) |->
     s[CHOOSE i \in places : Cardinality({j \in places : j <= i}) = k]]

\* The elements of a sequence that are not in a set.
NotIn(s, S) == AtPlaces(s, {i \in DOMAIN s : s[i] \notin S})

-----------------------------------------------------------------------------
(* Building packets.                                                        *)

\* The acknowledgements that fit after what is in the packet already.
AcksThatFit(e, used) ==
  IF used + Len(e.acks) <= Room THEN Len(e.acks) ELSE Room - used

\* The size of the first messages that wait.
TotalSize(w) ==
  LET total[n \in 0 .. Len(w)] == IF n = 0 THEN 0 ELSE total[n - 1] + w[n].size
  IN  total

\* The messages that wait are repeated from the oldest on, until one was sent a
\* moment ago or does not fit.
Repeated(e, used) ==
  LET Goes(i) == ~ e.waiting[i].recent /\ used + TotalSize(e.waiting)[i] <= Room
  IN  CHOOSE n \in 0 .. Len(e.waiting) :
        /\ \A i \in 1 .. n : Goes(i)
        /\ n < Len(e.waiting) => ~ Goes(n + 1)

\* Mutant: a message that was just sent is skipped instead of ending the packet.
AppendMessagesSkipping(e, used, c) ==
  LET Old(w) == ~ w.recent
  IN  [counter |-> c, acks |-> SubSeq(e.acks, 1, AcksThatFit(e, used)),
       messages |-> Counters(SelectSeq(e.waiting, Old))]

\* A packet with what append_messages adds to it,
AppendMessages(e, used, c) ==
  LET a == AcksThatFit(e, used)
  IN  [counter |-> c, acks |-> SubSeq(e.acks, 1, a),
       messages |-> Counters(SubSeq(e.waiting, 1, Repeated(e, used + a)))]

\* and what it leaves: acknowledgements are sent once, messages are remembered
\* as just sent and the resend timer runs.
AfterMessages(e, used) ==
  LET a == AcksThatFit(e, used)
      n == Repeated(e, used + a)
  IN  [e EXCEPT !.acks = SubSeq(e.acks, a + 1, Len(e.acks)),
                !.waiting = [i \in DOMAIN e.waiting |->
                   [e.waiting[i] EXCEPT !.recent = e.waiting[i].recent \/ i <= n]],
                !.resendTimer = e.resendTimer \/ e.waiting # <<>>]

\* A packet that begins with an empty message, if there is anything to send and
\* a number for it.
HaveService(e) == (e.waiting # <<>> \/ e.acks # <<>>) /\ e.counter # MaxCounter

PrepareForSendingService(x, e) ==
  IF HaveService(e)
  THEN /\ ends' = [ends EXCEPT ![x] =
                     [AfterMessages(e, 1) EXCEPT !.counter = e.counter + 1]]
       /\ network' = [network EXCEPT ![Peer(x)] =
            Append(@, AppendMessages(e, 1, e.counter + 1))]
  ELSE /\ ends' = [ends EXCEPT ![x] = e]
       /\ UNCHANGED network

-----------------------------------------------------------------------------
(* Reading packets.                                                         *)

\* Numbers are remembered back to Keep before the newest; older ones are refused.
Registers(e, c) ==
  /\ c \notin e.incoming
  /\ \A k \in e.incoming : c + Keep > k

RegisterIncomingCounter(e, c) ==
  [e EXCEPT !.incoming = {k \in @ : k + Keep > c} \cup {c}]

\* Mutant: an acknowledgement is taken for that of the oldest message.
AckMyMessageOldest(e, acked) ==
  [e EXCEPT !.waiting = IF acked = {} \/ @ = <<>> THEN @ ELSE Tail(@)]

AckMyMessage(e, acked) ==
  [e EXCEPT !.waiting =
     AtPlaces(@, {i \in DOMAIN @ : @[i].counter \notin acked})]

\* Mutant: only the first message of a packet is remembered.
RegisterSentAcksFirst(e, messages) ==
  IF messages = <<>> THEN e
  ELSE [e EXCEPT !.sentAcks = {k \in @ : k >= messages[1]} \cup {messages[1]}]

\* The messages of a packet have increasing numbers; what precedes the first one
\* was acknowledged, so its sender does not repeat it and it is forgotten.
RegisterSentAcks(e, messages) ==
  IF messages = <<>> THEN e
  ELSE [e EXCEPT !.sentAcks = {k \in @ : k >= messages[1]} \cup Elements(messages)]

SendAcksPostponed(e, messages) ==
  [e EXCEPT !.acks = @ \o NotIn(messages, Elements(@))]

\* Acknowledgements of something new leave at once, others within the delay.
RequestService(e, news) ==
  IF e.acks = <<>> THEN e
  ELSE IF news # <<>> THEN [e EXCEPT !.services = @ + 1]
  ELSE [e EXCEPT !.ackTimer = TRUE]

\* The messages of a packet that were not handed over before.
News(e, p) == NotIn(p.messages, e.sentAcks)

ProcessRawPacket(e, p) ==
  LET acked == AckMyMessage(e, Elements(p.acks))
      known == RegisterSentAcks(acked, p.messages)
  IN  RequestService(SendAcksPostponed(known, p.messages), News(e, p))

-----------------------------------------------------------------------------
(* The steps of an end and of the network.                                  *)

Init ==
  /\ ends = [x \in Ends |-> NewEnd]
  /\ network = [x \in Ends |-> <<>>]
  /\ log = [x \in Ends |-> <<>>]
  /\ delivered = [x \in Ends |-> <<>>]
  /\ due = <<>>
  /\ losses = 0
  /\ repeats = 0

\* Both delays are the same, kMaxDelayBeforeAckResend and
\* kMaxDelayBeforeMessageResend: delayed tasks run in the order of posting.
Timers(es) ==
  {<<x, "acks">> : x \in {y \in Ends : es[y].ackTimer}}
    \cup {<<x, "resend">> : x \in {y \in Ends : es[y].resendTimer}}

\* A step posts at most one of them.
Post(tasks) ==
  LET new == Timers(ends') \ Elements(tasks)
  IN  due' = IF ~ Prompt \/ new = {} THEN tasks
             ELSE Append(tasks, CHOOSE task \in new : TRUE)

\* Packets travel and the thread works faster than any delay,
Quiet == Prompt => \A x \in Ends : network[x] = <<>> /\ ends[x].services = 0

\* and the delay of the tasks is longer than the one Elapse is about.
Turn(x, cause) ==
  Prompt => /\ due # <<>> /\ Head(due) = <<x, cause>>
            /\ \A i \in DOMAIN ends[x].waiting : ~ ends[x].waiting[i].recent

Rest == IF due = <<>> THEN <<>> ELSE Tail(due)

MaySend(x) == x \in Senders /\ Len(log[x]) < MaxMessages

CanNumber(e) == Len(e.waiting) < Limit /\ e.counter # MaxCounter

\* The number of a message that no packet can hold is lost.
EncryptTooLarge(x, size) ==
  /\ MaySend(x)
  /\ CanNumber(ends[x])
  /\ size > Room
  /\ ends' = [ends EXCEPT ![x].counter = @ + 1]
  /\ UNCHANGED <<network, log, delivered, due, losses, repeats>>

\* A message when all the others are acknowledged: it begins the packet. No timer
\* is started for it.
EncryptFirst(x, size) ==
  LET e == ends[x]
      c == e.counter + 1
  IN  /\ MaySend(x)
      /\ CanNumber(e)
      /\ size <= Room
      /\ e.waiting = <<>>
      /\ ends' = [ends EXCEPT ![x] =
           [AfterMessages(e, size) EXCEPT !.counter = c,
              !.waiting = <<[counter |-> c, size |-> size, recent |-> TRUE]>>]]
      /\ network' = [network EXCEPT ![Peer(x)] =
           Append(@, [AppendMessages(e, size, c) EXCEPT !.messages = <<c>>])]
      /\ log' = [log EXCEPT ![x] = Append(@, c)]
      /\ Post(due)
      /\ UNCHANGED <<delivered, losses, repeats>>

\* Mutant: the message is queued and only the timer sends it.
EncryptQueued(x, size) ==
  LET e == ends[x]
      c == e.counter + 1
  IN  /\ MaySend(x)
      /\ CanNumber(e)
      /\ size <= Room
      /\ e.waiting # <<>>
      /\ ends' = [ends EXCEPT ![x].counter = c,
           ![x].waiting = Append(@, [counter |-> c, size |-> size, recent |-> FALSE])]
      /\ log' = [log EXCEPT ![x] = Append(@, c)]
      /\ Post(due)
      /\ UNCHANGED <<network, delivered, losses, repeats>>

\* A message when others wait: it queues behind them and all of them are sent.
EncryptNext(x, size) ==
  LET e == ends[x]
      c == e.counter + 1
      all == Append(e.waiting, [counter |-> c, size |-> size, recent |-> FALSE])
  IN  /\ MaySend(x)
      /\ CanNumber(e)
      /\ size <= Room
      /\ e.waiting # <<>>
      /\ PrepareForSendingService(x, [e EXCEPT !.counter = c,
           !.waiting = [i \in DOMAIN all |-> [all[i] EXCEPT !.recent = FALSE]]])
      /\ log' = [log EXCEPT ![x] = Append(@, c)]
      /\ Post(due)
      /\ UNCHANGED <<delivered, losses, repeats>>

\* The tasks posted on the signaling thread.
Service(x) ==
  /\ ends[x].services > 0
  /\ PrepareForSendingService(x, [ends[x] EXCEPT !.services = @ - 1])
  /\ Post(due)
  /\ UNCHANGED <<log, delivered, losses, repeats>>

ServiceAcks(x) ==
  /\ ends[x].ackTimer
  /\ Quiet /\ Turn(x, "acks")
  /\ PrepareForSendingService(x, [ends[x] EXCEPT !.ackTimer = FALSE])
  /\ Post(Rest)
  /\ UNCHANGED <<log, delivered, losses, repeats>>

ServiceResend(x) ==
  /\ ends[x].resendTimer
  /\ Quiet /\ Turn(x, "resend")
  /\ PrepareForSendingService(x, [ends[x] EXCEPT !.resendTimer = FALSE])
  /\ Post(Rest)
  /\ UNCHANGED <<log, delivered, losses, repeats>>

\* kMinDelayBeforeMessageResend passes for a message.
Elapse(x, i) ==
  /\ ends[x].waiting[i].recent
  /\ Quiet
  /\ ends' = [ends EXCEPT ![x].waiting[i].recent = FALSE]
  /\ UNCHANGED <<network, log, delivered, due, losses, repeats>>

\* A packet reaches an end.
Decrypt(x, p) ==
  LET e == ends[x]
  IN  IF Registers(e, p.counter)
      THEN /\ ends' = [ends EXCEPT ![x] =
                ProcessRawPacket(RegisterIncomingCounter(e, p.counter), p)]
           /\ delivered' = [delivered EXCEPT ![x] = @ \o News(e, p)]
      ELSE UNCHANGED <<ends, delivered>>

InTurn(x, i) == i \in DOMAIN network[x] /\ (Reordering \/ i = 1)

Without(s, i) == SubSeq(s, 1, i - 1) \o SubSeq(s, i + 1, Len(s))

Receive(x, i) ==
  /\ InTurn(x, i)
  /\ Decrypt(x, network[x][i])
  /\ network' = [network EXCEPT ![x] = Without(@, i)]
  /\ Post(due)
  /\ UNCHANGED <<log, losses, repeats>>

\* It will come again.
ReceiveAgain(x, i) ==
  /\ InTurn(x, i)
  /\ repeats < MaxRepeats
  /\ repeats' = repeats + 1
  /\ Decrypt(x, network[x][i])
  /\ Post(due)
  /\ UNCHANGED <<network, log, losses>>

Lose(x, i) ==
  /\ InTurn(x, i)
  /\ losses < MaxLosses
  /\ losses' = losses + 1
  /\ network' = [network EXCEPT ![x] = Without(@, i)]
  /\ UNCHANGED <<ends, log, delivered, due, repeats>>

Next ==
  \E x \in Ends :
    \/ \E size \in Sizes :
         EncryptTooLarge(x, size) \/ EncryptFirst(x, size) \/ EncryptNext(x, size)
    \/ Service(x) \/ ServiceAcks(x) \/ ServiceResend(x)
    \/ \E i \in DOMAIN ends[x].waiting : Elapse(x, i)
    \/ \E i \in DOMAIN network[x] : Receive(x, i) \/ ReceiveAgain(x, i) \/ Lose(x, i)

Spec == Init /\ [][Next]_vars

\* The thread runs what is posted to it, time passes, and packets that are not
\* lost arrive. Nothing obliges an application to send a message.
Fairness ==
  \A x \in Ends :
    /\ WF_vars(Service(x)) /\ WF_vars(ServiceAcks(x)) /\ WF_vars(ServiceResend(x))
    /\ WF_vars(\E i \in DOMAIN ends[x].waiting : Elapse(x, i))
    /\ WF_vars(\E i \in DOMAIN network[x] : Receive(x, i))

FairSpec == Spec /\ Fairness

-----------------------------------------------------------------------------
(* Properties.                                                              *)

Channel(x) == INSTANCE FifoChannel WITH sent <- log[x], received <- delivered[Peer(x)]

\* Packets that do not overtake each other make a channel of each direction,
\* whatever is lost or repeated: each message is handed over once, in order.
ChannelsInOrder ==
  /\ \A x \in Ends : Channel(x)!Init
  /\ [][\A x \in Ends : [Channel(x)!Next]_(Channel(x)!vars)]_vars

\* Even if they do, nothing is handed over before everything sent earlier.
EarlierFirst ==
  \A x \in Ends : \A i \in DOMAIN delivered[Peer(x)] : \A c \in Elements(log[x]) :
    c < delivered[Peer(x)][i] => \E j \in 1 .. i - 1 : delivered[Peer(x)][j] = c

\* A message handed over again comes from a packet that was overtaken by a later
\* message: the newest one is never repeated.
OldRepeated ==
  \A x \in Ends : \A i, j \in DOMAIN delivered[x] :
    i < j /\ delivered[x][i] = delivered[x][j] =>
      \E k \in 1 .. j : delivered[x][k] > delivered[x][j]

\* A message is kept until it was handed over at the other end.
NothingForgotten ==
  \A x \in Ends : \A c \in Elements(log[x]) :
    \/ c \in Elements(delivered[Peer(x)])
    \/ \E i \in DOMAIN ends[x].waiting : ends[x].waiting[i].counter = c

\* Every message arrives once another was sent after it.
EarlierArrive ==
  \A x \in Ends : \A k \in 1 .. MaxMessages :
    (Len(log[x]) > k) ~> (Len(delivered[Peer(x)]) >= k)

=============================================================================
