--------------------------- MODULE P2PCallProofs ---------------------------
(***************************************************************************)
(* Proofs about P2PCall, for any tracks, talkers and bounds.               *)
(*                                                                         *)
(* Four inductive invariants.  TypeOK has the types, and that a message    *)
(* which waits was handed over.  KeptInOrder says where each message that  *)
(* was handed over is: the ones before it are handled or in front of it.   *)
(* ParametersFirst says the same of candidates and the parameters, in the  *)
(* queue of the network thread.  NewestUnderWay follows the state of the   *)
(* media from the worker over two queues and the wire to the peer: the     *)
(* last of it that is under way is the present one.                        *)
(***************************************************************************)
EXTENDS P2PCall, TLAPS

-----------------------------------------------------------------------------
(* Types.                                                                   *)

Track == Ends \X Kinds
Exchange == Ends \X Nat
NegotiationContents == [exchange : Exchange, ssrcs : SUBSET Track]

NoneOrOne == {<<>>} \cup {<<x>> : x \in Exchange}

Context ==
  [own : SUBSET Track, need : BOOLEAN, exchanges : Nat, pending : NoneOrOne,
   confirmed : SUBSET Track, incoming : SUBSET Track]

Coordinated == [outgoing : SUBSET Track, incoming : SUBSET Track]

Candidates == [type : {"candidate"}, candidate : Nat]
Negotiations == [type : {"channels"}, contents : NegotiationContents]
Handlings == [type : {"message"}, number : Nat]
Applications == [type : {"channels"}, state : Coordinated]
MediaStates == [type : {"media"}, value : Nat]

Messages == {Setup} \cup Candidates \cup Negotiations
SignalingTasks == {Setup} \cup Candidates \cup Handlings \cup MediaStates
NetworkTasks == {Setup, Remote} \cup Candidates \cup Applications \cup MediaStates

End ==
  [connect : {"before", "created", "started", "ready"},
   buffering : BOOLEAN, early : Seq(Nat),
   signaling : Seq(SignalingTasks), blocked : BOOLEAN, network : Seq(NetworkTasks),
   context : Context, handshake : BOOLEAN, waiting : Seq(Nat), gathered : Nat,
   remote : BOOLEAN, added : SUBSET Nat,
   outgoing : SUBSET Track, incoming : SUBSET Track, open : BOOLEAN]

Media ==
  [now : Nat, task : BOOLEAN, worker : Seq(Nat), opening : Seq(Nat), wire : Seq(Nat),
   known : Nat]

History ==
  [repeats : Nat, again : SUBSET Ends, crossed : SUBSET Ends, top : [Ends -> Nat]]

Types ==
  /\ ends \in [Ends -> End]
  /\ log \in [Ends -> Seq(Messages)]
  /\ got \in [Ends -> Nat]
  /\ media \in [Ends -> Media]
  /\ history \in History

\* Every message that waits was handed over, and every one handed over was sent.
HandedOver(end, n) ==
  /\ \A i \in DOMAIN end.early : end.early[i] \in 1 .. n
  /\ \A i \in DOMAIN end.signaling :
       end.signaling[i].type = "message" => end.signaling[i].number \in 1 .. n

Sent ==
  \A e \in Ends : /\ got[e] <= Len(log[Peer(e)])
                  /\ HandedOver(ends[e], got[e])

TypeOK == Types /\ Sent

-----------------------------------------------------------------------------
(* The context of a negotiation.                                            *)

LEMMA NewContextType ==
  ASSUME NEW e \in Ends
  PROVE  NewContext(Channels(e)) \in Context
BY DEF NewContext, Channels, Context, Track, NoneOrOne

LEMMA OfferType ==
  ASSUME NEW c \in Context, NEW e \in Ends
  PROVE  /\ GetPendingOffer(c, e).context \in Context
         /\ GetPendingOffer(c, e).sent \in Seq(NegotiationContents)
<1>1. CASE ~ c.need \/ c.pending # <<>>
  BY <1>1 DEF GetPendingOffer, Result
<1>2. CASE ~ (~ c.need \/ c.pending # <<>>)
  <2> DEFINE exchange == <<e, c.exchanges + 1>>
             d == [c EXCEPT !.need = FALSE, !.exchanges = @ + 1, !.pending = <<exchange>>]
  <2>1. exchange \in Exchange
    BY DEF Exchange, Context
  <2>2. Contents(exchange, c.own) \in NegotiationContents
    BY <2>1 DEF Contents, NegotiationContents, Context
  <2>3. <<exchange>> \in NoneOrOne
    BY <2>1 DEF NoneOrOne
  <2>4. d \in Context
    <3> DEFINE p == <<exchange>>
               n == c.exchanges + 1
               f == FALSE
    <3> HIDE DEF exchange
    <3>1. d = [c EXCEPT !.need = f, !.exchanges = n, !.pending = p]
      OBVIOUS
    <3>2. p \in NoneOrOne /\ n \in Nat /\ f \in BOOLEAN
      BY <2>3 DEF Context
    <3> HIDE DEF d, p, n, f
    <3> QED  BY <3>1, <3>2 DEF Context
  <2>5. GetPendingOffer(c, e) = [context |-> d, sent |-> <<Contents(exchange, c.own)>>]
    BY <1>2 DEF GetPendingOffer, Result
  <2> HIDE DEF d, exchange
  <2> QED  BY <2>2, <2>4, <2>5
<1> QED  BY <1>1, <1>2

LEMMA AnswerType ==
  ASSUME NEW c \in Context, NEW outgoing \in BOOLEAN, NEW contents \in NegotiationContents
  PROVE  /\ SetPendingAnswer(c, outgoing, contents).context \in Context
         /\ SetPendingAnswer(c, outgoing, contents).sent \in Seq(NegotiationContents)
<1> DEFINE set == SetAnswer(c, contents)
           lost == [c EXCEPT !.pending = <<>>]
           answered == [lost EXCEPT !.incoming = contents.ssrcs]
<1>1. set \in Context
  BY DEF SetAnswer, Context, NegotiationContents, NoneOrOne
<1>2. lost \in Context
  BY DEF Context, NoneOrOne
<1>3. answered \in Context
  <2> HIDE DEF lost
  <2> QED  BY <1>2 DEF Context, NegotiationContents
<1>4. GetAnswer(lost, contents) = [context |-> answered, sent |-> <<contents>>]
  BY DEF GetAnswer, Result
<1>5. \/ SetPendingAnswer(c, outgoing, contents) = [context |-> set, sent |-> <<>>]
      \/ SetPendingAnswer(c, outgoing, contents) = [context |-> answered, sent |-> <<contents>>]
      \/ SetPendingAnswer(c, outgoing, contents) = [context |-> c, sent |-> <<>>]
  BY <1>4 DEF SetPendingAnswer, Result
<1>6. <<>> \in Seq(NegotiationContents) /\ <<contents>> \in Seq(NegotiationContents)
  OBVIOUS
<1> HIDE DEF set, answered
<1> DEFINE result == SetPendingAnswer(c, outgoing, contents)
<1>7. \/ result.context = set /\ result.sent = <<>>
      \/ result.context = answered /\ result.sent = <<contents>>
      \/ result.context = c /\ result.sent = <<>>
  BY <1>5
<1> HIDE DEF result
<1> QED  BY <1>1, <1>3, <1>6, <1>7 DEF result

LEMMA CoordinatedType ==
  ASSUME NEW c \in Context
  PROVE  CoordinatedState(c) \in Coordinated
BY DEF CoordinatedState, Context, Coordinated

LEMMA AllOfType ==
  ASSUME NEW contents \in Seq(NegotiationContents)
  PROVE  AllOf(contents) \in Seq(Messages)
<1>1. DOMAIN contents = 1 .. Len(contents) /\ Len(contents) \in Nat
  OBVIOUS
<1>2. \A i \in DOMAIN contents : Negotiate(contents[i]) \in Messages
  BY DEF Negotiate, Messages, Negotiations
<1> QED  BY <1>1, <1>2 DEF AllOf

-----------------------------------------------------------------------------
(* An end whose tasks change is an end.                                     *)

LEMMA PostType ==
  ASSUME NEW a \in End, NEW t \in NetworkTasks
  PROVE  Post(a, t) \in End
<1> DEFINE q == Append(a.network, t)
<1>1. q \in Seq(NetworkTasks)
  BY DEF End
<1>2. Post(a, t) = [a EXCEPT !.network = q]
  BY DEF Post
<1> HIDE DEF q
<1> QED  BY <1>1, <1>2 DEF End

LEMMA PostSignalingType ==
  ASSUME NEW a \in End, NEW t \in SignalingTasks
  PROVE  PostSignaling(a, t) \in End
<1> DEFINE q == Append(a.signaling, t)
<1>1. q \in Seq(SignalingTasks)
  BY DEF End
<1>2. PostSignaling(a, t) = [a EXCEPT !.signaling = q]
  BY DEF PostSignaling
<1> HIDE DEF q
<1> QED  BY <1>1, <1>2 DEF End

LEMMA ApplyPendingType ==
  ASSUME NEW a \in End
  PROVE  ApplyPending(a) \in End
<1> DEFINE r == [i \in DOMAIN a.waiting |-> Candidate(a.waiting[i])]
           q == a.network \o r
<1>1. a.waiting \in Seq(Nat) /\ a.network \in Seq(NetworkTasks)
  BY DEF End
<1>2. DOMAIN a.waiting = 1 .. Len(a.waiting) /\ Len(a.waiting) \in Nat
  BY <1>1
<1>3. \A i \in DOMAIN a.waiting : Candidate(a.waiting[i]) \in NetworkTasks
  BY <1>1 DEF Candidate, NetworkTasks, Candidates
<1>4. r \in Seq(NetworkTasks)
  BY <1>2, <1>3
<1> HIDE DEF r
<1>5. q \in Seq(NetworkTasks)
  BY <1>1, <1>4
<1>6. ApplyPending(a) = [a EXCEPT !.network = q, !.waiting = <<>>]
  BY DEF ApplyPending, r
<1> HIDE DEF q
<1> DEFINE w == <<>>
<1>7. w \in Seq(Nat)
  OBVIOUS
<1> HIDE DEF w
<1>8. ApplyPending(a) = [a EXCEPT !.network = q, !.waiting = w]
  BY <1>6 DEF w
<1> QED  BY <1>5, <1>7, <1>8 DEF End

LEMMA SendSignalingDataType ==
  ASSUME NEW a \in End, NEW n \in Nat
  PROVE  SendSignalingData(a, n) \in End
<1>1. CASE a.buffering
  <2> DEFINE q == Append(a.early, n)
  <2>1. q \in Seq(Nat)
    BY DEF End
  <2>2. SendSignalingData(a, n) = [a EXCEPT !.early = q]
    BY <1>1 DEF SendSignalingData
  <2> HIDE DEF q
  <2> QED  BY <2>1, <2>2 DEF End
<1>2. CASE ~ a.buffering
  <2>1. Handle(n) \in SignalingTasks
    BY DEF Handle, SignalingTasks, Handlings
  <2> QED  BY <1>2, <2>1, PostSignalingType DEF SendSignalingData
<1> QED  BY <1>1, <1>2

LEMMA RestType ==
  ASSUME Types, NEW e \in Ends, ends[e].signaling # <<>>
  PROVE  /\ Rest(e) \in End
         /\ Head(ends[e].signaling) \in SignalingTasks
<1>1. ends[e] \in End /\ ends[e].signaling \in Seq(SignalingTasks)
  BY DEF Types, End
<1> DEFINE q == Tail(ends[e].signaling)
<1>2. q \in Seq(SignalingTasks) /\ Head(ends[e].signaling) \in SignalingTasks
  BY <1>1
<1>3. Rest(e) = [ends[e] EXCEPT !.signaling = q]
  BY DEF Rest
<1> HIDE DEF q
<1> QED  BY <1>1, <1>2, <1>3 DEF End

LEMMA RanType ==
  ASSUME Types, NEW e \in Ends, ends[e].network # <<>>
  PROVE  /\ Ran(e) \in End
         /\ Subject(e) \in NetworkTasks
<1>1. ends[e] \in End /\ ends[e].network \in Seq(NetworkTasks)
  BY DEF Types, End
<1> DEFINE q == Tail(ends[e].network)
<1>2. q \in Seq(NetworkTasks) /\ Subject(e) \in NetworkTasks
  BY <1>1 DEF Subject
<1>3. Ran(e) = [ends[e] EXCEPT !.network = q]
  BY DEF Ran
<1> HIDE DEF q
<1> QED  BY <1>1, <1>2, <1>3 DEF End

\* What a task is that has a type.
LEMMA TaskOfType ==
  /\ \A t \in SignalingTasks :
       /\ t.type = "setup" => t = Setup
       /\ t.type = "candidate" => t \in Candidates
       /\ t.type = "message" => t \in Handlings
       /\ t.type = "media" => t \in MediaStates
  /\ \A t \in NetworkTasks :
       /\ t.type = "candidate" => t \in Candidates
       /\ t.type = "channels" => t \in Applications
       /\ t.type = "media" => t \in MediaStates
  /\ \A m \in Messages :
       /\ m.type = "candidate" => m \in Candidates
       /\ m.type = "channels" => m \in Negotiations
BY DEF SignalingTasks, NetworkTasks, Messages, Setup, Remote, Candidates, Handlings,
       MediaStates, Applications, Negotiations

\* The message that a task of the signaling thread handles.
LEMMA ReceivedType ==
  ASSUME TypeOK, NEW e \in Ends, Signaling(e, "message")
  PROVE  /\ Number(e) \in 1 .. got[e]
         /\ Received(e) \in Messages
<1>1. ends[e] \in End /\ ends[e].signaling # <<>> /\ Head(ends[e].signaling).type = "message"
  BY DEF Signaling, TypeOK, Types
<1>2. ends[e].signaling \in Seq(SignalingTasks)
  BY <1>1 DEF End
<1>3. 1 \in DOMAIN ends[e].signaling /\ Head(ends[e].signaling) = ends[e].signaling[1]
  BY <1>1, <1>2
<1>4. HandedOver(ends[e], got[e]) /\ got[e] <= Len(log[Peer(e)])
  BY DEF TypeOK, Sent
<1>5. Number(e) \in 1 .. got[e]
  BY <1>1, <1>3, <1>4 DEF HandedOver, Number
<1>6. Peer(e) \in Ends
  BY DEF Peer, Ends
<1>7. log[Peer(e)] \in Seq(Messages) /\ got[e] \in Nat
  BY <1>6 DEF TypeOK, Types
<1>8. Number(e) \in 1 .. Len(log[Peer(e)])
  BY <1>4, <1>5, <1>7
<1>9. Received(e) \in Messages
  BY <1>7, <1>8 DEF Received
<1> QED  BY <1>5, <1>9

-----------------------------------------------------------------------------
(* Every action keeps the types.                                            *)

LEMMA InitTypes == Init => TypeOK
<1> SUFFICES ASSUME Init PROVE TypeOK
  OBVIOUS
<1>1. \A e \in Ends : NewEnd(e) \in End
  <2> SUFFICES ASSUME NEW e \in Ends PROVE NewEnd(e) \in End
    OBVIOUS
  <2> DEFINE c == NewContext(Channels(e))
  <2>1. c \in Context
    BY NewContextType
  <2>2. NewEnd(e) =
          [connect |-> "before", buffering |-> TRUE, early |-> <<>>, signaling |-> <<>>,
           blocked |-> FALSE, network |-> <<>>, context |-> c, handshake |-> FALSE,
           waiting |-> <<>>, gathered |-> 0, remote |-> FALSE, added |-> {},
           outgoing |-> {}, incoming |-> {}, open |-> FALSE]
    BY DEF NewEnd
  <2> HIDE DEF c
  <2> QED  BY <2>1, <2>2 DEF End
<1>2. Quiet \in Media
  BY DEF Quiet, Media
<1>3. NoHistory \in History
  BY DEF NoHistory, History
<1>4. Types
  BY <1>1, <1>2, <1>3 DEF Init, Types
<1>5. Sent
  <2> SUFFICES ASSUME NEW e \in Ends
               PROVE  got[e] <= Len(log[Peer(e)]) /\ HandedOver(ends[e], got[e])
    BY DEF Sent
  <2>1. Peer(e) \in Ends
    BY DEF Peer, Ends
  <2>2. got[e] = 0 /\ log[Peer(e)] = <<>> /\ ends[e].early = <<>> /\ ends[e].signaling = <<>>
    BY <2>1 DEF Init, NewEnd
  <2> QED  BY <2>2 DEF HandedOver
<1> QED  BY <1>4, <1>5 DEF TypeOK

\* What an action leaves alone, and what it gives to one end.
LEMMA TypesKept ==
  ASSUME Types, NEW e \in Ends, NEW d \in End, ends' = [ends EXCEPT ![e] = d],
         log' \in [Ends -> Seq(Messages)], got' \in [Ends -> Nat],
         media' \in [Ends -> Media], history' \in History
  PROVE  Types'
BY DEF Types

LEMMA ConnectTypes ==
  ASSUME Types, NEW e \in Ends, Connect(e)
  PROVE  Types'
<1> DEFINE c == IF Outgoing(e) THEN "created" ELSE "started"
           d == [ends[e] EXCEPT !.connect = c]
<1>1. c \in {"before", "created", "started", "ready"} /\ ends[e] \in End
  BY DEF Types
<1>2. ends' = [ends EXCEPT ![e] = d]
  BY DEF Connect
<1> HIDE DEF c
<1>3. d \in End
  BY <1>1 DEF End
<1> HIDE DEF d
<1> QED  BY <1>2, <1>3, TypesKept DEF Connect, Types

LEMMA StartTypes ==
  ASSUME Types, NEW e \in Ends, Start(e)
  PROVE  Types'
<1> DEFINE offer == GetPendingOffer(ends[e].context, e)
           a == SendInitialSetup(ends[e])
           c == offer.context
           s == "started"
           d == [a EXCEPT !.connect = s, !.context = c]
           l == AllOf(offer.sent)
<1>1. ends[e] \in End /\ ends[e].context \in Context
  BY DEF Types, End
<1>2. c \in Context /\ offer.sent \in Seq(NegotiationContents)
  BY <1>1, OfferType
<1>3. l \in Seq(Messages)
  BY <1>2, AllOfType
<1>4. Setup \in NetworkTasks
  BY DEF NetworkTasks
<1>5. a \in End
  BY <1>1, <1>4, PostType DEF SendInitialSetup
<1>6. ends' = [ends EXCEPT ![e] = d] /\ log' = [log EXCEPT ![e] = @ \o l]
  BY DEF Start
<1>7. s \in {"before", "created", "started", "ready"}
  OBVIOUS
<1> HIDE DEF c, a, s, l, offer
<1>8. d \in End
  BY <1>2, <1>5, <1>7 DEF End
<1> HIDE DEF d
<1>9. log' \in [Ends -> Seq(Messages)]
  BY <1>3, <1>6 DEF Types
<1> QED  BY <1>6, <1>8, <1>9, TypesKept DEF Start, Types

LEMMA FlushTypes ==
  ASSUME Types, NEW e \in Ends, Flush(e)
  PROVE  Types'
<1> DEFINE c == "ready"
           b == FALSE
           n == <<>>
           r == [i \in DOMAIN ends[e].early |-> Handle(ends[e].early[i])]
           q == ends[e].signaling \o r
           d == [ends[e] EXCEPT !.connect = c, !.buffering = b, !.early = n, !.signaling = q]
<1>1. ends[e] \in End /\ ends[e].early \in Seq(Nat) /\ ends[e].signaling \in Seq(SignalingTasks)
  BY DEF Types, End
<1>2. DOMAIN ends[e].early = 1 .. Len(ends[e].early) /\ Len(ends[e].early) \in Nat
  BY <1>1
<1>3. \A i \in DOMAIN ends[e].early : Handle(ends[e].early[i]) \in SignalingTasks
  BY <1>1 DEF Handle, SignalingTasks, Handlings
<1>4. r \in Seq(SignalingTasks)
  BY <1>2, <1>3
<1>5. ends' = [ends EXCEPT ![e] = d]
  BY DEF Flush, Types
<1>6. c \in {"before", "created", "started", "ready"} /\ b \in BOOLEAN /\ n \in Seq(Nat)
  OBVIOUS
<1> HIDE DEF c, b, n, r
<1>7. q \in Seq(SignalingTasks)
  BY <1>1, <1>4
<1> HIDE DEF q
<1>8. d \in End
  BY <1>1, <1>6, <1>7 DEF End
<1> HIDE DEF d
<1> QED  BY <1>5, <1>8, TypesKept DEF Flush, Types

LEMMA DeliverTypes ==
  ASSUME Types, NEW e \in Ends, Deliver(e)
  PROVE  Types'
<1> DEFINE d == SendSignalingData(ends[e], got[e] + 1)
<1>1. ends[e] \in End /\ got[e] + 1 \in Nat
  BY DEF Types
<1>2. d \in End
  BY <1>1, SendSignalingDataType
<1>3. ends' = [ends EXCEPT ![e] = d] /\ got' = [got EXCEPT ![e] = @ + 1]
  BY DEF Deliver
<1> HIDE DEF d
<1>4. got' \in [Ends -> Nat]
  BY <1>3 DEF Types
<1> QED  BY <1>2, <1>3, <1>4, TypesKept DEF Deliver, Types

LEMMA RepeatTypes ==
  ASSUME Types, NEW e \in Ends, Repeat(e)
  PROVE  Types'
<1>1. ends[e] \in End /\ got[e] \in Nat
  BY DEF Types
<1>2. PICK n \in 1 .. got[e] - 1 :
        /\ ends' = [ends EXCEPT ![e] = SendSignalingData(@, n)]
        /\ history' = [history EXCEPT !.repeats = @ + 1,
             !.again = IF log[Peer(e)][n].type = "channels" THEN @ \cup {e} ELSE @]
  BY DEF Repeat
<1> DEFINE d == SendSignalingData(ends[e], n)
           g == IF log[Peer(e)][n].type = "channels" THEN history.again \cup {e}
                ELSE history.again
           r == history.repeats + 1
<1>3. n \in Nat
  BY <1>1
<1>4. d \in End
  BY <1>1, <1>3, SendSignalingDataType
<1>5. ends' = [ends EXCEPT ![e] = d]
  BY <1>2
<1>6. history' = [history EXCEPT !.repeats = r, !.again = g]
  BY <1>2
<1>7. g \in SUBSET Ends /\ r \in Nat
  BY DEF Types, History
<1> HIDE DEF g, d, r
<1>8. history' \in History
  BY <1>6, <1>7 DEF Types, History
<1> QED  BY <1>4, <1>5, <1>8, TypesKept DEF Repeat, Types

LEMMA SendTypes ==
  ASSUME Types, NEW e \in Ends, Send(e)
  PROVE  Types'
<1> DEFINE t == Head(ends[e].signaling)
<1>1. ends[e].signaling # <<>> /\ t.type \in {"setup", "candidate"}
  BY DEF Send, Signaling
<1>2. Rest(e) \in End /\ t \in SignalingTasks
  BY <1>1, RestType
<1>3. t \in Messages
  BY <1>1, <1>2, TaskOfType DEF Messages
<1>4. ends' = [ends EXCEPT ![e] = Rest(e)] /\ log' = [log EXCEPT ![e] = Append(@, t)]
  BY DEF Send
<1> HIDE DEF t
<1>5. log' \in [Ends -> Seq(Messages)]
  BY <1>3, <1>4 DEF Types
<1> QED  BY <1>2, <1>4, <1>5, TypesKept DEF Send, Types

LEMMA HandledType ==
  ASSUME TypeOK, NEW e \in Ends, Signaling(e, "message"), history' = Handled(e)
  PROVE  history' \in History
<1> DEFINE n == IF Number(e) > history.top[e] THEN Number(e) ELSE history.top[e]
           top == [history.top EXCEPT ![e] = n]
<1>1. Number(e) \in 1 .. got[e] /\ got[e] \in Nat
  BY ReceivedType DEF TypeOK, Types
<1>2. history \in History /\ history.top \in [Ends -> Nat]
  BY DEF TypeOK, Types, History
<1>3. n \in Nat
  BY <1>1, <1>2
<1>4. history' = [history EXCEPT !.top = top]
  BY DEF Handled
<1> HIDE DEF n
<1>5. top \in [Ends -> Nat]
  BY <1>2, <1>3
<1> HIDE DEF top
<1> QED  BY <1>2, <1>4, <1>5 DEF History

LEMMA ProcessSetupTypes ==
  ASSUME TypeOK, NEW e \in Ends, ProcessSetup(e)
  PROVE  Types'
<1> DEFINE a == Post(Rest(e), Remote)
           b == TRUE
           taken == [a EXCEPT !.handshake = b]
           answered == IF Outgoing(e) THEN taken ELSE SendInitialSetup(taken)
           d == ApplyPending(answered)
<1>1. Signaling(e, "message") /\ ends[e].signaling # <<>> /\ history' = Handled(e) /\ Types
  BY DEF ProcessSetup, Signaling, TypeOK
<1>2. Rest(e) \in End
  BY <1>1, RestType
<1>3. Setup \in NetworkTasks /\ Remote \in NetworkTasks
  BY DEF NetworkTasks
<1>4. a \in End
  BY <1>2, <1>3, PostType
<1>5. ends' = [ends EXCEPT ![e] = d]
  BY DEF ProcessSetup
<1>6. b \in BOOLEAN
  OBVIOUS
<1> HIDE DEF a, b
<1>7. taken \in End
  BY <1>4, <1>6 DEF End
<1> HIDE DEF taken
<1>8. answered \in End
  BY <1>3, <1>7, PostType DEF SendInitialSetup
<1> HIDE DEF answered
<1>9. d \in End
  BY <1>8, ApplyPendingType
<1> HIDE DEF d
<1>10. history' \in History
  BY <1>1, HandledType
<1> QED  BY <1>1, <1>5, <1>9, <1>10, TypesKept DEF ProcessSetup, Types

LEMMA ProcessCandidateTypes ==
  ASSUME TypeOK, NEW e \in Ends, ProcessCandidate(e)
  PROVE  Types'
<1> DEFINE w == Append(ends[e].waiting, Received(e).candidate)
           taken == [Rest(e) EXCEPT !.waiting = w]
           d == IF taken.handshake THEN ApplyPending(taken) ELSE taken
<1>1. /\ Signaling(e, "message") /\ ends[e].signaling # <<>> /\ history' = Handled(e) /\ Types
      /\ Received(e).type = "candidate"
  BY DEF ProcessCandidate, Signaling, TypeOK
<1>2. Rest(e) \in End /\ ends[e].waiting \in Seq(Nat)
  BY <1>1, RestType DEF Types, End
<1>3. Received(e) \in Messages
  BY <1>1, ReceivedType
<1>4. Received(e).candidate \in Nat
  BY <1>1, <1>3, TaskOfType DEF Candidates
<1>5. w \in Seq(Nat)
  BY <1>2, <1>4
<1>6. Rest(e).waiting = ends[e].waiting
  BY <1>1 DEF Rest, Types, End
<1>7. ends' = [ends EXCEPT ![e] = d]
  BY <1>6 DEF ProcessCandidate
<1> HIDE DEF w
<1>8. taken \in End
  BY <1>2, <1>5 DEF End
<1> HIDE DEF taken
<1>9. d \in End
  BY <1>8, ApplyPendingType
<1> HIDE DEF d
<1>10. history' \in History
  BY <1>1, HandledType
<1> QED  BY <1>1, <1>7, <1>9, <1>10, TypesKept DEF ProcessCandidate, Types

LEMMA ProcessChannelsTypes ==
  ASSUME TypeOK, NEW e \in Ends, ProcessChannels(e)
  PROVE  Types'
<1> DEFINE answer == SetPendingAnswer(ends[e].context, Outgoing(e), Received(e).contents)
           offer == GetPendingOffer(answer.context, e)
           sent == answer.sent \o offer.sent
           t == Apply(CoordinatedState(offer.context))
           a == Post(Rest(e), t)
           c == offer.context
           b == TRUE
           d == [a EXCEPT !.context = c, !.blocked = b]
           l == AllOf(sent)
<1>1. /\ Signaling(e, "message") /\ ends[e].signaling # <<>> /\ history' = Handled(e) /\ Types
      /\ Received(e).type = "channels"
  BY DEF ProcessChannels, Signaling, TypeOK
<1>2. Rest(e) \in End /\ ends[e].context \in Context
  BY <1>1, RestType DEF Types, End
<1>3. Received(e) \in Messages
  BY <1>1, ReceivedType
<1>4. Received(e).contents \in NegotiationContents
  BY <1>1, <1>3, TaskOfType DEF Negotiations
<1>5. Outgoing(e) \in BOOLEAN
  BY DEF Outgoing
<1>6. answer.context \in Context /\ answer.sent \in Seq(NegotiationContents)
  BY <1>2, <1>4, <1>5, AnswerType
<1>7. ends' = [ends EXCEPT ![e] = d] /\ log' = [log EXCEPT ![e] = @ \o l]
  BY DEF ProcessChannels
<1> HIDE DEF answer
<1>8. offer.context \in Context /\ offer.sent \in Seq(NegotiationContents)
  BY <1>6, OfferType
<1> HIDE DEF offer
<1>9. sent \in Seq(NegotiationContents)
  BY <1>6, <1>8
<1> HIDE DEF sent
<1>10. l \in Seq(Messages)
  BY <1>9, AllOfType
<1>11. t \in NetworkTasks
  BY <1>8, CoordinatedType DEF Apply, NetworkTasks, Applications
<1> HIDE DEF t
<1>12. a \in End
  BY <1>2, <1>11, PostType
<1>13. c \in Context /\ b \in BOOLEAN
  BY <1>8
<1> HIDE DEF a, c, b, l
<1>14. d \in End
  BY <1>12, <1>13 DEF End
<1> HIDE DEF d
<1>15. log' \in [Ends -> Seq(Messages)]
  BY <1>1, <1>7, <1>10 DEF Types
<1>16. history' \in History
  BY <1>1, HandledType
<1> QED  BY <1>1, <1>7, <1>14, <1>15, <1>16, TypesKept DEF ProcessChannels, Types

LEMMA PeerType == \A e \in Ends : Peer(e) \in Ends /\ Peer(e) # e /\ Peer(Peer(e)) = e
BY DEF Peer, Ends

LEMMA ProcessMediaTypes ==
  ASSUME Types, NEW e \in Ends, ProcessMedia(e)
  PROVE  Types'
<1> DEFINE v == Head(ends[e].signaling).value
<1>1. ends[e].signaling # <<>> /\ Head(ends[e].signaling).type = "media"
  BY DEF ProcessMedia, Signaling
<1>2. Rest(e) \in End /\ Head(ends[e].signaling) \in SignalingTasks
  BY <1>1, RestType
<1>3. v \in Nat
  BY <1>1, <1>2, TaskOfType DEF MediaStates
<1>4. /\ ends' = [ends EXCEPT ![e] = Rest(e)]
      /\ media' = [media EXCEPT ![Peer(e)].known = v]
  BY DEF ProcessMedia
<1> HIDE DEF v
<1>5. media' \in [Ends -> Media]
  BY <1>3, <1>4, PeerType DEF Types, Media
<1> QED  BY <1>2, <1>4, <1>5, TypesKept DEF ProcessMedia, Types

LEMMA GatherTypes ==
  ASSUME Types, NEW e \in Ends, Gather(e)
  PROVE  Types'
<1> DEFINE t == Candidate(ends[e].gathered + 1)
           a == PostSignaling(ends[e], t)
           n == ends[e].gathered + 1
           d == [a EXCEPT !.gathered = n]
<1>1. ends[e] \in End /\ n \in Nat
  BY DEF Types, End
<1>2. t \in SignalingTasks
  BY <1>1 DEF Candidate, SignalingTasks, Candidates
<1>3. a \in End
  BY <1>1, <1>2, PostSignalingType
<1>4. a.gathered = ends[e].gathered
  BY <1>1 DEF PostSignaling, End
<1>5. ends' = [ends EXCEPT ![e] = [a EXCEPT !.gathered = @ + 1]]
  BY DEF Gather
<1> HIDE DEF a, t
<1>6. ends' = [ends EXCEPT ![e] = d]
  BY <1>1, <1>4, <1>5
<1> HIDE DEF n
<1>7. d \in End
  BY <1>1, <1>3 DEF End
<1> HIDE DEF d
<1> QED  BY <1>6, <1>7, TypesKept DEF Gather, Types

LEMMA ReadParametersTypes ==
  ASSUME Types, NEW e \in Ends, ReadParameters(e)
  PROVE  Types'
<1> DEFINE d == PostSignaling(Ran(e), Setup)
<1>1. ends[e].network # <<>> /\ Setup \in SignalingTasks
  BY DEF ReadParameters, Network, SignalingTasks
<1>2. d \in End
  BY <1>1, RanType, PostSignalingType
<1>3. ends' = [ends EXCEPT ![e] = d]
  BY DEF ReadParameters
<1> HIDE DEF d
<1> QED  BY <1>2, <1>3, TypesKept DEF ReadParameters, Types

LEMMA SetRemoteParamsTypes ==
  ASSUME Types, NEW e \in Ends, SetRemoteParams(e)
  PROVE  Types'
<1> DEFINE b == TRUE
           d == [Ran(e) EXCEPT !.remote = b]
<1>1. Ran(e) \in End /\ b \in BOOLEAN
  BY RanType DEF SetRemoteParams, Network
<1>2. ends' = [ends EXCEPT ![e] = d]
  BY DEF SetRemoteParams
<1> HIDE DEF b
<1>3. d \in End
  BY <1>1 DEF End
<1> HIDE DEF d
<1> QED  BY <1>2, <1>3, TypesKept DEF SetRemoteParams, Types

LEMMA AddRemoteCandidateTypes ==
  ASSUME Types, NEW e \in Ends, AddRemoteCandidate(e)
  PROVE  Types'
<1> DEFINE s == ends[e].added \cup {Subject(e).candidate}
           d == [Ran(e) EXCEPT !.added = s]
<1>1. /\ Ran(e) \in End /\ Subject(e) \in NetworkTasks /\ Subject(e).type = "candidate"
      /\ ends[e] \in End
  BY RanType DEF AddRemoteCandidate, Network, Subject, Types
<1>2. Subject(e).candidate \in Nat
  BY <1>1, TaskOfType DEF Candidates
<1>3. s \in SUBSET Nat
  BY <1>1, <1>2 DEF End
<1>4. Ran(e).added = ends[e].added
  BY <1>1 DEF Ran, End
<1>5. ends' = [ends EXCEPT ![e] = d]
  BY <1>4 DEF AddRemoteCandidate
<1> HIDE DEF s
<1>6. d \in End
  BY <1>1, <1>3 DEF End
<1> HIDE DEF d
<1> QED  BY <1>5, <1>6, TypesKept DEF AddRemoteCandidate, Types

LEMMA ApplyChannelsTypes ==
  ASSUME Types, NEW e \in Ends, ApplyChannels(e)
  PROVE  Types'
<1> DEFINE b == FALSE
           o == ends[e].outgoing \cup Subject(e).state.outgoing
           i == Subject(e).state.incoming \ Subject(e).state.outgoing
           d == [Ran(e) EXCEPT !.blocked = b, !.outgoing = o, !.incoming = i]
<1>1. /\ Ran(e) \in End /\ Subject(e) \in NetworkTasks /\ Subject(e).type = "channels"
      /\ ends[e] \in End
  BY RanType DEF ApplyChannels, Network, Subject, Types
<1>2. Subject(e).state \in Coordinated
  BY <1>1, TaskOfType DEF Applications
<1>3. o \in SUBSET Track /\ i \in SUBSET Track /\ b \in BOOLEAN
  BY <1>1, <1>2 DEF End, Coordinated
<1>4. Ran(e).outgoing = ends[e].outgoing
  BY <1>1 DEF Ran, End
<1>5. ends' = [ends EXCEPT ![e] = d]
  BY <1>4 DEF ApplyChannels
<1> HIDE DEF o, i, b
<1>6. d \in End
  BY <1>1, <1>3 DEF End
<1> HIDE DEF d
<1> QED  BY <1>5, <1>6, TypesKept DEF ApplyChannels, Types

LEMMA SendOnChannelTypes ==
  ASSUME Types, NEW e \in Ends, SendOnChannel(e)
  PROVE  Types'
<1> DEFINE v == Subject(e).value
           w == Append(media[e].wire, v)
           m == [media[e] EXCEPT !.wire = w]
<1>1. /\ Ran(e) \in End /\ Subject(e) \in NetworkTasks /\ Subject(e).type = "media"
      /\ media[e] \in Media
  BY RanType DEF SendOnChannel, Network, Subject, Types
<1>2. v \in Nat
  BY <1>1, TaskOfType DEF MediaStates
<1>3. ends' = [ends EXCEPT ![e] = Ran(e)] /\ media' = [media EXCEPT ![e] = m]
  BY DEF SendOnChannel, Types
<1> HIDE DEF v
<1>4. w \in Seq(Nat)
  BY <1>1, <1>2 DEF Media
<1> HIDE DEF w
<1>5. m \in Media
  BY <1>1, <1>4 DEF Media
<1> HIDE DEF m
<1>6. media' \in [Ends -> Media]
  BY <1>3, <1>5 DEF Types
<1> QED  BY <1>1, <1>3, <1>6, TypesKept DEF SendOnChannel, Types

LEMMA OpenTypes ==
  ASSUME Types, NEW e \in Ends, Open(e)
  PROVE  Types'
<1> DEFINE b == TRUE
           d == [ends[e] EXCEPT !.open = b]
           s == <<media[e].now>>
<1>1. ends[e] \in End /\ b \in BOOLEAN /\ s \in Seq(Nat)
  BY DEF Types, Media
<1>2. ends' = [ends EXCEPT ![e] = d] /\ media' = [media EXCEPT ![e].opening = s]
  BY DEF Open
<1> HIDE DEF b, s
<1>3. d \in End
  BY <1>1 DEF End
<1> HIDE DEF d
<1>4. media' \in [Ends -> Media]
  BY <1>1, <1>2 DEF Types, Media
<1> QED  BY <1>2, <1>3, <1>4, TypesKept DEF Open, Types

LEMMA OpenedTypes ==
  ASSUME Types, NEW e \in Ends, Opened(e)
  PROVE  Types'
<1> DEFINE t == MediaState(media[e].opening[1])
           d == Post(ends[e], t)
           s == <<>>
<1>1. ends[e] \in End /\ s \in Seq(Nat) /\ media[e].opening \in Seq(Nat) /\ media[e].opening # <<>>
  BY DEF Types, Media, Opened
<1>2. media[e].opening[1] \in Nat
  BY <1>1
<1>3. t \in NetworkTasks
  BY <1>2 DEF MediaState, NetworkTasks, MediaStates
<1>4. d \in End
  BY <1>1, <1>3, PostType
<1>5. ends' = [ends EXCEPT ![e] = d] /\ media' = [media EXCEPT ![e].opening = s]
  BY DEF Opened
<1> HIDE DEF d, s
<1>6. media' \in [Ends -> Media]
  BY <1>1, <1>5 DEF Types, Media
<1> QED  BY <1>4, <1>5, <1>6, TypesKept DEF Opened, Types

LEMMA HearTypes ==
  ASSUME Types, NEW e \in Ends, Hear(e)
  PROVE  Types'
<1> DEFINE w == media[Peer(e)].wire
           t == MediaState(Head(w))
           d == PostSignaling(ends[e], t)
           s == Tail(w)
<1>1. ends[e] \in End /\ w \in Seq(Nat) /\ w # <<>>
  BY PeerType DEF Types, Media, Hear
<1>2. Head(w) \in Nat /\ s \in Seq(Nat)
  BY <1>1
<1>3. t \in SignalingTasks
  BY <1>2 DEF MediaState, SignalingTasks, MediaStates
<1>4. d \in End
  BY <1>1, <1>3, PostSignalingType
<1>5. ends' = [ends EXCEPT ![e] = d] /\ media' = [media EXCEPT ![Peer(e)].wire = s]
  BY DEF Hear
<1>6. Peer(e) \in Ends
  BY PeerType
<1> DEFINE m == [media[Peer(e)] EXCEPT !.wire = s]
<1> HIDE DEF d, s, t, w
<1>7. m \in Media
  BY <1>2, <1>6 DEF Types, Media
<1>8. media' = [media EXCEPT ![Peer(e)] = m]
  BY <1>5, <1>6 DEF Types
<1> HIDE DEF m
<1>9. media' \in [Ends -> Media]
  BY <1>6, <1>7, <1>8 DEF Types
<1> QED  BY <1>4, <1>5, <1>9, TypesKept DEF Hear, Types

\* The ends stay as they are.
LEMMA ChangeTypes ==
  ASSUME Types, NEW e \in Ends, Change(e)
  PROVE  Types'
<1>1. media' = [media EXCEPT ![e].now = @ + 1, ![e].task = TRUE]
  BY DEF Change
<1> DEFINE n == media[e].now + 1
           b == TRUE
           m == [media[e] EXCEPT !.now = n, !.task = b]
<1>2. media' = [media EXCEPT ![e] = m]
  BY <1>1 DEF Types
<1>3. n \in Nat /\ b \in BOOLEAN /\ media[e] \in Media
  BY DEF Types, Media
<1> HIDE DEF n, b
<1>4. m \in Media
  BY <1>3 DEF Media
<1> HIDE DEF m
<1> QED  BY <1>2, <1>4 DEF Change, Types

LEMMA EmitTypes ==
  ASSUME Types, NEW e \in Ends, Emit(e)
  PROVE  Types'
<1> DEFINE s == <<media[e].now>>
           b == FALSE
           m == [media[e] EXCEPT !.task = b, !.worker = s]
<1>1. media[e] \in Media /\ s \in Seq(Nat) /\ b \in BOOLEAN
  BY DEF Types, Media
<1>2. media' = [media EXCEPT ![e] = m]
  BY DEF Types, Emit
<1> HIDE DEF s, b
<1>3. m \in Media
  BY <1>1 DEF Media
<1> HIDE DEF m
<1> QED  BY <1>2, <1>3 DEF Emit, Types

LEMMA SendMediaStateTypes ==
  ASSUME Types, NEW e \in Ends, SendMediaState(e)
  PROVE  Types'
<1> DEFINE t == MediaState(media[e].worker[1])
           d == IF ends[e].open THEN Post(ends[e], t) ELSE ends[e]
           s == <<>>
           c == IF media[e].opening # <<>> THEN history.crossed \cup {e} ELSE history.crossed
<1>1. /\ ends[e] \in End /\ s \in Seq(Nat) /\ media[e].worker \in Seq(Nat)
      /\ media[e].worker # <<>>
  BY DEF Types, Media, SendMediaState
<1>2. media[e].worker[1] \in Nat
  BY <1>1
<1>3. t \in NetworkTasks
  BY <1>2 DEF MediaState, NetworkTasks, MediaStates
<1>4. d \in End
  BY <1>1, <1>3, PostType
<1>5. /\ ends' = [ends EXCEPT ![e] = d]
      /\ media' = [media EXCEPT ![e].worker = s]
      /\ history' = [history EXCEPT !.crossed = c]
  BY DEF SendMediaState, Types
<1>6. c \in SUBSET Ends
  BY DEF Types, History
<1> HIDE DEF d, s, c
<1>7. media' \in [Ends -> Media]
  BY <1>1, <1>5 DEF Types, Media
<1>8. history' \in History
  BY <1>5, <1>6 DEF Types, History
<1> QED  BY <1>4, <1>5, <1>7, <1>8, TypesKept DEF SendMediaState, Types

LEMMA TypesStep ==
  ASSUME TypeOK, [Next]_vars
  PROVE  Types'
<1>1. CASE UNCHANGED vars
  BY <1>1 DEF vars, TypeOK, Types
<1>2. CASE Next
  <2>1. PICK e \in Ends :
          \/ Connect(e) \/ Application(e) \/ Deliver(e) \/ Repeat(e)
          \/ SignalingThread(e) \/ Gather(e) \/ NetworkThread(e) \/ Open(e) \/ Hear(e)
          \/ Change(e) \/ Worker(e)
    BY <1>2 DEF Next
  <2>2. Types
    BY DEF TypeOK
  <2>3. CASE Connect(e) \/ Application(e) \/ Deliver(e) \/ Repeat(e)
    BY <2>2, <2>3, ConnectTypes, StartTypes, FlushTypes, DeliverTypes, RepeatTypes
       DEF Application
  <2>4. CASE SignalingThread(e)
    BY <2>2, <2>4, SendTypes, ProcessSetupTypes, ProcessCandidateTypes,
       ProcessChannelsTypes, ProcessMediaTypes DEF SignalingThread
  <2>5. CASE NetworkThread(e)
    BY <2>2, <2>5, ReadParametersTypes, SetRemoteParamsTypes, AddRemoteCandidateTypes,
       ApplyChannelsTypes, SendOnChannelTypes, OpenedTypes DEF NetworkThread
  <2>6. CASE Gather(e) \/ Open(e) \/ Hear(e) \/ Change(e) \/ Worker(e)
    BY <2>2, <2>6, GatherTypes, OpenTypes, HearTypes, ChangeTypes, EmitTypes,
       SendMediaStateTypes DEF Worker
  <2> QED  BY <2>1, <2>3, <2>4, <2>5, <2>6
<1> QED  BY <1>1, <1>2

-----------------------------------------------------------------------------
(* Queues.                                                                  *)

Tasks == SignalingTasks \cup NetworkTasks

\* No task of that type.
Silent(q, type) == \A i \in DOMAIN q : q[i].type # type

LEMMA TaskQueue == \A q : q \in Seq(SignalingTasks) \/ q \in Seq(NetworkTasks) => q \in Seq(Tasks)
BY DEF Tasks

LEMMA Concatenated ==
  ASSUME NEW q \in Seq(Tasks), NEW r \in Seq(Tasks)
  PROVE  /\ q \o r \in Seq(Tasks)
         /\ Len(q \o r) = Len(q) + Len(r) /\ Len(q) \in Nat /\ Len(r) \in Nat
         /\ DOMAIN q = 1 .. Len(q) /\ DOMAIN r = 1 .. Len(r)
         /\ DOMAIN (q \o r) = 1 .. Len(q \o r)
         /\ \A i \in 1 .. Len(q) : (q \o r)[i] = q[i]
         /\ \A i \in 1 .. Len(r) : (q \o r)[Len(q) + i] = r[i]
OBVIOUS

LEMMA Appended ==
  \A q \in Seq(Tasks) : \A t \in Tasks :
    <<t>> \in Seq(Tasks) /\ Append(q, t) = q \o <<t>> /\ Append(q, t) \in Seq(Tasks)
OBVIOUS

-----------------------------------------------------------------------------
(* The order of the messages.                                               *)

\* The n-th message is handled, or waits in front of the i-th task.
Known(q, top, n, i) == n <= top \/ \E j \in 1 .. i - 1 : q[j] = Handle(n)

\* Of an end that was handed g messages, the newest of which that is handled is top:
\* what waits for connect are all of them in their order; afterwards every one is
\* handled or waits, and not before an older one that is not handled.
InOrder(end, g, top) ==
  IF end.buffering
  THEN /\ end.early = [i \in 1 .. g |-> i]
       /\ top = 0
       /\ Silent(end.signaling, "message")
  ELSE /\ end.early = <<>>
       /\ \A n \in 1 .. g : Known(end.signaling, top, n, Len(end.signaling) + 1)
       /\ \A i \in DOMAIN end.signaling :
            end.signaling[i].type = "message" =>
              /\ end.signaling[i].number \in 1 .. g
              /\ \A n \in 1 .. end.signaling[i].number - 1 : Known(end.signaling, top, n, i)

KeptInOrder == \A e \in Ends : InOrder(ends[e], got[e], history.top[e])

LEMMA KnownAppended ==
  ASSUME NEW q \in Seq(Tasks), NEW r \in Seq(Tasks), NEW top \in Nat, NEW n \in Nat,
         NEW i \in 1 .. Len(q) + 1, Known(q, top, n, i), NEW k \in Nat, i <= k
  PROVE  Known(q \o r, top, n, k)
<1>1. CASE n <= top
  BY <1>1 DEF Known
<1>2. CASE \E j \in 1 .. i - 1 : q[j] = Handle(n)
  <2>1. PICK j \in 1 .. i - 1 : q[j] = Handle(n)
    BY <1>2
  <2>2. j \in 1 .. Len(q) /\ j \in 1 .. k - 1
    OBVIOUS
  <2>3. (q \o r)[j] = q[j]
    BY <2>2
  <2> QED  BY <2>1, <2>2, <2>3 DEF Known
<1> QED  BY <1>1, <1>2 DEF Known

LEMMA KnownTail ==
  ASSUME NEW q \in Seq(Tasks), q # <<>>, NEW top \in Nat, NEW n \in Nat, NEW m \in Nat,
         NEW i \in 2 .. Len(q) + 1, Known(q, top, n, i), top <= m,
         Head(q) = Handle(n) => n <= m
  PROVE  Known(Tail(q), m, n, i - 1)
<1>1. CASE n <= top
  BY <1>1 DEF Known
<1>2. CASE \E j \in 1 .. i - 1 : q[j] = Handle(n)
  <2>1. PICK j \in 1 .. i - 1 : q[j] = Handle(n)
    BY <1>2
  <2>2. CASE j = 1
    BY <2>1, <2>2 DEF Known
  <2>3. CASE j # 1
    <3>1. j - 1 \in 1 .. (i - 1) - 1 /\ j - 1 \in 1 .. Len(q) - 1
      BY <2>3
    <3>2. Tail(q)[j - 1] = q[j]
      BY <3>1
    <3> QED  BY <2>1, <3>1, <3>2 DEF Known
  <2> QED  BY <2>2, <2>3
<1> QED  BY <1>1, <1>2 DEF Known

\* The first task is handled, a message or another.
LEMMA InOrderRun ==
  ASSUME NEW a \in End, NEW d \in End, NEW g \in Nat, NEW top \in Nat, NEW m \in Nat,
         InOrder(a, g, top), a.signaling # <<>>, d.signaling = Tail(a.signaling),
         d.buffering = a.buffering, d.early = a.early, top <= m,
         IF Head(a.signaling).type = "message"
         THEN m = IF Head(a.signaling).number > top THEN Head(a.signaling).number ELSE top
         ELSE m = top
  PROVE  InOrder(d, g, m) /\ m <= top + 1
<1> DEFINE q == a.signaling
           p == d.signaling
<1>1. q \in Seq(SignalingTasks) /\ q \in Seq(Tasks) /\ q # <<>> /\ p = Tail(q)
  BY TaskQueue DEF End
<1>2. Len(p) = Len(q) - 1 /\ Len(q) \in Nat \ {0} /\ DOMAIN p = 1 .. Len(p)
      /\ DOMAIN q = 1 .. Len(q)
  BY <1>1
<1>3. \A i \in DOMAIN p : p[i] = q[i + 1] /\ i + 1 \in DOMAIN q
  BY <1>1, <1>2
<1>4. Head(q) = q[1] /\ 1 \in DOMAIN q /\ Head(q) \in SignalingTasks
  BY <1>1, <1>2
<1>5. CASE a.buffering
  <2>1. Head(q).type # "message"
    BY <1>4, <1>5 DEF InOrder, Silent
  <2>2. Silent(p, "message")
    BY <1>3, <1>5 DEF InOrder, Silent
  <2> QED  BY <1>5, <2>1, <2>2 DEF InOrder
<1>6. CASE ~ a.buffering
  <2>1. \A i \in DOMAIN q : q[i].type = "message" =>
             /\ q[i].number \in 1 .. g
             /\ \A n \in 1 .. q[i].number - 1 : Known(q, top, n, i)
    BY <1>6 DEF InOrder
  <2>2. \A n \in 1 .. g : Known(q, top, n, Len(q) + 1)
    BY <1>6 DEF InOrder
  <2>3. \A n \in Nat : Head(q) = Handle(n) => n <= m
    BY <1>4 DEF Handle
  <2>4. Head(q).type = "message" => Head(q).number <= top + 1
    <3> SUFFICES ASSUME Head(q).type = "message" PROVE Head(q).number <= top + 1
      OBVIOUS
    <3>1. Head(q).number \in 1 .. g
      BY <1>4, <2>1
    <3>2. \A n \in 1 .. Head(q).number - 1 : Known(q, top, n, 1)
      BY <1>4, <2>1
    <3>3. \A n \in 1 .. Head(q).number - 1 : n <= top
      BY <3>2 DEF Known
    <3> QED  BY <3>1, <3>3
  <2>5. \A n \in 1 .. g : Known(p, m, n, Len(p) + 1)
    <3> SUFFICES ASSUME NEW n \in 1 .. g PROVE Known(p, m, n, Len(p) + 1)
      OBVIOUS
    <3>1. Known(q, top, n, Len(q) + 1)
      BY <2>2
    <3>2. Len(q) + 1 \in 2 .. Len(q) + 1 /\ (Len(q) + 1) - 1 = Len(p) + 1
      BY <1>2
    <3>3. Known(Tail(q), m, n, (Len(q) + 1) - 1)
      BY <1>1, <2>3, <3>1, <3>2, KnownTail
    <3> QED  BY <1>1, <3>2, <3>3
  <2>6. ASSUME NEW i \in DOMAIN p, p[i].type = "message"
        PROVE  /\ p[i].number \in 1 .. g
               /\ \A n \in 1 .. p[i].number - 1 : Known(p, m, n, i)
    <3>1. p[i] = q[i + 1] /\ i + 1 \in DOMAIN q
      BY <1>3
    <3>2. /\ q[i + 1].number \in 1 .. g
          /\ \A n \in 1 .. q[i + 1].number - 1 : Known(q, top, n, i + 1)
      BY <2>1, <2>6, <3>1
    <3>3. ASSUME NEW n \in 1 .. p[i].number - 1 PROVE Known(p, m, n, i)
      <4>1. n \in Nat /\ Known(q, top, n, i + 1)
        BY <3>1, <3>2
      <4>2. i + 1 \in 2 .. Len(q) + 1 /\ (i + 1) - 1 = i
        BY <1>2
      <4>3. Known(Tail(q), m, n, (i + 1) - 1)
        BY <1>1, <2>3, <4>1, <4>2, KnownTail
      <4> QED  BY <1>1, <4>2, <4>3
    <3> QED  BY <3>1, <3>2, <3>3
  <2>7. InOrder(d, g, m)
    BY <1>6, <2>5, <2>6 DEF InOrder
  <2> QED  BY <2>4, <2>7
<1> QED  BY <1>5, <1>6

\* Other tasks are posted.
LEMMA InOrderPosted ==
  ASSUME NEW a \in End, NEW d \in End, NEW g \in Nat, NEW top \in Nat, InOrder(a, g, top),
         NEW r \in Seq(Tasks), Silent(r, "message"), d.signaling = a.signaling \o r,
         d.buffering = a.buffering, d.early = a.early
  PROVE  InOrder(d, g, top)
<1> DEFINE q == a.signaling
           p == d.signaling
<1>1. q \in Seq(Tasks) /\ p = q \o r
  BY TaskQueue DEF End
<1>2. /\ Len(p) = Len(q) + Len(r) /\ Len(q) \in Nat /\ Len(r) \in Nat
      /\ DOMAIN p = 1 .. Len(p) /\ DOMAIN q = 1 .. Len(q) /\ DOMAIN r = 1 .. Len(r)
  BY <1>1
<1>3. \A i \in DOMAIN p : p[i].type = "message" => i \in DOMAIN q /\ p[i] = q[i]
  <2> SUFFICES ASSUME NEW i \in DOMAIN p, p[i].type = "message"
               PROVE  i \in DOMAIN q /\ p[i] = q[i]
    OBVIOUS
  <2>1. CASE i \in DOMAIN q
    BY <1>1, <1>2, <2>1
  <2>2. CASE i \notin DOMAIN q
    <3>1. i - Len(q) \in DOMAIN r
      BY <1>2, <2>2
    <3>2. p[i] = r[i - Len(q)]
      BY <1>1, <1>2, <2>2
    <3> QED  BY <3>1, <3>2 DEF Silent
  <2> QED  BY <2>1, <2>2
<1>4. CASE a.buffering
  <2>1. Silent(p, "message")
    BY <1>3, <1>4 DEF Silent, InOrder
  <2> QED  BY <1>4, <2>1 DEF InOrder
<1>5. CASE ~ a.buffering
  <2>1. \A i \in DOMAIN q : q[i].type = "message" =>
             /\ q[i].number \in 1 .. g
             /\ \A n \in 1 .. q[i].number - 1 : Known(q, top, n, i)
    BY <1>5 DEF InOrder
  <2>2. \A n \in 1 .. g : Known(q, top, n, Len(q) + 1)
    BY <1>5 DEF InOrder
  <2>3. \A n \in 1 .. g : Known(p, top, n, Len(p) + 1)
    <3> SUFFICES ASSUME NEW n \in 1 .. g PROVE Known(p, top, n, Len(p) + 1)
      OBVIOUS
    <3>1. Known(q, top, n, Len(q) + 1)
      BY <2>2
    <3>2. Len(q) + 1 \in 1 .. Len(q) + 1 /\ Len(q) + 1 <= Len(p) + 1 /\ Len(p) + 1 \in Nat
      BY <1>2
    <3>3. Known(q \o r, top, n, Len(p) + 1)
      BY <1>1, <3>1, <3>2, KnownAppended
    <3> QED  BY <1>1, <3>3
  <2>4. ASSUME NEW i \in DOMAIN p, p[i].type = "message"
        PROVE  /\ p[i].number \in 1 .. g
               /\ \A n \in 1 .. p[i].number - 1 : Known(p, top, n, i)
    <3>1. i \in DOMAIN q /\ p[i] = q[i]
      BY <1>3, <2>4
    <3>2. /\ q[i].number \in 1 .. g
          /\ \A n \in 1 .. q[i].number - 1 : Known(q, top, n, i)
      BY <2>1, <2>4, <3>1
    <3>3. ASSUME NEW n \in 1 .. p[i].number - 1 PROVE Known(p, top, n, i)
      <4>1. n \in Nat /\ Known(q, top, n, i)
        BY <3>1, <3>2
      <4>2. i \in 1 .. Len(q) + 1 /\ i \in Nat /\ i <= i
        BY <1>2, <3>1
      <4>3. Known(q \o r, top, n, i)
        BY <1>1, <4>1, <4>2, KnownAppended
      <4> QED  BY <1>1, <4>3
    <3> QED  BY <3>1, <3>2, <3>3
  <2> QED  BY <1>5, <2>3, <2>4 DEF InOrder
<1> QED  BY <1>4, <1>5

\* A message is posted, the next one or an older one.
LEMMA InOrderHanded ==
  ASSUME NEW a \in End, NEW d \in End, NEW g \in Nat, NEW top \in Nat, InOrder(a, g, top),
         ~ a.buffering, NEW n \in 1 .. g + 1, d.signaling = Append(a.signaling, Handle(n)),
         d.buffering = a.buffering, d.early = a.early
  PROVE  InOrder(d, IF n > g THEN n ELSE g, top)
<1> DEFINE q == a.signaling
           p == d.signaling
           r == <<Handle(n)>>
           h == IF n > g THEN n ELSE g
<1>1. Handle(n) \in Tasks
  BY DEF Handle, Tasks, SignalingTasks, Handlings
<1>b. q \in Seq(Tasks)
  BY TaskQueue DEF End
<1> HIDE DEF q
<1>a. \A t \in Tasks : <<t>> \in Seq(Tasks) /\ Append(q, t) = q \o <<t>>
  BY <1>b
<1>2. q \in Seq(Tasks) /\ r \in Seq(Tasks) /\ p = q \o r /\ Len(r) = 1 /\ r[1] = Handle(n)
  BY <1>b, <1>1, <1>a DEF q
<1> HIDE DEF p, r
<1>c. /\ Len(p) = Len(q) + Len(r) /\ Len(q) \in Nat /\ Len(r) \in Nat
      /\ DOMAIN p = 1 .. Len(p) /\ DOMAIN q = 1 .. Len(q)
      /\ \A i \in 1 .. Len(q) : p[i] = q[i]
      /\ \A i \in 1 .. Len(r) : p[Len(q) + i] = r[i]
  BY <1>2, Concatenated
<1>3. /\ Len(p) = Len(q) + 1 /\ Len(q) \in Nat
      /\ DOMAIN p = 1 .. Len(p) /\ DOMAIN q = 1 .. Len(q)
      /\ p[Len(p)] = Handle(n) /\ \A i \in DOMAIN q : p[i] = q[i]
  <2>1. 1 \in 1 .. Len(r) /\ Len(p) = Len(q) + 1
    BY <1>2, <1>c
  <2>2. p[Len(q) + 1] = r[1]
    BY <1>c, <2>1
  <2> QED  BY <1>2, <1>c, <2>1, <2>2
<1>4. \A i \in DOMAIN q : q[i].type = "message" =>
           /\ q[i].number \in 1 .. g
           /\ \A m \in 1 .. q[i].number - 1 : Known(q, top, m, i)
  BY DEF InOrder, q
<1>5. \A m \in 1 .. g : Known(q, top, m, Len(q) + 1)
  BY DEF InOrder, q
<1>6. \A m \in 1 .. g : Known(p, top, m, Len(p)) /\ Known(p, top, m, Len(p) + 1)
  <2> SUFFICES ASSUME NEW m \in 1 .. g
               PROVE  Known(p, top, m, Len(p)) /\ Known(p, top, m, Len(p) + 1)
    OBVIOUS
  <2>1. Known(q, top, m, Len(q) + 1)
    BY <1>5
  <2>2. /\ Len(q) + 1 \in 1 .. Len(q) + 1 /\ Len(q) + 1 <= Len(p) /\ Len(q) + 1 <= Len(p) + 1
        /\ Len(p) \in Nat /\ Len(p) + 1 \in Nat
    BY <1>3
  <2>3. Known(q \o r, top, m, Len(p))
    BY <1>2, <2>1, <2>2, KnownAppended
  <2>4. Known(p, top, m, Len(p)) => Known(p, top, m, Len(p) + 1)
    BY <1>3 DEF Known
  <2> QED  BY <1>2, <2>3, <2>4
<1>7. Known(p, top, n, Len(p) + 1)
  <2>1. Len(p) \in 1 .. (Len(p) + 1) - 1
    BY <1>3
  <2> QED  BY <1>3, <2>1 DEF Known
<1>8. \A m \in 1 .. h : Known(p, top, m, Len(p) + 1)
  <2>1. \A m \in 1 .. h : m = n \/ m \in 1 .. g
    OBVIOUS
  <2> QED  BY <1>6, <1>7, <2>1
<1>9. ASSUME NEW i \in DOMAIN p, p[i].type = "message"
      PROVE  /\ p[i].number \in 1 .. h
             /\ \A m \in 1 .. p[i].number - 1 : Known(p, top, m, i)
  <2>1. CASE i = Len(p)
    <3>1. p[i].number = n
      BY <1>3, <2>1 DEF Handle
    <3>2. \A m \in 1 .. n - 1 : m \in 1 .. g
      OBVIOUS
    <3> QED  BY <1>6, <2>1, <3>1, <3>2
  <2>2. CASE i # Len(p)
    <3>1. i \in DOMAIN q /\ p[i] = q[i]
      BY <1>3, <2>2
    <3>2. /\ q[i].number \in 1 .. g
          /\ \A m \in 1 .. q[i].number - 1 : Known(q, top, m, i)
      BY <1>4, <1>9, <3>1
    <3>3. ASSUME NEW m \in 1 .. p[i].number - 1 PROVE Known(p, top, m, i)
      <4>1. m \in Nat /\ Known(q, top, m, i)
        BY <3>1, <3>2
      <4>2. i \in 1 .. Len(q) + 1 /\ i \in Nat /\ i <= i
        BY <1>3, <3>1
      <4>3. Known(q \o r, top, m, i)
        BY <1>2, <4>1, <4>2, KnownAppended
      <4> QED  BY <1>2, <4>3
    <3> QED  BY <3>1, <3>2, <3>3
  <2> QED  BY <2>1, <2>2
<1> QED  BY <1>8, <1>9 DEF InOrder, p

\* What was kept for connect is posted.
LEMMA InOrderFlushed ==
  ASSUME NEW a \in End, NEW d \in End, NEW g \in Nat, NEW top \in Nat, InOrder(a, g, top),
         d.signaling = a.signaling \o [i \in DOMAIN a.early |-> Handle(a.early[i])],
         ~ d.buffering, d.early = <<>>
  PROVE  InOrder(d, g, top)
<1> DEFINE q == a.signaling
           p == d.signaling
           r == [i \in DOMAIN a.early |-> Handle(a.early[i])]
<1>1. CASE a.buffering
  <2>1. a.early = [i \in 1 .. g |-> i] /\ Silent(q, "message") /\ top = 0
    BY <1>1 DEF InOrder
  <2>2. r = [i \in 1 .. g |-> Handle(i)]
    BY <2>1
  <2>3. \A i \in 1 .. g : Handle(i) \in Tasks
    BY DEF Handle, Tasks, SignalingTasks, Handlings
  <2>a. q \in Seq(Tasks)
    BY TaskQueue DEF End
  <2>b. p = q \o r
    OBVIOUS
  <2> HIDE DEF p, q, r
  <2>c. r \in Seq(Tasks) /\ Len(r) = g
    BY <2>2, <2>3
  <2>4. q \in Seq(Tasks) /\ r \in Seq(Tasks) /\ Len(r) = g /\ p = q \o r
    BY <2>a, <2>b, <2>c
  <2>d. /\ Len(p) = Len(q) + Len(r) /\ Len(q) \in Nat /\ Len(r) \in Nat
        /\ DOMAIN p = 1 .. Len(p) /\ DOMAIN q = 1 .. Len(q)
        /\ \A i \in 1 .. Len(q) : p[i] = q[i]
        /\ \A i \in 1 .. Len(r) : p[Len(q) + i] = r[i]
    BY <2>4, Concatenated
  <2>5. /\ Len(p) = Len(q) + g /\ Len(q) \in Nat /\ DOMAIN p = 1 .. Len(p)
        /\ DOMAIN q = 1 .. Len(q)
        /\ \A i \in DOMAIN q : p[i] = q[i]
    BY <2>4, <2>d
  <2>6. \A n \in 1 .. g : Len(q) + n \in 1 .. Len(p) /\ p[Len(q) + n] = Handle(n)
    <3> SUFFICES ASSUME NEW n \in 1 .. g
                 PROVE  Len(q) + n \in 1 .. Len(p) /\ p[Len(q) + n] = Handle(n)
      OBVIOUS
    <3>1. p[Len(q) + n] = r[n]
      BY <2>4, <2>d
    <3> QED  BY <2>2, <2>5, <3>1
  <2>7. \A n \in 1 .. g : \A i \in 1 .. Len(p) + 1 :
            Len(q) + n < i => Known(p, top, n, i)
    <3> SUFFICES ASSUME NEW n \in 1 .. g, NEW i \in 1 .. Len(p) + 1, Len(q) + n < i
                 PROVE  Known(p, top, n, i)
      OBVIOUS
    <3>1. Len(q) + n \in 1 .. i - 1
      BY <2>5
    <3> QED  BY <2>6, <3>1 DEF Known
  <2>8. \A n \in 1 .. g : Known(p, top, n, Len(p) + 1)
    BY <2>5, <2>7
  <2>9. ASSUME NEW i \in DOMAIN p, p[i].type = "message"
        PROVE  /\ p[i].number \in 1 .. g
               /\ \A n \in 1 .. p[i].number - 1 : Known(p, top, n, i)
    <3>1. i \notin DOMAIN q
      BY <2>1, <2>5, <2>9 DEF Silent
    <3>2. i - Len(q) \in 1 .. g /\ i = Len(q) + (i - Len(q))
      BY <2>5, <3>1
    <3>3. p[i] = Handle(i - Len(q))
      BY <2>6, <3>2
    <3>4. p[i].number = i - Len(q)
      BY <3>3 DEF Handle
    <3>5. \A n \in 1 .. p[i].number - 1 : n \in 1 .. g /\ Len(q) + n < i /\ i \in 1 .. Len(p) + 1
      BY <2>5, <3>2, <3>4
    <3> QED  BY <2>7, <3>2, <3>4, <3>5
  <2> QED  BY <2>8, <2>9 DEF InOrder, p
<1>2. CASE ~ a.buffering
  <2>1. a.early = <<>>
    BY <1>2 DEF InOrder
  <2>2. r = <<>>
    BY <2>1
  <2>3. q \in Seq(SignalingTasks) /\ p = q \o r
    BY DEF End
  <2> HIDE DEF p, q, r
  <2>4. p = q
    BY <2>2, <2>3
  <2> QED  BY <1>2, <2>1, <2>4 DEF InOrder, p, q
<1> QED  BY <1>1, <1>2

-----------------------------------------------------------------------------
(* What each action does to the queues of its end.                          *)

\* The end d is the end a but for what the network thread deals with, and its tasks
\* of the signaling thread are q.
Signals(a, d, q) == d.signaling = q /\ d.buffering = a.buffering /\ d.early = a.early

\* But for what the signaling thread deals with, and its tasks of the network thread
\* are q.
Transports(a, d, q) ==
  /\ d.network = q
  /\ d.handshake = a.handshake
  /\ d.remote = a.remote
  /\ d.added = a.added
  /\ d.open = a.open

LEMMA Others ==
  ASSUME Types, NEW e \in Ends, NEW d, ends' = [ends EXCEPT ![e] = d]
  PROVE  ends'[e] = d /\ \A x \in Ends \ {e} : ends'[x] = ends[x]
BY DEF Types

LEMMA PostKeeps ==
  ASSUME NEW a \in End, NEW t
  PROVE  LET d == Post(a, t) IN
           Signals(a, d, a.signaling) /\ Transports(a, d, Append(a.network, t))
BY DEF Post, Signals, Transports, End

LEMMA PostSignalingKeeps ==
  ASSUME NEW a \in End, NEW t
  PROVE  LET d == PostSignaling(a, t) IN
           Signals(a, d, Append(a.signaling, t)) /\ Transports(a, d, a.network)
BY DEF PostSignaling, Signals, Transports, End

LEMMA RestKeeps ==
  ASSUME Types, NEW e \in Ends
  PROVE  /\ Signals(ends[e], Rest(e), Tail(ends[e].signaling))
         /\ Transports(ends[e], Rest(e), ends[e].network)
BY DEF Rest, Signals, Transports, Types, End

LEMMA RanKeeps ==
  ASSUME Types, NEW e \in Ends
  PROVE  /\ Signals(ends[e], Ran(e), ends[e].signaling)
         /\ Transports(ends[e], Ran(e), Tail(ends[e].network))
BY DEF Ran, Signals, Transports, Types, End

LEMMA ConnectEffect ==
  ASSUME Types, NEW e \in Ends, Connect(e)
  PROVE  /\ Signals(ends[e], ends'[e], ends[e].signaling)
         /\ Transports(ends[e], ends'[e], ends[e].network)
         /\ \A x \in Ends \ {e} : ends'[x] = ends[x]
BY DEF Connect, Signals, Transports, Types, End

LEMMA StartEffect ==
  ASSUME Types, NEW e \in Ends, Start(e)
  PROVE  /\ Signals(ends[e], ends'[e], ends[e].signaling)
         /\ Transports(ends[e], ends'[e], Append(ends[e].network, Setup))
         /\ \A x \in Ends \ {e} : ends'[x] = ends[x]
BY DEF Start, SendInitialSetup, Post, Signals, Transports, Types, End

LEMMA FlushEffect ==
  ASSUME Types, NEW e \in Ends, Flush(e)
  PROVE  /\ ends'[e].signaling = ends[e].signaling \o
              [i \in DOMAIN ends[e].early |-> Handle(ends[e].early[i])]
         /\ ~ ends'[e].buffering
         /\ ends'[e].early = <<>>
         /\ Transports(ends[e], ends'[e], ends[e].network)
         /\ \A x \in Ends \ {e} : ends'[x] = ends[x]
BY DEF Flush, Transports, Types, End

LEMMA SendSignalingDataKeeps ==
  ASSUME NEW a \in End, NEW n
  PROVE  LET d == SendSignalingData(a, n) IN
           /\ Transports(a, d, a.network)
           /\ IF a.buffering
              THEN /\ d.early = Append(a.early, n)
                   /\ d.buffering /\ d.signaling = a.signaling
              ELSE Signals(a, d, Append(a.signaling, Handle(n)))
BY DEF SendSignalingData, PostSignaling, Signals, Transports, End

LEMMA SendEffect ==
  ASSUME Types, NEW e \in Ends, Send(e)
  PROVE  /\ Signals(ends[e], ends'[e], Tail(ends[e].signaling))
         /\ Transports(ends[e], ends'[e], ends[e].network)
         /\ \A x \in Ends \ {e} : ends'[x] = ends[x]
BY RestKeeps DEF Send, Types

LEMMA ProcessMediaEffect ==
  ASSUME Types, NEW e \in Ends, ProcessMedia(e)
  PROVE  /\ Signals(ends[e], ends'[e], Tail(ends[e].signaling))
         /\ Transports(ends[e], ends'[e], ends[e].network)
         /\ \A x \in Ends \ {e} : ends'[x] = ends[x]
BY RestKeeps DEF ProcessMedia, Types

\* The candidates that wait, as tasks.
Waiting(end) == [i \in DOMAIN end.waiting |-> Candidate(end.waiting[i])]

LEMMA ApplyPendingKeeps ==
  ASSUME NEW a \in End
  PROVE  /\ Signals(a, ApplyPending(a), a.signaling)
         /\ Transports(a, ApplyPending(a), a.network \o Waiting(a))
         /\ Waiting(a) \in Seq(Tasks)
         /\ \A i \in DOMAIN Waiting(a) : Waiting(a)[i].type = "candidate"
<1>1. Signals(a, ApplyPending(a), a.signaling)
  BY DEF ApplyPending, Signals, End
<1>2. Transports(a, ApplyPending(a), a.network \o Waiting(a))
  BY DEF ApplyPending, Transports, End, Waiting
<1>3. a.waiting \in Seq(Nat)
  BY DEF End
<1>4. \A n \in Nat : Candidate(n) \in Tasks /\ Candidate(n).type = "candidate"
  BY DEF Candidate, Tasks, SignalingTasks, Candidates
<1>5. DOMAIN a.waiting = 1 .. Len(a.waiting) /\ Len(a.waiting) \in Nat
      /\ \A i \in DOMAIN a.waiting : a.waiting[i] \in Nat
  BY <1>3
<1>6. Waiting(a) \in Seq(Tasks)
  BY <1>4, <1>5 DEF Waiting
<1>7. \A i \in DOMAIN Waiting(a) : Waiting(a)[i].type = "candidate"
  BY <1>4, <1>5 DEF Waiting
<1> QED  BY <1>1, <1>2, <1>6, <1>7

\* The steps of ProcessSetup: the parameters are to be set, the own are to be read and
\* the candidates to be added.
SetUp(a, d) ==
  \E taken, answered \in End :
    /\ Transports([a EXCEPT !.handshake = TRUE], taken, Append(a.network, Remote))
    /\ \/ answered = taken
       \/ Transports(taken, answered, Append(taken.network, Setup))
    /\ Transports(answered, d, answered.network \o Waiting(answered))

LEMMA ProcessSetupEffect ==
  ASSUME TypeOK, NEW e \in Ends, ProcessSetup(e)
  PROVE  /\ Signals(ends[e], ends'[e], Tail(ends[e].signaling))
         /\ SetUp(ends[e], ends'[e])
         /\ \A x \in Ends \ {e} : ends'[x] = ends[x]
<1> DEFINE rest == Rest(e)
           posted == Post(rest, Remote)
           b == TRUE
           taken == [posted EXCEPT !.handshake = b]
           answered == IF Outgoing(e) THEN taken ELSE SendInitialSetup(taken)
           d == ApplyPending(answered)
<1>1. Types /\ ends[e].signaling # <<>> /\ ends[e] \in End
  BY DEF ProcessSetup, Signaling, TypeOK, Types
<1>2. ends' = [ends EXCEPT ![e] = d]
  BY DEF ProcessSetup
<1>3. rest \in End
  BY <1>1, RestType
<1>4. /\ Signals(ends[e], rest, Tail(ends[e].signaling))
      /\ Transports(ends[e], rest, ends[e].network)
  BY <1>1, RestKeeps
<1>5. Remote \in NetworkTasks /\ Setup \in NetworkTasks /\ b \in BOOLEAN
  BY DEF NetworkTasks
<1> HIDE DEF rest
<1>6. /\ posted \in End
      /\ Signals(rest, posted, rest.signaling)
      /\ Transports(rest, posted, Append(rest.network, Remote))
  BY <1>3, <1>5, PostType, PostKeeps
<1> HIDE DEF posted
<1>7. /\ taken \in End
      /\ Signals(posted, taken, posted.signaling)
      /\ taken.handshake = b /\ taken.network = posted.network /\ taken.remote = posted.remote
      /\ taken.added = posted.added /\ taken.open = posted.open
  <2> HIDE DEF b
  <2> QED  BY <1>5, <1>6 DEF End, Signals
<1>8. Transports([ends[e] EXCEPT !.handshake = b], taken, Append(ends[e].network, Remote))
  <2>1. LET a == [ends[e] EXCEPT !.handshake = b] IN
          /\ a.handshake = b /\ a.remote = ends[e].remote /\ a.added = ends[e].added
          /\ a.open = ends[e].open
    BY <1>1 DEF End
  <2> QED  BY <1>4, <1>6, <1>7, <2>1 DEF Transports
<1> HIDE DEF taken
<1>9. /\ answered \in End
      /\ Signals(taken, answered, taken.signaling)
      /\ \/ answered = taken
         \/ Transports(taken, answered, Append(taken.network, Setup))
  <2>1. CASE Outgoing(e)
    BY <1>7, <2>1 DEF Signals
  <2>2. CASE ~ Outgoing(e)
    BY <1>5, <1>7, <2>2, PostType, PostKeeps DEF SendInitialSetup
  <2> QED  BY <2>1, <2>2
<1> HIDE DEF answered
<1>10. /\ Signals(answered, d, answered.signaling)
       /\ Transports(answered, d, answered.network \o Waiting(answered))
  BY <1>9, ApplyPendingKeeps
<1> HIDE DEF d
<1>11. ends'[e] = d /\ \A x \in Ends \ {e} : ends'[x] = ends[x]
  BY <1>1, <1>2, Others
<1>12. SetUp(ends[e], d)
  BY <1>7, <1>8, <1>9, <1>10 DEF SetUp, b
<1>13. Signals(ends[e], d, Tail(ends[e].signaling))
  BY <1>4, <1>6, <1>7, <1>9, <1>10 DEF Signals
<1> QED  BY <1>11, <1>12, <1>13

LEMMA ProcessCandidateEffect ==
  ASSUME TypeOK, NEW e \in Ends, ProcessCandidate(e)
  PROVE  /\ Signals(ends[e], ends'[e], Tail(ends[e].signaling))
         /\ \E r \in Seq(Tasks) :
              /\ Transports(ends[e], ends'[e], ends[e].network \o r)
              /\ \A i \in DOMAIN r : r[i].type = "candidate" /\ ends[e].handshake
         /\ \A x \in Ends \ {e} : ends'[x] = ends[x]
<1> DEFINE w == Append(ends[e].waiting, Received(e).candidate)
           rest == Rest(e)
           taken == [rest EXCEPT !.waiting = w]
           d == IF taken.handshake THEN ApplyPending(taken) ELSE taken
<1>1. /\ Types /\ ends[e].signaling # <<>> /\ ends[e] \in End
      /\ Signaling(e, "message") /\ Received(e).type = "candidate"
  BY DEF ProcessCandidate, Signaling, TypeOK, Types
<1>2. rest \in End /\ rest.waiting = ends[e].waiting
  BY <1>1, RestType DEF Rest, Types, End
<1>3. /\ Signals(ends[e], rest, Tail(ends[e].signaling))
      /\ Transports(ends[e], rest, ends[e].network)
  BY <1>1, RestKeeps
<1>4. Received(e) \in Messages
  BY <1>1, ReceivedType
<1>5. w \in Seq(Nat)
  BY <1>1, <1>4, TaskOfType DEF Candidates, End
<1>6. ends' = [ends EXCEPT ![e] = d]
  BY <1>2 DEF ProcessCandidate
<1> HIDE DEF w, rest
<1>7. /\ taken \in End
      /\ Signals(rest, taken, rest.signaling)
      /\ Transports(rest, taken, rest.network)
  BY <1>2, <1>5 DEF End, Signals, Transports
<1> HIDE DEF taken
<1>8. ends'[e] = d /\ \A x \in Ends \ {e} : ends'[x] = ends[x]
  BY <1>1, <1>6, Others
<1>9. CASE taken.handshake
  <2>1. /\ Signals(taken, d, taken.signaling)
        /\ Transports(taken, d, taken.network \o Waiting(taken))
        /\ Waiting(taken) \in Seq(Tasks)
        /\ \A i \in DOMAIN Waiting(taken) : Waiting(taken)[i].type = "candidate"
    BY <1>7, <1>9, ApplyPendingKeeps
  <2> HIDE DEF d
  <2>2. Signals(ends[e], d, Tail(ends[e].signaling))
    BY <1>3, <1>7, <2>1 DEF Signals
  <2>3. Transports(ends[e], d, ends[e].network \o Waiting(taken)) /\ ends[e].handshake
    BY <1>3, <1>7, <1>9, <2>1 DEF Transports
  <2> QED  BY <1>8, <2>1, <2>2, <2>3
<1>10. CASE ~ taken.handshake
  <2>1. d = taken
    BY <1>10
  <2>2. Signals(ends[e], d, Tail(ends[e].signaling))
    BY <1>3, <1>7, <2>1 DEF Signals
  <2>3. ends[e].network \in Seq(NetworkTasks)
    BY <1>1 DEF End
  <2>4. ends[e].network \o <<>> = ends[e].network
    BY <2>3
  <2>5. Transports(ends[e], d, ends[e].network \o <<>>)
    BY <1>3, <1>7, <2>1, <2>4 DEF Transports
  <2>6. <<>> \in Seq(Tasks) /\ \A i \in DOMAIN <<>> : FALSE
    OBVIOUS
  <2> HIDE DEF d
  <2> QED  BY <1>8, <2>2, <2>5, <2>6
<1> QED  BY <1>9, <1>10

LEMMA ProcessChannelsEffect ==
  ASSUME TypeOK, NEW e \in Ends, ProcessChannels(e)
  PROVE  /\ Signals(ends[e], ends'[e], Tail(ends[e].signaling))
         /\ \E t : t.type = "channels" /\
                   Transports(ends[e], ends'[e], Append(ends[e].network, t))
         /\ \A x \in Ends \ {e} : ends'[x] = ends[x]
<1> DEFINE answer == SetPendingAnswer(ends[e].context, Outgoing(e), Received(e).contents)
           offer == GetPendingOffer(answer.context, e)
           t == Apply(CoordinatedState(offer.context))
           rest == Rest(e)
           a == Post(rest, t)
           d == [a EXCEPT !.context = offer.context, !.blocked = TRUE]
<1>1. Types /\ ends[e].signaling # <<>> /\ ends[e] \in End
  BY DEF ProcessChannels, Signaling, TypeOK, Types
<1>2. rest \in End
  BY <1>1, RestType
<1>3. /\ Signals(ends[e], rest, Tail(ends[e].signaling))
      /\ Transports(ends[e], rest, ends[e].network)
  BY <1>1, RestKeeps
<1>4. ends' = [ends EXCEPT ![e] = d]
  BY DEF ProcessChannels
<1>5. t.type = "channels"
  BY DEF Apply
<1> HIDE DEF rest, t, offer
<1>6. Signals(rest, a, rest.signaling) /\ Transports(rest, a, Append(rest.network, t))
  BY <1>2, PostKeeps
<1>7. Signals(a, d, a.signaling) /\ Transports(a, d, a.network)
  BY <1>2 DEF Post, End, Signals, Transports
<1> HIDE DEF a, d
<1>8. ends'[e] = d /\ \A x \in Ends \ {e} : ends'[x] = ends[x]
  BY <1>1, <1>4, Others
<1>9. Signals(ends[e], d, Tail(ends[e].signaling))
  BY <1>3, <1>6, <1>7 DEF Signals
<1>10. Transports(ends[e], d, Append(ends[e].network, t))
  BY <1>3, <1>6, <1>7 DEF Transports
<1> QED  BY <1>5, <1>8, <1>9, <1>10

LEMMA GatherEffect ==
  ASSUME Types, NEW e \in Ends, Gather(e)
  PROVE  /\ \E t \in Candidates : Signals(ends[e], ends'[e], Append(ends[e].signaling, t))
         /\ Transports(ends[e], ends'[e], ends[e].network)
         /\ \A x \in Ends \ {e} : ends'[x] = ends[x]
<1> DEFINE t == Candidate(ends[e].gathered + 1)
           a == PostSignaling(ends[e], t)
           d == [a EXCEPT !.gathered = a.gathered + 1]
<1>1. ends[e] \in End
  BY DEF Types
<1>2. t \in Candidates
  BY <1>1 DEF End, Candidate, Candidates
<1>3. ends' = [ends EXCEPT ![e] = d]
  BY DEF Gather
<1> HIDE DEF t
<1>4. Signals(ends[e], a, Append(ends[e].signaling, t)) /\ Transports(ends[e], a, ends[e].network)
  BY <1>1, PostSignalingKeeps
<1>5. Signals(a, d, a.signaling) /\ Transports(a, d, a.network)
  BY <1>1 DEF PostSignaling, End, Signals, Transports
<1> HIDE DEF a, d
<1>6. ends'[e] = d /\ \A x \in Ends \ {e} : ends'[x] = ends[x]
  BY <1>3, Others
<1> QED  BY <1>2, <1>4, <1>5, <1>6 DEF Signals, Transports

LEMMA ReadParametersEffect ==
  ASSUME Types, NEW e \in Ends, ReadParameters(e)
  PROVE  /\ Signals(ends[e], ends'[e], Append(ends[e].signaling, Setup))
         /\ Transports(ends[e], ends'[e], Tail(ends[e].network))
         /\ \A x \in Ends \ {e} : ends'[x] = ends[x]
<1>1. Ran(e) \in End
  BY RanType DEF ReadParameters, Network
<1>2. ends' = [ends EXCEPT ![e] = PostSignaling(Ran(e), Setup)]
  BY DEF ReadParameters
<1>3. /\ ends'[e] = PostSignaling(Ran(e), Setup)
      /\ \A x \in Ends \ {e} : ends'[x] = ends[x]
  BY <1>2, Others
<1> QED  BY <1>1, <1>3, RanKeeps, PostSignalingKeeps DEF Signals, Transports

LEMMA SetRemoteParamsEffect ==
  ASSUME Types, NEW e \in Ends, SetRemoteParams(e)
  PROVE  /\ Signals(ends[e], ends'[e], ends[e].signaling)
         /\ Transports([ends[e] EXCEPT !.remote = TRUE], ends'[e], Tail(ends[e].network))
         /\ \A x \in Ends \ {e} : ends'[x] = ends[x]
BY DEF SetRemoteParams, Ran, Signals, Transports, Types, End

LEMMA AddRemoteCandidateEffect ==
  ASSUME Types, NEW e \in Ends, AddRemoteCandidate(e)
  PROVE  LET added == ends[e].added \cup {Subject(e).candidate} IN
         /\ Signals(ends[e], ends'[e], ends[e].signaling)
         /\ Transports([ends[e] EXCEPT !.added = added], ends'[e], Tail(ends[e].network))
         /\ \A x \in Ends \ {e} : ends'[x] = ends[x]
<1> DEFINE s == ends[e].added \cup {Subject(e).candidate}
           d == [Ran(e) EXCEPT !.added = s]
<1>1. ends[e] \in End /\ Ran(e) \in End /\ Ran(e).added = ends[e].added
  BY RanType DEF AddRemoteCandidate, Network, Types, Ran, End
<1>2. ends' = [ends EXCEPT ![e] = d]
  BY <1>1 DEF AddRemoteCandidate
<1> HIDE DEF s
<1>3. ends'[e] = d /\ \A x \in Ends \ {e} : ends'[x] = ends[x]
  BY <1>2, Others
<1>4. /\ Signals(Ran(e), d, Ran(e).signaling)
      /\ Transports([Ran(e) EXCEPT !.added = s], d, Ran(e).network)
  BY <1>1 DEF Signals, Transports, End
<1>5. Transports([ends[e] EXCEPT !.added = s], d, Ran(e).network)
  BY <1>1, <1>4, RanKeeps DEF Transports, End
<1> HIDE DEF d
<1> QED  BY <1>3, <1>4, <1>5, RanKeeps DEF Signals, Transports, s

LEMMA ApplyChannelsEffect ==
  ASSUME Types, NEW e \in Ends, ApplyChannels(e)
  PROVE  /\ Signals(ends[e], ends'[e], ends[e].signaling)
         /\ Transports(ends[e], ends'[e], Tail(ends[e].network))
         /\ \A x \in Ends \ {e} : ends'[x] = ends[x]
BY DEF ApplyChannels, Ran, Signals, Transports, Types, End

LEMMA SendOnChannelEffect ==
  ASSUME Types, NEW e \in Ends, SendOnChannel(e)
  PROVE  /\ Signals(ends[e], ends'[e], ends[e].signaling)
         /\ Transports(ends[e], ends'[e], Tail(ends[e].network))
         /\ \A x \in Ends \ {e} : ends'[x] = ends[x]
BY RanKeeps DEF SendOnChannel, Types

LEMMA OpenEffect ==
  ASSUME Types, NEW e \in Ends, Open(e)
  PROVE  /\ Signals(ends[e], ends'[e], ends[e].signaling)
         /\ Transports([ends[e] EXCEPT !.open = TRUE], ends'[e], ends[e].network)
         /\ \A x \in Ends \ {e} : ends'[x] = ends[x]
BY DEF Open, Signals, Transports, Types, End

LEMMA OpenedEffect ==
  ASSUME Types, NEW e \in Ends, Opened(e)
  PROVE  /\ Signals(ends[e], ends'[e], ends[e].signaling)
         /\ Transports(ends[e], ends'[e],
              Append(ends[e].network, MediaState(media[e].opening[1])))
         /\ \A x \in Ends \ {e} : ends'[x] = ends[x]
BY PostKeeps DEF Opened, Types

LEMMA HearEffect ==
  ASSUME Types, NEW e \in Ends, Hear(e)
  PROVE  /\ Signals(ends[e], ends'[e],
              Append(ends[e].signaling, MediaState(Head(media[Peer(e)].wire))))
         /\ Transports(ends[e], ends'[e], ends[e].network)
         /\ \A x \in Ends \ {e} : ends'[x] = ends[x]
BY PostSignalingKeeps DEF Hear, Types

LEMMA SendMediaStateEffect ==
  ASSUME Types, NEW e \in Ends, SendMediaState(e)
  PROVE  /\ Signals(ends[e], ends'[e], ends[e].signaling)
         /\ Transports(ends[e], ends'[e],
              IF ends[e].open
              THEN Append(ends[e].network, MediaState(media[e].worker[1]))
              ELSE ends[e].network)
         /\ \A x \in Ends \ {e} : ends'[x] = ends[x]
<1>1. CASE ends[e].open
  BY <1>1, PostKeeps DEF SendMediaState, Types
<1>2. CASE ~ ends[e].open
  BY <1>2 DEF SendMediaState, Signals, Transports
<1> QED  BY <1>1, <1>2

-----------------------------------------------------------------------------
(* Every action keeps the order of the messages.                            *)

\* The step of one end, which the others are not concerned by.
Advances(e) ==
  /\ InOrder(ends'[e], got'[e], history'.top[e])
  /\ history'.top[e] <= history.top[e] + 1

LEMMA Unmoved ==
  ASSUME Types, NEW e \in Ends, InOrder(ends[e], got[e], history.top[e]),
         Signals(ends[e], ends'[e], ends[e].signaling),
         UNCHANGED got, history'.top = history.top
  PROVE  Advances(e)
<1>1. history.top[e] \in Nat
  BY DEF Types, History
<1> QED  BY <1>1 DEF Advances, InOrder, Signals

LEMMA OtherPosted ==
  ASSUME Types, Types', NEW e \in Ends, InOrder(ends[e], got[e], history.top[e]),
         NEW t \in Tasks, t.type # "message",
         Signals(ends[e], ends'[e], Append(ends[e].signaling, t)),
         UNCHANGED got, history'.top = history.top
  PROVE  Advances(e)
<1>1. /\ history.top[e] \in Nat /\ got[e] \in Nat /\ ends[e] \in End /\ ends'[e] \in End
      /\ ends[e].signaling \in Seq(Tasks)
  BY TaskQueue DEF Types, History, End
<1>2. <<t>> \in Seq(Tasks) /\ Silent(<<t>>, "message")
  BY DEF Silent
<1>3. Append(ends[e].signaling, t) = ends[e].signaling \o <<t>>
  BY <1>1, Appended
<1>4. InOrder(ends'[e], got[e], history.top[e])
  BY <1>1, <1>2, <1>3, InOrderPosted DEF Signals
<1> QED  BY <1>1, <1>4 DEF Advances

LEMMA OtherRun ==
  ASSUME Types, Types', NEW e \in Ends, InOrder(ends[e], got[e], history.top[e]),
         ends[e].signaling # <<>>, Head(ends[e].signaling).type # "message",
         Signals(ends[e], ends'[e], Tail(ends[e].signaling)),
         UNCHANGED got, history'.top = history.top
  PROVE  Advances(e)
<1>1. history.top[e] \in Nat /\ got[e] \in Nat /\ ends[e] \in End /\ ends'[e] \in End
  BY DEF Types, History
<1>2. history.top[e] <= history.top[e]
  BY <1>1
<1>3. InOrder(ends'[e], got[e], history.top[e])
  BY <1>1, <1>2, InOrderRun DEF Signals
<1> QED  BY <1>1, <1>3 DEF Advances

LEMMA MessageRun ==
  ASSUME TypeOK, Types', NEW e \in Ends, InOrder(ends[e], got[e], history.top[e]),
         Signaling(e, "message"), history' = Handled(e),
         Signals(ends[e], ends'[e], Tail(ends[e].signaling)), UNCHANGED got
  PROVE  /\ Advances(e)
         /\ \A x \in Ends \ {e} : history'.top[x] = history.top[x]
<1> DEFINE m == IF Number(e) > history.top[e] THEN Number(e) ELSE history.top[e]
<1>1. /\ history.top[e] \in Nat /\ got[e] \in Nat /\ ends[e] \in End /\ ends'[e] \in End
      /\ history \in History /\ history.top \in [Ends -> Nat]
  BY DEF TypeOK, Types, History
<1>2. Number(e) \in 1 .. got[e]
  BY ReceivedType
<1>3. m \in Nat /\ history.top[e] <= m
  BY <1>1, <1>2
<1>4. history'.top = [history.top EXCEPT ![e] = m]
  BY <1>1 DEF Handled, History
<1>5. history'.top[e] = m /\ \A x \in Ends \ {e} : history'.top[x] = history.top[x]
  BY <1>1, <1>4
<1>6. ends[e].signaling # <<>> /\ Head(ends[e].signaling).type = "message"
  BY DEF Signaling
<1>7. m = IF Head(ends[e].signaling).number > history.top[e]
          THEN Head(ends[e].signaling).number ELSE history.top[e]
  BY DEF Number
<1> HIDE DEF m
<1>8. InOrder(ends'[e], got[e], m) /\ m <= history.top[e] + 1
  BY <1>1, <1>3, <1>6, <1>7, InOrderRun DEF Signals
<1> QED  BY <1>5, <1>8 DEF Advances

LEMMA DeliverAdvances ==
  ASSUME Types, Types', NEW e \in Ends, InOrder(ends[e], got[e], history.top[e]), Deliver(e)
  PROVE  Advances(e)
<1> DEFINE a == ends[e]
           g == got[e]
           top == history.top[e]
           d == SendSignalingData(a, g + 1)
<1>1. a \in End /\ g \in Nat /\ top \in Nat /\ ends'[e] \in End
  BY DEF Types, History
<1>2. ends'[e] = d /\ got'[e] = g + 1 /\ history'.top[e] = top
  BY DEF Deliver, Types
<1>3. IF a.buffering
      THEN /\ d.early = Append(a.early, g + 1)
           /\ d.buffering /\ d.signaling = a.signaling
      ELSE Signals(a, d, Append(a.signaling, Handle(g + 1)))
  BY <1>1, SendSignalingDataKeeps
<1>4. InOrder(a, g, top)
  OBVIOUS
<1> HIDE DEF d, a, g, top
<1>5. CASE a.buffering
  <2>1. a.early = [i \in 1 .. g |-> i] /\ top = 0 /\ Silent(a.signaling, "message")
    BY <1>4, <1>5 DEF InOrder
  <2>2. d.early = [i \in 1 .. g + 1 |-> i]
    BY <1>1, <1>3, <1>5, <2>1
  <2>3. InOrder(d, g + 1, top)
    BY <1>3, <1>5, <2>1, <2>2 DEF InOrder
  <2> QED  BY <1>1, <1>2, <2>3 DEF Advances, top
<1>6. CASE ~ a.buffering
  <2>1. g + 1 \in 1 .. g + 1 /\ d \in End
    BY <1>1, <1>2
  <2>2. InOrder(d, IF g + 1 > g THEN g + 1 ELSE g, top)
    BY <1>1, <1>3, <1>4, <1>6, <2>1, InOrderHanded DEF Signals
  <2>3. InOrder(d, g + 1, top)
    BY <1>1, <2>2
  <2> QED  BY <1>1, <1>2, <2>3 DEF Advances, top
<1> QED  BY <1>5, <1>6

LEMMA RepeatAdvances ==
  ASSUME Types, Types', NEW e \in Ends, InOrder(ends[e], got[e], history.top[e]), Repeat(e)
  PROVE  Advances(e) /\ history'.top = history.top
<1>1. /\ ends[e] \in End /\ got[e] \in Nat /\ history.top[e] \in Nat /\ ends'[e] \in End
      /\ history \in History
  BY DEF Types, History
<1>2. PICK n \in 1 .. got[e] - 1 :
        /\ ends' = [ends EXCEPT ![e] = SendSignalingData(@, n)]
        /\ history' = [history EXCEPT !.repeats = @ + 1,
             !.again = IF log[Peer(e)][n].type = "channels" THEN @ \cup {e} ELSE @]
  BY DEF Repeat
<1>3. history'.top = history.top
  BY <1>1, <1>2 DEF History
<1>4. ends'[e] = SendSignalingData(ends[e], n) /\ got' = got /\ ~ ends[e].buffering
  BY <1>2 DEF Repeat, Types
<1>5. Signals(ends[e], ends'[e], Append(ends[e].signaling, Handle(n)))
  BY <1>1, <1>4, SendSignalingDataKeeps
<1>6. n \in 1 .. got[e] + 1 /\ ~ (n > got[e])
  BY <1>1
<1>7. InOrder(ends'[e], IF n > got[e] THEN n ELSE got[e], history.top[e])
  BY <1>1, <1>4, <1>5, <1>6, InOrderHanded DEF Signals
<1>8. InOrder(ends'[e], got[e], history.top[e])
  BY <1>6, <1>7
<1> QED  BY <1>1, <1>3, <1>4, <1>8 DEF Advances

LEMMA FlushAdvances ==
  ASSUME Types, Types', NEW e \in Ends, InOrder(ends[e], got[e], history.top[e]), Flush(e)
  PROVE  Advances(e)
<1>1. /\ ends[e] \in End /\ got[e] \in Nat /\ history.top[e] \in Nat /\ ends'[e] \in End
      /\ got' = got /\ history' = history
  BY DEF Types, History, Flush
<1>2. InOrder(ends'[e], got[e], history.top[e])
  BY <1>1, FlushEffect, InOrderFlushed
<1> QED  BY <1>1, <1>2 DEF Advances

\* got never runs ahead of what was sent, and what waits was handed over.
LEMMA OrderGivesHandedOver ==
  ASSUME NEW end, NEW g \in Nat, NEW top \in Nat, InOrder(end, g, top)
  PROVE  HandedOver(end, g)
BY DEF InOrder, HandedOver, Silent

LEMMA LogGrows ==
  ASSUME TypeOK, Types', [Next]_vars, NEW e \in Ends
  PROVE  got'[e] <= Len(log'[Peer(e)])
<1> DEFINE l == log[Peer(e)]
<1>1. /\ Peer(e) \in Ends /\ l \in Seq(Messages) /\ log'[Peer(e)] \in Seq(Messages)
      /\ got[e] \in Nat /\ got[e] <= Len(l)
      /\ log \in [Ends -> Seq(Messages)] /\ got \in [Ends -> Nat]
  BY PeerType DEF TypeOK, Types, Sent
<1>2. CASE got' = got /\ log' = log
  BY <1>1, <1>2
<1>3. ASSUME NEW x \in Ends, Deliver(x) PROVE got'[e] <= Len(log'[Peer(e)])
  <2>1. got' = [got EXCEPT ![x] = @ + 1] /\ log' = log /\ got[x] < Len(log[Peer(x)])
    BY <1>3 DEF Deliver
  <2>2. CASE x = e
    BY <1>1, <2>1, <2>2
  <2>3. CASE x # e
    BY <1>1, <2>1, <2>3
  <2> QED  BY <2>2, <2>3
<1>4. ASSUME NEW x \in Ends, NEW r \in Seq(Messages), log' = [log EXCEPT ![x] = @ \o r],
             got' = got
      PROVE  got'[e] <= Len(log'[Peer(e)])
  <2>1. log'[Peer(e)] = l \/ log'[Peer(e)] = l \o r
    BY <1>1, <1>4
  <2>2. Len(l \o r) >= Len(l) /\ Len(l) \in Nat /\ Len(l \o r) \in Nat
    BY <1>1, <1>4
  <2> HIDE DEF l
  <2> QED  BY <1>1, <1>4, <2>1, <2>2
<1>5. ASSUME NEW x \in Ends, Send(x) PROVE got'[e] <= Len(log'[Peer(e)])
  <2>1. ends[x].signaling # <<>>
    BY <1>5 DEF Send, Signaling
  <2> DEFINE t == Head(ends[x].signaling)
  <2>2. log' = [log EXCEPT ![x] = Append(@, t)] /\ got' = got
    BY <1>5 DEF Send
  <2>3. log'[Peer(e)] = l \/ log'[Peer(e)] = Append(l, t)
    BY <1>1, <2>2
  <2> HIDE DEF t, l
  <2> QED  BY <1>1, <2>2, <2>3
<1>6. ASSUME NEW x \in Ends, Start(x) PROVE got'[e] <= Len(log'[Peer(e)])
  <2> DEFINE r == AllOf(GetPendingOffer(ends[x].context, x).sent)
  <2>1. ends[x].context \in Context
    BY DEF TypeOK, Types, End
  <2>2. r \in Seq(Messages)
    BY <2>1, OfferType, AllOfType
  <2>3. log' = [log EXCEPT ![x] = @ \o r] /\ got' = got
    BY <1>6 DEF Start
  <2> HIDE DEF r
  <2> QED  BY <1>4, <2>2, <2>3
<1>7. ASSUME NEW x \in Ends, ProcessChannels(x) PROVE got'[e] <= Len(log'[Peer(e)])
  <2> DEFINE answer == SetPendingAnswer(ends[x].context, Outgoing(x), Received(x).contents)
             offer == GetPendingOffer(answer.context, x)
             r == AllOf(answer.sent \o offer.sent)
  <2>1. ends[x].context \in Context /\ Outgoing(x) \in BOOLEAN
    BY DEF TypeOK, Types, End, Outgoing
  <2>2. Received(x) \in Messages /\ Received(x).type = "channels"
    BY <1>7, ReceivedType DEF ProcessChannels
  <2>3. Received(x).contents \in NegotiationContents
    BY <2>2, TaskOfType DEF Negotiations
  <2>4. answer.context \in Context /\ answer.sent \in Seq(NegotiationContents)
    BY <2>1, <2>3, AnswerType
  <2>5. log' = [log EXCEPT ![x] = @ \o r] /\ got' = got
    BY <1>7 DEF ProcessChannels
  <2> HIDE DEF answer
  <2>6. offer.sent \in Seq(NegotiationContents)
    BY <2>4, OfferType
  <2> HIDE DEF offer
  <2>7. answer.sent \o offer.sent \in Seq(NegotiationContents)
    BY <2>4, <2>6
  <2>8. r \in Seq(Messages)
    BY <2>7, AllOfType
  <2> HIDE DEF r
  <2> QED  BY <1>4, <2>5, <2>8
<1>8. \/ got' = got /\ log' = log
      \/ \E x \in Ends : Deliver(x) \/ Send(x) \/ Start(x) \/ ProcessChannels(x)
  BY DEF vars, Next, Connect, Application, Flush, Repeat, SignalingThread, ProcessSetup,
         ProcessCandidate, ProcessMedia, Gather, NetworkThread, ReadParameters,
         SetRemoteParams, AddRemoteCandidate, ApplyChannels, SendOnChannel, Opened, Open,
         Hear, Change, Worker, Emit, SendMediaState
<1> QED  BY <1>2, <1>3, <1>5, <1>6, <1>7, <1>8

\* Each action moves one end, or none.
LEMMA OrderStep ==
  ASSUME TypeOK, Types', KeptInOrder, [Next]_vars
  PROVE  /\ KeptInOrder'
         /\ \A e \in Ends : history'.top[e] <= history.top[e] + 1
<1> USE DEF KeptInOrder
<1>1. Types /\ \A e \in Ends : history.top[e] \in Nat
  BY DEF TypeOK, Types, History
<1>2. ASSUME NEW e \in Ends, Advances(e),
             \A x \in Ends \ {e} : /\ ends'[x] = ends[x]
                                   /\ got'[x] = got[x]
                                   /\ history'.top[x] = history.top[x]
      PROVE  /\ KeptInOrder'
             /\ \A x \in Ends : history'.top[x] <= history.top[x] + 1
  <2>1. \A x \in Ends \ {e} : InOrder(ends'[x], got'[x], history'.top[x])
    BY <1>2
  <2>2. \A x \in Ends : history'.top[x] <= history.top[x] + 1
    BY <1>1, <1>2 DEF Advances
  <2> QED  BY <1>2, <2>1, <2>2 DEF Advances
<1>3. CASE UNCHANGED vars
  BY <1>1, <1>3 DEF vars
<1>4. CASE Next
  <2>1. PICK e \in Ends :
          \/ Connect(e) \/ Application(e) \/ Deliver(e) \/ Repeat(e)
          \/ SignalingThread(e) \/ Gather(e) \/ NetworkThread(e) \/ Open(e) \/ Hear(e)
          \/ Change(e) \/ Worker(e)
    BY <1>4 DEF Next
  <2>2. InOrder(ends[e], got[e], history.top[e])
    OBVIOUS
  <2>3. SUFFICES /\ Advances(e)
                 /\ \A x \in Ends \ {e} : /\ ends'[x] = ends[x]
                                          /\ got'[x] = got[x]
                                          /\ history'.top[x] = history.top[x]
    BY <1>2
  <2> HIDE DEF KeptInOrder
  <2>4. CASE Connect(e)
    BY <1>1, <2>2, <2>4, ConnectEffect, Unmoved DEF Connect
  <2>5. CASE Start(e)
    BY <1>1, <2>2, <2>5, StartEffect, Unmoved DEF Start
  <2>6. CASE Flush(e)
    BY <1>1, <2>2, <2>6, FlushEffect, FlushAdvances DEF Flush
  <2>7. CASE Deliver(e)
    <3>1. /\ \A x \in Ends \ {e} : ends'[x] = ends[x] /\ got'[x] = got[x]
          /\ history' = history
      BY <1>1, <2>7 DEF Deliver, Types
    <3> QED  BY <1>1, <2>2, <2>7, <3>1, DeliverAdvances
  <2>8. CASE Repeat(e)
    <3>1. (\A x \in Ends \ {e} : ends'[x] = ends[x]) /\ got' = got
      BY <1>1, <2>8 DEF Repeat, Types
    <3> QED  BY <1>1, <2>2, <2>8, <3>1, RepeatAdvances
  <2>9. CASE Send(e)
    <3>1. ends[e].signaling # <<>> /\ Head(ends[e].signaling).type # "message"
      BY <2>9 DEF Send, Signaling
    <3>2. Advances(e)
      BY <1>1, <2>2, <2>9, <3>1, SendEffect, OtherRun DEF Send
    <3> QED  BY <1>1, <2>9, <3>2, SendEffect DEF Send
  <2>10. CASE ProcessSetup(e)
    BY <2>2, <2>10, ProcessSetupEffect, MessageRun DEF ProcessSetup
  <2>11. CASE ProcessCandidate(e)
    BY <2>2, <2>11, ProcessCandidateEffect, MessageRun DEF ProcessCandidate
  <2>12. CASE ProcessChannels(e)
    BY <2>2, <2>12, ProcessChannelsEffect, MessageRun DEF ProcessChannels
  <2>13. CASE ProcessMedia(e)
    <3>1. ends[e].signaling # <<>> /\ Head(ends[e].signaling).type # "message"
      BY <2>13 DEF ProcessMedia, Signaling
    <3>2. Advances(e)
      BY <1>1, <2>2, <2>13, <3>1, ProcessMediaEffect, OtherRun DEF ProcessMedia
    <3> QED  BY <1>1, <2>13, <3>2, ProcessMediaEffect DEF ProcessMedia
  <2>14. \A t \in {Setup} \cup Candidates \cup MediaStates : t \in Tasks /\ t.type # "message"
    BY DEF Tasks, SignalingTasks, Setup, Candidates, MediaStates
  <2>15. CASE Gather(e)
    <3>1. PICK t \in Candidates : Signals(ends[e], ends'[e], Append(ends[e].signaling, t))
      BY <1>1, <2>15, GatherEffect
    <3>2. Advances(e)
      BY <1>1, <2>2, <2>14, <2>15, <3>1, OtherPosted DEF Gather
    <3> QED  BY <1>1, <2>15, <3>2, GatherEffect DEF Gather
  <2>16. CASE ReadParameters(e)
    <3>1. Advances(e)
      BY <1>1, <2>2, <2>14, <2>16, ReadParametersEffect, OtherPosted DEF ReadParameters
    <3> QED  BY <1>1, <2>16, <3>1, ReadParametersEffect DEF ReadParameters
  <2>17. CASE Hear(e)
    <3> DEFINE t == MediaState(Head(media[Peer(e)].wire))
    <3>1. media[Peer(e)].wire \in Seq(Nat) /\ media[Peer(e)].wire # <<>>
      BY <1>1, <2>17, PeerType DEF Hear, Types, Media
    <3>2. t \in MediaStates
      BY <3>1 DEF MediaState, MediaStates
    <3>3. Signals(ends[e], ends'[e], Append(ends[e].signaling, t))
      BY <1>1, <2>17, HearEffect
    <3> HIDE DEF t
    <3>4. Advances(e)
      BY <1>1, <2>2, <2>14, <2>17, <3>2, <3>3, OtherPosted DEF Hear
    <3> QED  BY <1>1, <2>17, <3>4, HearEffect DEF Hear
  <2>18. CASE SetRemoteParams(e)
    BY <1>1, <2>2, <2>18, SetRemoteParamsEffect, Unmoved DEF SetRemoteParams
  <2>19. CASE AddRemoteCandidate(e)
    BY <1>1, <2>2, <2>19, AddRemoteCandidateEffect, Unmoved DEF AddRemoteCandidate
  <2>20. CASE ApplyChannels(e)
    BY <1>1, <2>2, <2>20, ApplyChannelsEffect, Unmoved DEF ApplyChannels
  <2>21. CASE SendOnChannel(e)
    BY <1>1, <2>2, <2>21, SendOnChannelEffect, Unmoved DEF SendOnChannel
  <2>22. CASE Open(e)
    BY <1>1, <2>2, <2>22, OpenEffect, Unmoved DEF Open
  <2>23. CASE Opened(e)
    BY <1>1, <2>2, <2>23, OpenedEffect, Unmoved DEF Opened
  <2>24. CASE Change(e) \/ Emit(e)
    BY <1>1, <2>2, <2>24, Unmoved DEF Change, Emit, Signals
  <2>25. CASE SendMediaState(e)
    <3>1. history'.top = history.top
      BY <1>1, <2>25 DEF SendMediaState, Types, History
    <3> QED  BY <1>1, <2>2, <2>25, <3>1, SendMediaStateEffect, Unmoved DEF SendMediaState
  <2> QED
    BY <2>1, <2>4, <2>5, <2>6, <2>7, <2>8, <2>9, <2>10, <2>11, <2>12, <2>13, <2>15, <2>16,
       <2>17, <2>18, <2>19, <2>20, <2>21, <2>22, <2>23, <2>24, <2>25
    DEF Application, SignalingThread, NetworkThread, Worker
<1> QED  BY <1>3, <1>4

-----------------------------------------------------------------------------
(* The messages are handled in the order they were sent.                    *)

Inv == TypeOK /\ KeptInOrder

LEMMA InitInv == Init => Inv
<1> SUFFICES ASSUME Init PROVE Inv
  OBVIOUS
<1>1. TypeOK
  BY InitTypes
<1>2. ASSUME NEW e \in Ends PROVE InOrder(ends[e], got[e], history.top[e])
  <2>1. /\ ends[e].buffering /\ ends[e].early = <<>> /\ ends[e].signaling = <<>>
        /\ got[e] = 0 /\ history.top[e] = 0
    BY DEF Init, NewEnd, NoHistory
  <2> QED  BY <2>1 DEF InOrder, Silent
<1> QED  BY <1>1, <1>2 DEF Inv, KeptInOrder

LEMMA InvStep ==
  ASSUME Inv, [Next]_vars
  PROVE  /\ Inv'
         /\ \A e \in Ends : history'.top[e] <= history.top[e] + 1
<1>1. Types'
  BY TypesStep DEF Inv
<1>2. KeptInOrder' /\ \A e \in Ends : history'.top[e] <= history.top[e] + 1
  BY <1>1, OrderStep DEF Inv
<1>3. ASSUME NEW e \in Ends
      PROVE  got'[e] <= Len(log'[Peer(e)]) /\ HandedOver(ends'[e], got'[e])
  <2>1. InOrder(ends'[e], got'[e], history'.top[e])
    BY <1>2 DEF KeptInOrder
  <2>2. got'[e] \in Nat /\ history'.top[e] \in Nat
    BY <1>1 DEF Types, History
  <2>3. HandedOver(ends'[e], got'[e])
    BY <2>1, <2>2, OrderGivesHandedOver
  <2>4. got'[e] <= Len(log'[Peer(e)])
    BY <1>1, LogGrows DEF Inv
  <2> QED  BY <2>3, <2>4
<1>4. TypeOK'
  BY <1>1, <1>3 DEF TypeOK, Sent
<1> QED  BY <1>2, <1>4 DEF Inv

THEOREM Invariance == Spec => []Inv
<1>1. Inv /\ [Next]_vars => Inv'
  BY InvStep
<1> QED  BY <1>1, InitInv, PTL DEF Spec

\* Whatever arrives before connect, during it and after, the ends, their tasks and the
\* messages on the way have the types that P2PCall gives them, and a message that waits
\* to be handled was sent.
THEOREM TypeCorrect == Spec => []TypeOK
<1>1. Inv => TypeOK
  BY DEF Inv
<1> QED  BY <1>1, Invariance, PTL

\* Messages that come before connect, while it flushes what it kept and afterwards are
\* handled in the order they were sent, also when old ones come again: none is skipped
\* for a later one.
THEOREM HandledInOrder == Spec => NoneSkipped
<1>1. Inv /\ [Next]_vars => [\A e \in Ends : history'.top[e] <= history.top[e] + 1]_vars
  BY InvStep
<1> QED  BY <1>1, Invariance, PTL DEF Spec, NoneSkipped

-----------------------------------------------------------------------------
(* The parameters come before the candidates.                               *)

\* When the i-th task runs, the transport has the parameters of the peer.
After(end, i) == end.remote \/ \E j \in 1 .. i - 1 : end.network[j].type = "remote"

First(end) ==
  /\ end.handshake => After(end, Len(end.network) + 1)
  /\ \A i \in DOMAIN end.network : end.network[i].type = "candidate" => After(end, i)
  /\ end.added # {} => end.remote

ParametersFirst == \A e \in Ends : First(ends[e])

\* The first task of the network thread runs.
LEMMA FirstRun ==
  ASSUME NEW a \in End, NEW d \in End, First(a), a.network # <<>>,
         d.network = Tail(a.network), d.handshake = a.handshake, a.remote => d.remote,
         a.network[1].type = "remote" => d.remote,
         d.added # {} => a.added # {} \/ a.network[1].type = "candidate"
  PROVE  First(d)
<1> DEFINE q == a.network
           p == d.network
<1>1. q \in Seq(NetworkTasks) /\ q # <<>> /\ p = Tail(q)
  BY DEF End
<1>2. /\ Len(p) = Len(q) - 1 /\ Len(q) \in Nat \ {0}
      /\ DOMAIN p = 1 .. Len(p) /\ DOMAIN q = 1 .. Len(q)
      /\ \A i \in DOMAIN p : p[i] = q[i + 1]
  BY <1>1
<1>3. ASSUME NEW i \in 1 .. Len(p) + 1, After(a, i + 1) PROVE After(d, i)
  <2>1. CASE a.remote
    BY <2>1 DEF After
  <2>2. CASE ~ a.remote
    <3>1. PICK j \in 1 .. i : q[j].type = "remote"
      BY <1>3, <2>2 DEF After
    <3>2. CASE j = 1
      BY <3>1, <3>2 DEF After
    <3>3. CASE j # 1
      <4>1. j - 1 \in 1 .. i - 1 /\ j - 1 \in DOMAIN p
        BY <1>2, <3>3
      <4>2. p[j - 1] = q[j]
        BY <1>2, <4>1
      <4> QED  BY <3>1, <4>1, <4>2 DEF After
    <3> QED  BY <3>2, <3>3
  <2> QED  BY <2>1, <2>2
<1>4. d.handshake => After(d, Len(p) + 1)
  <2> SUFFICES ASSUME d.handshake PROVE After(d, Len(p) + 1)
    OBVIOUS
  <2>1. After(a, Len(q) + 1)
    BY DEF First
  <2>2. Len(p) + 1 \in 1 .. Len(p) + 1 /\ (Len(p) + 1) + 1 = Len(q) + 1
    BY <1>2
  <2> QED  BY <1>3, <2>1, <2>2
<1>5. ASSUME NEW i \in DOMAIN p, p[i].type = "candidate" PROVE After(d, i)
  <2>1. i + 1 \in DOMAIN q /\ q[i + 1].type = "candidate" /\ i \in 1 .. Len(p) + 1
    BY <1>2, <1>5
  <2> QED  BY <1>3, <2>1 DEF First
<1>6. d.added # {} => d.remote
  <2>1. a.added # {} => d.remote
    BY DEF First
  <2>2. 1 \in DOMAIN q
    BY <1>2
  <2>3. a.network[1].type = "candidate" => a.remote
    BY <2>2 DEF First, After
  <2> QED  BY <2>1, <2>3
<1> QED  BY <1>4, <1>5, <1>6 DEF First

\* Tasks are posted; candidates only after the handshake.
LEMMA FirstPosted ==
  ASSUME NEW a \in End, NEW d, First(a), NEW r \in Seq(Tasks),
         Transports(a, d, a.network \o r),
         \A i \in DOMAIN r : r[i].type = "candidate" => a.handshake
  PROVE  First(d)
<1> DEFINE q == a.network
           p == d.network
<1>1. q \in Seq(Tasks) /\ p = q \o r
  BY TaskQueue DEF End, Transports
<1>2. /\ d.handshake = a.handshake /\ d.remote = a.remote /\ d.added = a.added
  BY DEF Transports
<1>3. First(a)
  OBVIOUS
<1> HIDE DEF q, p
<1>4. /\ Len(p) = Len(q) + Len(r) /\ Len(q) \in Nat /\ Len(r) \in Nat
      /\ DOMAIN p = 1 .. Len(p) /\ DOMAIN q = 1 .. Len(q) /\ DOMAIN r = 1 .. Len(r)
      /\ \A i \in 1 .. Len(q) : p[i] = q[i]
      /\ \A i \in 1 .. Len(r) : p[Len(q) + i] = r[i]
  BY <1>1, Concatenated
<1>5. ASSUME NEW i \in 1 .. Len(q) + 1, NEW k \in Nat, i <= k, After(a, i) PROVE After(d, k)
  <2>1. CASE a.remote
    BY <1>2, <2>1 DEF After
  <2>2. CASE ~ a.remote
    <3>1. PICK j \in 1 .. i - 1 : q[j].type = "remote"
      BY <1>5, <2>2 DEF After, q
    <3>2. j \in 1 .. k - 1 /\ j \in 1 .. Len(q)
      BY <1>4, <1>5
    <3>3. p[j].type = "remote"
      BY <1>4, <3>1, <3>2
    <3> QED  BY <3>2, <3>3 DEF After, p
  <2> QED  BY <2>1, <2>2
<1>6. ASSUME a.handshake, NEW k \in Len(q) + 1 .. Len(p) + 1 PROVE After(d, k)
  <2>1. After(a, Len(q) + 1)
    BY <1>3, <1>6 DEF First, q
  <2>2. Len(q) + 1 \in 1 .. Len(q) + 1 /\ k \in Nat /\ Len(q) + 1 <= k
    BY <1>4
  <2> QED  BY <1>5, <2>1, <2>2
<1>7. d.handshake => After(d, Len(p) + 1)
  <2>1. Len(p) + 1 \in Len(q) + 1 .. Len(p) + 1
    BY <1>4
  <2> QED  BY <1>2, <1>6, <2>1
<1>8. ASSUME NEW i \in DOMAIN p, p[i].type = "candidate" PROVE After(d, i)
  <2>1. CASE i \in 1 .. Len(q)
    <3>1. q[i].type = "candidate"
      BY <1>4, <1>8, <2>1
    <3>2. After(a, i)
      BY <1>3, <1>4, <2>1, <3>1 DEF First, q
    <3>3. i \in 1 .. Len(q) + 1 /\ i \in Nat /\ i <= i
      BY <1>4, <2>1
    <3> QED  BY <1>5, <3>2, <3>3
  <2>2. CASE i \notin 1 .. Len(q)
    <3>1. i - Len(q) \in 1 .. Len(r) /\ i = Len(q) + (i - Len(q))
      BY <1>4, <2>2
    <3>2. r[i - Len(q)].type = "candidate"
      BY <1>4, <1>8, <3>1
    <3>3. a.handshake
      BY <1>4, <3>1, <3>2
    <3>4. i \in Len(q) + 1 .. Len(p) + 1
      BY <1>4, <2>2
    <3> QED  BY <1>6, <3>3, <3>4
  <2> QED  BY <2>1, <2>2
<1> QED  BY <1>2, <1>3, <1>7, <1>8 DEF First, p

\* One task is posted, which is no candidate.
LEMMA FirstPostedOne ==
  ASSUME NEW a \in End, NEW d, First(a), NEW t \in Tasks, t.type # "candidate",
         Transports(a, d, Append(a.network, t))
  PROVE  First(d)
<1>1. a.network \in Seq(Tasks)
  BY TaskQueue DEF End
<1> DEFINE r == <<t>>
<1>2. r \in Seq(Tasks) /\ Append(a.network, t) = a.network \o r
  BY <1>1, Appended
<1>3. \A i \in DOMAIN r : r[i].type = "candidate" => a.handshake
  OBVIOUS
<1> HIDE DEF r
<1>4. Transports(a, d, a.network \o r)
  BY <1>2
<1> QED  BY <1>2, <1>3, <1>4, FirstPosted

\* Nothing happens to the transport.
LEMMA FirstSame ==
  ASSUME NEW a \in End, NEW d, First(a), Transports(a, d, a.network)
  PROVE  First(d)
BY DEF First, After, Transports

\* The first task runs and tells the transport nothing.
LEMMA FirstRunOther ==
  ASSUME NEW a \in End, NEW d \in End, First(a), a.network # <<>>,
         Head(a.network).type \notin {"remote", "candidate"},
         Transports(a, d, Tail(a.network))
  PROVE  First(d)
<1>1. a.network \in Seq(NetworkTasks)
  BY DEF End
<1>2. Head(a.network) = a.network[1]
  BY <1>1
<1> QED  BY <1>2, FirstRun DEF Transports

\* The end has the parameters of the peer and posts a task that sets them.
LEMMA FirstAgreed ==
  ASSUME NEW a \in End, NEW d \in End, First(a),
         Transports([a EXCEPT !.handshake = TRUE], d, Append(a.network, Remote))
  PROVE  First(d)
<1> DEFINE q == a.network
           p == d.network
<1>1. /\ d.handshake = TRUE /\ d.remote = a.remote /\ d.added = a.added /\ p = Append(q, Remote)
      /\ q \in Seq(NetworkTasks)
  BY DEF Transports, End
<1>2. First(a)
  OBVIOUS
<1> HIDE DEF q, p
<1>3. /\ Len(p) = Len(q) + 1 /\ Len(q) \in Nat
      /\ DOMAIN p = 1 .. Len(p) /\ DOMAIN q = 1 .. Len(q)
      /\ \A i \in 1 .. Len(q) : p[i] = q[i]
      /\ p[Len(p)] = Remote
  BY <1>1
<1>4. After(d, Len(p) + 1)
  <2>1. Len(p) \in 1 .. (Len(p) + 1) - 1 /\ Remote.type = "remote"
    BY <1>3 DEF Remote
  <2> QED  BY <1>3, <2>1 DEF After, p
<1>5. ASSUME NEW i \in DOMAIN p, p[i].type = "candidate" PROVE After(d, i)
  <2>1. i \in 1 .. Len(q) /\ q[i].type = "candidate"
    BY <1>3, <1>5 DEF Remote
  <2>2. After(a, i)
    BY <1>2, <1>3, <2>1 DEF First, q
  <2>3. \A j \in 1 .. i - 1 : j \in 1 .. Len(q)
    BY <1>3, <2>1
  <2> QED  BY <1>1, <1>3, <2>2, <2>3 DEF After, p, q
<1> QED  BY <1>1, <1>2, <1>4, <1>5 DEF First, p

LEMMA FirstSetUp ==
  ASSUME NEW a \in End, NEW d \in End, First(a), SetUp(a, d)
  PROVE  First(d)
<1>1. PICK taken \in End, answered \in End :
        /\ Transports([a EXCEPT !.handshake = TRUE], taken, Append(a.network, Remote))
        /\ \/ answered = taken
           \/ Transports(taken, answered, Append(taken.network, Setup))
        /\ Transports(answered, d, answered.network \o Waiting(answered))
  BY DEF SetUp
<1>2. First(taken)
  BY <1>1, FirstAgreed
<1>3. Setup \in Tasks /\ Setup.type # "candidate"
  BY DEF Tasks, SignalingTasks, Setup
<1>4. First(answered) /\ (taken.handshake => answered.handshake)
  <2>1. CASE answered = taken
    BY <1>2, <2>1
  <2>2. CASE Transports(taken, answered, Append(taken.network, Setup))
    BY <1>2, <1>3, <2>2, FirstPostedOne DEF Transports
  <2> QED  BY <1>1, <2>1, <2>2
<1>5. [a EXCEPT !.handshake = TRUE].handshake
  BY DEF End
<1>6. answered.handshake
  BY <1>1, <1>4, <1>5 DEF Transports
<1>7. Waiting(answered) \in Seq(Tasks)
  BY ApplyPendingKeeps
<1> QED  BY <1>1, <1>4, <1>6, <1>7, FirstPosted

LEMMA FirstStep ==
  ASSUME Inv, Types', ParametersFirst, [Next]_vars
  PROVE  ParametersFirst'
<1> USE DEF ParametersFirst
<1>1. Types /\ TypeOK
  BY DEF Inv, TypeOK
<1>2. ASSUME NEW e \in Ends, First(ends'[e]), \A x \in Ends \ {e} : ends'[x] = ends[x]
      PROVE  ParametersFirst'
  BY <1>2
<1>3. CASE UNCHANGED vars
  BY <1>3 DEF vars
<1>4. CASE Next
  <2>1. PICK e \in Ends :
          \/ Connect(e) \/ Application(e) \/ Deliver(e) \/ Repeat(e)
          \/ SignalingThread(e) \/ Gather(e) \/ NetworkThread(e) \/ Open(e) \/ Hear(e)
          \/ Change(e) \/ Worker(e)
    BY <1>4 DEF Next
  <2>2. First(ends[e]) /\ ends[e] \in End /\ ends'[e] \in End
    BY <1>1 DEF Types
  <2>3. \A n : Transports(ends[e], SendSignalingData(ends[e], n), ends[e].network)
    BY <2>2, SendSignalingDataKeeps
  <2>4. /\ Setup \in Tasks /\ Setup.type # "candidate"
        /\ \A v \in Nat : MediaState(v) \in Tasks /\ MediaState(v).type # "candidate"
    BY DEF Setup, MediaState, Tasks, SignalingTasks, MediaStates
  <2>5. CASE Connect(e)
    BY <1>1, <1>2, <2>2, <2>5, ConnectEffect, FirstSame
  <2>6. CASE Start(e)
    <3>1. Transports(ends[e], ends'[e], Append(ends[e].network, Setup))
      BY <1>1, <2>6, StartEffect
    <3>2. First(ends'[e])
      BY <2>2, <2>4, <3>1, FirstPostedOne
    <3> QED  BY <1>1, <1>2, <2>6, <3>2, StartEffect
  <2>7. CASE Flush(e)
    BY <1>1, <1>2, <2>2, <2>7, FlushEffect, FirstSame
  <2>8. CASE Deliver(e) \/ Repeat(e)
    <3>1. PICK n : ends' = [ends EXCEPT ![e] = SendSignalingData(@, n)]
      BY <2>8 DEF Deliver, Repeat
    <3>2. /\ ends'[e] = SendSignalingData(ends[e], n)
          /\ \A x \in Ends \ {e} : ends'[x] = ends[x]
      BY <1>1, <3>1 DEF Types
    <3> QED  BY <1>2, <2>2, <2>3, <3>2, FirstSame
  <2>9. CASE Send(e)
    BY <1>1, <1>2, <2>2, <2>9, SendEffect, FirstSame
  <2>10. CASE ProcessSetup(e)
    BY <1>1, <1>2, <2>2, <2>10, ProcessSetupEffect, FirstSetUp
  <2>11. CASE ProcessCandidate(e)
    <3>1. PICK r \in Seq(Tasks) :
            /\ Transports(ends[e], ends'[e], ends[e].network \o r)
            /\ \A i \in DOMAIN r : r[i].type = "candidate" /\ ends[e].handshake
      BY <1>1, <2>11, ProcessCandidateEffect
    <3>2. First(ends'[e])
      BY <2>2, <3>1, FirstPosted
    <3> QED  BY <1>1, <1>2, <2>11, <3>2, ProcessCandidateEffect
  <2>12. CASE ProcessChannels(e)
    <3>1. PICK t : t.type = "channels" /\
                   Transports(ends[e], ends'[e], Append(ends[e].network, t))
      BY <1>1, <2>12, ProcessChannelsEffect
    <3>2. t \in Tasks
      <4>1. ends'[e].network = Append(ends[e].network, t)
        BY <3>1 DEF Transports
      <4>2. ends'[e].network \in Seq(NetworkTasks) /\ ends[e].network \in Seq(NetworkTasks)
        BY <2>2 DEF End
      <4>3. /\ Len(ends'[e].network) \in DOMAIN ends'[e].network
            /\ ends'[e].network[Len(ends'[e].network)] = t
        BY <4>1, <4>2
      <4> QED  BY <4>2, <4>3 DEF Tasks
    <3>3. First(ends'[e])
      BY <2>2, <3>1, <3>2, FirstPostedOne
    <3> QED  BY <1>1, <1>2, <2>12, <3>3, ProcessChannelsEffect
  <2>13. CASE ProcessMedia(e)
    BY <1>1, <1>2, <2>2, <2>13, ProcessMediaEffect, FirstSame
  <2>14. CASE Gather(e)
    BY <1>1, <1>2, <2>2, <2>14, GatherEffect, FirstSame
  <2>15. CASE ReadParameters(e)
    <3>1. ends[e].network # <<>> /\ Head(ends[e].network).type \notin {"remote", "candidate"}
      BY <2>15 DEF ReadParameters, Network
    <3>2. First(ends'[e])
      BY <1>1, <2>2, <2>15, <3>1, ReadParametersEffect, FirstRunOther
    <3> QED  BY <1>1, <1>2, <2>15, <3>2, ReadParametersEffect
  <2>16. CASE SetRemoteParams(e)
    <3>1. ends[e].network # <<>> /\ Head(ends[e].network).type = "remote"
      BY <2>16 DEF SetRemoteParams, Network
    <3>2. Head(ends[e].network) = ends[e].network[1]
      BY <2>2, <3>1 DEF End
    <3> DEFINE b == [ends[e] EXCEPT !.remote = TRUE]
    <3>3. /\ b.handshake = ends[e].handshake /\ b.remote /\ b.added = ends[e].added
      BY <2>2 DEF End
    <3>4. Transports(b, ends'[e], Tail(ends[e].network))
      BY <1>1, <2>16, SetRemoteParamsEffect
    <3> HIDE DEF b
    <3>5. First(ends'[e])
      BY <2>2, <3>1, <3>3, <3>4, FirstRun DEF Transports
    <3> QED  BY <1>1, <1>2, <2>16, <3>5, SetRemoteParamsEffect
  <2>17. CASE AddRemoteCandidate(e)
    <3>1. ends[e].network # <<>> /\ Head(ends[e].network).type = "candidate"
      BY <2>17 DEF AddRemoteCandidate, Network
    <3>2. Head(ends[e].network) = ends[e].network[1]
      BY <2>2, <3>1 DEF End
    <3> DEFINE s == ends[e].added \cup {Subject(e).candidate}
               b == [ends[e] EXCEPT !.added = s]
    <3>3. /\ b.handshake = ends[e].handshake /\ b.remote = ends[e].remote
      BY <2>2 DEF End
    <3>4. Transports(b, ends'[e], Tail(ends[e].network))
      BY <1>1, <2>17, AddRemoteCandidateEffect
    <3> HIDE DEF b, s
    <3>5. First(ends'[e])
      BY <2>2, <3>1, <3>2, <3>3, <3>4, FirstRun DEF Transports
    <3> QED  BY <1>1, <1>2, <2>17, <3>5, AddRemoteCandidateEffect
  <2>18. CASE ApplyChannels(e)
    <3>1. ends[e].network # <<>> /\ Head(ends[e].network).type \notin {"remote", "candidate"}
      BY <2>18 DEF ApplyChannels, Network
    <3>2. First(ends'[e])
      BY <1>1, <2>2, <2>18, <3>1, ApplyChannelsEffect, FirstRunOther
    <3> QED  BY <1>1, <1>2, <2>18, <3>2, ApplyChannelsEffect
  <2>19. CASE SendOnChannel(e)
    <3>1. ends[e].network # <<>> /\ Head(ends[e].network).type \notin {"remote", "candidate"}
      BY <2>19 DEF SendOnChannel, Network
    <3>2. First(ends'[e])
      BY <1>1, <2>2, <2>19, <3>1, SendOnChannelEffect, FirstRunOther
    <3> QED  BY <1>1, <1>2, <2>19, <3>2, SendOnChannelEffect
  <2>20. CASE Open(e)
    <3> DEFINE b == [ends[e] EXCEPT !.open = TRUE]
    <3>1. /\ b.handshake = ends[e].handshake /\ b.remote = ends[e].remote
          /\ b.added = ends[e].added
      BY <2>2 DEF End
    <3>2. Transports(b, ends'[e], ends[e].network)
      BY <1>1, <2>20, OpenEffect
    <3> HIDE DEF b
    <3>3. First(ends'[e])
      BY <2>2, <3>1, <3>2 DEF First, After, Transports
    <3> QED  BY <1>1, <1>2, <2>20, <3>3, OpenEffect
  <2>21. CASE Opened(e)
    <3> DEFINE t == MediaState(media[e].opening[1])
    <3>1. media[e].opening \in Seq(Nat) /\ media[e].opening # <<>>
      BY <1>1, <2>21 DEF Opened, Types, Media
    <3>2. media[e].opening[1] \in Nat
      BY <3>1
    <3>3. t \in Tasks /\ t.type # "candidate"
      BY <2>4, <3>2
    <3>4. Transports(ends[e], ends'[e], Append(ends[e].network, t))
      BY <1>1, <2>21, OpenedEffect
    <3> HIDE DEF t
    <3>5. First(ends'[e])
      BY <2>2, <3>3, <3>4, FirstPostedOne
    <3> QED  BY <1>1, <1>2, <2>21, <3>5, OpenedEffect
  <2>22. CASE Hear(e)
    BY <1>1, <1>2, <2>2, <2>22, HearEffect, FirstSame
  <2>23. CASE Change(e) \/ Emit(e)
    BY <2>23 DEF Change, Emit
  <2>24. CASE SendMediaState(e)
    <3> DEFINE t == MediaState(media[e].worker[1])
    <3>1. media[e].worker \in Seq(Nat) /\ media[e].worker # <<>>
      BY <1>1, <2>24 DEF SendMediaState, Types, Media
    <3>2. media[e].worker[1] \in Nat
      BY <3>1
    <3>3. t \in Tasks /\ t.type # "candidate"
      BY <2>4, <3>2
    <3>4. \/ Transports(ends[e], ends'[e], Append(ends[e].network, t))
          \/ Transports(ends[e], ends'[e], ends[e].network)
      BY <1>1, <2>24, SendMediaStateEffect
    <3> HIDE DEF t
    <3>5. First(ends'[e])
      BY <2>2, <3>3, <3>4, FirstPostedOne, FirstSame
    <3> QED  BY <1>1, <1>2, <2>24, <3>5, SendMediaStateEffect
  <2> HIDE DEF ParametersFirst
  <2> QED
    BY <2>1, <2>5, <2>6, <2>7, <2>8, <2>9, <2>10, <2>11, <2>12, <2>13, <2>14, <2>15, <2>16,
       <2>17, <2>18, <2>19, <2>20, <2>21, <2>22, <2>23, <2>24
    DEF Application, SignalingThread, NetworkThread, Worker
<1> QED  BY <1>3, <1>4

\* The transport gets no candidate before the parameters of the peer, whatever order
\* both arrived in and however early.
THEOREM ParametersComeFirst == Spec => []CandidatesFollow
<1>1. Init => ParametersFirst
  BY DEF Init, NewEnd, ParametersFirst, First
<1>2. Inv /\ Inv' /\ ParametersFirst /\ [Next]_vars => ParametersFirst'
  BY FirstStep DEF Inv, TypeOK
<1>3. ParametersFirst => CandidatesFollow
  BY DEF ParametersFirst, First, CandidatesFollow
<1> QED  BY <1>1, <1>2, <1>3, Invariance, PTL DEF Spec

-----------------------------------------------------------------------------
(* The state of the media, on its way to the peer.                          *)

\* The last state of the media in a queue is v.
Says(q, v) ==
  \E i \in DOMAIN q :
    /\ q[i] = MediaState(v)
    /\ \A j \in i + 1 .. Len(q) : q[j].type # "media"

\* The last that is under way, over the network thread, the wire and the signaling
\* thread of the peer, to what the peer knows, is v.
Way(network, wire, signaling, known, v) ==
  \/ Says(network, v)
  \/ /\ Silent(network, "media")
     /\ \/ wire # <<>> /\ wire[Len(wire)] = v
        \/ /\ wire = <<>>
           /\ \/ Says(signaling, v)
              \/ Silent(signaling, "media") /\ known = v

Newest(e, v) ==
  Way(ends[e].network, media[e].wire, ends[Peer(e)].signaling, media[e].known, v)

\* Nothing is to be told that is not, and nothing was told in the meantime.
Steady(e) == ~ media[e].task /\ media[e].worker = <<>> /\ e \notin history.crossed

UnderWay(e) ==
  /\ media[e].worker # <<>> /\ ~ media[e].task => media[e].worker = <<media[e].now>>
  /\ Steady(e) /\ media[e].opening # <<>> => media[e].opening = <<media[e].now>>
  /\ Steady(e) /\ media[e].opening = <<>> /\ ends[e].open => Newest(e, media[e].now)

NewestUnderWay == \A e \in Ends : UnderWay(e)

\* What happens to a queue leaves what it says of the media.
Calm(q, p) ==
  /\ Silent(q, "media") => Silent(p, "media")
  /\ \A v : Says(q, v) => Says(p, v)

LEMMA CalmTwice ==
  ASSUME NEW q, NEW p, NEW o, Calm(q, p), Calm(p, o)
  PROVE  Calm(q, o)
BY DEF Calm

LEMMA CalmSame ==
  ASSUME NEW q
  PROVE  Calm(q, q)
BY DEF Calm

LEMMA CalmPosted ==
  ASSUME NEW q \in Seq(Tasks), NEW r \in Seq(Tasks), Silent(r, "media")
  PROVE  Calm(q, q \o r)
<1> DEFINE p == q \o r
<1>1. /\ Len(p) = Len(q) + Len(r) /\ Len(q) \in Nat /\ Len(r) \in Nat
      /\ DOMAIN q = 1 .. Len(q) /\ DOMAIN r = 1 .. Len(r) /\ DOMAIN p = 1 .. Len(p)
      /\ \A i \in 1 .. Len(q) : p[i] = q[i]
      /\ \A i \in 1 .. Len(r) : p[Len(q) + i] = r[i]
  BY Concatenated
<1> HIDE DEF p
<1>2. \A i \in Len(q) + 1 .. Len(p) : p[i].type # "media"
  <2> SUFFICES ASSUME NEW i \in Len(q) + 1 .. Len(p) PROVE p[i].type # "media"
    OBVIOUS
  <2>1. i - Len(q) \in 1 .. Len(r) /\ i = Len(q) + (i - Len(q))
    BY <1>1
  <2>2. p[i] = r[i - Len(q)]
    BY <1>1, <2>1
  <2> QED  BY <1>1, <2>1, <2>2 DEF Silent
<1>3. ASSUME Silent(q, "media") PROVE Silent(p, "media")
  <2> SUFFICES ASSUME NEW i \in DOMAIN p PROVE p[i].type # "media"
    BY DEF Silent
  <2>1. CASE i \in 1 .. Len(q)
    BY <1>1, <1>3, <2>1 DEF Silent
  <2>2. CASE i \notin 1 .. Len(q)
    BY <1>1, <1>2, <2>2
  <2> QED  BY <2>1, <2>2
<1>4. ASSUME NEW v, Says(q, v) PROVE Says(p, v)
  <2>1. PICK i \in DOMAIN q :
          q[i] = MediaState(v) /\ \A j \in i + 1 .. Len(q) : q[j].type # "media"
    BY <1>4 DEF Says
  <2>2. i \in DOMAIN p /\ p[i] = MediaState(v)
    BY <1>1, <2>1
  <2>3. ASSUME NEW j \in i + 1 .. Len(p) PROVE p[j].type # "media"
    <3>1. CASE j \in 1 .. Len(q)
      <4>1. j \in i + 1 .. Len(q) /\ p[j] = q[j]
        BY <1>1, <2>1, <3>1
      <4> QED  BY <2>1, <4>1
    <3>2. CASE j \notin 1 .. Len(q)
      <4>1. j \in Len(q) + 1 .. Len(p)
        BY <1>1, <2>1, <3>2
      <4> QED  BY <1>2, <4>1
    <3> QED  BY <3>1, <3>2
  <2> QED  BY <2>2, <2>3 DEF Says
<1> QED  BY <1>3, <1>4 DEF Calm, p

LEMMA CalmPostedOne ==
  ASSUME NEW q \in Seq(Tasks), NEW t \in Tasks, t.type # "media"
  PROVE  Calm(q, Append(q, t))
<1>1. <<t>> \in Seq(Tasks) /\ Append(q, t) = q \o <<t>>
  BY Appended
<1>2. Silent(<<t>>, "media")
  BY DEF Silent
<1> QED  BY <1>1, <1>2, CalmPosted

\* The first task runs. If it says something of the media, nothing else may be left to
\* say it.
LEMMA RunSays ==
  ASSUME NEW q \in Seq(Tasks), q # <<>>
  PROVE  /\ Silent(q, "media") => Silent(Tail(q), "media") /\ Head(q).type # "media"
         /\ \A v : Says(q, v) => \/ Says(Tail(q), v)
                                 \/ Head(q) = MediaState(v) /\ Silent(Tail(q), "media")
<1> DEFINE p == Tail(q)
<1>1. /\ Len(p) = Len(q) - 1 /\ Len(q) \in Nat \ {0}
      /\ DOMAIN p = 1 .. Len(p) /\ DOMAIN q = 1 .. Len(q)
      /\ \A i \in DOMAIN p : p[i] = q[i + 1]
      /\ Head(q) = q[1]
  OBVIOUS
<1> HIDE DEF p
<1>2. ASSUME Silent(q, "media") PROVE Silent(p, "media") /\ Head(q).type # "media"
  <2>1. 1 \in DOMAIN q /\ \A i \in DOMAIN p : i + 1 \in DOMAIN q
    BY <1>1
  <2> QED  BY <1>1, <1>2, <2>1 DEF Silent
<1>3. ASSUME NEW v, Says(q, v)
      PROVE  Says(p, v) \/ (Head(q) = MediaState(v) /\ Silent(p, "media"))
  <2>1. PICK i \in DOMAIN q :
          q[i] = MediaState(v) /\ \A j \in i + 1 .. Len(q) : q[j].type # "media"
    BY <1>3 DEF Says
  <2>2. CASE i = 1
    <3>1. \A j \in DOMAIN p : j + 1 \in 2 .. Len(q)
      BY <1>1
    <3> QED  BY <1>1, <2>1, <2>2, <3>1 DEF Silent
  <2>3. CASE i # 1
    <3>1. i - 1 \in DOMAIN p /\ p[i - 1] = q[i]
      BY <1>1, <2>1, <2>3
    <3>2. ASSUME NEW j \in (i - 1) + 1 .. Len(p) PROVE p[j].type # "media"
      <4>1. j + 1 \in i + 1 .. Len(q) /\ j \in DOMAIN p
        BY <1>1, <2>1, <3>1
      <4> QED  BY <1>1, <2>1, <4>1
    <3> QED  BY <2>1, <3>1, <3>2 DEF Says
  <2> QED  BY <2>2, <2>3
<1> QED  BY <1>2, <1>3 DEF p

LEMMA CalmRun ==
  ASSUME NEW q \in Seq(Tasks), q # <<>>, Head(q).type # "media"
  PROVE  Calm(q, Tail(q))
<1>1. \A v : Head(q) # MediaState(v)
  BY DEF MediaState
<1> QED  BY <1>1, RunSays DEF Calm

LEMMA SaysLast ==
  ASSUME NEW q \in Seq(Tasks), NEW v \in Nat
  PROVE  Says(Append(q, MediaState(v)), v)
<1> DEFINE t == MediaState(v)
           p == Append(q, t)
<1>1. t \in Tasks
  BY DEF MediaState, Tasks, SignalingTasks, MediaStates
<1> HIDE DEF t
<1>2. Len(p) \in DOMAIN p /\ p[Len(p)] = t /\ Len(p) \in Nat
  BY <1>1
<1> HIDE DEF p
<1>3. \A j \in Len(p) + 1 .. Len(p) : FALSE
  BY <1>2
<1> QED  BY <1>2, <1>3 DEF Says, p, t

LEMMA WayCalm ==
  ASSUME NEW n, NEW o, NEW w, NEW s, NEW r, NEW k, NEW v,
         Way(n, w, s, k, v), Calm(n, o), Calm(s, r)
  PROVE  Way(o, w, r, k, v)
BY DEF Way, Calm

\* The states move on: onto the wire,
LEMMA WaySent ==
  ASSUME NEW n \in Seq(Tasks), n # <<>>, NEW w \in Seq(Nat), NEW s, NEW k, NEW v, NEW u \in Nat,
         Way(n, w, s, k, v), Head(n) = MediaState(u)
  PROVE  Way(Tail(n), Append(w, u), s, k, v)
<1>1. Head(n).type = "media"
  BY DEF MediaState
<1>2. Says(n, v)
  BY <1>1, RunSays DEF Way
<1>3. Says(Tail(n), v) \/ (Head(n) = MediaState(v) /\ Silent(Tail(n), "media"))
  BY <1>2, RunSays
<1>4. Append(w, u) # <<>> /\ Append(w, u)[Len(Append(w, u))] = u
  OBVIOUS
<1>5. Head(n) = MediaState(v) => u = v
  BY DEF MediaState
<1> QED  BY <1>3, <1>4, <1>5 DEF Way

\* to the peer,
LEMMA WayHeard ==
  ASSUME NEW n, NEW w \in Seq(Nat), w # <<>>, NEW s \in Seq(Tasks), NEW k, NEW v \in Nat,
         Way(n, w, s, k, v)
  PROVE  Way(n, Tail(w), Append(s, MediaState(Head(w))), k, v)
<1>1. CASE Says(n, v)
  BY <1>1 DEF Way
<1>2. CASE ~ Says(n, v)
  <2>1. Silent(n, "media") /\ w[Len(w)] = v
    BY <1>2 DEF Way
  <2> DEFINE r == Tail(w)
  <2>a. /\ Len(w) \in Nat \ {0} /\ Len(r) = Len(w) - 1 /\ r \in Seq(Nat)
        /\ Head(w) = w[1]
        /\ \A i \in 1 .. Len(r) : r[i] = w[i + 1]
    OBVIOUS
  <2> HIDE DEF r
  <2>2. CASE Len(w) = 1
    <3>1. r = <<>> /\ Head(w) = v
      BY <2>1, <2>2, <2>a
    <3>2. Says(Append(s, MediaState(v)), v)
      BY SaysLast
    <3> QED  BY <2>1, <3>1, <3>2 DEF Way, r
  <2>3. CASE Len(w) # 1
    <3>1. Len(r) \in 1 .. Len(r) /\ Len(r) + 1 = Len(w)
      BY <2>3, <2>a
    <3>2. r[Len(r)] = w[Len(w)] /\ r # <<>>
      BY <2>a, <3>1
    <3> QED  BY <2>1, <3>2 DEF Way, r
  <2> QED  BY <2>2, <2>3
<1> QED  BY <1>1, <1>2

\* and into what it knows.
LEMMA WayKnown ==
  ASSUME NEW n, NEW w, NEW s \in Seq(Tasks), s # <<>>, NEW k, NEW v, NEW u,
         Way(n, w, s, k, v), Head(s) = MediaState(u)
  PROVE  Way(n, w, Tail(s), u, v)
<1>1. Head(s).type = "media"
  BY DEF MediaState
<1>2. ~ Silent(s, "media")
  BY <1>1, RunSays
<1>3. Says(s, v) => Says(Tail(s), v) \/ (Head(s) = MediaState(v) /\ Silent(Tail(s), "media"))
  BY RunSays
<1>4. Head(s) = MediaState(v) => u = v
  BY DEF MediaState
<1> QED  BY <1>2, <1>3, <1>4 DEF Way

\* A step that has nothing to do with the media of x.
LEMMA UnderWayKept ==
  ASSUME NEW x \in Ends, UnderWay(x), media'[x] = media[x],
         x \in history'.crossed <=> x \in history.crossed,
         ends'[x].open = ends[x].open,
         Calm(ends[x].network, ends'[x].network),
         Calm(ends[Peer(x)].signaling, ends'[Peer(x)].signaling)
  PROVE  UnderWay(x)'
<1>1. Newest(x, media[x].now) => Newest(x, media[x].now)'
  BY WayCalm DEF Newest
<1> QED  BY <1>1 DEF UnderWay, Steady

LEMMA QuietStep ==
  ASSUME Types, NewestUnderWay, NEW e \in Ends,
         UNCHANGED media, history'.crossed = history.crossed,
         \A x \in Ends \ {e} : ends'[x] = ends[x],
         ends'[e].open = ends[e].open,
         Calm(ends[e].network, ends'[e].network),
         Calm(ends[e].signaling, ends'[e].signaling)
  PROVE  NewestUnderWay'
<1> SUFFICES ASSUME NEW x \in Ends PROVE UnderWay(x)'
  BY DEF NewestUnderWay
<1>1. UnderWay(x)
  BY DEF NewestUnderWay
<1>2. \A y \in Ends : /\ ends'[y].open = ends[y].open
                      /\ Calm(ends[y].network, ends'[y].network)
                      /\ Calm(ends[y].signaling, ends'[y].signaling)
  BY CalmSame
<1>3. media'[x] = media[x] /\ Peer(x) \in Ends
  BY PeerType
<1> QED  BY <1>1, <1>2, <1>3, UnderWayKept

\* Only the media of e is concerned.
LEMMA OtherMedia ==
  ASSUME Types, NewestUnderWay, NEW e \in Ends, UnderWay(e)',
         \A x \in Ends \ {e} : /\ media'[x] = media[x]
                               /\ x \in history'.crossed <=> x \in history.crossed,
         \A x \in Ends \ {e} : /\ ends'[x].open = ends[x].open
                               /\ Calm(ends[x].network, ends'[x].network)
                               /\ Calm(ends[Peer(x)].signaling, ends'[Peer(x)].signaling)
  PROVE  NewestUnderWay'
<1> SUFFICES ASSUME NEW x \in Ends, x # e PROVE UnderWay(x)'
  BY DEF NewestUnderWay
<1>1. UnderWay(x)
  BY DEF NewestUnderWay
<1> QED  BY <1>1, UnderWayKept

\* The end e keeps its queues, or their tasks change without a word of the media.
LEMMA QuietQueues ==
  ASSUME Types, NewestUnderWay, NEW e \in Ends, NEW q, NEW p,
         UNCHANGED media, history'.crossed = history.crossed,
         \A x \in Ends \ {e} : ends'[x] = ends[x],
         Signals(ends[e], ends'[e], q), Transports(ends[e], ends'[e], p),
         Calm(ends[e].signaling, q), Calm(ends[e].network, p)
  PROVE  NewestUnderWay'
BY QuietStep DEF Signals, Transports

LEMMA DeliverQuiet ==
  ASSUME Types, NewestUnderWay, NEW e \in Ends, Deliver(e) \/ Repeat(e)
  PROVE  NewestUnderWay'
<1>1. PICK n \in Nat : ends' = [ends EXCEPT ![e] = SendSignalingData(@, n)]
  <2>1. got[e] + 1 \in Nat /\ \A n \in 1 .. got[e] - 1 : n \in Nat
    BY DEF Types
  <2> QED  BY <2>1 DEF Deliver, Repeat
<1>2. /\ ends[e] \in End /\ ends[e].signaling \in Seq(Tasks)
      /\ ends'[e] = SendSignalingData(ends[e], n)
      /\ \A x \in Ends \ {e} : ends'[x] = ends[x]
  BY <1>1, TaskQueue DEF Types, End
<1>3. media' = media /\ history'.crossed = history.crossed
  BY DEF Deliver, Repeat, Types, History
<1>4. Handle(n) \in Tasks /\ Handle(n).type # "media"
  BY DEF Handle, Tasks, SignalingTasks, Handlings
<1>5. /\ Transports(ends[e], ends'[e], ends[e].network)
      /\ \/ ends'[e].signaling = ends[e].signaling
         \/ ends'[e].signaling = Append(ends[e].signaling, Handle(n))
  BY <1>2, SendSignalingDataKeeps DEF Signals
<1>6. Calm(ends[e].signaling, ends'[e].signaling)
  BY <1>2, <1>4, <1>5, CalmPostedOne, CalmSame
<1>7. Calm(ends[e].network, ends'[e].network) /\ ends'[e].open = ends[e].open
  BY <1>5, CalmSame DEF Transports
<1> QED  BY <1>2, <1>3, <1>6, <1>7, QuietStep

LEMMA FlushQuiet ==
  ASSUME Types, NewestUnderWay, NEW e \in Ends, Flush(e)
  PROVE  NewestUnderWay'
<1> DEFINE r == [i \in DOMAIN ends[e].early |-> Handle(ends[e].early[i])]
<1>1. /\ ends'[e].signaling = ends[e].signaling \o r
      /\ Transports(ends[e], ends'[e], ends[e].network)
      /\ \A x \in Ends \ {e} : ends'[x] = ends[x]
  BY FlushEffect
<1>2. ends[e].signaling \in Seq(Tasks) /\ ends[e].early \in Seq(Nat)
  BY TaskQueue DEF Types, End
<1>3. \A n \in Nat : Handle(n) \in Tasks /\ Handle(n).type # "media"
  BY DEF Handle, Tasks, SignalingTasks, Handlings
<1>4. /\ DOMAIN ends[e].early = 1 .. Len(ends[e].early) /\ Len(ends[e].early) \in Nat
      /\ \A i \in DOMAIN ends[e].early : ends[e].early[i] \in Nat
  BY <1>2
<1>5. r \in Seq(Tasks) /\ Silent(r, "media")
  BY <1>3, <1>4 DEF Silent
<1> HIDE DEF r
<1>6. Calm(ends[e].signaling, ends'[e].signaling)
  BY <1>1, <1>2, <1>5, CalmPosted
<1>7. Calm(ends[e].network, ends'[e].network) /\ ends'[e].open = ends[e].open
  BY <1>1, CalmSame DEF Transports
<1>8. media' = media /\ history'.crossed = history.crossed
  BY DEF Flush
<1> QED  BY <1>1, <1>6, <1>7, <1>8, QuietStep

\* A task of the signaling thread that is not about the media, and what it posts.
LEMMA ProcessQuiet ==
  ASSUME TypeOK, Types', NewestUnderWay, NEW e \in Ends,
         Send(e) \/ ProcessSetup(e) \/ ProcessCandidate(e) \/ ProcessChannels(e)
  PROVE  NewestUnderWay'
<1>1. /\ Types /\ ends[e] \in End /\ ends'[e] \in End
      /\ ends[e].signaling \in Seq(Tasks) /\ ends[e].network \in Seq(Tasks)
  BY TaskQueue DEF TypeOK, Types, End
<1>2. ends[e].signaling # <<>> /\ Head(ends[e].signaling).type # "media"
  BY DEF Send, ProcessSetup, ProcessCandidate, ProcessChannels, Signaling
<1>3. Calm(ends[e].signaling, Tail(ends[e].signaling))
  BY <1>1, <1>2, CalmRun
<1>4. /\ Signals(ends[e], ends'[e], Tail(ends[e].signaling))
      /\ \A x \in Ends \ {e} : ends'[x] = ends[x]
  BY <1>1, SendEffect, ProcessSetupEffect, ProcessCandidateEffect, ProcessChannelsEffect
<1>5. media' = media /\ history'.crossed = history.crossed
  BY DEF Send, ProcessSetup, ProcessCandidate, ProcessChannels, Handled, TypeOK, Types, History
<1>6. Calm(ends[e].network, ends'[e].network) /\ ends'[e].open = ends[e].open
  <2>1. CASE Send(e)
    BY <1>1, <2>1, SendEffect, CalmSame DEF Transports
  <2>2. CASE ProcessSetup(e)
    <3>1. PICK taken \in End, answered \in End :
            /\ Transports([ends[e] EXCEPT !.handshake = TRUE], taken,
                 Append(ends[e].network, Remote))
            /\ \/ answered = taken
               \/ Transports(taken, answered, Append(taken.network, Setup))
            /\ Transports(answered, ends'[e], answered.network \o Waiting(answered))
      BY <2>2, ProcessSetupEffect DEF SetUp
    <3>2. /\ Setup \in Tasks /\ Setup.type # "media"
          /\ Remote \in Tasks /\ Remote.type # "media"
      BY DEF Setup, Remote, Tasks, SignalingTasks, NetworkTasks
    <3>3. [ends[e] EXCEPT !.handshake = TRUE].open = ends[e].open
      BY <1>1 DEF End
    <3>4. taken.network = Append(ends[e].network, Remote) /\ taken.open = ends[e].open
      BY <3>1, <3>3 DEF Transports
    <3>5. Calm(ends[e].network, taken.network)
      BY <1>1, <3>2, <3>4, CalmPostedOne
    <3>6. taken.network \in Seq(Tasks) /\ answered.network \in Seq(Tasks)
      BY TaskQueue DEF End
    <3>7. Calm(taken.network, answered.network) /\ answered.open = taken.open
      <4>1. CASE answered = taken
        BY <4>1, CalmSame
      <4>2. CASE Transports(taken, answered, Append(taken.network, Setup))
        BY <3>2, <3>6, <4>2, CalmPostedOne DEF Transports
      <4> QED  BY <3>1, <4>1, <4>2
    <3>8. Waiting(answered) \in Seq(Tasks) /\ Silent(Waiting(answered), "media")
      BY ApplyPendingKeeps DEF Silent
    <3>9. Calm(answered.network, ends'[e].network) /\ ends'[e].open = answered.open
      BY <3>1, <3>6, <3>8, CalmPosted DEF Transports
    <3>10. Calm(ends[e].network, answered.network)
      BY <3>5, <3>7, CalmTwice
    <3> QED  BY <3>4, <3>7, <3>9, <3>10, CalmTwice
  <2>3. CASE ProcessCandidate(e)
    <3>1. PICK r \in Seq(Tasks) :
            /\ Transports(ends[e], ends'[e], ends[e].network \o r)
            /\ \A i \in DOMAIN r : r[i].type = "candidate" /\ ends[e].handshake
      BY <2>3, ProcessCandidateEffect
    <3>2. Silent(r, "media")
      BY <3>1 DEF Silent
    <3> QED  BY <1>1, <3>1, <3>2, CalmPosted DEF Transports
  <2>4. CASE ProcessChannels(e)
    <3>1. PICK t : t.type = "channels" /\
                   Transports(ends[e], ends'[e], Append(ends[e].network, t))
      BY <2>4, ProcessChannelsEffect
    <3>2. t \in Tasks
      <4>1. ends'[e].network = Append(ends[e].network, t)
        BY <3>1 DEF Transports
      <4>2. ends'[e].network \in Seq(NetworkTasks) /\ ends[e].network \in Seq(NetworkTasks)
        BY <1>1 DEF End
      <4>3. /\ Len(ends'[e].network) \in DOMAIN ends'[e].network
            /\ ends'[e].network[Len(ends'[e].network)] = t
        BY <4>1, <4>2
      <4> QED  BY <4>2, <4>3 DEF Tasks
    <3> QED  BY <1>1, <3>1, <3>2, CalmPostedOne DEF Transports
  <2> QED  BY <2>1, <2>2, <2>3, <2>4
<1>7. Calm(ends[e].signaling, ends'[e].signaling)
  BY <1>3, <1>4 DEF Signals
<1> QED  BY <1>1, <1>4, <1>5, <1>6, <1>7, QuietStep

\* A task of the network thread that is not about the media, or a candidate found.
LEMMA NetworkQuiet ==
  ASSUME Types, Types', NewestUnderWay, NEW e \in Ends,
         ReadParameters(e) \/ SetRemoteParams(e) \/ AddRemoteCandidate(e) \/ ApplyChannels(e)
  PROVE  NewestUnderWay'
<1>1. /\ ends[e] \in End
      /\ ends[e].signaling \in Seq(Tasks) /\ ends[e].network \in Seq(Tasks)
  BY TaskQueue DEF Types, End
<1>2. ends[e].network # <<>> /\ Head(ends[e].network).type # "media"
  BY DEF ReadParameters, SetRemoteParams, AddRemoteCandidate, ApplyChannels, Network
<1>3. Calm(ends[e].network, Tail(ends[e].network))
  BY <1>1, <1>2, CalmRun
<1>4. \A s : /\ [ends[e] EXCEPT !.remote = TRUE].open = ends[e].open
             /\ [ends[e] EXCEPT !.added = s].open = ends[e].open
  BY <1>1 DEF End
<1>5. /\ ends'[e].network = Tail(ends[e].network) /\ ends'[e].open = ends[e].open
      /\ \A x \in Ends \ {e} : ends'[x] = ends[x]
  BY <1>4, ReadParametersEffect, SetRemoteParamsEffect, AddRemoteCandidateEffect,
     ApplyChannelsEffect DEF Transports
<1>6. Setup \in Tasks /\ Setup.type # "media"
  BY DEF Setup, Tasks, SignalingTasks
<1>7. \/ ends'[e].signaling = Append(ends[e].signaling, Setup)
      \/ ends'[e].signaling = ends[e].signaling
  BY ReadParametersEffect, SetRemoteParamsEffect, AddRemoteCandidateEffect,
     ApplyChannelsEffect DEF Signals
<1>8. Calm(ends[e].signaling, ends'[e].signaling)
  BY <1>1, <1>6, <1>7, CalmPostedOne, CalmSame
<1>9. media' = media /\ history'.crossed = history.crossed
  BY DEF ReadParameters, SetRemoteParams, AddRemoteCandidate, ApplyChannels
<1> QED  BY <1>3, <1>5, <1>8, <1>9, QuietStep

\* The steps of the media themselves.
LEMMA SendOnChannelStep ==
  ASSUME Types, NewestUnderWay, NEW e \in Ends, SendOnChannel(e)
  PROVE  NewestUnderWay'
<1> DEFINE u == Subject(e).value
           n == ends[e].network
           w == media[e].wire
<1>1. /\ n # <<>> /\ Subject(e) = Head(n) /\ Subject(e).type = "media"
      /\ Subject(e) \in NetworkTasks
  BY RanType DEF SendOnChannel, Network, Subject
<1>2. Subject(e) \in MediaStates
  BY <1>1, TaskOfType
<1>3. u \in Nat /\ Head(n) = MediaState(u)
  BY <1>1, <1>2 DEF MediaStates, MediaState
<1>4. n \in Seq(Tasks) /\ w \in Seq(Nat) /\ media[e] \in Media
  BY TaskQueue DEF Types, End, Media
<1>5. /\ Signals(ends[e], ends'[e], ends[e].signaling)
      /\ Transports(ends[e], ends'[e], Tail(n))
      /\ \A x \in Ends \ {e} : ends'[x] = ends[x]
  BY SendOnChannelEffect
<1>6. /\ media' = [media EXCEPT ![e].wire = Append(@, u)]
      /\ history' = history
  BY DEF SendOnChannel
<1>7. /\ media'[e].wire = Append(w, u)
      /\ media'[e].now = media[e].now /\ media'[e].known = media[e].known
      /\ media'[e].task = media[e].task /\ media'[e].worker = media[e].worker
      /\ media'[e].opening = media[e].opening
      /\ \A x \in Ends \ {e} : media'[x] = media[x]
  <2> HIDE DEF u
  <2> QED  BY <1>4, <1>6 DEF Types, Media
<1> HIDE DEF u
<1>8. UnderWay(e)'
  <2>1. UnderWay(e)
    BY DEF NewestUnderWay
  <2>2. Peer(e) \in Ends \ {e}
    BY PeerType
  <2>3. ends'[Peer(e)] = ends[Peer(e)] /\ ends'[e].network = Tail(n) /\ ends'[e].open = ends[e].open
    BY <1>5, <2>2 DEF Transports
  <2>4. Newest(e, media[e].now) =>
          Way(Tail(n), Append(w, u), ends[Peer(e)].signaling, media[e].known, media[e].now)
    BY <1>1, <1>3, <1>4, WaySent DEF Newest
  <2>5. Newest(e, media[e].now) => Newest(e, media[e].now)'
    BY <1>7, <2>3, <2>4 DEF Newest
  <2> QED  BY <1>6, <1>7, <2>1, <2>3, <2>5 DEF UnderWay, Steady
<1>9. \A x \in Ends \ {e} : /\ ends'[x].open = ends[x].open
                            /\ Calm(ends[x].network, ends'[x].network)
                            /\ Calm(ends[Peer(x)].signaling, ends'[Peer(x)].signaling)
  <2>1. \A x \in Ends : ends'[x].signaling = ends[x].signaling
    BY <1>5 DEF Signals
  <2> QED  BY <1>5, <2>1, CalmSame, PeerType
<1> QED  BY <1>6, <1>7, <1>8, <1>9, OtherMedia

LEMMA HearStep ==
  ASSUME Types, NewestUnderWay, NEW e \in Ends, Hear(e)
  PROVE  NewestUnderWay'
<1> DEFINE f == Peer(e)
           w == media[f].wire
           s == ends[e].signaling
           t == MediaState(Head(w))
<1>1. f \in Ends /\ f # e /\ Peer(f) = e
  BY PeerType
<1>2. s \in Seq(Tasks) /\ w \in Seq(Nat) /\ w # <<>> /\ media[f] \in Media
  BY <1>1, TaskQueue DEF Hear, Types, End, Media
<1>3. /\ Signals(ends[e], ends'[e], Append(s, t))
      /\ Transports(ends[e], ends'[e], ends[e].network)
      /\ \A x \in Ends \ {e} : ends'[x] = ends[x]
  BY HearEffect
<1>4. media' = [media EXCEPT ![f].wire = Tail(@)] /\ history' = history
  BY DEF Hear
<1> HIDE DEF f
<1>5. /\ media'[f].wire = Tail(w)
      /\ media'[f].now = media[f].now /\ media'[f].known = media[f].known
      /\ media'[f].task = media[f].task /\ media'[f].worker = media[f].worker
      /\ media'[f].opening = media[f].opening
      /\ \A x \in Ends \ {f} : media'[x] = media[x]
  BY <1>1, <1>2, <1>4 DEF Types, Media
<1>6. UnderWay(f)'
  <2>1. UnderWay(f)
    BY <1>1 DEF NewestUnderWay
  <2>2. ends'[f] = ends[f] /\ ends'[e].signaling = Append(s, t)
    BY <1>1, <1>3 DEF Signals
  <2>3. media[f].now \in Nat
    BY <1>2 DEF Media
  <2>4. Newest(f, media[f].now) =>
          Way(ends[f].network, Tail(w), Append(s, t), media[f].known, media[f].now)
    BY <1>1, <1>2, <2>3, WayHeard DEF Newest
  <2>5. Newest(f, media[f].now) => Newest(f, media[f].now)'
    BY <1>1, <1>5, <2>2, <2>4 DEF Newest
  <2> QED  BY <1>4, <1>5, <2>1, <2>2, <2>5 DEF UnderWay, Steady
<1>7. \A x \in Ends \ {f} : /\ ends'[x].open = ends[x].open
                            /\ Calm(ends[x].network, ends'[x].network)
                            /\ Calm(ends[Peer(x)].signaling, ends'[Peer(x)].signaling)
  <2>1. \A x \in Ends : ends'[x].open = ends[x].open /\ ends'[x].network = ends[x].network
    BY <1>3 DEF Transports
  <2>2. \A x \in Ends \ {f} : Peer(x) \in Ends \ {e}
    BY <1>1, PeerType DEF Peer, Ends
  <2> QED  BY <1>3, <2>1, <2>2, CalmSame
<1> QED  BY <1>1, <1>4, <1>5, <1>6, <1>7, OtherMedia

LEMMA ProcessMediaStep ==
  ASSUME Types, NewestUnderWay, NEW e \in Ends, ProcessMedia(e)
  PROVE  NewestUnderWay'
<1> DEFINE f == Peer(e)
           s == ends[e].signaling
           u == Head(s).value
<1>1. f \in Ends /\ f # e /\ Peer(f) = e
  BY PeerType
<1>2. /\ s # <<>> /\ Head(s).type = "media" /\ Head(s) \in SignalingTasks
  BY RestType DEF ProcessMedia, Signaling
<1>3. Head(s) \in MediaStates
  BY <1>2, TaskOfType
<1>4. u \in Nat /\ Head(s) = MediaState(u)
  BY <1>3 DEF MediaStates, MediaState
<1>5. s \in Seq(Tasks) /\ media[f] \in Media
  BY <1>1, TaskQueue DEF Types, End
<1>6. /\ Signals(ends[e], ends'[e], Tail(s))
      /\ Transports(ends[e], ends'[e], ends[e].network)
      /\ \A x \in Ends \ {e} : ends'[x] = ends[x]
  BY ProcessMediaEffect
<1>7. media' = [media EXCEPT ![f].known = u] /\ history' = history
  BY DEF ProcessMedia
<1> HIDE DEF f, u
<1>8. /\ media'[f].wire = media[f].wire
      /\ media'[f].now = media[f].now /\ media'[f].known = u
      /\ media'[f].task = media[f].task /\ media'[f].worker = media[f].worker
      /\ media'[f].opening = media[f].opening
      /\ \A x \in Ends \ {f} : media'[x] = media[x]
  BY <1>1, <1>5, <1>7 DEF Types, Media
<1>9. UnderWay(f)'
  <2>1. UnderWay(f)
    BY <1>1 DEF NewestUnderWay
  <2>2. ends'[f] = ends[f] /\ ends'[e].signaling = Tail(s)
    BY <1>1, <1>6 DEF Signals
  <2>3. Newest(f, media[f].now) =>
          Way(ends[f].network, media[f].wire, Tail(s), u, media[f].now)
    BY <1>1, <1>2, <1>4, <1>5, WayKnown DEF Newest
  <2>4. Newest(f, media[f].now) => Newest(f, media[f].now)'
    BY <1>1, <1>8, <2>2, <2>3 DEF Newest
  <2> QED  BY <1>7, <1>8, <2>1, <2>2, <2>4 DEF UnderWay, Steady
<1>10. \A x \in Ends \ {f} : /\ ends'[x].open = ends[x].open
                             /\ Calm(ends[x].network, ends'[x].network)
                             /\ Calm(ends[Peer(x)].signaling, ends'[Peer(x)].signaling)
  <2>1. \A x \in Ends : ends'[x].open = ends[x].open /\ ends'[x].network = ends[x].network
    BY <1>6 DEF Transports
  <2>2. \A x \in Ends \ {f} : Peer(x) \in Ends \ {e}
    BY <1>1, PeerType DEF Peer, Ends
  <2> QED  BY <1>6, <2>1, <2>2, CalmSame
<1> QED  BY <1>1, <1>7, <1>8, <1>9, <1>10, OtherMedia

LEMMA OpenedStep ==
  ASSUME Types, NewestUnderWay, NEW e \in Ends, Opened(e)
  PROVE  NewestUnderWay'
<1> DEFINE t == MediaState(media[e].opening[1])
<1>1. /\ ends[e].network \in Seq(Tasks) /\ media[e] \in Media /\ media[e].opening # <<>>
  BY TaskQueue DEF Opened, Types, End
<1>2. /\ Signals(ends[e], ends'[e], ends[e].signaling)
      /\ Transports(ends[e], ends'[e], Append(ends[e].network, t))
      /\ \A x \in Ends \ {e} : ends'[x] = ends[x]
  BY OpenedEffect
<1>3. media' = [media EXCEPT ![e].opening = <<>>] /\ history' = history
  BY DEF Opened
<1>4. /\ media'[e].now = media[e].now
      /\ media'[e].task = media[e].task /\ media'[e].worker = media[e].worker
      /\ media'[e].opening = <<>>
      /\ \A x \in Ends \ {e} : media'[x] = media[x]
  BY <1>1, <1>3 DEF Types, Media
<1>5. UnderWay(e)'
  <2>1. UnderWay(e)
    BY DEF NewestUnderWay
  <2>2. ASSUME Steady(e) PROVE Newest(e, media[e].now)'
    <3>1. media[e].opening = <<media[e].now>>
      BY <1>1, <2>1, <2>2 DEF UnderWay
    <3>2. media[e].opening[1] = media[e].now /\ media[e].now \in Nat
      BY <1>1, <3>1 DEF Media
    <3>3. Says(Append(ends[e].network, t), media[e].now)
      BY <1>1, <3>2, SaysLast
    <3>4. Says(ends'[e].network, media'[e].now)
      BY <1>2, <1>4, <3>3 DEF Transports
    <3> QED  BY <3>4 DEF Newest, Way
  <2> QED  BY <1>3, <1>4, <2>1, <2>2 DEF UnderWay, Steady
<1>6. \A x \in Ends \ {e} : /\ ends'[x].open = ends[x].open
                            /\ Calm(ends[x].network, ends'[x].network)
                            /\ Calm(ends[Peer(x)].signaling, ends'[Peer(x)].signaling)
  <2>1. \A x \in Ends : ends'[x].signaling = ends[x].signaling
    BY <1>2 DEF Signals
  <2> QED  BY <1>2, <2>1, CalmSame, PeerType
<1> QED  BY <1>3, <1>4, <1>5, <1>6, OtherMedia

LEMMA OpenStep ==
  ASSUME Types, NewestUnderWay, NEW e \in Ends, Open(e)
  PROVE  NewestUnderWay'
<1>1. media[e] \in Media /\ ends[e] \in End
  BY DEF Types
<1>2. /\ Signals(ends[e], ends'[e], ends[e].signaling)
      /\ \A x \in Ends \ {e} : ends'[x] = ends[x]
  BY OpenEffect
<1>3. media' = [media EXCEPT ![e].opening = <<media[e].now>>] /\ history' = history
  BY DEF Open
<1>4. /\ media'[e].now = media[e].now
      /\ media'[e].task = media[e].task /\ media'[e].worker = media[e].worker
      /\ media'[e].opening = <<media[e].now>>
      /\ \A x \in Ends \ {e} : media'[x] = media[x]
  BY <1>1, <1>3 DEF Types, Media
<1>5. UnderWay(e)'
  <2>1. UnderWay(e)
    BY DEF NewestUnderWay
  <2>2. <<media[e].now>> # <<>>
    OBVIOUS
  <2> QED  BY <1>3, <1>4, <2>1, <2>2 DEF UnderWay
<1>6. \A x \in Ends \ {e} : /\ ends'[x].open = ends[x].open
                            /\ Calm(ends[x].network, ends'[x].network)
                            /\ Calm(ends[Peer(x)].signaling, ends'[Peer(x)].signaling)
  <2>1. \A x \in Ends : ends'[x].signaling = ends[x].signaling
    BY <1>2 DEF Signals
  <2> QED  BY <1>2, <2>1, CalmSame, PeerType
<1> QED  BY <1>3, <1>4, <1>5, <1>6, OtherMedia

LEMMA WorkerStep ==
  ASSUME Types, NewestUnderWay, NEW e \in Ends, Change(e) \/ Emit(e)
  PROVE  NewestUnderWay'
<1>1. media[e] \in Media /\ ends' = ends /\ history' = history
  BY DEF Types, Change, Emit
<1>2. \A x \in Ends \ {e} : media'[x] = media[x]
  BY DEF Types, Change, Emit
<1>3. UnderWay(e)'
  <2>1. CASE Change(e)
    <3>1. media'[e].task
      BY <2>1 DEF Change, Types, Media
    <3> QED  BY <3>1 DEF UnderWay, Steady
  <2>2. CASE Emit(e)
    <3>1. media'[e].worker = <<media[e].now>> /\ media'[e].now = media[e].now
      BY <2>2 DEF Emit, Types, Media
    <3>2. <<media[e].now>> # <<>>
      OBVIOUS
    <3> QED  BY <3>1, <3>2 DEF UnderWay, Steady
  <2> QED  BY <2>1, <2>2
<1>4. \A x \in Ends \ {e} : /\ ends'[x].open = ends[x].open
                            /\ Calm(ends[x].network, ends'[x].network)
                            /\ Calm(ends[Peer(x)].signaling, ends'[Peer(x)].signaling)
  BY <1>1, CalmSame
<1> QED  BY <1>1, <1>2, <1>3, <1>4, OtherMedia

LEMMA SendMediaStateStep ==
  ASSUME Types, NewestUnderWay, NEW e \in Ends, SendMediaState(e)
  PROVE  NewestUnderWay'
<1> DEFINE t == MediaState(media[e].worker[1])
           c == IF media[e].opening # <<>> THEN history.crossed \cup {e} ELSE history.crossed
<1>1. /\ ends[e].network \in Seq(Tasks) /\ media[e] \in Media /\ media[e].worker # <<>>
      /\ history \in History
  BY TaskQueue DEF SendMediaState, Types, End
<1>2. /\ Signals(ends[e], ends'[e], ends[e].signaling)
      /\ Transports(ends[e], ends'[e],
           IF ends[e].open THEN Append(ends[e].network, t) ELSE ends[e].network)
      /\ \A x \in Ends \ {e} : ends'[x] = ends[x]
  BY SendMediaStateEffect
<1>3. /\ media' = [media EXCEPT ![e].worker = <<>>]
      /\ history' = [history EXCEPT !.crossed = c]
  BY DEF SendMediaState
<1>4. /\ media'[e].now = media[e].now
      /\ media'[e].task = media[e].task /\ media'[e].worker = <<>>
      /\ media'[e].opening = media[e].opening
      /\ \A x \in Ends \ {e} : media'[x] = media[x]
  BY <1>1, <1>3 DEF Types, Media
<1>5. history'.crossed = c
  BY <1>1, <1>3 DEF History
<1>6. UnderWay(e)'
  <2>1. UnderWay(e)
    BY DEF NewestUnderWay
  <2>2. CASE media[e].opening # <<>>
    <3>1. e \in history'.crossed
      BY <1>5, <2>2
    <3> QED  BY <1>4, <3>1 DEF UnderWay, Steady
  <2>3. CASE media[e].opening = <<>>
    <3>1. ASSUME ~ media[e].task, ends[e].open PROVE Newest(e, media[e].now)'
      <4>1. media[e].worker = <<media[e].now>>
        BY <1>1, <2>1, <3>1 DEF UnderWay
      <4>2. media[e].worker[1] = media[e].now /\ media[e].now \in Nat
        BY <1>1, <4>1 DEF Media
      <4>3. Says(Append(ends[e].network, t), media[e].now)
        BY <1>1, <4>2, SaysLast
      <4>4. Says(ends'[e].network, media'[e].now)
        BY <1>2, <1>4, <3>1, <4>3 DEF Transports
      <4> QED  BY <4>4 DEF Newest, Way
    <3>2. ends'[e].open = ends[e].open
      BY <1>2 DEF Transports
    <3> QED  BY <1>4, <2>3, <3>1, <3>2 DEF UnderWay, Steady
  <2> QED  BY <2>2, <2>3
<1>7. \A x \in Ends \ {e} : x \in history'.crossed <=> x \in history.crossed
  BY <1>5
<1>8. \A x \in Ends \ {e} : /\ ends'[x].open = ends[x].open
                            /\ Calm(ends[x].network, ends'[x].network)
                            /\ Calm(ends[Peer(x)].signaling, ends'[Peer(x)].signaling)
  <2>1. \A x \in Ends : ends'[x].signaling = ends[x].signaling
    BY <1>2 DEF Signals
  <2> QED  BY <1>2, <2>1, CalmSame, PeerType
<1> QED  BY <1>4, <1>6, <1>7, <1>8, OtherMedia

\* The steps of connect that are left, and a candidate that is found.
LEMMA ConnectQuiet ==
  ASSUME Types, NewestUnderWay, NEW e \in Ends, Connect(e) \/ Start(e) \/ Gather(e)
  PROVE  NewestUnderWay'
<1>1. ends[e].signaling \in Seq(Tasks) /\ ends[e].network \in Seq(Tasks)
  BY TaskQueue DEF Types, End
<1>2. UNCHANGED media /\ history'.crossed = history.crossed
  BY DEF Connect, Start, Gather
<1>3. /\ Calm(ends[e].signaling, ends[e].signaling)
      /\ Calm(ends[e].network, ends[e].network)
  BY CalmSame
<1>4. CASE Connect(e)
  BY <1>2, <1>3, <1>4, ConnectEffect, QuietQueues
<1>5. CASE Start(e)
  <2>1. Setup \in Tasks /\ Setup.type # "media"
    BY DEF Setup, Tasks, SignalingTasks
  <2>2. Calm(ends[e].network, Append(ends[e].network, Setup))
    BY <1>1, <2>1, CalmPostedOne
  <2> QED  BY <1>2, <1>3, <1>5, <2>2, StartEffect, QuietQueues
<1>6. CASE Gather(e)
  <2>1. PICK t \in Candidates : Signals(ends[e], ends'[e], Append(ends[e].signaling, t))
    BY <1>6, GatherEffect
  <2>2. t \in Tasks /\ t.type # "media"
    BY DEF Tasks, SignalingTasks, Candidates
  <2>3. Calm(ends[e].signaling, Append(ends[e].signaling, t))
    BY <1>1, <2>2, CalmPostedOne
  <2> QED  BY <1>2, <1>3, <1>6, <2>1, <2>3, GatherEffect, QuietQueues
<1> QED  BY <1>4, <1>5, <1>6

LEMMA NewestStep ==
  ASSUME TypeOK, Types', NewestUnderWay, [Next]_vars
  PROVE  NewestUnderWay'
<1>1. Types
  BY DEF TypeOK
<1>2. CASE UNCHANGED vars
  BY <1>2 DEF vars, NewestUnderWay, UnderWay, Steady, Newest
<1>3. CASE Next
  <2>1. PICK e \in Ends :
          \/ Connect(e) \/ Application(e) \/ Deliver(e) \/ Repeat(e)
          \/ SignalingThread(e) \/ Gather(e) \/ NetworkThread(e) \/ Open(e) \/ Hear(e)
          \/ Change(e) \/ Worker(e)
    BY <1>3 DEF Next
  <2>2. CASE Connect(e) \/ Start(e) \/ Gather(e)
    BY <1>1, <2>2, ConnectQuiet
  <2>3. CASE Flush(e)
    BY <1>1, <2>3, FlushQuiet
  <2>4. CASE Deliver(e) \/ Repeat(e)
    BY <1>1, <2>4, DeliverQuiet
  <2>5. CASE Send(e) \/ ProcessSetup(e) \/ ProcessCandidate(e) \/ ProcessChannels(e)
    BY <2>5, ProcessQuiet
  <2>6. CASE ProcessMedia(e)
    BY <1>1, <2>6, ProcessMediaStep
  <2>7. CASE ReadParameters(e) \/ SetRemoteParams(e) \/ AddRemoteCandidate(e) \/ ApplyChannels(e)
    BY <1>1, <2>7, NetworkQuiet
  <2>8. CASE SendOnChannel(e)
    BY <1>1, <2>8, SendOnChannelStep
  <2>9. CASE Open(e)
    BY <1>1, <2>9, OpenStep
  <2>10. CASE Opened(e)
    BY <1>1, <2>10, OpenedStep
  <2>11. CASE Hear(e)
    BY <1>1, <2>11, HearStep
  <2>12. CASE Change(e) \/ Emit(e)
    BY <1>1, <2>12, WorkerStep
  <2>13. CASE SendMediaState(e)
    BY <1>1, <2>13, SendMediaStateStep
  <2> QED
    BY <2>1, <2>2, <2>3, <2>4, <2>5, <2>6, <2>7, <2>8, <2>9, <2>10, <2>11, <2>12, <2>13
    DEF Application, SignalingThread, NetworkThread, Worker
<1> QED  BY <1>2, <1>3

\* However the changes of an end's media, the opening of its data channel and the threads
\* in between are interleaved: at rest, the peer knows the present state, unless a change
\* was told while the channel opened.
THEOREM MediaIsKnown == Spec => []MediaKnown
<1>1. Init => NewestUnderWay
  BY DEF Init, NewEnd, Quiet, NewestUnderWay, UnderWay
<1>2. Inv /\ Inv' /\ NewestUnderWay /\ [Next]_vars => NewestUnderWay'
  BY NewestStep DEF Inv, TypeOK
<1>3. NewestUnderWay => MediaKnown
  <2> SUFFICES ASSUME NewestUnderWay, NEW e \in Ends,
                      ends[e].open, Steady(e), media[e].opening = <<>>,
                      media[e].wire = <<>>, ends[e].network = <<>>,
                      ends[Peer(e)].signaling = <<>>
               PROVE  media[e].known = media[e].now
    BY DEF MediaKnown, Steady
  <2>1. Newest(e, media[e].now)
    BY DEF NewestUnderWay, UnderWay
  <2>2. \A v : ~ Says(<<>>, v)
    BY DEF Says
  <2> QED  BY <2>1, <2>2 DEF Newest, Way
<1> QED  BY <1>1, <1>2, <1>3, Invariance, PTL DEF Spec

=============================================================================
