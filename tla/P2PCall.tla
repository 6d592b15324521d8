------------------------------ MODULE P2PCall ------------------------------
(***************************************************************************)
(* The two ends of a one-to-one call that set up their connection: P2PCall *)
(* with its NativeConnection and its data channel, from connect to the     *)
(* channels that carry the media.                                          *)
(*                                                                         *)
(* Four threads of each end meet: the one of the application, which        *)
(* connects and passes on what arrives; the signaling thread, which        *)
(* handles messages and waits for the network thread when it makes         *)
(* channels; the network thread, which owns the transport; and the worker, *)
(* which tells changes of the own media.  Both ends have exchanged their   *)
(* keys, and nobody stops (see CallRegistry).                              *)
(*                                                                         *)
(* Messages are carried as SignalingEncryption does: in the order they     *)
(* were sent, except that one that is not the newest may be handed over    *)
(* again.                                                                  *)
(***************************************************************************)
EXTENDS Negotiation, FiniteSets

CONSTANTS
  Kinds,            \* the tracks of an end: audio, video
  Talkers,          \* the ends whose media changes, and is told
  MaxCandidates,    \* bound: candidates an end gathers
  MaxTroubles,      \* bound: messages handed over again and changes of media, in all
  MaxMessages       \* bound: messages an end sent when it answers an offer

Ends == {"caller", "callee"}
Peer(e) == IF e = "caller" THEN "callee" ELSE "caller"
Outgoing(e) == e = "caller"

ASSUME P2PAssumption ==
  /\ Talkers \subseteq Ends
  /\ {MaxCandidates, MaxTroubles, MaxMessages} \subseteq Nat

VARIABLES
  ends,             \* each end of the call: see NewEnd
  log,              \* the messages each end sent
  got,              \* how many messages of its peer were handed to each end
  media,            \* the media of each end and what is told of it: see Quiet
  history           \* for the properties: see NoHistory

vars == <<ends, log, got, media, history>>

\* ssrcs
Channels(e) == {e} \X Kinds

NewEnd(e) ==
  [connect   |-> "before",      \* how far connect is: created, started, ready
   buffering |-> TRUE,          \* pending_signaling_data_ has a value,
   early     |-> <<>>,          \* and what is in it
   signaling |-> <<>>,          \* the tasks of the signaling thread,
   blocked   |-> FALSE,         \* which waits within create_channels
   network   |-> <<>>,          \* the tasks of the network thread
   context   |-> NewContext(Channels(e)),
   handshake |-> FALSE,         \* handshake_completed_
   waiting   |-> <<>>,          \* pending_ice_candidates_
   gathered  |-> 0,             \* candidates gathered
   remote    |-> FALSE,         \* the transport has the parameters of the peer
   added     |-> {},            \* the candidates the transport was given
   outgoing  |-> {},            \* audio_channel_, video_channel_
   incoming  |-> {},            \* incoming_audio_channels_, incoming_video_channels_
   open      |-> FALSE]         \* data_channel_open_

\* What an end plays is a number that grows with every change.
Quiet ==
  [now     |-> 0,               \* the state of the stream manager
   task    |-> FALSE,           \* emit_state_if_changed is posted to the worker,
   worker  |-> <<>>,            \* and the state it read
   opening |-> <<>>,            \* the state that was read when the channel opened
   wire    |-> <<>>,            \* what is under way on the data channel
   known   |-> 0]               \* the state the peer knows

NoHistory ==
  [repeats  |-> 0,
   again    |-> {},             \* ends a NegotiateChannels was handed to again
   crossed  |-> {},             \* ends that told a change while their channel opened
   top      |-> [e \in Ends |-> 0]]   \* the newest message that was handled

Init ==
  /\ ends = [e \in Ends |-> NewEnd(e)]
  /\ log = [e \in Ends |-> <<>>]
  /\ got = [e \in Ends |-> 0]
  /\ media = [e \in Ends |-> Quiet]
  /\ history = NoHistory

-----------------------------------------------------------------------------
(* Tasks and messages.                                                      *)

Post(end, task) == [end EXCEPT !.network = Append(@, task)]
PostSignaling(end, task) == [end EXCEPT !.signaling = Append(@, task)]

\* Tasks, and messages.
Setup == [type |-> "setup"]
Candidate(c) == [type |-> "candidate", candidate |-> c]
Negotiate(contents) == [type |-> "channels", contents |-> contents]
Remote == [type |-> "remote"]
Handle(n) == [type |-> "message", number |-> n]
Apply(state) == [type |-> "channels", state |-> state]
MediaState(value) == [type |-> "media", value |-> value]

AllOf(contents) == [i \in DOMAIN contents |-> Negotiate(contents[i])]

\* send_initial_setup: the parameters are read on the network thread.
SendInitialSetup(end) == Post(end, Setup)

\* apply_pending_ice_candidates.
ApplyPending(end) ==
  [end EXCEPT
     !.network = @ \o [i \in DOMAIN end.waiting |-> Candidate(end.waiting[i])],
     !.waiting = <<>>]

-----------------------------------------------------------------------------
(* What the application does.                                               *)

\* connect, up to on_upgrade: the transport starts, the own tracks are added and the
\* listeners set.
Connect(e) ==
  /\ ends[e].connect = "before"
  /\ ends' = [ends EXCEPT ![e].connect = IF Outgoing(e) THEN "created" ELSE "started"]
  /\ UNCHANGED <<log, got, media, history>>

\* The caller starts: its parameters and its offer.
Start(e) ==
  LET offer == GetPendingOffer(ends[e].context, e)
  IN  /\ ends[e].connect = "created"
      /\ ends' = [ends EXCEPT ![e] =
           [SendInitialSetup(@) EXCEPT !.connect = "started", !.context = offer.context]]
      /\ log' = [log EXCEPT ![e] = @ \o AllOf(offer.sent)]
      /\ UNCHANGED <<got, media, history>>

\* flush_pending_signaling_data, the end of connect.
Flush(e) ==
  /\ ends[e].connect = "started"
  /\ ends' = [ends EXCEPT ![e].connect = "ready", ![e].buffering = FALSE,
                ![e].early = <<>>,
                ![e].signaling = @ \o [i \in DOMAIN ends[e].early |->
                                         Handle(ends[e].early[i])]]
  /\ UNCHANGED <<log, got, media, history>>

\* Mutant of SendSignalingData: a message is handled at once if there is a connection.
SendSignalingDataAtOnce(end, n) ==
  IF end.connect = "before" THEN [end EXCEPT !.early = Append(@, n)]
  ELSE PostSignaling(end, Handle(n))

\* send_signaling_data, with the n-th message of the peer: what comes before the end of
\* connect is kept for it.
SendSignalingData(end, n) ==
  IF end.buffering THEN [end EXCEPT !.early = Append(@, n)]
  ELSE PostSignaling(end, Handle(n))

\* The next message of the peer arrives.
Deliver(e) ==
  /\ got[e] < Len(log[Peer(e)])
  /\ got' = [got EXCEPT ![e] = @ + 1]
  /\ ends' = [ends EXCEPT ![e] = SendSignalingData(@, got[e] + 1)]
  /\ UNCHANGED <<log, media, history>>

\* What MaxTroubles counts.
Troubles == history.repeats + media["caller"].now + media["callee"].now

\* An older one arrives again.
Repeat(e) ==
  /\ Troubles < MaxTroubles
  /\ ~ ends[e].buffering
  /\ \E n \in 1 .. got[e] - 1 :
       /\ ends' = [ends EXCEPT ![e] = SendSignalingData(@, n)]
       /\ history' = [history EXCEPT !.repeats = @ + 1,
            !.again = IF log[Peer(e)][n].type = "channels" THEN @ \cup {e} ELSE @]
  /\ UNCHANGED <<log, got, media>>

-----------------------------------------------------------------------------
(* The signaling thread.                                                    *)

Signaling(e, task) ==
  /\ ~ ends[e].blocked
  /\ ends[e].signaling # <<>>
  /\ Head(ends[e].signaling).type = task

Rest(e) == [ends[e] EXCEPT !.signaling = Tail(@)]
Number(e) == Head(ends[e].signaling).number
Received(e) == log[Peer(e)][Number(e)]

Handled(e) ==
  [history EXCEPT !.top[e] = IF Number(e) > @ THEN Number(e) ELSE @]

\* The parameters, or a candidate that was gathered, are sent.
Send(e) ==
  /\ Signaling(e, "setup") \/ Signaling(e, "candidate")
  /\ log' = [log EXCEPT ![e] = Append(@, Head(ends[e].signaling))]
  /\ ends' = [ends EXCEPT ![e] = Rest(e)]
  /\ UNCHANGED <<got, media, history>>

\* Mutant of ProcessSetup: the candidates wait for one more.
ProcessSetupOnly(e) ==
  /\ Signaling(e, "message") /\ Received(e).type = "setup"
  /\ LET taken == [Post(Rest(e), Remote) EXCEPT !.handshake = TRUE]
     IN  ends' = [ends EXCEPT ![e] = IF Outgoing(e) THEN taken ELSE SendInitialSetup(taken)]
  /\ history' = Handled(e)
  /\ UNCHANGED <<log, got, media>>

\* process_signaling_data, InitialSetup: the callee answers with its own, and the
\* candidates that came before are added.
ProcessSetup(e) ==
  /\ Signaling(e, "message") /\ Received(e).type = "setup"
  /\ LET taken == [Post(Rest(e), Remote) EXCEPT !.handshake = TRUE]
     IN  ends' = [ends EXCEPT ![e] =
                    ApplyPending(IF Outgoing(e) THEN taken ELSE SendInitialSetup(taken))]
  /\ history' = Handled(e)
  /\ UNCHANGED <<log, got, media>>

\* Mutant of ProcessCandidate: a candidate is added at once.
ProcessCandidateAtOnce(e) ==
  /\ Signaling(e, "message") /\ Received(e).type = "candidate"
  /\ ends' = [ends EXCEPT ![e] =
       ApplyPending([Rest(e) EXCEPT !.waiting = Append(@, Received(e).candidate)])]
  /\ history' = Handled(e)
  /\ UNCHANGED <<log, got, media>>

\* Candidates: they wait for the parameters.
ProcessCandidate(e) ==
  /\ Signaling(e, "message") /\ Received(e).type = "candidate"
  /\ LET taken == [Rest(e) EXCEPT !.waiting = Append(@, Received(e).candidate)]
     IN  ends' = [ends EXCEPT ![e] =
                    IF taken.handshake THEN ApplyPending(taken) ELSE taken]
  /\ history' = Handled(e)
  /\ UNCHANGED <<log, got, media>>

\* Mutant of ProcessChannels: the own offer goes out before the answer.
ProcessChannelsOfferFirst(e) ==
  LET offer == GetPendingOffer(ends[e].context, e)
      answer == SetPendingAnswer(offer.context, Outgoing(e), Received(e).contents)
      sent == offer.sent \o answer.sent
      apply == Apply(CoordinatedState(answer.context))
  IN  /\ Signaling(e, "message") /\ Received(e).type = "channels"
      /\ Len(log[e]) + 2 <= MaxMessages
      /\ ends' = [ends EXCEPT ![e] =
           [Post(Rest(e), apply) EXCEPT !.context = answer.context, !.blocked = TRUE]]
      /\ log' = [log EXCEPT ![e] = @ \o AllOf(sent)]
      /\ history' = Handled(e)
      /\ UNCHANGED <<got, media>>

\* NegotiateChannels: the answer, then the own offer if it is still to be made; then
\* the channels are made, on the network thread.
ProcessChannels(e) ==
  LET answer == SetPendingAnswer(ends[e].context, Outgoing(e), Received(e).contents)
      offer == GetPendingOffer(answer.context, e)
      sent == answer.sent \o offer.sent
      apply == Apply(CoordinatedState(offer.context))
  IN  /\ Signaling(e, "message") /\ Received(e).type = "channels"
      /\ Len(log[e]) + 2 <= MaxMessages
      /\ ends' = [ends EXCEPT ![e] =
           [Post(Rest(e), apply) EXCEPT !.context = offer.context, !.blocked = TRUE]]
      /\ log' = [log EXCEPT ![e] = @ \o AllOf(sent)]
      /\ history' = Handled(e)
      /\ UNCHANGED <<got, media>>

\* MediaState, which came over the data channel.
ProcessMedia(e) ==
  /\ Signaling(e, "media")
  /\ media' = [media EXCEPT ![Peer(e)].known = Head(ends[e].signaling).value]
  /\ ends' = [ends EXCEPT ![e] = Rest(e)]
  /\ UNCHANGED <<log, got, history>>

-----------------------------------------------------------------------------
(* The network thread.                                                      *)

\* It is within the listener of the data channel until the state is sent.
Network(e, task) ==
  /\ media[e].opening = <<>>
  /\ ends[e].network # <<>>
  /\ Head(ends[e].network).type = task

Ran(e) == [ends[e] EXCEPT !.network = Tail(@)]
Subject(e) == Head(ends[e].network)

\* The transport found a candidate.
Gather(e) ==
  /\ ends[e].connect # "before" /\ ends[e].gathered < MaxCandidates
  /\ media[e].opening = <<>>
  /\ ends' = [ends EXCEPT ![e] =
       [PostSignaling(ends[e], Candidate(ends[e].gathered + 1)) EXCEPT !.gathered = @ + 1]]
  /\ UNCHANGED <<log, got, media, history>>

\* The local parameters are read for send_initial_setup.
ReadParameters(e) ==
  /\ Network(e, "setup")
  /\ ends' = [ends EXCEPT ![e] = PostSignaling(Ran(e), Setup)]
  /\ UNCHANGED <<log, got, media, history>>

\* set_remote_params: those that were set before change nothing.
SetRemoteParams(e) ==
  /\ Network(e, "remote")
  /\ ends' = [ends EXCEPT ![e] = [Ran(e) EXCEPT !.remote = TRUE]]
  /\ UNCHANGED <<log, got, media, history>>

\* add_remote_candidate.
AddRemoteCandidate(e) ==
  /\ Network(e, "candidate")
  /\ ends' = [ends EXCEPT ![e] = [Ran(e) EXCEPT !.added = @ \cup {Subject(e).candidate}]]
  /\ UNCHANGED <<log, got, media, history>>

\* apply_channels, which create_channels waits for: a confirmed track gets its channel
\* and keeps it; the channels that come in are those of the peer's last message, without
\* the own confirmed ones.
ApplyChannels(e) ==
  /\ Network(e, "channels")
  /\ ends' = [ends EXCEPT ![e] =
       [Ran(e) EXCEPT !.blocked = FALSE,
          !.outgoing = @ \cup Subject(e).state.outgoing,
          !.incoming = Subject(e).state.incoming \ Subject(e).state.outgoing]]
  /\ UNCHANGED <<log, got, media, history>>

\* send_data_channel_message.
SendOnChannel(e) ==
  /\ Network(e, "media")
  /\ media' = [media EXCEPT ![e].wire = Append(@, Subject(e).value)]
  /\ ends' = [ends EXCEPT ![e] = Ran(e)]
  /\ UNCHANGED <<log, got, history>>

\* The transports know each other: the data channel opens. The listener of P2PCall is
\* called, which reads the state of the media
Open(e) ==
  /\ e \in Talkers /\ media[e].opening = <<>> /\ ~ ends[e].open
  /\ \A x \in Ends : ends[x].remote
  /\ \E x \in Ends : ends[x].added # {}
  /\ ends' = [ends EXCEPT ![e].open = TRUE]
  /\ media' = [media EXCEPT ![e].opening = <<media[e].now>>]
  /\ UNCHANGED <<log, got, history>>

\* Mutant of Opened: nothing is told.
OpenedQuietly(e) ==
  /\ media[e].opening # <<>>
  /\ media' = [media EXCEPT ![e].opening = <<>>]
  /\ UNCHANGED <<ends, log, got, history>>

\* and sends it.
Opened(e) ==
  /\ media[e].opening # <<>>
  /\ ends' = [ends EXCEPT ![e] = Post(@, MediaState(media[e].opening[1]))]
  /\ media' = [media EXCEPT ![e].opening = <<>>]
  /\ UNCHANGED <<log, got, history>>

\* A message of the data channel arrives; the channel keeps the order.
Hear(e) ==
  /\ media[Peer(e)].wire # <<>>
  /\ ends' = [ends EXCEPT ![e] = PostSignaling(@, MediaState(Head(media[Peer(e)].wire)))]
  /\ media' = [media EXCEPT ![Peer(e)].wire = Tail(@)]
  /\ UNCHANGED <<log, got, history>>

-----------------------------------------------------------------------------
(* The worker, and the stream manager (see StreamManager).                  *)

\* The media changes, which the worker is to tell.
Change(e) ==
  /\ e \in Talkers /\ ends[e].connect = "ready"
  /\ Troubles < MaxTroubles
  /\ media' = [media EXCEPT ![e].now = @ + 1, ![e].task = TRUE]
  /\ UNCHANGED <<ends, log, got, history>>

\* emit_state_if_changed reads the state,
Emit(e) ==
  /\ media[e].task /\ media[e].worker = <<>>
  /\ media' = [media EXCEPT ![e].task = FALSE, ![e].worker = <<media[e].now>>]
  /\ UNCHANGED <<ends, log, got, history>>

\* and send_media_state sends it if the data channel is open.
SendMediaState(e) ==
  /\ media[e].worker # <<>>
  /\ ends' = IF ends[e].open
             THEN [ends EXCEPT ![e] = Post(@, MediaState(media[e].worker[1]))] ELSE ends
  /\ media' = [media EXCEPT ![e].worker = <<>>]
  /\ history' = [history EXCEPT !.crossed =
                   IF media[e].opening # <<>> THEN @ \cup {e} ELSE @]
  /\ UNCHANGED <<log, got>>

-----------------------------------------------------------------------------

Application(e) == Start(e) \/ Flush(e)

SignalingThread(e) ==
  Send(e) \/ ProcessSetup(e) \/ ProcessCandidate(e) \/ ProcessChannels(e) \/ ProcessMedia(e)

NetworkThread(e) ==
  \/ ReadParameters(e) \/ SetRemoteParams(e) \/ AddRemoteCandidate(e) \/ ApplyChannels(e)
  \/ SendOnChannel(e) \/ Opened(e)

Worker(e) == Emit(e) \/ SendMediaState(e)

Next ==
  \E e \in Ends :
    \/ Connect(e) \/ Application(e)
    \/ Deliver(e) \/ Repeat(e)
    \/ SignalingThread(e)
    \/ Gather(e) \/ NetworkThread(e) \/ Open(e) \/ Hear(e)
    \/ Change(e) \/ Worker(e)

Spec == Init /\ [][Next]_vars

\* A connect that began goes on, threads run and what was sent arrives. Nobody must
\* call, change its media or find candidates. The bounds make every behaviour end, so it
\* is enough that one of these steps is taken as long as one can be: this assumes less
\* than a fair schedule of every thread.
Obliged(e) ==
  \/ Application(e) \/ Deliver(e) \/ SignalingThread(e) \/ NetworkThread(e)
  \/ Open(e) \/ Hear(e) \/ Worker(e)

Fairness == WF_vars(\E e \in Ends : Obliged(e))

FairSpec == Spec /\ Fairness

-----------------------------------------------------------------------------
(* Properties.                                                              *)

\* Once both ends connect, whoever is first and however early its messages come, each
\* ends with the channels that carry its tracks and those of the peer, and keeps them.
\* A NegotiateChannels that was handed over again may undo it: it is taken for an offer.
Agreed ==
  \A e \in Ends : /\ ends[e].outgoing = Channels(e)
                  /\ ends[e].incoming = Channels(Peer(e))

ChannelsAgree ==
  (<>(\A e \in Ends : ends[e].connect # "before"))
     => <>[](Agreed \/ history.again # {})

\* The transport gets no candidate before the parameters of the peer, whatever order
\* setup and candidates were handed over in,
CandidatesFollow == \A e \in Ends : ends[e].added # {} => ends[e].remote

\* and gets all candidates the peer finds, once both ends are connected.
CandidatesArrive ==
  <>[](\A e \in Ends : \A c \in 1 .. ends[Peer(e)].gathered :
         (\A x \in Ends : ends[x].connect = "ready")
           => (c \in ends[e].added \/ history.again # {}))

\* Messages that come before connect, during it and after are handled in the order they
\* were sent: none is skipped for a later one.
NoneSkipped == [][\A e \in Ends : history'.top[e] <= history.top[e] + 1]_vars

\* At rest, with the data channel open, the peer knows the state of the media. The
\* exception is a change that is told while the channel opens: the state that was read
\* before it is sent after it.
MediaKnown ==
  \A e \in Ends :
    /\ ends[e].open
    /\ ~ media[e].task /\ media[e].worker = <<>> /\ media[e].opening = <<>>
    /\ media[e].wire = <<>> /\ ends[e].network = <<>> /\ ends[Peer(e)].signaling = <<>>
    /\ e \notin history.crossed
    => media[e].known = media[e].now

=============================================================================
