-------------------------- MODULE IncomingSources --------------------------
(***************************************************************************)
(* What a group call receives (wrtc::interfaces::GroupConnection, and      *)
(* add_incoming_smart_source of NativeNetworkInterface): a channel for     *)
(* everyone who speaks, opened by the first packet, closed when it has     *)
(* been idle for a while, never more than a few at a time; and a channel   *)
(* for every video the application adds. pending_content_ remembers what   *)
(* was to be received, so that it can be opened again when the application *)
(* wants it.                                                               *)
(*                                                                         *)
(* Tasks of the network thread are the steps; only what is wanted is set   *)
(* on the thread of the application, before the task that acts on it. In a *)
(* conference the user of an SSRC has to be known, and the application is  *)
(* asked for it. What runs over MTProto instead is in MTProtoStream.       *)
(***************************************************************************)
EXTENDS Integers, Sequences, FiniteSets, Functions

CONSTANTS
  Speakers,       \* SSRCs
  Cameras,        \* endpoints of video; one kind of video stands for both
  Kinds,          \* subset of BOOLEAN: is_conference_
  Lists,          \* what the application may answer: sequences of Speakers
  Limit           \* ten channels of audio and ten contents

ASSUME SourcesAssumption ==
  /\ Speakers \cap Cameras = {}
  /\ Kinds \subseteq BOOLEAN
  /\ Lists \subseteq Seq(Speakers)
  /\ Limit \in Nat \ {0}

VARIABLES
  net,            \* the fields of the connection: see NewConnection
  switching,      \* the medium with a call of enable_incoming under way, or "none"
  requested       \* SSRCs the application was asked for since its last answer and
                  \* in the last five seconds

incomingVars == <<net, switching, requested>>

Media == {"audio", "camera"}
Medium(e) == IF e \in Speakers THEN "audio" ELSE "camera"

NewConnection(conference) ==
  [conference |-> conference,
   closed   |-> FALSE,
   enabled  |-> {},         \* audio_incoming_, camera_incoming_
   audio    |-> {},         \* incoming_audio_channels_
   idle     |-> <<>>,       \* those without activity for a while, the longest first
   video    |-> {},         \* incoming_video_channels_
   failed   |-> {},         \* whose last channel could not be made
   contents |-> {},         \* pending_content_
   known    |-> {},         \* audio_ssrc_to_user_id_
   unknown  |-> {},         \* pending_audio_ssrcs_
   asked    |-> FALSE]      \* last_participants_request_ is not long ago

IncomingInit ==
  /\ \E conference \in Kinds : net = NewConnection(conference)
  /\ switching = "none"
  /\ requested = {}

-----------------------------------------------------------------------------
(* Adding and removing.                                                     *)

Drop(idle, e) == SelectSeq(idle, LAMBDA x : x # e)


\* remove_incoming_audio: only what has a content.
RemoveIncomingAudio(n, e) ==
  IF e \notin n.contents THEN n
  ELSE [n EXCEPT !.audio = @ \ {e}, !.idle = Drop(@, e), !.contents = @ \ {e}]

\* Eleven channels: the one that was idle for longest makes room.
MakeRoom(n) ==
  IF Cardinality(n.audio) > Limit /\ n.idle # <<>>
  THEN RemoveIncomingAudio(n, Head(n.idle)) ELSE n

\* A new channel, unless it cannot be made; one there was is gone either way.
OpenChannel(n, e, broken) ==
  LET made == {e} \ broken
      m == [n EXCEPT !.failed = (@ \ made) \cup ({e} \cap broken)]
  IN  IF Medium(e) = "audio"
      THEN [m EXCEPT !.audio = (@ \ {e}) \cup made, !.idle = Drop(@, e)]
      ELSE [m EXCEPT !.video = (@ \ {e}) \cup made]

\* Contents of audio are counted, and when there are many a video is not remembered
\* either.
RememberContent(n, e) ==
  IF Cardinality(n.contents \cap Speakers) >= Limit THEN n
  ELSE [n EXCEPT !.contents = @ \cup {e}]

\* Mutant of AddSource: the room is not looked at again.
AddSourceAnyway(n, e, broken, force) ==
  LET room == IF Medium(e) = "audio" THEN MakeRoom(n) ELSE n
  IN  IF n.closed \/ (e \in n.contents /\ ~ force) THEN n
      ELSE IF Medium(e) \notin n.enabled THEN RememberContent(n, e)
      ELSE RememberContent(OpenChannel(room, e, broken), e)

\* add_incoming_smart_source.
AddSource(n, e, broken, force) ==
  LET room == IF Medium(e) = "audio" THEN MakeRoom(n) ELSE n
  IN  IF n.closed \/ (e \in n.contents /\ ~ force) THEN n
      ELSE IF Medium(e) \notin n.enabled THEN RememberContent(n, e)
      ELSE IF Medium(e) = "audio" /\ Cardinality(room.audio) > Limit THEN room
      ELSE RememberContent(OpenChannel(room, e, broken), e)

\* Endpoints with a channel that cannot be made this time.
Broken == {{}} \cup {{e} : e \in Speakers \cup Cameras}

-----------------------------------------------------------------------------
(* Packets, and who sends them.                                             *)

\* Mutant of AskParticipants: an SSRC is asked for once.
AskParticipantsOnce(s) ==
  IF s \in net.unknown THEN UNCHANGED <<net, requested>>
  ELSE /\ net' = [net EXCEPT !.unknown = @ \cup {s}, !.asked = TRUE]
       /\ requested' = requested \cup net.unknown \cup {s}

\* A new SSRC is asked for at once, one that was asked for after a while, and all that
\* are unknown with it.
AskParticipants(s) ==
  IF s \in net.unknown /\ net.asked THEN UNCHANGED <<net, requested>>
  ELSE /\ net' = [net EXCEPT !.unknown = @ \cup {s}, !.asked = TRUE]
       /\ requested' = requested \cup net.unknown \cup {s}

\* rtp_packet_received.
RtpPacketReceived(s, broken) ==
  /\ UNCHANGED switching
  /\ IF s \in net.audio
     THEN net' = [net EXCEPT !.idle = Drop(@, s)] /\ UNCHANGED requested
     ELSE IF net.conference /\ s \notin net.known
     THEN AskParticipants(s)
     ELSE net' = AddSource(net, s, broken, FALSE) /\ UNCHANGED requested

\* One of the list: he is known, and gets a channel if he spoke before he was.
AddKnown(n, s, broken) ==
  LET m == [n EXCEPT !.known = @ \cup {s}, !.unknown = @ \ {s}]
  IN  IF s \in n.unknown \ n.audio THEN AddSource(m, s, broken, FALSE) ELSE m

AddAllKnown(list, broken) ==
  LET mapped[i \in 0 .. Len(list)] ==
        IF i = 0 THEN [net EXCEPT !.known = {}] ELSE AddKnown(mapped[i - 1], list[i], broken)
  IN  mapped[Len(list)]

\* update_audio_ssrc_mappings: only those of the list are known from now on.
UpdateAudioSsrcMappings(list, broken) ==
  /\ net' = AddAllKnown(list, broken)
  /\ requested' = {}
  /\ UNCHANGED switching

\* The request for participants is long ago.
RequestAges ==
  /\ net.asked
  /\ net' = [net EXCEPT !.asked = FALSE]
  /\ requested' = {}
  /\ UNCHANGED switching

\* A channel without packets.
FallSilent(s) ==
  /\ s \in net.audio \ Range(net.idle)
  /\ net' = [net EXCEPT !.idle = Append(@, s)]
  /\ UNCHANGED <<switching, requested>>

\* Mutant of Cleanup: one at a time.
CleanupFirst ==
  /\ ~ net.closed /\ net.idle # <<>>
  /\ net' = RemoveIncomingAudio(net, Head(net.idle))
  /\ UNCHANGED <<switching, requested>>

RemoveAll(channels) ==
  LET removed[i \in 0 .. Len(channels)] ==
        IF i = 0 THEN net ELSE RemoveIncomingAudio(removed[i - 1], channels[i])
  IN  removed[Len(channels)]

\* The keys of a map in their order, whatever that is.
Orders(endpoints) == Bijection(1 .. Cardinality(endpoints), endpoints)

\* begin_audio_channel_cleanup_timer: every so often, all that are idle.
Cleanup ==
  /\ ~ net.closed
  /\ \E channels \in Orders(net.audio \cap Range(net.idle)) :
       net' = RemoveAll(channels)
  /\ UNCHANGED <<switching, requested>>

-----------------------------------------------------------------------------
(* The application.                                                         *)

\* enable_audio_incoming and enable_video_incoming, on the thread of the application:
\* what is wanted is set, and a task of the network thread waited for.
SetIncoming(medium) ==
  /\ switching = "none"
  /\ net' = [net EXCEPT !.enabled = IF medium \in @ THEN @ \ {medium} ELSE @ \cup {medium}]
  /\ switching' = medium
  /\ UNCHANGED requested

\* The task that enables: what was remembered is opened.
EnableIncoming(endpoints, broken) ==
  LET opened[i \in 0 .. Len(endpoints)] ==
        IF i = 0 THEN net ELSE AddSource(opened[i - 1], endpoints[i], broken, TRUE)
  IN  opened[Len(endpoints)]

\* The one that disables: all channels of audio go, those of video that are remembered;
\* the contents stay.
DisableIncoming(medium) ==
  IF medium = "audio" THEN [net EXCEPT !.audio = {}, !.idle = <<>>]
  ELSE [net EXCEPT !.video = @ \ net.contents]

SwitchIncoming(medium, broken) ==
  /\ switching = medium
  /\ IF medium \in net.enabled
     THEN \E endpoints \in Orders({e \in net.contents : Medium(e) = medium}) :
            net' = EnableIncoming(endpoints, broken)
     ELSE net' = DisableIncoming(medium)
  /\ switching' = "none"
  /\ UNCHANGED requested

AddIncomingVideo(e, broken) ==
  /\ e \notin net.contents
  /\ net' = AddSource(net, e, broken, FALSE)
  /\ UNCHANGED <<switching, requested>>

RemoveIncomingVideo(e) ==
  /\ e \in net.contents
  /\ net' = [net EXCEPT !.video = @ \ {e}, !.contents = @ \ {e}]
  /\ UNCHANGED <<switching, requested>>

\* close; packets, timers and calls may follow.
CloseConnection ==
  /\ ~ net.closed
  /\ net' = [net EXCEPT !.closed = TRUE, !.contents = {}, !.audio = {}, !.idle = <<>>,
                        !.video = {}]
  /\ UNCHANGED <<switching, requested>>

-----------------------------------------------------------------------------

Packet(s) == \E broken \in Broken : RtpPacketReceived(s, broken)

Switch == \E medium \in Media, broken \in Broken : SwitchIncoming(medium, broken)

FromApplication ==
  \/ \E list \in Lists, broken \in Broken : UpdateAudioSsrcMappings(list, broken)
  \/ \E medium \in Media : SetIncoming(medium)
  \/ \E e \in Cameras :
       (\E broken \in Broken : AddIncomingVideo(e, broken)) \/ RemoveIncomingVideo(e)
  \/ CloseConnection

IncomingNext ==
  \/ \E s \in Speakers : Packet(s) \/ FallSilent(s)
  \/ RequestAges \/ Cleanup \/ Switch \/ FromApplication

IncomingSpec == IncomingInit /\ [][IncomingNext]_incomingVars

\* Time passes, the timer and the tasks run.
IncomingFairness ==
  /\ WF_incomingVars(RequestAges)
  /\ WF_incomingVars(Cleanup)
  /\ WF_incomingVars(Switch)

FairIncoming == IncomingSpec /\ IncomingFairness

-----------------------------------------------------------------------------
(* Properties.                                                              *)

\* Nothing is received that is not wanted, whatever packets, timers and calls still
\* come: once enable_audio_incoming returned no audio while it is disabled, nothing after
\* close, and one channel more than the limit at most. (A video that could not be
\* remembered stays when its camera is disabled.)
NothingUnwanted ==
  /\ net.audio # {} => "audio" \in net.enabled \cup {switching}
  /\ net.closed => net.audio \cup net.video \cup net.contents = {}
  /\ Cardinality(net.audio) <= Limit + 1


\* In a conference the application is asked for someone it does not know, again and
\* again while he speaks: after an answer that leaves him out, and after five seconds
\* without an answer.
UnknownAskedAgain ==
  \A s \in Speakers :
    WF_incomingVars(Packet(s)) /\ <>[](net.conference /\ s \notin net.known \cup net.audio)
      => []<>(s \in requested)

\* An idle channel is closed, or its speaker heard again. The exception is one that came
\* when the contents were full: it is never removed.
IdleRemoved ==
  \A s \in Speakers :
    s \in Range(net.idle) ~> s \notin Range(net.idle) \/ s \notin net.contents

=============================================================================
