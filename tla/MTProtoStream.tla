--------------------------- MODULE MTProtoStream ---------------------------
(***************************************************************************)
(* The receiver of a broadcast (wrtc::interfaces::mtproto::MTProtoStream   *)
(* and its ThreadBuffer). The application is asked for the time, then for  *)
(* the parts of one segment after the other, and answers when it likes;    *)
(* two threads, one for audio and one for video, play the segments that    *)
(* are complete, frame by frame.                                           *)
(*                                                                         *)
(* A segment lasts one unit of time, segment_duration_. Everything under   *)
(* segment_mutex_ is one step. A thread holds a raw pointer to the segment *)
(* it plays: "freed" remembers that the segment is gone. What a part       *)
(* contains is the endpoint and the quality that were asked for; the       *)
(* decoders, and parts that come empty, are left out.                      *)
(***************************************************************************)
EXTENDS Integers, Sequences, FiniteSets, FiniteSetsExt, TLC

CONSTANTS
  Kinds,          \* subset of BOOLEAN: is_rtmp_
  Order,          \* the endpoints of incoming video, in the order of the map
  Times,          \* times the application or the clock may give; 0 is a refusal
  Frames,         \* frames a thread plays of one segment
  MaxPlayed,      \* bound: segments played
  MaxTroubles     \* bound: times refused, parts not ready, answers that ask for a
                  \* resync, and incoming videos added or removed, in all

ASSUME StreamAssumption ==
  /\ Kinds \subseteq BOOLEAN
  /\ Times \subseteq Nat
  /\ Frames \in Nat \ {0}
  /\ {MaxPlayed, MaxTroubles} \subseteq Nat

BufferDuration == 2             \* segment_buffer_duration_
Unknown == -1                   \* next_segment_timestamp_ before the time is known

Endpoint == {Order[i] : i \in DOMAIN Order}
Qualities == {"medium", "full"}
Threads == {"audio", "video"}

VARIABLES
  stream,         \* the fields of MTProtoStream: see NewStream
  asked,          \* requests of parts the application did not answer yet
  delays,         \* ids of the delayed tasks that ask for the time again
  buffer,         \* the fields of ThreadBuffer: see NewBuffer
  threads,        \* what each thread is in the middle of
  history         \* for the properties: see NoHistory

vars == <<stream, asked, delays, buffer, threads, history>>

NewStream(rtmp) ==
  [rtmp |-> rtmp,
   running |-> TRUE,
   next |-> Unknown,            \* next_segment_timestamp_
   waiting |-> FALSE,           \* is_waiting_current_time_
   delay |-> 0,                 \* pending_request_time_delay_task_id_
   nextDelay |-> 0,             \* next_pending_request_time_delay_task_id_
   wait |-> 0,                  \* wait_for_buffered..., 0 if there is none
   segments |-> <<>>,           \* segments_: by the time of their end
   channels |-> <<>>,           \* video_channels_: the quality of some endpoints
   mapping |-> {},              \* current_endpoint_mapping_
   requests |-> {}]             \* what the step asks of the application

NewBuffer == [last |-> 0, consumed |-> [m \in Threads |-> 0], checks |-> 0]

Resting == [step |-> "idle", segment |-> 0, frame |-> 0, freed |-> FALSE]

NoHistory == [played |-> 0, time |-> 0, refusals |-> 0, resyncs |-> 0, changes |-> 0]

Init ==
  /\ \E rtmp \in Kinds : stream = NewStream(rtmp)
  /\ asked = {}
  /\ delays = {}
  /\ buffer = NewBuffer
  /\ threads = [m \in Threads |-> Resting]
  /\ history = NoHistory

-----------------------------------------------------------------------------
(* Segments.                                                                *)

NewPart(of, quality) ==
  [of |-> of, quality |-> quality, status |-> "notReady", due |-> TRUE, data |-> <<>>]

\* One part for audio, or for all, and one for each video that the last audio knew.
Parts(s) ==
  LET Known(e) == e \in DOMAIN s.channels \cap s.mapping
      videos == SelectSeq(Order, Known)
  IN  <<NewPart(IF s.rtmp THEN "unified" ELSE "audio", "full")>>
        \o [i \in DOMAIN videos |-> NewPart(videos[i], s.channels[videos[i]])]

NewSegment(s, time) == [time |-> time, ready |-> FALSE, parts |-> Parts(s), videos |-> <<>>]

Ready(s) == {k \in DOMAIN s.segments : s.segments[k].ready}
Pending(s) == DOMAIN s.segments \ Ready(s)

\* What MaxTroubles counts.
Troubles == history.refusals + history.resyncs + history.changes

\* Segments are added that begin when those before end.
WithSegments(s, ends) ==
  [k \in DOMAIN s.segments \cup ends |->
     IF k \in DOMAIN s.segments THEN s.segments[k] ELSE NewSegment(s, k - 1)]

\* Mutant of RequestSegments: one segment less is asked for.
RequestSegmentsFewer(s) ==
  IF s.next = Unknown
  THEN IF s.waiting \/ s.delay # 0 THEN s ELSE [s EXCEPT !.waiting = TRUE]
  ELSE LET missing == BufferDuration - Cardinality(DOMAIN s.segments)
           free == {i \in 1 .. missing : \A j \in 1 .. i : s.next + j \notin DOMAIN s.segments}
           n == Cardinality(free)
       IN  [s EXCEPT
              !.next = @ + (IF n < missing THEN n + 1 ELSE n),
              !.segments = WithSegments(s, {s.next + i : i \in free})]

\* Mutant of RequestSegments: a delayed task does not keep it from asking.
RequestSegmentsImpatient(s) ==
  IF s.next = Unknown
  THEN [s EXCEPT !.waiting = TRUE]
  ELSE LET missing == BufferDuration + 1 - Cardinality(DOMAIN s.segments)
           free == {i \in 1 .. missing : \A j \in 1 .. i : s.next + j \notin DOMAIN s.segments}
           n == Cardinality(free)
       IN  IF missing <= 0 THEN s
           ELSE [s EXCEPT !.next = @ + (IF n < missing THEN n + 1 ELSE n),
                          !.segments = WithSegments(s, {s.next + i : i \in free})]

\* request_segments_if_needed: asks for the time, once, or adds segments while less
\* than the buffer is complete or asked for. It stops at a segment there is already,
\* and has gone past it.
RequestSegments(s) ==
  IF s.next = Unknown
  THEN IF s.waiting \/ s.delay # 0 THEN s ELSE [s EXCEPT !.waiting = TRUE]
  ELSE LET missing == BufferDuration + 1 - Cardinality(DOMAIN s.segments)
           free == {i \in 1 .. missing : \A j \in 1 .. i : s.next + j \notin DOMAIN s.segments}
           n == Cardinality(free)
       IN  IF missing <= 0 THEN s
           ELSE [s EXCEPT !.next = @ + (IF n < missing THEN n + 1 ELSE n),
                          !.segments = WithSegments(s, {s.next + i : i \in free})]

Wanted(part) == part.data = <<>> /\ part.status # "downloading" /\ part.due

AskParts(segment) ==
  [segment EXCEPT !.parts = [i \in DOMAIN @ |->
     IF Wanted(@[i]) THEN [@[i] EXCEPT !.status = "downloading"] ELSE @[i]]]

Complete(segment) == \A i \in DOMAIN segment.parts : segment.parts[i].data # <<>>

NewVideo(part) ==
  [of |-> part.of, quality |-> part.quality, content |-> part.data[1], playing |-> FALSE,
   update |-> <<>>]

IsVideo(part) == part.of # "audio"

MakeReady(segment) ==
  [segment EXCEPT !.ready = TRUE, !.parts = <<>>,
     !.videos = LET videos == SelectSeq(segment.parts, IsVideo)
                IN  [i \in DOMAIN videos |-> NewVideo(videos[i])]]

\* The pending segments that are complete and have no incomplete one before.
Completed(s) ==
  {k \in Pending(s) : \A j \in Pending(s) : j <= k => Complete(s.segments[j])}

\* check_pending_segments asks for the parts that are due, and makes the first segments
\* ready; then there is room for more.
CheckPending(s) ==
  IF ~ s.running THEN s
  ELSE LET done == Completed(s)
           known == IF done = {} \/ s.rtmp THEN s.mapping
                    ELSE s.segments[Max(done)].parts[1].data[1].knows
           places == {p \in Pending(s) \X (1 .. Len(Order) + 1) :
                        /\ p[2] \in DOMAIN s.segments[p[1]].parts
                        /\ Wanted(s.segments[p[1]].parts[p[2]])}
           Part(p) == s.segments[p[1]].parts[p[2]]
           new == {[id |-> p[1], part |-> p[2], update |-> FALSE, of |-> Part(p).of,
                    quality |-> Part(p).quality] : p \in places}
           checked == [s EXCEPT
             !.mapping = known,
             !.requests = @ \cup new,
             !.segments = [k \in DOMAIN @ |->
                IF k \in done THEN MakeReady(@[k])
                ELSE IF @[k].ready THEN @[k] ELSE AskParts(@[k])]]
       IN  IF done = {} THEN checked ELSE RequestSegments(checked)

DiscardPending(s) == [s EXCEPT !.segments = Restrict(@, Ready(s))]

\* What the step asked goes to the application.
Commit(s) ==
  /\ stream' = [s EXCEPT !.requests = {}]
  /\ asked' = asked \cup s.requests

-----------------------------------------------------------------------------
(* The answers of the application, as tasks of the media thread.            *)

\* send_broadcast_timestamp: a time that cannot be used is asked for again later.
SendTimestamp(t) ==
  /\ stream.waiting
  /\ stream.rtmp \/ t > BufferDuration
  /\ IF t <= BufferDuration
     THEN /\ Troubles < MaxTroubles
          /\ history' = [history EXCEPT !.refusals = @ + 1]
          /\ stream' = [stream EXCEPT !.waiting = FALSE, !.delay = stream.nextDelay,
                                      !.nextDelay = @ + 1]
          /\ delays' = delays \cup {stream.nextDelay}
          /\ UNCHANGED asked
     ELSE /\ Commit(RequestSegments([stream EXCEPT !.waiting = FALSE,
                                                   !.next = t - BufferDuration]))
          /\ UNCHANGED <<delays, history>>
  /\ UNCHANGED <<buffer, threads>>

\* The delayed task, unless there is a newer one.
AskAgain(id) ==
  /\ id \in delays
  /\ delays' = delays \ {id}
  /\ IF stream.delay = id
     THEN Commit(RequestSegments([stream EXCEPT !.delay = 0]))
     ELSE UNCHANGED <<stream, asked>>
  /\ UNCHANGED <<buffer, threads, history>>

Found(a) ==
  /\ a.id \in DOMAIN stream.segments
  /\ IF a.update
     THEN /\ a.part \in DOMAIN stream.segments[a.id].videos
          /\ stream.segments[a.id].videos[a.part].update # <<>>
     ELSE a.part \in DOMAIN stream.segments[a.id].parts

\* send_broadcast_part for a part that nobody waits for.
PartIgnored(a) ==
  /\ a \in asked /\ ~ Found(a)
  /\ asked' = asked \ {a}
  /\ UNCHANGED <<stream, delays, buffer, threads, history>>

\* The part itself; an audio part says which videos there are.
PartSuccess(a, knows) ==
  LET content == [of |-> a.of, quality |-> a.quality, knows |-> knows]
      arrived == [stream EXCEPT !.segments[a.id].parts[a.part].data = <<content>>,
                                !.segments[a.id].parts[a.part].status = "success",
                                !.next = IF @ = Unknown THEN a.id ELSE @]
      s == CheckPending(arrived)
  IN  /\ a \in asked /\ Found(a) /\ ~ a.update
      /\ stream' = [s EXCEPT !.requests = {}]
      /\ asked' = (asked \ {a}) \cup s.requests
      /\ UNCHANGED <<delays, buffer, threads, history>>

\* The video in the quality it should have by now; the field that says which it has
\* stays.
UpdateSuccess(a) ==
  LET content == [of |-> a.of, quality |-> a.quality, knows |-> {}]
      s == CheckPending(stream)
  IN  /\ a \in asked /\ Found(a) /\ a.update
      /\ stream' = [s EXCEPT !.requests = {},
                             !.segments[a.id].videos[a.part].content = content,
                             !.segments[a.id].videos[a.part].update = <<>>]
      /\ asked' = (asked \ {a}) \cup s.requests
      /\ UNCHANGED <<delays, buffer, threads, history>>

\* A part that is not there yet is asked for again after a while. A better quality that
\* is not there yet is not.
PartNotReady(a) ==
  LET refused == IF a.update THEN stream
                 ELSE [stream EXCEPT !.segments[a.id].parts[a.part].status = "notReady",
                                     !.segments[a.id].parts[a.part].due = FALSE]
      s == CheckPending(refused)
  IN  /\ a \in asked /\ Found(a)
      /\ Troubles < MaxTroubles
      /\ stream' = [s EXCEPT !.requests = {}]
      /\ asked' = (asked \ {a}) \cup s.requests
      /\ history' = [history EXCEPT !.refusals = @ + 1]
      /\ UNCHANGED <<delays, buffer, threads>>

\* min_request_timestamp goes by.
PartDue(k, i) ==
  /\ k \in Pending(stream) /\ i \in DOMAIN stream.segments[k].parts
  /\ ~ stream.segments[k].parts[i].due
  /\ Commit(CheckPending([stream EXCEPT !.segments[k].parts[i].due = TRUE]))
  /\ UNCHANGED <<delays, buffer, threads, history>>

\* Too late: what is pending is dropped and starts again, from a time that is asked for,
\* or from the clock of the machine, which counts from another moment.
PartResync(a, t) ==
  LET restarted == DiscardPending([stream EXCEPT
                     !.next = IF stream.rtmp THEN Unknown ELSE t])
      s == CheckPending(RequestSegments(restarted))
  IN  /\ a \in asked /\ Found(a)
      /\ Troubles < MaxTroubles
      /\ stream' = [s EXCEPT !.requests = {}]
      /\ asked' = (asked \ {a}) \cup s.requests
      /\ history' = [history EXCEPT !.resyncs = @ + 1]
      /\ UNCHANGED <<delays, buffer, threads>>

-----------------------------------------------------------------------------
(* The videos the application wants.                                        *)

\* The endpoint a better quality is asked for: the last one of the map, whatever
\* endpoint the segment shows.
Target(s) ==
  LET Known(e) == e \in DOMAIN s.channels \cap s.mapping
      videos == SelectSeq(Order, Known)
      e == videos[Len(videos)]
  IN  IF videos = <<>> THEN <<>> ELSE <<[of |-> e, quality |-> s.channels[e]]>>

NeedsUpdate(s, video) ==
  /\ video.content.of \in DOMAIN s.channels
  /\ video.quality # s.channels[video.content.of]
  /\ ~ video.playing
  /\ Target(s) # <<>> /\ video.update # Target(s)

\* check_pending_video_quality_update.
CheckQuality(s) ==
  LET places == {p \in Ready(s) \X (1 .. Len(Order)) :
                   /\ p[2] \in DOMAIN s.segments[p[1]].videos
                   /\ NeedsUpdate(s, s.segments[p[1]].videos[p[2]])}
  IN  [s EXCEPT
         !.requests = @ \cup {[id |-> p[1], part |-> p[2], update |-> TRUE,
                               of |-> Target(s)[1].of, quality |-> Target(s)[1].quality] :
                                p \in places},
         !.segments = [k \in DOMAIN @ |-> [@[k] EXCEPT !.videos = [i \in DOMAIN @ |->
            IF <<k, i>> \in places THEN [@[i] EXCEPT !.update = Target(s)] ELSE @[i]]]]]

Changed == [history EXCEPT !.changes = @ + 1]

AddIncomingVideo(e, quality) ==
  LET s == CheckQuality([stream EXCEPT !.channels = (e :> quality) @@ @])
  IN  /\ ~ stream.rtmp /\ stream.running
      /\ Troubles < MaxTroubles
      /\ Commit(s)
      /\ history' = Changed
      /\ UNCHANGED <<delays, buffer, threads>>

RemoveIncomingVideo(e) ==
  LET s == CheckQuality([stream EXCEPT !.channels = Restrict(@, DOMAIN @ \ {e})])
  IN  /\ ~ stream.rtmp /\ stream.running
      /\ e \in DOMAIN stream.channels
      /\ Troubles < MaxTroubles
      /\ Commit(s)
      /\ history' = Changed
      /\ UNCHANGED <<delays, buffer, threads>>

-----------------------------------------------------------------------------
(* The threads that play.                                                   *)

\* Mutant of NextSegment: the last one that is ready.
NextSegmentLast(s) ==
  IF Cardinality(Ready(s)) < s.wait THEN [s |-> s, id |-> 0]
  ELSE IF Ready(s) = {} THEN [s |-> [s EXCEPT !.wait = BufferDuration + 1], id |-> 0]
  ELSE [s |-> [s EXCEPT !.wait = 0], id |-> Max(Ready(s))]

\* The segment to play next: once there was none, the whole buffer has to fill first.
NextSegment(s) ==
  IF Cardinality(Ready(s)) < s.wait THEN [s |-> s, id |-> 0]
  ELSE IF Ready(s) = {} THEN [s |-> [s EXCEPT !.wait = BufferDuration + 1], id |-> 0]
  ELSE [s |-> [s EXCEPT !.wait = 0], id |-> Min(Ready(s))]

\* Mutant of Spent: a segment is over when one thread is through.
SpentSoon == \E m \in Threads : buffer.consumed[m] = Frames

Spent == \A m \in Threads : buffer.consumed[m] = Frames

\* get_segment_sync: when both threads are through, the first segment is erased and the
\* next one looked for; a thread that is through waits for the other.
GetSegment(m) ==
  LET first == IF Spent /\ DOMAIN stream.segments # {} THEN Min(DOMAIN stream.segments) ELSE 0
      rest == [stream EXCEPT !.segments = Restrict(@, DOMAIN @ \ {first})]
      consumed == IF Spent THEN [t \in Threads |-> 0] ELSE buffer.consumed
      last == IF Spent THEN 0 ELSE buffer.last
      look == last = 0 \/ \A t \in Threads : consumed[t] = 0
      found == IF look THEN NextSegment(rest) ELSE [s |-> rest, id |-> last]
      plays == found.id # 0 /\ consumed[m] < Frames
  IN  /\ stream.running /\ threads[m].step = "idle"
      /\ found.id # last => history.played < MaxPlayed
      /\ stream' = found.s
      /\ buffer' = [buffer EXCEPT !.last = found.id,
                      !.consumed = IF plays THEN [consumed EXCEPT ![m] = @ + 1] ELSE consumed]
      /\ threads' = [t \in Threads |->
           IF t = m
           THEN IF plays
                THEN [step |-> "playing", segment |-> found.id, frame |-> consumed[m] + 1,
                      freed |-> FALSE]
                ELSE [Resting EXCEPT !.step = "checking"]
           ELSE [threads[t] EXCEPT !.freed = @ \/ (first # 0 /\ threads[t].segment = first)]]
      /\ history' = IF found.id \in {0, last} THEN history
                    ELSE [history EXCEPT !.played = @ + 1,
                                         !.time = found.s.segments[found.id].time]
      /\ UNCHANGED <<asked, delays>>

\* frame_callback_, without the lock of the buffer: the video thread forgets the better
\* qualities that did not come in time.
PlayFrame(m) ==
  LET k == threads[m].segment
  IN  /\ threads[m].step = "playing"
      /\ stream' = IF m = "audio" \/ k \notin DOMAIN stream.segments THEN stream
                   ELSE [stream EXCEPT !.segments[k].videos = [i \in DOMAIN @ |->
                           [@[i] EXCEPT !.playing = TRUE,
                              !.update = IF stream.rtmp THEN @ ELSE <<>>]]]
      /\ threads' = [threads EXCEPT ![m] = [Resting EXCEPT !.step = "checking"]]
      /\ UNCHANGED <<asked, delays, buffer, history>>

\* check_segments_sync: every second time, by whichever thread, segments are asked for.
CheckSegments(m) ==
  /\ threads[m].step = "checking"
  /\ threads' = [threads EXCEPT ![m] = Resting]
  /\ buffer' = [buffer EXCEPT !.checks = (@ + 1) % Cardinality(Threads)]
  /\ IF buffer.checks + 1 = Cardinality(Threads)
     THEN Commit(CheckPending(RequestSegments(stream)))
     ELSE UNCHANGED <<stream, asked>>
  /\ UNCHANGED <<delays, history>>

\* close waits for the threads; tasks of the media thread may follow.
Close ==
  /\ stream.running /\ \A m \in Threads : threads[m].step = "idle"
  /\ stream' = [stream EXCEPT !.running = FALSE]
  /\ UNCHANGED <<asked, delays, buffer, threads, history>>

-----------------------------------------------------------------------------

Answer ==
  \E a \in asked :
    \/ PartIgnored(a)
    \/ \E knows \in SUBSET (IF a.of = "audio" THEN Endpoint ELSE {}) : PartSuccess(a, knows)
    \/ UpdateSuccess(a)
    \/ PartNotReady(a)
    \/ \E t \in Times \ {0} : PartResync(a, t)

AnswerTime == \E t \in Times : SendTimestamp(t)

Later ==
  \/ \E id \in delays : AskAgain(id)
  \/ \E k \in Pending(stream) : \E i \in 1 .. Len(Order) + 1 : PartDue(k, i)

Play(m) == GetSegment(m) \/ PlayFrame(m) \/ CheckSegments(m)

Changes ==
  \E e \in Endpoint :
    \/ \E quality \in Qualities : AddIncomingVideo(e, quality)
    \/ RemoveIncomingVideo(e)

Next == Answer \/ AnswerTime \/ Later \/ Changes \/ Close \/ \E m \in Threads : Play(m)

Spec == Init /\ [][Next]_vars

\* At least one of the threads runs, and the application answers what it is asked.
Fairness ==
  /\ WF_vars(Answer \/ AnswerTime \/ Later)
  /\ WF_vars(\E m \in Threads : Play(m))

FairSpec == Spec /\ Fairness

-----------------------------------------------------------------------------
(* Properties.                                                              *)

\* Segments are played in order and none is left out, however their parts arrive, as
\* long as no answer asked for a resync.
PlayedInOrder ==
  [][history'.played > history.played /\ history.played > 0 /\ history'.resyncs = 0
       => history'.time = history.time + 1]_vars

\* The pointer a thread plays from outlives the lock of the buffer: the segment can be
\* erased under it by the other thread, but only under its last frame.
FreedOnlyAtTheEnd ==
  \A m \in Threads : threads[m].freed => threads[m].frame = Frames

\* After a time that cannot be used, the next one is asked for by the delayed task and
\* nobody else, although both threads try all the time. The first task is an exception:
\* its id is the value for no task.
TimeNotPressed == stream.waiting => delays \subseteq {0}

\* Playback that ran dry, or that has not begun, goes on: the buffer that has to fill
\* first is one the requests can fill.
PlaybackResumes ==
  buffer.last = 0 ~> buffer.last # 0 \/ ~ stream.running \/ history.played = MaxPlayed

=============================================================================
