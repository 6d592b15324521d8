--------------------------- MODULE StreamManager ---------------------------
(***************************************************************************)
(* The sources a call captures from (ntgcalls::media::StreamManager): one  *)
(* reader per device, made and removed by set_stream_sources, removed too  *)
(* when it reaches its end, paused, detached from one connection and       *)
(* started on the next; and the state of the media that the application or *)
(* the other end is told after a change.                                   *)
(*                                                                         *)
(* A thread of the application, the worker thread and the threads of the   *)
(* readers meet here.  A reader is named by its place in the sequence of   *)
(* all readers made; what it does between two frames is in ThreadedReader, *)
(* here it calls back with a frame, or ends.  What is played back          *)
(* (writers_) is left out.                                                 *)
(***************************************************************************)
EXTENDS Integers, Sequences, FiniteSets, Functions

CONSTANTS
  Order,          \* the devices, in the order set_stream_sources looks at them
  Sources,        \* what may be asked of a device: see Descriptions
  EndsTold,       \* times a reader may tell its end: see ThreadedReader
  MaxReaders,     \* bound: readers made
  MaxCalls        \* bound: calls of the application and connections that come up

Device == {Order[i] : i \in DOMAIN Order}

\* Nothing; a file or a capture device; the one there is, kept open; one that cannot
\* be made; frames that the application sends itself.
Descriptions == {"none", "file", "same", "missing", "external"}

ASSUME StreamAssumption ==
  /\ Order \in Seq(Device) \ {<<>>}
  /\ Sources \subseteq Descriptions
  /\ EndsTold \in Nat \ {0}
  /\ MaxReaders \in Nat
  /\ MaxCalls \in Nat

VARIABLES
  sources,        \* the maps of readers and devices: see NoSources
  made,           \* all readers made
  flags,          \* initialized_, detached_, resume_on_reconnect_, closed_, the tracks
  last,           \* last_state_, <<>> if there is none
  told,           \* what on_change_status_ was told last, <<>> if nothing
  tasks,          \* the tasks of the worker thread
  doing,          \* what the application's thread and the worker are in the middle of
  crashed,        \* whether a thread went through an empty pointer
  history         \* for the properties: see NoHistory

vars == <<sources, made, flags, last, told, tasks, doing, crashed, history>>

Threads == {"application", "worker"}

NoSources ==
  [readers   |-> <<>>,      \* readers_: the reader of some devices, 0 if the pointer is empty
   removed   |-> <<>>,      \* removed_readers_: pairs of a device and its reader
   external  |-> {},        \* external_readers_
   syncing   |-> {},        \* sync_readers_
   cancelled |-> {}]        \* cancel_sync_readers_

NewReader(d, opened) ==
  [device  |-> d,
   running |-> opened,      \* running_
   enabled |-> TRUE,        \* status_
   heard   |-> TRUE,        \* data_callback_ and eof_callback_ are set
   thread  |-> "out"]       \* its thread: within data_callback_, and how far

NoFlags ==
  [initialized |-> FALSE, detached |-> FALSE, resume |-> FALSE, closed |-> FALSE,
   tracks |-> TRUE, muted |-> FALSE]

Idle == [step |-> "idle", rest |-> <<>>, wants |-> <<>>, doomed |-> <<>>, keys |-> {},
         state |-> <<>>]

NoHistory ==
  [calls    |-> 0,          \* calls of the application, and connections that came up
   thrown   |-> FALSE,      \* set_stream_sources threw and nothing was destroyed since
   switched |-> {},         \* devices made external while a reader of theirs ran
   untold   |-> FALSE]      \* the state may have changed without a task to tell it

Init ==
  /\ sources = NoSources
  /\ made = <<>>
  /\ flags = NoFlags
  /\ last = <<>>
  /\ told = <<>>
  /\ tasks = <<>>
  /\ doing = [t \in Threads |-> Idle]
  /\ crashed = FALSE
  /\ history = NoHistory

-----------------------------------------------------------------------------
(* The state of the media.                                                  *)

\* set_stream_sources keeps mutex_ from one device to the next.
Unlocked == doing["application"].step # "configure"

Current == {sources.readers[d] : d \in DOMAIN sources.readers}

HasDevice(d) == d \in DOMAIN sources.readers \cup sources.external

IsPaused == flags.initialized /\ \E r \in Current : ~ made[r].enabled

GetState ==
  [muted  |-> flags.muted,
   paused |-> IsPaused \/ flags.muted,
   off    |-> {d \in Device : ~ HasDevice(d)}]

\* What the listener knows.
Told ==
  IF told = <<>> THEN [muted |-> FALSE, paused |-> FALSE, off |-> Device] ELSE told[1]

CheckUpgrade(queue) == Append(queue, [task |-> "emit", device |-> Order[1]])

EnableAll(value) ==
  [r \in DOMAIN made |->
     IF r \in Current THEN [made[r] EXCEPT !.enabled = value] ELSE made[r]]

-----------------------------------------------------------------------------
(* Removing readers.                                                        *)

Without(f, d) == [x \in DOMAIN f \ {d} |-> f[x]]

\* remove_reader: a reader that is to wait for the others is let go; the object is
\* kept until mutex_ is free.
RemoveReader(s, d) ==
  [s EXCEPT
     !.syncing = @ \ {d},
     !.cancelled = IF d \notin s.syncing THEN @
                   ELSE IF d \in DOMAIN s.readers THEN @ \cup {d} ELSE @ \ {d},
     !.readers = Without(@, d),
     !.removed = IF d \in DOMAIN s.readers THEN Append(@, <<d, s.readers[d]>>) ELSE @,
     !.external = @ \ {d}]

Second(pairs) == [i \in DOMAIN pairs |-> pairs[i][2]]

\* destroy_removed_readers takes the readers out of the list,
TakeRemoved(t) ==
  /\ doing[t].step = "take"
  /\ Unlocked
  /\ doing' = [doing EXCEPT ![t] =
       [Idle EXCEPT !.step = "destroy", !.doomed = Second(sources.removed),
          !.keys = {sources.removed[i][1] : i \in DOMAIN sources.removed}]]
  /\ sources' = [sources EXCEPT !.removed = <<>>]
  /\ history' = [history EXCEPT !.thrown = FALSE]
  /\ UNCHANGED <<made, flags, last, told, tasks, crashed>>

\* takes its callbacks from each and tells its threads to end,
Silence(t) ==
  /\ doing[t].step = "destroy" /\ doing[t].doomed # <<>>
  /\ LET r == Head(doing[t].doomed)
     IN  IF r = 0
         THEN crashed' = TRUE /\ UNCHANGED <<made, doing>>
         ELSE /\ made' = [made EXCEPT ![r].heard = FALSE, ![r].running = FALSE]
              /\ doing' = [doing EXCEPT ![t].step = "join"]
              /\ UNCHANGED crashed
  /\ UNCHANGED <<sources, flags, last, told, tasks, history>>

\* Mutant of Join: the threads are not waited for.
JoinSoon(t) ==
  /\ doing[t].step = "join"
  /\ doing' = [doing EXCEPT ![t].step = "destroy", ![t].doomed = Tail(@)]
  /\ UNCHANGED <<sources, made, flags, last, told, tasks, crashed, history>>

\* and waits for these, one reader after the other.
Join(t) ==
  /\ doing[t].step = "join"
  /\ made[Head(doing[t].doomed)].thread = "out"
  /\ doing' = [doing EXCEPT ![t].step = "destroy", ![t].doomed = Tail(@)]
  /\ UNCHANGED <<sources, made, flags, last, told, tasks, crashed, history>>

\* The end of destroy_removed_readers, or of close.
Destroyed(t) ==
  /\ doing[t].step = "destroy" /\ doing[t].doomed = <<>>
  /\ sources' = [sources EXCEPT !.cancelled = @ \ doing[t].keys]
  /\ doing' = [doing EXCEPT ![t] = Idle]
  /\ UNCHANGED <<made, flags, last, told, tasks, crashed, history>>

-----------------------------------------------------------------------------
(* The calls of the application.                                            *)

Calling == doing["application"] = Idle /\ history.calls < MaxCalls

Counted == [history EXCEPT !.calls = @ + 1]

\* set_stream_sources, for what is captured, takes mutex_; a closed call ignores it.
SetStreamSources(desc) ==
  /\ Calling /\ ~ flags.closed
  /\ Len(made) + Cardinality({d \in Device : desc[d] \in {"file", "same"}}) <= MaxReaders
  /\ history' = Counted
  /\ doing' = [doing EXCEPT !["application"] =
                 [Idle EXCEPT !.step = "configure", !.rest = Order, !.wants = desc]]
  /\ UNCHANGED <<sources, made, flags, last, told, tasks, crashed>>

\* A device that nothing is asked of keeps its reader while the call is detached from
\* its connection; one that is kept open has nothing to change.
Kept(d, want) ==
  \/ want = "none" /\ flags.detached
  \/ want = "same" /\ d \in DOMAIN sources.readers

\* A reader still runs or is in its callback, in whatever list.
Busy(r) == made[r].running \/ made[r].thread # "out"
Plays(d) == \E r \in DOMAIN made : made[r].device = d /\ Busy(r)

\* One device of maybe_reconfigure_device. A new reader is opened at once if there is
\* a connection.
Configure ==
  LET call == doing["application"]
      d == Head(call.rest)
      want == call.wants[d]
      rest == [call EXCEPT !.rest = Tail(@)]
  IN  /\ call.step = "configure" /\ call.rest # <<>>
      /\ want # "missing"
      /\ IF Kept(d, want) THEN UNCHANGED <<sources, made, history>>
         ELSE LET s == RemoveReader(sources, d)
              IN  CASE want = "none" ->
                         sources' = s /\ UNCHANGED <<made, history>>
                    [] want = "external" ->
                         /\ sources' = [s EXCEPT !.external = @ \cup {d},
                                                 !.syncing = @ \cup {d}]
                         /\ history' = [history EXCEPT !.switched =
                                          IF Plays(d) THEN @ \cup {d} ELSE @]
                         /\ UNCHANGED made
                    [] OTHER ->
                         /\ made' = Append(made, NewReader(d, flags.initialized))
                         /\ sources' = [s EXCEPT !.readers =
                              [x \in DOMAIN @ \cup {d} |->
                                 IF x = d THEN Len(made) + 1 ELSE @[x]]]
                         /\ UNCHANGED history
      /\ doing' = [doing EXCEPT !["application"] = rest]
      /\ UNCHANGED <<flags, last, told, tasks, crashed>>

\* The source cannot be made: the call throws, the reader that was replaced is not
\* destroyed yet and the devices that follow are not looked at.
ConfigureThrows ==
  LET call == doing["application"]
      d == Head(call.rest)
  IN  /\ call.step = "configure" /\ call.rest # <<>>
      /\ call.wants[d] = "missing"
      /\ sources' = RemoveReader(sources, d)
      /\ doing' = [doing EXCEPT !["application"] = Idle]
      /\ history' = [history EXCEPT !.thrown = TRUE, !.untold = TRUE]
      /\ UNCHANGED <<made, flags, last, told, tasks, crashed>>

\* All devices are done: what changed is to be told, and what was removed destroyed.
Configured ==
  /\ doing["application"].step = "configure" /\ doing["application"].rest = <<>>
  /\ tasks' = IF flags.initialized THEN CheckUpgrade(tasks) ELSE tasks
  /\ doing' = [doing EXCEPT !["application"] = [Idle EXCEPT !.step = "take"]]
  /\ history' = [history EXCEPT !.untold = @ \/ ~ flags.initialized]
  /\ UNCHANGED <<sources, made, flags, last, told, crashed>>

\* Mutant of UpdatePause: the change is not told.
UpdatePauseQuiet(value) ==
  /\ Calling
  /\ history' = Counted
  /\ IF 0 \in Current
     THEN crashed' = TRUE /\ UNCHANGED <<made, tasks>>
     ELSE /\ made' = EnableAll(~ value)
          /\ UNCHANGED <<tasks, crashed>>
  /\ UNCHANGED <<sources, flags, last, told, doing>>

\* pause and resume.
UpdatePause(value) ==
  /\ Calling
  /\ history' = Counted
  /\ IF 0 \in Current
     THEN crashed' = TRUE /\ UNCHANGED <<made, tasks>>
     ELSE /\ made' = EnableAll(~ value)
          /\ tasks' = IF \E r \in Current : made[r].enabled = value
                      THEN CheckUpgrade(tasks) ELSE tasks
          /\ UNCHANGED crashed
  /\ UNCHANGED <<sources, flags, last, told, doing>>

\* mute and unmute the track of the microphone.
UpdateMute(value) ==
  /\ Calling
  /\ history' = Counted
  /\ flags.tracks /\ flags.muted # value
  /\ flags' = [flags EXCEPT !.muted = value]
  /\ tasks' = CheckUpgrade(tasks)
  /\ UNCHANGED <<sources, made, last, told, doing, crashed>>

\* optimize_sources, of a connection that has its mode or not yet: the first time, the
\* state is read and taken for told.
OptimizeSources(connected) ==
  /\ Calling /\ ~ flags.closed
  /\ history' = [Counted EXCEPT !.untold = @ \/ ~ connected]
  /\ flags' = [flags EXCEPT !.initialized = connected]
  /\ doing' = IF ~ flags.initialized /\ connected
              THEN [doing EXCEPT !["application"] = [Idle EXCEPT !.step = "read"]]
              ELSE doing
  /\ UNCHANGED <<sources, made, last, told, tasks, crashed>>

\* on_upgrade: the next state is told whatever it is.
OnUpgrade ==
  /\ Calling
  /\ history' = Counted
  /\ last' = <<>>
  /\ UNCHANGED <<sources, made, flags, told, tasks, doing, crashed>>

\* detach: the next connection finds the readers as they are, but paused.
Detach ==
  /\ Calling
  /\ history' = [Counted EXCEPT !.untold = TRUE]
  /\ IF 0 \in Current
     THEN crashed' = TRUE /\ UNCHANGED <<made, flags>>
     ELSE /\ flags' = [flags EXCEPT !.tracks = FALSE, !.muted = FALSE, !.detached = TRUE,
                                    !.resume = ~ IsPaused, !.initialized = FALSE]
          /\ made' = EnableAll(FALSE)
          /\ UNCHANGED crashed
  /\ UNCHANGED <<sources, last, told, tasks, doing>>

\* add_track of the next connection.
AddTrack ==
  /\ Calling /\ ~ flags.closed
  /\ history' = Counted
  /\ ~ flags.tracks
  /\ flags' = [flags EXCEPT !.tracks = TRUE]
  /\ UNCHANGED <<sources, made, last, told, tasks, doing, crashed>>

\* Some devices in their order, that of the keys of readers_.
Sorted(devices) ==
  {f \in Bijection(1 .. Cardinality(devices), devices) :
     \A i, j \in DOMAIN f : i < j =>
       \E k, l \in DOMAIN Order : k < l /\ Order[k] = f[i] /\ Order[l] = f[j]}

\* close: nobody waits any more and all readers go, in the order of the devices, then
\* those removed before.
Close ==
  /\ Calling /\ ~ flags.closed
  /\ history' = [Counted EXCEPT !.thrown = FALSE]
  /\ flags' = [flags EXCEPT !.closed = TRUE, !.tracks = FALSE, !.muted = FALSE]
  /\ \E devices \in Sorted(DOMAIN sources.readers) :
       doing' = [doing EXCEPT !["application"] = [Idle EXCEPT !.step = "destroy",
         !.doomed = [i \in DOMAIN devices |-> sources.readers[devices[i]]]
                      \o Second(sources.removed)]]
  /\ sources' = [sources EXCEPT !.readers = <<>>, !.removed = <<>>, !.syncing = {}]
  /\ UNCHANGED <<made, last, told, tasks, crashed>>

-----------------------------------------------------------------------------
(* The worker thread, and the state that is told.                           *)

Working == doing["worker"] = Idle

\* A connection came up: start opens the readers, again those that had ended, and
\* resumes what detach paused.
Start ==
  /\ Working /\ Unlocked
  /\ history.calls < MaxCalls
  /\ history' = [Counted EXCEPT !.untold = @ \/ flags.resume]
  /\ IF 0 \in Current
     THEN crashed' = TRUE /\ UNCHANGED <<made, flags>>
     ELSE /\ made' = [r \in DOMAIN made |->
               IF r \in Current
               THEN [made[r] EXCEPT !.running = TRUE, !.enabled = @ \/ flags.resume]
               ELSE made[r]]
          /\ flags' = [flags EXCEPT !.detached = FALSE, !.resume = FALSE]
          /\ UNCHANGED crashed
  /\ UNCHANGED <<sources, last, told, tasks, doing>>

\* The next task: emit_state_if_changed, or the end of a reader, which removes the
\* reader that its device has now.
RunTask ==
  /\ Working /\ tasks # <<>>
  /\ tasks' = Tail(tasks)
  /\ IF Head(tasks).task = "emit"
     THEN /\ doing' = [doing EXCEPT !["worker"] = [Idle EXCEPT !.step = "read"]]
          /\ UNCHANGED sources
     ELSE /\ Unlocked
          /\ sources' = RemoveReader(sources, Head(tasks).device)
          /\ doing' = [doing EXCEPT !["worker"] = [Idle EXCEPT !.step = "take"]]
  /\ history' = [history EXCEPT !.untold = @ \/ Head(tasks).task = "eof"]
  /\ UNCHANGED <<made, flags, last, told, crashed>>

\* get_state.
ReadState(t) ==
  /\ doing[t].step = "read"
  /\ Unlocked
  /\ IF flags.initialized /\ 0 \in Current
     THEN crashed' = TRUE /\ UNCHANGED doing
     ELSE /\ doing' = [doing EXCEPT ![t].step = "remember", ![t].state = <<GetState>>]
          /\ UNCHANGED crashed
  /\ UNCHANGED <<sources, made, flags, last, told, tasks, history>>

\* The rest of emit_state_if_changed: a state that was told is not told again.
EmitStateIfChanged ==
  LET state == doing["worker"].state
  IN  /\ doing["worker"].step = "remember"
      /\ last' = state
      /\ told' = IF last = state \/ flags.closed THEN told ELSE state
      /\ doing' = [doing EXCEPT !["worker"] = Idle]
      /\ UNCHANGED <<sources, made, flags, tasks, crashed, history>>

\* The rest of optimize_sources.
Remember ==
  LET state == doing["application"].state
  IN  /\ doing["application"].step = "remember"
      /\ last' = state
      /\ doing' = [doing EXCEPT !["application"] = Idle]
      /\ history' = [history EXCEPT !.untold = @ \/ state # <<Told>>]
      /\ UNCHANGED <<sources, made, flags, told, tasks, crashed>>

-----------------------------------------------------------------------------
(* The threads of the readers.                                              *)

\* A frame for the callback.
Frame(r) ==
  /\ made[r].running /\ made[r].heard /\ made[r].thread = "out"
  /\ made' = [made EXCEPT ![r].thread = "called"]
  /\ UNCHANGED <<sources, flags, last, told, tasks, doing, crashed, history>>


\* Mutant of Synchronize: every frame goes through the barrier.
SynchronizeAlways(r) ==
  /\ made[r].thread = "called"
  /\ made' = [made EXCEPT ![r].thread = "waiting"]
  /\ sources' = [sources EXCEPT !.syncing = @ \ {made[r].device}]
  /\ UNCHANGED <<flags, last, told, tasks, doing, crashed, history>>

\* In the callback, under sync_mutex_: the first frame of a device in the barrier waits
\* until no device is in it.
Synchronize(r) ==
  LET d == made[r].device
  IN  /\ made[r].thread = "called"
      /\ made' = [made EXCEPT ![r].thread =
                    IF d \in sources.syncing THEN "waiting" ELSE "sending"]
      /\ sources' = [sources EXCEPT !.syncing = @ \ {d}]
      /\ UNCHANGED <<flags, last, told, tasks, doing, crashed, history>>

\* Then the clock of the reader of this device is set; the map makes an entry for a
\* device that has none.
Synchronized(r) ==
  LET d == made[r].device
  IN  /\ made[r].thread = "waiting"
      /\ sources.syncing = {} \/ d \in sources.cancelled
      /\ IF d \in sources.cancelled
         THEN /\ sources' = [sources EXCEPT !.cancelled = @ \ {d}]
              /\ made' = [made EXCEPT ![r].thread = "out"]
         ELSE /\ sources' = [sources EXCEPT !.readers =
                   [x \in DOMAIN @ \cup {d} |-> IF x \in DOMAIN @ THEN @[x] ELSE 0]]
              /\ made' = [made EXCEPT ![r].thread = "sending"]
      /\ UNCHANGED <<flags, last, told, tasks, doing, crashed, history>>

\* The frame is handed to the stream under mutex_.
Send(r) ==
  /\ made[r].thread = "sending"
  /\ Unlocked
  /\ made' = [made EXCEPT ![r].thread = "out"]
  /\ UNCHANGED <<sources, flags, last, told, tasks, doing, crashed, history>>

\* The source is at its end: a task for the worker thread, perhaps more than one.
End(r) ==
  /\ made[r].running /\ made[r].thread = "out"
  /\ made' = [made EXCEPT ![r].running = FALSE]
  /\ \E n \in 1 .. EndsTold :
       tasks' = IF made[r].heard
                THEN tasks \o [i \in 1 .. n |-> [task |-> "eof", device |-> made[r].device]]
                ELSE tasks
  /\ UNCHANGED <<sources, flags, last, told, doing, crashed, history>>

-----------------------------------------------------------------------------

Asks == \E desc \in [Device -> Sources] : SetStreamSources(desc)

Proceed(t) == TakeRemoved(t) \/ Silence(t) \/ Join(t) \/ Destroyed(t) \/ ReadState(t)

Application ==
  \/ Asks
  \/ \E value \in BOOLEAN : UpdatePause(value) \/ UpdateMute(value) \/ OptimizeSources(value)
  \/ OnUpgrade \/ Detach \/ AddTrack \/ Close

Continue ==
  \/ Configure \/ ConfigureThrows \/ Configured \/ Remember
  \/ Proceed("application")

Worker == RunTask \/ EmitStateIfChanged \/ Proceed("worker")

Callback(r) == Synchronize(r) \/ Synchronized(r) \/ Send(r)

\* A thread that goes through an empty pointer takes the process down.
Next ==
  /\ ~ crashed
  /\ \/ Application \/ Continue \/ Start \/ Worker
     \/ \E r \in DOMAIN made : Frame(r) \/ Callback(r) \/ End(r)

Spec == Init /\ [][Next]_vars

\* The threads run. Nothing obliges the application to call, or a reader to end.
Fairness ==
  /\ WF_vars(~ crashed /\ Continue)
  /\ WF_vars(~ crashed /\ Worker)
  /\ \A r \in 1 .. MaxReaders : WF_vars(~ crashed /\ r \in DOMAIN made /\ Callback(r))

FairSpec == Spec /\ Fairness

-----------------------------------------------------------------------------
(* Properties.                                                              *)

Settled == \A t \in Threads : doing[t].step \in {"idle", "read", "remember"}

\* When no call is under way, only the readers that are in the map play: what was
\* replaced or removed sends no more frames, whatever its threads were doing. The
\* exception is a set_stream_sources that threw: what it took out plays on until the
\* next one destroys it.
OnlyCurrentPlay ==
  Settled /\ ~ history.thrown =>
    \A r \in DOMAIN made : Busy(r) => r \in Current

\* An entry without a reader, which pause, detach, start and the next removal go
\* through, appears only for a device that became external while one of its readers
\* still ran; nothing else takes the process down.
EmptyHasCause ==
  crashed \/ 0 \in Current => history.switched # {}

\* At rest the listener knows the state of the media, whatever order pauses, mutes,
\* sources and the worker's tasks came in: a change it is not told of is one of those
\* marked untold.
ChangesTold ==
  tasks = <<>> /\ (\A t \in Threads : doing[t] = Idle) /\ 0 \notin Current
    /\ ~ history.untold /\ ~ flags.closed
    => Told = GetState


=============================================================================
