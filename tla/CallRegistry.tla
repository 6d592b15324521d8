---------------------------- MODULE CallRegistry ----------------------------
(***************************************************************************)
(* The calls of an application (ntgcalls::NTgCalls), one per chat, from    *)
(* their creation to their removal, and the states of the connection it is *)
(* told about (instances::CallInterface, and what NativeConnection and     *)
(* GroupConnection say of their transport).                                *)
(*                                                                         *)
(* Four kinds of threads meet here: those of the application, which create,*)
(* connect and stop calls; the network thread, where a transport comes up  *)
(* and goes down; the signaling thread, where its state is published; the  *)
(* update thread, which tells the application and removes a call that      *)
(* ended.  A call is named by its place in the sequence of all calls.      *)
(***************************************************************************)
EXTENDS Integers, Sequences, FiniteSets

CONSTANTS
  Chats,          \* the chats calls are made in
  Kinds,          \* kinds of calls that are created: "p2p", "group"
  Modes,          \* modes a group call is connected in: "rtc", "stream", "rtmp"
  Careful,        \* whether the application leaves a chat alone that is busy
  Early,          \* whether a group's transport may be up before connect returns
  Failing,        \* whether connect and init_conference may throw half-way
  MaxCalls,       \* bound: calls created
  MaxConnects,    \* bound: times connect is called, of all calls together
  MaxChanges      \* bound: changes of a transport, of all calls together

ASSUME CallAssumption ==
  /\ 0 \notin Chats
  /\ Kinds \subseteq {"p2p", "group"}
  /\ Modes \subseteq {"rtc", "stream", "rtmp"}
  /\ Careful \in BOOLEAN
  /\ Early \in BOOLEAN
  /\ Failing \in BOOLEAN
  /\ MaxCalls \in Nat
  /\ MaxConnects \in Nat
  /\ MaxChanges \in Nat

VARIABLES
  connections,    \* the call of each chat, 0 if there is none
  calls,          \* all calls made, in order
  updates,        \* the tasks of the update thread
  stopping,       \* calls that application threads took out and will stop
  busy,           \* the call that the update thread is stopping, or 0
  lastStop        \* what came of the last stop of a chat without a call

vars == <<connections, calls, updates, stopping, busy, lastStop>>

Final == {"Failed", "Timeout"}
Streaming == {"stream", "rtmp"}

\* A notice carries its state, or it finds it out when it runs ("now").
Call ==
  [chat      : Chats,
   kind      : {"p2p", "group"},
   listener  : BOOLEAN,                    \* connection_change_callback_ of the call
   conn      : {"none", "open", "closed"}, \* connection_
   mode      : {"none", "rtc", "stream", "rtmp"},      \* connection_mode_
   phase     : {"no", "fetched", "half"},  \* a thread in connect, and how far
   observed  : BOOLEAN,                    \* connection_change_callback_ of the connection
   remote    : BOOLEAN,                    \* the transport has its remote parameters
   up        : BOOLEAN,                    \* connected_, is_rtc_connected_
   media     : {"off", "soon", "up"},      \* is_stream_connected_ and its delayed task
   effective : BOOLEAN,                    \* last_effectively_connected_
   failed    : BOOLEAN,
   checking  : BOOLEAN,                    \* check_connection_timeout is posted
   current   : {"Connecting", "Connected", "Failed"},  \* current_state_
   already   : BOOLEAN,                    \* already_connected_
   notices   : Seq({"now", "Connecting", "Connected"}),\* tasks of the signaling thread
   timers    : Nat,                        \* delayed tasks of set_connection_observer
   starts    : Nat,                        \* times the streams were started
   connects  : Nat,                        \* times connect was called
   changes   : Nat,                        \* changes of the transport
   reports   : Seq(Final \cup {"Connecting", "Connected"})]
                                           \* what the application was told, in order

NewCall(chat, kind, listener) ==
  [chat |-> chat, kind |-> kind, listener |-> listener,
   conn |-> IF kind = "group" THEN "open" ELSE "none",
   mode |-> "none", phase |-> "no", observed |-> FALSE, remote |-> FALSE, up |-> FALSE,
   media |-> "off", effective |-> FALSE, failed |-> FALSE, checking |-> FALSE,
   current |-> "Connecting", already |-> FALSE, notices |-> <<>>, timers |-> 0,
   starts |-> 0, connects |-> 0, changes |-> 0, reports |-> <<>>]

\* Calls that something still refers to; a task finds nothing else.
Alive(i) ==
  \/ \E chat \in Chats : connections[chat] = i
  \/ i \in stopping \cup {busy}
  \/ calls[i].phase # "no"

\* What the bounds count: the times connect was called and the changes there were.
Connects ==
  {p \in (DOMAIN calls) \X (1 .. MaxConnects) : p[2] <= calls[p[1]].connects}

Changes ==
  {p \in (DOMAIN calls) \X (1 .. MaxChanges) : p[2] <= calls[p[1]].changes}

Tell(i, state) ==
  IF calls[i].listener
  THEN Append(updates, [task |-> "notify", call |-> i, state |-> state])
  ELSE updates

ChatOf(task) == IF task.task = "remove" THEN task.chat ELSE calls[task.call].chat

-----------------------------------------------------------------------------
(* What a connection publishes.                                             *)

\* A one-to-one connection posts that something changed,
NotifyStateUpdated(c) == [c EXCEPT !.notices = Append(@, "now")]

\* a group connection posts its state if it is another.
UpdateIsConnected(c) ==
  LET now == IF c.mode = "rtc" THEN c.up ELSE c.mode \in Streaming /\ c.media = "up"
  IN  IF c.conn = "closed" \/ now = c.effective THEN c
      ELSE [c EXCEPT !.effective = now,
                     !.notices = Append(@, IF now THEN "Connected" ELSE "Connecting")]

StateUpdated(c) == IF c.kind = "p2p" THEN NotifyStateUpdated(c) ELSE UpdateIsConnected(c)

StateNow(c) ==
  IF c.failed THEN "Failed" ELSE IF c.up THEN "Connected" ELSE "Connecting"

\* Mutant of Stopped: the connection is forgotten.
StoppedOpen(c) == [c EXCEPT !.listener = FALSE, !.observed = FALSE]

\* stop: from here on the call tells nothing and its connection neither.
Stopped(c) ==
  [c EXCEPT !.listener = FALSE, !.observed = FALSE,
            !.conn = IF @ = "open" THEN "closed" ELSE @]

-----------------------------------------------------------------------------
(* The application.                                                         *)

Init ==
  /\ connections = [chat \in Chats |-> 0]
  /\ calls = <<>>
  /\ updates = <<>>
  /\ stopping = {}
  /\ busy = 0
  /\ lastStop = "none"

\* Nothing about the chat is under way.
Settled(chat) ==
  /\ \A k \in DOMAIN updates : ChatOf(updates[k]) # chat
  /\ \A i \in DOMAIN calls : calls[i].chat = chat =>
       calls[i].phase = "no" /\ i \notin stopping \cup {busy}

CreateCall(chat, kind) ==
  /\ connections[chat] = 0
  /\ Careful => Settled(chat)
  /\ Len(calls) < MaxCalls
  /\ calls' = Append(calls, NewCall(chat, kind, TRUE))
  /\ connections' = [connections EXCEPT ![chat] = Len(calls) + 1]
  /\ UNCHANGED <<updates, stopping, busy, lastStop>>

\* A one-to-one call becomes a conference, which takes its place and its streams.
\* If it throws, nobody listens to the conference.
InitConference(chat, succeeds) ==
  LET i == connections[chat]
  IN  /\ i # 0
      /\ calls[i].kind = "p2p"
      /\ Careful => Settled(chat)
      /\ Len(calls) < MaxCalls
      /\ Failing \/ succeeds
      /\ calls' = Append([calls EXCEPT ![i] = Stopped(@)], NewCall(chat, "group", succeeds))
      /\ connections' = [connections EXCEPT ![chat] = Len(calls) + 1]
      /\ UNCHANGED <<updates, stopping, busy, lastStop>>

\* connect finds the call under the lock and continues without it.
FetchToConnect(chat) ==
  LET i == connections[chat]
  IN  /\ i # 0
      /\ calls[i].phase = "no"
      /\ Cardinality(Connects) < MaxConnects
      /\ calls' = [calls EXCEPT ![i].phase = "fetched", ![i].connects = @ + 1]
      /\ UNCHANGED <<connections, updates, stopping, busy, lastStop>>

\* The observer, the first report and the timer of ten seconds.
SetConnectionObserver(i, c) ==
  /\ calls' = [calls EXCEPT ![i] =
                 [c EXCEPT !.phase = "no", !.observed = TRUE, !.timers = @ + 1]]
  /\ updates' = Tell(i, "Connecting")
  /\ UNCHANGED <<connections, stopping, busy, lastStop>>

LeaveConnect(i, c) ==
  /\ calls' = [calls EXCEPT ![i] = [c EXCEPT !.phase = "no"]]
  /\ UNCHANGED <<connections, updates, stopping, busy, lastStop>>

Opened(c) == [c EXCEPT !.conn = "open", !.mode = "rtc"]

\* Signaling received so far is handed over last: the transport cannot be up before.
ConnectP2P(i) ==
  LET c == calls[i]
  IN  /\ c.kind = "p2p"
      /\ c.phase = "fetched"
      /\ IF c.conn # "none" THEN LeaveConnect(i, c)
         ELSE \/ SetConnectionObserver(i, [Opened(c) EXCEPT !.remote = TRUE, !.checking = TRUE])
              \/ Failing /\ LeaveConnect(i, Opened(c))

CanSwitch(old, new) == old # new /\ old # "rtmp" /\ (old = "rtc" => new = "stream")

SetConnectionMode(c, mode) ==
  UpdateIsConnected(
    [c EXCEPT !.mode = mode,
              !.already = IF mode = "rtc" /\ c.mode \in Streaming THEN FALSE ELSE @])

ConnectGroup(i, mode) ==
  LET c == calls[i]
  IN  /\ c.kind = "group"
      /\ c.phase = "fetched"
      /\ IF ~ CanSwitch(c.mode, mode) THEN LeaveConnect(i, c)
         ELSE /\ calls' = [calls EXCEPT ![i] =
                   [SetConnectionMode(c, mode) EXCEPT !.phase = "half",
                      !.remote = IF mode = "rtc" THEN TRUE ELSE @,
                      !.media = IF mode \in Streaming /\ @ = "off" THEN "soon" ELSE @]]
              /\ UNCHANGED <<connections, updates, stopping, busy, lastStop>>

ConnectGroupEnds(i) ==
  /\ calls[i].phase = "half"
  /\ \/ SetConnectionObserver(i, calls[i])
     \/ Failing /\ LeaveConnect(i, calls[i])

\* remove takes the call out under the lock; it is stopped without it.
Stop(chat) ==
  LET i == connections[chat]
  IN  /\ i # 0
      /\ Careful => calls[i].phase = "no"
      /\ connections' = [connections EXCEPT ![chat] = 0]
      /\ stopping' = stopping \cup {i}
      /\ UNCHANGED <<calls, updates, busy, lastStop>>

StopMissing(chat) ==
  /\ connections[chat] = 0
  /\ lastStop' = "returned"
  /\ UNCHANGED <<connections, calls, updates, stopping, busy>>

\* All calls at once, when the process ends.
StopConnections ==
  /\ \E chat \in Chats : connections[chat] # 0
  /\ Careful => \A i \in DOMAIN calls : calls[i].phase = "no"
  /\ connections' = [chat \in Chats |-> 0]
  /\ stopping' = stopping \cup ({connections[chat] : chat \in Chats} \ {0})
  /\ UNCHANGED <<calls, updates, busy, lastStop>>

StopEnds(i) ==
  /\ i \in stopping
  /\ calls' = [calls EXCEPT ![i] = Stopped(@)]
  /\ stopping' = stopping \ {i}
  /\ UNCHANGED <<connections, updates, busy, lastStop>>

-----------------------------------------------------------------------------
(* The network and the signaling thread.                                    *)

\* A transport comes up or goes down.
TransportChanges(i) ==
  LET c == calls[i]
  IN  /\ c.conn = "open" /\ c.remote
      /\ Early \/ c.phase = "no"
      /\ Cardinality(Changes) < MaxChanges
      /\ calls' = [calls EXCEPT ![i] =
           StateUpdated([c EXCEPT !.up = ~ @, !.changes = @ + 1])]
      /\ UNCHANGED <<connections, updates, stopping, busy, lastStop>>

\* The route changes and the connection says so.
RouteChanges(i) ==
  LET c == calls[i]
  IN  /\ c.kind = "p2p" /\ c.conn = "open" /\ c.remote
      /\ Cardinality(Changes) < MaxChanges
      /\ calls' = [calls EXCEPT ![i] = NotifyStateUpdated([c EXCEPT !.changes = @ + 1])]
      /\ UNCHANGED <<connections, updates, stopping, busy, lastStop>>

\* Half a second after a stream was connected.
StreamConnected(i) ==
  LET c == calls[i]
  IN  /\ c.media = "soon"
      /\ Early \/ c.phase = "no"
      /\ calls' = [calls EXCEPT ![i] = UpdateIsConnected([c EXCEPT !.media = "up"])]
      /\ UNCHANGED <<connections, updates, stopping, busy, lastStop>>

\* Twenty seconds without a transport.
CheckConnectionTimeout(i) ==
  LET c == calls[i]
  IN  /\ c.checking /\ c.conn = "open" /\ ~ c.up
      /\ calls' = [calls EXCEPT ![i] =
           NotifyStateUpdated([c EXCEPT !.failed = TRUE, !.checking = FALSE])]
      /\ UNCHANGED <<connections, updates, stopping, busy, lastStop>>

\* Mutant of RunNotice: any state counts as having been connected.
RunNoticeOfAnyState(i) ==
  LET c == calls[i]
      state == IF Head(c.notices) = "now" THEN StateNow(c) ELSE Head(c.notices)
  IN  /\ c.notices # <<>>
      /\ calls' = [calls EXCEPT ![i] =
           [c EXCEPT !.notices = Tail(@), !.current = state, !.already = TRUE]]
      /\ updates' = IF c.observed /\ Alive(i)
                    THEN Append(updates, [task |-> "observe", call |-> i, state |-> state,
                                          was |-> c.already])
                    ELSE updates
      /\ UNCHANGED <<connections, stopping, busy, lastStop>>

\* The signaling thread publishes a state; an observer posts it with what was
\* known before.
RunNotice(i) ==
  LET c == calls[i]
      state == IF Head(c.notices) = "now" THEN StateNow(c) ELSE Head(c.notices)
  IN  /\ c.notices # <<>>
      /\ calls' = [calls EXCEPT ![i] =
           [c EXCEPT !.notices = Tail(@), !.current = state,
                     !.already = @ \/ state = "Connected"]]
      /\ updates' = IF c.observed /\ Alive(i)
                    THEN Append(updates, [task |-> "observe", call |-> i, state |-> state,
                                          was |-> c.already])
                    ELSE updates
      /\ UNCHANGED <<connections, stopping, busy, lastStop>>

-----------------------------------------------------------------------------
(* The update thread.                                                       *)

Take(name) == busy = 0 /\ updates # <<>> /\ Head(updates).task = name

\* What is left to do after the first task, with something posted at the end.
ThenPost(posted) == updates' = Tail(posted)

\* Mutant of Observe: what was known before is ignored.
ObserveAgain ==
  LET i == Head(updates).call
      state == Head(updates).state
      news == state = "Connected"
  IN  /\ Take("observe")
      /\ IF ~ Alive(i) \/ (state # "Failed" /\ ~ news)
         THEN ThenPost(updates) /\ UNCHANGED calls
         ELSE /\ calls' = [calls EXCEPT ![i].observed = @ /\ news,
                                        ![i].starts = IF news THEN @ + 1 ELSE @]
              /\ ThenPost(Tell(i, state))
      /\ UNCHANGED <<connections, stopping, busy, lastStop>>

Observe ==
  LET i == Head(updates).call
      state == Head(updates).state
      news == state = "Connected" /\ ~ Head(updates).was
  IN  /\ Take("observe")
      /\ IF ~ Alive(i) \/ (state # "Failed" /\ ~ news)
         THEN ThenPost(updates) /\ UNCHANGED calls
         ELSE /\ calls' = [calls EXCEPT ![i].observed = @ /\ news,
                                        ![i].starts = IF news THEN @ + 1 ELSE @]
              /\ ThenPost(Tell(i, state))
      /\ UNCHANGED <<connections, stopping, busy, lastStop>>

\* Mutant of Timer: a connection that was lost counts as one that never came up.
TimerOfLost(i) ==
  /\ busy = 0
  /\ calls[i].timers > 0
  /\ calls' = [calls EXCEPT ![i].timers = @ - 1]
  /\ updates' = IF Alive(i) /\ calls[i].current = "Connecting"
                THEN Tell(i, "Timeout") ELSE updates
  /\ UNCHANGED <<connections, stopping, busy, lastStop>>

\* A connection that has not come up in ten seconds.
Timer(i) ==
  /\ busy = 0
  /\ calls[i].timers > 0
  /\ calls' = [calls EXCEPT ![i].timers = @ - 1]
  /\ updates' = IF /\ Alive(i)
                   /\ calls[i].current = "Connecting" /\ ~ calls[i].already
                THEN Tell(i, "Timeout") ELSE updates
  /\ UNCHANGED <<connections, stopping, busy, lastStop>>

\* Mutant of Notify: any change of state falls through to the removal.
NotifyFallsThrough ==
  LET i == Head(updates).call
      state == Head(updates).state
  IN  /\ Take("notify")
      /\ calls' = [calls EXCEPT ![i].reports = Append(@, state)]
      /\ ThenPost(IF TRUE
                  THEN Append(updates, [task |-> "remove", chat |-> calls[i].chat])
                  ELSE updates)
      /\ UNCHANGED <<connections, stopping, busy, lastStop>>

\* Mutant of Notify: a timeout is not an end.
NotifyFailureOnly ==
  LET i == Head(updates).call
      state == Head(updates).state
  IN  /\ Take("notify")
      /\ calls' = [calls EXCEPT ![i].reports = Append(@, state)]
      /\ ThenPost(IF state = "Failed"
                  THEN Append(updates, [task |-> "remove", chat |-> calls[i].chat])
                  ELSE updates)
      /\ UNCHANGED <<connections, stopping, busy, lastStop>>

\* The application is told, whatever became of the call; an end posts a removal.
Notify ==
  LET i == Head(updates).call
      state == Head(updates).state
  IN  /\ Take("notify")
      /\ calls' = [calls EXCEPT ![i].reports = Append(@, state)]
      /\ ThenPost(IF state \in Final
                  THEN Append(updates, [task |-> "remove", chat |-> calls[i].chat])
                  ELSE updates)
      /\ UNCHANGED <<connections, stopping, busy, lastStop>>

\* The removal knows the chat only.
Remove ==
  LET chat == Head(updates).chat
  IN  /\ Take("remove")
      /\ connections' = [connections EXCEPT ![chat] = 0]
      /\ busy' = connections[chat]
      /\ ThenPost(updates)
      /\ UNCHANGED <<calls, stopping, lastStop>>

RemoveEnds ==
  /\ busy # 0
  /\ calls' = [calls EXCEPT ![busy] = Stopped(@)]
  /\ busy' = 0
  /\ UNCHANGED <<connections, updates, stopping, lastStop>>

Next ==
  \/ \E chat \in Chats :
       \/ \E kind \in Kinds : CreateCall(chat, kind)
       \/ \E succeeds \in BOOLEAN : InitConference(chat, succeeds)
       \/ FetchToConnect(chat) \/ Stop(chat) \/ StopMissing(chat)
  \/ \E i \in DOMAIN calls :
       \/ ConnectP2P(i) \/ (\E mode \in Modes : ConnectGroup(i, mode)) \/ ConnectGroupEnds(i)
       \/ StopEnds(i)
       \/ TransportChanges(i) \/ RouteChanges(i) \/ StreamConnected(i)
       \/ CheckConnectionTimeout(i) \/ RunNotice(i) \/ Timer(i)
  \/ StopConnections
  \/ Observe \/ Notify \/ Remove \/ RemoveEnds

Spec == Init /\ [][Next]_vars

\* Threads run what is posted to them, delays pass, and what was begun ends.
\* Nothing obliges the application to act or a transport to come up.
Fairness ==
  /\ WF_vars(\/ Observe \/ Notify \/ Remove \/ RemoveEnds
             \/ \E i \in DOMAIN calls : Timer(i))
  /\ WF_vars(\E i \in DOMAIN calls : RunNotice(i))

FairSpec == Spec /\ Fairness

-----------------------------------------------------------------------------
(* Properties.                                                              *)

\* Every variable has its type, and a chat's call is a call of that chat.
TypeOK ==
  /\ connections \in [Chats -> 0 .. Len(calls)]
  /\ calls \in Seq(Call)
  /\ stopping \subseteq DOMAIN calls
  /\ busy \in 0 .. Len(calls)
  /\ lastStop \in {"none", "returned"}
  /\ \A chat \in Chats : connections[chat] # 0 => calls[connections[chat]].chat = chat

\* A call is stopped by one thread, and not while it is the call of a chat.
OneOwner ==
  \A i \in DOMAIN calls :
    /\ i = busy => i \notin stopping
    /\ i \in stopping \cup {busy} => \A chat \in Chats : connections[chat] # i

\* The call of a chat is never one that was stopped: it listens, and its connection
\* was not closed.
RegisteredLives ==
  \A chat \in Chats : connections[chat] # 0 =>
    LET c == calls[connections[chat]]
    IN  (Failing \/ c.listener) /\ c.conn # "closed"

\* Nothing is left open: a connection that nobody refers to was closed.
NothingLeftOpen == \A i \in DOMAIN calls : calls[i].conn = "open" => Alive(i)

\* The library removes a call only after it told the application of its end; if the
\* application does not wait, it may be the end of an earlier call of the chat.
RemovedForCause ==
  [][busy' \notin {0, busy} =>
       \E j \in DOMAIN calls :
         /\ calls[j].chat = calls[busy'].chat
         /\ Careful => j = busy'
         /\ \E k \in DOMAIN calls[j].reports : calls[j].reports[k] \in Final]_vars

Told(reports, state) == {k \in DOMAIN reports : reports[k] = state}

\* What the application is told of a call makes sense, if it connects it once: it
\* connects before anything else, connects once, and does not time out after that.
ReportsInOrder ==
  \A i \in {j \in DOMAIN calls : calls[j].connects = 1} :
    LET reports == calls[i].reports
    IN  /\ \A k \in DOMAIN reports : k > 1 <=> reports[k] # "Connecting"
        /\ \A j, k \in Told(reports, "Connected") : j = k
        /\ \A j \in Told(reports, "Connected"), k \in Told(reports, "Timeout") : k < j

\* The streams of a call start at most once each time it is connected, and before the
\* application is told that it is.
StartsOnce ==
  \A i \in DOMAIN calls :
    /\ calls[i].starts <= calls[i].connects
    /\ Cardinality(Told(calls[i].reports, "Connected")) <= calls[i].starts

\* What was told so far of a call that may not exist yet.
Reports(i) == IF i \in DOMAIN calls THEN calls[i].reports ELSE <<>>

\* A call whose end was told does not stay.
EndedIsRemoved ==
  \A chat \in Chats : \A i \in 1 .. MaxCalls :
    (\E k \in DOMAIN Reports(i) : Reports(i)[k] \in Final) ~> connections[chat] # i

\* Whether the call is connected a second time.
Reconnects(i) == i \in DOMAIN calls /\ calls[i].connects > 1

\* An application that was told of a connection under way is told of its outcome,
\* unless the call leaves the registry or is connected again.
ConnectingResolves ==
  \A chat \in Chats : \A i \in 1 .. MaxCalls :
    (connections[chat] = i /\ Len(Reports(i)) = 1)
      ~> (connections[chat] # i \/ Len(Reports(i)) > 1 \/ Reconnects(i))

\* What the documentation says of stop: without a call it raises an error.
StopRaises == lastStop # "returned"

=============================================================================
