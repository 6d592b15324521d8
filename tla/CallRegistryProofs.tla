------------------------- MODULE CallRegistryProofs -------------------------
(***************************************************************************)
(* Proofs about CallRegistry, for any chats, kinds, modes and bounds, and  *)
(* for an application that is careful or not.                              *)
(*                                                                         *)
(* Three inductive invariants build on each other.  Inv adds to the types  *)
(* and to who owns a call what the tasks of the update thread are about;   *)
(* most steps change one call and keep what it says of that call (Kept),   *)
(* the others move a call between the registry and a thread that stops it. *)
(* AllGood says of each call how often its streams may still start and     *)
(* what may still be told of it; most steps only move the call on (GoesOn) *)
(* and leave both alone.  Causes and Owners say why a removal is posted    *)
(* and who holds an open connection; Owners needs a careful application.   *)
(***************************************************************************)
EXTENDS CallRegistry, SequenceTheorems, FiniteSetTheorems, TLAPS

States == Final \cup {"Connecting", "Connected"}

\* The tasks of the update thread when there are n calls.
Tasks(n) ==
  [task : {"observe"}, call : 1 .. n, state : States, was : BOOLEAN]
    \cup [task : {"notify"}, call : 1 .. n, state : States]
    \cup [task : {"remove"}, chat : Chats]

\* The invariant.
Inv ==
  /\ TypeOK
  /\ updates \in Seq(Tasks(Len(calls)))
  /\ OneOwner
  /\ RegisteredLives

\* The call d is the call c after something that neither stops nor replaces it.
Kept(c, d) ==
  /\ d \in Call
  /\ d.chat = c.chat
  /\ d.listener = c.listener
  /\ d.conn = "closed" => c.conn = "closed"

LEMMA KeptTwice ==
  ASSUME NEW c, NEW d, NEW e, Kept(c, d), Kept(d, e)
  PROVE  Kept(c, e)
BY DEF Kept

-----------------------------------------------------------------------------
(* What happens to a single call.                                           *)

LEMMA NewCallType ==
  ASSUME NEW chat \in Chats, NEW kind \in {"p2p", "group"}, NEW listener \in BOOLEAN
  PROVE  /\ NewCall(chat, kind, listener) \in Call
         /\ NewCall(chat, kind, listener).chat = chat
         /\ NewCall(chat, kind, listener).listener = listener
         /\ NewCall(chat, kind, listener).conn # "closed"
<1>1. <<>> \in Seq({"now", "Connecting", "Connected"})
      /\ <<>> \in Seq(Final \cup {"Connecting", "Connected"})
  OBVIOUS
<1>. QED  BY <1>1 DEF NewCall, Call

LEMMA StoppedType ==
  ASSUME NEW c \in Call
  PROVE  Stopped(c) \in Call /\ Stopped(c).chat = c.chat
BY DEF Stopped, Call

LEMMA NoticeKept ==
  ASSUME NEW c \in Call, NEW notice \in {"now", "Connecting", "Connected"}
  PROVE  Kept(c, [c EXCEPT !.notices = Append(@, notice)])
<1>1. Append(c.notices, notice) \in Seq({"now", "Connecting", "Connected"})
  BY DEF Call
<1>. QED  BY <1>1 DEF Kept, Call

LEMMA UpdateKept ==
  ASSUME NEW c \in Call
  PROVE  Kept(c, UpdateIsConnected(c))
<1>. DEFINE now == IF c.mode = "rtc" THEN c.up ELSE c.mode \in Streaming /\ c.media = "up"
            d == [c EXCEPT !.effective = now]
            notice == IF now THEN "Connected" ELSE "Connecting"
<1>1. now \in BOOLEAN
  BY DEF Call
<1>2. Kept(c, c)
  BY DEF Kept
<1>3. Kept(c, d)
  BY <1>1 DEF Kept, Call
<1>4. Kept(d, [d EXCEPT !.notices = Append(@, notice)])
  <2>1. d \in Call
    BY <1>3 DEF Kept
  <2>. QED  BY <2>1, NoticeKept
<1>5. UpdateIsConnected(c) = c
      \/ UpdateIsConnected(c) = [d EXCEPT !.notices = Append(@, notice)]
  BY <1>1 DEF UpdateIsConnected, Call
<1>. HIDE DEF d, notice, now
<1>. QED  BY <1>2, <1>3, <1>4, <1>5, KeptTwice

LEMMA StateUpdatedKept ==
  ASSUME NEW c \in Call
  PROVE  Kept(c, StateUpdated(c))
BY NoticeKept, UpdateKept DEF StateUpdated, NotifyStateUpdated

LEMMA SetConnectionModeKept ==
  ASSUME NEW c \in Call, NEW mode \in Modes
  PROVE  Kept(c, SetConnectionMode(c, mode))
<1>. DEFINE d == [c EXCEPT !.mode = mode,
                           !.already = IF mode = "rtc" /\ c.mode \in Streaming THEN FALSE ELSE @]
<1>1. mode \in {"none", "rtc", "stream", "rtmp"}
  BY CallAssumption
<1>2. Kept(c, d)
  <2>1. (IF mode = "rtc" /\ c.mode \in Streaming THEN FALSE ELSE c.already) \in BOOLEAN
    BY DEF Call
  <2>. QED  BY <1>1, <2>1 DEF Kept, Call
<1>3. Kept(d, UpdateIsConnected(d))
  BY <1>2, UpdateKept DEF Kept
<1>. HIDE DEF d
<1>4. SetConnectionMode(c, mode) = UpdateIsConnected(d)
  BY DEF SetConnectionMode, d
<1>. QED  BY <1>2, <1>3, <1>4, KeptTwice

-----------------------------------------------------------------------------
(* Tasks, and steps that change one call.                                   *)

LEMMA InitInv == Init => Inv
<1>. SUFFICES ASSUME Init PROVE Inv
  OBVIOUS
<1>1. calls \in Seq(Call) /\ Len(calls) = 0 /\ DOMAIN calls = {}
  BY DEF Init
<1>2. updates \in Seq(Tasks(Len(calls)))
  BY DEF Init
<1>. QED  BY <1>1, <1>2, CallAssumption DEF Init, Inv, TypeOK, OneOwner, RegisteredLives

LEMMA CallsAre ==
  ASSUME Inv
  PROVE  /\ Len(calls) \in Nat
         /\ DOMAIN calls = 1 .. Len(calls)
         /\ \A i \in DOMAIN calls : calls[i] \in Call /\ calls[i].chat \in Chats
<1>1. calls \in Seq(Call)
  BY DEF Inv, TypeOK
<1>2. \A c \in Call : c.chat \in Chats
  BY DEF Call
<1>. QED  BY <1>1, <1>2

\* What is told or posted are tasks.
LEMMA PostType ==
  ASSUME Inv, NEW task \in Tasks(Len(calls))
  PROVE  Append(updates, task) \in Seq(Tasks(Len(calls)))
BY DEF Inv

LEMMA TellType ==
  ASSUME Inv, NEW i \in DOMAIN calls, NEW state \in States
  PROVE  Tell(i, state) \in Seq(Tasks(Len(calls)))
<1>1. [task |-> "notify", call |-> i, state |-> state] \in Tasks(Len(calls))
  BY CallsAre DEF Tasks
<1>. QED  BY <1>1, PostType DEF Tell, Inv

\* Tasks stay tasks when a call is added.
LEMMA TasksGrow ==
  ASSUME NEW n \in Nat, NEW s \in Seq(Tasks(n))
  PROVE  s \in Seq(Tasks(n + 1))
<1>1. Tasks(n) \subseteq Tasks(n + 1)
  BY DEF Tasks
<1>. QED  BY <1>1

LEMMA ChangeOneCall ==
  ASSUME Inv, NEW i \in DOMAIN calls, NEW d, Kept(calls[i], d),
         calls' = [calls EXCEPT ![i] = d],
         updates' \in Seq(Tasks(Len(calls))),
         UNCHANGED <<connections, stopping, busy, lastStop>>
  PROVE  Inv'
<1>1. /\ calls' \in Seq(Call)
      /\ Len(calls') = Len(calls)
      /\ DOMAIN calls' = DOMAIN calls
  BY ExceptSeq DEF Kept, Inv, TypeOK
<1>2. \A j \in DOMAIN calls :
        /\ calls'[j].chat = calls[j].chat
        /\ calls'[j].listener = calls[j].listener
        /\ calls'[j].conn = "closed" => calls[j].conn = "closed"
  BY DEF Kept
<1>3. \A chat \in Chats : connections[chat] # 0 => connections[chat] \in DOMAIN calls
  BY CallsAre DEF Inv, TypeOK
<1>4. TypeOK'
  BY <1>1, <1>2, <1>3 DEF Inv, TypeOK
<1>5. OneOwner'
  BY <1>1 DEF Inv, OneOwner
<1>6. RegisteredLives'
  BY <1>1, <1>2, <1>3 DEF Inv, RegisteredLives
<1>. QED  BY <1>1, <1>4, <1>5, <1>6 DEF Inv

-----------------------------------------------------------------------------
(* One lemma per action.  First those that change one call.                 *)

LEMMA FetchInv ==
  ASSUME Inv, NEW chat \in Chats, FetchToConnect(chat)
  PROVE  Inv'
<1>. DEFINE i == connections[chat]
            d == [calls[i] EXCEPT !.phase = "fetched", !.connects = @ + 1]
<1>1. i \in DOMAIN calls
  BY CallsAre DEF FetchToConnect, Inv, TypeOK
<1>2. Kept(calls[i], d)
  <2>1. calls[i] \in Call
    BY <1>1, CallsAre
  <2>2. calls[i].connects + 1 \in Nat
    BY <2>1 DEF Call
  <2>. HIDE DEF i
  <2>. QED  BY <2>1, <2>2 DEF Kept, Call
<1>3. calls' = [calls EXCEPT ![i] = d]
  BY <1>1 DEF FetchToConnect
<1>4. updates' \in Seq(Tasks(Len(calls)))
  BY DEF FetchToConnect, Inv
<1>. HIDE DEF i, d
<1>. QED  BY <1>1, <1>2, <1>3, <1>4, ChangeOneCall DEF FetchToConnect

\* The two ways a connect ends, after the call became c.
LEMMA SetConnectionObserverInv ==
  ASSUME Inv, NEW i \in DOMAIN calls, NEW c, Kept(calls[i], c), SetConnectionObserver(i, c)
  PROVE  Inv'
<1>. DEFINE d == [c EXCEPT !.phase = "no", !.observed = TRUE, !.timers = @ + 1]
<1>1. Kept(c, d)
  <2>1. c \in Call
    BY DEF Kept
  <2>2. c.timers + 1 \in Nat
    BY <2>1 DEF Call
  <2>. QED  BY <2>1, <2>2 DEF Kept, Call
<1>2. updates' \in Seq(Tasks(Len(calls)))
  BY TellType DEF SetConnectionObserver, States
<1>3. calls' = [calls EXCEPT ![i] = d]
  BY DEF SetConnectionObserver
<1>. HIDE DEF d
<1>4. Kept(calls[i], d)
  BY <1>1, KeptTwice
<1>. QED  BY <1>2, <1>3, <1>4, ChangeOneCall DEF SetConnectionObserver

LEMMA LeaveConnectInv ==
  ASSUME Inv, NEW i \in DOMAIN calls, NEW c, Kept(calls[i], c), LeaveConnect(i, c)
  PROVE  Inv'
<1>. DEFINE d == [c EXCEPT !.phase = "no"]
<1>1. Kept(c, d)
  BY DEF Kept, Call
<1>2. calls' = [calls EXCEPT ![i] = d]
  BY DEF LeaveConnect
<1>. HIDE DEF d
<1>3. Kept(calls[i], d)
  BY <1>1, KeptTwice
<1>. QED  BY <1>2, <1>3, ChangeOneCall DEF LeaveConnect, Inv

LEMMA ConnectP2PInv ==
  ASSUME Inv, NEW i \in DOMAIN calls, ConnectP2P(i)
  PROVE  Inv'
<1>. DEFINE c == calls[i]
            o == Opened(c)
            p == [o EXCEPT !.remote = TRUE, !.checking = TRUE]
<1>1. c \in Call
  BY CallsAre
<1>2. Kept(c, c)
  BY <1>1 DEF Kept
<1>3. Kept(c, o)
  BY <1>1 DEF Kept, Call, Opened
<1>4. Kept(o, p)
  <2>. HIDE DEF o
  <2>. QED  BY <1>3 DEF Kept, Call
<1>5. \/ LeaveConnect(i, c)
      \/ LeaveConnect(i, o)
      \/ SetConnectionObserver(i, p)
  BY DEF ConnectP2P
<1>. HIDE DEF c, o, p
<1>6. Kept(c, p)
  BY <1>3, <1>4, KeptTwice
<1>7. c = calls[i]
  BY DEF c
<1>. QED  BY <1>2, <1>3, <1>5, <1>6, <1>7, LeaveConnectInv, SetConnectionObserverInv

LEMMA ConnectGroupInv ==
  ASSUME Inv, NEW i \in DOMAIN calls, NEW mode \in Modes, ConnectGroup(i, mode)
  PROVE  Inv'
<1>. DEFINE c == calls[i]
            m == SetConnectionMode(c, mode)
            d == [m EXCEPT !.phase = "half",
                           !.remote = IF mode = "rtc" THEN TRUE ELSE @,
                           !.media = IF mode \in Streaming /\ @ = "off" THEN "soon" ELSE @]
<1>1. Kept(c, c) /\ Kept(c, m)
  BY CallsAre, SetConnectionModeKept DEF Kept
<1>2. CASE LeaveConnect(i, c)
  BY <1>1, <1>2, LeaveConnectInv
<1>3. CASE calls' = [calls EXCEPT ![i] = d]
           /\ UNCHANGED <<connections, updates, stopping, busy, lastStop>>
  <2>1. Kept(m, d)
    <3>. HIDE DEF m
    <3>1. m \in Call
      BY <1>1 DEF Kept
    <3>. QED  BY <3>1 DEF Kept, Call
  <2>. HIDE DEF m, d
  <2>2. Kept(calls[i], d)
    BY <1>1, <2>1, KeptTwice
  <2>. QED  BY <1>3, <2>2, ChangeOneCall DEF Inv
<1>. QED  BY <1>2, <1>3 DEF ConnectGroup

LEMMA ConnectGroupEndsInv ==
  ASSUME Inv, NEW i \in DOMAIN calls, ConnectGroupEnds(i)
  PROVE  Inv'
<1>1. Kept(calls[i], calls[i])
  BY CallsAre DEF Kept
<1>. QED  BY <1>1, LeaveConnectInv, SetConnectionObserverInv DEF ConnectGroupEnds

LEMMA TransportChangesInv ==
  ASSUME Inv, NEW i \in DOMAIN calls, TransportChanges(i)
  PROVE  Inv'
<1>. DEFINE c == calls[i]
            e == [c EXCEPT !.up = ~ @, !.changes = @ + 1]
<1>1. Kept(c, e)
  <2>1. c \in Call
    BY CallsAre
  <2>2. c.changes + 1 \in Nat /\ (~ c.up) \in BOOLEAN
    BY <2>1 DEF Call
  <2>. HIDE DEF c
  <2>. QED  BY <2>1, <2>2 DEF Kept, Call
<1>2. calls' = [calls EXCEPT ![i] = StateUpdated(e)]
  BY DEF TransportChanges
<1>. HIDE DEF e
<1>3. Kept(c, StateUpdated(e))
  BY <1>1, StateUpdatedKept, KeptTwice DEF Kept
<1>. QED  BY <1>2, <1>3, ChangeOneCall DEF TransportChanges, Inv

LEMMA RouteChangesInv ==
  ASSUME Inv, NEW i \in DOMAIN calls, RouteChanges(i)
  PROVE  Inv'
<1>. DEFINE c == calls[i]
            e == [c EXCEPT !.changes = @ + 1]
<1>1. Kept(c, e)
  <2>1. c \in Call
    BY CallsAre
  <2>2. c.changes + 1 \in Nat
    BY <2>1 DEF Call
  <2>. HIDE DEF c
  <2>. QED  BY <2>1, <2>2 DEF Kept, Call
<1>2. calls' = [calls EXCEPT ![i] = NotifyStateUpdated(e)]
  BY DEF RouteChanges
<1>. HIDE DEF e
<1>3. Kept(e, NotifyStateUpdated(e))
  BY <1>1, NoticeKept DEF Kept, NotifyStateUpdated
<1>4. Kept(c, NotifyStateUpdated(e))
  BY <1>1, <1>3, KeptTwice
<1>. QED  BY <1>2, <1>4, ChangeOneCall DEF RouteChanges, Inv

LEMMA StreamConnectedInv ==
  ASSUME Inv, NEW i \in DOMAIN calls, StreamConnected(i)
  PROVE  Inv'
<1>. DEFINE c == calls[i]
            e == [c EXCEPT !.media = "up"]
<1>1. Kept(c, e)
  <2>1. c \in Call
    BY CallsAre
  <2>. HIDE DEF c
  <2>. QED  BY <2>1 DEF Kept, Call
<1>2. calls' = [calls EXCEPT ![i] = UpdateIsConnected(e)]
  BY DEF StreamConnected
<1>. HIDE DEF e
<1>3. Kept(c, UpdateIsConnected(e))
  BY <1>1, UpdateKept, KeptTwice DEF Kept
<1>. QED  BY <1>2, <1>3, ChangeOneCall DEF StreamConnected, Inv

LEMMA CheckConnectionTimeoutInv ==
  ASSUME Inv, NEW i \in DOMAIN calls, CheckConnectionTimeout(i)
  PROVE  Inv'
<1>. DEFINE c == calls[i]
            e == [c EXCEPT !.failed = TRUE, !.checking = FALSE]
<1>1. Kept(c, e)
  <2>1. c \in Call
    BY CallsAre
  <2>. HIDE DEF c
  <2>. QED  BY <2>1 DEF Kept, Call
<1>2. calls' = [calls EXCEPT ![i] = NotifyStateUpdated(e)]
  BY DEF CheckConnectionTimeout
<1>. HIDE DEF e
<1>3. Kept(e, NotifyStateUpdated(e))
  BY <1>1, NoticeKept DEF Kept, NotifyStateUpdated
<1>4. Kept(c, NotifyStateUpdated(e))
  BY <1>1, <1>3, KeptTwice
<1>. QED  BY <1>2, <1>4, ChangeOneCall DEF CheckConnectionTimeout, Inv

LEMMA RunNoticeInv ==
  ASSUME Inv, NEW i \in DOMAIN calls, RunNotice(i)
  PROVE  Inv'
<1>. DEFINE c == calls[i]
            state == IF Head(c.notices) = "now" THEN StateNow(c) ELSE Head(c.notices)
            already == c.already \/ state = "Connected"
            d == [c EXCEPT !.notices = Tail(@), !.current = state, !.already = already]
            task == [task |-> "observe", call |-> i, state |-> state, was |-> c.already]
<1>1. /\ c \in Call
      /\ c.notices \in Seq({"now", "Connecting", "Connected"})
      /\ c.already \in BOOLEAN
  BY CallsAre DEF Call
<1>2. /\ Head(c.notices) \in {"now", "Connecting", "Connected"}
      /\ Tail(c.notices) \in Seq({"now", "Connecting", "Connected"})
  BY <1>1 DEF RunNotice
<1>3. state \in {"Connecting", "Connected", "Failed"}
  BY <1>2 DEF StateNow
<1>4. already \in BOOLEAN
  OBVIOUS
<1>5. calls' = [calls EXCEPT ![i] = d]
  BY DEF RunNotice
<1>6. updates' = IF c.observed /\ Alive(i) THEN Append(updates, task) ELSE updates
  BY DEF RunNotice
<1>7. task \in Tasks(Len(calls))
  BY <1>1, <1>3, CallsAre DEF Tasks, States, Final
<1>. HIDE DEF state, already, task
<1>8. Kept(c, d)
  BY <1>1, <1>2, <1>3, <1>4 DEF Kept, Call
<1>9. updates' \in Seq(Tasks(Len(calls)))
  BY <1>6, <1>7, PostType DEF Inv
<1>. HIDE DEF d
<1>. QED  BY <1>5, <1>8, <1>9, ChangeOneCall DEF RunNotice

\* What the update thread finds at the head of its queue.
LEMMA HeadOfUpdates ==
  ASSUME Inv, NEW name, Take(name)
  PROVE  /\ Head(updates) \in Tasks(Len(calls))
         /\ Head(updates).task = name
         /\ name \in {"observe", "notify"} => Head(updates).call \in DOMAIN calls
         /\ name \in {"observe", "notify"} => Head(updates).state \in States
         /\ name = "remove" => Head(updates).chat \in Chats
         /\ updates # <<>>
<1>1. /\ Head(updates) \in Tasks(Len(calls))
      /\ Head(updates).task = name
      /\ updates # <<>>
  BY DEF Inv, Take
<1>. QED  BY <1>1, CallsAre DEF Tasks

\* Taking a task leaves tasks.
LEMMA ThenPostType ==
  ASSUME Inv, NEW posted \in Seq(Tasks(Len(calls))), posted # <<>>, ThenPost(posted)
  PROVE  updates' \in Seq(Tasks(Len(calls)))
BY DEF ThenPost

LEMMA ObserveInv ==
  ASSUME Inv, Observe
  PROVE  Inv'
<1>. DEFINE i == Head(updates).call
            state == Head(updates).state
            news == state = "Connected" /\ ~ Head(updates).was
            c == calls[i]
            d == [c EXCEPT !.observed = @ /\ news, !.starts = IF news THEN @ + 1 ELSE @]
<1>1. i \in DOMAIN calls /\ state \in States /\ updates # <<>>
  BY HeadOfUpdates DEF Observe
<1>2. CASE ThenPost(updates) /\ UNCHANGED calls
  <2>1. Kept(c, c) /\ calls' = [calls EXCEPT ![i] = c]
    <3>1. c \in Call /\ calls \in Seq(Call)
      BY <1>1, CallsAre DEF Inv, TypeOK
    <3>. QED  BY <1>2, <3>1 DEF Kept
  <2>2. updates' \in Seq(Tasks(Len(calls)))
    BY <1>1, <1>2, ThenPostType DEF Inv
  <2>. HIDE DEF i, c
  <2>3. Kept(calls[i], c)
    BY <2>1 DEF c
  <2>. QED  BY <1>1, <2>1, <2>2, <2>3, ChangeOneCall DEF Observe
<1>3. CASE calls' = [calls EXCEPT ![i].observed = @ /\ news,
                                  ![i].starts = IF news THEN @ + 1 ELSE @]
           /\ ThenPost(Tell(i, state))
  <2>1. Kept(c, d)
    <3>1. c \in Call
      BY <1>1, CallsAre
    <3>2. (IF news THEN c.starts + 1 ELSE c.starts) \in Nat /\ (c.observed /\ news) \in BOOLEAN
      BY <3>1 DEF Call
    <3>. HIDE DEF c, news
    <3>. QED  BY <3>1, <3>2 DEF Kept, Call
  <2>2. calls' = [calls EXCEPT ![i] = d]
    BY <1>1, <1>3
  <2>3. Tell(i, state) \in Seq(Tasks(Len(calls))) /\ Tell(i, state) # <<>>
    BY <1>1, TellType DEF Tell, Inv
  <2>4. updates' \in Seq(Tasks(Len(calls)))
    BY <1>3, <2>3, ThenPostType
  <2>5. Kept(calls[i], d)
    BY <2>1
  <2>. HIDE DEF i, d
  <2>. QED  BY <1>1, <2>2, <2>4, <2>5, ChangeOneCall DEF Observe
<1>. QED  BY <1>2, <1>3 DEF Observe

LEMMA TimerInv ==
  ASSUME Inv, NEW i \in DOMAIN calls, Timer(i)
  PROVE  Inv'
<1>. DEFINE c == calls[i]
            d == [c EXCEPT !.timers = @ - 1]
<1>1. Kept(c, d)
  <2>1. c \in Call
    BY CallsAre
  <2>2. c.timers - 1 \in Nat
    BY <2>1 DEF Timer, Call
  <2>. HIDE DEF c
  <2>. QED  BY <2>1, <2>2 DEF Kept, Call
<1>2. calls' = [calls EXCEPT ![i] = d]
  BY DEF Timer
<1>3. updates' \in Seq(Tasks(Len(calls)))
  BY TellType DEF Timer, States, Final, Inv
<1>. HIDE DEF d
<1>. QED  BY <1>1, <1>2, <1>3, ChangeOneCall DEF Timer

LEMMA NotifyInv ==
  ASSUME Inv, Notify
  PROVE  Inv'
<1>. DEFINE i == Head(updates).call
            state == Head(updates).state
            c == calls[i]
            d == [c EXCEPT !.reports = Append(@, state)]
            task == [task |-> "remove", chat |-> c.chat]
            posted == IF state \in Final THEN Append(updates, task) ELSE updates
<1>1. i \in DOMAIN calls /\ state \in States /\ updates # <<>>
  BY HeadOfUpdates DEF Notify
<1>2. c \in Call /\ c.chat \in Chats
  BY <1>1, CallsAre
<1>3. Kept(c, d)
  <2>1. Append(c.reports, state) \in Seq(Final \cup {"Connecting", "Connected"})
    BY <1>1, <1>2 DEF Call, States
  <2>. HIDE DEF c, state
  <2>. QED  BY <1>2, <2>1 DEF Kept, Call
<1>4. calls' = [calls EXCEPT ![i] = d]
  BY <1>1 DEF Notify
<1>5. posted \in Seq(Tasks(Len(calls))) /\ posted # <<>>
  <2>1. task \in Tasks(Len(calls))
    BY <1>2 DEF Tasks
  <2>2. updates \in Seq(Tasks(Len(calls)))
    BY DEF Inv
  <2>3. Append(updates, task) \in Seq(Tasks(Len(calls)))
    BY <2>1, PostType
  <2>4. Append(updates, task) # <<>>
    BY <2>2
  <2>. HIDE DEF task
  <2>. QED  BY <1>1, <2>2, <2>3, <2>4
<1>6. updates' \in Seq(Tasks(Len(calls)))
  <2>1. ThenPost(posted)
    BY DEF Notify
  <2>. HIDE DEF posted
  <2>. QED  BY <1>5, <2>1, ThenPostType
<1>7. Kept(calls[i], d)
  BY <1>3
<1>. HIDE DEF i, d
<1>. QED  BY <1>1, <1>4, <1>6, <1>7, ChangeOneCall DEF Notify

-----------------------------------------------------------------------------
(* The steps that make, replace, take out and stop calls.                   *)

\* No call is that of two chats, and the call of a chat is in nobody's hands.
LEMMA OneChat ==
  ASSUME Inv, NEW chat \in Chats, connections[chat] # 0
  PROVE  /\ connections[chat] \in DOMAIN calls
         /\ connections[chat] \notin stopping
         /\ connections[chat] # busy
         /\ \A other \in Chats : other # chat => connections[other] # connections[chat]
<1>1. connections[chat] \in DOMAIN calls
  BY CallsAre DEF Inv, TypeOK
<1>. QED  BY <1>1 DEF Inv, TypeOK, OneOwner

\* A call is stopped that is not, or no longer, the call of a chat.
LEMMA StopOneCall ==
  ASSUME Inv, NEW i \in DOMAIN calls,
         \A chat \in Chats : connections[chat] # i,
         calls' = [calls EXCEPT ![i] = Stopped(@)],
         stopping' \subseteq stopping, busy' \in {0, busy},
         UNCHANGED <<connections, updates, lastStop>>
  PROVE  Inv'
<1>1. Stopped(calls[i]) \in Call /\ Stopped(calls[i]).chat = calls[i].chat
  BY CallsAre, StoppedType
<1>2. /\ calls' \in Seq(Call)
      /\ Len(calls') = Len(calls)
      /\ DOMAIN calls' = DOMAIN calls
  BY <1>1, ExceptSeq DEF Inv, TypeOK
<1>3. /\ \A j \in DOMAIN calls : calls'[j].chat = calls[j].chat
      /\ \A j \in DOMAIN calls : j # i => calls'[j] = calls[j]
  BY <1>1
<1>4. \A chat \in Chats : connections[chat] # 0 => connections[chat] \in DOMAIN calls
  BY CallsAre DEF Inv, TypeOK
<1>5. TypeOK'
  BY <1>2, <1>3, <1>4, CallsAre DEF Inv, TypeOK
<1>6. OneOwner'
  BY <1>2, CallsAre DEF Inv, OneOwner
<1>7. RegisteredLives'
  BY <1>3, <1>4 DEF Inv, RegisteredLives
<1>. QED  BY <1>2, <1>5, <1>6, <1>7 DEF Inv

LEMMA StopEndsInv ==
  ASSUME Inv, NEW i \in DOMAIN calls, StopEnds(i)
  PROVE  Inv'
<1>1. \A chat \in Chats : connections[chat] # i
  BY DEF StopEnds, Inv, OneOwner
<1>. QED  BY <1>1, StopOneCall DEF StopEnds

LEMMA RemoveEndsInv ==
  ASSUME Inv, RemoveEnds
  PROVE  Inv'
<1>1. busy \in DOMAIN calls
  BY CallsAre DEF RemoveEnds, Inv, TypeOK
<1>2. \A chat \in Chats : connections[chat] # busy
  BY <1>1 DEF Inv, OneOwner
<1>. QED  BY <1>1, <1>2, StopOneCall DEF RemoveEnds

LEMMA StopInv ==
  ASSUME Inv, NEW chat \in Chats, Stop(chat)
  PROVE  Inv'
<1>. DEFINE i == connections[chat]
<1>1. /\ i \in DOMAIN calls /\ i \notin stopping /\ i # busy
      /\ \A other \in Chats : other # chat => connections[other] # i
  BY OneChat DEF Stop
<1>2. /\ connections' = [connections EXCEPT ![chat] = 0]
      /\ stopping' = stopping \cup {i}
      /\ UNCHANGED <<calls, updates, busy, lastStop>>
  BY DEF Stop
<1>3. i # 0 /\ 0 \notin DOMAIN calls
  BY <1>1, CallsAre
<1>4. connections \in [Chats -> 0 .. Len(calls)]
  BY DEF Inv, TypeOK
<1>5. /\ connections'[chat] = 0
      /\ \A other \in Chats : other # chat => connections'[other] = connections[other]
  BY <1>2, <1>4
<1>6. TypeOK'
  BY <1>1, <1>2, <1>5, CallsAre DEF Inv, TypeOK
<1>7. OneOwner'
  BY <1>1, <1>2, <1>3, <1>5 DEF Inv, OneOwner
<1>8. RegisteredLives'
  BY <1>2, <1>5 DEF Inv, RegisteredLives
<1>. QED  BY <1>2, <1>6, <1>7, <1>8 DEF Inv

LEMMA StopConnectionsInv ==
  ASSUME Inv, StopConnections
  PROVE  Inv'
<1>1. /\ connections' = [chat \in Chats |-> 0]
      /\ stopping' = stopping \cup ({connections[chat] : chat \in Chats} \ {0})
      /\ UNCHANGED <<calls, updates, busy, lastStop>>
  BY DEF StopConnections
<1>2. \A chat \in Chats : connections'[chat] = 0
  BY <1>1
<1>3. TypeOK'
  <2>1. stopping' \subseteq DOMAIN calls
    BY <1>1, OneChat DEF Inv, TypeOK
  <2>2. connections' \in [Chats -> 0 .. Len(calls)]
    BY <1>1, CallsAre
  <2>. QED  BY <1>1, <1>2, <2>1, <2>2 DEF Inv, TypeOK
<1>4. OneOwner'
  <2>1. \A i \in DOMAIN calls : i # 0
    BY CallsAre
  <2>2. busy \notin stopping \/ busy = 0
    BY CallsAre DEF Inv, TypeOK, OneOwner
  <2>3. \A i \in stopping' : i # busy
    BY <1>1, <2>1, <2>2, OneChat DEF Inv, TypeOK
  <2>. QED  BY <1>1, <1>2, <2>1, <2>3 DEF OneOwner
<1>5. RegisteredLives'
  BY <1>2 DEF RegisteredLives
<1>. QED  BY <1>1, <1>3, <1>4, <1>5 DEF Inv

LEMMA RemoveInv ==
  ASSUME Inv, Remove
  PROVE  Inv'
<1>. DEFINE chat == Head(updates).chat
            i == connections[chat]
<1>1. chat \in Chats /\ updates # <<>>
  BY HeadOfUpdates DEF Remove
<1>2. /\ connections' = [connections EXCEPT ![chat] = 0]
      /\ busy' = i /\ busy = 0
      /\ UNCHANGED <<calls, stopping, lastStop>>
  BY DEF Remove, Take
<1>3. updates' \in Seq(Tasks(Len(calls)))
  BY <1>1, ThenPostType DEF Remove, Inv
<1>. HIDE DEF chat
<1>4. /\ connections \in [Chats -> 0 .. Len(calls)]
      /\ i \in 0 .. Len(calls)
  BY <1>1 DEF Inv, TypeOK
<1>5. /\ connections'[chat] = 0
      /\ \A other \in Chats : other # chat => connections'[other] = connections[other]
  BY <1>1, <1>2, <1>4
<1>6. i # 0 => /\ i \notin stopping
               /\ \A other \in Chats : other # chat => connections[other] # i
  BY <1>1, OneChat
<1>7. TypeOK'
  BY <1>1, <1>2, <1>4, <1>5, CallsAre DEF Inv, TypeOK
<1>8. OneOwner'
  BY <1>1, <1>2, <1>5, <1>6, CallsAre DEF Inv, OneOwner
<1>9. RegisteredLives'
  BY <1>2, <1>5 DEF Inv, RegisteredLives
<1>. QED  BY <1>2, <1>3, <1>7, <1>8, <1>9 DEF Inv

\* A call is added as that of its chat; the one it replaces may change.
LEMMA AddOneCall ==
  ASSUME Inv, NEW chat \in Chats, NEW cs \in Seq(Call), NEW d \in Call,
         Len(cs) = Len(calls),
         \A j \in DOMAIN calls : cs[j].chat = calls[j].chat,
         \A j \in DOMAIN calls : j # connections[chat] => cs[j] = calls[j],
         d.chat = chat, Failing \/ d.listener, d.conn # "closed",
         calls' = Append(cs, d),
         connections' = [connections EXCEPT ![chat] = Len(calls) + 1],
         UNCHANGED <<updates, stopping, busy, lastStop>>
  PROVE  Inv'
<1>. DEFINE n == Len(calls)
<1>1. n \in Nat /\ DOMAIN calls = 1 .. n /\ DOMAIN cs = 1 .. n
  BY CallsAre
<1>2. /\ calls' \in Seq(Call)
      /\ Len(calls') = n + 1
      /\ DOMAIN calls' = 1 .. n + 1
      /\ calls'[n + 1] = d
      /\ \A j \in 1 .. n : calls'[j] = cs[j]
  BY <1>1
<1>3. /\ connections \in [Chats -> 0 .. n]
      /\ connections' \in [Chats -> 0 .. n + 1]
      /\ connections'[chat] = n + 1
      /\ \A other \in Chats : other # chat => connections'[other] = connections[other]
  BY <1>1 DEF Inv, TypeOK
<1>4. \A other \in Chats : other # chat /\ connections'[other] # 0 =>
        /\ connections[other] \in 1 .. n
        /\ connections[other] # connections[chat]
        /\ calls'[connections'[other]] = calls[connections[other]]
  BY <1>1, <1>2, <1>3, OneChat
<1>5. stopping \subseteq 1 .. n /\ busy \in 0 .. n
  BY <1>1 DEF Inv, TypeOK
<1>6. updates' \in Seq(Tasks(Len(calls')))
  BY <1>1, <1>2, TasksGrow DEF Inv
<1>7. TypeOK'
  <2>1. \A other \in Chats : connections'[other] # 0 =>
          calls'[connections'[other]].chat = other
    BY <1>2, <1>3, <1>4 DEF Inv, TypeOK
  <2>2. stopping' \subseteq DOMAIN calls' /\ busy' \in 0 .. Len(calls')
    BY <1>1, <1>2, <1>5
  <2>. QED  BY <1>2, <1>3, <2>1, <2>2 DEF Inv, TypeOK
<1>8. OneOwner'
  <2>. SUFFICES ASSUME NEW j \in 1 .. n + 1
                PROVE  /\ j = busy => j \notin stopping
                       /\ j \in stopping \cup {busy} =>
                            \A other \in Chats : connections'[other] # j
    BY <1>2 DEF OneOwner
  <2>1. CASE j = n + 1
    BY <1>1, <1>5, <2>1
  <2>2. CASE j \in 1 .. n
    <3>1. /\ j = busy => j \notin stopping
          /\ j \in stopping \cup {busy} => \A other \in Chats : connections[other] # j
      BY <1>1, <2>2 DEF Inv, OneOwner
    <3>. QED  BY <1>1, <1>3, <2>2, <3>1
  <2>. QED  BY <1>1, <2>1, <2>2
<1>9. RegisteredLives'
  BY <1>2, <1>3, <1>4 DEF Inv, RegisteredLives
<1>. QED  BY <1>6, <1>7, <1>8, <1>9 DEF Inv

LEMMA CreateCallInv ==
  ASSUME Inv, NEW chat \in Chats, NEW kind \in Kinds, CreateCall(chat, kind)
  PROVE  Inv'
<1>. DEFINE d == NewCall(chat, kind, TRUE)
<1>1. d \in Call /\ d.chat = chat /\ d.listener = TRUE /\ d.conn # "closed"
  <2>1. kind \in {"p2p", "group"}
    BY CallAssumption
  <2>2. TRUE \in BOOLEAN
    OBVIOUS
  <2>. HIDE DEF d
  <2>. QED  BY <2>1, <2>2, NewCallType DEF d
<1>2. calls \in Seq(Call)
  BY DEF Inv, TypeOK
<1>. HIDE DEF d
<1>3. calls' = Append(calls, d)
  BY DEF CreateCall, d
<1>. QED  BY <1>1, <1>2, <1>3, AddOneCall DEF CreateCall

LEMMA InitConferenceInv ==
  ASSUME Inv, NEW chat \in Chats, NEW succeeds \in BOOLEAN, InitConference(chat, succeeds)
  PROVE  Inv'
<1>. DEFINE i == connections[chat]
            d == NewCall(chat, "group", succeeds)
            cs == [calls EXCEPT ![i] = Stopped(@)]
<1>1. /\ d \in Call /\ d.chat = chat /\ d.conn # "closed"
      /\ Failing \/ d.listener
  BY NewCallType DEF InitConference
<1>2. i \in DOMAIN calls
  BY OneChat DEF InitConference
<1>3. Stopped(calls[i]) \in Call /\ Stopped(calls[i]).chat = calls[i].chat
  BY <1>2, CallsAre, StoppedType
<1>4. cs \in Seq(Call) /\ Len(cs) = Len(calls)
  BY <1>2, <1>3, ExceptSeq DEF Inv, TypeOK
<1>5. /\ \A j \in DOMAIN calls : cs[j].chat = calls[j].chat
      /\ \A j \in DOMAIN calls : j # i => cs[j] = calls[j]
  BY <1>2, <1>3
<1>6. calls' = Append(cs, d)
  BY DEF InitConference
<1>. HIDE DEF cs, d
<1>. QED  BY <1>1, <1>4, <1>5, <1>6, AddOneCall DEF InitConference

-----------------------------------------------------------------------------
(* The specification.                                                       *)

LEMMA UnchangedInv ==
  ASSUME Inv, UNCHANGED <<connections, calls, updates, stopping, busy>>,
         lastStop' \in {"none", "returned"}
  PROVE  Inv'
BY DEF Inv, TypeOK, OneOwner, RegisteredLives

LEMMA NextInv ==
  ASSUME Inv, [Next]_vars
  PROVE  Inv'
<1>1. CASE \E chat \in Chats :
             \/ \E kind \in Kinds : CreateCall(chat, kind)
             \/ \E succeeds \in BOOLEAN : InitConference(chat, succeeds)
             \/ FetchToConnect(chat) \/ Stop(chat)
  BY <1>1, CreateCallInv, InitConferenceInv, FetchInv, StopInv
<1>2. CASE \E chat \in Chats : StopMissing(chat)
  BY <1>2, UnchangedInv DEF StopMissing
<1>3. CASE \E i \in DOMAIN calls :
             \/ ConnectP2P(i) \/ (\E mode \in Modes : ConnectGroup(i, mode))
             \/ ConnectGroupEnds(i)
  BY <1>3, ConnectP2PInv, ConnectGroupInv, ConnectGroupEndsInv
<1>4. CASE \E i \in DOMAIN calls :
             \/ StopEnds(i)
             \/ TransportChanges(i) \/ RouteChanges(i) \/ StreamConnected(i)
             \/ CheckConnectionTimeout(i) \/ RunNotice(i) \/ Timer(i)
  BY <1>4, StopEndsInv, TransportChangesInv, RouteChangesInv, StreamConnectedInv,
     CheckConnectionTimeoutInv, RunNoticeInv, TimerInv
<1>5. CASE StopConnections \/ Observe \/ Notify \/ Remove \/ RemoveEnds
  BY <1>5, StopConnectionsInv, ObserveInv, NotifyInv, RemoveInv, RemoveEndsInv
<1>6. CASE UNCHANGED vars
  BY <1>6, UnchangedInv DEF vars, Inv, TypeOK
<1>. QED  BY <1>1, <1>2, <1>3, <1>4, <1>5, <1>6 DEF Next

\* The invariant holds in every state.
LEMMA Invariance == Spec => []Inv
<1>. QED  BY InitInv, NextInv, PTL DEF Spec

\* Whatever the application and the network do, every variable keeps its type and
\* the call of a chat is a call of that chat.
THEOREM TypeCorrect == Spec => []TypeOK
<1>1. Inv => TypeOK
  BY DEF Inv
<1>. QED  BY <1>1, Invariance, PTL

\* A call is stopped by one thread, and not while it is the call of a chat
\* (NTgCalls::remove, stop_connections).
THEOREM StoppedByOne == Spec => []OneOwner
<1>1. Inv => OneOwner
  BY DEF Inv
<1>. QED  BY <1>1, Invariance, PTL

\* The call of a chat listens to its connection, which was not closed: what an
\* application finds in the registry was never stopped.
THEOREM RegisteredIsAlive == Spec => []RegisteredLives
<1>1. Inv => RegisteredLives
  BY DEF Inv
<1>. QED  BY <1>1, Invariance, PTL

-----------------------------------------------------------------------------
(* How many members of a sequence are in a set, and what becomes of their   *)
(* number when the sequence grows at its end or loses its head.             *)

Count(s, S) == Cardinality({k \in DOMAIN s : s[k] \in S})

LEMMA CountType ==
  ASSUME NEW T, NEW s \in Seq(T), NEW S
  PROVE  /\ Count(s, S) \in Nat
         /\ IsFiniteSet({k \in DOMAIN s : s[k] \in S})
<1>. DEFINE A == {k \in DOMAIN s : s[k] \in S}
<1>1. DOMAIN s = 1 .. Len(s) /\ Len(s) \in Nat
  OBVIOUS
<1>2. IsFiniteSet(1 .. Len(s))
  BY <1>1, FS_Interval
<1>3. A \in SUBSET (1 .. Len(s))
  BY <1>1
<1>. HIDE DEF A
<1>4. IsFiniteSet(A)
  BY <1>2, <1>3, FS_Subset
<1>5. Cardinality(A) \in Nat
  BY <1>4, FS_CardinalityType
<1>. QED  BY <1>4, <1>5 DEF Count, A

LEMMA CountEmpty ==
  ASSUME NEW S
  PROVE  Count(<<>>, S) = 0
<1>1. {k \in DOMAIN <<>> : <<>>[k] \in S} = {}
  OBVIOUS
<1>. QED  BY <1>1, FS_EmptySet DEF Count

LEMMA CountAppend ==
  ASSUME NEW T, NEW s \in Seq(T), NEW x \in T, NEW S
  PROVE  Count(Append(s, x), S) = Count(s, S) + (IF x \in S THEN 1 ELSE 0)
<1>. DEFINE A == {k \in DOMAIN s : s[k] \in S}
            t == Append(s, x)
            B == {k \in DOMAIN t : t[k] \in S}
            n == Len(s)
<1>1. /\ n \in Nat /\ DOMAIN s = 1 .. n /\ DOMAIN t = 1 .. n + 1
      /\ t[n + 1] = x /\ \A k \in 1 .. n : t[k] = s[k]
  OBVIOUS
<1>2. IsFiniteSet(A) /\ n + 1 \notin A /\ Cardinality(A) \in Nat
  <2>1. IsFiniteSet(A)
    BY CountType
  <2>2. n + 1 \notin A
    BY <1>1
  <2>. HIDE DEF A, n
  <2>. QED  BY <2>1, <2>2, FS_CardinalityType
<1>0. Count(s, S) = Cardinality(A) /\ Count(t, S) = Cardinality(B)
  BY DEF Count
<1>. HIDE DEF t, n
<1>3. CASE x \in S
  <2>1. B = A \cup {n + 1}
    BY <1>1, <1>3
  <2>. HIDE DEF A, B
  <2>2. Cardinality(B) = Cardinality(A) + 1
    BY <1>2, <2>1, FS_AddElement
  <2>. QED  BY <1>0, <1>3, <2>2 DEF t
<1>4. CASE x \notin S
  <2>1. B = A
    BY <1>1, <1>4
  <2>. HIDE DEF A, B
  <2>. QED  BY <1>0, <1>2, <1>4, <2>1 DEF t
<1>. QED  BY <1>3, <1>4

LEMMA CountTail ==
  ASSUME NEW T, NEW s \in Seq(T), s # <<>>, NEW S
  PROVE  Count(s, S) = Count(Tail(s), S) + (IF Head(s) \in S THEN 1 ELSE 0)
<1>. DEFINE A == {k \in DOMAIN s : s[k] \in S}
            t == Tail(s)
            B == {k \in DOMAIN t : t[k] \in S}
            n == Len(s)
            f == [k \in B |-> k + 1]
            C == A \ {1}
<1>1. /\ n \in Nat /\ n >= 1 /\ DOMAIN s = 1 .. n /\ DOMAIN t = 1 .. n - 1
      /\ Head(s) = s[1] /\ \A k \in 1 .. n - 1 : t[k] = s[k + 1]
      /\ t \in Seq(T)
  OBVIOUS
<1>2. IsFiniteSet(A) /\ IsFiniteSet(B)
  BY <1>1, CountType
<1>0. Count(s, S) = Cardinality(A) /\ Count(t, S) = Cardinality(B)
  BY DEF Count
<1>. HIDE DEF t, n
<1>3. f \in Bijection(B, C)
  <2>1. f \in [B -> C] /\ \A j, k \in B : f[j] = f[k] => j = k
    BY <1>1
  <2>2. ASSUME NEW m \in C PROVE \E k \in B : f[k] = m
    <3>1. m - 1 \in B /\ f[m - 1] = m
      BY <1>1
    <3>. QED  BY <3>1
  <2>. HIDE DEF f, B, C
  <2>. QED  BY <2>1, <2>2 DEF Bijection, Injection, Surjection, IsInjective
<1>4. Cardinality(C) = Cardinality(B)
  <2>. HIDE DEF f, B, C
  <2>. QED  BY <1>2, <1>3, FS_Bijection DEF ExistsBijection
<1>5. Cardinality(C) = IF 1 \in A THEN Cardinality(A) - 1 ELSE Cardinality(A)
  <2>. HIDE DEF A
  <2>. QED  BY <1>2, FS_RemoveElement
<1>6. 1 \in A <=> Head(s) \in S
  BY <1>1
<1>7. Cardinality(A) \in Nat
  BY <1>2, FS_CardinalityType
<1>. HIDE DEF A, B, C
<1>. QED  BY <1>0, <1>4, <1>5, <1>6, <1>7 DEF t

\* If at most one member is in the set, it has one place.
LEMMA CountOne ==
  ASSUME NEW T, NEW s \in Seq(T), NEW S, Count(s, S) <= 1,
         NEW j \in DOMAIN s, NEW k \in DOMAIN s, s[j] \in S, s[k] \in S
  PROVE  j = k
<1>. DEFINE A == {m \in DOMAIN s : s[m] \in S}
<1>1. IsFiniteSet(A) /\ j \in A /\ k \in A /\ Cardinality(A) <= 1
  BY CountType DEF Count
<1>. HIDE DEF A
<1>. SUFFICES ASSUME j # k PROVE FALSE
  OBVIOUS
<1>. DEFINE P == {j}
            Q == P \cup {k}
<1>2. IsFiniteSet(P) /\ Cardinality(P) = 1 /\ k \notin P
  BY FS_Singleton
<1>3. Q \in SUBSET A
  BY <1>1
<1>. HIDE DEF P
<1>4. Cardinality(Q) = 2
  <2>1. Cardinality(P \cup {k}) = IF k \in P THEN Cardinality(P) ELSE Cardinality(P) + 1
    BY <1>2, FS_AddElement
  <2>. QED  BY <1>2, <2>1
<1>. HIDE DEF Q
<1>5. Cardinality(Q) <= Cardinality(A)
  BY <1>1, <1>3, FS_Subset
<1>6. Cardinality(A) \in Nat
  BY <1>1, FS_CardinalityType
<1>. QED  BY <1>1, <1>4, <1>5, <1>6

-----------------------------------------------------------------------------
(* How often the streams of a call may still start.  What entitles it to    *)
(* one start is a connect that did not come up yet, a first connection that *)
(* was not published, or one that the update thread did not see: together   *)
(* they are never more than the times connect was called.                   *)

NewsTask(i) == [task |-> "observe", call |-> i, state |-> "Connected", was |-> FALSE]
NotifyTask(i, state) == [task |-> "notify", call |-> i, state |-> state]

\* A connection that may come up for the first time, and a connect under way.
Armed(c) == IF ~ c.already /\ c.mode # "none" THEN 1 ELSE 0
Entering(c) == IF c.phase = "fetched" THEN 1 ELSE 0

\* Before its first mode a connection has published nothing.
Unused(c) ==
  /\ c.mode = "none" => /\ ~ c.remote /\ ~ c.up /\ ~ c.effective /\ ~ c.checking
                        /\ c.media = "off" /\ c.notices = <<>>
  /\ c.phase = "half" => c.mode # "none"
  /\ c.phase # "no" => c.connects # 0

\* With n news of the call for the update thread and t times "Connected" to be told.
Entitled(c, n, t) ==
  /\ Unused(c)
  /\ c.starts + n + Armed(c) + Entering(c) <= c.connects
  /\ Count(c.reports, {"Connected"}) + t <= c.starts

Within(c, q, i) ==
  Entitled(c, Count(q, {NewsTask(i)}), Count(q, {NotifyTask(i, "Connected")}))

\* The counts of a queue are numbers; fewer tasks entitle as well.
LEMMA WithinTail ==
  ASSUME NEW T, NEW q \in Seq(T), q # <<>>, NEW c \in Call, NEW i, Within(c, q, i)
  PROVE  Within(c, Tail(q), i)
<1>. DEFINE n == Count(q, {NewsTask(i)})
            t == Count(q, {NotifyTask(i, "Connected")})
            m == Count(Tail(q), {NewsTask(i)})
            u == Count(Tail(q), {NotifyTask(i, "Connected")})
            r == Count(c.reports, {"Connected"})
<1>1. Tail(q) \in Seq(T)
  OBVIOUS
<1>2. n \in Nat /\ t \in Nat /\ m \in Nat /\ u \in Nat
  BY <1>1, CountType
<1>3. m <= n /\ u <= t
  <2>1. n = m + (IF Head(q) \in {NewsTask(i)} THEN 1 ELSE 0)
    BY CountTail
  <2>2. t = u + (IF Head(q) \in {NotifyTask(i, "Connected")} THEN 1 ELSE 0)
    BY CountTail
  <2>. HIDE DEF n, t, m, u
  <2>. QED  BY <1>2, <2>1, <2>2
<1>4. r \in Nat
  <2>1. c.reports \in Seq(Final \cup {"Connecting", "Connected"})
    BY DEF Call
  <2>. QED  BY <2>1, CountType
<1>5. c.starts \in Nat /\ c.connects \in Nat
  BY DEF Call
<1>6. Entitled(c, n, t)
  BY DEF Within
<1>. HIDE DEF n, t, m, u
<1>7. Entitled(c, m, u)
  BY <1>2, <1>3, <1>4, <1>5, <1>6 DEF Entitled, Armed, Entering, r
<1>. QED  BY <1>7 DEF Within, m, u

\* A task that is neither of the two counts for nothing.
LEMMA WithinAppend ==
  ASSUME NEW T, NEW q \in Seq(T), NEW x \in T, NEW c, NEW i, Within(c, q, i),
         x # NewsTask(i), x # NotifyTask(i, "Connected")
  PROVE  Within(c, Append(q, x), i)
<1>1. Count(Append(q, x), {NewsTask(i)}) = Count(q, {NewsTask(i)}) + 0
  BY CountAppend
<1>2. Count(Append(q, x), {NotifyTask(i, "Connected")})
        = Count(q, {NotifyTask(i, "Connected")}) + 0
  BY CountAppend
<1>3. Count(q, {NewsTask(i)}) \in Nat /\ Count(q, {NotifyTask(i, "Connected")}) \in Nat
  BY CountType
<1>. QED  BY <1>1, <1>2, <1>3 DEF Within

\* The call d has at least the starts left that c has.
LEMMA WithinSame ==
  ASSUME NEW c \in Call, NEW d \in Call, NEW T, NEW q \in Seq(T), NEW i, Within(c, q, i),
         Unused(d), d.starts = c.starts, d.reports = c.reports,
         Armed(d) + Entering(d) + c.connects <= Armed(c) + Entering(c) + d.connects
  PROVE  Within(d, q, i)
<1>. DEFINE n == Count(q, {NewsTask(i)})
            t == Count(q, {NotifyTask(i, "Connected")})
<1>1. n \in Nat /\ t \in Nat
  BY CountType
<1>2. /\ c.starts \in Nat /\ c.connects \in Nat /\ d.connects \in Nat
      /\ Armed(c) \in Nat /\ Armed(d) \in Nat /\ Entering(c) \in Nat /\ Entering(d) \in Nat
  BY DEF Call, Armed, Entering
<1>3. Entitled(c, n, t)
  BY DEF Within
<1>. HIDE DEF n, t
<1>4. Entitled(d, n, t)
  <2>1. /\ c.starts + n + Armed(c) + Entering(c) <= c.connects
        /\ Count(c.reports, {"Connected"}) + t <= c.starts
    BY <1>3 DEF Entitled
  <2>2. d.starts + n + Armed(d) + Entering(d) <= d.connects
    <3>. DEFINE s == c.starts
                k == c.connects
                l == d.connects
                a == Armed(c)
                b == Armed(d)
                e == Entering(c)
                f == Entering(d)
    <3>1. /\ s \in Nat /\ k \in Nat /\ l \in Nat
          /\ a \in Nat /\ b \in Nat /\ e \in Nat /\ f \in Nat
      BY <1>2
    <3>2. s + n + a + e <= k /\ b + f + k <= a + e + l
      BY <2>1
    <3>3. d.starts = s
      OBVIOUS
    <3>. HIDE DEF s, k, l, a, b, e, f
    <3>4. s + n + b + f <= l
      BY <1>1, <3>1, <3>2
    <3>5. d.starts + n + b + f <= l
      BY <3>3, <3>4
    <3>. QED  BY <3>5 DEF b, f, l
  <2>3. Count(d.reports, {"Connected"}) + t <= d.starts
    <3>1. Count(d.reports, {"Connected"}) = Count(c.reports, {"Connected"})
      OBVIOUS
    <3>. QED  BY <2>1, <3>1
  <2>. QED  BY <2>2, <2>3 DEF Entitled
<1>. QED  BY <1>4 DEF Within, n, t

-----------------------------------------------------------------------------
(* What the application is told of a call that it connects once.            *)

\* The update thread is to tell of the call, or to look at a state of it.
Tells(x, i) == x.task = "notify" /\ x.call = i
Watches(x, i) == x.task = "observe" /\ x.call = i

\* Nothing was told, nothing is to be told and nobody would.
Quiet(c, q, i) ==
  /\ c.reports = <<>> /\ c.timers = 0 /\ ~ c.observed
  /\ \A k \in DOMAIN q : ~ Tells(q[k], i) /\ ~ Watches(q[k], i)

\* That it connects was told, or is to be.
Begun(c, q, i) ==
  \/ c.reports # <<>>
  \/ \E k \in DOMAIN q : Tells(q[k], i) /\ q[k].state = "Connecting"

\* That it connects comes first, and once.
FirstOfAll(c, q, i) ==
  /\ \A k \in DOMAIN c.reports : k > 1 <=> c.reports[k] # "Connecting"
  /\ \A k \in DOMAIN q : Tells(q[k], i) /\ q[k].state = "Connecting" =>
       /\ c.reports = <<>>
       /\ \A j \in DOMAIN q : Tells(q[j], i) => k <= j
  /\ (c.listener /\ ~ Quiet(c, q, i)) \/ (\E k \in DOMAIN q : Tells(q[k], i)) => Begun(c, q, i)

\* Who tells of a connection, or will, knows of it.
Known(c, q, i) ==
  /\ \A k \in DOMAIN c.reports : c.reports[k] = "Connected" => c.already
  /\ \A k \in DOMAIN q :
       (Tells(q[k], i) \/ Watches(q[k], i)) /\ q[k].state = "Connected" => c.already

\* A timeout is told before the connection, or not at all.
TimeoutFirst(c, q, i) ==
  /\ \A j, k \in DOMAIN c.reports :
       c.reports[j] = "Timeout" /\ c.reports[k] = "Connected" => j < k
  /\ \A j, k \in DOMAIN q :
       /\ Tells(q[j], i) /\ q[j].state = "Timeout"
       /\ Tells(q[k], i) /\ q[k].state = "Connected"
       => j < k
  /\ \A j \in DOMAIN c.reports, k \in DOMAIN q :
       c.reports[j] = "Connected" => ~ (Tells(q[k], i) /\ q[k].state = "Timeout")

Story(c, q, i) ==
  /\ c.connects = 0 \/ (c.connects = 1 /\ c.phase # "no") => Quiet(c, q, i)
  /\ c.connects = 1 => FirstOfAll(c, q, i) /\ Known(c, q, i) /\ TimeoutFirst(c, q, i)

\* A call that was connected; if somebody listens, that was told or is to be.
Lively(c, q, i) ==
  /\ c.connects # 0
  /\ c.connects = 1 => c.phase = "no" /\ (c.listener => Begun(c, q, i))

LEMMA QuietStory ==
  ASSUME NEW c, NEW q, NEW i, Quiet(c, q, i)
  PROVE  Story(c, q, i)
<1>1. DOMAIN c.reports = {}
  BY DEF Quiet
<1>2. FirstOfAll(c, q, i)
  BY <1>1 DEF FirstOfAll, Quiet
<1>3. Known(c, q, i)
  BY <1>1 DEF Known, Quiet
<1>4. TimeoutFirst(c, q, i)
  BY <1>1 DEF TimeoutFirst, Quiet
<1>. QED  BY <1>2, <1>3, <1>4 DEF Story

LEMMA LivelyStory ==
  ASSUME NEW c, NEW q, NEW i, Story(c, q, i), ~ Quiet(c, q, i)
  PROVE  Lively(c, q, i)
BY DEF Story, Lively, FirstOfAll

\* Changes of a call that nothing is told of: what is known stays known.
Calmer(c, d) ==
  /\ d.connects = c.connects /\ d.reports = c.reports
  /\ d.phase # "no" => c.phase # "no"
  /\ d.listener => c.listener
  /\ d.observed => c.observed
  /\ c.timers = 0 => d.timers = 0
  /\ c.already => d.already

LEMMA CalmerStory ==
  ASSUME NEW c, NEW d, NEW q, NEW i, Story(c, q, i), Calmer(c, d)
  PROVE  Story(d, q, i)
<1>1. Quiet(c, q, i) => Quiet(d, q, i)
  BY DEF Quiet, Calmer
<1>2. c.connects = 1 => FirstOfAll(d, q, i)
  BY <1>1 DEF Story, FirstOfAll, Begun, Calmer
<1>3. c.connects = 1 => Known(d, q, i)
  BY DEF Story, Known, Calmer
<1>4. c.connects = 1 => TimeoutFirst(d, q, i)
  BY DEF Story, TimeoutFirst, Calmer
<1>. QED  BY <1>1, <1>2, <1>3, <1>4 DEF Story, Calmer

\* A task is taken that does not tell of the call.
LEMMA TailStory ==
  ASSUME NEW T, NEW q \in Seq(T), q # <<>>, NEW c, NEW i, Story(c, q, i),
         ~ Tells(Head(q), i)
  PROVE  /\ Story(c, Tail(q), i)
         /\ Lively(c, q, i) => Lively(c, Tail(q), i)
<1>. DEFINE p == Tail(q)
            n == Len(q)
<1>1. /\ n \in Nat /\ n >= 1 /\ DOMAIN q = 1 .. n /\ DOMAIN p = 1 .. n - 1
      /\ \A k \in 1 .. n - 1 : p[k] = q[k + 1] /\ k + 1 \in 1 .. n
      /\ ~ Tells(q[1], i)
  OBVIOUS
<1>. HIDE DEF p, n
<1>2. \A k \in 1 .. n : Tells(q[k], i) => k - 1 \in 1 .. n - 1 /\ p[k - 1] = q[k]
  BY <1>1
<1>3. Quiet(c, q, i) => Quiet(c, p, i)
  BY <1>1 DEF Quiet
<1>4. Begun(c, q, i) => Begun(c, p, i)
  BY <1>1, <1>2 DEF Begun
<1>5. CASE c.connects = 1
  <2>1. FirstOfAll(c, q, i) /\ Known(c, q, i) /\ TimeoutFirst(c, q, i)
    BY <1>5 DEF Story
  <2>2. FirstOfAll(c, p, i)
    <3>1. \A k \in DOMAIN c.reports : k > 1 <=> c.reports[k] # "Connecting"
      BY <2>1 DEF FirstOfAll
    <3>2. ASSUME NEW k \in DOMAIN p, Tells(p[k], i), p[k].state = "Connecting"
          PROVE  c.reports = <<>> /\ \A j \in DOMAIN p : Tells(p[j], i) => k <= j
      <4>1. /\ c.reports = <<>>
            /\ \A j \in DOMAIN q : Tells(q[j], i) => k + 1 <= j
        BY <1>1, <2>1, <3>2 DEF FirstOfAll
      <4>2. \A j \in DOMAIN p : Tells(p[j], i) => k + 1 <= j + 1
        BY <1>1, <4>1
      <4>. QED  BY <1>1, <3>2, <4>1, <4>2
    <3>3. (c.listener /\ ~ Quiet(c, p, i)) \/ (\E k \in DOMAIN p : Tells(p[k], i))
            => Begun(c, p, i)
      BY <1>1, <1>3, <1>4, <2>1 DEF FirstOfAll
    <3>. QED  BY <3>1, <3>2, <3>3 DEF FirstOfAll
  <2>3. Known(c, p, i)
    BY <1>1, <2>1 DEF Known
  <2>4. TimeoutFirst(c, p, i)
    <3>1. \A j, k \in DOMAIN c.reports :
            c.reports[j] = "Timeout" /\ c.reports[k] = "Connected" => j < k
      BY <2>1 DEF TimeoutFirst
    <3>2. ASSUME NEW j \in DOMAIN p, NEW k \in DOMAIN p,
                 Tells(p[j], i), p[j].state = "Timeout", Tells(p[k], i), p[k].state = "Connected"
          PROVE  j < k
      <4>1. j + 1 < k + 1
        BY <1>1, <2>1, <3>2 DEF TimeoutFirst
      <4>. QED  BY <1>1, <3>2, <4>1
    <3>3. \A j \in DOMAIN c.reports, k \in DOMAIN p :
            c.reports[j] = "Connected" => ~ (Tells(p[k], i) /\ p[k].state = "Timeout")
      BY <1>1, <2>1 DEF TimeoutFirst
    <3>. QED  BY <3>1, <3>2, <3>3 DEF TimeoutFirst
  <2>. QED  BY <1>3, <1>4, <1>5, <2>2, <2>3, <2>4 DEF Story, Lively, p
<1>. QED  BY <1>3, <1>4, <1>5 DEF Story, Lively, p

\* A task is posted that tells nothing of the call.
LEMMA AppendStory ==
  ASSUME NEW T, NEW q \in Seq(T), NEW x \in T, NEW c, NEW i, Story(c, q, i),
         ~ Tells(x, i),
         Watches(x, i) => Lively(c, q, i) /\ (x.state = "Connected" => c.already)
  PROVE  Story(c, Append(q, x), i)
<1>. DEFINE p == Append(q, x)
            n == Len(q)
<1>1. /\ n \in Nat /\ DOMAIN q = 1 .. n /\ DOMAIN p = 1 .. n + 1
      /\ p[n + 1] = x /\ \A k \in 1 .. n : p[k] = q[k] /\ k \in 1 .. n + 1
  OBVIOUS
<1>. HIDE DEF p, n
<1>2. \A k \in 1 .. n + 1 : Tells(p[k], i) => k \in 1 .. n /\ p[k] = q[k]
  BY <1>1
<1>3. Quiet(c, q, i) /\ ~ Watches(x, i) => Quiet(c, p, i)
  BY <1>1 DEF Quiet
<1>4. Begun(c, q, i) => Begun(c, p, i)
  BY <1>1 DEF Begun
<1>5. CASE c.connects = 1
  <2>1. FirstOfAll(c, q, i) /\ Known(c, q, i) /\ TimeoutFirst(c, q, i)
    BY <1>5 DEF Story
  <2>2. FirstOfAll(c, p, i)
    <3>1. \A k \in DOMAIN c.reports : k > 1 <=> c.reports[k] # "Connecting"
      BY <2>1 DEF FirstOfAll
    <3>2. ASSUME NEW k \in DOMAIN p, Tells(p[k], i), p[k].state = "Connecting"
          PROVE  c.reports = <<>> /\ \A j \in DOMAIN p : Tells(p[j], i) => k <= j
      BY <1>1, <1>2, <2>1, <3>2 DEF FirstOfAll
    <3>3. (c.listener /\ ~ Quiet(c, p, i)) \/ (\E k \in DOMAIN p : Tells(p[k], i))
            => Begun(c, p, i)
      BY <1>1, <1>2, <1>3, <1>4, <1>5, <2>1 DEF FirstOfAll, Lively
    <3>. QED  BY <3>1, <3>2, <3>3 DEF FirstOfAll
  <2>3. Known(c, p, i)
    BY <1>1, <1>2, <2>1 DEF Known
  <2>4. TimeoutFirst(c, p, i)
    BY <1>1, <1>2, <2>1 DEF TimeoutFirst
  <2>. QED  BY <1>3, <1>5, <2>2, <2>3, <2>4 DEF Story, Lively, p
<1>. QED  BY <1>3, <1>5 DEF Story, Lively, p

\* A state is to be told that is no first report.
LEMMA TellStory ==
  ASSUME NEW T, NEW q \in Seq(T), NEW x \in T, NEW c, NEW i, Story(c, q, i),
         Tells(x, i), c.listener, Lively(c, q, i), x.state # "Connecting",
         c.connects = 1 /\ x.state = "Connected" => c.already,
         x.state = "Timeout" => ~ c.already
  PROVE  Story(c, Append(q, x), i)
<1>. DEFINE p == Append(q, x)
            n == Len(q)
<1>1. /\ n \in Nat /\ DOMAIN q = 1 .. n /\ DOMAIN p = 1 .. n + 1
      /\ p[n + 1] = x /\ \A k \in 1 .. n : p[k] = q[k] /\ k \in 1 .. n + 1
      /\ \A k \in 1 .. n + 1 : k = n + 1 \/ (k \in 1 .. n /\ k < n + 1)
  OBVIOUS
<1>. HIDE DEF p, n
<1>2. CASE c.connects = 1
  <2>1. FirstOfAll(c, q, i) /\ Known(c, q, i) /\ TimeoutFirst(c, q, i)
    BY <1>2 DEF Story
  <2>2. Begun(c, p, i) /\ c.phase = "no"
    BY <1>1, <1>2 DEF Begun, Lively
  <2>3. FirstOfAll(c, p, i)
    <3>1. \A k \in DOMAIN c.reports : k > 1 <=> c.reports[k] # "Connecting"
      BY <2>1 DEF FirstOfAll
    <3>2. ASSUME NEW k \in DOMAIN p, Tells(p[k], i), p[k].state = "Connecting"
          PROVE  c.reports = <<>> /\ \A j \in DOMAIN p : Tells(p[j], i) => k <= j
      <4>1. k \in 1 .. n /\ p[k] = q[k]
        BY <1>1, <3>2
      <4>2. c.reports = <<>> /\ \A j \in DOMAIN q : Tells(q[j], i) => k <= j
        BY <1>1, <2>1, <3>2, <4>1 DEF FirstOfAll
      <4>. QED  BY <1>1, <4>1, <4>2
    <3>. QED  BY <2>2, <3>1, <3>2 DEF FirstOfAll
  <2>4. Known(c, p, i)
    BY <1>1, <1>2, <2>1 DEF Known
  <2>5. TimeoutFirst(c, p, i)
    <3>1. \A j, k \in DOMAIN c.reports :
            c.reports[j] = "Timeout" /\ c.reports[k] = "Connected" => j < k
      BY <2>1 DEF TimeoutFirst
    <3>2. ASSUME NEW j \in DOMAIN p, NEW k \in DOMAIN p,
                 Tells(p[j], i), p[j].state = "Timeout", Tells(p[k], i), p[k].state = "Connected"
          PROVE  j < k
      <4>1. CASE j = n + 1
        <5>1. ~ c.already /\ k # n + 1
          BY <1>1, <3>2, <4>1
        <5>. QED  BY <1>1, <2>1, <3>2, <5>1 DEF Known
      <4>2. CASE j # n + 1 /\ k = n + 1
        BY <1>1, <4>2
      <4>3. CASE j # n + 1 /\ k # n + 1
        BY <1>1, <2>1, <3>2, <4>3 DEF TimeoutFirst
      <4>. QED  BY <4>1, <4>2, <4>3
    <3>3. ASSUME NEW j \in DOMAIN c.reports, NEW k \in DOMAIN p,
                 c.reports[j] = "Connected", Tells(p[k], i), p[k].state = "Timeout"
          PROVE  FALSE
      <4>1. CASE k = n + 1
        BY <1>1, <1>2, <2>1, <3>3, <4>1 DEF Known
      <4>2. CASE k # n + 1
        BY <1>1, <2>1, <3>3, <4>2 DEF TimeoutFirst
      <4>. QED  BY <4>1, <4>2
    <3>. QED  BY <3>1, <3>2, <3>3 DEF TimeoutFirst
  <2>. QED  BY <1>2, <2>2, <2>3, <2>4, <2>5 DEF Story, p
<1>3. CASE c.connects # 1
  BY <1>3 DEF Story, Lively, p
<1>. QED  BY <1>2, <1>3

\* The first report is to be told, of a call that was quiet.
LEMMA BeginStory ==
  ASSUME NEW T, NEW q \in Seq(T), NEW x \in T, NEW c, NEW i, c.connects # 0, c.phase = "no",
         c.connects = 1 =>
           /\ c.reports = <<>>
           /\ \A k \in DOMAIN q : ~ Tells(q[k], i) /\ ~ Watches(q[k], i),
         Tells(x, i), x.state = "Connecting"
  PROVE  Story(c, Append(q, x), i)
<1>. DEFINE p == Append(q, x)
            n == Len(q)
<1>1. /\ n \in Nat /\ DOMAIN q = 1 .. n /\ DOMAIN p = 1 .. n + 1
      /\ p[n + 1] = x /\ \A k \in 1 .. n : p[k] = q[k] /\ k \in 1 .. n + 1
  OBVIOUS
<1>. HIDE DEF p, n
<1>2. CASE c.connects = 1
  <2>1. DOMAIN c.reports = {} /\ c.reports = <<>>
    BY <1>2
  <2>2. \A k \in 1 .. n + 1 : Tells(p[k], i) \/ Watches(p[k], i) => k = n + 1
    BY <1>1, <1>2
  <2>3. Begun(c, p, i)
    BY <1>1 DEF Begun
  <2>4. FirstOfAll(c, p, i)
    BY <1>1, <2>1, <2>2, <2>3 DEF FirstOfAll
  <2>5. Known(c, p, i)
    BY <1>1, <2>1, <2>2 DEF Known
  <2>6. TimeoutFirst(c, p, i)
    BY <1>1, <2>1, <2>2 DEF TimeoutFirst
  <2>. QED  BY <1>2, <2>4, <2>5, <2>6 DEF Story, p
<1>3. CASE c.connects # 1
  BY <1>3 DEF Story, p
<1>. QED  BY <1>2, <1>3

\* A call that nobody listens to goes on without a report.
LEMMA SilentStory ==
  ASSUME NEW c, NEW q, NEW i, c.connects # 0, c.phase = "no", ~ c.listener,
         c.connects = 1 =>
           /\ c.reports = <<>>
           /\ \A k \in DOMAIN q : ~ Tells(q[k], i) /\ ~ Watches(q[k], i)
  PROVE  Story(c, q, i)
<1>1. CASE c.connects = 1
  <2>1. DOMAIN c.reports = {}
    BY <1>1
  <2>. QED  BY <1>1, <2>1 DEF Story, FirstOfAll, Known, TimeoutFirst
<1>2. CASE c.connects # 1
  BY <1>2 DEF Story
<1>. QED  BY <1>1, <1>2

\* The application is told: what was first in the queue is last of the reports.
LEMMA NotifyStory ==
  ASSUME NEW T, NEW q \in Seq(T), q # <<>>, NEW c \in Call, NEW d, NEW i, Story(c, q, i),
         Tells(Head(q), i),
         d.reports = Append(c.reports, Head(q).state),
         d.connects = c.connects, d.phase = c.phase, d.already = c.already,
         d.timers = c.timers, d.observed = c.observed, d.listener = c.listener
  PROVE  Story(d, Tail(q), i)
<1>. DEFINE p == Tail(q)
            n == Len(q)
            m == Len(c.reports)
            r == d.reports
            state == Head(q).state
<1>1. /\ n \in Nat /\ n >= 1 /\ DOMAIN q = 1 .. n /\ DOMAIN p = 1 .. n - 1
      /\ \A k \in 1 .. n - 1 : p[k] = q[k + 1] /\ k + 1 \in 1 .. n
      /\ Tells(q[1], i) /\ q[1].state = state /\ 1 \in 1 .. n
  OBVIOUS
<1>2. /\ m \in Nat /\ DOMAIN c.reports = 1 .. m /\ DOMAIN r = 1 .. m + 1
      /\ r[m + 1] = state /\ \A k \in 1 .. m : r[k] = c.reports[k] /\ k \in 1 .. m + 1
      /\ \A k \in 1 .. m + 1 : k = m + 1 \/ (k \in 1 .. m /\ k < m + 1)
      /\ r # <<>> /\ (c.reports = <<>> <=> m = 0)
  <2>1. c.reports \in Seq(Final \cup {"Connecting", "Connected"})
    BY DEF Call
  <2>. QED  BY <2>1
<1>. HIDE DEF p, n, m, r, state
<1>3. ~ Quiet(c, q, i)
  BY <1>1 DEF Quiet
<1>4. CASE c.connects = 1
  <2>1. FirstOfAll(c, q, i) /\ Known(c, q, i) /\ TimeoutFirst(c, q, i)
    BY <1>4 DEF Story
  <2>2. d.connects # 0 /\ d.phase = "no"
    BY <1>3, <1>4 DEF Story
  <2>3. state = "Connecting" <=> m = 0
    <3>1. CASE state = "Connecting"
      BY <1>1, <1>2, <2>1, <3>1 DEF FirstOfAll
    <3>2. CASE m = 0
      <4>1. PICK k \in 1 .. n : Tells(q[k], i) /\ q[k].state = "Connecting"
        BY <1>1, <1>2, <2>1, <3>2 DEF FirstOfAll, Begun
      <4>2. k <= 1
        BY <1>1, <2>1, <4>1 DEF FirstOfAll
      <4>3. k = 1
        BY <1>1, <4>1, <4>2
      <4>. QED  BY <1>1, <3>2, <4>1, <4>3
    <3>. QED  BY <3>1, <3>2
  <2>4. \A k \in 1 .. n - 1 : ~ (Tells(p[k], i) /\ p[k].state = "Connecting")
    <3>. SUFFICES ASSUME NEW k \in 1 .. n - 1, Tells(p[k], i), p[k].state = "Connecting"
                  PROVE  FALSE
      OBVIOUS
    <3>1. k + 1 <= 1
      BY <1>1, <2>1 DEF FirstOfAll
    <3>. QED  BY <3>1
  <2>5. FirstOfAll(d, p, i)
    <3>1. \A k \in DOMAIN r : k > 1 <=> r[k] # "Connecting"
      <4>. SUFFICES ASSUME NEW k \in 1 .. m + 1 PROVE k > 1 <=> r[k] # "Connecting"
        BY <1>2
      <4>1. CASE k = m + 1
        BY <1>2, <2>3, <4>1
      <4>2. CASE k \in 1 .. m
        BY <1>2, <2>1, <4>2 DEF FirstOfAll
      <4>. QED  BY <1>2, <4>1, <4>2
    <3>. QED  BY <1>1, <1>2, <2>4, <3>1 DEF FirstOfAll, Begun, r
  <2>6. Known(d, p, i)
    <3>1. \A k \in DOMAIN r : r[k] = "Connected" => d.already
      BY <1>1, <1>2, <2>1 DEF Known
    <3>2. \A k \in DOMAIN p : (Tells(p[k], i) \/ Watches(p[k], i)) /\ p[k].state = "Connected"
            => d.already
      BY <1>1, <2>1 DEF Known
    <3>. QED  BY <3>1, <3>2 DEF Known, r
  <2>7. TimeoutFirst(d, p, i)
    <3>1. ASSUME NEW j \in DOMAIN r, NEW k \in DOMAIN r, r[j] = "Timeout", r[k] = "Connected"
          PROVE  j < k
      <4>1. CASE j = m + 1
        <5>1. k \in 1 .. m /\ c.reports[k] = "Connected" /\ state = "Timeout"
          BY <1>2, <3>1, <4>1
        <5>. QED  BY <1>1, <1>2, <2>1, <5>1 DEF TimeoutFirst
      <4>2. CASE j # m + 1 /\ k = m + 1
        BY <1>2, <3>1, <4>2
      <4>3. CASE j # m + 1 /\ k # m + 1
        <5>1. /\ j \in 1 .. m /\ k \in 1 .. m
              /\ c.reports[j] = "Timeout" /\ c.reports[k] = "Connected"
          BY <1>2, <3>1, <4>3
        <5>. QED  BY <1>2, <2>1, <5>1 DEF TimeoutFirst
      <4>. QED  BY <4>1, <4>2, <4>3
    <3>2. ASSUME NEW j \in DOMAIN p, NEW k \in DOMAIN p,
                 Tells(p[j], i), p[j].state = "Timeout", Tells(p[k], i), p[k].state = "Connected"
          PROVE  j < k
      <4>1. j + 1 < k + 1
        BY <1>1, <2>1, <3>2 DEF TimeoutFirst
      <4>. QED  BY <1>1, <3>2, <4>1
    <3>3. ASSUME NEW j \in DOMAIN r, NEW k \in DOMAIN p,
                 r[j] = "Connected", Tells(p[k], i), p[k].state = "Timeout"
          PROVE  FALSE
      <4>1. /\ k + 1 \in 1 .. n /\ Tells(q[k + 1], i) /\ q[k + 1].state = "Timeout"
            /\ ~ (k + 1 < 1) /\ k \in 1 .. n - 1
        BY <1>1, <3>3
      <4>2. CASE j = m + 1
        <5>1. state = "Connected"
          BY <1>2, <3>3, <4>2
        <5>. QED  BY <1>1, <2>1, <4>1, <5>1 DEF TimeoutFirst
      <4>3. CASE j # m + 1
        <5>1. j \in 1 .. m /\ c.reports[j] = "Connected"
          BY <1>2, <3>3, <4>3
        <5>. QED  BY <1>1, <1>2, <2>1, <4>1, <5>1 DEF TimeoutFirst
      <4>. QED  BY <4>2, <4>3
    <3>. QED  BY <3>1, <3>2, <3>3 DEF TimeoutFirst, r
  <2>. QED  BY <1>4, <2>2, <2>5, <2>6, <2>7 DEF Story, p
<1>5. CASE c.connects # 1
  BY <1>3, <1>5 DEF Story, p
<1>. QED  BY <1>4, <1>5

-----------------------------------------------------------------------------
(* Both of every call.                                                      *)

Good(c, q, i) == Within(c, q, i) /\ Story(c, q, i)

AllGood == \A i \in DOMAIN calls : Good(calls[i], updates, i)

\* A task that is not about another call than i.
Mine(x, i) == x.task = "remove" \/ x.call = i

\* The queue p is the queue q after a step of call i.
Moved(q, p, i, T) ==
  \/ p = q
  \/ \E x \in T : p = Append(q, x) /\ Mine(x, i)
  \/ /\ q # <<>>
     /\ Mine(Head(q), i)
     /\ p = Tail(q) \/ \E x \in T : p = Append(Tail(q), x) /\ Mine(x, i)

LEMMA GoodTail ==
  ASSUME NEW T, NEW q \in Seq(T), q # <<>>, NEW c \in Call, NEW i, Good(c, q, i),
         ~ Tells(Head(q), i)
  PROVE  Good(c, Tail(q), i)
<1>1. Within(c, Tail(q), i)
  BY WithinTail DEF Good
<1>2. Story(c, Tail(q), i)
  BY TailStory DEF Good
<1>. QED  BY <1>1, <1>2 DEF Good

\* A task is posted that is not about the call.
LEMMA GoodAppend ==
  ASSUME NEW T, NEW q \in Seq(T), NEW x \in T, NEW c, NEW i, Good(c, q, i),
         x.task = "remove" \/ x.call # i
  PROVE  Good(c, Append(q, x), i)
<1>1. /\ ~ Tells(x, i) /\ ~ Watches(x, i)
      /\ x # NewsTask(i) /\ x # NotifyTask(i, "Connected")
  BY DEF Tells, Watches, NewsTask, NotifyTask
<1>2. Within(c, Append(q, x), i)
  BY <1>1, WithinAppend DEF Good
<1>3. Story(c, Append(q, x), i)
  BY <1>1, AppendStory DEF Good
<1>. QED  BY <1>2, <1>3 DEF Good

LEMMA GoodOfAnother ==
  ASSUME NEW T, NEW q \in Seq(T), NEW p, NEW c \in Call, NEW i, NEW j, j # i,
         Good(c, q, j), Moved(q, p, i, T)
  PROVE  Good(c, p, j)
<1>1. ASSUME NEW s \in Seq(T), NEW x \in T, Good(c, s, j), Mine(x, i)
      PROVE  Good(c, Append(s, x), j)
  BY <1>1, GoodAppend DEF Mine
<1>2. CASE p = q
  BY <1>2
<1>3. CASE \E x \in T : p = Append(q, x) /\ Mine(x, i)
  BY <1>1, <1>3
<1>4. CASE /\ q # <<>>
           /\ Mine(Head(q), i)
           /\ p = Tail(q) \/ \E x \in T : p = Append(Tail(q), x) /\ Mine(x, i)
  <2>1. ~ Tells(Head(q), j)
    BY <1>4 DEF Mine, Tells
  <2>2. Good(c, Tail(q), j)
    BY <1>4, <2>1, GoodTail
  <2>3. Tail(q) \in Seq(T)
    BY <1>4
  <2>. QED  BY <1>1, <1>4, <2>2, <2>3
<1>. QED  BY <1>2, <1>3, <1>4 DEF Moved

\* A step changes one call, and the update thread's tasks about it.
LEMMA OneCallGood ==
  ASSUME Inv, AllGood, NEW i \in DOMAIN calls, NEW d,
         calls' = [calls EXCEPT ![i] = d],
         Moved(updates, updates', i, Tasks(Len(calls))),
         Good(d, updates', i)
  PROVE  AllGood'
<1>1. calls \in Seq(Call) /\ updates \in Seq(Tasks(Len(calls)))
  BY DEF Inv, TypeOK
<1>2. /\ DOMAIN calls' = DOMAIN calls
      /\ calls'[i] = d
      /\ \A j \in DOMAIN calls : j # i => calls'[j] = calls[j]
  BY <1>1
<1>3. ASSUME NEW j \in DOMAIN calls, j # i PROVE Good(calls[j], updates', j)
  <2>1. Good(calls[j], updates, j) /\ calls[j] \in Call
    BY CallsAre DEF AllGood
  <2>. QED  BY <1>1, <1>3, <2>1, GoodOfAnother
<1>. QED  BY <1>2, <1>3 DEF AllGood

\* A call changes without a task; it has the starts left that it had.
LEMMA CalmGood ==
  ASSUME Inv, AllGood, NEW i \in DOMAIN calls, NEW d \in Call,
         calls' = [calls EXCEPT ![i] = d], updates' = updates,
         Calmer(calls[i], d), Unused(d), d.starts = calls[i].starts,
         Armed(d) + Entering(d) <= Armed(calls[i]) + Entering(calls[i])
  PROVE  AllGood'
<1>1. calls[i] \in Call /\ Good(calls[i], updates, i) /\ updates \in Seq(Tasks(Len(calls)))
  BY CallsAre DEF AllGood, Inv
<1>2. /\ Armed(calls[i]) \in Nat /\ Armed(d) \in Nat
      /\ Entering(calls[i]) \in Nat /\ Entering(d) \in Nat
      /\ calls[i].connects \in Nat
      /\ d.connects = calls[i].connects /\ d.reports = calls[i].reports
  BY <1>1 DEF Armed, Entering, Calmer, Call
<1>3. Armed(d) + Entering(d) + calls[i].connects
        <= Armed(calls[i]) + Entering(calls[i]) + d.connects
  <2>. DEFINE a == Armed(d)
              b == Armed(calls[i])
              e == Entering(d)
              f == Entering(calls[i])
              k == calls[i].connects
  <2>1. /\ a \in Nat /\ b \in Nat /\ e \in Nat /\ f \in Nat /\ k \in Nat
        /\ a + e <= b + f /\ d.connects = k
    BY <1>2
  <2>. HIDE DEF a, b, e, f, k
  <2>2. a + e + k <= b + f + k
    BY <2>1
  <2>. QED  BY <2>1, <2>2 DEF a, b, e, f, k
<1>4. Within(d, updates, i)
  BY <1>1, <1>2, <1>3, WithinSame DEF Good
<1>5. Story(d, updates, i)
  BY <1>1, CalmerStory DEF Good
<1>6. Moved(updates, updates', i, Tasks(Len(calls)))
  BY DEF Moved
<1>7. Good(d, updates', i)
  BY <1>4, <1>5 DEF Good
<1>. QED  BY <1>6, <1>7, OneCallGood

\* A connection that has a mode does something that only it knows.
GoesOn(c, d) ==
  /\ d \in Call
  /\ d.mode = c.mode /\ d.mode # "none"
  /\ d.chat = c.chat /\ d.kind = c.kind /\ d.conn = c.conn
  /\ d.already = c.already /\ d.phase = c.phase /\ d.connects = c.connects
  /\ d.starts = c.starts /\ d.reports = c.reports /\ d.timers = c.timers
  /\ d.listener = c.listener /\ d.observed = c.observed

LEMMA GoesOnTwice ==
  ASSUME NEW c, NEW d, NEW e, GoesOn(c, d), GoesOn(d, e)
  PROVE  GoesOn(c, e)
BY DEF GoesOn

LEMMA UnusedOfCall ==
  ASSUME AllGood, NEW i \in DOMAIN calls
  PROVE  Unused(calls[i])
BY DEF AllGood, Good, Within, Entitled

LEMMA GoesOnGood ==
  ASSUME Inv, AllGood, NEW i \in DOMAIN calls, NEW d, GoesOn(calls[i], d),
         calls' = [calls EXCEPT ![i] = d], updates' = updates
  PROVE  AllGood'
<1>1. d \in Call /\ Calmer(calls[i], d) /\ d.starts = calls[i].starts
  BY DEF GoesOn, Calmer
<1>3. Unused(d)
  BY UnusedOfCall DEF GoesOn, Unused
<1>2. Armed(d) + Entering(d) <= Armed(calls[i]) + Entering(calls[i])
  BY DEF GoesOn, Armed, Entering
<1>. QED  BY <1>1, <1>2, <1>3, CalmGood

LEMMA NoticeGoesOn ==
  ASSUME NEW c \in Call, c.mode # "none", NEW notice \in {"now", "Connecting", "Connected"}
  PROVE  GoesOn(c, [c EXCEPT !.notices = Append(@, notice)])
<1>1. Append(c.notices, notice) \in Seq({"now", "Connecting", "Connected"})
  BY DEF Call
<1>. QED  BY <1>1 DEF GoesOn, Call

LEMMA UpdateGoesOn ==
  ASSUME NEW c \in Call, c.mode # "none"
  PROVE  GoesOn(c, UpdateIsConnected(c))
<1>. DEFINE now == IF c.mode = "rtc" THEN c.up ELSE c.mode \in Streaming /\ c.media = "up"
            d == [c EXCEPT !.effective = now]
            notice == IF now THEN "Connected" ELSE "Connecting"
<1>1. now \in BOOLEAN
  BY DEF Call
<1>2. GoesOn(c, c)
  BY DEF GoesOn
<1>3. GoesOn(c, d)
  BY <1>1 DEF GoesOn, Call
<1>4. GoesOn(d, [d EXCEPT !.notices = Append(@, notice)])
  <2>1. d \in Call /\ d.mode # "none"
    BY <1>3 DEF GoesOn
  <2>. QED  BY <2>1, NoticeGoesOn
<1>5. UpdateIsConnected(c) = c
      \/ UpdateIsConnected(c) = [d EXCEPT !.notices = Append(@, notice)]
  BY <1>1 DEF UpdateIsConnected, Call
<1>. HIDE DEF d, notice, now
<1>. QED  BY <1>2, <1>3, <1>4, <1>5, GoesOnTwice

\* What such a connection does is a step of its call alone.
GoesOnStep(i) ==
  /\ \E d : GoesOn(calls[i], d) /\ calls' = [calls EXCEPT ![i] = d]
  /\ UNCHANGED <<connections, updates, stopping, busy>>

LEMMA TransportChangesGoesOn ==
  ASSUME Inv, AllGood, NEW i \in DOMAIN calls, TransportChanges(i)
  PROVE  GoesOnStep(i)
<1>. DEFINE c == calls[i]
            e == [c EXCEPT !.up = ~ @, !.changes = @ + 1]
<1>1. c \in Call /\ c.mode # "none"
  BY CallsAre, UnusedOfCall DEF Unused, TransportChanges
<1>2. GoesOn(c, e)
  <2>1. c.changes + 1 \in Nat /\ (~ c.up) \in BOOLEAN
    BY <1>1 DEF Call
  <2>. HIDE DEF c
  <2>. QED  BY <1>1, <2>1 DEF GoesOn, Call
<1>3. calls' = [calls EXCEPT ![i] = StateUpdated(e)] /\ UNCHANGED <<connections, updates, stopping, busy>>
  BY DEF TransportChanges
<1>. HIDE DEF e
<1>4. GoesOn(e, StateUpdated(e))
  <2>1. e \in Call /\ e.mode # "none"
    BY <1>2 DEF GoesOn
  <2>. QED  BY <2>1, NoticeGoesOn, UpdateGoesOn DEF StateUpdated, NotifyStateUpdated
<1>5. GoesOn(calls[i], StateUpdated(e))
  BY <1>2, <1>4, GoesOnTwice
<1>. QED  BY <1>3, <1>5 DEF GoesOnStep

LEMMA RouteChangesGoesOn ==
  ASSUME Inv, AllGood, NEW i \in DOMAIN calls, RouteChanges(i)
  PROVE  GoesOnStep(i)
<1>. DEFINE c == calls[i]
            e == [c EXCEPT !.changes = @ + 1]
<1>1. c \in Call /\ c.mode # "none"
  BY CallsAre, UnusedOfCall DEF Unused, RouteChanges
<1>2. GoesOn(c, e)
  <2>1. c.changes + 1 \in Nat
    BY <1>1 DEF Call
  <2>. HIDE DEF c
  <2>. QED  BY <1>1, <2>1 DEF GoesOn, Call
<1>3. calls' = [calls EXCEPT ![i] = NotifyStateUpdated(e)] /\ UNCHANGED <<connections, updates, stopping, busy>>
  BY DEF RouteChanges
<1>. HIDE DEF e
<1>4. GoesOn(e, NotifyStateUpdated(e))
  BY <1>2, NoticeGoesOn DEF GoesOn, NotifyStateUpdated
<1>5. GoesOn(calls[i], NotifyStateUpdated(e))
  BY <1>2, <1>4, GoesOnTwice
<1>. QED  BY <1>3, <1>5 DEF GoesOnStep

LEMMA StreamConnectedGoesOn ==
  ASSUME Inv, AllGood, NEW i \in DOMAIN calls, StreamConnected(i)
  PROVE  GoesOnStep(i)
<1>. DEFINE c == calls[i]
            e == [c EXCEPT !.media = "up"]
<1>1. c \in Call /\ c.mode # "none"
  BY CallsAre, UnusedOfCall DEF Unused, StreamConnected
<1>2. GoesOn(c, e)
  <2>. HIDE DEF c
  <2>. QED  BY <1>1 DEF GoesOn, Call
<1>3. calls' = [calls EXCEPT ![i] = UpdateIsConnected(e)] /\ UNCHANGED <<connections, updates, stopping, busy>>
  BY DEF StreamConnected
<1>. HIDE DEF e
<1>4. GoesOn(e, UpdateIsConnected(e))
  BY <1>2, UpdateGoesOn DEF GoesOn
<1>5. GoesOn(calls[i], UpdateIsConnected(e))
  BY <1>2, <1>4, GoesOnTwice
<1>. QED  BY <1>3, <1>5 DEF GoesOnStep

LEMMA CheckConnectionTimeoutGoesOn ==
  ASSUME Inv, AllGood, NEW i \in DOMAIN calls, CheckConnectionTimeout(i)
  PROVE  GoesOnStep(i)
<1>. DEFINE c == calls[i]
            e == [c EXCEPT !.failed = TRUE, !.checking = FALSE]
<1>1. c \in Call /\ c.mode # "none"
  BY CallsAre, UnusedOfCall DEF Unused, CheckConnectionTimeout
<1>2. GoesOn(c, e)
  <2>. HIDE DEF c
  <2>. QED  BY <1>1 DEF GoesOn, Call
<1>3. calls' = [calls EXCEPT ![i] = NotifyStateUpdated(e)] /\ UNCHANGED <<connections, updates, stopping, busy>>
  BY DEF CheckConnectionTimeout
<1>. HIDE DEF e
<1>4. GoesOn(e, NotifyStateUpdated(e))
  BY <1>2, NoticeGoesOn DEF GoesOn, NotifyStateUpdated
<1>5. GoesOn(calls[i], NotifyStateUpdated(e))
  BY <1>2, <1>4, GoesOnTwice
<1>. QED  BY <1>3, <1>5 DEF GoesOnStep

LEMMA GoesOnStepGood ==
  ASSUME Inv, AllGood, NEW i \in DOMAIN calls, GoesOnStep(i)
  PROVE  AllGood'
BY GoesOnGood DEF GoesOnStep

-----------------------------------------------------------------------------
(* The steps of a connect.                                                  *)

LEMMA FetchGood ==
  ASSUME Inv, AllGood, NEW chat \in Chats, FetchToConnect(chat)
  PROVE  AllGood'
<1>. DEFINE i == connections[chat]
            c == calls[i]
            d == [c EXCEPT !.phase = "fetched", !.connects = @ + 1]
<1>1. i \in DOMAIN calls /\ calls' = [calls EXCEPT ![i] = d] /\ updates' = updates
      /\ c.phase = "no"
  <2>1. i \in DOMAIN calls
    BY OneChat DEF FetchToConnect
  <2>2. updates' = updates /\ c.phase = "no"
    BY DEF FetchToConnect
  <2>3. calls' = [calls EXCEPT ![i].phase = "fetched", ![i].connects = @ + 1]
    BY DEF FetchToConnect
  <2>4. calls' = [calls EXCEPT ![i] = d]
    BY <2>1, <2>3
  <2>. QED  BY <2>1, <2>2, <2>4
<1>. HIDE DEF i
<1>2. c \in Call /\ Good(c, updates, i) /\ Unused(c) /\ updates \in Seq(Tasks(Len(calls)))
  BY <1>1, CallsAre, UnusedOfCall DEF AllGood, Inv
<1>3. c.connects \in Nat /\ c.connects + 1 \in Nat
  BY <1>2 DEF Call
<1>. HIDE DEF c
<1>4. /\ d \in Call /\ d.phase = "fetched" /\ d.connects = c.connects + 1
      /\ d.mode = c.mode /\ d.already = c.already /\ d.starts = c.starts
      /\ d.reports = c.reports /\ d.timers = c.timers /\ d.observed = c.observed
      /\ d.remote = c.remote /\ d.up = c.up /\ d.effective = c.effective
      /\ d.checking = c.checking /\ d.media = c.media /\ d.notices = c.notices
  BY <1>2, <1>3 DEF Call
<1>. HIDE DEF d
<1>5. Unused(d)
  BY <1>2, <1>3, <1>4 DEF Unused
<1>6. Armed(d) = Armed(c) /\ Entering(d) = 1 /\ Entering(c) = 0 /\ Armed(c) \in Nat
  BY <1>1, <1>4 DEF Armed, Entering, c
<1>7. Armed(d) + Entering(d) + c.connects <= Armed(c) + Entering(c) + d.connects
  BY <1>3, <1>4, <1>6
<1>8. Within(d, updates, i)
  BY <1>2, <1>4, <1>5, <1>7, WithinSame DEF Good
<1>9. Story(d, updates, i)
  <2>1. CASE c.connects = 0
    <3>1. Quiet(d, updates, i)
      BY <1>2, <1>4, <2>1 DEF Good, Story, Quiet
    <3>. QED  BY <3>1, QuietStory
  <2>2. CASE c.connects # 0
    <3>1. d.connects # 0 /\ d.connects # 1
      BY <1>3, <1>4, <2>2
    <3>. QED  BY <3>1 DEF Story
  <2>. QED  BY <2>1, <2>2
<1>10. Moved(updates, updates', i, Tasks(Len(calls))) /\ Good(d, updates', i)
  BY <1>1, <1>8, <1>9 DEF Moved, Good
<1>. QED  BY <1>1, <1>10, OneCallGood

\* A thread in connect changes the call without a report.
LEMMA EnterGood ==
  ASSUME Inv, AllGood, NEW i \in DOMAIN calls, NEW d \in Call,
         calls' = [calls EXCEPT ![i] = d], updates' = updates,
         calls[i].phase # "no", Unused(d), d.connects = calls[i].connects,
         d.reports = calls[i].reports, d.timers = calls[i].timers,
         d.observed = calls[i].observed, d.starts = calls[i].starts,
         Armed(d) + Entering(d) <= Armed(calls[i]) + Entering(calls[i])
  PROVE  AllGood'
<1>. DEFINE c == calls[i]
<1>1. c \in Call /\ Good(c, updates, i) /\ updates \in Seq(Tasks(Len(calls)))
  BY CallsAre DEF AllGood, Inv
<1>2. Armed(d) + Entering(d) + c.connects <= Armed(c) + Entering(c) + d.connects
  <2>. DEFINE a == Armed(d)
              b == Armed(c)
              e == Entering(d)
              f == Entering(c)
              k == c.connects
  <2>1. /\ a \in Nat /\ b \in Nat /\ e \in Nat /\ f \in Nat /\ k \in Nat
        /\ a + e <= b + f /\ d.connects = k
    BY <1>1 DEF Armed, Entering, Call
  <2>. HIDE DEF a, b, e, f, k
  <2>2. a + e + k <= b + f + k
    BY <2>1
  <2>. QED  BY <2>1, <2>2 DEF a, b, e, f, k
<1>3. Within(d, updates, i)
  BY <1>1, <1>2, WithinSame DEF Good
<1>4. Story(d, updates, i)
  <2>1. CASE c.connects \in {0, 1}
    <3>1. Quiet(d, updates, i)
      BY <1>1, <2>1 DEF Good, Story, Quiet
    <3>. QED  BY <3>1, QuietStory
  <2>2. CASE c.connects \notin {0, 1}
    BY <2>2 DEF Story
  <2>. QED  BY <2>1, <2>2
<1>5. Moved(updates, updates', i, Tasks(Len(calls))) /\ Good(d, updates', i)
  BY <1>3, <1>4 DEF Moved, Good
<1>. QED  BY <1>5, OneCallGood

LEMMA SetConnectionObserverGood ==
  ASSUME Inv, AllGood, NEW i \in DOMAIN calls, NEW c \in Call, SetConnectionObserver(i, c),
         calls[i].phase # "no", Unused(c), c.mode # "none", c.connects = calls[i].connects,
         c.reports = calls[i].reports, c.starts = calls[i].starts,
         c.listener = calls[i].listener,
         Armed(c) <= Armed(calls[i]) + Entering(calls[i])
  PROVE  AllGood'
<1>. DEFINE b == calls[i]
            d == [c EXCEPT !.phase = "no", !.observed = TRUE, !.timers = @ + 1]
            x == NotifyTask(i, "Connecting")
            T == Tasks(Len(calls))
<1>1. b \in Call /\ Good(b, updates, i) /\ Unused(b) /\ updates \in Seq(T)
  BY CallsAre, UnusedOfCall DEF AllGood, Inv
<1>2. c.timers + 1 \in Nat
  BY DEF Call
<1>3. /\ d \in Call /\ d.phase = "no" /\ d.connects = c.connects
      /\ d.mode = c.mode /\ d.already = c.already /\ d.starts = c.starts
      /\ d.reports = c.reports /\ d.listener = c.listener
  BY <1>2 DEF Call
<1>4. calls' = [calls EXCEPT ![i] = d]
      /\ updates' = IF d.listener THEN Append(updates, x) ELSE updates
  <2>1. updates' = Tell(i, "Connecting")
    BY DEF SetConnectionObserver
  <2>2. calls[i].listener = d.listener
    BY <1>3
  <2>3. calls' = [calls EXCEPT ![i] = d]
    BY DEF SetConnectionObserver
  <2>. HIDE DEF d
  <2>. QED  BY <2>1, <2>2, <2>3 DEF Tell, NotifyTask
<1>5. x \in T
  BY CallsAre DEF Tasks, NotifyTask, States
<1>. HIDE DEF d, T
<1>6. Within(d, updates, i)
  <2>1. Unused(d)
    BY <1>3 DEF Unused
  <2>2. Armed(d) = Armed(c) /\ Entering(d) = 0
    BY <1>3 DEF Armed, Entering
  <2>3. Armed(d) + Entering(d) + b.connects <= Armed(b) + Entering(b) + d.connects
    <3>. DEFINE m == Armed(d)
                n == Armed(b)
                f == Entering(b)
                k == b.connects
    <3>1. m \in Nat /\ n \in Nat /\ f \in Nat /\ k \in Nat /\ m <= n + f /\ d.connects = k
      BY <1>1, <1>3, <2>2 DEF Armed, Entering, Call
    <3>2. Entering(d) = 0
      BY <2>2
    <3>. HIDE DEF m, n, f, k
    <3>3. m + 0 + k <= n + f + k
      BY <3>1
    <3>. QED  BY <3>1, <3>2, <3>3 DEF m, n, f, k
  <2>4. d.starts = b.starts /\ d.reports = b.reports
    BY <1>3
  <2>. QED  BY <1>1, <1>3, <2>1, <2>3, <2>4, WithinSame DEF Good
<1>7. /\ d.connects # 0
      /\ d.connects = 1 =>
           /\ d.reports = <<>>
           /\ \A k \in DOMAIN updates : ~ Tells(updates[k], i) /\ ~ Watches(updates[k], i)
  BY <1>1, <1>3 DEF Unused, Good, Story, Quiet
<1>8. Good(d, updates', i)
  <2>1. CASE d.listener
    <3>1. Within(d, Append(updates, x), i)
      <4>1. x # NewsTask(i) /\ x # NotifyTask(i, "Connected")
        BY DEF NewsTask, NotifyTask
      <4>. QED  BY <1>1, <1>5, <1>6, <4>1, WithinAppend
    <3>2. Story(d, Append(updates, x), i)
      <4>1. Tells(x, i) /\ x.state = "Connecting"
        BY DEF Tells, NotifyTask
      <4>. HIDE DEF x
      <4>. QED  BY <1>1, <1>3, <1>5, <1>7, <4>1, BeginStory
    <3>. QED  BY <1>4, <2>1, <3>1, <3>2 DEF Good
  <2>2. CASE ~ d.listener
    <3>1. Story(d, updates, i)
      BY <1>3, <1>7, <2>2, SilentStory
    <3>. QED  BY <1>4, <1>6, <2>2, <3>1 DEF Good
  <2>. QED  BY <2>1, <2>2
<1>9. Moved(updates, updates', i, T)
  <2>1. Mine(x, i)
    BY DEF Mine, NotifyTask
  <2>. QED  BY <1>4, <1>5, <2>1 DEF Moved
<1>. QED  BY <1>4, <1>8, <1>9, OneCallGood DEF T

LEMMA ConnectP2PGood ==
  ASSUME Inv, AllGood, NEW i \in DOMAIN calls, ConnectP2P(i)
  PROVE  AllGood'
<1>. DEFINE c == calls[i]
            o == Opened(c)
            p == [o EXCEPT !.remote = TRUE, !.checking = TRUE]
<1>1. /\ c \in Call /\ Unused(c) /\ c.phase = "fetched" /\ Entering(c) = 1
      /\ Armed(c) \in Nat
  BY CallsAre, UnusedOfCall DEF ConnectP2P, Entering, Armed
<1>2. \/ LeaveConnect(i, c)
      \/ LeaveConnect(i, o)
      \/ SetConnectionObserver(i, p)
  BY DEF ConnectP2P
<1>3. /\ o \in Call /\ o.mode = "rtc" /\ o.phase = c.phase /\ o.connects = c.connects
      /\ o.reports = c.reports /\ o.timers = c.timers /\ o.observed = c.observed
      /\ o.starts = c.starts /\ o.listener = c.listener
  BY <1>1 DEF Opened, Call
<1>. HIDE DEF o
<1>4. /\ p \in Call /\ p.mode = "rtc" /\ p.phase = c.phase /\ p.connects = c.connects
      /\ p.reports = c.reports /\ p.starts = c.starts /\ p.listener = c.listener
  BY <1>1, <1>3 DEF Call
<1>5. CASE LeaveConnect(i, c)
  <2>. DEFINE d == [c EXCEPT !.phase = "no"]
  <2>1. calls' = [calls EXCEPT ![i] = d] /\ updates' = updates
    BY <1>5 DEF LeaveConnect
  <2>. HIDE DEF c
  <2>2. /\ d \in Call /\ d.connects = c.connects /\ d.reports = c.reports
        /\ d.timers = c.timers /\ d.observed = c.observed /\ d.starts = c.starts
        /\ Unused(d) /\ Armed(d) = Armed(c) /\ Entering(d) = 0
    BY <1>1 DEF Call, Unused, Armed, Entering
  <2>. HIDE DEF d
  <2>3. Armed(d) + Entering(d) <= Armed(c) + Entering(c)
    BY <1>1, <2>2
  <2>. QED  BY <1>1, <2>1, <2>2, <2>3, EnterGood DEF c
<1>6. CASE LeaveConnect(i, o)
  <2>. DEFINE d == [o EXCEPT !.phase = "no"]
  <2>1. calls' = [calls EXCEPT ![i] = d] /\ updates' = updates
    BY <1>6 DEF LeaveConnect
  <2>. HIDE DEF c
  <2>2. /\ d \in Call /\ d.connects = c.connects /\ d.reports = c.reports
        /\ d.timers = c.timers /\ d.observed = c.observed /\ d.starts = c.starts
        /\ d.mode = "rtc" /\ d.phase = "no"
    BY <1>1, <1>3 DEF Call
  <2>. HIDE DEF d
  <2>3. Unused(d) /\ Entering(d) = 0 /\ Armed(d) \in {0, 1}
    BY <2>2 DEF Unused, Entering, Armed
  <2>4. Armed(d) + Entering(d) <= Armed(c) + Entering(c)
    BY <1>1, <2>3
  <2>. QED  BY <1>1, <2>1, <2>2, <2>3, <2>4, EnterGood DEF c
<1>7. CASE SetConnectionObserver(i, p)
  <2>. HIDE DEF p
  <2>1. Unused(p) /\ Armed(p) \in {0, 1}
    BY <1>1, <1>4 DEF Unused, Armed
  <2>2. Armed(p) <= Armed(c) + Entering(c)
    BY <1>1, <2>1
  <2>. QED  BY <1>1, <1>4, <1>7, <2>1, <2>2, SetConnectionObserverGood
<1>. QED  BY <1>2, <1>5, <1>6, <1>7

LEMMA ConnectGroupGood ==
  ASSUME Inv, AllGood, NEW i \in DOMAIN calls, NEW mode \in Modes, ConnectGroup(i, mode)
  PROVE  AllGood'
<1>. DEFINE c == calls[i]
            a == IF mode = "rtc" /\ c.mode \in Streaming THEN FALSE ELSE c.already
            e == [c EXCEPT !.mode = mode, !.already = a]
            m == SetConnectionMode(c, mode)
            d == [m EXCEPT !.phase = "half",
                           !.remote = IF mode = "rtc" THEN TRUE ELSE @,
                           !.media = IF mode \in Streaming /\ @ = "off" THEN "soon" ELSE @]
<1>1. /\ c \in Call /\ Unused(c) /\ c.phase = "fetched" /\ Entering(c) = 1
      /\ Armed(c) \in Nat
  BY CallsAre, UnusedOfCall DEF ConnectGroup, Entering, Armed
<1>2. CASE LeaveConnect(i, c)
  <2>. DEFINE f == [c EXCEPT !.phase = "no"]
  <2>1. calls' = [calls EXCEPT ![i] = f] /\ updates' = updates
    BY <1>2 DEF LeaveConnect
  <2>. HIDE DEF c
  <2>2. /\ f \in Call /\ f.connects = c.connects /\ f.reports = c.reports
        /\ f.timers = c.timers /\ f.observed = c.observed /\ f.starts = c.starts
        /\ Unused(f) /\ Armed(f) = Armed(c) /\ Entering(f) = 0
    BY <1>1 DEF Call, Unused, Armed, Entering
  <2>. HIDE DEF f
  <2>3. Armed(f) + Entering(f) <= Armed(c) + Entering(c)
    BY <1>1, <2>2
  <2>. QED  BY <1>1, <2>1, <2>2, <2>3, EnterGood DEF c
<1>3. CASE calls' = [calls EXCEPT ![i] = d] /\ updates' = updates
  <2>0. m = UpdateIsConnected(e)
    BY DEF SetConnectionMode
  <2>1. a \in BOOLEAN /\ mode \in {"rtc", "stream", "rtmp"}
    BY <1>1, CallAssumption DEF Call
  <2>. HIDE DEF c, a
  <2>2. /\ e \in Call /\ e.mode = mode /\ e.mode # "none" /\ e.connects = c.connects
        /\ e.reports = c.reports /\ e.timers = c.timers /\ e.observed = c.observed
        /\ e.starts = c.starts
    BY <1>1, <2>1 DEF Call
  <2>. HIDE DEF e, m
  <2>3. GoesOn(e, m)
    BY <2>0, <2>2, UpdateGoesOn
  <2>4. m \in Call
    BY <2>3 DEF GoesOn
  <2>5. /\ d \in Call /\ d.mode = m.mode /\ d.phase = "half" /\ d.connects = m.connects
        /\ d.reports = m.reports /\ d.timers = m.timers /\ d.observed = m.observed
        /\ d.starts = m.starts
    BY <2>4 DEF Call
  <2>. HIDE DEF d
  <2>6. /\ d.mode # "none" /\ d.connects = c.connects
        /\ d.reports = c.reports /\ d.timers = c.timers /\ d.observed = c.observed
        /\ d.starts = c.starts
    BY <2>2, <2>3, <2>5 DEF GoesOn
  <2>7. Unused(d) /\ Entering(d) = 0 /\ Armed(d) \in {0, 1}
    BY <1>1, <2>5, <2>6 DEF Unused, Entering, Armed
  <2>8. Armed(d) + Entering(d) <= Armed(c) + Entering(c)
    BY <1>1, <2>7
  <2>. QED  BY <1>1, <1>3, <2>5, <2>6, <2>7, <2>8, EnterGood DEF c
<1>. QED  BY <1>2, <1>3 DEF ConnectGroup

LEMMA ConnectGroupEndsGood ==
  ASSUME Inv, AllGood, NEW i \in DOMAIN calls, ConnectGroupEnds(i)
  PROVE  AllGood'
<1>. DEFINE c == calls[i]
<1>1. /\ c \in Call /\ Unused(c) /\ c.phase = "half" /\ Entering(c) = 0
      /\ Armed(c) \in Nat /\ c.mode # "none"
  BY CallsAre, UnusedOfCall DEF ConnectGroupEnds, Unused, Entering, Armed
<1>2. CASE SetConnectionObserver(i, c)
  <2>1. Armed(c) <= Armed(c) + Entering(c)
    BY <1>1
  <2>. QED  BY <1>1, <1>2, <2>1, SetConnectionObserverGood
<1>3. CASE LeaveConnect(i, c)
  <2>. DEFINE f == [c EXCEPT !.phase = "no"]
  <2>1. calls' = [calls EXCEPT ![i] = f] /\ updates' = updates
    BY <1>3 DEF LeaveConnect
  <2>. HIDE DEF c
  <2>2. /\ f \in Call /\ f.connects = c.connects /\ f.reports = c.reports
        /\ f.timers = c.timers /\ f.observed = c.observed /\ f.starts = c.starts
        /\ Unused(f) /\ Armed(f) = Armed(c) /\ Entering(f) = 0
    BY <1>1 DEF Call, Unused, Armed, Entering
  <2>. HIDE DEF f
  <2>3. Armed(f) + Entering(f) <= Armed(c) + Entering(c)
    BY <1>1, <2>2
  <2>. QED  BY <1>1, <2>1, <2>2, <2>3, EnterGood DEF c
<1>. QED  BY <1>2, <1>3 DEF ConnectGroupEnds

\* A call is stopped: whoever told of it is told no more.
LEMMA StoppedGood ==
  ASSUME NEW T, NEW q \in Seq(T), NEW c \in Call, NEW i, Good(c, q, i)
  PROVE  Good(Stopped(c), q, i)
<1>. DEFINE d == Stopped(c)
<1>1. d \in Call
  BY StoppedType
<1>2. /\ Calmer(c, d) /\ d.starts = c.starts /\ d.reports = c.reports
      /\ d.connects = c.connects
      /\ Armed(d) = Armed(c) /\ Entering(d) = Entering(c)
  BY DEF Stopped, Calmer, Armed, Entering, Call
<1>3. Unused(d)
  <2>1. Unused(c)
    BY DEF Good, Within, Entitled
  <2>. QED  BY <2>1 DEF Stopped, Unused, Call
<1>4. Armed(d) + Entering(d) + c.connects <= Armed(c) + Entering(c) + d.connects
  BY <1>2 DEF Armed, Entering, Call
<1>. HIDE DEF d
<1>5. Within(d, q, i)
  BY <1>1, <1>2, <1>3, <1>4, WithinSame DEF Good
<1>6. Story(d, q, i)
  BY <1>2, CalmerStory DEF Good
<1>. QED  BY <1>5, <1>6 DEF Good, d

LEMMA StopOneGood ==
  ASSUME Inv, AllGood, NEW i \in DOMAIN calls,
         calls' = [calls EXCEPT ![i] = Stopped(@)], updates' = updates
  PROVE  AllGood'
<1>1. Good(Stopped(calls[i]), updates, i)
  <2>1. calls[i] \in Call /\ Good(calls[i], updates, i) /\ updates \in Seq(Tasks(Len(calls)))
    BY CallsAre DEF AllGood, Inv
  <2>. QED  BY <2>1, StoppedGood
<1>2. Moved(updates, updates', i, Tasks(Len(calls)))
  BY DEF Moved
<1>. QED  BY <1>1, <1>2, OneCallGood

-----------------------------------------------------------------------------
(* What is posted and told.                                                 *)

\* A queue without a task counts none of it.
LEMMA CountNone ==
  ASSUME NEW s, NEW x, \A k \in DOMAIN s : s[k] # x
  PROVE  Count(s, {x}) = 0
<1>1. {k \in DOMAIN s : s[k] \in {x}} = {}
  OBVIOUS
<1>. QED  BY <1>1, FS_EmptySet DEF Count

\* The counts of a call that exists are numbers.
LEMMA CountsAre ==
  ASSUME NEW c \in Call, NEW T, NEW q \in Seq(T), NEW i
  PROVE  /\ Count(q, {NewsTask(i)}) \in Nat
         /\ Count(q, {NotifyTask(i, "Connected")}) \in Nat
         /\ Count(c.reports, {"Connected"}) \in Nat
         /\ c.starts \in Nat /\ c.connects \in Nat
         /\ Armed(c) \in Nat /\ Entering(c) \in Nat
<1>1. c.reports \in Seq(Final \cup {"Connecting", "Connected"})
  BY DEF Call
<1>2. c.starts \in Nat /\ c.connects \in Nat /\ Armed(c) \in Nat /\ Entering(c) \in Nat
  BY DEF Call, Armed, Entering
<1>3. Count(c.reports, {"Connected"}) \in Nat
  BY <1>1, CountType
<1>. QED  BY <1>2, <1>3, CountType

LEMMA RunNoticeGood ==
  ASSUME Inv, AllGood, NEW i \in DOMAIN calls, RunNotice(i)
  PROVE  AllGood'
<1>. DEFINE c == calls[i]
            T == Tasks(Len(calls))
            state == IF Head(c.notices) = "now" THEN StateNow(c) ELSE Head(c.notices)
            already == c.already \/ state = "Connected"
            d == [c EXCEPT !.notices = Tail(@), !.current = state, !.already = already]
            x == [task |-> "observe", call |-> i, state |-> state, was |-> c.already]
<1>1. /\ c \in Call /\ Unused(c) /\ c.mode # "none" /\ c.already \in BOOLEAN
      /\ c.notices \in Seq({"now", "Connecting", "Connected"})
      /\ Good(c, updates, i) /\ updates \in Seq(T)
  <2>1. c \in Call /\ Unused(c) /\ Good(c, updates, i) /\ updates \in Seq(T)
    BY CallsAre, UnusedOfCall DEF AllGood, Inv
  <2>2. c.notices # <<>>
    BY DEF RunNotice
  <2>. QED  BY <2>1, <2>2 DEF Unused, Call
<1>2. /\ Head(c.notices) \in {"now", "Connecting", "Connected"}
      /\ Tail(c.notices) \in Seq({"now", "Connecting", "Connected"})
  BY <1>1 DEF RunNotice
<1>3. state \in {"Connecting", "Connected", "Failed"} /\ already \in BOOLEAN
  BY <1>2 DEF StateNow
<1>4. /\ calls' = [calls EXCEPT ![i] = d]
      /\ updates' = updates \/ (c.observed /\ updates' = Append(updates, x))
  BY DEF RunNotice
<1>5. x \in T
  BY <1>1, <1>3, CallsAre DEF Tasks, States, Final
<1>6. already <=> c.already \/ state = "Connected"
  OBVIOUS
<1>. HIDE DEF state, already, c
<1>7. /\ d \in Call /\ d.mode = c.mode /\ d.phase = c.phase /\ d.connects = c.connects
      /\ d.starts = c.starts /\ d.reports = c.reports /\ d.already = already
      /\ d.listener = c.listener /\ d.observed = c.observed /\ d.timers = c.timers
  <2>1. d \in Call
    <3>1. c \in Call
      BY <1>1
    <3>. QED  BY <1>2, <1>3, <3>1 DEF Call
  <2>. QED  BY <1>1, <2>1 DEF Call
<1>8. /\ Tells(x, i) = FALSE /\ Watches(x, i) /\ x.state = state /\ Mine(x, i)
      /\ x = NewsTask(i) => state = "Connected" /\ ~ c.already
      /\ x # NotifyTask(i, "Connected")
  BY <1>1 DEF Tells, Watches, Mine, NewsTask, NotifyTask
<1>. HIDE DEF d, x
<1>9. Unused(d) /\ Calmer(c, d) /\ Entering(d) = Entering(c)
  BY <1>1, <1>6, <1>7 DEF Unused, Calmer, Entering
<1>10. /\ Armed(d) <= Armed(c)
       /\ state = "Connected" /\ ~ c.already => Armed(d) = 0 /\ Armed(c) = 1
  BY <1>1, <1>6, <1>7 DEF Armed
<1>11. Within(d, updates, i)
  <2>1. Armed(d) + Entering(d) + c.connects <= Armed(c) + Entering(c) + d.connects
    <3>1. Armed(d) \in Nat /\ Armed(c) \in Nat /\ Entering(c) \in Nat /\ c.connects \in Nat
      BY <1>1, <1>7, CountsAre
    <3>. QED  BY <1>7, <1>9, <1>10, <3>1
  <2>. QED  BY <1>1, <1>7, <1>9, <2>1, WithinSame DEF Good
<1>12. Story(d, updates, i)
  BY <1>1, <1>9, CalmerStory DEF Good
<1>13. CASE updates' = updates
  <2>1. Good(d, updates', i) /\ Moved(updates, updates', i, T)
    BY <1>11, <1>12, <1>13 DEF Good, Moved
  <2>. QED  BY <1>4, <2>1, OneCallGood DEF T
<1>14. CASE c.observed /\ updates' = Append(updates, x)
  <2>1. Story(d, Append(updates, x), i)
    <3>1. ~ Quiet(d, updates, i)
      BY <1>7, <1>14 DEF Quiet
    <3>2. Lively(d, updates, i)
      BY <1>12, <3>1, LivelyStory
    <3>. QED  BY <1>1, <1>5, <1>6, <1>7, <1>8, <1>12, <3>2, AppendStory
  <2>2. Within(d, Append(updates, x), i)
    <3>1. CASE x # NewsTask(i)
      BY <1>1, <1>5, <1>8, <1>11, <3>1, WithinAppend
    <3>2. CASE x = NewsTask(i)
      <4>. DEFINE n == Count(updates, {NewsTask(i)})
                  t == Count(updates, {NotifyTask(i, "Connected")})
                  m == Count(Append(updates, x), {NewsTask(i)})
                  u == Count(Append(updates, x), {NotifyTask(i, "Connected")})
      <4>1. m = n + (IF x \in {NewsTask(i)} THEN 1 ELSE 0)
        BY <1>1, <1>5, CountAppend
      <4>2. u = t + (IF x \in {NotifyTask(i, "Connected")} THEN 1 ELSE 0)
        BY <1>1, <1>5, CountAppend
      <4>3. Entitled(c, n, t)
        BY <1>1 DEF Good, Within
      <4>4. n \in Nat /\ t \in Nat /\ c.starts \in Nat /\ c.connects \in Nat
            /\ Entering(c) \in Nat
        BY <1>1, CountsAre
      <4>. HIDE DEF n, t, m, u
      <4>5. m = n + 1 /\ u = t
        BY <1>8, <3>2, <4>1, <4>2, <4>4
      <4>6. Armed(d) = 0 /\ Armed(c) = 1
        BY <1>8, <1>10, <3>2
      <4>7. d.starts + m + Armed(d) + Entering(d) <= d.connects
        <5>1. c.starts + n + 1 + Entering(c) <= c.connects
          BY <4>3, <4>6 DEF Entitled
        <5>. QED  BY <1>7, <1>9, <4>4, <4>5, <4>6, <5>1
      <4>8. Count(d.reports, {"Connected"}) + u <= d.starts
        BY <1>7, <4>3, <4>5 DEF Entitled
      <4>9. Entitled(d, m, u)
        BY <1>9, <4>7, <4>8 DEF Entitled
      <4>. QED  BY <4>9 DEF Within, m, u
    <3>. QED  BY <3>1, <3>2
  <2>3. Good(d, updates', i)
    BY <1>14, <2>1, <2>2 DEF Good
  <2>4. Moved(updates, updates', i, T)
    BY <1>5, <1>8, <1>14 DEF Moved
  <2>. QED  BY <1>4, <2>3, <2>4, OneCallGood DEF T
<1>. QED  BY <1>4, <1>13, <1>14

LEMMA TimerGood ==
  ASSUME Inv, AllGood, NEW i \in DOMAIN calls, Timer(i)
  PROVE  AllGood'
<1>. DEFINE c == calls[i]
            T == Tasks(Len(calls))
            d == [c EXCEPT !.timers = @ - 1]
            x == NotifyTask(i, "Timeout")
<1>1. /\ c \in Call /\ Unused(c) /\ c.timers \in Nat /\ c.timers > 0
      /\ Good(c, updates, i) /\ updates \in Seq(T)
  <2>1. c \in Call /\ Unused(c) /\ Good(c, updates, i) /\ updates \in Seq(T)
    BY CallsAre, UnusedOfCall DEF AllGood, Inv
  <2>. QED  BY <2>1 DEF Timer, Call
<1>2. /\ calls' = [calls EXCEPT ![i] = d]
      /\ updates' = updates
           \/ (c.listener /\ ~ c.already /\ updates' = Append(updates, x))
  BY DEF Timer, Tell, NotifyTask
<1>3. x \in T /\ Mine(x, i) /\ Tells(x, i) /\ x.state = "Timeout"
      /\ x # NewsTask(i) /\ x # NotifyTask(i, "Connected")
  BY CallsAre DEF Tasks, NotifyTask, NewsTask, States, Final, Mine, Tells
<1>4. c.timers - 1 \in Nat
  BY <1>1
<1>. HIDE DEF c, x
<1>5. /\ d \in Call /\ d.mode = c.mode /\ d.phase = c.phase /\ d.connects = c.connects
      /\ d.starts = c.starts /\ d.reports = c.reports /\ d.already = c.already
      /\ d.listener = c.listener /\ d.observed = c.observed
      /\ Unused(d)
  BY <1>1, <1>4 DEF Call, Unused
<1>. HIDE DEF d
<1>6. Calmer(c, d) /\ Armed(d) = Armed(c) /\ Entering(d) = Entering(c)
  BY <1>1, <1>5 DEF Calmer, Armed, Entering
<1>7. Within(d, updates, i)
  <2>1. Armed(d) + Entering(d) + c.connects <= Armed(c) + Entering(c) + d.connects
    <3>1. Armed(c) \in Nat /\ Entering(c) \in Nat /\ c.connects \in Nat
      BY <1>1, CountsAre
    <3>. QED  BY <1>5, <1>6, <3>1
  <2>. QED  BY <1>1, <1>5, <2>1, WithinSame DEF Good
<1>8. Story(d, updates, i)
  BY <1>1, <1>6, CalmerStory DEF Good
<1>9. CASE updates' = updates
  <2>1. Good(d, updates', i) /\ Moved(updates, updates', i, T)
    BY <1>7, <1>8, <1>9 DEF Good, Moved
  <2>. QED  BY <1>2, <2>1, OneCallGood DEF T
<1>10. CASE c.listener /\ ~ c.already /\ updates' = Append(updates, x)
  <2>1. Lively(d, updates, i)
    <3>1. ~ Quiet(c, updates, i)
      BY <1>1 DEF Quiet
    <3>2. Lively(c, updates, i)
      BY <1>1, <3>1, LivelyStory DEF Good
    <3>. QED  BY <1>5, <3>2 DEF Lively, Begun
  <2>2. Story(d, Append(updates, x), i)
    BY <1>1, <1>3, <1>5, <1>8, <1>10, <2>1, TellStory
  <2>3. Within(d, Append(updates, x), i)
    BY <1>1, <1>3, <1>7, WithinAppend
  <2>4. Good(d, updates', i)
    BY <1>10, <2>2, <2>3 DEF Good
  <2>5. Moved(updates, updates', i, T)
    BY <1>3, <1>10 DEF Moved
  <2>. QED  BY <1>2, <2>4, <2>5, OneCallGood DEF T
<1>. QED  BY <1>2, <1>9, <1>10

\* The first task is looked at, and nothing comes of it.
LEMMA SkipGood ==
  ASSUME Inv, AllGood, NEW i \in DOMAIN calls, updates # <<>>, ~ Tells(Head(updates), i),
         Mine(Head(updates), i), updates' = Tail(updates), calls' = calls
  PROVE  AllGood'
<1>1. calls[i] \in Call /\ Good(calls[i], updates, i) /\ updates \in Seq(Tasks(Len(calls)))
  BY CallsAre DEF AllGood, Inv
<1>2. Good(calls[i], updates', i)
  BY <1>1, GoodTail
<1>3. Moved(updates, updates', i, Tasks(Len(calls)))
  BY DEF Moved
<1>4. calls' = [calls EXCEPT ![i] = calls[i]]
  BY DEF Inv, TypeOK
<1>. QED  BY <1>2, <1>3, <1>4, OneCallGood

LEMMA ObserveGood ==
  ASSUME Inv, AllGood, Observe
  PROVE  AllGood'
<1>. DEFINE h == Head(updates)
            i == h.call
            state == h.state
            news == state = "Connected" /\ ~ h.was
            c == calls[i]
            T == Tasks(Len(calls))
            q == Tail(updates)
            d == [c EXCEPT !.observed = @ /\ news, !.starts = IF news THEN @ + 1 ELSE @]
            x == NotifyTask(i, state)
<1>1. /\ i \in DOMAIN calls /\ state \in States /\ updates # <<>>
      /\ h \in T /\ h.task = "observe"
  BY HeadOfUpdates DEF Observe
<1>2. ~ Tells(h, i) /\ Watches(h, i) /\ Mine(h, i)
  BY <1>1 DEF Tells, Watches, Mine
<1>3. CASE ThenPost(updates) /\ UNCHANGED calls
  <2>1. updates' = Tail(updates) /\ calls' = calls
    BY <1>3 DEF ThenPost
  <2>. QED  BY <1>1, <1>2, <2>1, SkipGood
<1>4. CASE /\ state = "Failed" \/ news
           /\ calls' = [calls EXCEPT ![i].observed = @ /\ news,
                                     ![i].starts = IF news THEN @ + 1 ELSE @]
           /\ ThenPost(Tell(i, state))
  <2>1. calls' = [calls EXCEPT ![i] = d]
    BY <1>1, <1>4
  <2>2. /\ c \in Call /\ Unused(c) /\ Good(c, updates, i) /\ updates \in Seq(T)
        /\ q \in Seq(T)
    BY <1>1, CallsAre, UnusedOfCall DEF AllGood, Inv
  <2>3. updates' = IF c.listener THEN Append(q, x) ELSE q
    <3>1. updates' = Tail(Tell(i, state))
      BY <1>4 DEF ThenPost
    <3>2. x \in T
      BY <1>1, CallsAre DEF Tasks, NotifyTask
    <3>3. Tail(Append(updates, x)) = Append(Tail(updates), x)
      <4>. HIDE DEF x, T
      <4>. QED  BY <1>1, <2>2, <3>2
    <3>. QED  BY <3>1, <3>3 DEF Tell, NotifyTask
  <2>4. /\ x \in T /\ Mine(x, i) /\ Tells(x, i) /\ x.state = state /\ x # NewsTask(i)
        /\ x = NotifyTask(i, "Connected") => state = "Connected"
    BY <1>1, CallsAre DEF Tasks, NotifyTask, NewsTask, Mine, Tells
  <2>5. (news <=> h = NewsTask(i)) /\ (h # NotifyTask(i, "Connected"))
        /\ (state = "Failed" => ~ news) /\ state # "Timeout"  /\ state # "Connecting"
    BY <1>1, <1>4 DEF Tasks, NewsTask, NotifyTask
  <2>6. c.starts \in Nat /\ c.observed \in BOOLEAN
    BY <2>2 DEF Call
  <2>. HIDE DEF c, x, i, T, q
  <2>7. /\ d \in Call /\ d.mode = c.mode /\ d.phase = c.phase /\ d.connects = c.connects
        /\ d.reports = c.reports /\ d.already = c.already /\ d.timers = c.timers
        /\ d.listener = c.listener /\ (d.observed => c.observed)
        /\ d.starts = IF news THEN c.starts + 1 ELSE c.starts
    <3>1. (IF news THEN c.starts + 1 ELSE c.starts) \in Nat /\ (c.observed /\ news) \in BOOLEAN
      BY <2>6
    <3>2. c \in Call
      BY <2>2
    <3>. HIDE DEF news
    <3>. QED  BY <3>1, <3>2 DEF Call
  <2>8. Unused(d)
    BY <2>2 DEF Unused, Call
  <2>. HIDE DEF news, d
  <2>9. Story(d, q, i) /\ Lively(d, q, i)
    <3>1. ~ Quiet(c, updates, i)
      <4>1. 1 \in DOMAIN updates /\ updates[1] = h
        BY <1>1, <2>2
      <4>. QED  BY <1>2, <4>1 DEF Quiet
    <3>2. Story(c, q, i) /\ Lively(c, q, i)
      <4>1. Lively(c, updates, i)
        BY <2>2, <3>1, LivelyStory DEF Good
      <4>. QED  BY <1>1, <1>2, <2>2, <4>1, TailStory DEF Good, q
    <3>3. Calmer(c, d)
      BY <2>7 DEF Calmer
    <3>4. Story(d, q, i)
      BY <3>2, <3>3, CalmerStory
    <3>. QED  BY <2>7, <3>2, <3>4 DEF Lively, Begun
  <2>10. Story(d, updates', i)
    <3>1. c.connects = 1 /\ state = "Connected" => c.already
      <4>1. 1 \in DOMAIN updates /\ updates[1] = h
        BY <1>1, <2>2
      <4>. QED  BY <1>2, <2>2, <4>1 DEF Good, Story, Known
    <3>2. Story(d, Append(q, x), i) \/ ~ c.listener
      BY <2>2, <2>4, <2>5, <2>7, <2>9, <3>1, TellStory
    <3>. QED  BY <2>3, <2>9, <3>2
  <2>11. Within(d, updates', i)
    <3>. DEFINE n == Count(updates, {NewsTask(i)})
                t == Count(updates, {NotifyTask(i, "Connected")})
                m == Count(q, {NewsTask(i)})
                u == Count(q, {NotifyTask(i, "Connected")})
                w == Count(Append(q, x), {NotifyTask(i, "Connected")})
                v == Count(Append(q, x), {NewsTask(i)})
                r == Count(c.reports, {"Connected"})
    <3>1. n = m + (IF h \in {NewsTask(i)} THEN 1 ELSE 0)
      BY <1>1, <2>2, CountTail DEF q
    <3>2. t = u + (IF h \in {NotifyTask(i, "Connected")} THEN 1 ELSE 0)
      BY <1>1, <2>2, CountTail DEF q
    <3>3. w = u + (IF x \in {NotifyTask(i, "Connected")} THEN 1 ELSE 0)
      BY <2>2, <2>4, CountAppend
    <3>4. v = m + (IF x \in {NewsTask(i)} THEN 1 ELSE 0)
      BY <2>2, <2>4, CountAppend
    <3>5. n \in Nat /\ t \in Nat /\ c.starts \in Nat /\ c.connects \in Nat
          /\ Entering(c) \in Nat /\ Armed(c) \in Nat /\ r \in Nat
      BY <2>2, CountsAre
    <3>6. m \in Nat /\ u \in Nat
      BY <2>2, CountsAre
    <3>7. Entitled(c, n, t)
      BY <2>2 DEF Good, Within
    <3>8. Entering(d) = Entering(c) /\ Armed(d) = Armed(c)
      BY <2>7 DEF Entering, Armed
    <3>. HIDE DEF n, t, m, u, w, v, r, h
    <3>9. /\ u = t /\ v = m
          /\ IF news THEN n = m + 1 ELSE n = m
          /\ w <= u + 1 /\ w \in Nat
          /\ state # "Connected" => w = u
      BY <2>4, <2>5, <3>1, <3>2, <3>3, <3>4, <3>6
    <3>10. /\ c.starts + n + Armed(c) + Entering(c) <= c.connects /\ r + t <= c.starts
      BY <3>7 DEF Entitled, r
    <3>11. d.starts + m + Armed(d) + Entering(d) <= d.connects
      <4>1. d.starts + m = c.starts + n /\ d.connects = c.connects
        BY <2>7, <3>5, <3>6, <3>9
      <4>2. d.starts \in Nat
        BY <2>7 DEF Call
      <4>. QED  BY <3>5, <3>6, <3>8, <3>10, <4>1, <4>2
    <3>12. r + u <= d.starts /\ (state = "Failed" \/ news) /\ (news => r + u + 1 <= d.starts)
      <4>1. IF news THEN d.starts = c.starts + 1 ELSE d.starts = c.starts
        BY <2>7
      <4>. QED  BY <1>4, <3>5, <3>6, <3>9, <3>10, <4>1
    <3>13. Count(d.reports, {"Connected"}) = r
      BY <2>7 DEF r
    <3>14. Entitled(d, m, u)
      BY <2>8, <3>11, <3>12, <3>13 DEF Entitled
    <3>15. Entitled(d, v, w)
      <4>1. r + w <= d.starts
        <5>1. d.starts \in Nat
          BY <2>7 DEF Call
        <5>. QED  BY <3>5, <3>6, <3>9, <3>12, <5>1
      <4>. QED  BY <2>8, <3>9, <3>11, <3>13, <4>1 DEF Entitled
    <3>. QED  BY <2>3, <3>14, <3>15 DEF Within, m, u, v, w
  <2>12. Good(d, updates', i)
    BY <2>10, <2>11 DEF Good
  <2>13. Moved(updates, updates', i, T)
    BY <1>1, <1>2, <2>3, <2>4 DEF Moved, q
  <2>. QED  BY <1>1, <2>1, <2>12, <2>13, OneCallGood DEF T, i
<1>. QED  BY <1>3, <1>4 DEF Observe

LEMMA NotifyGood ==
  ASSUME Inv, AllGood, Notify
  PROVE  AllGood'
<1>. DEFINE h == Head(updates)
            i == h.call
            state == h.state
            c == calls[i]
            T == Tasks(Len(calls))
            q == Tail(updates)
            d == [c EXCEPT !.reports = Append(@, state)]
            x == [task |-> "remove", chat |-> c.chat]
<1>1. /\ i \in DOMAIN calls /\ state \in States /\ updates # <<>>
      /\ h \in T /\ h.task = "notify"
  BY HeadOfUpdates DEF Notify
<1>2. Tells(h, i) /\ Mine(h, i) /\ h # NewsTask(i)
      /\ (h = NotifyTask(i, "Connected") <=> state = "Connected")
  BY <1>1 DEF Tells, Mine, NewsTask, NotifyTask, Tasks
<1>3. /\ c \in Call /\ c.chat \in Chats /\ Unused(c) /\ Good(c, updates, i)
      /\ updates \in Seq(T) /\ q \in Seq(T)
  BY <1>1, CallsAre, UnusedOfCall DEF AllGood, Inv
<1>4. calls' = [calls EXCEPT ![i] = d]
  BY <1>1 DEF Notify
<1>5. x \in T /\ Mine(x, i) /\ x.task = "remove"
  BY <1>3 DEF Tasks, Mine
<1>6. updates' = q \/ updates' = Append(q, x)
  <2>1. Tail(Append(updates, x)) = Append(Tail(updates), x)
    <3>. HIDE DEF x, T
    <3>. QED  BY <1>1, <1>3, <1>5
  <2>. QED  BY <2>1 DEF Notify, ThenPost
<1>7. /\ c.reports \in Seq(Final \cup {"Connecting", "Connected"})
      /\ Append(c.reports, state) \in Seq(Final \cup {"Connecting", "Connected"})
  BY <1>1, <1>3 DEF Call, States
<1>. HIDE DEF c, x, i, T, q
<1>8. /\ d \in Call /\ d.mode = c.mode /\ d.phase = c.phase /\ d.connects = c.connects
      /\ d.reports = Append(c.reports, state) /\ d.already = c.already
      /\ d.timers = c.timers /\ d.listener = c.listener /\ d.observed = c.observed
      /\ d.starts = c.starts
  <2>1. c \in Call
    BY <1>3
  <2>. HIDE DEF state
  <2>. QED  BY <1>7, <2>1 DEF Call
<1>9. Unused(d)
  BY <1>3 DEF Unused, Call
<1>. HIDE DEF d
<1>10. Story(d, q, i)
  BY <1>1, <1>2, <1>3, <1>8, NotifyStory DEF Good, q
<1>11. Within(d, q, i)
  <2>. DEFINE n == Count(updates, {NewsTask(i)})
              t == Count(updates, {NotifyTask(i, "Connected")})
              m == Count(q, {NewsTask(i)})
              u == Count(q, {NotifyTask(i, "Connected")})
              r == Count(c.reports, {"Connected"})
              w == Count(d.reports, {"Connected"})
  <2>1. n = m + (IF h \in {NewsTask(i)} THEN 1 ELSE 0)
    BY <1>1, <1>3, CountTail DEF q
  <2>2. t = u + (IF h \in {NotifyTask(i, "Connected")} THEN 1 ELSE 0)
    BY <1>1, <1>3, CountTail DEF q
  <2>3. w = r + (IF state \in {"Connected"} THEN 1 ELSE 0)
    <3>1. /\ c.reports \in Seq(Final \cup {"Connecting", "Connected"})
          /\ state \in Final \cup {"Connecting", "Connected"}
      BY <1>1, <1>7 DEF States
    <3>2. Count(Append(c.reports, state), {"Connected"})
            = r + (IF state \in {"Connected"} THEN 1 ELSE 0)
      BY <3>1, CountAppend
    <3>. QED  BY <1>8, <3>2
  <2>4. n \in Nat /\ t \in Nat /\ c.starts \in Nat /\ r \in Nat
    BY <1>3, CountsAre
  <2>5. m \in Nat /\ u \in Nat
    BY <1>3, CountsAre
  <2>6. Entitled(c, n, t)
    BY <1>3 DEF Good, Within
  <2>7. Entering(d) = Entering(c) /\ Armed(d) = Armed(c)
    BY <1>8 DEF Entering, Armed
  <2>. HIDE DEF n, t, m, u, w, r, h
  <2>8. n = m /\ w + u = r + t
    BY <1>2, <2>1, <2>2, <2>3, <2>4, <2>5
  <2>9. /\ c.starts + n + Armed(c) + Entering(c) <= c.connects /\ r + t <= c.starts
    BY <2>6 DEF Entitled, r
  <2>10. d.starts + m + Armed(d) + Entering(d) <= d.connects /\ w + u <= d.starts
    BY <1>8, <2>7, <2>8, <2>9
  <2>11. Entitled(d, m, u)
    BY <1>9, <2>10 DEF Entitled, w
  <2>. QED  BY <2>11 DEF Within, m, u
<1>12. Good(d, updates', i)
  <2>1. Good(d, q, i)
    BY <1>10, <1>11 DEF Good
  <2>2. Good(d, Append(q, x), i)
    BY <1>3, <1>5, <2>1, GoodAppend
  <2>. QED  BY <1>6, <2>1, <2>2
<1>13. Moved(updates, updates', i, T)
  BY <1>1, <1>2, <1>5, <1>6 DEF Moved, q
<1>. QED  BY <1>1, <1>4, <1>12, <1>13, OneCallGood DEF T, i

LEMMA RemoveGood ==
  ASSUME Inv, AllGood, Remove
  PROVE  AllGood'
<1>1. updates # <<>> /\ Head(updates).task = "remove"
  BY HeadOfUpdates DEF Remove
<1>2. updates' = Tail(updates) /\ calls' = calls
  BY DEF Remove, ThenPost
<1>3. updates \in Seq(Tasks(Len(calls)))
  BY DEF Inv
<1>. SUFFICES ASSUME NEW i \in DOMAIN calls PROVE Good(calls[i], Tail(updates), i)
  BY <1>2 DEF AllGood
<1>4. calls[i] \in Call /\ Good(calls[i], updates, i) /\ ~ Tells(Head(updates), i)
  BY <1>1, CallsAre DEF AllGood, Tells
<1>. QED  BY <1>1, <1>3, <1>4, GoodTail

\* A new call has no tasks.
LEMMA NewCallGood ==
  ASSUME Inv, NEW chat \in Chats, NEW kind \in {"p2p", "group"}, NEW listener \in BOOLEAN
  PROVE  Good(NewCall(chat, kind, listener), updates, Len(calls) + 1)
<1>. DEFINE d == NewCall(chat, kind, listener)
            i == Len(calls) + 1
            T == Tasks(Len(calls))
<1>1. updates \in Seq(T)
  BY DEF Inv
<1>2. ASSUME NEW k \in DOMAIN updates
      PROVE  /\ ~ Tells(updates[k], i) /\ ~ Watches(updates[k], i)
             /\ updates[k] # NewsTask(i) /\ updates[k] # NotifyTask(i, "Connected")
  <2>1. updates[k] \in T
    BY <1>1, <1>2
  <2>2. updates[k].task \in {"observe", "notify"} => updates[k].call # i
    BY <2>1, CallsAre DEF Tasks
  <2>. QED  BY <2>2 DEF Tells, Watches, NewsTask, NotifyTask
<1>3. Quiet(d, updates, i)
  BY <1>2 DEF Quiet, NewCall
<1>4. Story(d, updates, i)
  BY <1>3, QuietStory
<1>5. /\ Count(updates, {NewsTask(i)}) = 0 /\ Count(updates, {NotifyTask(i, "Connected")}) = 0
      /\ Count(d.reports, {"Connected"}) = 0
  <2>1. d.reports = <<>>
    BY DEF NewCall
  <2>. QED  BY <1>2, <2>1, CountNone, CountEmpty
<1>6. /\ Unused(d) /\ Armed(d) = 0 /\ Entering(d) = 0 /\ d.starts = 0 /\ d.connects = 0
  BY DEF NewCall, Unused, Armed, Entering
<1>. HIDE DEF d, i
<1>7. Entitled(d, 0, 0)
  BY <1>5, <1>6 DEF Entitled
<1>8. Within(d, updates, i)
  BY <1>5, <1>7 DEF Within
<1>. QED  BY <1>4, <1>8 DEF Good, d, i

LEMMA AddGood ==
  ASSUME Inv, NEW cs \in Seq(Call), Len(cs) = Len(calls), NEW d,
         \A j \in DOMAIN calls : Good(cs[j], updates, j),
         Good(d, updates, Len(calls) + 1),
         calls' = Append(cs, d), updates' = updates
  PROVE  AllGood'
<1>1. Len(calls) \in Nat /\ DOMAIN calls = 1 .. Len(calls) /\ DOMAIN cs = 1 .. Len(calls)
  BY CallsAre
<1>2. /\ DOMAIN calls' = 1 .. Len(calls) + 1
      /\ calls'[Len(calls) + 1] = d
      /\ \A j \in 1 .. Len(calls) : calls'[j] = cs[j]
  BY <1>1
<1>3. \A j \in DOMAIN calls' : j \in DOMAIN calls \/ j = Len(calls) + 1
  BY <1>1, <1>2
<1>. QED  BY <1>1, <1>2, <1>3 DEF AllGood

LEMMA CreateCallGood ==
  ASSUME Inv, AllGood, NEW chat \in Chats, NEW kind \in Kinds, CreateCall(chat, kind)
  PROVE  AllGood'
<1>. DEFINE d == NewCall(chat, kind, TRUE)
<1>1. kind \in {"p2p", "group"} /\ TRUE \in BOOLEAN
  BY CallAssumption
<1>2. Good(d, updates, Len(calls) + 1)
  BY <1>1, NewCallGood
<1>3. calls' = Append(calls, d) /\ updates' = updates /\ calls \in Seq(Call)
  BY DEF CreateCall, Inv, TypeOK
<1>4. \A j \in DOMAIN calls : Good(calls[j], updates, j)
  BY DEF AllGood
<1>. HIDE DEF d
<1>. QED  BY <1>2, <1>3, <1>4, AddGood

LEMMA InitConferenceGood ==
  ASSUME Inv, AllGood, NEW chat \in Chats, NEW succeeds \in BOOLEAN,
         InitConference(chat, succeeds)
  PROVE  AllGood'
<1>. DEFINE i == connections[chat]
            d == NewCall(chat, "group", succeeds)
            cs == [calls EXCEPT ![i] = Stopped(@)]
<1>1. Good(d, updates, Len(calls) + 1)
  BY NewCallGood
<1>2. i \in DOMAIN calls
  BY OneChat DEF InitConference
<1>3. Stopped(calls[i]) \in Call
  BY <1>2, CallsAre, StoppedType
<1>4. cs \in Seq(Call) /\ Len(cs) = Len(calls)
  BY <1>2, <1>3, ExceptSeq DEF Inv, TypeOK
<1>5. ASSUME NEW j \in DOMAIN calls PROVE Good(cs[j], updates, j)
  <2>1. calls[j] \in Call /\ Good(calls[j], updates, j) /\ updates \in Seq(Tasks(Len(calls)))
    BY CallsAre DEF AllGood, Inv
  <2>2. Good(Stopped(calls[j]), updates, j)
    BY <2>1, StoppedGood
  <2>3. cs[j] = IF j = i THEN Stopped(calls[j]) ELSE calls[j]
    BY DEF Inv, TypeOK
  <2>. HIDE DEF cs
  <2>. QED  BY <2>1, <2>2, <2>3
<1>6. calls' = Append(cs, d) /\ updates' = updates
  BY DEF InitConference
<1>. HIDE DEF cs, d
<1>. QED  BY <1>1, <1>4, <1>5, <1>6, AddGood

-----------------------------------------------------------------------------
(* What the application is told, in every behaviour.                        *)

LEMMA NextGood ==
  ASSUME Inv, AllGood, [Next]_vars
  PROVE  AllGood'
<1>1. CASE \E chat \in Chats :
             \/ \E kind \in Kinds : CreateCall(chat, kind)
             \/ \E succeeds \in BOOLEAN : InitConference(chat, succeeds)
             \/ FetchToConnect(chat)
  BY <1>1, CreateCallGood, InitConferenceGood, FetchGood
<1>2. CASE (\E chat \in Chats : Stop(chat) \/ StopMissing(chat)) \/ StopConnections
           \/ UNCHANGED vars
  BY <1>2 DEF Stop, StopMissing, StopConnections, vars, AllGood
<1>3. CASE \E i \in DOMAIN calls :
             \/ ConnectP2P(i) \/ (\E mode \in Modes : ConnectGroup(i, mode))
             \/ ConnectGroupEnds(i)
  BY <1>3, ConnectP2PGood, ConnectGroupGood, ConnectGroupEndsGood
<1>4. CASE \E i \in DOMAIN calls :
             \/ TransportChanges(i) \/ RouteChanges(i) \/ StreamConnected(i)
             \/ CheckConnectionTimeout(i) \/ RunNotice(i) \/ Timer(i)
  BY <1>4, TransportChangesGoesOn, RouteChangesGoesOn, StreamConnectedGoesOn,
     CheckConnectionTimeoutGoesOn, GoesOnStepGood, RunNoticeGood, TimerGood
<1>5. CASE \E i \in DOMAIN calls : StopEnds(i)
  BY <1>5, StopOneGood DEF StopEnds
<1>6. CASE RemoveEnds
  <2>1. busy \in DOMAIN calls
    BY <1>6, CallsAre DEF RemoveEnds, Inv, TypeOK
  <2>. QED  BY <1>6, <2>1, StopOneGood DEF RemoveEnds
<1>7. CASE Observe \/ Notify \/ Remove
  BY <1>7, ObserveGood, NotifyGood, RemoveGood
<1>. QED  BY <1>1, <1>2, <1>3, <1>4, <1>5, <1>6, <1>7 DEF Next

LEMMA GoodInvariance == Spec => [](Inv /\ AllGood)
<1>1. Init => AllGood
  BY DEF Init, AllGood
<1>2. Inv /\ AllGood /\ [Next]_vars => AllGood'
  BY NextGood
<1>. QED  BY <1>1, <1>2, InitInv, NextInv, PTL DEF Spec

\* The streams of a call start at most once for each connect, and the application is
\* told of a connection at most as often as they started (the observer that
\* CallInterface::set_connection_observer sets, and already_connected_).
THEOREM StartedOnce == Spec => []StartsOnce
<1>1. Inv /\ AllGood => StartsOnce
  <2>. SUFFICES ASSUME Inv, AllGood, NEW i \in DOMAIN calls
                PROVE  /\ calls[i].starts <= calls[i].connects
                       /\ Cardinality(Told(calls[i].reports, "Connected")) <= calls[i].starts
    BY DEF StartsOnce
  <2>. DEFINE c == calls[i]
              n == Count(updates, {NewsTask(i)})
              t == Count(updates, {NotifyTask(i, "Connected")})
              r == Count(c.reports, {"Connected"})
  <2>1. c \in Call /\ updates \in Seq(Tasks(Len(calls))) /\ Entitled(c, n, t)
    BY CallsAre DEF AllGood, Good, Within, Inv
  <2>2. /\ n \in Nat /\ t \in Nat /\ r \in Nat /\ c.starts \in Nat /\ c.connects \in Nat
        /\ Armed(c) \in Nat /\ Entering(c) \in Nat
    BY <2>1, CountsAre
  <2>3. Told(c.reports, "Connected") = {k \in DOMAIN c.reports : c.reports[k] \in {"Connected"}}
    BY DEF Told
  <2>4. Cardinality(Told(c.reports, "Connected")) = r
    BY <2>3 DEF Count
  <2>5. c.starts + n + Armed(c) + Entering(c) <= c.connects /\ r + t <= c.starts
    BY <2>1 DEF Entitled
  <2>. HIDE DEF c, n, t, r
  <2>6. c.starts <= c.connects /\ r <= c.starts
    BY <2>2, <2>5
  <2>. QED  BY <2>4, <2>6 DEF c
<1>. QED  BY <1>1, GoodInvariance, PTL

\* Of a call that it connects once, the application is told first that it connects,
\* at most once that it is connected, and of no timeout after that.
THEOREM ToldInOrder == Spec => []ReportsInOrder
<1>1. Inv /\ AllGood => ReportsInOrder
  <2>. SUFFICES ASSUME Inv, AllGood, NEW i \in DOMAIN calls, calls[i].connects = 1
                PROVE  LET reports == calls[i].reports
                       IN  /\ \A k \in DOMAIN reports : k > 1 <=> reports[k] # "Connecting"
                           /\ \A j, k \in Told(reports, "Connected") : j = k
                           /\ \A j \in Told(reports, "Connected"),
                                 k \in Told(reports, "Timeout") : k < j
    BY DEF ReportsInOrder
  <2>. DEFINE c == calls[i]
              n == Count(updates, {NewsTask(i)})
              t == Count(updates, {NotifyTask(i, "Connected")})
              r == Count(c.reports, {"Connected"})
  <2>1. c \in Call /\ updates \in Seq(Tasks(Len(calls))) /\ Entitled(c, n, t)
        /\ Story(c, updates, i) /\ c.connects = 1
    BY CallsAre DEF AllGood, Good, Within, Inv
  <2>2. /\ n \in Nat /\ t \in Nat /\ r \in Nat /\ c.starts \in Nat
        /\ Armed(c) \in Nat /\ Entering(c) \in Nat
    BY <2>1, CountsAre
  <2>3. c.starts + n + Armed(c) + Entering(c) <= 1 /\ r + t <= c.starts
    BY <2>1 DEF Entitled
  <2>4. c.reports \in Seq(Final \cup {"Connecting", "Connected"})
    BY <2>1 DEF Call
  <2>. HIDE DEF n, t, c
  <2>5. r <= 1
    <3>. HIDE DEF r
    <3>. QED  BY <2>2, <2>3
  <2>6. ASSUME NEW j \in Told(c.reports, "Connected"), NEW k \in Told(c.reports, "Connected")
        PROVE  j = k
    <3>1. /\ j \in DOMAIN c.reports /\ k \in DOMAIN c.reports
          /\ c.reports[j] \in {"Connected"} /\ c.reports[k] \in {"Connected"}
      BY <2>6 DEF Told
    <3>. QED  BY <2>4, <2>5, <3>1, CountOne
  <2>7. \A k \in DOMAIN c.reports : k > 1 <=> c.reports[k] # "Connecting"
    BY <2>1 DEF Story, FirstOfAll
  <2>8. \A j \in Told(c.reports, "Connected"), k \in Told(c.reports, "Timeout") : k < j
    BY <2>1 DEF Story, TimeoutFirst, Told
  <2>. QED  BY <2>6, <2>7, <2>8 DEF c
<1>. QED  BY <1>1, GoodInvariance, PTL

-----------------------------------------------------------------------------
(* Which call an end is about, and who holds a connection that is open.  An *)
(* end is told of some call of the chat; that it is the call that stays     *)
(* takes an application that leaves a busy chat alone.                      *)

Ended(c) == \E k \in DOMAIN c.reports : c.reports[k] \in Final

Held(i) == i \in stopping \cup {busy}

Registered(i) == connections[calls[i].chat] = i

\* A call without a connection is quiet; only groups connect in two steps.
Unbegun(c, q, i) ==
  /\ c.conn = "none" => c.kind = "p2p" /\ Quiet(c, q, i)
  /\ c.kind = "p2p" => c.phase # "half"

\* A removal that is posted has its cause.
Caused(x) ==
  x.task = "remove" => \E j \in DOMAIN calls : calls[j].chat = x.chat /\ Ended(calls[j])

\* A connection that is open, or about to be, is somebody's.
Owned(i) ==
  /\ calls[i].conn = "none" /\ calls[i].phase # "no" => Registered(i)
  /\ calls[i].conn = "open" => Registered(i) \/ Held(i)

\* While a chat has a call, none of its other calls is in anybody's hands,
Alone(i) ==
  connections[calls[i].chat] \in {0, i} \/ (calls[i].phase = "no" /\ ~ Held(i))

\* and no task is about another call.
Belongs(x) ==
  IF x.task = "remove"
  THEN connections[x.chat] # 0 => Ended(calls[connections[x.chat]])
  ELSE connections[calls[x.call].chat] \in {0, x.call}

Causes ==
  /\ \A i \in DOMAIN calls : Unbegun(calls[i], updates, i)
  /\ \A k \in DOMAIN updates : Caused(updates[k])

Owners ==
  /\ \A i \in DOMAIN calls : Owned(i) /\ Alone(i)
  /\ \A k \in DOMAIN updates : Belongs(updates[k])

OwnersIfCareful == Careful => Owners

\* Every task of the queue p is one of q or in X.
From(q, p, X) == \A k \in DOMAIN p : p[k] \in X \/ \E j \in DOMAIN q : p[k] = q[j]

LEMMA FromSame ==
  ASSUME NEW q
  PROVE  From(q, q, {})
BY DEF From

LEMMA FromAppend ==
  ASSUME NEW T, NEW q \in Seq(T), NEW x \in T
  PROVE  From(q, Append(q, x), {x})
<1>. DEFINE p == Append(q, x)
            n == Len(q)
<1>1. /\ n \in Nat /\ DOMAIN q = 1 .. n /\ DOMAIN p = 1 .. n + 1
      /\ p[n + 1] = x /\ \A k \in 1 .. n : p[k] = q[k]
      /\ \A k \in 1 .. n + 1 : k = n + 1 \/ k \in 1 .. n
  OBVIOUS
<1>. HIDE DEF p, n
<1>. QED  BY <1>1 DEF From, p

LEMMA FromTail ==
  ASSUME NEW T, NEW q \in Seq(T), q # <<>>
  PROVE  From(q, Tail(q), {})
<1>. DEFINE p == Tail(q)
            n == Len(q)
<1>1. /\ n \in Nat /\ DOMAIN q = 1 .. n /\ DOMAIN p = 1 .. n - 1
      /\ \A k \in 1 .. n - 1 : p[k] = q[k + 1] /\ k + 1 \in 1 .. n
  OBVIOUS
<1>. HIDE DEF p, n
<1>. QED  BY <1>1 DEF From, p

LEMMA FromTailAppend ==
  ASSUME NEW T, NEW q \in Seq(T), q # <<>>, NEW x \in T
  PROVE  From(q, Append(Tail(q), x), {x})
<1>1. Tail(q) \in Seq(T)
  OBVIOUS
<1>2. From(Tail(q), Append(Tail(q), x), {x}) /\ From(q, Tail(q), {})
  BY <1>1, FromAppend, FromTail
<1>. QED  BY <1>2 DEF From

\* What a step may do to a call that nobody takes out or stops: its connection opens
\* in a connect, and its reports grow.
Onward(c, d, registered) ==
  /\ d \in Call
  /\ d.chat = c.chat /\ d.kind = c.kind
  /\ Ended(c) => Ended(d)
  /\ d.phase # "no" => c.phase # "no" \/ registered
  /\ d.conn = "none" => c.conn = "none"
  /\ d.conn = "open" => c.conn = "open" \/ (c.conn = "none" /\ c.phase # "no")

\* What may be posted by a step of call i, which is then d.
Posted(x, i, d) ==
  IF x.task = "remove"
  THEN /\ x.chat = calls[i].chat /\ Ended(d)
       /\ Careful => connections[x.chat] \in {0, i}
  ELSE x.call = i /\ Alive(i)

\* If the application is careful, a call that something refers to is alone.
LEMMA AliveIsAlone ==
  ASSUME Inv, Owners, NEW i \in DOMAIN calls, Alive(i)
  PROVE  connections[calls[i].chat] \in {0, i}
<1>1. CASE \E chat \in Chats : connections[chat] = i
  <2>1. PICK chat \in Chats : connections[chat] = i
    BY <1>1
  <2>2. calls[i].chat = chat
    BY <2>1, CallsAre DEF Inv, TypeOK
  <2>. QED  BY <2>1, <2>2
<1>2. CASE Held(i) \/ calls[i].phase # "no"
  BY <1>2 DEF Owners, Alone
<1>. QED  BY <1>1, <1>2 DEF Alive, Held

LEMMA OneCallCauses ==
  ASSUME Inv, Causes, OwnersIfCareful, NEW i \in DOMAIN calls, NEW d, NEW X,
         Onward(calls[i], d, Registered(i)),
         calls' = [calls EXCEPT ![i] = d],
         From(updates, updates', X), \A x \in X : Posted(x, i, d),
         Unbegun(d, updates', i),
         UNCHANGED <<connections, stopping, busy>>
  PROVE  Causes' /\ OwnersIfCareful'
<1>1. calls \in Seq(Call) /\ updates \in Seq(Tasks(Len(calls))) /\ i \in DOMAIN calls
  BY DEF Inv, TypeOK
<1>2. /\ DOMAIN calls' = DOMAIN calls
      /\ calls'[i] = d
      /\ \A j \in DOMAIN calls : j # i => calls'[j] = calls[j]
      /\ \A j \in DOMAIN calls : calls'[j].chat = calls[j].chat
      /\ \A j \in DOMAIN calls : Ended(calls[j]) => Ended(calls'[j])
  BY <1>1 DEF Onward
<1>3. \A k \in DOMAIN updates : updates[k] \in Tasks(Len(calls))
  BY <1>1
<1>4. \A k \in DOMAIN updates : updates[k].task # "remove" => updates[k].call \in DOMAIN calls
  BY <1>3, CallsAre DEF Tasks
<1>5. ASSUME NEW j \in DOMAIN calls PROVE Unbegun(calls'[j], updates', j)
  <2>1. CASE j = i
    BY <1>2, <2>1
  <2>2. CASE j # i
    <3>1. Unbegun(calls[j], updates, j) /\ calls'[j] = calls[j]
      BY <1>2, <2>2 DEF Causes
    <3>2. \A k \in DOMAIN updates' : (Tells(updates'[k], j) \/ Watches(updates'[k], j)) =>
            \E m \in DOMAIN updates : updates'[k] = updates[m]
      BY <2>2 DEF From, Posted, Tells, Watches
    <3>. QED  BY <3>1, <3>2 DEF Unbegun, Quiet
  <2>. QED  BY <2>1, <2>2
<1>6. ASSUME NEW k \in DOMAIN updates', NEW x, x = updates'[k], x.task = "remove"
      PROVE  \E j \in DOMAIN calls' : calls'[j].chat = x.chat /\ Ended(calls'[j])
  <2>1. CASE x \in X
    <3>1. x.chat = calls[i].chat /\ Ended(d)
      BY <1>6, <2>1 DEF Posted
    <3>. QED  BY <1>1, <1>2, <3>1
  <2>2. CASE \E m \in DOMAIN updates : x = updates[m]
    <3>1. \E j \in DOMAIN calls : calls[j].chat = x.chat /\ Ended(calls[j])
      BY <1>6, <2>2 DEF Causes, Caused
    <3>. QED  BY <1>2, <3>1
  <2>. QED  BY <1>6, <2>1, <2>2 DEF From
<1>7. ASSUME Owners, Careful PROVE Owners'
  <2>1. ASSUME NEW j \in DOMAIN calls PROVE Owned(j)' /\ Alone(j)'
    <3>1. Owned(j) /\ Alone(j) /\ Owned(i) /\ Alone(i)
      BY <1>7 DEF Owners
    <3>2. /\ Registered(j)' <=> Registered(j)
          /\ Held(j)' <=> Held(j)
      BY <1>2 DEF Registered, Held
    <3>3. CASE j # i
      <4>1. calls'[j] = calls[j]
        BY <1>2, <3>3
      <4>. QED  BY <3>1, <3>2, <4>1 DEF Owned, Alone
    <3>4. CASE j = i
      <4>1. calls'[j] = d /\ d.chat = calls[i].chat
        BY <1>2, <3>4 DEF Onward
      <4>2. Owned(j)'
        BY <3>1, <3>2, <3>4, <4>1 DEF Owned, Onward
      <4>3. Alone(j)'
        BY <3>1, <3>2, <3>4, <4>1 DEF Alone, Onward, Registered
      <4>. QED  BY <4>2, <4>3
    <3>. QED  BY <3>3, <3>4
  <2>2. ASSUME NEW k \in DOMAIN updates', NEW x, x = updates'[k]
        PROVE  IF x.task = "remove"
               THEN connections[x.chat] # 0 => Ended(calls'[connections[x.chat]])
               ELSE connections[calls'[x.call].chat] \in {0, x.call}
    <3>1. CASE x \in X
      <4>1. CASE x.task = "remove"
        <5>1. Ended(d) /\ connections[x.chat] \in {0, i}
          BY <1>7, <3>1, <4>1 DEF Posted
        <5>. QED  BY <1>2, <4>1, <5>1
      <4>2. CASE x.task # "remove"
        <5>1. x.call = i /\ Alive(i)
          BY <3>1, <4>2 DEF Posted
        <5>2. connections[calls[i].chat] \in {0, i}
          BY <1>7, <5>1, AliveIsAlone
        <5>3. calls'[i].chat = calls[i].chat
          BY <1>2
        <5>. QED  BY <4>2, <5>1, <5>2, <5>3
      <4>. QED  BY <4>1, <4>2
    <3>2. CASE \E m \in DOMAIN updates : x = updates[m]
      <4>1. /\ Belongs(x)
            /\ x.task # "remove" => x.call \in DOMAIN calls
            /\ x \in Tasks(Len(calls))
        BY <1>3, <1>4, <1>7, <3>2 DEF Owners
      <4>2. CASE x.task = "remove"
        <5>1. x.chat \in Chats
          BY <4>1, <4>2 DEF Tasks
        <5>2. connections[x.chat] # 0 => connections[x.chat] \in DOMAIN calls
          BY <5>1, OneChat
        <5>3. connections[x.chat] # 0 => Ended(calls[connections[x.chat]])
          BY <4>1, <4>2 DEF Belongs
        <5>. QED  BY <1>2, <4>2, <5>2, <5>3
      <4>3. CASE x.task # "remove"
        <5>1. connections[calls[x.call].chat] \in {0, x.call}
          BY <4>1, <4>3 DEF Belongs
        <5>2. calls'[x.call].chat = calls[x.call].chat
          BY <1>2, <4>1, <4>3
        <5>. QED  BY <4>3, <5>1, <5>2
      <4>. QED  BY <4>2, <4>3
    <3>. QED  BY <2>2, <3>1, <3>2 DEF From
  <2>3. \A k \in DOMAIN updates' : Belongs(updates[k])'
    BY <2>2 DEF Belongs
  <2>. QED  BY <1>2, <2>1, <2>3 DEF Owners
<1>8. Causes'
  BY <1>2, <1>5, <1>6 DEF Causes, Caused
<1>. QED  BY <1>7, <1>8 DEF OwnersIfCareful

LEMMA GoesOnCauses ==
  ASSUME Inv, Causes, OwnersIfCareful, NEW i \in DOMAIN calls, NEW d, GoesOn(calls[i], d),
         calls' = [calls EXCEPT ![i] = d],
         UNCHANGED <<connections, updates, stopping, busy>>
  PROVE  Causes' /\ OwnersIfCareful'
<1>1. Onward(calls[i], d, Registered(i))
  BY DEF GoesOn, Onward, Ended
<1>2. Unbegun(d, updates', i)
  BY DEF GoesOn, Unbegun, Quiet, Causes
<1>3. From(updates, updates', {})
  BY FromSame
<1>. DEFINE X == {}
<1>4. \A x \in X : Posted(x, i, d)
  OBVIOUS
<1>5. From(updates, updates', X) /\ UNCHANGED <<connections, stopping, busy>>
  BY <1>3
<1>. HIDE DEF X
<1>. QED  BY <1>1, <1>2, <1>4, <1>5, OneCallCauses

LEMMA GoesOnStepCauses ==
  ASSUME Inv, Causes, OwnersIfCareful, NEW i \in DOMAIN calls, GoesOnStep(i)
  PROVE  Causes' /\ OwnersIfCareful'
BY GoesOnCauses DEF GoesOnStep

\* A call changes and nothing is posted.
LEMMA CalmCauses ==
  ASSUME Inv, Causes, OwnersIfCareful, NEW i \in DOMAIN calls, NEW d,
         Onward(calls[i], d, Registered(i)), Unbegun(d, updates, i),
         calls' = [calls EXCEPT ![i] = d],
         UNCHANGED <<connections, updates, stopping, busy>>
  PROVE  Causes' /\ OwnersIfCareful'
<1>. DEFINE X == {}
<1>1. \A x \in X : Posted(x, i, d)
  OBVIOUS
<1>2. From(updates, updates', X) /\ UNCHANGED <<connections, stopping, busy>>
      /\ Unbegun(d, updates', i)
  BY FromSame
<1>. HIDE DEF X
<1>. QED  BY <1>1, <1>2, OneCallCauses

LEMMA FetchCauses ==
  ASSUME Inv, Causes, OwnersIfCareful, NEW chat \in Chats, FetchToConnect(chat)
  PROVE  Causes' /\ OwnersIfCareful'
<1>. DEFINE i == connections[chat]
            c == calls[i]
            d == [c EXCEPT !.phase = "fetched", !.connects = @ + 1]
<1>1. i \in DOMAIN calls /\ c.chat = chat
  BY OneChat DEF FetchToConnect, Inv, TypeOK
<1>2. calls' = [calls EXCEPT ![i] = d] /\ UNCHANGED <<connections, updates, stopping, busy>>
  BY <1>1 DEF FetchToConnect
<1>3. c \in Call /\ Unbegun(c, updates, i) /\ c.connects + 1 \in Nat
  <2>1. c \in Call /\ Unbegun(c, updates, i)
    BY <1>1, CallsAre DEF Causes
  <2>. QED  BY <2>1 DEF Call
<1>4. Registered(i)
  BY <1>1 DEF Registered
<1>. HIDE DEF i, c
<1>5. /\ d \in Call /\ d.chat = c.chat /\ d.kind = c.kind /\ d.reports = c.reports
      /\ d.conn = c.conn /\ d.phase = "fetched" /\ d.timers = c.timers
      /\ d.observed = c.observed
  BY <1>3 DEF Call
<1>. HIDE DEF d
<1>6. Onward(c, d, Registered(i))
  BY <1>4, <1>5 DEF Onward, Ended
<1>7. Unbegun(d, updates, i)
  BY <1>3, <1>5 DEF Unbegun, Quiet
<1>. QED  BY <1>1, <1>2, <1>6, <1>7, CalmCauses DEF c

LEMMA LeaveConnectCauses ==
  ASSUME Inv, Causes, OwnersIfCareful, NEW i \in DOMAIN calls, NEW c,
         Onward(calls[i], c, Registered(i)), Unbegun(c, updates, i), LeaveConnect(i, c)
  PROVE  Causes' /\ OwnersIfCareful'
<1>. DEFINE d == [c EXCEPT !.phase = "no"]
<1>1. /\ d \in Call /\ d.chat = c.chat /\ d.kind = c.kind /\ d.reports = c.reports
      /\ d.conn = c.conn /\ d.phase = "no" /\ d.timers = c.timers
      /\ d.observed = c.observed
  <2>1. c \in Call
    BY DEF Onward
  <2>. QED  BY <2>1 DEF Call
<1>2. calls' = [calls EXCEPT ![i] = d] /\ UNCHANGED <<connections, updates, stopping, busy>>
  BY DEF LeaveConnect
<1>. HIDE DEF d
<1>3. Onward(calls[i], d, Registered(i))
  BY <1>1 DEF Onward, Ended
<1>4. Unbegun(d, updates, i)
  BY <1>1 DEF Unbegun, Quiet
<1>. QED  BY <1>2, <1>3, <1>4, CalmCauses

LEMMA SetConnectionObserverCauses ==
  ASSUME Inv, Causes, OwnersIfCareful, NEW i \in DOMAIN calls, NEW c,
         Onward(calls[i], c, Registered(i)), c.conn # "none", calls[i].phase # "no",
         SetConnectionObserver(i, c)
  PROVE  Causes' /\ OwnersIfCareful'
<1>. DEFINE d == [c EXCEPT !.phase = "no", !.observed = TRUE, !.timers = @ + 1]
            x == [task |-> "notify", call |-> i, state |-> "Connecting"]
            T == Tasks(Len(calls))
            X == IF calls[i].listener THEN {x} ELSE {}
<1>1. /\ d \in Call /\ d.chat = c.chat /\ d.kind = c.kind /\ d.reports = c.reports
      /\ d.conn = c.conn /\ d.phase = "no"
  <2>1. c \in Call
    BY DEF Onward
  <2>2. c.timers + 1 \in Nat
    BY <2>1 DEF Call
  <2>. QED  BY <2>1, <2>2 DEF Call
<1>2. calls' = [calls EXCEPT ![i] = d] /\ UNCHANGED <<connections, stopping, busy>>
  BY DEF SetConnectionObserver
<1>3. x \in T /\ updates \in Seq(T)
  BY CallsAre DEF Tasks, States, Inv
<1>. HIDE DEF d
<1>4. Posted(x, i, d)
  BY DEF Posted, Alive
<1>5. From(updates, updates', X)
  <2>. HIDE DEF T
  <2>1. From(updates, Append(updates, x), {x}) /\ From(updates, updates, {})
    BY <1>3, FromAppend, FromSame
  <2>. QED  BY <2>1 DEF SetConnectionObserver, Tell
<1>6. Onward(calls[i], d, Registered(i))
  BY <1>1 DEF Onward, Ended
<1>7. Unbegun(d, updates', i)
  BY <1>1 DEF Unbegun
<1>8. \A y \in X : Posted(y, i, d)
  BY <1>4
<1>. HIDE DEF X
<1>. QED  BY <1>2, <1>5, <1>6, <1>7, <1>8, OneCallCauses

LEMMA ConnectP2PCauses ==
  ASSUME Inv, Causes, OwnersIfCareful, NEW i \in DOMAIN calls, ConnectP2P(i)
  PROVE  Causes' /\ OwnersIfCareful'
<1>. DEFINE c == calls[i]
            o == Opened(c)
            p == [o EXCEPT !.remote = TRUE, !.checking = TRUE]
<1>1. c \in Call /\ Unbegun(c, updates, i) /\ c.phase = "fetched" /\ c.phase # "no"
  BY CallsAre DEF ConnectP2P, Causes
<1>2. \/ LeaveConnect(i, c)
      \/ c.conn = "none" /\ (LeaveConnect(i, o) \/ SetConnectionObserver(i, p))
  BY DEF ConnectP2P
<1>. HIDE DEF c
<1>3. /\ o \in Call /\ o.chat = c.chat /\ o.kind = c.kind /\ o.reports = c.reports
      /\ o.conn = "open" /\ o.phase = c.phase
  BY <1>1 DEF Opened, Call
<1>. HIDE DEF o
<1>4. /\ p \in Call /\ p.chat = c.chat /\ p.kind = c.kind /\ p.reports = c.reports
      /\ p.conn = "open" /\ p.phase = c.phase
  BY <1>3 DEF Call
<1>. HIDE DEF p
<1>5. Onward(c, c, Registered(i))
  BY <1>1 DEF Onward
<1>6. c.conn = "none" => Onward(c, o, Registered(i)) /\ Onward(c, p, Registered(i))
  BY <1>1, <1>3, <1>4 DEF Onward, Ended
<1>7. Unbegun(o, updates, i)
  BY <1>1, <1>3 DEF Unbegun
<1>. QED  BY <1>1, <1>2, <1>4, <1>5, <1>6, <1>7, LeaveConnectCauses,
              SetConnectionObserverCauses DEF c

LEMMA ConnectGroupCauses ==
  ASSUME Inv, Causes, OwnersIfCareful, NEW i \in DOMAIN calls, NEW mode \in Modes,
         ConnectGroup(i, mode)
  PROVE  Causes' /\ OwnersIfCareful'
<1>. DEFINE c == calls[i]
            a == IF mode = "rtc" /\ c.mode \in Streaming THEN FALSE ELSE c.already
            e == [c EXCEPT !.mode = mode, !.already = a]
            m == SetConnectionMode(c, mode)
            d == [m EXCEPT !.phase = "half",
                           !.remote = IF mode = "rtc" THEN TRUE ELSE @,
                           !.media = IF mode \in Streaming /\ @ = "off" THEN "soon" ELSE @]
<1>1. /\ c \in Call /\ Unbegun(c, updates, i) /\ c.phase = "fetched" /\ c.kind = "group"
      /\ c.conn # "none"
  BY CallsAre DEF ConnectGroup, Causes, Unbegun
<1>2. CASE LeaveConnect(i, c)
  <2>1. Onward(c, c, Registered(i))
    BY <1>1 DEF Onward
  <2>. QED  BY <1>1, <1>2, <2>1, LeaveConnectCauses
<1>3. CASE calls' = [calls EXCEPT ![i] = d] /\ UNCHANGED <<connections, updates, stopping, busy>>
  <2>0. m = UpdateIsConnected(e)
    BY DEF SetConnectionMode
  <2>1. a \in BOOLEAN /\ mode \in {"rtc", "stream", "rtmp"}
    BY <1>1, CallAssumption DEF Call
  <2>. HIDE DEF c, a
  <2>2. /\ e \in Call /\ e.mode # "none" /\ e.chat = c.chat /\ e.kind = c.kind
        /\ e.reports = c.reports /\ e.conn = c.conn
    BY <1>1, <2>1 DEF Call
  <2>. HIDE DEF e, m
  <2>3. GoesOn(e, m)
    BY <2>0, <2>2, UpdateGoesOn
  <2>4. m \in Call
    BY <2>3 DEF GoesOn
  <2>5. /\ d \in Call /\ d.chat = m.chat /\ d.kind = m.kind /\ d.reports = m.reports
        /\ d.conn = m.conn
    BY <2>4 DEF Call
  <2>. HIDE DEF d
  <2>6. Onward(c, d, Registered(i))
    BY <1>1, <2>2, <2>3, <2>5 DEF Onward, GoesOn, Ended
  <2>7. Unbegun(d, updates, i)
    BY <1>1, <2>2, <2>3, <2>5 DEF Unbegun, GoesOn
  <2>. QED  BY <1>3, <2>6, <2>7, CalmCauses DEF c
<1>. QED  BY <1>2, <1>3 DEF ConnectGroup

LEMMA ConnectGroupEndsCauses ==
  ASSUME Inv, Causes, OwnersIfCareful, NEW i \in DOMAIN calls, ConnectGroupEnds(i)
  PROVE  Causes' /\ OwnersIfCareful'
<1>1. /\ calls[i] \in Call /\ Unbegun(calls[i], updates, i) /\ calls[i].phase = "half"
      /\ calls[i].conn # "none"
  BY CallsAre DEF ConnectGroupEnds, Causes, Unbegun
<1>2. Onward(calls[i], calls[i], Registered(i))
  BY <1>1 DEF Onward
<1>. QED  BY <1>1, <1>2, LeaveConnectCauses, SetConnectionObserverCauses DEF ConnectGroupEnds

LEMMA RunNoticeCauses ==
  ASSUME Inv, Causes, OwnersIfCareful, NEW i \in DOMAIN calls, RunNotice(i)
  PROVE  Causes' /\ OwnersIfCareful'
<1>. DEFINE c == calls[i]
            T == Tasks(Len(calls))
            state == IF Head(c.notices) = "now" THEN StateNow(c) ELSE Head(c.notices)
            already == c.already \/ state = "Connected"
            d == [c EXCEPT !.notices = Tail(@), !.current = state, !.already = already]
            x == [task |-> "observe", call |-> i, state |-> state, was |-> c.already]
            posts == c.observed /\ Alive(i)
            X == IF posts THEN {x} ELSE {}
<1>1. /\ c \in Call /\ Unbegun(c, updates, i) /\ updates \in Seq(T)
      /\ c.notices \in Seq({"now", "Connecting", "Connected"}) /\ c.already \in BOOLEAN
  <2>1. c \in Call /\ Unbegun(c, updates, i) /\ updates \in Seq(T)
    BY CallsAre DEF Causes, Inv
  <2>. QED  BY <2>1 DEF Call
<1>2. /\ Head(c.notices) \in {"now", "Connecting", "Connected"}
      /\ Tail(c.notices) \in Seq({"now", "Connecting", "Connected"})
  BY <1>1 DEF RunNotice
<1>3. state \in {"Connecting", "Connected", "Failed"} /\ already \in BOOLEAN
  BY <1>2 DEF StateNow
<1>4. /\ calls' = [calls EXCEPT ![i] = d] /\ UNCHANGED <<connections, stopping, busy>>
      /\ updates' = IF posts THEN Append(updates, x) ELSE updates
  BY DEF RunNotice
<1>5. x \in T
  BY <1>1, <1>3, CallsAre DEF Tasks, States, Final
<1>6. posts => Posted(x, i, d)
  BY DEF Posted
<1>. HIDE DEF state, already, c
<1>7. /\ d \in Call /\ d.chat = c.chat /\ d.kind = c.kind /\ d.conn = c.conn
      /\ d.phase = c.phase /\ d.reports = c.reports /\ d.timers = c.timers
      /\ d.observed = c.observed
  <2>1. d \in Call
    <3>1. c \in Call
      BY <1>1
    <3>. QED  BY <1>2, <1>3, <3>1 DEF Call
  <2>. QED  BY <1>1, <2>1 DEF Call
<1>. HIDE DEF d, x, T
<1>8. From(updates, updates', X)
  <2>1. From(updates, Append(updates, x), {x}) /\ From(updates, updates, {})
    BY <1>1, <1>5, FromAppend, FromSame
  <2>. QED  BY <1>4, <2>1
<1>9. Onward(c, d, Registered(i))
  BY <1>7 DEF Onward, Ended
<1>10. Unbegun(d, updates', i)
  BY <1>1, <1>4, <1>7 DEF Unbegun, Quiet
<1>11. \A y \in X : Posted(y, i, d)
  BY <1>6
<1>. HIDE DEF X
<1>. QED  BY <1>4, <1>8, <1>9, <1>10, <1>11, OneCallCauses DEF c

LEMMA TimerCauses ==
  ASSUME Inv, Causes, OwnersIfCareful, NEW i \in DOMAIN calls, Timer(i)
  PROVE  Causes' /\ OwnersIfCareful'
<1>. DEFINE c == calls[i]
            T == Tasks(Len(calls))
            d == [c EXCEPT !.timers = @ - 1]
            x == [task |-> "notify", call |-> i, state |-> "Timeout"]
            posts == /\ Alive(i)
                     /\ c.current = "Connecting" /\ ~ c.already
                     /\ c.listener
            X == IF posts THEN {x} ELSE {}
<1>1. c \in Call /\ Unbegun(c, updates, i) /\ updates \in Seq(T) /\ c.timers - 1 \in Nat
      /\ c.timers # 0
  <2>1. c \in Call /\ Unbegun(c, updates, i) /\ updates \in Seq(T)
    BY CallsAre DEF Causes, Inv
  <2>. QED  BY <2>1 DEF Timer, Call
<1>2. /\ calls' = [calls EXCEPT ![i] = d] /\ UNCHANGED <<connections, stopping, busy>>
      /\ updates' = IF posts THEN Append(updates, x) ELSE updates
  BY DEF Timer, Tell
<1>3. x \in T /\ (posts => Posted(x, i, d))
  BY CallsAre DEF Tasks, States, Final, Posted
<1>. HIDE DEF c
<1>4. /\ d \in Call /\ d.chat = c.chat /\ d.kind = c.kind /\ d.conn = c.conn
      /\ d.phase = c.phase /\ d.reports = c.reports
  BY <1>1 DEF Call
<1>. HIDE DEF d, x, T, posts
<1>5. From(updates, updates', X)
  <2>1. From(updates, Append(updates, x), {x}) /\ From(updates, updates, {})
    BY <1>1, <1>3, FromAppend, FromSame
  <2>. QED  BY <1>2, <2>1
<1>6. Onward(c, d, Registered(i))
  BY <1>4 DEF Onward, Ended
<1>7. Unbegun(d, updates', i)
  BY <1>1, <1>4 DEF Unbegun, Quiet
<1>8. \A y \in X : Posted(y, i, d)
  BY <1>3
<1>. HIDE DEF X
<1>. QED  BY <1>2, <1>5, <1>6, <1>7, <1>8, OneCallCauses DEF c

LEMMA ObserveCauses ==
  ASSUME Inv, Causes, OwnersIfCareful, Observe
  PROVE  Causes' /\ OwnersIfCareful'
<1>. DEFINE h == Head(updates)
            i == h.call
            state == h.state
            news == state = "Connected" /\ ~ h.was
            c == calls[i]
            T == Tasks(Len(calls))
            q == Tail(updates)
            d == [c EXCEPT !.observed = @ /\ news, !.starts = IF news THEN @ + 1 ELSE @]
            x == [task |-> "notify", call |-> i, state |-> state]
            X == IF c.listener THEN {x} ELSE {}
<1>1. /\ i \in DOMAIN calls /\ state \in States /\ updates # <<>>
      /\ h \in T /\ h.task = "observe"
  BY HeadOfUpdates DEF Observe
<1>2. c \in Call /\ Unbegun(c, updates, i) /\ updates \in Seq(T) /\ calls \in Seq(Call)
  BY <1>1, CallsAre DEF Causes, Inv, TypeOK
<1>3. c.conn # "none"
  <2>1. 1 \in DOMAIN updates /\ updates[1] = h
    BY <1>1, <1>2
  <2>2. ~ Quiet(c, updates, i)
    BY <1>1, <2>1 DEF Quiet, Watches
  <2>. QED  BY <1>2, <2>2 DEF Unbegun
<1>4. CASE ThenPost(updates) /\ UNCHANGED calls
  <2>. DEFINE Y == {}
  <2>1. From(updates, updates', Y) /\ \A y \in Y : Posted(y, i, c)
    BY <1>1, <1>2, <1>4, FromTail DEF ThenPost
  <2>2. calls' = [calls EXCEPT ![i] = c]
    BY <1>2, <1>4
  <2>3. Onward(c, c, Registered(i)) /\ Unbegun(c, updates', i)
    BY <1>2, <1>3 DEF Onward, Unbegun
  <2>. HIDE DEF Y, i
  <2>. QED  BY <1>1, <2>1, <2>2, <2>3, OneCallCauses DEF Observe
<1>5. CASE /\ Alive(i)
           /\ calls' = [calls EXCEPT ![i].observed = @ /\ news,
                                     ![i].starts = IF news THEN @ + 1 ELSE @]
           /\ ThenPost(Tell(i, state))
  <2>1. calls' = [calls EXCEPT ![i] = d]
    BY <1>1, <1>5
  <2>2. x \in T /\ Posted(x, i, d)
    BY <1>1, <1>5, CallsAre DEF Tasks, Posted
  <2>3. updates' = IF c.listener THEN Append(q, x) ELSE q
    <3>1. Tail(Append(updates, x)) = Append(Tail(updates), x)
      <4>. HIDE DEF x, T
      <4>. QED  BY <1>1, <1>2, <2>2
    <3>. QED  BY <1>5, <3>1 DEF Tell, ThenPost
  <2>4. From(updates, updates', X)
    <3>. HIDE DEF x, T
    <3>1. From(updates, Append(q, x), {x}) /\ From(updates, q, {})
      BY <1>1, <1>2, <2>2, FromTailAppend, FromTail
    <3>. HIDE DEF q
    <3>. QED  BY <2>3, <3>1
  <2>5. /\ d \in Call /\ d.chat = c.chat /\ d.kind = c.kind /\ d.conn = c.conn
        /\ d.phase = c.phase /\ d.reports = c.reports
    <3>1. c \in Call
      BY <1>2
    <3>. HIDE DEF news, c
    <3>2. c.starts \in Nat /\ c.observed \in BOOLEAN
      BY <3>1 DEF Call
    <3>3. (IF news THEN c.starts + 1 ELSE c.starts) \in Nat /\ (c.observed /\ news) \in BOOLEAN
      BY <3>2
    <3>. QED  BY <3>1, <3>3 DEF Call
  <2>6. \A y \in X : Posted(y, i, d)
    BY <2>2
  <2>. HIDE DEF d, X, i
  <2>7. Onward(c, d, Registered(i)) /\ Unbegun(d, updates', i)
    BY <1>2, <1>3, <2>5 DEF Onward, Unbegun, Ended
  <2>8. Onward(calls[i], d, Registered(i)) /\ UNCHANGED <<connections, stopping, busy>>
    BY <2>7 DEF Observe
  <2>. QED  BY <1>1, <2>1, <2>4, <2>6, <2>7, <2>8, OneCallCauses
<1>. QED  BY <1>4, <1>5 DEF Observe

LEMMA NotifyCauses ==
  ASSUME Inv, Causes, OwnersIfCareful, Notify
  PROVE  Causes' /\ OwnersIfCareful'
<1>. DEFINE h == Head(updates)
            i == h.call
            state == h.state
            c == calls[i]
            T == Tasks(Len(calls))
            q == Tail(updates)
            d == [c EXCEPT !.reports = Append(@, state)]
            x == [task |-> "remove", chat |-> c.chat]
            X == IF state \in Final THEN {x} ELSE {}
<1>1. /\ i \in DOMAIN calls /\ state \in States /\ updates # <<>>
      /\ h \in T /\ h.task = "notify"
  BY HeadOfUpdates DEF Notify
<1>2. c \in Call /\ c.chat \in Chats /\ Unbegun(c, updates, i) /\ updates \in Seq(T)
  BY <1>1, CallsAre DEF Causes, Inv
<1>3. 1 \in DOMAIN updates /\ updates[1] = h
  BY <1>1, <1>2
<1>4. c.conn # "none"
  <2>1. ~ Quiet(c, updates, i)
    BY <1>1, <1>3 DEF Quiet, Tells
  <2>. QED  BY <1>2, <2>1 DEF Unbegun
<1>5. Careful => connections[c.chat] \in {0, i}
  BY <1>1, <1>3 DEF OwnersIfCareful, Owners, Belongs
<1>6. calls' = [calls EXCEPT ![i] = d]
  BY <1>1 DEF Notify
<1>7. x \in T
  BY <1>2 DEF Tasks
<1>8. updates' = IF state \in Final THEN Append(q, x) ELSE q
  <2>1. Tail(Append(updates, x)) = Append(Tail(updates), x)
    <3>. HIDE DEF x, T
    <3>. QED  BY <1>1, <1>2, <1>7
  <2>. QED  BY <2>1 DEF Notify, ThenPost
<1>9. From(updates, updates', X)
  <2>. HIDE DEF x, T
  <2>1. From(updates, Append(q, x), {x}) /\ From(updates, q, {})
    BY <1>1, <1>2, <1>7, FromTailAppend, FromTail
  <2>. HIDE DEF q
  <2>. QED  BY <1>8, <2>1
<1>10. /\ d \in Call /\ d.chat = c.chat /\ d.kind = c.kind /\ d.conn = c.conn
       /\ d.phase = c.phase /\ d.reports = Append(c.reports, state)
       /\ c.reports \in Seq(States)
  <2>1. c.reports \in Seq(States) /\ Append(c.reports, state) \in Seq(States)
    BY <1>1, <1>2 DEF Call, States
  <2>2. c \in Call
    BY <1>2
  <2>. HIDE DEF c, state
  <2>. QED  BY <2>1, <2>2 DEF Call, States
<1>11. (Ended(c) => Ended(d)) /\ (state \in Final => Ended(d))
  <2>1. /\ \A k \in DOMAIN c.reports : k \in DOMAIN d.reports /\ d.reports[k] = c.reports[k]
        /\ Len(c.reports) + 1 \in DOMAIN d.reports
        /\ d.reports[Len(c.reports) + 1] = state
    <3>. HIDE DEF d
    <3>. QED  BY <1>1, <1>10
  <2>. HIDE DEF d
  <2>. QED  BY <2>1 DEF Ended
<1>12. \A y \in X : Posted(y, i, d)
  BY <1>5, <1>11 DEF Posted
<1>. HIDE DEF d, X, i
<1>13. Onward(calls[i], d, Registered(i)) /\ Unbegun(d, updates', i)
  BY <1>2, <1>4, <1>10, <1>11 DEF Onward, Unbegun
<1>14. UNCHANGED <<connections, stopping, busy>>
  BY DEF Notify
<1>. QED  BY <1>1, <1>6, <1>9, <1>12, <1>13, <1>14, OneCallCauses

\* Calls are taken out of the registry, into somebody's hands, and nothing is posted.
LEMMA TakenOutCauses ==
  ASSUME Inv, Causes, OwnersIfCareful, UNCHANGED calls, From(updates, updates', {}),
         \A chat \in Chats : connections'[chat] \in {0, connections[chat]},
         \A i \in DOMAIN calls : Held(i) => Held(i)',
         \A i \in DOMAIN calls : Held(i)' => Held(i) \/ Registered(i),
         \A i \in DOMAIN calls : Registered(i) /\ ~ Registered(i)' => Held(i)',
         \A i \in DOMAIN calls : Registered(i) /\ ~ Registered(i)' /\ Careful /\ Owners =>
           calls[i].phase = "no" \/ calls[i].conn # "none"
  PROVE  Causes' /\ OwnersIfCareful'
<1>1. updates \in Seq(Tasks(Len(calls))) /\ \A i \in DOMAIN calls : calls[i].chat \in Chats
  BY CallsAre DEF Inv
<1>2. ASSUME NEW k \in DOMAIN updates' PROVE \E m \in DOMAIN updates : updates'[k] = updates[m]
  BY <1>2 DEF From
<1>3. Causes'
  <2>1. ASSUME NEW i \in DOMAIN calls PROVE Unbegun(calls[i], updates', i)
    <3>1. Unbegun(calls[i], updates, i)
      BY DEF Causes
    <3>. QED  BY <1>2, <3>1 DEF Unbegun, Quiet
  <2>2. ASSUME NEW k \in DOMAIN updates', NEW x, x = updates'[k], x.task = "remove"
        PROVE  \E j \in DOMAIN calls : calls[j].chat = x.chat /\ Ended(calls[j])
    BY <1>2, <2>2 DEF Causes, Caused
  <2>. QED  BY <2>1, <2>2 DEF Causes, Caused
<1>4. ASSUME Owners, Careful PROVE Owners'
  <2>1. ASSUME NEW i \in DOMAIN calls PROVE Owned(i)' /\ Alone(i)'
    <3>1. Owned(i) /\ Alone(i)
      BY <1>4 DEF Owners
    <3>2. Owned(i)'
      BY <1>4, <3>1 DEF Owned
    <3>3. Alone(i)'
      BY <1>1, <3>1 DEF Alone, Registered
    <3>. QED  BY <3>2, <3>3
  <2>2. ASSUME NEW k \in DOMAIN updates', NEW x, x = updates'[k]
        PROVE  IF x.task = "remove"
               THEN connections'[x.chat] # 0 => Ended(calls[connections'[x.chat]])
               ELSE connections'[calls[x.call].chat] \in {0, x.call}
    <3>1. PICK m \in DOMAIN updates : x = updates[m]
      BY <1>2, <2>2
    <3>2. Belongs(x) /\ x \in Tasks(Len(calls))
      BY <1>1, <1>4, <3>1 DEF Owners
    <3>3. CASE x.task = "remove"
      BY <3>2, <3>3 DEF Belongs, Tasks
    <3>4. CASE x.task # "remove"
      <4>1. calls[x.call].chat \in Chats
        BY <1>1, <3>2, <3>4, CallsAre DEF Tasks
      <4>. QED  BY <3>2, <3>4, <4>1 DEF Belongs
    <3>. QED  BY <3>3, <3>4
  <2>3. \A k \in DOMAIN updates' : Belongs(updates[k])'
    BY <2>2 DEF Belongs
  <2>. QED  BY <2>1, <2>3 DEF Owners
<1>. QED  BY <1>3, <1>4 DEF OwnersIfCareful

LEMMA StopCauses ==
  ASSUME Inv, Causes, OwnersIfCareful, NEW chat \in Chats, Stop(chat)
  PROVE  Causes' /\ OwnersIfCareful'
<1>1. /\ connections' = [connections EXCEPT ![chat] = 0]
      /\ stopping' = stopping \cup {connections[chat]}
      /\ UNCHANGED <<calls, updates, busy>>
      /\ Careful => calls[connections[chat]].phase = "no"
  BY DEF Stop
<1>2. /\ connections \in [Chats -> 0 .. Len(calls)]
      /\ \A i \in DOMAIN calls : calls[i].chat \in Chats
      /\ connections[chat] \in DOMAIN calls /\ calls[connections[chat]].chat = chat
      /\ 0 \notin DOMAIN calls
  BY CallsAre, OneChat DEF Stop, Inv, TypeOK
<1>3. From(updates, updates', {})
  BY <1>1, FromSame
<1>4. \A other \in Chats : connections'[other] = IF other = chat THEN 0 ELSE connections[other]
  BY <1>1, <1>2
<1>5. \A i \in DOMAIN calls : /\ Held(i) => Held(i)'
                              /\ Held(i)' => Held(i) \/ i = connections[chat]
  BY <1>1 DEF Held
<1>6. \A i \in DOMAIN calls : Registered(i) /\ ~ Registered(i)' => i = connections[chat]
  BY <1>1, <1>2, <1>4 DEF Registered
<1>7. \A i \in DOMAIN calls : i = connections[chat] => Registered(i) /\ Held(i)'
  BY <1>1, <1>2 DEF Registered, Held
<1>. QED  BY <1>1, <1>3, <1>4, <1>5, <1>6, <1>7, TakenOutCauses

LEMMA StopConnectionsCauses ==
  ASSUME Inv, Causes, OwnersIfCareful, StopConnections
  PROVE  Causes' /\ OwnersIfCareful'
<1>1. /\ connections' = [chat \in Chats |-> 0]
      /\ stopping' = stopping \cup ({connections[chat] : chat \in Chats} \ {0})
      /\ UNCHANGED <<calls, updates, busy>>
      /\ Careful => \A i \in DOMAIN calls : calls[i].phase = "no"
  BY DEF StopConnections
<1>2. /\ \A i \in DOMAIN calls : calls[i].chat \in Chats
      /\ \A chat \in Chats : connections[chat] # 0 => calls[connections[chat]].chat = chat
      /\ 0 \notin DOMAIN calls
  BY CallsAre DEF Inv, TypeOK
<1>3. From(updates, updates', {})
  BY <1>1, FromSame
<1>4. \A chat \in Chats : connections'[chat] = 0
  BY <1>1
<1>5. \A i \in DOMAIN calls : /\ Held(i) => Held(i)'
                              /\ Held(i)' => Held(i) \/ Registered(i)
  BY <1>1, <1>2 DEF Held, Registered
<1>6. \A i \in DOMAIN calls : Registered(i) => Held(i)'
  BY <1>1, <1>2 DEF Held, Registered
<1>. QED  BY <1>1, <1>3, <1>4, <1>5, <1>6, TakenOutCauses

LEMMA RemoveCauses ==
  ASSUME Inv, Causes, OwnersIfCareful, Remove
  PROVE  Causes' /\ OwnersIfCareful'
<1>. DEFINE chat == Head(updates).chat
<1>1. /\ connections' = [connections EXCEPT ![chat] = 0]
      /\ busy = 0 /\ busy' = connections[chat]
      /\ UNCHANGED <<calls, stopping>>
      /\ updates' = Tail(updates)
  BY DEF Remove, ThenPost, Take
<1>2. /\ chat \in Chats /\ updates # <<>> /\ Head(updates).task = "remove"
      /\ updates \in Seq(Tasks(Len(calls)))
  BY HeadOfUpdates DEF Remove, Inv
<1>3. From(updates, updates', {})
  BY <1>1, <1>2, FromTail
<1>4. Careful /\ Owners => (connections[chat] # 0 => Ended(calls[connections[chat]]))
  <2>1. 1 \in DOMAIN updates /\ updates[1] = Head(updates)
    BY <1>2
  <2>. QED  BY <1>2, <2>1 DEF Owners, Belongs
<1>. HIDE DEF chat
<1>5. /\ connections \in [Chats -> 0 .. Len(calls)]
      /\ \A i \in DOMAIN calls : calls[i].chat \in Chats
      /\ connections[chat] # 0 => connections[chat] \in DOMAIN calls
                                  /\ calls[connections[chat]].chat = chat
      /\ 0 \notin DOMAIN calls
  BY <1>2, CallsAre, OneChat DEF Inv, TypeOK
<1>6. \A other \in Chats : connections'[other] = IF other = chat THEN 0 ELSE connections[other]
  BY <1>1, <1>5
<1>7. \A i \in DOMAIN calls : /\ Held(i) => Held(i)'
                              /\ Held(i)' => Held(i) \/ i = connections[chat]
  BY <1>1, <1>5 DEF Held
<1>8. \A i \in DOMAIN calls : Registered(i) /\ ~ Registered(i)' => i = connections[chat]
  BY <1>1, <1>5, <1>6 DEF Registered
<1>9. \A i \in DOMAIN calls : i = connections[chat] => Registered(i) /\ Held(i)'
  BY <1>1, <1>5 DEF Registered, Held
<1>10. ASSUME NEW i \in DOMAIN calls, Registered(i) /\ ~ Registered(i)', Careful, Owners
       PROVE  calls[i].conn # "none"
  <2>1. Ended(calls[i]) /\ Unbegun(calls[i], updates, i)
    BY <1>4, <1>5, <1>8, <1>10 DEF Causes
  <2>. QED  BY <2>1 DEF Ended, Unbegun, Quiet
<1>. QED  BY <1>1, <1>3, <1>6, <1>7, <1>8, <1>9, <1>10, TakenOutCauses

\* A call is stopped by who took it out.
LEMMA ReleaseCauses ==
  ASSUME Inv, Causes, OwnersIfCareful, NEW i \in DOMAIN calls,
         calls' = [calls EXCEPT ![i] = Stopped(@)], UNCHANGED <<connections, updates>>,
         \A j \in DOMAIN calls : Held(j)' => Held(j),
         \A j \in DOMAIN calls : Held(j) /\ j # i => Held(j)'
  PROVE  Causes' /\ OwnersIfCareful'
<1>. DEFINE c == calls[i]
            d == Stopped(c)
<1>1. c \in Call /\ calls \in Seq(Call) /\ updates \in Seq(Tasks(Len(calls)))
  BY CallsAre DEF Inv, TypeOK
<1>2. /\ d.chat = c.chat /\ d.kind = c.kind /\ d.reports = c.reports /\ d.timers = c.timers
      /\ d.phase = c.phase /\ ~ d.observed
      /\ d.conn # "open" /\ (d.conn = "none" => c.conn = "none")
  BY <1>1 DEF Stopped, Call
<1>3. /\ DOMAIN calls' = DOMAIN calls
      /\ calls'[i] = d
      /\ \A j \in DOMAIN calls : j # i => calls'[j] = calls[j]
  BY <1>1
<1>. HIDE DEF d
<1>4. /\ \A j \in DOMAIN calls : calls'[j].chat = calls[j].chat
      /\ \A j \in DOMAIN calls : calls'[j].phase = calls[j].phase
      /\ \A j \in DOMAIN calls : Ended(calls[j]) => Ended(calls'[j])
      /\ \A j \in DOMAIN calls : calls'[j].conn = "none" => calls[j].conn = "none"
      /\ \A j \in DOMAIN calls : calls'[j].conn = "open" => calls[j].conn = "open" /\ j # i
  BY <1>2, <1>3 DEF Ended
<1>5. \A j \in DOMAIN calls : Unbegun(calls'[j], updates, j)
  <2>1. Unbegun(d, updates, i)
    BY <1>2 DEF Causes, Unbegun, Quiet
  <2>. QED  BY <1>3, <2>1 DEF Causes
<1>6. Causes'
  <2>1. \A k \in DOMAIN updates : Caused(updates[k])'
    BY <1>3, <1>4 DEF Causes, Caused
  <2>. QED  BY <1>3, <1>5, <2>1 DEF Causes
<1>7. ASSUME Owners, Careful PROVE Owners'
  <2>1. ASSUME NEW j \in DOMAIN calls PROVE Owned(j)' /\ Alone(j)'
    <3>1. Owned(j) /\ Alone(j) /\ (Registered(j)' <=> Registered(j))
      BY <1>4, <1>7 DEF Owners, Registered
    <3>2. Owned(j)'
      BY <1>4, <3>1 DEF Owned
    <3>3. Alone(j)'
      BY <1>4, <3>1 DEF Alone
    <3>. QED  BY <3>2, <3>3
  <2>2. ASSUME NEW k \in DOMAIN updates, NEW x, x = updates[k]
        PROVE  Belongs(x)'
    <3>1. Belongs(x) /\ x \in Tasks(Len(calls))
      BY <1>1, <1>7, <2>2 DEF Owners
    <3>2. CASE x.task = "remove"
      <4>1. connections[x.chat] # 0 => connections[x.chat] \in DOMAIN calls
        BY <3>1, <3>2, OneChat DEF Tasks
      <4>. QED  BY <1>4, <3>1, <3>2, <4>1 DEF Belongs
    <3>3. CASE x.task # "remove"
      <4>1. x.call \in DOMAIN calls
        BY <3>1, <3>3, CallsAre DEF Tasks
      <4>. QED  BY <1>4, <3>1, <3>3, <4>1 DEF Belongs
    <3>. QED  BY <3>2, <3>3
  <2>3. \A k \in DOMAIN updates : Belongs(updates[k])'
    BY <2>2 DEF Belongs
  <2>. QED  BY <1>3, <2>1, <2>3 DEF Owners
<1>. QED  BY <1>6, <1>7 DEF OwnersIfCareful

LEMMA StopEndsCauses ==
  ASSUME Inv, Causes, OwnersIfCareful, NEW i \in DOMAIN calls, StopEnds(i)
  PROVE  Causes' /\ OwnersIfCareful'
BY ReleaseCauses DEF StopEnds, Held

LEMMA RemoveEndsCauses ==
  ASSUME Inv, Causes, OwnersIfCareful, RemoveEnds
  PROVE  Causes' /\ OwnersIfCareful'
<1>. DEFINE i == busy
<1>1. i \in DOMAIN calls /\ 0 \notin DOMAIN calls
  BY CallsAre DEF RemoveEnds, Inv, TypeOK
<1>2. /\ calls' = [calls EXCEPT ![i] = Stopped(@)] /\ UNCHANGED <<connections, updates>>
      /\ stopping' = stopping /\ busy' = 0
  BY DEF RemoveEnds
<1>3. \A j \in DOMAIN calls : /\ Held(j)' => Held(j)
                              /\ Held(j) /\ j # i => Held(j)'
  BY <1>1, <1>2 DEF Held
<1>. HIDE DEF i
<1>. QED  BY <1>1, <1>2, <1>3, ReleaseCauses

\* A call is added to a chat that, if the application is careful, was settled; the call
\* that was there is stopped.
LEMMA AddCauses ==
  ASSUME Inv, Causes, OwnersIfCareful, NEW chat \in Chats, NEW cs \in Seq(Call), NEW d \in Call,
         Len(cs) = Len(calls),
         \A j \in DOMAIN calls :
           /\ cs[j].chat = calls[j].chat /\ cs[j].phase = calls[j].phase
           /\ Ended(calls[j]) => Ended(cs[j])
           /\ cs[j].conn = "none" => calls[j].conn = "none"
           /\ cs[j].conn = "open" => calls[j].conn = "open" /\ j # connections[chat]
           /\ Unbegun(cs[j], updates, j),
         d.chat = chat, Unbegun(d, updates, Len(calls) + 1), Careful => Settled(chat),
         calls' = Append(cs, d),
         connections' = [connections EXCEPT ![chat] = Len(calls) + 1],
         UNCHANGED <<updates, stopping, busy>>
  PROVE  Causes' /\ OwnersIfCareful'
<1>. DEFINE n == Len(calls)
<1>1. n \in Nat /\ DOMAIN calls = 1 .. n /\ DOMAIN cs = 1 .. n
      /\ (\A j \in 1 .. n : calls[j].chat \in Chats)
      /\ updates \in Seq(Tasks(n)) /\ connections \in [Chats -> 0 .. n]
  BY CallsAre DEF Inv, TypeOK
<1>2. /\ DOMAIN calls' = 1 .. n + 1
      /\ calls'[n + 1] = d
      /\ \A j \in 1 .. n : calls'[j] = cs[j] /\ j \in 1 .. n + 1 /\ j # n + 1
      /\ \A j \in 1 .. n + 1 : j = n + 1 \/ j \in 1 .. n
  BY <1>1
<1>3. \A other \in Chats : connections'[other] = IF other = chat THEN n + 1 ELSE connections[other]
  BY <1>1
<1>4. \A k \in DOMAIN updates : updates[k] \in Tasks(n)
  BY <1>1
<1>. HIDE DEF n
<1>5. \A j \in 1 .. n + 1 : Unbegun(calls'[j], updates, j)
  BY <1>1, <1>2 DEF n
<1>6. Causes'
  <2>1. ASSUME NEW k \in DOMAIN updates, NEW x, x = updates[k], x.task = "remove"
        PROVE  \E j \in DOMAIN calls' : calls'[j].chat = x.chat /\ Ended(calls'[j])
    <3>1. PICK j \in 1 .. n : calls[j].chat = x.chat /\ Ended(calls[j])
      BY <1>1, <2>1 DEF Causes, Caused
    <3>2. cs[j].chat = calls[j].chat /\ (Ended(calls[j]) => Ended(cs[j]))
      BY <1>1
    <3>3. j \in DOMAIN calls' /\ calls'[j] = cs[j]
      BY <1>2
    <3>4. calls'[j].chat = x.chat /\ Ended(calls'[j])
      BY <3>1, <3>2, <3>3
    <3>. QED  BY <3>3, <3>4
  <2>2. updates' = updates
    OBVIOUS
  <2>3. \A j \in DOMAIN calls' : Unbegun(calls'[j], updates', j)
    BY <1>2, <1>5, <2>2
  <2>4. \A k \in DOMAIN updates' : updates'[k].task = "remove" =>
          \E j \in DOMAIN calls' : calls'[j].chat = updates'[k].chat /\ Ended(calls'[j])
    BY <2>1, <2>2
  <2>. QED  BY <2>3, <2>4 DEF Causes, Caused
<1>7. ASSUME Owners, Careful PROVE Owners'
  <2>1. /\ \A k \in DOMAIN updates : ChatOf(updates[k]) # chat
        /\ \A j \in 1 .. n : calls[j].chat = chat => calls[j].phase = "no" /\ ~ Held(j)
    BY <1>1, <1>7 DEF Settled, Held
  <2>2. \A j \in 1 .. n : Held(j)' <=> Held(j)
    BY DEF Held
  <2>3. ASSUME NEW j \in 1 .. n PROVE Owned(j)' /\ Alone(j)'
    <3>1. Owned(j) /\ Alone(j)
      BY <1>1, <1>7 DEF Owners
    <3>2. CASE calls[j].chat = chat
      <4>1. calls[j].phase = "no" /\ ~ Held(j) /\ (Registered(j) => connections[chat] = j)
        BY <2>1, <3>2 DEF Registered
      <4>2. calls'[j].phase = "no" /\ ~ Held(j)' /\ calls'[j].conn # "open"
        BY <1>1, <1>2, <2>2, <3>1, <4>1 DEF Owned
      <4>. QED  BY <4>2 DEF Owned, Alone
    <3>3. CASE calls[j].chat # chat
      <4>1. /\ calls'[j].chat = calls[j].chat /\ calls'[j].phase = calls[j].phase
            /\ calls'[j].conn = "none" => calls[j].conn = "none"
            /\ calls'[j].conn = "open" => calls[j].conn = "open"
            /\ connections'[calls[j].chat] = connections[calls[j].chat]
        BY <1>1, <1>2, <1>3, <3>3
      <4>2. Registered(j) => Registered(j)'
        BY <4>1 DEF Registered
      <4>3. Owned(j)'
        BY <2>2, <3>1, <4>1, <4>2 DEF Owned
      <4>4. Alone(j)'
        BY <2>2, <3>1, <4>1 DEF Alone
      <4>. QED  BY <4>3, <4>4
    <3>. QED  BY <3>2, <3>3
  <2>4. ASSUME NEW j, j = n + 1 PROVE Owned(j)' /\ Alone(j)'
    <3>1. Registered(j)' /\ connections'[calls'[j].chat] = j
      BY <1>2, <1>3, <2>4 DEF Registered
    <3>. QED  BY <3>1 DEF Owned, Alone
  <2>5. ASSUME NEW k \in DOMAIN updates, NEW x, x = updates[k]
        PROVE  Belongs(x)'
    <3>1. Belongs(x) /\ x \in Tasks(n) /\ ChatOf(x) # chat
      BY <1>4, <1>7, <2>1, <2>5 DEF Owners
    <3>2. CASE x.task = "remove"
      <4>1. x.chat \in Chats /\ x.chat # chat /\ connections'[x.chat] = connections[x.chat]
        BY <1>3, <3>1, <3>2 DEF Tasks, ChatOf
      <4>2. connections[x.chat] # 0 => connections[x.chat] \in 1 .. n
        BY <1>1, <4>1, OneChat
      <4>3. connections[x.chat] # 0 => Ended(calls[connections[x.chat]])
        BY <3>1, <3>2 DEF Belongs
      <4>. QED  BY <1>1, <1>2, <3>2, <4>1, <4>2, <4>3 DEF Belongs
    <3>3. CASE x.task # "remove"
      <4>1. x.call \in 1 .. n /\ calls[x.call].chat # chat
        BY <3>1, <3>3 DEF Tasks, ChatOf
      <4>2. connections[calls[x.call].chat] \in {0, x.call}
        BY <3>1, <3>3 DEF Belongs
      <4>3. /\ calls'[x.call].chat = calls[x.call].chat
            /\ connections'[calls[x.call].chat] = connections[calls[x.call].chat]
        BY <1>1, <1>2, <1>3, <4>1
      <4>. QED  BY <3>3, <4>2, <4>3 DEF Belongs
    <3>. QED  BY <3>2, <3>3
  <2>6. \A j \in 1 .. n + 1 : Owned(j)' /\ Alone(j)'
    BY <1>2, <2>3, <2>4
  <2>7. \A k \in DOMAIN updates : Belongs(updates[k])'
    BY <2>5 DEF Belongs
  <2>. QED  BY <1>2, <2>6, <2>7 DEF Owners
<1>. QED  BY <1>6, <1>7 DEF OwnersIfCareful

\* A new call has told nothing, and a conference has its connection.
LEMMA NewCallUnbegun ==
  ASSUME Inv, NEW chat \in Chats, NEW kind \in {"p2p", "group"}, NEW listener \in BOOLEAN
  PROVE  Unbegun(NewCall(chat, kind, listener), updates, Len(calls) + 1)
<1>. DEFINE d == NewCall(chat, kind, listener)
            i == Len(calls) + 1
<1>1. \A k \in DOMAIN updates : updates[k] \in Tasks(Len(calls))
  BY DEF Inv
<1>2. ASSUME NEW k \in DOMAIN updates
      PROVE  ~ Tells(updates[k], i) /\ ~ Watches(updates[k], i)
  BY <1>1, CallsAre DEF Tasks, Tells, Watches
<1>3. Quiet(d, updates, i)
  BY <1>2 DEF Quiet, NewCall
<1>4. /\ d.kind = kind /\ d.phase = "no"
      /\ d.conn = IF kind = "group" THEN "open" ELSE "none"
  BY DEF NewCall
<1>. HIDE DEF d, i
<1>. QED  BY <1>3, <1>4 DEF Unbegun, d, i

LEMMA CreateCallCauses ==
  ASSUME Inv, Causes, OwnersIfCareful, NEW chat \in Chats, NEW kind \in Kinds,
         CreateCall(chat, kind)
  PROVE  Causes' /\ OwnersIfCareful'
<1>. DEFINE d == NewCall(chat, kind, TRUE)
<1>1. kind \in {"p2p", "group"} /\ TRUE \in BOOLEAN
  BY CallAssumption
<1>2. d \in Call /\ d.chat = chat /\ Unbegun(d, updates, Len(calls) + 1)
  BY <1>1, NewCallType, NewCallUnbegun
<1>3. calls' = Append(calls, d) /\ calls \in Seq(Call)
      /\ connections' = [connections EXCEPT ![chat] = Len(calls) + 1]
      /\ UNCHANGED <<updates, stopping, busy>>
      /\ connections[chat] = 0 /\ (Careful => Settled(chat))
  BY DEF CreateCall, Inv, TypeOK
<1>4. \A j \in DOMAIN calls : Unbegun(calls[j], updates, j) /\ j # connections[chat]
  BY <1>3, CallsAre DEF Causes
<1>. HIDE DEF d
<1>. QED  BY <1>2, <1>3, <1>4, AddCauses

\* What a stop keeps of a call: all but its listeners and an open connection.
LEMMA StoppedKeeps ==
  ASSUME NEW c \in Call
  PROVE  /\ Stopped(c).chat = c.chat /\ Stopped(c).kind = c.kind
         /\ Stopped(c).reports = c.reports
         /\ Stopped(c).timers = c.timers /\ Stopped(c).phase = c.phase
         /\ ~ Stopped(c).observed /\ Stopped(c).conn # "open"
         /\ Stopped(c).conn = "none" => c.conn = "none"
BY DEF Stopped, Call

LEMMA InitConferenceCauses ==
  ASSUME Inv, Causes, OwnersIfCareful, NEW chat \in Chats, NEW succeeds \in BOOLEAN,
         InitConference(chat, succeeds)
  PROVE  Causes' /\ OwnersIfCareful'
<1>. DEFINE i == connections[chat]
            d == NewCall(chat, "group", succeeds)
            cs == [calls EXCEPT ![i] = Stopped(@)]
<1>1. d \in Call /\ d.chat = chat /\ Unbegun(d, updates, Len(calls) + 1)
  BY NewCallType, NewCallUnbegun
<1>2. i \in DOMAIN calls /\ calls[i] \in Call /\ Stopped(calls[i]) \in Call
      /\ calls \in Seq(Call)
  BY OneChat, CallsAre, StoppedType DEF InitConference, Inv, TypeOK
<1>3. cs \in Seq(Call) /\ Len(cs) = Len(calls)
  BY <1>2, ExceptSeq
<1>4. \A j \in DOMAIN calls : cs[j] = IF j = i THEN Stopped(calls[i]) ELSE calls[j]
  BY <1>2
<1>5. /\ Stopped(calls[i]).chat = calls[i].chat /\ Stopped(calls[i]).kind = calls[i].kind
      /\ Stopped(calls[i]).reports = calls[i].reports
      /\ Stopped(calls[i]).timers = calls[i].timers /\ Stopped(calls[i]).phase = calls[i].phase
      /\ ~ Stopped(calls[i]).observed /\ Stopped(calls[i]).conn # "open"
      /\ Stopped(calls[i]).conn = "none" => calls[i].conn = "none"
  BY <1>2, StoppedKeeps
<1>6. ASSUME NEW j \in DOMAIN calls
      PROVE  /\ cs[j].chat = calls[j].chat /\ cs[j].phase = calls[j].phase
             /\ Ended(calls[j]) => Ended(cs[j])
             /\ cs[j].conn = "none" => calls[j].conn = "none"
             /\ cs[j].conn = "open" => calls[j].conn = "open" /\ j # i
             /\ Unbegun(cs[j], updates, j)
  <2>1. Unbegun(calls[j], updates, j)
    BY DEF Causes
  <2>2. CASE j # i
    BY <1>4, <2>1, <2>2
  <2>3. CASE j = i
    <3>1. cs[j] = Stopped(calls[j])
      BY <1>4, <2>3
    <3>. HIDE DEF cs
    <3>2. /\ cs[j].chat = calls[j].chat /\ cs[j].kind = calls[j].kind
          /\ cs[j].reports = calls[j].reports
          /\ cs[j].timers = calls[j].timers /\ cs[j].phase = calls[j].phase
          /\ ~ cs[j].observed
          /\ cs[j].conn # "open" /\ (cs[j].conn = "none" => calls[j].conn = "none")
      BY <1>5, <2>3, <3>1
    <3>. QED  BY <2>1, <3>2 DEF Ended, Unbegun, Quiet
  <2>. QED  BY <2>2, <2>3
<1>7. calls' = Append(cs, d)
      /\ connections' = [connections EXCEPT ![chat] = Len(calls) + 1]
      /\ UNCHANGED <<updates, stopping, busy>>
      /\ (Careful => Settled(chat))
  BY DEF InitConference
<1>. HIDE DEF cs, d
<1>. QED  BY <1>1, <1>3, <1>6, <1>7, AddCauses

\* No step leaves a connection to nobody or ends a call for no cause.
LEMMA NextCauses ==
  ASSUME Inv, AllGood, Causes, OwnersIfCareful, [Next]_vars
  PROVE  Causes' /\ OwnersIfCareful'
<1>1. CASE \E chat \in Chats :
             \/ \E kind \in Kinds : CreateCall(chat, kind)
             \/ \E succeeds \in BOOLEAN : InitConference(chat, succeeds)
             \/ FetchToConnect(chat) \/ Stop(chat)
  BY <1>1, CreateCallCauses, InitConferenceCauses, FetchCauses, StopCauses
<1>2. CASE (\E chat \in Chats : StopMissing(chat)) \/ UNCHANGED vars
  <2>1. UNCHANGED <<connections, calls, updates, stopping, busy>>
    BY <1>2 DEF StopMissing, vars
  <2>2. Causes'
    BY <2>1 DEF Causes, Caused
  <2>3. ASSUME Owners PROVE Owners'
    BY <2>1, <2>3 DEF Owners, Owned, Alone, Belongs, Registered, Held
  <2>. QED  BY <2>2, <2>3 DEF OwnersIfCareful
<1>3. CASE \E i \in DOMAIN calls :
             \/ ConnectP2P(i) \/ (\E mode \in Modes : ConnectGroup(i, mode))
             \/ ConnectGroupEnds(i) \/ StopEnds(i)
  <2>. SUFFICES ASSUME NEW i \in DOMAIN calls,
                       \/ ConnectP2P(i) \/ (\E mode \in Modes : ConnectGroup(i, mode))
                       \/ ConnectGroupEnds(i) \/ StopEnds(i)
                PROVE  Causes' /\ OwnersIfCareful'
    BY <1>3
  <2>. QED  BY ConnectP2PCauses, ConnectGroupCauses, ConnectGroupEndsCauses, StopEndsCauses
<1>4. CASE \E i \in DOMAIN calls :
             \/ TransportChanges(i) \/ RouteChanges(i) \/ StreamConnected(i)
             \/ CheckConnectionTimeout(i) \/ RunNotice(i) \/ Timer(i)
  <2>. SUFFICES ASSUME NEW i \in DOMAIN calls,
                       \/ TransportChanges(i) \/ RouteChanges(i) \/ StreamConnected(i)
                       \/ CheckConnectionTimeout(i) \/ RunNotice(i) \/ Timer(i)
                PROVE  Causes' /\ OwnersIfCareful'
    BY <1>4
  <2>1. CASE \/ TransportChanges(i) \/ RouteChanges(i) \/ StreamConnected(i)
             \/ CheckConnectionTimeout(i)
    <3>1. GoesOnStep(i)
      BY <2>1, TransportChangesGoesOn, RouteChangesGoesOn, StreamConnectedGoesOn,
         CheckConnectionTimeoutGoesOn
    <3>. QED  BY <3>1, GoesOnStepCauses
  <2>. QED  BY <2>1, RunNoticeCauses, TimerCauses
<1>5. CASE StopConnections \/ RemoveEnds
  BY <1>5, StopConnectionsCauses, RemoveEndsCauses
<1>6. CASE Observe \/ Notify \/ Remove
  BY <1>6, ObserveCauses, NotifyCauses, RemoveCauses
<1>. QED  BY <1>1, <1>2, <1>3, <1>4, <1>5, <1>6 DEF Next

LEMMA CausesInvariance == Spec => [](Inv /\ Causes /\ OwnersIfCareful)
<1>1. Init => Causes /\ OwnersIfCareful
  BY DEF Init, Causes, OwnersIfCareful, Owners
<1>2. Inv /\ AllGood /\ Causes /\ OwnersIfCareful /\ [Next]_vars => Causes' /\ OwnersIfCareful'
  BY NextCauses
<1>. QED  BY <1>1, <1>2, GoodInvariance, PTL DEF Spec

\* If the application leaves a busy chat alone, a connection that is open is that of a
\* chat's call, or of a call that a thread is connecting or stopping: none is forgotten
\* (NTgCalls' connections_ and the shared pointers of the tasks).
THEOREM NothingLeaks ==
  ASSUME Careful
  PROVE  Spec => []NothingLeftOpen
<1>1. Inv /\ OwnersIfCareful => NothingLeftOpen
  <2>. SUFFICES ASSUME Inv, OwnersIfCareful, NEW i \in DOMAIN calls, calls[i].conn = "open"
                PROVE  Alive(i)
    BY DEF NothingLeftOpen
  <2>1. Registered(i) \/ Held(i)
    BY DEF OwnersIfCareful, Owners, Owned
  <2>2. calls[i].chat \in Chats
    BY CallsAre
  <2>. QED  BY <2>1, <2>2 DEF Registered, Held, Alive
<1>. QED  BY <1>1, CausesInvariance, PTL

\* A call that the update thread takes out has its cause.
LEMMA TakenOutForCause ==
  ASSUME Inv, Causes, OwnersIfCareful, [Next]_vars, busy' \notin {0, busy}
  PROVE  \E j \in DOMAIN calls :
           /\ calls[j].chat = calls[busy'].chat
           /\ Careful => j = busy'
           /\ \E k \in DOMAIN calls[j].reports : calls[j].reports[k] \in Final
<1>1. Remove
  <2>1. CASE \E chat \in Chats :
               \/ \E kind \in Kinds : CreateCall(chat, kind)
               \/ \E succeeds \in BOOLEAN : InitConference(chat, succeeds)
               \/ FetchToConnect(chat) \/ Stop(chat) \/ StopMissing(chat)
    BY <2>1
       DEF CreateCall, InitConference, FetchToConnect, Stop, StopMissing
  <2>2. CASE \E i \in DOMAIN calls :
               \/ ConnectP2P(i) \/ (\E mode \in Modes : ConnectGroup(i, mode))
               \/ ConnectGroupEnds(i) \/ StopEnds(i)
    BY <2>2
       DEF ConnectP2P, ConnectGroup, ConnectGroupEnds, SetConnectionObserver,
           LeaveConnect, StopEnds
  <2>3. CASE \E i \in DOMAIN calls :
               \/ TransportChanges(i) \/ RouteChanges(i) \/ StreamConnected(i)
               \/ CheckConnectionTimeout(i) \/ RunNotice(i) \/ Timer(i)
    BY <2>3
       DEF TransportChanges, RouteChanges, StreamConnected, CheckConnectionTimeout,
           RunNotice, Timer
  <2>4. CASE StopConnections \/ Observe \/ Notify \/ RemoveEnds \/ UNCHANGED vars
    BY <2>4 DEF StopConnections, Observe, Notify, RemoveEnds, vars
  <2>. QED  BY <2>1, <2>2, <2>3, <2>4 DEF Next
<1>. DEFINE x == Head(updates)
<1>2. x.task = "remove" /\ busy' = connections[x.chat] /\ updates # <<>>
  BY <1>1 DEF Remove, Take
<1>3. /\ updates \in Seq(Tasks(Len(calls))) /\ 1 \in DOMAIN updates /\ x = updates[1]
  BY <1>2 DEF Inv
<1>4. x \in Tasks(Len(calls))
  BY <1>3
<1>. HIDE DEF x
<1>5. x.chat \in Chats
  BY <1>2, <1>4 DEF Tasks
<1>6. Caused(x)
  BY <1>3 DEF Causes
<1>7. Owners => Belongs(x)
  BY <1>3 DEF Owners
<1>8. busy' \in DOMAIN calls /\ calls[busy'].chat = x.chat
  <2>1. connections[x.chat] # 0
    BY <1>2
  <2>2. connections[x.chat] \in DOMAIN calls
    BY <1>5, <2>1, OneChat
  <2>3. calls[connections[x.chat]].chat = x.chat
    BY <1>5, <2>1 DEF Inv, TypeOK
  <2>. QED  BY <1>2, <2>2, <2>3
<1>9. CASE Careful
  <2>1. Ended(calls[busy'])
    BY <1>2, <1>7, <1>9 DEF OwnersIfCareful, Belongs
  <2>. QED  BY <1>8, <2>1 DEF Ended
<1>10. CASE ~ Careful
  <2>1. PICK j \in DOMAIN calls : calls[j].chat = x.chat /\ Ended(calls[j])
    BY <1>2, <1>6 DEF Caused
  <2>. QED  BY <1>8, <1>10, <2>1 DEF Ended
<1>. QED  BY <1>9, <1>10

\* The library takes a call out only after the application was told of an end: of that
\* very call if it leaves a busy chat alone, else of some call of the chat (the removal
\* that NTgCalls' connection change callback posts knows the chat only).
THEOREM RemovedWithCause == Spec => RemovedForCause
<1>1. Inv /\ Causes /\ OwnersIfCareful /\ [Next]_vars =>
        [busy' \notin {0, busy} =>
           \E j \in DOMAIN calls :
             /\ calls[j].chat = calls[busy'].chat
             /\ Careful => j = busy'
             /\ \E k \in DOMAIN calls[j].reports : calls[j].reports[k] \in Final]_vars
  BY TakenOutForCause
<1>. QED  BY <1>1, CausesInvariance, PTL DEF Spec, RemovedForCause

=============================================================================
