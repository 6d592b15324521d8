------------------------------ MODULE Session ------------------------------
(***************************************************************************)
(* The synchronisation of one participant of an encrypted conference with  *)
(* the two subchains the server keeps for it (ntgcalls::e2e::Session):     *)
(* Main, the blocks that change the group and its key, and Broadcast, the  *)
(* key-verification messages.  Blocks arrive pushed, in any order and      *)
(* perhaps never, or in the pages of a short poll the application performs *)
(* when the session asks for one.  A block is the index the server gave    *)
(* it.  Each operation of the session is a function from its state to its  *)
(* state; the actions at the end of the module are their callers.          *)
(***************************************************************************)
EXTENDS Integers, Sequences, Runs

CONSTANTS
  Slots,        \* requests the application can be serving at a time
  JoinIndex,    \* the main block that adds this user to the group
  LeaveIndex,   \* the main block that removes it again
  PageSize,     \* blocks the server returns for one request, at most
  MaxMain,      \* bound: main blocks the server ever produces
  MaxBroadcast, \* bound: broadcast blocks the server ever produces
  MaxPushes,    \* bound: updates pushed to the participant
  MaxErrors,    \* bound: requests that fail on their way to the server
  MaxConnects   \* bound: calls of connect (the call, then its presentation)

ASSUME SessionAssumption ==
  /\ JoinIndex \in Nat
  /\ LeaveIndex \in Nat
  /\ PageSize \in Nat \ {0}
  /\ MaxMain \in Nat
  /\ MaxBroadcast \in Nat
  /\ MaxPushes \in Nat
  /\ MaxErrors \in Nat
  /\ MaxConnects \in Nat
  /\ JoinIndex < LeaveIndex
  /\ JoinIndex < MaxMain

VARIABLES
  session,    \* the Session object
  server,     \* blocks the server has in each subchain
  trimmed,    \* broadcast blocks the server no longer serves
  request,    \* what the application is doing for each request it serves
  pushes,     \* updates pushed so far
  errors,     \* requests failed so far
  connects    \* calls of connect so far

vars == <<session, server, trimmed, request, pushes, errors, connects>>

Main == 0
Broadcast == 1
Chains == {Main, Broadcast}

MaxLen(c) == IF c = Main THEN MaxMain ELSE MaxBroadcast

\* The group of main block i has this user among its participants.
Member(i) == JoinIndex <= i /\ i < LeaveIndex

-----------------------------------------------------------------------------
(* The state of a Session. A timer is live when the task with the current  *)
(* generation is still queued; a task of an older generation does nothing  *)
(* when it runs, so it is not recorded.  Two queued requests that ask the   *)
(* same question count as one.                                              *)

SessionState ==
  [height        : [Chains -> Nat],         \* next index to apply
   waiting       : [Chains -> SUBSET Nat],  \* pushed blocks that came early
   waitingActive : [Chains -> BOOLEAN],     \* the 1 s timer is live
   pollTimer     : [Chains -> BOOLEAN],     \* the 5 s timer is live
   shortPolling  : [Chains -> BOOLEAN],     \* a request is unanswered
   tip           : Nat \cup {-1},           \* blockchain_->height(), or none
   failed        : BOOLEAN,
   lastBlock     : Nat,                     \* last_block_height_
   asks          : SUBSET (Chains \X Nat),  \* requests queued to the app
   log           : [Chains -> Seq(Nat)]]    \* history: blocks applied, in order

EmptySession ==
  [height        |-> [c \in Chains |-> 0],
   waiting       |-> [c \in Chains |-> {}],
   waitingActive |-> [c \in Chains |-> FALSE],
   pollTimer     |-> [c \in Chains |-> FALSE],
   shortPolling  |-> [c \in Chains |-> FALSE],
   tip           |-> -1,
   failed        |-> FALSE,
   lastBlock     |-> 0,
   asks          |-> {},
   log           |-> [c \in Chains |-> <<>>]]

Created(s) == s.tip # -1   \* blockchain_ holds a value

-----------------------------------------------------------------------------
(* Timers and requests.                                                     *)

ScheduleWaiting(s, c) == [s EXCEPT !.waitingActive[c] = TRUE]

CancelWaiting(s, c) == [s EXCEPT !.waitingActive[c] = FALSE]

\* Mutant: the next poll is never scheduled.
ForgetShortPoll(s, c) == s

ScheduleShortPoll(s, c) == [s EXCEPT !.pollTimer[c] = TRUE]

CancelShortPoll(s, c) == [s EXCEPT !.pollTimer[c] = FALSE]

\* Mutant: no subchain is polled before there is a blockchain.
ShortPollWhenCreated(s, c) ==
  LET idle == CancelShortPoll(CancelWaiting(s, c), c)
  IN  IF ~Created(s)
      THEN ScheduleWaiting(idle, c)
      ELSE [idle EXCEPT !.shortPolling[c] = TRUE,
                        !.asks = @ \cup {<<c, s.height[c]>>}]

\* The broadcast chain is not polled before there is a blockchain.
ShortPoll(s, c) ==
  LET idle == CancelShortPoll(CancelWaiting(s, c), c)
  IN  IF c = Broadcast /\ ~Created(s)
      THEN ScheduleWaiting(idle, c)
      ELSE [idle EXCEPT !.shortPolling[c] = TRUE,
                        !.asks = @ \cup {<<c, s.height[c]>>}]

-----------------------------------------------------------------------------
(* Taking blocks.                                                           *)

\* apply() on the broadcast blocks first .. next - 1: each is handed to the
\* key verification, which needs the blockchain.
TakeBroadcast(s, first, next) ==
  IF Created(s)
  THEN [s EXCEPT !.log[Broadcast] = @ \o Run(first, next)]
  ELSE [s EXCEPT !.failed = TRUE]

\* apply() on the main block first when there is no blockchain: it becomes
\* the blockchain, and the timers that are not running are started.
CreateFrom(s, first) ==
  [s EXCEPT !.tip = first,
            !.failed = @ \/ ~Member(first),
            !.log[Main] = Append(@, first),
            !.pollTimer = [c \in Chains |->
              @[c] \/ (Member(first) /\ ~s.waitingActive[c])]]

\* apply() on the main blocks first .. next - 1, one after the other: the
\* blockchain takes a block only if it is the one after its tip, and the
\* session fails on a block it does not take, and on a group without it.
ExtendWith(s, first, next) ==
  [s EXCEPT !.tip = IF first <= @ + 1 THEN Larger(@, next - 1) ELSE @,
            !.failed = \/ @
                       \/ first # s.tip + 1
                       \/ \E i \in first .. next - 1 : ~Member(i),
            !.log[Main] = @ \o Run(first, next)]

\* apply() on the blocks first .. next - 1 of a subchain.
Apply(s, c, first, next) ==
  IF first >= next THEN s
  ELSE IF c = Broadcast THEN TakeBroadcast(s, first, next)
  ELSE IF Created(s) THEN ExtendWith(s, first, next)
  ELSE IF first + 1 = next THEN CreateFrom(s, first)
  ELSE ExtendWith(CreateFrom(s, first), first + 1, next)

-----------------------------------------------------------------------------
(* Blocks that came early.                                                  *)

\* The first index at or after the height that is not waiting.
GapAfter(s, c) ==
  CHOOSE i \in s.height[c] .. MaxLen(c) :
    /\ s.height[c] .. i - 1 \subseteq s.waiting[c]
    /\ i \notin s.waiting[c]

\* The waiting blocks that are next, in their order, up to the first that
\* makes the session fail; the ones behind the height are dropped.
Drain(s, c) ==
  LET h    == s.height[c]
      gap  == GapAfter(s, c)
      bad  == {i \in h .. gap - 1 : c = Main /\ (h # s.tip + 1 \/ ~Member(i))}
      stop == IF bad = {} THEN gap
              ELSE CHOOSE i \in bad : \A j \in bad : i <= j
      done == Apply(s, c, h, IF bad = {} THEN gap ELSE stop + 1)
  IN  [done EXCEPT !.height[c] = stop,
                   !.waiting[c] = {i \in @ : i >= stop}]

CheckWaitingBlocks(s, c, waited) ==
  IF s.failed THEN s
  ELSE IF ~Created(s) THEN ScheduleWaiting(s, c)
  ELSE IF s.shortPolling[c] THEN s
  ELSE LET drained == Drain(CancelShortPoll(s, c), c)
       IN  IF drained.failed THEN drained
           ELSE IF drained.waiting[c] = {}
           THEN ScheduleShortPoll(CancelWaiting(drained, c), c)
           ELSE IF waited THEN ShortPoll(drained, c)
           ELSE ScheduleWaiting(drained, c)

-----------------------------------------------------------------------------
(* The operations the application and the timers call.                      *)

\* Mutant: a pushed block is applied although blocks before it are missing.
NeverTooEarly(s, c, first) == c = Broadcast /\ ~Created(s)

\* A pushed block waits while there are blocks missing before it, and a
\* pushed broadcast while there is no blockchain.
TooEarly(s, c, first) ==
  first > s.height[c] \/ (c = Broadcast /\ ~Created(s))

\* Mutant: blocks below the height are applied again.
FirstGiven(s, c, first) == first

\* Where the loop over the blocks from first on begins to apply them. The
\* first main block ever is applied whatever its index; a page of broadcasts
\* moves the height to its start; a main block beyond the height is passed.
FirstApplied(s, c, first) ==
  IF (c = Main /\ ~Created(s)) \/ (c = Broadcast /\ first > s.height[c])
  THEN first
  ELSE IF first > s.height[c] THEN first + 1 ELSE s.height[c]

HeightAfter(s, c, next) == Larger(s.height[c], next)

\* last_block_height_, the end of the newest main block seen.
NoteLastBlock(s, c, first, next) ==
  [s EXCEPT !.lastBlock =
     IF c = Main /\ first < next /\ next > @ THEN next ELSE @]

\* The blocks first .. next - 1 of an update or of a page of a short poll. A
\* page replaces the pushed blocks it covers.
ApplyBlocks(s, c, first, next, fromShortPoll) ==
  LET noted == NoteLastBlock(s, c, first, next)
      kept  == [noted EXCEPT !.waiting[c] =
                  IF fromShortPoll THEN {i \in @ : i >= next} ELSE @]
  IN  IF fromShortPoll /\ c = Broadcast /\ ~Created(s) /\ first < next
      THEN [kept EXCEPT !.failed = TRUE]
      ELSE IF s.failed THEN kept
      ELSE IF ~fromShortPoll /\ TooEarly(s, c, first)
      THEN CheckWaitingBlocks(
             [kept EXCEPT !.waiting[c] = @ \cup (first .. next - 1)], c, FALSE)
      ELSE CheckWaitingBlocks(
             [Apply(kept, c, FirstApplied(s, c, first), next)
                EXCEPT !.height[c] = HeightAfter(s, c, next)], c, FALSE)

FinishSubchainRequest(s, c) ==
  IF s.failed THEN s
  ELSE CheckWaitingBlocks([s EXCEPT !.shortPolling[c] = FALSE], c, FALSE)

-----------------------------------------------------------------------------
(* The program around the session: ConferenceCall::connect, the update      *)
(* thread that runs the timers, the application and the server.             *)

NoRequest == [stage |-> "free", chain |-> Main, first |-> 0, next |-> 0]

Init ==
  /\ session = EmptySession
  /\ server = [c \in Chains |-> IF c = Main THEN JoinIndex + 1 ELSE 0]
  /\ trimmed = 0
  /\ request = [r \in Slots |-> NoRequest]
  /\ pushes = 0
  /\ errors = 0
  /\ connects = 0

Connect ==
  /\ connects < MaxConnects
  /\ connects' = connects + 1
  /\ session' = ShortPoll(ShortPoll(session, Main), Broadcast)
  /\ UNCHANGED <<server, trimmed, request, pushes, errors>>

WaitingTimer(c) ==
  /\ session.waitingActive[c]
  /\ session' = CheckWaitingBlocks(CancelWaiting(session, c), c, TRUE)
  /\ UNCHANGED <<server, trimmed, request, pushes, errors, connects>>

PollTimer(c) ==
  /\ session.pollTimer[c]
  /\ session' = ShortPoll(session, c)
  /\ UNCHANGED <<server, trimmed, request, pushes, errors, connects>>

\* An update that carries the blocks first .. next - 1.
Push(c, first, next) ==
  /\ pushes < MaxPushes
  /\ first < next
  /\ next <= server[c]
  /\ c = Main => first >= JoinIndex
  /\ pushes' = pushes + 1
  /\ session' = ApplyBlocks(session, c, first, next, FALSE)
  /\ UNCHANGED <<server, trimmed, request, errors, connects>>

\* The server's answer to a request: its blocks from the asked height on.
\* It serves a member the main blocks from the one that added it.
PageFirst(c, height) ==
  IF c = Main THEN Larger(height, JoinIndex) ELSE Larger(height, trimmed)

PageNext(c, first) ==
  IF first + PageSize <= server[c] THEN first + PageSize
  ELSE Larger(first, server[c])

\* The application takes a request from the queue and fetches its page. A
\* page without blocks is not applied.
OnSubchainRequest(r, c, height) ==
  LET first == PageFirst(c, height)
      next  == PageNext(c, first)
  IN  /\ request[r].stage = "free"
      /\ <<c, height>> \in session.asks
      /\ request' = [request EXCEPT ![r] =
           [stage |-> IF first < next THEN "fetched" ELSE "answered",
            chain |-> c, first |-> first, next |-> next]]
      /\ session' = [session EXCEPT !.asks = @ \ {<<c, height>>}]
      /\ UNCHANGED <<server, trimmed, pushes, errors, connects>>

\* The same when the fetch fails: there is nothing to apply.
OnSubchainRequestFails(r, c, height) ==
  /\ errors < MaxErrors
  /\ request[r].stage = "free"
  /\ <<c, height>> \in session.asks
  /\ request' = [request EXCEPT ![r] =
       [stage |-> "answered", chain |-> c, first |-> 0, next |-> 0]]
  /\ session' = [session EXCEPT !.asks = @ \ {<<c, height>>}]
  /\ errors' = errors + 1
  /\ UNCHANGED <<server, trimmed, pushes, connects>>

ApplyPage(r) ==
  /\ request[r].stage = "fetched"
  /\ session' = ApplyBlocks(session, request[r].chain, request[r].first,
                            request[r].next, TRUE)
  /\ request' = [request EXCEPT ![r].stage = "answered"]
  /\ UNCHANGED <<server, trimmed, pushes, errors, connects>>

FinishRequest(r) ==
  /\ request[r].stage = "answered"
  /\ session' = FinishSubchainRequest(session, request[r].chain)
  /\ request' = [request EXCEPT ![r] = NoRequest]
  /\ UNCHANGED <<server, trimmed, pushes, errors, connects>>

Produce(c) ==
  /\ server[c] < MaxLen(c)
  /\ server' = [server EXCEPT ![c] = @ + 1]
  /\ UNCHANGED <<session, trimmed, request, pushes, errors, connects>>

\* The server stops serving its oldest broadcast.
Trim ==
  /\ trimmed < server[Broadcast]
  /\ trimmed' = trimmed + 1
  /\ UNCHANGED <<session, server, request, pushes, errors, connects>>

Next ==
  \/ Connect
  \/ \E c \in Chains : WaitingTimer(c) \/ PollTimer(c) \/ Produce(c)
  \/ \E c \in Chains, first, next \in 0 .. MaxMain + MaxBroadcast :
       Push(c, first, next)
  \/ \E r \in Slots, c \in Chains, height \in 0 .. MaxMain + MaxBroadcast :
       OnSubchainRequest(r, c, height) \/ OnSubchainRequestFails(r, c, height)
  \/ \E r \in Slots : ApplyPage(r) \/ FinishRequest(r)
  \/ Trim

Spec == Init /\ [][Next]_vars

\* The update thread runs every timer, and its queued tasks in their order,
\* so no request waits for ever behind those of the other subchain; the
\* application ends every request it took. The rest may never happen.
Fairness ==
  /\ \A c \in Chains : WF_vars(WaitingTimer(c)) /\ WF_vars(PollTimer(c))
  /\ \A c \in Chains : SF_vars(\E r \in Slots, h \in 0 .. MaxLen(c) :
                                 OnSubchainRequest(r, c, h))
  /\ \A r \in Slots : WF_vars(ApplyPage(r)) /\ WF_vars(FinishRequest(r))

FairSpec == Spec /\ Fairness

-----------------------------------------------------------------------------
(* Properties.                                                              *)

\* The session and its surroundings have the shapes declared above, and the
\* session knows of no block the server has not produced.
TypeOK ==
  /\ session \in SessionState
  /\ \A c \in Chains : /\ session.height[c] <= server[c]
                       /\ session.waiting[c] \subseteq 0 .. server[c] - 1
  /\ server \in [Chains -> Nat]
  /\ trimmed \in Nat
  /\ request \in [Slots -> [stage : {"free", "fetched", "answered"},
                           chain : Chains, first : Nat, next : Nat]]
  /\ pushes \in Nat
  /\ errors \in Nat
  /\ connects \in Nat

\* The cursor of the main subchain and the blockchain's own height move
\* together: the next block asked of the server is the one after the tip.
HeightFollowsTip ==
  ~session.failed =>
    session.height[Main] = IF Created(session) THEN session.tip + 1 ELSE 0

\* However pushes, pages and timers interleave, an honest server makes the
\* session fail in one way only: by a block whose group lacks the user.
FailsExactlyWhenRemoved ==
  session.failed <=> Created(session) /\ ~Member(session.tip)

\* A broadcast below the height was handed to the verification, unless the
\* server had discarded it.
NoBroadcastSkipped ==
  ~session.failed =>
    \A i \in 0 .. session.height[Broadcast] - 1 :
      \/ i < trimmed
      \/ \E k \in DOMAIN session.log[Broadcast] : session.log[Broadcast][k] = i

\* The main blocks are applied in order, each once, none skipped.
MainReplica == INSTANCE OrderedReplica
  WITH Gapless <- TRUE, source <- server[Main], log <- session.log[Main]

MainInOrder == MainReplica!Spec

\* The broadcasts are applied in order, each at most once.
BroadcastReplica == INSTANCE OrderedReplica
  WITH Gapless <- FALSE, source <- server[Broadcast],
       log <- session.log[Broadcast]

BroadcastInOrder == BroadcastReplica!Spec

\* Once the server produces no more, a session that has a blockchain comes to have
\* every block, with no help from the pushed updates, unless the server discarded it.
CatchesUp ==
  <>[](Created(session) /\ ~session.failed =>
         \A c \in Chains :
           session.height[c] = server[c] \/ (c = Broadcast /\ trimmed = server[c]))

\* As long as no request fails, connecting leads to a blockchain.
ConnectCreates ==
  (connects > 0) ~> (Created(session) \/ session.failed \/ errors > 0)

=============================================================================
