---------------------------- MODULE MediaProofs ----------------------------
(***************************************************************************)
(* Proofs about the media of a call: what is captured (StreamManager) and  *)
(* what a group call receives (IncomingSources).                           *)
(*                                                                         *)
(* StreamManager, for any devices, sources, number of readers and calls.   *)
(* StreamTypes is the type invariant; on it rest three inductive           *)
(* invariants, each of which every action is shown to preserve: PlayInv    *)
(* (a reader that plays is in a list, and some thread is about to work it  *)
(* off), CauseInv (no device in the barrier has a reader that plays, until *)
(* a device becomes external while one does) and ToldInv (when the         *)
(* listener does not know the state, it is about to be told).              *)
(*                                                                         *)
(* IncomingSources, for any speakers, cameras, answers and limit. Leads is *)
(* what each operation on the connection keeps, so that a loop of them     *)
(* keeps it too; IncomingInv adds what is wanted.                          *)
(***************************************************************************)
EXTENDS StreamManager, IncomingSources, FiniteSetTheorems, WellFoundedInduction, TLAPS


-----------------------------------------------------------------------------
(* The types of StreamManager.                                              *)

Reader ==
  [device : Device, running : BOOLEAN, enabled : BOOLEAN, heard : BOOLEAN,
   thread : {"out", "called", "waiting", "sending"}]

IsSources(s) ==
  /\ DOMAIN s = {"readers", "removed", "external", "syncing", "cancelled"}
  /\ DOMAIN s.readers \subseteq Device
  /\ \A d \in DOMAIN s.readers : s.readers[d] \in Nat
  /\ s.removed \in Seq(Device \X Nat)

Flags ==
  [initialized : BOOLEAN, detached : BOOLEAN, resume : BOOLEAN, closed : BOOLEAN,
   tracks : BOOLEAN, muted : BOOLEAN]

Task == [task : {"emit", "eof"}, device : Device]

Steps == {"idle", "configure", "take", "destroy", "join", "read", "remember"}

IsCall(c) ==
  /\ DOMAIN c = {"step", "rest", "wants", "doomed", "keys", "state"}
  /\ c.step \in Steps
  /\ c.rest \in Seq(Device)
  /\ c.doomed \in Seq(Nat)
  /\ c.step = "join" => c.doomed # <<>>

History == [calls : Nat, thrown : BOOLEAN, switched : SUBSET Device, untold : BOOLEAN]

StreamTypes ==
  /\ made \in Seq(Reader)
  /\ IsSources(sources)
  /\ flags \in Flags
  /\ tasks \in Seq(Task)
  /\ DOMAIN doing = Threads
  /\ \A t \in Threads : IsCall(doing[t])
  /\ history \in History
  /\ crashed \in BOOLEAN

LEMMA FirstIsDevice == Order[1] \in Device
BY StreamAssumption DEF Device

LEMMA Idles == IsCall(Idle) /\ Idle.step = "idle" /\ Idle.doomed = <<>> /\ Idle.state = <<>>
BY DEF Idle, IsCall, Steps

\* What remove_reader does to the maps.
Removal(s, d, x) ==
  /\ IsSources(x)
  /\ DOMAIN x.readers = DOMAIN s.readers \ {d}
  /\ \A e \in DOMAIN x.readers : x.readers[e] = s.readers[e]
  /\ x.removed = IF d \in DOMAIN s.readers THEN Append(s.removed, <<d, s.readers[d]>>)
                 ELSE s.removed
  /\ x.syncing = s.syncing \ {d}
  /\ x.external = s.external \ {d}

LEMMA Removes ==
  ASSUME NEW s, IsSources(s), NEW d \in Device
  PROVE  Removal(s, d, RemoveReader(s, d))
<1> DEFINE x == RemoveReader(s, d)
<1>1. /\ DOMAIN x = {"readers", "removed", "external", "syncing", "cancelled"}
      /\ x.readers = Without(s.readers, d)
      /\ x.removed = IF d \in DOMAIN s.readers THEN Append(s.removed, <<d, s.readers[d]>>)
                     ELSE s.removed
      /\ x.syncing = s.syncing \ {d}
      /\ x.external = s.external \ {d}
  BY DEF RemoveReader, IsSources
<1>2. /\ DOMAIN x.readers = DOMAIN s.readers \ {d}
      /\ \A e \in DOMAIN x.readers : x.readers[e] = s.readers[e]
  BY <1>1 DEF Without
<1>3. x.removed \in Seq(Device \X Nat)
  BY <1>1 DEF IsSources
<1> HIDE DEF x
<1>4. IsSources(x)
  BY <1>1, <1>2, <1>3 DEF IsSources
<1>5. Removal(s, d, x)
  BY <1>1, <1>2, <1>4 DEF Removal
<1>6. QED BY <1>5 DEF x

LEMMA EnablesAll ==
  ASSUME StreamTypes, NEW value \in BOOLEAN
  PROVE  /\ EnableAll(value) \in Seq(Reader)
         /\ DOMAIN EnableAll(value) = DOMAIN made
         /\ \A r \in DOMAIN made :
              /\ EnableAll(value)[r].device = made[r].device
              /\ EnableAll(value)[r].running = made[r].running
              /\ EnableAll(value)[r].heard = made[r].heard
              /\ EnableAll(value)[r].thread = made[r].thread
              /\ EnableAll(value)[r].enabled =
                   IF r \in Current THEN value ELSE made[r].enabled
<1>1. \A r \in DOMAIN made : made[r] \in Reader
  BY DEF StreamTypes
<1>2. /\ DOMAIN EnableAll(value) = DOMAIN made
      /\ \A r \in DOMAIN made :
              /\ EnableAll(value)[r] \in Reader
              /\ EnableAll(value)[r].device = made[r].device
              /\ EnableAll(value)[r].running = made[r].running
              /\ EnableAll(value)[r].heard = made[r].heard
              /\ EnableAll(value)[r].thread = made[r].thread
              /\ EnableAll(value)[r].enabled =
                   IF r \in Current THEN value ELSE made[r].enabled
  BY <1>1 DEF EnableAll, Reader
<1>3. EnableAll(value) \in Seq(Reader)
  BY <1>2 DEF StreamTypes, EnableAll
<1>4. QED BY <1>2, <1>3

\* A reader of made in its new state.
LEMMA MadeChanges ==
  ASSUME StreamTypes, NEW r \in DOMAIN made, NEW x \in Reader, made' = [made EXCEPT ![r] = x]
  PROVE  /\ made' \in Seq(Reader)
         /\ DOMAIN made' = DOMAIN made
         /\ made'[r] = x
         /\ \A q \in DOMAIN made : q # r => made'[q] = made[q]
BY DEF StreamTypes

LEMMA CallChanges ==
  ASSUME StreamTypes, NEW t \in Threads, NEW c, IsCall(c), doing' = [doing EXCEPT ![t] = c]
  PROVE  /\ DOMAIN doing' = Threads
         /\ \A u \in Threads : IsCall(doing'[u])
         /\ doing'[t] = c
         /\ \A u \in Threads : u # t => doing'[u] = doing[u]
BY DEF StreamTypes

LEMMA SortedDevices ==
  ASSUME NEW devices, NEW f \in Sorted(devices)
  PROVE  /\ f \in [1 .. Cardinality(devices) -> devices]
         /\ \A d \in devices : \E i \in DOMAIN f : f[i] = d
<1>1. f \in Bijection(1 .. Cardinality(devices), devices)
  BY DEF Sorted
<1>2. QED BY <1>1 DEF Bijection, Injection, Surjection

\* The readers of some devices that are in the map.
LEMMA FirstReaders ==
  ASSUME IsSources(sources), NEW f \in Sorted(DOMAIN sources.readers)
  PROVE  [i \in DOMAIN f |-> sources.readers[f[i]]] \in Seq(Nat)
<1> DEFINE D == DOMAIN sources.readers
<1>1. IsFiniteSet(D)
  <2>1. D \subseteq Device
    BY DEF IsSources
  <2>2. IsFiniteSet(Device)
    <3>1. DOMAIN Order = 1 .. Len(Order) /\ Len(Order) \in Nat
      BY StreamAssumption
    <3>2. IsFiniteSet(DOMAIN Order)
      BY <3>1, FS_Interval
    <3> DEFINE g == [i \in DOMAIN Order |-> Order[i]]
    <3>3. g \in [DOMAIN Order -> Device] /\ \A d \in Device : \E i \in DOMAIN Order : g[i] = d
      BY DEF Device
    <3> HIDE DEF g
    <3>4. g \in Surjection(DOMAIN Order, Device)
      BY <3>3 DEF Surjection
    <3>5. QED BY <3>2, <3>4, FS_Surjection
  <2>3. QED BY <2>1, <2>2, FS_Subset
<1>2. Cardinality(D) \in Nat
  BY <1>1, FS_CardinalityType
<1>3. f \in [1 .. Cardinality(D) -> D]
  BY SortedDevices
<1> HIDE DEF D
<1>4. \A d \in D : sources.readers[d] \in Nat
  BY DEF IsSources, D
<1>5. QED BY <1>2, <1>3, <1>4

LEMMA SecondIs ==
  ASSUME NEW pairs \in Seq(Device \X Nat)
  PROVE  /\ Second(pairs) \in Seq(Nat)
         /\ DOMAIN Second(pairs) = DOMAIN pairs
         /\ \A i \in DOMAIN pairs : Second(pairs)[i] = pairs[i][2]
<1>1. \A i \in DOMAIN pairs : pairs[i] \in Device \X Nat
  OBVIOUS
<1>2. \A i \in DOMAIN pairs : pairs[i][2] \in Nat
  BY <1>1
<1>3. DOMAIN pairs = 1 .. Len(pairs) /\ Len(pairs) \in Nat
  OBVIOUS
<1>4. QED BY <1>2, <1>3 DEF Second

\* start opens and resumes the readers in the map.
LEMMA Starts ==
  ASSUME StreamTypes, Start
  PROVE  /\ made' \in Seq(Reader)
         /\ DOMAIN made' = DOMAIN made
         /\ \A r \in DOMAIN made :
              /\ made'[r].device = made[r].device
              /\ made'[r].thread = made[r].thread
              /\ made'[r].running => made[r].running \/ r \in Current
              /\ flags.resume \/ made'[r].enabled = made[r].enabled
<1>1. CASE made' = made
  BY <1>1 DEF StreamTypes
<1>2. CASE made' = [r \in DOMAIN made |->
                     IF r \in Current
                     THEN [made[r] EXCEPT !.running = TRUE, !.enabled = @ \/ flags.resume]
                     ELSE made[r]]
  <2>1. \A r \in DOMAIN made : made[r] \in Reader
    BY DEF StreamTypes
  <2>2. DOMAIN made' = DOMAIN made
    BY <1>2
  <2>3. \A r \in DOMAIN made : r \notin Current => made'[r] = made[r]
    BY <1>2
  <2>4. ASSUME NEW r \in DOMAIN made, r \in Current
        PROVE  /\ made'[r] \in Reader
               /\ made'[r].device = made[r].device
               /\ made'[r].thread = made[r].thread
               /\ flags.resume \/ made'[r].enabled = made[r].enabled
    <3>1. made'[r] = [made[r] EXCEPT !.running = TRUE,
                                     !.enabled = made[r].enabled \/ flags.resume]
      BY <1>2, <2>4
    <3>2. made[r] \in Reader
      BY <2>1
    <3>3. (made[r].enabled \/ flags.resume) \in BOOLEAN
      OBVIOUS
    <3>4. /\ made'[r] \in Reader
          /\ made'[r].device = made[r].device
          /\ made'[r].thread = made[r].thread
          /\ made'[r].enabled = (made[r].enabled \/ flags.resume)
      BY <3>1, <3>2, <3>3 DEF Reader
    <3>5. made[r].enabled \in BOOLEAN
      BY <3>2 DEF Reader
    <3>6. QED BY <3>4, <3>5
  <2>5. made' \in Seq(Reader)
    <3>1. \A r \in DOMAIN made : made'[r] \in Reader
      BY <2>1, <2>3, <2>4
    <3>2. DOMAIN made = 1 .. Len(made) /\ Len(made) \in Nat
      BY DEF StreamTypes
    <3>3. made' = [r \in 1 .. Len(made) |-> made'[r]]
      BY <1>2, <3>2
    <3>4. QED BY <3>1, <3>2, <3>3
  <2>6. QED BY <2>2, <2>3, <2>4, <2>5
<1>3. QED BY <1>1, <1>2 DEF Start

LEMMA TypesCalls ==
  ASSUME StreamTypes, Application \/ Start
  PROVE  StreamTypes'
<1> USE DEF Flags, Calling
<1>0. "application" \in Threads /\ "worker" \in Threads
  BY DEF Threads
<1>1. \A value \in BOOLEAN : EnableAll(value) \in Seq(Reader)
  BY EnablesAll
<1>2. CheckUpgrade(tasks) \in Seq(Task)
  BY FirstIsDevice DEF StreamTypes, CheckUpgrade, Task
<1>3. /\ Counted \in History
      /\ \A u \in BOOLEAN : [Counted EXCEPT !.untold = u] \in History
      /\ [Counted EXCEPT !.thrown = FALSE] \in History
  <2>1. Counted \in History
    BY DEF StreamTypes, Counted, History
  <2>2. QED BY <2>1 DEF History
<1>4. CASE Asks
  <2>1. PICK desc \in [Device -> Sources] : SetStreamSources(desc)
    BY <1>4 DEF Asks
  <2> DEFINE c == [Idle EXCEPT !.step = "configure", !.rest = Order, !.wants = desc]
  <2>2. IsCall(c)
    BY Idles, StreamAssumption DEF IsCall, Steps, Idle
  <2> HIDE DEF c
  <2>3. DOMAIN doing' = Threads /\ \A u \in Threads : IsCall(doing'[u])
    <3>1. doing' = [doing EXCEPT !["application"] = c]
      BY <2>1 DEF SetStreamSources, c
    <3>2. QED BY <3>1, <2>2, <1>0, CallChanges
  <2>4. QED BY <2>1, <2>3, <1>3 DEF StreamTypes, SetStreamSources
<1>5. ASSUME NEW value \in BOOLEAN, UpdatePause(value)
      PROVE  StreamTypes'
  <2>1. (~ value) \in BOOLEAN
    OBVIOUS
  <2>2. EnableAll(~ value) \in Seq(Reader)
    BY <1>1, <2>1
  <2>3. QED BY <1>5, <2>2, <1>2, <1>3 DEF StreamTypes, UpdatePause
<1>6. ASSUME NEW value \in BOOLEAN, UpdateMute(value)
      PROVE  StreamTypes'
  BY <1>6, <1>2, <1>3 DEF StreamTypes, UpdateMute
<1>7. ASSUME NEW value \in BOOLEAN, OptimizeSources(value)
      PROVE  StreamTypes'
  <2> DEFINE c == [Idle EXCEPT !.step = "read"]
  <2>2. IsCall(c)
    BY Idles DEF IsCall, Steps, Idle
  <2> HIDE DEF c
  <2>3. DOMAIN doing' = Threads /\ \A u \in Threads : IsCall(doing'[u])
    <3>1. doing' = [doing EXCEPT !["application"] = c] \/ doing' = doing
      BY <1>7 DEF OptimizeSources, c
    <3>2. CASE doing' = doing
      BY <3>2 DEF StreamTypes
    <3>3. CASE doing' = [doing EXCEPT !["application"] = c]
      BY <3>3, <2>2, <1>0, CallChanges
    <3>4. QED BY <3>1, <3>2, <3>3
  <2>4. history' \in History
    <3>1. history' = [Counted EXCEPT !.untold = @ \/ ~ value]
      BY <1>7 DEF OptimizeSources
    <3>2. (Counted.untold \/ ~ value) \in BOOLEAN
      OBVIOUS
    <3>3. QED BY <3>1, <3>2, <1>3
  <2>5. flags' \in Flags
    BY <1>7 DEF OptimizeSources, StreamTypes
  <2>6. QED BY <1>7, <2>3, <2>4, <2>5 DEF StreamTypes, OptimizeSources
<1>8. CASE OnUpgrade
  BY <1>8, <1>3 DEF StreamTypes, OnUpgrade
<1>9. CASE Detach
  <2>1. flags' \in Flags
    BY <1>9 DEF Detach, StreamTypes, IsPaused
  <2>2. EnableAll(FALSE) \in Seq(Reader)
    BY <1>1
  <2>3. QED BY <1>9, <2>1, <2>2, <1>3 DEF StreamTypes, Detach
<1>10. CASE AddTrack
  BY <1>10, <1>3 DEF StreamTypes, AddTrack
<1>11. CASE Close
  <2>1. PICK devices \in Sorted(DOMAIN sources.readers) :
          doing' = [doing EXCEPT !["application"] = [Idle EXCEPT !.step = "destroy",
                      !.doomed = [i \in DOMAIN devices |-> sources.readers[devices[i]]]
                                   \o Second(sources.removed)]]
    BY <1>11 DEF Close
  <2> DEFINE first == [i \in DOMAIN devices |-> sources.readers[devices[i]]]
             c == [Idle EXCEPT !.step = "destroy", !.doomed = first \o Second(sources.removed)]
  <2>2. first \in Seq(Nat)
    BY <2>1, SortedDevices, FirstReaders DEF StreamTypes
  <2>3. Second(sources.removed) \in Seq(Nat)
    BY SecondIs DEF StreamTypes, IsSources
  <2>4. IsCall(c)
    <3>1. first \o Second(sources.removed) \in Seq(Nat)
      BY <2>2, <2>3
    <3> HIDE DEF first
    <3>2. QED BY <3>1, Idles DEF IsCall, Steps, Idle
  <2> HIDE DEF c, first
  <2>5. DOMAIN doing' = Threads /\ \A u \in Threads : IsCall(doing'[u])
    <3>1. doing' = [doing EXCEPT !["application"] = c]
      BY <2>1 DEF c, first
    <3>2. QED BY <3>1, <2>4, <1>0, CallChanges
  <2>6. IsSources(sources')
    BY <1>11 DEF Close, StreamTypes, IsSources
  <2>7. flags' \in Flags
    BY <1>11 DEF Close, StreamTypes
  <2>8. history' \in History
    BY <1>11, <1>3 DEF Close
  <2>9. QED BY <1>11, <2>5, <2>6, <2>7, <2>8 DEF StreamTypes, Close
<1>12. CASE Start
  <2>1. history' \in History
    <3>1. history' = [Counted EXCEPT !.untold = @ \/ flags.resume]
      BY <1>12 DEF Start
    <3>2. (Counted.untold \/ flags.resume) \in BOOLEAN
      OBVIOUS
    <3>3. QED BY <3>1, <3>2, <1>3
  <2>2. made' \in Seq(Reader)
    BY <1>12, Starts DEF StreamTypes, Start
  <2>3. flags' \in Flags
    BY <1>12 DEF Start, StreamTypes
  <2>4. QED BY <1>12, <2>1, <2>2, <2>3 DEF StreamTypes, Start
<1>13. QED
  BY <1>4, <1>5, <1>6, <1>7, <1>8, <1>9, <1>10, <1>11, <1>12 DEF Application


LEMMA Tails ==
  ASSUME NEW S, NEW s \in Seq(S), s # <<>>
  PROVE  /\ Head(s) \in S /\ Head(s) = s[1] /\ 1 \in DOMAIN s
         /\ Tail(s) \in Seq(S)
         /\ DOMAIN Tail(s) = 1 .. (Len(s) - 1)
         /\ \A i \in DOMAIN Tail(s) : i + 1 \in DOMAIN s /\ Tail(s)[i] = s[i + 1]
         /\ \A i \in DOMAIN s : i # 1 => i - 1 \in DOMAIN Tail(s) /\ s[i] = Tail(s)[i - 1]
OBVIOUS

\* One device of maybe_reconfigure_device, by what becomes of its reader.
Untouched == UNCHANGED <<sources, made, history>>

Removing(d) == sources' = RemoveReader(sources, d) /\ UNCHANGED <<made, history>>

Feeding(d) ==
  /\ LET s == RemoveReader(sources, d)
     IN  sources' = [s EXCEPT !.external = @ \cup {d}, !.syncing = @ \cup {d}]
  /\ history' = [history EXCEPT !.switched = IF Plays(d) THEN @ \cup {d} ELSE @]
  /\ UNCHANGED made

Renewing(d) ==
  /\ made' = Append(made, NewReader(d, flags.initialized))
  /\ LET s == RemoveReader(sources, d)
     IN  sources' = [s EXCEPT !.readers =
           [x \in DOMAIN @ \cup {d} |-> IF x = d THEN Len(made) + 1 ELSE @[x]]]
  /\ UNCHANGED history

LEMMA Configures ==
  ASSUME StreamTypes, Configure
  PROVE  /\ doing["application"].step = "configure"
         /\ IsCall([doing["application"] EXCEPT !.rest = Tail(@)])
         /\ doing' = [doing EXCEPT !["application"] =
                        [doing["application"] EXCEPT !.rest = Tail(@)]]
         /\ UNCHANGED <<flags, last, told, tasks, crashed>>
         /\ \E d \in Device : Untouched \/ Removing(d) \/ Feeding(d) \/ Renewing(d)
<1> DEFINE call == doing["application"]
           d == Head(call.rest)
           rest == [call EXCEPT !.rest = Tail(@)]
<1>1. IsCall(call)
  BY DEF StreamTypes, Threads
<1>2. call.rest # <<>> /\ call.step = "configure"
  BY DEF Configure
<1>3. d \in Device /\ Tail(call.rest) \in Seq(Device)
  <2> HIDE DEF call
  <2>1. call.rest \in Seq(Device)
    BY <1>1 DEF IsCall
  <2>2. QED BY <2>1, <1>2, Tails
<1>4. IsCall(rest)
  <2> HIDE DEF call
  <2>1. QED BY <1>1, <1>3 DEF IsCall
<1>5. Untouched \/ Removing(d) \/ Feeding(d) \/ Renewing(d)
  BY DEF Configure, Untouched, Removing, Feeding, Renewing
<1>6. /\ doing' = [doing EXCEPT !["application"] = rest]
      /\ UNCHANGED <<flags, last, told, tasks, crashed>>
  BY DEF Configure
<1>7. QED BY <1>2, <1>3, <1>4, <1>5, <1>6

Fed(s, d, x) ==
  /\ IsSources(x)
  /\ x.readers = s.readers
  /\ x.removed = s.removed
  /\ x.syncing = s.syncing \cup {d}

LEMMA Feeds ==
  ASSUME StreamTypes, NEW d \in Device, Feeding(d)
  PROVE  Fed(RemoveReader(sources, d), d, sources')
<1> DEFINE s == RemoveReader(sources, d)
<1>1. IsSources(s)
  BY Removes DEF StreamTypes, Removal
<1>2. sources' = [s EXCEPT !.external = @ \cup {d}, !.syncing = @ \cup {d}]
  BY DEF Feeding
<1> HIDE DEF s
<1>3. sources' = [[s EXCEPT !.external = s.external \cup {d}] EXCEPT !.syncing = s.syncing \cup {d}]
  BY <1>1, <1>2 DEF IsSources
<1>4. Fed(s, d, sources')
  BY <1>1, <1>3 DEF IsSources, Fed
<1>5. QED BY <1>4 DEF s

\* A reader for d in the map x that was not in the map s, or perhaps was.
Renewed(s, d, x, r) ==
  /\ IsSources(x)
  /\ DOMAIN x.readers = DOMAIN s.readers \cup {d}
  /\ x.readers[d] = r
  /\ \A e \in DOMAIN s.readers : e # d => x.readers[e] = s.readers[e]
  /\ x.removed = s.removed
  /\ x.syncing = s.syncing

LEMMA Renews ==
  ASSUME StreamTypes, NEW d \in Device, Renewing(d)
  PROVE  /\ Renewed(RemoveReader(sources, d), d, sources', Len(made) + 1)
         /\ NewReader(d, flags.initialized) \in Reader
         /\ made' \in Seq(Reader)
         /\ DOMAIN made' = 1 .. (Len(made) + 1)
         /\ DOMAIN made = 1 .. Len(made)
         /\ made'[Len(made) + 1] = NewReader(d, flags.initialized)
         /\ \A r \in DOMAIN made : made'[r] = made[r]
<1> DEFINE s == RemoveReader(sources, d)
           n == Len(made) + 1
           new == NewReader(d, flags.initialized)
<1>1. IsSources(s)
  BY Removes DEF StreamTypes, Removal
<1>2. sources' = [s EXCEPT !.readers = [x \in DOMAIN @ \cup {d} |-> IF x = d THEN n ELSE @[x]]]
      /\ made' = Append(made, new)
  BY DEF Renewing
<1>3. n \in Nat
  BY DEF StreamTypes
<1>4. new \in Reader
  BY DEF NewReader, Reader, StreamTypes, Flags
<1> HIDE DEF s, n, new
<1>5. sources'.readers = [x \in DOMAIN s.readers \cup {d} |-> IF x = d THEN n ELSE s.readers[x]]
  BY <1>1, <1>2 DEF IsSources
<1>6. DOMAIN sources' = DOMAIN s /\ sources'.removed = s.removed /\ sources'.syncing = s.syncing
  BY <1>1, <1>2 DEF IsSources
<1>7. Renewed(s, d, sources', n)
  BY <1>1, <1>3, <1>5, <1>6 DEF IsSources, Renewed
<1>8. /\ made' \in Seq(Reader)
      /\ DOMAIN made' = 1 .. (Len(made) + 1)
      /\ DOMAIN made = 1 .. Len(made)
      /\ made'[Len(made) + 1] = new
      /\ \A r \in DOMAIN made : made'[r] = made[r]
  BY <1>2, <1>4 DEF StreamTypes
<1>9. QED BY <1>4, <1>7, <1>8 DEF s, n, new

LEMMA TypesConfigure ==
  ASSUME StreamTypes, Configure
  PROVE  StreamTypes'
<1>0. "application" \in Threads
  BY DEF Threads
<1>1. PICK d \in Device : Untouched \/ Removing(d) \/ Feeding(d) \/ Renewing(d)
  BY Configures
<1>2. UNCHANGED <<flags, last, told, tasks, crashed>>
  BY Configures
<1>3. DOMAIN doing' = Threads /\ \A t \in Threads : IsCall(doing'[t])
  <2> DEFINE c == [doing["application"] EXCEPT !.rest = Tail(@)]
  <2>1. IsCall(c) /\ doing' = [doing EXCEPT !["application"] = c]
    BY Configures
  <2> HIDE DEF c
  <2>2. QED BY <2>1, <1>0, CallChanges
<1>4. CASE Untouched
  BY <1>2, <1>3, <1>4 DEF StreamTypes, Untouched
<1>5. CASE Removing(d)
  <2>1. IsSources(sources')
    BY <1>5, Removes DEF StreamTypes, Removal, Removing
  <2>2. QED BY <1>2, <1>3, <1>5, <2>1 DEF StreamTypes, Removing
<1>6. CASE Feeding(d)
  <2>1. IsSources(sources')
    BY <1>6, Feeds DEF Fed
  <2>2. history' \in History
    BY <1>6 DEF Feeding, StreamTypes, History
  <2>3. made' = made
    BY <1>6 DEF Feeding
  <2>4. QED BY <1>2, <1>3, <2>1, <2>2, <2>3 DEF StreamTypes
<1>7. CASE Renewing(d)
  <2>1. IsSources(sources') /\ made' \in Seq(Reader)
    BY <1>7, Renews DEF Renewed
  <2>2. history' = history
    BY <1>7 DEF Renewing
  <2>3. QED BY <1>2, <1>3, <2>1, <2>2 DEF StreamTypes
<1>8. QED BY <1>1, <1>4, <1>5, <1>6, <1>7


LEMMA Upgrades ==
  ASSUME StreamTypes
  PROVE  /\ CheckUpgrade(tasks) \in Seq(Task)
         /\ \E i \in DOMAIN CheckUpgrade(tasks) : CheckUpgrade(tasks)[i].task = "emit"
<1> DEFINE task == [task |-> "emit", device |-> Order[1]]
<1>1. task \in Task /\ task.task = "emit"
  BY FirstIsDevice DEF Task
<1>2. CheckUpgrade(tasks) = Append(tasks, task)
  BY DEF CheckUpgrade
<1> HIDE DEF task
<1>3. tasks \in Seq(Task)
  BY DEF StreamTypes
<1>4. CheckUpgrade(tasks) \in Seq(Task)
  BY <1>1, <1>2, <1>3
<1>5. /\ Len(tasks) + 1 \in DOMAIN CheckUpgrade(tasks)
      /\ CheckUpgrade(tasks)[Len(tasks) + 1] = task
  BY <1>1, <1>2, <1>3
<1>6. QED BY <1>1, <1>4, <1>5

LEMMA TypesThrows ==
  ASSUME StreamTypes, ConfigureThrows
  PROVE  /\ StreamTypes'
         /\ \E d \in Device : sources' = RemoveReader(sources, d)
<1> DEFINE call == doing["application"]
           d == Head(call.rest)
<1>0. "application" \in Threads
  BY DEF Threads
<1>1. IsCall(call) /\ call.rest # <<>>
  BY <1>0 DEF StreamTypes, ConfigureThrows
<1>2. d \in Device
  <2> HIDE DEF call
  <2>1. call.rest \in Seq(Device)
    BY <1>1 DEF IsCall
  <2>2. QED BY <2>1, <1>1, Tails
<1>3. sources' = RemoveReader(sources, d) /\ doing' = [doing EXCEPT !["application"] = Idle]
  BY DEF ConfigureThrows
<1> HIDE DEF d
<1>4. IsSources(sources')
  BY <1>2, <1>3, Removes DEF StreamTypes, Removal
<1>5. DOMAIN doing' = Threads /\ \A t \in Threads : IsCall(doing'[t])
  BY <1>0, <1>3, Idles, CallChanges
<1>6. history' \in History
  BY DEF ConfigureThrows, StreamTypes, History
<1>7. StreamTypes'
  BY <1>4, <1>5, <1>6 DEF StreamTypes, ConfigureThrows
<1>8. QED BY <1>2, <1>3, <1>7

LEMMA TypesEnds ==
  ASSUME StreamTypes, Configured \/ Remember \/ EmitStateIfChanged
  PROVE  StreamTypes'
<1>0. "application" \in Threads /\ "worker" \in Threads
  BY DEF Threads
<1>1. CASE Configured
  <2> DEFINE c == [Idle EXCEPT !.step = "take"]
  <2>1. IsCall(c)
    BY Idles DEF IsCall, Steps, Idle
  <2>2. doing' = [doing EXCEPT !["application"] = c]
    BY <1>1 DEF Configured
  <2> HIDE DEF c
  <2>3. DOMAIN doing' = Threads /\ \A t \in Threads : IsCall(doing'[t])
    BY <1>0, <2>1, <2>2, CallChanges
  <2>4. tasks' \in Seq(Task)
    <3>1. tasks' = tasks \/ tasks' = CheckUpgrade(tasks)
      BY <1>1 DEF Configured
    <3>2. tasks \in Seq(Task) /\ CheckUpgrade(tasks) \in Seq(Task)
      BY Upgrades DEF StreamTypes
    <3>3. QED BY <3>1, <3>2
  <2>5. history' \in History
    <3>1. history' = [history EXCEPT !.untold = history.untold \/ ~ flags.initialized]
      BY <1>1 DEF Configured
    <3>2. (history.untold \/ ~ flags.initialized) \in BOOLEAN
      OBVIOUS
    <3>3. QED BY <3>1, <3>2 DEF StreamTypes, History
  <2>6. QED BY <1>1, <2>3, <2>4, <2>5 DEF StreamTypes, Configured
<1>2. CASE Remember
  <2>1. doing' = [doing EXCEPT !["application"] = Idle]
    BY <1>2 DEF Remember
  <2>2. DOMAIN doing' = Threads /\ \A t \in Threads : IsCall(doing'[t])
    BY <1>0, <2>1, Idles, CallChanges
  <2>3. history' \in History
    <3> DEFINE u == history.untold \/ doing["application"].state # <<Told>>
    <3>1. history' = [history EXCEPT !.untold = u]
      BY <1>2 DEF Remember
    <3>2. u \in BOOLEAN
      OBVIOUS
    <3> HIDE DEF u
    <3>3. QED BY <3>1, <3>2 DEF StreamTypes, History
  <2>4. QED BY <1>2, <2>2, <2>3 DEF StreamTypes, Remember
<1>3. CASE EmitStateIfChanged
  <2>1. doing' = [doing EXCEPT !["worker"] = Idle]
    BY <1>3 DEF EmitStateIfChanged
  <2>2. DOMAIN doing' = Threads /\ \A t \in Threads : IsCall(doing'[t])
    BY <1>0, <2>1, Idles, CallChanges
  <2>3. QED BY <1>3, <2>2 DEF StreamTypes, EmitStateIfChanged
<1>4. QED BY <1>1, <1>2, <1>3

LEMMA TypesDestroying ==
  ASSUME StreamTypes, NEW t \in Threads, Proceed(t)
  PROVE  StreamTypes'
<1>1. CASE TakeRemoved(t)
  <2> DEFINE c == [Idle EXCEPT !.step = "destroy", !.doomed = Second(sources.removed),
                     !.keys = {sources.removed[i][1] : i \in DOMAIN sources.removed}]
  <2>1. Second(sources.removed) \in Seq(Nat)
    BY SecondIs DEF StreamTypes, IsSources
  <2>2. IsCall(c)
    BY <2>1, Idles DEF IsCall, Steps, Idle
  <2>3. doing' = [doing EXCEPT ![t] = c]
    BY <1>1 DEF TakeRemoved
  <2> HIDE DEF c
  <2>4. DOMAIN doing' = Threads /\ \A u \in Threads : IsCall(doing'[u])
    BY <2>2, <2>3, CallChanges
  <2>5. IsSources(sources')
    BY <1>1 DEF TakeRemoved, StreamTypes, IsSources
  <2>6. history' \in History
    BY <1>1 DEF TakeRemoved, StreamTypes, History
  <2>7. QED BY <1>1, <2>4, <2>5, <2>6 DEF StreamTypes, TakeRemoved
<1>2. CASE Silence(t)
  <2> DEFINE r == Head(doing[t].doomed)
  <2>1. CASE r = 0
    BY <1>2, <2>1 DEF StreamTypes, Silence
  <2>2. CASE r # 0
    <3> DEFINE c == [doing[t] EXCEPT !.step = "join"]
    <3>1. IsCall(doing[t])
      BY DEF StreamTypes
    <3>2. IsCall(c)
      BY <1>2, <3>1 DEF IsCall, Steps, Silence
    <3>3. doing' = [doing EXCEPT ![t] = c]
      BY <1>2, <2>2 DEF Silence, StreamTypes
    <3>4. made' = [made EXCEPT ![r].heard = FALSE, ![r].running = FALSE]
      BY <1>2, <2>2 DEF Silence
    <3> HIDE DEF c, r
    <3>5. DOMAIN doing' = Threads /\ \A u \in Threads : IsCall(doing'[u])
      BY <3>2, <3>3, CallChanges
    <3>6. made' \in Seq(Reader)
      <4>1. CASE r \in DOMAIN made
        <5>1. made[r] \in Reader
          BY <4>1 DEF StreamTypes
        <5>2. [made[r] EXCEPT !.heard = FALSE, !.running = FALSE] \in Reader
          BY <5>1 DEF Reader
        <5>3. made' = [made EXCEPT ![r] = [made[r] EXCEPT !.heard = FALSE, !.running = FALSE]]
          BY <3>4, <4>1, <5>1 DEF StreamTypes, Reader
        <5>4. QED BY <4>1, <5>2, <5>3, MadeChanges
      <4>2. CASE r \notin DOMAIN made
        <5>1. made' = made
          BY <3>4, <4>2 DEF StreamTypes
        <5>2. QED BY <5>1 DEF StreamTypes
      <4>3. QED BY <4>1, <4>2
    <3>7. UNCHANGED <<sources, flags, tasks, crashed, history>>
      BY <1>2, <2>2 DEF Silence, r
    <3>8. QED BY <3>5, <3>6, <3>7 DEF StreamTypes
  <2>3. QED BY <2>1, <2>2
<1>3. CASE Join(t)
  <2> DEFINE c == [doing[t] EXCEPT !.step = "destroy", !.doomed = Tail(doing[t].doomed)]
  <2>1. IsCall(doing[t])
    BY DEF StreamTypes
  <2>2. IsCall(c)
    <3>1. Tail(doing[t].doomed) \in Seq(Nat)
      BY <1>3, <2>1 DEF IsCall, Join
    <3>2. QED BY <2>1, <3>1 DEF IsCall, Steps
  <2>3. doing' = [doing EXCEPT ![t] = c]
    BY <1>3, <2>1 DEF Join, StreamTypes, IsCall
  <2> HIDE DEF c
  <2>4. DOMAIN doing' = Threads /\ \A u \in Threads : IsCall(doing'[u])
    BY <2>2, <2>3, CallChanges
  <2>5. QED BY <1>3, <2>4 DEF StreamTypes, Join
<1>4. CASE Destroyed(t)
  <2>1. doing' = [doing EXCEPT ![t] = Idle]
    BY <1>4 DEF Destroyed
  <2>2. DOMAIN doing' = Threads /\ \A u \in Threads : IsCall(doing'[u])
    BY <2>1, Idles, CallChanges
  <2>3. IsSources(sources')
    BY <1>4 DEF Destroyed, StreamTypes, IsSources
  <2>4. QED BY <1>4, <2>2, <2>3 DEF StreamTypes, Destroyed
<1>5. CASE ReadState(t)
  <2> DEFINE c == [doing[t] EXCEPT !.step = "remember", !.state = <<GetState>>]
  <2>1. IsCall(doing[t])
    BY DEF StreamTypes
  <2>2. IsCall(c)
    BY <2>1 DEF IsCall, Steps
  <2>3. doing' = doing \/ doing' = [doing EXCEPT ![t] = c]
    BY <1>5, <2>1 DEF ReadState, StreamTypes, IsCall
  <2> HIDE DEF c
  <2>4. DOMAIN doing' = Threads /\ \A u \in Threads : IsCall(doing'[u])
    <3>1. CASE doing' = doing
      BY <3>1 DEF StreamTypes
    <3>2. CASE doing' = [doing EXCEPT ![t] = c]
      BY <3>2, <2>2, CallChanges
    <3>3. QED BY <2>3, <3>1, <3>2
  <2>5. QED BY <1>5, <2>4 DEF StreamTypes, ReadState
<1>6. QED BY <1>1, <1>2, <1>3, <1>4, <1>5 DEF Proceed


\* What the thread of a reader does to the rest.
Runs(r) ==
  /\ made' \in Seq(Reader)
  /\ DOMAIN made' = DOMAIN made
  /\ \A q \in DOMAIN made : q # r => made'[q] = made[q]
  /\ made'[r].device = made[r].device
  /\ made'[r].enabled = made[r].enabled
  /\ made'[r].running => made[r].running
  /\ made'[r].thread # "out" => Busy(r)

Enters ==
  /\ IsSources(sources')
  /\ sources'.removed = sources.removed
  /\ DOMAIN sources.readers \subseteq DOMAIN sources'.readers
  /\ \A d \in DOMAIN sources.readers : sources'.readers[d] = sources.readers[d]
  /\ \A d \in DOMAIN sources'.readers \ DOMAIN sources.readers : sources'.readers[d] = 0
  /\ sources'.syncing \subseteq sources.syncing

Queues ==
  /\ tasks' \in Seq(Task)
  /\ \A i \in DOMAIN tasks : i \in DOMAIN tasks' /\ tasks'[i] = tasks[i]

Playing(r) == Frame(r) \/ Callback(r) \/ End(r)

LEMMA PlayingRuns ==
  ASSUME StreamTypes, NEW r \in DOMAIN made, Playing(r)
  PROVE  Runs(r)
<1>1. made[r] \in Reader
  BY DEF StreamTypes
<1>2. ASSUME NEW x \in {"called", "waiting", "sending", "out"},
             made' = [made EXCEPT ![r].thread = x],
             x = "out" \/ Busy(r)
      PROVE  Runs(r)
  <2> DEFINE q == [made[r] EXCEPT !.thread = x]
  <2>1. /\ q \in Reader
        /\ q.device = made[r].device /\ q.enabled = made[r].enabled
        /\ q.running = made[r].running /\ q.thread = x
    BY <1>1 DEF Reader
  <2>2. made' = [made EXCEPT ![r] = q]
    BY <1>2 DEF StreamTypes
  <2> HIDE DEF q
  <2>3. /\ made' \in Seq(Reader)
        /\ DOMAIN made' = DOMAIN made
        /\ made'[r] = q
        /\ \A p \in DOMAIN made : p # r => made'[p] = made[p]
    BY <2>1, <2>2, MadeChanges
  <2>4. QED BY <1>2, <2>1, <2>3 DEF Runs
<1>3. CASE Frame(r)
  BY <1>2, <1>3 DEF Frame, Busy
<1>4. CASE Synchronize(r)
  BY <1>2, <1>4 DEF Synchronize, Busy
<1>5. CASE Synchronized(r)
  BY <1>2, <1>5 DEF Synchronized, Busy
<1>6. CASE Send(r)
  BY <1>2, <1>6 DEF Send, Busy
<1>7. CASE End(r)
  <2> DEFINE q == [made[r] EXCEPT !.running = FALSE]
  <2>1. /\ q \in Reader
        /\ q.device = made[r].device /\ q.enabled = made[r].enabled
        /\ ~ q.running /\ q.thread = made[r].thread
    BY <1>1 DEF Reader
  <2>2. made' = [made EXCEPT ![r] = q]
    BY <1>7 DEF End, StreamTypes
  <2>3. made[r].thread = "out"
    BY <1>7 DEF End
  <2> HIDE DEF q
  <2>4. /\ made' \in Seq(Reader)
        /\ DOMAIN made' = DOMAIN made
        /\ made'[r] = q
        /\ \A p \in DOMAIN made : p # r => made'[p] = made[p]
    BY <2>1, <2>2, MadeChanges
  <2>5. QED BY <2>1, <2>3, <2>4 DEF Runs
<1>8. QED BY <1>3, <1>4, <1>5, <1>6, <1>7 DEF Playing, Callback

LEMMA PlayingEnters ==
  ASSUME StreamTypes, NEW r \in DOMAIN made, Playing(r)
  PROVE  Enters
<1>1. made[r].device \in Device
  <2>1. made[r] \in Reader
    BY DEF StreamTypes
  <2>2. QED BY <2>1 DEF Reader
<1>2. IsSources(sources)
  BY DEF StreamTypes
<1>3. CASE sources' = sources
  BY <1>2, <1>3 DEF Enters
<1>4. CASE Synchronize(r)
  BY <1>2, <1>4 DEF Synchronize, Enters, IsSources
<1>5. CASE Synchronized(r)
  <2> DEFINE d == made[r].device
             readers == [x \in DOMAIN sources.readers \cup {d} |->
                           IF x \in DOMAIN sources.readers THEN sources.readers[x] ELSE 0]
  <2>1. \/ sources' = [sources EXCEPT !.cancelled = @ \ {d}]
        \/ sources' = [sources EXCEPT !.readers = readers]
    BY <1>2, <1>5 DEF Synchronized, IsSources
  <2> HIDE DEF d
  <2>2. CASE sources' = [sources EXCEPT !.cancelled = @ \ {d}]
    BY <1>2, <2>2 DEF Enters, IsSources
  <2>3. CASE sources' = [sources EXCEPT !.readers = readers]
    <3>1. /\ DOMAIN readers = DOMAIN sources.readers \cup {d}
          /\ \A x \in DOMAIN readers :
               readers[x] = IF x \in DOMAIN sources.readers THEN sources.readers[x] ELSE 0
      OBVIOUS
    <3>2. d \in Device
      BY <1>1 DEF d
    <3> HIDE DEF readers
    <3>3. QED BY <1>2, <2>3, <3>1, <3>2 DEF Enters, IsSources
  <2>4. QED BY <2>1, <2>2, <2>3
<1>6. QED BY <1>3, <1>4, <1>5 DEF Playing, Callback, Frame, Send, End

LEMMA PlayingQueues ==
  ASSUME StreamTypes, NEW r \in DOMAIN made, Playing(r)
  PROVE  Queues
<1>1. made[r].device \in Device
  <2>1. made[r] \in Reader
    BY DEF StreamTypes
  <2>2. QED BY <2>1 DEF Reader
<1>2. CASE tasks' = tasks
  BY <1>2 DEF Queues, StreamTypes
<1>3. ASSUME NEW n \in 1 .. EndsTold,
             tasks' = tasks \o [i \in 1 .. n |-> [task |-> "eof", device |-> made[r].device]]
      PROVE  Queues
  <2> DEFINE more == [i \in 1 .. n |-> [task |-> "eof", device |-> made[r].device]]
  <2>1. [task |-> "eof", device |-> made[r].device] \in Task
    BY <1>1 DEF Task
  <2>2. n \in Nat
    BY StreamAssumption
  <2>3. more \in Seq(Task)
    BY <2>1, <2>2
  <2> HIDE DEF more
  <2>4. tasks' = tasks \o more
    BY <1>3 DEF more
  <2>5. QED BY <2>3, <2>4 DEF Queues, StreamTypes
<1>4. QED BY <1>2, <1>3 DEF Playing, Callback, Frame, Synchronize, Synchronized, Send, End

LEMMA PlayingLeaves ==
  ASSUME NEW r, Playing(r)
  PROVE  UNCHANGED <<flags, last, told, doing, crashed, history>>
BY DEF Playing, Callback, Frame, Synchronize, Synchronized, Send, End

LEMMA TypesPlaying ==
  ASSUME StreamTypes, NEW r \in DOMAIN made, Playing(r)
  PROVE  StreamTypes'
<1>1. Runs(r) /\ Enters /\ Queues
  BY PlayingRuns, PlayingEnters, PlayingQueues
<1>2. UNCHANGED <<flags, last, told, doing, crashed, history>>
  BY PlayingLeaves
<1>3. QED BY <1>1, <1>2 DEF StreamTypes, Runs, Enters, Queues

LEMMA TypesTask ==
  ASSUME StreamTypes, RunTask
  PROVE  StreamTypes' /\ Head(tasks) \in Task
<1>0. "worker" \in Threads
  BY DEF Threads
<1>1. Head(tasks) \in Task /\ Tail(tasks) \in Seq(Task)
  BY Tails DEF RunTask, StreamTypes
<1>2. IsSources(sources')
  <2>1. Head(tasks).device \in Device
    BY <1>1 DEF Task
  <2>2. sources' = sources \/ sources' = RemoveReader(sources, Head(tasks).device)
    BY DEF RunTask
  <2>3. IsSources(RemoveReader(sources, Head(tasks).device)) /\ IsSources(sources)
    BY <2>1, Removes DEF StreamTypes, Removal
  <2>4. QED BY <2>2, <2>3
<1>3. DOMAIN doing' = Threads /\ \A t \in Threads : IsCall(doing'[t])
  <2>1. PICK step \in {"read", "take"} :
          doing' = [doing EXCEPT !["worker"] = [Idle EXCEPT !.step = step]]
    BY DEF RunTask
  <2> DEFINE c == [Idle EXCEPT !.step = step]
  <2>2. IsCall(c)
    BY Idles DEF IsCall, Steps, Idle
  <2>3. doing' = [doing EXCEPT !["worker"] = c]
    BY <2>1
  <2> HIDE DEF c
  <2>4. QED BY <1>0, <2>2, <2>3, CallChanges
<1>4. history' \in History
  <2>1. history' = [history EXCEPT !.untold = history.untold \/ Head(tasks).task = "eof"]
    BY DEF RunTask
  <2>2. (history.untold \/ Head(tasks).task = "eof") \in BOOLEAN
    OBVIOUS
  <2>3. QED BY <2>1, <2>2 DEF StreamTypes, History
<1>5. QED BY <1>1, <1>2, <1>3, <1>4 DEF StreamTypes, RunTask

\* The steps, by the lemmas that are about them.
LEMMA StreamSteps ==
  ASSUME [Next]_vars
  PROVE  \/ UNCHANGED vars
         \/ ~ crashed /\ (\/ Application \/ Start \/ Configure \/ ConfigureThrows
                          \/ Configured \/ Remember \/ EmitStateIfChanged \/ RunTask
                          \/ \E t \in Threads : Proceed(t)
                          \/ \E r \in DOMAIN made : Playing(r))
BY DEF Next, Continue, Worker, Threads, Playing

LEMMA StreamTypesStep ==
  ASSUME StreamTypes, [Next]_vars
  PROVE  StreamTypes'
<1>1. CASE UNCHANGED vars
  BY <1>1 DEF vars, StreamTypes
<1>2. QED
  BY <1>1, StreamSteps, TypesCalls, TypesConfigure, TypesThrows, TypesEnds,
     TypesDestroying, TypesPlaying, TypesTask

LEMMA StreamTypesInit == Init => StreamTypes
<1> SUFFICES ASSUME Init
             PROVE  StreamTypes
  OBVIOUS
<1>1. made \in Seq(Reader) /\ tasks \in Seq(Task)
  BY DEF Init
<1>2. IsSources(sources)
  BY DEF Init, NoSources, IsSources
<1>3. flags \in Flags /\ history \in History /\ crashed \in BOOLEAN
  BY DEF Init, NoFlags, Flags, NoHistory, History
<1>4. DOMAIN doing = Threads /\ \A t \in Threads : IsCall(doing[t])
  BY Idles DEF Init
<1>5. QED BY <1>1, <1>2, <1>3, <1>4 DEF StreamTypes

\* The fields of the manager and of its readers have the types of the code, and the
\* lists that its threads work off hold readers (StreamManager).
THEOREM StreamTypeCorrect == Spec => []StreamTypes
<1>1. StreamTypes /\ [Next]_vars => StreamTypes'
  BY StreamTypesStep
<1>2. QED BY StreamTypesInit, <1>1, PTL DEF Spec


-----------------------------------------------------------------------------
(* Only current readers play. A reader that plays is in the map, or with    *)
(* those removed, or a thread is to destroy it; the lists are empty when    *)
(* nobody is at it.                                                         *)

HeldReaders(s) ==
  {s.readers[d] : d \in DOMAIN s.readers}
    \cup {s.removed[i][2] : i \in DOMAIN s.removed}

Doomed(c) == {c.doomed[i] : i \in DOMAIN c.doomed}

\* Those that are still to be told to end.
Unsilenced(c) == {c.doomed[i] : i \in {j \in DOMAIN c.doomed : c.step = "join" => j # 1}}

Accounted ==
  \A r \in DOMAIN made :
    /\ made[r].running =>
         r \in HeldReaders(sources) \/ \E t \in Threads : r \in Unsilenced(doing[t])
    /\ made[r].thread # "out" =>
         r \in HeldReaders(sources) \/ \E t \in Threads : r \in Doomed(doing[t])

DoomedInTime ==
  \A t \in Threads : doing[t].step \notin {"destroy", "join"} => doing[t].doomed = <<>>

RemovedSoon ==
  sources.removed # <<>> =>
    history.thrown \/ ~ Unlocked \/ \E t \in Threads : doing[t].step = "take"

PlayInv == Accounted /\ DoomedInTime /\ RemovedSoon

LEMMA RemovalHolds ==
  ASSUME NEW s, IsSources(s), NEW d \in Device, NEW x, Removal(s, d, x)
  PROVE  HeldReaders(s) \subseteq HeldReaders(x)
<1>1. s.removed \in Seq(Device \X Nat)
  BY DEF IsSources
<1>2. ASSUME NEW e \in DOMAIN s.readers
      PROVE  s.readers[e] \in HeldReaders(x)
  <2>1. CASE e = d
    <3>1. <<d, s.readers[d]>> \in Device \X Nat
      BY <1>2, <2>1 DEF IsSources
    <3>2. x.removed = Append(s.removed, <<d, s.readers[d]>>)
      BY <1>2, <2>1 DEF Removal
    <3>3. /\ Len(s.removed) + 1 \in DOMAIN x.removed
          /\ x.removed[Len(s.removed) + 1] = <<d, s.readers[d]>>
      BY <1>1, <3>1, <3>2
    <3>4. x.removed[Len(s.removed) + 1][2] = s.readers[d]
      BY <3>3
    <3>5. QED BY <2>1, <3>3, <3>4 DEF HeldReaders
  <2>2. CASE e # d
    BY <1>2, <2>2 DEF Removal, HeldReaders
  <2>3. QED BY <2>1, <2>2
<1>3. ASSUME NEW i \in DOMAIN s.removed
      PROVE  s.removed[i][2] \in HeldReaders(x)
  <2>1. i \in DOMAIN x.removed /\ x.removed[i] = s.removed[i]
    <3>1. CASE d \in DOMAIN s.readers
      <4>1. <<d, s.readers[d]>> \in Device \X Nat
        BY <3>1 DEF IsSources
      <4>2. x.removed = Append(s.removed, <<d, s.readers[d]>>)
        BY <3>1 DEF Removal
      <4>3. QED BY <1>1, <1>3, <4>1, <4>2
    <3>2. CASE d \notin DOMAIN s.readers
      BY <1>3, <3>2 DEF Removal
    <3>3. QED BY <3>1, <3>2
  <2>2. QED BY <2>1 DEF HeldReaders
<1>4. QED BY <1>2, <1>3 DEF HeldReaders

\* Nothing that plays is lost: what the map or the list of those removed held is there
\* or doomed.
Minded ==
  /\ \A r \in HeldReaders(sources) :
       r \in HeldReaders(sources') \/ \E t \in Threads : r \in Unsilenced(doing'[t])
  /\ \A t \in Threads :
       /\ Unsilenced(doing[t]) \subseteq Unsilenced(doing'[t])
       /\ Doomed(doing[t]) \subseteq Doomed(doing'[t])

\* What plays played before, or is in the map.
NoneRevived ==
  \A r \in DOMAIN made' :
    /\ made'[r].running => r \in HeldReaders(sources') \/ (r \in DOMAIN made /\ made[r].running)
    /\ made'[r].thread # "out" => r \in HeldReaders(sources') \/ (r \in DOMAIN made /\ Busy(r))

LEMMA AccountedMoves ==
  ASSUME Accounted, Minded, NoneRevived
  PROVE  Accounted'
<1>1. \A c : Unsilenced(c) \subseteq Doomed(c)
  BY DEF Unsilenced, Doomed
<1>2. ASSUME NEW r \in DOMAIN made', made'[r].running
      PROVE  r \in HeldReaders(sources') \/ \E t \in Threads : r \in Unsilenced(doing'[t])
  BY <1>2 DEF Accounted, Minded, NoneRevived
<1>3. ASSUME NEW r \in DOMAIN made', made'[r].thread # "out"
      PROVE  r \in HeldReaders(sources') \/ \E t \in Threads : r \in Doomed(doing'[t])
  <2>1. CASE r \in HeldReaders(sources')
    BY <2>1
  <2>2. CASE r \in DOMAIN made /\ Busy(r)
    <3>1. r \in HeldReaders(sources) \/ \E t \in Threads : r \in Doomed(doing[t])
      BY <1>1, <2>2 DEF Accounted, Busy
    <3>2. QED BY <1>1, <3>1 DEF Minded
  <2>3. QED BY <1>3, <2>1, <2>2 DEF NoneRevived
<1>4. QED BY <1>2, <1>3 DEF Accounted

LEMMA NoneDoomed ==
  ASSUME NEW c, c.doomed = <<>>
  PROVE  Doomed(c) = {} /\ Unsilenced(c) = {}
BY DEF Doomed, Unsilenced

\* A thread that was to destroy nothing turns to c.
LEMMA CallMinds ==
  ASSUME StreamTypes, NEW t \in Threads, NEW c, IsCall(c), doing' = [doing EXCEPT ![t] = c],
         doing[t].doomed = <<>> \/ (doing[t].doomed = c.doomed /\ doing[t].step = c.step),
         HeldReaders(sources) \subseteq HeldReaders(sources') \cup Unsilenced(c)
  PROVE  Minded
<1>1. doing'[t] = c /\ \A u \in Threads : u # t => doing'[u] = doing[u]
  BY CallChanges
<1>2. Unsilenced(doing[t]) \subseteq Unsilenced(c) /\ Doomed(doing[t]) \subseteq Doomed(c)
  <2>1. CASE doing[t].doomed = <<>>
    BY <2>1, NoneDoomed
  <2>2. CASE doing[t].doomed = c.doomed /\ doing[t].step = c.step
    BY <2>2 DEF Doomed, Unsilenced
  <2>3. QED BY <2>1, <2>2
<1>3. QED BY <1>1, <1>2 DEF Minded

LEMMA AllMinded ==
  ASSUME doing' = doing, HeldReaders(sources) \subseteq HeldReaders(sources')
  PROVE  Minded
BY DEF Minded


LEMMA MadeRevivesNone ==
  ASSUME DOMAIN made' = DOMAIN made,
         \A r \in DOMAIN made : /\ made'[r].running => made[r].running \/ r \in Current
                                /\ made'[r].thread = made[r].thread,
         sources' = sources
  PROVE  NoneRevived
<1>1. Current \subseteq HeldReaders(sources')
  BY DEF Current, HeldReaders
<1>2. \A r \in DOMAIN made' : made'[r].running => r \in HeldReaders(sources') \/ made[r].running
  BY <1>1
<1>3. \A r \in DOMAIN made' : made'[r].thread # "out" => Busy(r)
  BY DEF Busy
<1>4. QED BY <1>2, <1>3 DEF NoneRevived

LEMMA Concats ==
  ASSUME NEW S, NEW a \in Seq(S), NEW b \in Seq(S)
  PROVE  /\ \A i \in DOMAIN a : i \in DOMAIN (a \o b) /\ (a \o b)[i] = a[i]
         /\ \A i \in DOMAIN b : Len(a) + i \in DOMAIN (a \o b) /\ (a \o b)[Len(a) + i] = b[i]
OBVIOUS

LEMMA ClosingDooms ==
  ASSUME StreamTypes, NEW f \in Sorted(DOMAIN sources.readers), NEW c, c.step = "destroy",
         c.doomed = [i \in DOMAIN f |-> sources.readers[f[i]]] \o Second(sources.removed)
  PROVE  HeldReaders(sources) \subseteq Unsilenced(c)
<1> DEFINE first == [i \in DOMAIN f |-> sources.readers[f[i]]]
           second == Second(sources.removed)
<1>1. IsSources(sources) /\ sources.removed \in Seq(Device \X Nat)
  BY DEF StreamTypes, IsSources
<1>2. first \in Seq(Nat)
  BY <1>1, FirstReaders
<1>3. /\ second \in Seq(Nat)
      /\ DOMAIN second = DOMAIN sources.removed
      /\ \A i \in DOMAIN sources.removed : second[i] = sources.removed[i][2]
  BY <1>1, SecondIs
<1>4. \A d \in DOMAIN sources.readers :
        \E i \in DOMAIN first : first[i] = sources.readers[d]
  BY SortedDevices
<1> HIDE DEF first, second
<1>5. c.doomed = first \o second
  BY DEF first, second
<1>6. Unsilenced(c) = Doomed(c)
  BY DEF Unsilenced, Doomed
<1>7. ASSUME NEW d \in DOMAIN sources.readers
      PROVE  sources.readers[d] \in Doomed(c)
  <2>1. PICK i \in DOMAIN first : first[i] = sources.readers[d]
    BY <1>4
  <2>2. i \in DOMAIN c.doomed /\ c.doomed[i] = first[i]
    <3>1. i \in DOMAIN (first \o second) /\ (first \o second)[i] = first[i]
      BY <1>2, <1>3, Concats
    <3>2. QED BY <1>5, <3>1
  <2>3. QED BY <2>1, <2>2 DEF Doomed
<1>8. ASSUME NEW i \in DOMAIN sources.removed
      PROVE  sources.removed[i][2] \in Doomed(c)
  <2>1. Len(first) + i \in DOMAIN c.doomed /\ c.doomed[Len(first) + i] = second[i]
    <3>1. /\ Len(first) + i \in DOMAIN (first \o second)
          /\ (first \o second)[Len(first) + i] = second[i]
      BY <1>2, <1>3, Concats
    <3>2. QED BY <1>5, <3>1
  <2>2. QED BY <1>3, <2>1 DEF Doomed
<1>9. QED BY <1>6, <1>7, <1>8 DEF HeldReaders

\* Calls open readers of the map only, and but for close take none from it.
LEMMA CallsKeep ==
  ASSUME StreamTypes, Application \/ Start
  PROVE  /\ Close \/ sources' = sources
         /\ DOMAIN made' = DOMAIN made
         /\ \A r \in DOMAIN made : /\ made'[r].running => made[r].running \/ r \in Current
                                   /\ made'[r].thread = made[r].thread
                                   /\ made'[r].device = made[r].device
<1>1. Close \/ sources' = sources
  BY DEF Application, Asks, SetStreamSources, UpdatePause, UpdateMute, OptimizeSources,
     OnUpgrade, Detach, AddTrack, Start
<1>2. ASSUME NEW value \in BOOLEAN, UpdatePause(value)
      PROVE  made' = made \/ \E v \in BOOLEAN : made' = EnableAll(v)
  <2>1. (~ value) \in BOOLEAN
    OBVIOUS
  <2>2. made' = made \/ made' = EnableAll(~ value)
    BY <1>2 DEF UpdatePause
  <2>3. QED BY <2>1, <2>2
<1>3. Detach => made' = made \/ \E v \in BOOLEAN : made' = EnableAll(v)
  BY DEF Detach
<1>4. Application => made' = made \/ \E v \in BOOLEAN : made' = EnableAll(v)
  BY <1>2, <1>3 DEF Application, Asks, SetStreamSources, UpdateMute, OptimizeSources,
     OnUpgrade, AddTrack, Close
<1>5. CASE made' = made
  BY <1>1, <1>5
<1>6. CASE \E value \in BOOLEAN : made' = EnableAll(value)
  BY <1>1, <1>6, EnablesAll
<1>7. CASE Start
  BY <1>1, <1>7, Starts
<1>8. QED BY <1>4, <1>5, <1>6, <1>7

LEMMA AccountedCalls ==
  ASSUME StreamTypes, Accounted, Application \/ Start
  PROVE  Accounted'
<1>0. "application" \in Threads
  BY DEF Threads
<1>1. CASE Close
  <2>1. PICK f \in Sorted(DOMAIN sources.readers) :
          doing' = [doing EXCEPT !["application"] = [Idle EXCEPT !.step = "destroy",
                      !.doomed = [i \in DOMAIN f |-> sources.readers[f[i]]]
                                   \o Second(sources.removed)]]
    BY <1>1 DEF Close
  <2> DEFINE all == [i \in DOMAIN f |-> sources.readers[f[i]]] \o Second(sources.removed)
             c == [Idle EXCEPT !.step = "destroy", !.doomed = all]
  <2>2. c.step = "destroy" /\ c.doomed = all
    BY DEF Idle
  <2>3. doing' = [doing EXCEPT !["application"] = c]
    BY <2>1
  <2>4. HeldReaders(sources) \subseteq Unsilenced(c)
    <3> HIDE DEF c
    <3>1. QED BY <2>2, ClosingDooms
  <2> HIDE DEF c
  <2>5. StreamTypes'
    BY <1>1, TypesCalls DEF Application
  <2>6. IsCall(c)
    BY <1>0, <2>3, <2>5 DEF StreamTypes
  <2>7. doing["application"].doomed = <<>>
    BY <1>1, Idles DEF Close, Calling
  <2>8. Minded
    <3>1. HeldReaders(sources) \subseteq HeldReaders(sources') \cup Unsilenced(c)
      BY <2>4
    <3>2. QED BY <1>0, <2>3, <3>1, <2>6, <2>7, CallMinds
  <2>9. NoneRevived
    BY <1>1 DEF Close, NoneRevived, Busy
  <2>10. QED BY <2>8, <2>9, AccountedMoves
<1>2. CASE ~ Close
  <2>1. sources' = sources
    BY <1>2, CallsKeep
  <2>2. /\ DOMAIN made' = DOMAIN made
        /\ \A r \in DOMAIN made : /\ made'[r].running => made[r].running \/ r \in Current
                                  /\ made'[r].thread = made[r].thread
    BY CallsKeep
  <2>3. NoneRevived
    BY <2>1, <2>2, MadeRevivesNone
  <2>4. Minded
    <3>1. CASE doing' = doing
      BY <2>1, <3>1, AllMinded
    <3>2. ASSUME doing["application"] = Idle, NEW c, doing' = [doing EXCEPT !["application"] = c]
          PROVE  Minded
      <4>1. StreamTypes'
        BY TypesCalls
      <4>2. IsCall(c)
        BY <1>0, <3>2, <4>1 DEF StreamTypes
      <4>3. doing["application"].doomed = <<>>
        BY <3>2, Idles
      <4>4. HeldReaders(sources) \subseteq HeldReaders(sources') \cup Unsilenced(c)
        BY <2>1
      <4>5. QED BY <1>0, <3>2, <4>2, <4>3, <4>4, CallMinds
    <3>3. ASSUME NEW desc, SetStreamSources(desc)
          PROVE  Minded
      <4> DEFINE c == [Idle EXCEPT !.step = "configure", !.rest = Order, !.wants = desc]
      <4>1. doing' = [doing EXCEPT !["application"] = c] /\ doing["application"] = Idle
        BY <3>3 DEF SetStreamSources, Calling
      <4> HIDE DEF c
      <4>2. QED BY <3>2, <4>1
    <3>4. ASSUME NEW value \in BOOLEAN, OptimizeSources(value)
          PROVE  Minded
      <4> DEFINE c == [Idle EXCEPT !.step = "read"]
      <4>1. (doing' = doing \/ doing' = [doing EXCEPT !["application"] = c])
            /\ doing["application"] = Idle
        BY <3>4 DEF OptimizeSources, Calling
      <4> HIDE DEF c
      <4>2. QED BY <3>1, <3>2, <4>1
    <3>5. QED
      BY <1>2, <3>1, <3>3, <3>4 DEF Application, Asks, UpdatePause, UpdateMute, OnUpgrade, Detach,
         AddTrack, Start
  <2>5. QED BY <2>3, <2>4, AccountedMoves
<1>3. QED BY <1>1, <1>2

LEMMA AccountedConfigure ==
  ASSUME StreamTypes, Accounted, Configure
  PROVE  Accounted'
<1>0. "application" \in Threads
  BY DEF Threads
<1>1. PICK d \in Device : Untouched \/ Removing(d) \/ Feeding(d) \/ Renewing(d)
  BY Configures
<1> DEFINE s == RemoveReader(sources, d)
<1>2. Removal(sources, d, s) /\ IsSources(sources)
  BY Removes DEF StreamTypes
<1> HIDE DEF s
<1>3. HeldReaders(sources) \subseteq HeldReaders(s)
  BY <1>2, RemovalHolds
<1>4. HeldReaders(sources) \subseteq HeldReaders(sources') /\ NoneRevived
  <2>1. CASE Untouched
    BY <2>1 DEF Untouched, NoneRevived, Busy
  <2>2. CASE Removing(d)
    BY <1>3, <2>2 DEF Removing, NoneRevived, Busy, s
  <2>3. CASE Feeding(d)
    <3>1. Fed(s, d, sources')
      BY <2>3, Feeds DEF s
    <3>2. HeldReaders(s) = HeldReaders(sources')
      BY <3>1 DEF Fed, HeldReaders
    <3>3. QED BY <1>3, <2>3, <3>2 DEF Feeding, NoneRevived, Busy
  <2>4. CASE Renewing(d)
    <3>1. Renewed(s, d, sources', Len(made) + 1)
      BY <2>4, Renews DEF s
    <3>2. d \notin DOMAIN s.readers
      BY <1>2 DEF Removal
    <3>3. HeldReaders(s) \subseteq HeldReaders(sources')
      BY <3>1, <3>2 DEF Renewed, HeldReaders
    <3>4. Len(made) + 1 \in HeldReaders(sources')
      BY <3>1 DEF Renewed, HeldReaders
    <3>5. /\ DOMAIN made' = 1 .. (Len(made) + 1)
          /\ DOMAIN made = 1 .. Len(made)
          /\ \A r \in DOMAIN made : made'[r] = made[r]
      BY <2>4, Renews
    <3>6. \A r \in DOMAIN made' : r = Len(made) + 1 \/ r \in DOMAIN made
      BY <3>5 DEF StreamTypes
    <3>7. NoneRevived
      <4>1. ASSUME NEW r \in DOMAIN made'
            PROVE  r \in HeldReaders(sources') \/ (r \in DOMAIN made /\ made'[r] = made[r])
        BY <3>4, <3>5, <3>6
      <4>2. QED BY <4>1 DEF NoneRevived, Busy
    <3>8. QED BY <1>3, <3>3, <3>7
  <2>5. QED BY <1>1, <2>1, <2>2, <2>3, <2>4
<1>5. Minded
  <2> DEFINE c == [doing["application"] EXCEPT !.rest = Tail(@)]
  <2>1. /\ IsCall(c)
        /\ doing' = [doing EXCEPT !["application"] = c]
    BY Configures
  <2>2. IsCall(doing["application"])
    BY <1>0 DEF StreamTypes
  <2>3. c.doomed = doing["application"].doomed /\ c.step = doing["application"].step
    BY <2>2 DEF IsCall
  <2> HIDE DEF c
  <2>4. QED BY <1>0, <1>4, <2>1, <2>3, CallMinds
<1>6. QED BY <1>4, <1>5, AccountedMoves


LEMMA AccountedEnds ==
  ASSUME StreamTypes, StreamTypes', Accounted, DoomedInTime,
         ConfigureThrows \/ Configured \/ Remember \/ EmitStateIfChanged \/ RunTask
  PROVE  Accounted'
<1>0. "application" \in Threads /\ "worker" \in Threads
  BY DEF Threads
<1>1. IsSources(sources) /\ DOMAIN doing = Threads
  BY DEF StreamTypes
<1>2. NoneRevived
  BY DEF ConfigureThrows, Configured, Remember, EmitStateIfChanged, RunTask, NoneRevived, Busy
<1>3. HeldReaders(sources) \subseteq HeldReaders(sources')
  <2>1. CASE sources' = sources
    BY <2>1
  <2>2. ASSUME NEW d \in Device, sources' = RemoveReader(sources, d)
        PROVE  HeldReaders(sources) \subseteq HeldReaders(sources')
    <3>1. Removal(sources, d, sources')
      BY <1>1, <2>2, Removes
    <3>2. QED BY <1>1, <3>1, RemovalHolds
  <2>3. CASE ConfigureThrows
    BY <2>2, <2>3, TypesThrows
  <2>4. CASE RunTask
    <3>1. Head(tasks).device \in Device
      BY <2>4, TypesTask DEF Task
    <3>2. QED BY <2>1, <2>2, <2>4, <3>1 DEF RunTask
  <2>5. QED
    BY <2>1, <2>3, <2>4 DEF Configured, Remember, EmitStateIfChanged
<1>4. ASSUME NEW t \in Threads, NEW c, doing' = [doing EXCEPT ![t] = c],
             doing[t].step \notin {"destroy", "join"}
      PROVE  Minded
  <2>1. IsCall(c)
    BY <1>1, <1>4 DEF StreamTypes
  <2>2. doing[t].doomed = <<>>
    BY <1>4 DEF DoomedInTime
  <2>3. HeldReaders(sources) \subseteq HeldReaders(sources') \cup Unsilenced(c)
    BY <1>3
  <2>4. QED BY <1>4, <2>1, <2>2, <2>3, CallMinds
<1>5. CASE ConfigureThrows
  <2>1. /\ doing' = [doing EXCEPT !["application"] = Idle]
        /\ doing["application"].step = "configure"
    BY <1>5 DEF ConfigureThrows
  <2>2. QED BY <1>0, <1>2, <1>4, <2>1, AccountedMoves
<1>6. CASE Configured
  <2>1. /\ doing' = [doing EXCEPT !["application"] = [Idle EXCEPT !.step = "take"]]
        /\ doing["application"].step = "configure"
    BY <1>6 DEF Configured
  <2>2. QED BY <1>0, <1>2, <1>4, <2>1, AccountedMoves
<1>7. CASE Remember
  <2>1. /\ doing' = [doing EXCEPT !["application"] = Idle]
        /\ doing["application"].step = "remember"
    BY <1>7 DEF Remember
  <2>2. QED BY <1>0, <1>2, <1>4, <2>1, AccountedMoves
<1>8. CASE EmitStateIfChanged
  <2>1. /\ doing' = [doing EXCEPT !["worker"] = Idle]
        /\ doing["worker"].step = "remember"
    BY <1>8 DEF EmitStateIfChanged
  <2>2. QED BY <1>0, <1>2, <1>4, <2>1, AccountedMoves
<1>9. CASE RunTask
  <2>1. PICK step \in {"read", "take"} :
          doing' = [doing EXCEPT !["worker"] = [Idle EXCEPT !.step = step]]
    BY <1>9 DEF RunTask
  <2>2. doing["worker"].step = "idle"
    BY <1>9, Idles DEF RunTask, Working
  <2>3. QED BY <1>0, <1>2, <1>4, <2>1, <2>2, AccountedMoves
<1>10. QED BY <1>5, <1>6, <1>7, <1>8, <1>9

\* The list of those removed is taken whole.
LEMMA TakingDooms ==
  ASSUME StreamTypes, NEW c, c.step = "destroy", c.doomed = Second(sources.removed),
         sources' = [sources EXCEPT !.removed = <<>>]
  PROVE  HeldReaders(sources) \subseteq HeldReaders(sources') \cup Unsilenced(c)
<1>1. IsSources(sources) /\ sources.removed \in Seq(Device \X Nat)
  BY DEF StreamTypes, IsSources
<1>2. sources'.readers = sources.readers
  BY <1>1 DEF IsSources
<1>3. \A d \in DOMAIN sources.readers : sources.readers[d] \in HeldReaders(sources')
  BY <1>2 DEF HeldReaders
<1>4. \A i \in DOMAIN sources.removed :
        i \in DOMAIN c.doomed /\ c.doomed[i] = sources.removed[i][2]
  BY <1>1, SecondIs
<1>5. \A i \in DOMAIN sources.removed : sources.removed[i][2] \in Unsilenced(c)
  BY <1>4 DEF Unsilenced
<1>6. QED BY <1>3, <1>5 DEF HeldReaders

LEMMA AccountedDestroying ==
  ASSUME StreamTypes, StreamTypes', Accounted, DoomedInTime, NEW t \in Threads, Proceed(t)
  PROVE  Accounted'
<1>1. IsSources(sources) /\ IsCall(doing[t]) /\ DOMAIN doing = Threads
  BY DEF StreamTypes
<1>2. ASSUME made' = made
      PROVE  NoneRevived
  BY <1>2 DEF NoneRevived, Busy
<1>3. CASE TakeRemoved(t)
  <2> DEFINE c == [Idle EXCEPT !.step = "destroy", !.doomed = Second(sources.removed),
                     !.keys = {sources.removed[i][1] : i \in DOMAIN sources.removed}]
  <2>1. c.step = "destroy" /\ c.doomed = Second(sources.removed)
    BY DEF Idle
  <2>2. /\ doing' = [doing EXCEPT ![t] = c]
        /\ sources' = [sources EXCEPT !.removed = <<>>]
        /\ made' = made /\ doing[t].step = "take"
    BY <1>3 DEF TakeRemoved
  <2> HIDE DEF c
  <2>3. IsCall(c)
    BY <1>1, <2>2 DEF StreamTypes
  <2>4. doing[t].doomed = <<>>
    BY <2>2 DEF DoomedInTime
  <2>5. HeldReaders(sources) \subseteq HeldReaders(sources') \cup Unsilenced(c)
    BY <2>1, <2>2, TakingDooms
  <2>6. Minded
    BY <2>2, <2>3, <2>4, <2>5, CallMinds
  <2>7. QED BY <1>2, <2>2, <2>6, AccountedMoves
<1>4. CASE Silence(t)
  <2> DEFINE r == Head(doing[t].doomed)
  <2>1. CASE r = 0
    <3>1. made' = made /\ doing' = doing /\ sources' = sources
      BY <1>4, <2>1 DEF Silence
    <3>2. QED BY <1>2, <3>1, AllMinded, AccountedMoves
  <2>2. CASE r # 0
    <3> DEFINE c == [doing[t] EXCEPT !.step = "join"]
    <3>1. /\ doing' = [doing EXCEPT ![t] = c]
          /\ made' = [made EXCEPT ![r].heard = FALSE, ![r].running = FALSE]
          /\ sources' = sources /\ doing[t].step = "destroy" /\ doing[t].doomed # <<>>
      BY <1>1, <1>4, <2>2 DEF Silence
    <3>2. c.doomed = doing[t].doomed /\ c.step = "join"
      BY <1>1 DEF IsCall
    <3> HIDE DEF c
    <3>3. IsCall(c)
      BY <1>1, <3>1 DEF StreamTypes
    <3>4. doing'[t] = c /\ \A u \in Threads : u # t => doing'[u] = doing[u]
      BY <3>1, <3>3, CallChanges
    <3>5. r = doing[t].doomed[1]
      BY <1>1, <3>1, Tails DEF IsCall
    <3> HIDE DEF r
    <3>6. /\ DOMAIN made' = DOMAIN made
          /\ \A q \in DOMAIN made : /\ made'[q].thread = made[q].thread
                                    /\ q # r => made'[q].running = made[q].running
          /\ r \in DOMAIN made => ~ made'[r].running
      <4>1. \A q \in DOMAIN made : made[q] \in Reader
        BY DEF StreamTypes
      <4>2. DOMAIN made' = DOMAIN made /\ \A q \in DOMAIN made : q # r => made'[q] = made[q]
        BY <3>1 DEF StreamTypes
      <4>3. ASSUME r \in DOMAIN made
            PROVE  made'[r].thread = made[r].thread /\ ~ made'[r].running
        <5>1. made'[r] = [made[r] EXCEPT !.heard = FALSE, !.running = FALSE]
          BY <3>1, <4>1, <4>3 DEF StreamTypes, Reader
        <5>2. QED BY <4>1, <4>3, <5>1 DEF Reader
      <4>4. QED BY <4>2, <4>3
    <3>7. Doomed(c) = Doomed(doing[t])
      BY <3>2 DEF Doomed
    <3>8. \A q \in Unsilenced(doing[t]) : q = r \/ q \in Unsilenced(c)
      BY <3>2, <3>5 DEF Unsilenced
    <3>9. ASSUME NEW q \in DOMAIN made', made'[q].running
          PROVE  q \in HeldReaders(sources') \/ \E u \in Threads : q \in Unsilenced(doing'[u])
      BY <3>1, <3>4, <3>6, <3>8, <3>9 DEF Accounted
    <3>10. ASSUME NEW q \in DOMAIN made', made'[q].thread # "out"
           PROVE  q \in HeldReaders(sources') \/ \E u \in Threads : q \in Doomed(doing'[u])
      BY <3>1, <3>4, <3>6, <3>7, <3>10 DEF Accounted
    <3>11. QED BY <3>9, <3>10 DEF Accounted
  <2>3. QED BY <2>1, <2>2
<1>5. CASE Join(t)
  <2> DEFINE r == Head(doing[t].doomed)
             c == [doing[t] EXCEPT !.step = "destroy", !.doomed = Tail(doing[t].doomed)]
  <2>1. /\ doing' = [doing EXCEPT ![t] = c]
        /\ made' = made /\ sources' = sources
        /\ doing[t].step = "join" /\ made[r].thread = "out"
    BY <1>1, <1>5 DEF Join, IsCall
  <2>2. c.doomed = Tail(doing[t].doomed) /\ c.step = "destroy"
    BY <1>1 DEF IsCall
  <2> HIDE DEF c
  <2>3. IsCall(c)
    BY <1>1, <2>1 DEF StreamTypes
  <2>4. doing'[t] = c /\ \A u \in Threads : u # t => doing'[u] = doing[u]
    BY <2>1, <2>3, CallChanges
  <2>5. /\ r = doing[t].doomed[1]
        /\ \A i \in DOMAIN doing[t].doomed : i # 1 =>
             i - 1 \in DOMAIN c.doomed /\ doing[t].doomed[i] = c.doomed[i - 1]
    BY <1>1, <2>1, <2>2, Tails DEF IsCall
  <2> HIDE DEF r
  <2>6. \A q \in Doomed(doing[t]) : q = r \/ q \in Doomed(c)
    BY <2>5 DEF Doomed
  <2>7. Unsilenced(doing[t]) \subseteq Doomed(c)
    BY <2>1, <2>5 DEF Doomed, Unsilenced
  <2>8. Doomed(c) = Unsilenced(c)
    BY <2>2 DEF Doomed, Unsilenced
  <2>9. QED BY <2>1, <2>4, <2>6, <2>7, <2>8 DEF Accounted
<1>6. CASE Destroyed(t)
  <2>1. /\ doing' = [doing EXCEPT ![t] = Idle]
        /\ sources' = [sources EXCEPT !.cancelled = @ \ doing[t].keys]
        /\ made' = made /\ doing[t].doomed = <<>>
    BY <1>6 DEF Destroyed
  <2>2. HeldReaders(sources) = HeldReaders(sources')
    BY <1>1, <2>1 DEF HeldReaders, IsSources
  <2>3. Minded
    BY <2>1, <2>2, Idles, CallMinds
  <2>4. QED BY <1>2, <2>1, <2>3, AccountedMoves
<1>7. CASE ReadState(t)
  <2> DEFINE c == [doing[t] EXCEPT !.step = "remember", !.state = <<GetState>>]
  <2>1. /\ doing' = doing \/ doing' = [doing EXCEPT ![t] = c]
        /\ sources' = sources /\ made' = made /\ doing[t].step = "read"
    BY <1>1, <1>7 DEF ReadState, IsCall
  <2>2. IsCall(c)
    BY <1>1 DEF IsCall, Steps
  <2> HIDE DEF c
  <2>3. doing[t].doomed = <<>>
    BY <2>1 DEF DoomedInTime
  <2>4. Minded
    <3>1. CASE doing' = doing
      BY <2>1, <3>1, AllMinded
    <3>2. CASE doing' = [doing EXCEPT ![t] = c]
      <4>1. HeldReaders(sources) \subseteq HeldReaders(sources') \cup Unsilenced(c)
        BY <2>1
      <4>2. QED BY <2>2, <2>3, <3>2, <4>1, CallMinds
    <3>3. QED BY <2>1, <3>1, <3>2
  <2>5. QED BY <1>2, <2>1, <2>4, AccountedMoves
<1>8. QED BY <1>3, <1>4, <1>5, <1>6, <1>7 DEF Proceed

LEMMA AccountedPlaying ==
  ASSUME StreamTypes, Accounted, NEW r \in DOMAIN made, Playing(r)
  PROVE  Accounted'
<1>1. Runs(r) /\ Enters /\ doing' = doing
  BY PlayingRuns, PlayingEnters, PlayingLeaves
<1>2. HeldReaders(sources) \subseteq HeldReaders(sources')
  BY <1>1 DEF Enters, HeldReaders
<1>3. Minded
  BY <1>1, <1>2, AllMinded
<1>4. NoneRevived
  <2>1. ASSUME NEW q \in DOMAIN made'
        PROVE  /\ q \in DOMAIN made
               /\ made'[q].running => made[q].running
               /\ made'[q].thread # "out" => Busy(q)
    BY <1>1 DEF Runs, Busy
  <2>2. QED BY <2>1 DEF NoneRevived
<1>5. QED BY <1>3, <1>4, AccountedMoves


\* The thread t goes on with c.
Turns(t, c) == t \in Threads /\ IsCall(c) /\ doing' = [doing EXCEPT ![t] = c]

Destroying(c) == c.step \in {"destroy", "join"}

LEMMA TurnsInTime ==
  ASSUME StreamTypes, DoomedInTime, NEW t, NEW c, Turns(t, c),
         Destroying(c) \/ c.doomed = <<>>
  PROVE  DoomedInTime'
<1>1. doing'[t] = c /\ \A u \in Threads : u # t => doing'[u] = doing[u]
  BY CallChanges DEF Turns
<1>2. QED BY <1>1 DEF DoomedInTime, Destroying

\* Nobody who was to see to the readers removed lets them be.
LEMMA TurnsSoon ==
  ASSUME StreamTypes, RemovedSoon, NEW t, NEW c, Turns(t, c),
         doing[t].step \notin {"configure", "take"},
         sources'.removed = sources.removed, history'.thrown = history.thrown
  PROVE  RemovedSoon'
<1>1. doing'[t] = c /\ \A u \in Threads : u # t => doing'[u] = doing[u]
  BY CallChanges DEF Turns
<1>2. "application" \in Threads
  BY DEF Threads
<1>3. QED BY <1>1, <1>2 DEF RemovedSoon, Unlocked

LEMMA InTimeCalls ==
  ASSUME StreamTypes, DoomedInTime, RemovedSoon, Application \/ Start
  PROVE  DoomedInTime' /\ RemovedSoon'
<1>0. "application" \in Threads
  BY DEF Threads
<1>1. StreamTypes'
  BY TypesCalls
<1>2. Counted.thrown = history.thrown
  BY DEF StreamTypes, History, Counted
<1>3. ASSUME NEW c, doing' = [doing EXCEPT !["application"] = c]
      PROVE  Turns("application", c)
  BY <1>0, <1>1, <1>3 DEF StreamTypes, Turns
<1>4. CASE Close
  <2>1. PICK doomed :
          doing' = [doing EXCEPT !["application"] = [Idle EXCEPT !.step = "destroy",
                                                                 !.doomed = doomed]]
    BY <1>4 DEF Close
  <2> DEFINE c == [Idle EXCEPT !.step = "destroy", !.doomed = doomed]
  <2>2. Destroying(c)
    BY DEF Destroying, Idle
  <2>3. Turns("application", c)
    BY <1>3, <2>1
  <2>4. sources'.removed = <<>>
    BY <1>4 DEF Close, StreamTypes, IsSources
  <2> HIDE DEF c
  <2>5. QED BY <2>2, <2>3, <2>4, TurnsInTime DEF RemovedSoon
<1>5. ASSUME NEW desc, SetStreamSources(desc)
      PROVE  DoomedInTime' /\ RemovedSoon'
  <2> DEFINE c == [Idle EXCEPT !.step = "configure", !.rest = Order, !.wants = desc]
  <2>1. c.doomed = <<>> /\ c.step = "configure"
    BY DEF Idle
  <2>2. doing' = [doing EXCEPT !["application"] = c]
    BY <1>5 DEF SetStreamSources
  <2> HIDE DEF c
  <2>3. Turns("application", c)
    BY <1>3, <2>2
  <2>4. doing'["application"] = c
    BY <1>0, <2>3, CallChanges DEF Turns
  <2>5. QED BY <2>1, <2>3, <2>4, TurnsInTime DEF RemovedSoon, Unlocked
<1>6. ASSUME sources' = sources, history'.thrown = history.thrown, doing' = doing
      PROVE  DoomedInTime' /\ RemovedSoon'
  BY <1>6 DEF DoomedInTime, RemovedSoon, Unlocked
<1>7. ASSUME NEW value \in BOOLEAN, OptimizeSources(value)
      PROVE  DoomedInTime' /\ RemovedSoon'
  <2>1. sources' = sources /\ doing["application"] = Idle
    BY <1>7 DEF OptimizeSources, Calling
  <2>2. history'.thrown = history.thrown
    BY <1>2, <1>7 DEF OptimizeSources, StreamTypes, History, Counted
  <2> DEFINE c == [Idle EXCEPT !.step = "read"]
  <2>3. c.doomed = <<>>
    BY DEF Idle
  <2>4. doing' = doing \/ doing' = [doing EXCEPT !["application"] = c]
    BY <1>7 DEF OptimizeSources
  <2> HIDE DEF c
  <2>5. CASE doing' = doing
    BY <1>6, <2>1, <2>2, <2>5
  <2>6. CASE doing' = [doing EXCEPT !["application"] = c]
    <3>1. Turns("application", c)
      BY <1>3, <2>6
    <3>2. doing["application"].step \notin {"configure", "take"}
      BY <2>1, Idles
    <3>3. DoomedInTime'
      BY <2>3, <3>1, TurnsInTime
    <3>4. RemovedSoon'
      BY <2>1, <2>2, <3>1, <3>2, TurnsSoon
    <3>5. QED BY <3>3, <3>4
  <2>7. QED BY <2>4, <2>5, <2>6
<1>8. ASSUME \/ \E value \in BOOLEAN : UpdatePause(value) \/ UpdateMute(value)
             \/ OnUpgrade \/ Detach \/ AddTrack \/ Start
      PROVE  DoomedInTime' /\ RemovedSoon'
  <2>1. sources' = sources /\ doing' = doing
    BY <1>8 DEF UpdatePause, UpdateMute, OnUpgrade, Detach, AddTrack, Start
  <2>2. history' = Counted \/ \E u : history' = [Counted EXCEPT !.untold = u]
    BY <1>8 DEF UpdatePause, UpdateMute, OnUpgrade, Detach, AddTrack, Start
  <2>3. history'.thrown = history.thrown
    BY <1>2, <2>2 DEF StreamTypes, History, Counted
  <2>4. QED BY <1>6, <2>1, <2>3
<1>9. QED BY <1>4, <1>5, <1>7, <1>8 DEF Application, Asks

LEMMA InTimeConfigures ==
  ASSUME StreamTypes, StreamTypes', DoomedInTime, RemovedSoon,
         Configure \/ ConfigureThrows \/ Configured
  PROVE  DoomedInTime' /\ RemovedSoon'
<1>0. "application" \in Threads
  BY DEF Threads
<1>1. ASSUME NEW c, doing' = [doing EXCEPT !["application"] = c]
      PROVE  Turns("application", c) /\ doing'["application"] = c
  <2>1. DOMAIN doing = Threads
    BY DEF StreamTypes
  <2>2. doing'["application"] = c
    BY <1>0, <1>1, <2>1
  <2>3. QED BY <1>0, <1>1, <2>2 DEF StreamTypes, Turns
<1>2. CASE Configure
  <2> DEFINE c == [doing["application"] EXCEPT !.rest = Tail(@)]
  <2>1. /\ doing' = [doing EXCEPT !["application"] = c]
        /\ doing["application"].step = "configure"
    BY <1>2, Configures
  <2>2. c.step = "configure" /\ c.doomed = doing["application"].doomed
    BY <1>0, <2>1 DEF StreamTypes, IsCall
  <2>3. doing["application"].doomed = <<>>
    BY <1>0, <2>1 DEF DoomedInTime
  <2> HIDE DEF c
  <2>4. Turns("application", c) /\ doing'["application"] = c
    BY <1>1, <2>1
  <2>5. QED BY <2>2, <2>3, <2>4, TurnsInTime DEF RemovedSoon, Unlocked
<1>3. CASE ConfigureThrows
  <2>1. Turns("application", Idle)
    BY <1>1, <1>3 DEF ConfigureThrows
  <2>2. history'.thrown
    BY <1>3 DEF ConfigureThrows, StreamTypes, History
  <2>3. QED BY <2>1, <2>2, Idles, TurnsInTime DEF RemovedSoon
<1>4. CASE Configured
  <2> DEFINE c == [Idle EXCEPT !.step = "take"]
  <2>1. doing' = [doing EXCEPT !["application"] = c]
    BY <1>4 DEF Configured
  <2>2. c.step = "take" /\ c.doomed = <<>>
    BY DEF Idle
  <2> HIDE DEF c
  <2>3. Turns("application", c) /\ doing'["application"] = c
    BY <1>1, <2>1
  <2>4. QED BY <1>0, <2>2, <2>3, TurnsInTime DEF RemovedSoon
<1>5. QED BY <1>2, <1>3, <1>4

LEMMA InTimeTasks ==
  ASSUME StreamTypes, StreamTypes', DoomedInTime, RemovedSoon,
         Remember \/ EmitStateIfChanged \/ RunTask
  PROVE  DoomedInTime' /\ RemovedSoon'
<1>0. "application" \in Threads /\ "worker" \in Threads
  BY DEF Threads
<1>1. ASSUME NEW t \in Threads, NEW c, doing' = [doing EXCEPT ![t] = c]
      PROVE  Turns(t, c) /\ doing'[t] = c
  <2>1. DOMAIN doing = Threads
    BY DEF StreamTypes
  <2>2. doing'[t] = c
    BY <1>1, <2>1
  <2>3. QED BY <1>1, <2>2 DEF StreamTypes, Turns
<1>2. CASE Remember
  <2>1. /\ doing' = [doing EXCEPT !["application"] = Idle]
        /\ doing["application"].step = "remember" /\ sources' = sources
    BY <1>2 DEF Remember
  <2>2. history'.thrown = history.thrown
    BY <1>2 DEF Remember, StreamTypes, History
  <2>3. Turns("application", Idle)
    BY <1>0, <1>1, <2>1
  <2>4. QED BY <2>1, <2>2, <2>3, Idles, TurnsInTime, TurnsSoon
<1>3. CASE EmitStateIfChanged
  <2>1. /\ doing' = [doing EXCEPT !["worker"] = Idle]
        /\ doing["worker"].step = "remember" /\ sources' = sources /\ history' = history
    BY <1>3 DEF EmitStateIfChanged
  <2>2. Turns("worker", Idle)
    BY <1>0, <1>1, <2>1
  <2>3. QED BY <2>1, <2>2, Idles, TurnsInTime, TurnsSoon
<1>4. CASE RunTask
  <2>1. PICK step \in {"read", "take"} :
          /\ doing' = [doing EXCEPT !["worker"] = [Idle EXCEPT !.step = step]]
          /\ step = "take" \/ sources' = sources
    BY <1>4 DEF RunTask
  <2> DEFINE c == [Idle EXCEPT !.step = step]
  <2>2. c.step = step /\ c.doomed = <<>>
    BY DEF Idle
  <2>3. doing' = [doing EXCEPT !["worker"] = c]
    BY <2>1
  <2> HIDE DEF c
  <2>4. Turns("worker", c) /\ doing'["worker"] = c
    BY <1>0, <1>1, <2>3
  <2>5. DoomedInTime'
    BY <2>2, <2>4, TurnsInTime
  <2>6. doing["worker"].step = "idle"
    BY <1>4, Idles DEF RunTask, Working
  <2>7. history'.thrown = history.thrown
    BY <1>4 DEF RunTask, StreamTypes, History
  <2>8. CASE step = "take"
    BY <1>0, <2>2, <2>4, <2>5, <2>8 DEF RemovedSoon
  <2>9. CASE sources' = sources
    BY <2>4, <2>5, <2>6, <2>7, <2>9, TurnsSoon
  <2>10. QED BY <2>1, <2>8, <2>9
<1>5. QED BY <1>2, <1>3, <1>4


LEMMA InTimeDestroying ==
  ASSUME StreamTypes, StreamTypes', DoomedInTime, RemovedSoon, NEW t \in Threads, Proceed(t)
  PROVE  DoomedInTime' /\ RemovedSoon'
<1>0. DOMAIN doing = Threads /\ IsCall(doing[t]) /\ IsSources(sources)
  BY DEF StreamTypes
<1>1. ASSUME NEW c, doing' = [doing EXCEPT ![t] = c]
      PROVE  Turns(t, c)
  <2>1. doing'[t] = c
    BY <1>0, <1>1
  <2>2. QED BY <1>1, <2>1 DEF StreamTypes, Turns
<1>2. CASE TakeRemoved(t)
  <2> DEFINE c == [Idle EXCEPT !.step = "destroy", !.doomed = Second(sources.removed),
                     !.keys = {sources.removed[i][1] : i \in DOMAIN sources.removed}]
  <2>1. Destroying(c)
    BY DEF Destroying, Idle
  <2>2. doing' = [doing EXCEPT ![t] = c] /\ sources'.removed = <<>>
    BY <1>0, <1>2 DEF TakeRemoved, IsSources
  <2> HIDE DEF c
  <2>3. Turns(t, c)
    BY <1>1, <2>2
  <2>4. QED BY <2>1, <2>2, <2>3, TurnsInTime DEF RemovedSoon
<1>3. ASSUME doing' = doing, sources' = sources, history' = history
      PROVE  DoomedInTime' /\ RemovedSoon'
  BY <1>3 DEF DoomedInTime, RemovedSoon, Unlocked
<1>4. CASE Silence(t)
  <2> DEFINE c == [doing[t] EXCEPT !.step = "join"]
  <2>1. Destroying(c)
    BY <1>0 DEF Destroying, IsCall
  <2>2. /\ doing' = doing \/ doing' = [doing EXCEPT ![t] = c]
        /\ sources' = sources /\ history' = history /\ doing[t].step = "destroy"
    BY <1>0, <1>4 DEF Silence
  <2> HIDE DEF c
  <2>3. CASE doing' = doing
    BY <1>3, <2>2, <2>3
  <2>4. CASE doing' = [doing EXCEPT ![t] = c]
    <3>1. Turns(t, c)
      BY <1>1, <2>4
    <3>2. QED BY <2>1, <2>2, <3>1, TurnsInTime, TurnsSoon
  <2>5. QED BY <2>2, <2>3, <2>4
<1>5. CASE Join(t)
  <2> DEFINE c == [doing[t] EXCEPT !.step = "destroy", !.doomed = Tail(doing[t].doomed)]
  <2>1. Destroying(c)
    BY <1>0 DEF Destroying, IsCall
  <2>2. /\ doing' = [doing EXCEPT ![t] = c]
        /\ sources' = sources /\ history' = history /\ doing[t].step = "join"
    BY <1>0, <1>5 DEF Join, IsCall
  <2> HIDE DEF c
  <2>3. Turns(t, c)
    BY <1>1, <2>2
  <2>4. QED BY <2>1, <2>2, <2>3, TurnsInTime, TurnsSoon
<1>6. CASE Destroyed(t)
  <2>1. /\ doing' = [doing EXCEPT ![t] = Idle]
        /\ sources'.removed = sources.removed /\ history' = history /\ doing[t].step = "destroy"
    BY <1>0, <1>6 DEF Destroyed, IsSources
  <2>2. Turns(t, Idle)
    BY <1>1, <2>1
  <2>3. QED BY <2>1, <2>2, Idles, TurnsInTime, TurnsSoon
<1>7. CASE ReadState(t)
  <2> DEFINE c == [doing[t] EXCEPT !.step = "remember", !.state = <<GetState>>]
  <2>1. c.doomed = doing[t].doomed
    BY <1>0 DEF IsCall
  <2>2. /\ doing' = doing \/ doing' = [doing EXCEPT ![t] = c]
        /\ sources' = sources /\ history' = history /\ doing[t].step = "read"
    BY <1>0, <1>7 DEF ReadState, IsCall
  <2>3. doing[t].doomed = <<>>
    BY <2>2 DEF DoomedInTime
  <2> HIDE DEF c
  <2>4. CASE doing' = doing
    BY <1>3, <2>2, <2>4
  <2>5. CASE doing' = [doing EXCEPT ![t] = c]
    <3>1. Turns(t, c)
      BY <1>1, <2>5
    <3>2. QED BY <2>1, <2>2, <2>3, <3>1, TurnsInTime, TurnsSoon
  <2>6. QED BY <2>2, <2>4, <2>5
<1>8. QED BY <1>2, <1>4, <1>5, <1>6, <1>7 DEF Proceed

LEMMA PlayStep ==
  ASSUME StreamTypes, PlayInv, [Next]_vars
  PROVE  PlayInv'
<1>1. StreamTypes'
  BY StreamTypesStep
<1>2. Accounted /\ DoomedInTime /\ RemovedSoon
  BY DEF PlayInv
<1>3. CASE UNCHANGED vars
  <2>1. UNCHANGED <<sources, made, doing, history>>
    BY <1>3 DEF vars
  <2>2. Accounted'
    BY <1>2, <2>1 DEF Accounted
  <2>3. DoomedInTime' /\ RemovedSoon'
    BY <1>2, <2>1 DEF DoomedInTime, RemovedSoon, Unlocked
  <2>4. QED BY <2>2, <2>3 DEF PlayInv
<1>4. CASE Application \/ Start
  BY <1>2, <1>4, AccountedCalls, InTimeCalls DEF PlayInv
<1>5. CASE Configure
  BY <1>1, <1>2, <1>5, AccountedConfigure, InTimeConfigures DEF PlayInv
<1>6. CASE ConfigureThrows \/ Configured
  BY <1>1, <1>2, <1>6, AccountedEnds, InTimeConfigures DEF PlayInv
<1>7. CASE Remember \/ EmitStateIfChanged \/ RunTask
  BY <1>1, <1>2, <1>7, AccountedEnds, InTimeTasks DEF PlayInv
<1>8. ASSUME NEW t \in Threads, Proceed(t)
      PROVE  PlayInv'
  BY <1>1, <1>2, <1>8, AccountedDestroying, InTimeDestroying DEF PlayInv
<1>9. ASSUME NEW r \in DOMAIN made, Playing(r)
      PROVE  PlayInv'
  <2>1. Accounted'
    BY <1>2, <1>9, AccountedPlaying
  <2>2. doing' = doing /\ history' = history /\ sources'.removed = sources.removed
    BY <1>9, PlayingLeaves, PlayingEnters DEF Enters
  <2>3. DoomedInTime' /\ RemovedSoon'
    BY <1>2, <2>2 DEF DoomedInTime, RemovedSoon, Unlocked
  <2>4. QED BY <2>1, <2>3 DEF PlayInv
<1>10. QED BY <1>3, <1>4, <1>5, <1>6, <1>7, <1>8, <1>9, StreamSteps

\* When no call of set_stream_sources or close is under way and none threw, only the
\* readers in the map play (StreamManager::remove_reader, destroy_removed_readers).
THEOREM OnlyCurrentReaders == Spec => []OnlyCurrentPlay
<1>1. Init => PlayInv
  <2> SUFFICES ASSUME Init
               PROVE  PlayInv
    OBVIOUS
  <2>1. Accounted
    BY DEF Init, Accounted
  <2>2. DoomedInTime
    BY Idles DEF Init, DoomedInTime
  <2>3. RemovedSoon
    BY DEF Init, NoSources, RemovedSoon
  <2>4. QED BY <2>1, <2>2, <2>3 DEF PlayInv
<1>2. StreamTypes /\ PlayInv /\ [Next]_vars => PlayInv'
  BY PlayStep
<1>3. PlayInv => OnlyCurrentPlay
  <2> SUFFICES ASSUME PlayInv, Settled, ~ history.thrown, NEW r \in DOMAIN made, Busy(r)
               PROVE  r \in Current
    BY DEF OnlyCurrentPlay
  <2>1. \A t \in Threads : doing[t].doomed = <<>>
    BY DEF PlayInv, DoomedInTime, Settled
  <2>2. \A t \in Threads : Doomed(doing[t]) = {} /\ Unsilenced(doing[t]) = {}
    BY <2>1, NoneDoomed
  <2>3. r \in HeldReaders(sources)
    BY <2>2 DEF PlayInv, Accounted, Busy
  <2>4. sources.removed = <<>>
    BY DEF PlayInv, RemovedSoon, Settled, Unlocked, Threads
  <2>5. QED BY <2>3, <2>4 DEF HeldReaders, Current
<1>4. QED BY <1>1, <1>2, <1>3, StreamTypeCorrect, PTL DEF Spec


-----------------------------------------------------------------------------
(* No entry is without a reader, unless a device became external while a    *)
(* reader of its played: as long as none did, no device in the barrier has  *)
(* a reader that plays, so that no reader waits there.                      *)

Barrier ==
  /\ \A d \in sources.syncing : d \notin DOMAIN sources.readers /\ ~ Plays(d)
  /\ \A d \in DOMAIN sources.readers :
       sources.readers[d] \in DOMAIN made /\ made[sources.readers[d]].device = d
  /\ \A r \in DOMAIN made : made[r].thread # "waiting"

NoneEmpty ==
  /\ 0 \notin HeldReaders(sources)
  /\ \A t \in Threads : 0 \notin Doomed(doing[t])

CauseInv == history.switched = {} => Barrier /\ NoneEmpty /\ ~ crashed

\* A step that opens readers of the map only and takes none into it.
Calm ==
  /\ DOMAIN made' = DOMAIN made
  /\ \A r \in DOMAIN made :
       /\ made'[r].device = made[r].device
       /\ made'[r].thread # "waiting"
       /\ made'[r].running \/ made'[r].thread # "out" => Busy(r) \/ r \in Current
  /\ sources'.syncing \subseteq sources.syncing
  /\ DOMAIN sources'.readers \subseteq DOMAIN sources.readers
  /\ \A d \in DOMAIN sources'.readers : sources'.readers[d] = sources.readers[d]

LEMMA BarrierCalm ==
  ASSUME Barrier, Calm
  PROVE  Barrier'
<1>1. ASSUME NEW d \in sources'.syncing, NEW r \in DOMAIN made', made'[r].device = d,
             made'[r].running \/ made'[r].thread # "out"
      PROVE  FALSE
  <2>1. d \in sources.syncing /\ r \in DOMAIN made /\ made[r].device = d
    BY <1>1 DEF Calm
  <2>2. ~ Busy(r)
    BY <2>1 DEF Barrier, Plays
  <2>3. r \in Current
    BY <1>1, <2>1, <2>2 DEF Calm
  <2>4. d \in DOMAIN sources.readers
    BY <2>1, <2>3 DEF Current, Barrier
  <2>5. QED BY <2>1, <2>4 DEF Barrier
<1>2. \A d \in sources'.syncing : d \notin DOMAIN sources'.readers
  BY DEF Barrier, Calm
<1>3. \A d \in sources'.syncing : ~ \E r \in DOMAIN made' :
        made'[r].device = d /\ (made'[r].running \/ made'[r].thread # "out")
  BY <1>1
<1>4. \A d \in DOMAIN sources'.readers :
        sources'.readers[d] \in DOMAIN made' /\ made'[sources'.readers[d]].device = d
  BY DEF Barrier, Calm
<1>5. \A r \in DOMAIN made' : made'[r].thread # "waiting"
  BY DEF Calm
<1>6. QED BY <1>2, <1>3, <1>4, <1>5 DEF Barrier, Plays, Busy

LEMMA RemovalAddsNone ==
  ASSUME NEW s, IsSources(s), NEW d \in Device, NEW x, Removal(s, d, x)
  PROVE  HeldReaders(x) \subseteq HeldReaders(s)
<1>1. s.removed \in Seq(Device \X Nat)
  BY DEF IsSources
<1>2. \A e \in DOMAIN x.readers : x.readers[e] \in HeldReaders(s)
  BY DEF Removal, HeldReaders
<1>3. ASSUME NEW i \in DOMAIN x.removed
      PROVE  x.removed[i][2] \in HeldReaders(s)
  <2>1. CASE d \in DOMAIN s.readers
    <3>1. <<d, s.readers[d]>> \in Device \X Nat
      BY <2>1 DEF IsSources
    <3>2. x.removed = Append(s.removed, <<d, s.readers[d]>>)
      BY <2>1 DEF Removal
    <3>3. \/ i \in DOMAIN s.removed /\ x.removed[i] = s.removed[i]
          \/ x.removed[i] = <<d, s.readers[d]>>
      BY <1>1, <1>3, <3>1, <3>2
    <3>4. <<d, s.readers[d]>>[2] = s.readers[d]
      OBVIOUS
    <3>5. QED BY <2>1, <3>3, <3>4 DEF HeldReaders
  <2>2. CASE d \notin DOMAIN s.readers
    BY <1>3, <2>2 DEF Removal, HeldReaders
  <2>3. QED BY <2>1, <2>2
<1>4. QED BY <1>2, <1>3 DEF HeldReaders

\* What is made external while no reader of its plays may wait in the barrier.
LEMMA BarrierConfigure ==
  ASSUME StreamTypes, Barrier, Configure, history'.switched = {}
  PROVE  /\ Barrier'
         /\ \A r \in HeldReaders(sources') : r \in HeldReaders(sources) \/ r # 0
<1>1. PICK d \in Device : Untouched \/ Removing(d) \/ Feeding(d) \/ Renewing(d)
  BY Configures
<1> DEFINE s == RemoveReader(sources, d)
<1>2. Removal(sources, d, s) /\ IsSources(sources) /\ IsSources(s)
  BY Removes DEF StreamTypes, Removal
<1> HIDE DEF s
<1>3. HeldReaders(s) \subseteq HeldReaders(sources)
  BY <1>2, RemovalAddsNone
<1>4. CASE Untouched
  <2>1. Calm
    BY <1>4 DEF Untouched, Calm, Barrier, Busy
  <2>2. QED BY <1>4, <2>1, BarrierCalm DEF Untouched
<1>5. CASE Removing(d)
  <2>1. sources' = s /\ made' = made
    BY <1>5 DEF Removing, s
  <2>2. Calm
    BY <1>2, <2>1 DEF Calm, Barrier, Busy, Removal
  <2>3. QED BY <1>3, <2>1, <2>2, BarrierCalm
<1>6. CASE Feeding(d)
  <2>1. Fed(s, d, sources')
    BY <1>6, Feeds DEF s
  <2>2. made' = made
    BY <1>6 DEF Feeding
  <2>3. ~ Plays(d)
    BY <1>6 DEF Feeding, StreamTypes, History
  <2>4. \A e \in sources'.syncing : e = d \/ e \in sources.syncing
    BY <1>2, <2>1 DEF Fed, Removal
  <2>5. /\ DOMAIN sources'.readers = DOMAIN sources.readers \ {d}
        /\ \A e \in DOMAIN sources'.readers : sources'.readers[e] = sources.readers[e]
    BY <1>2, <2>1 DEF Fed, Removal
  <2>6. Barrier'
    BY <2>2, <2>3, <2>4, <2>5 DEF Barrier, Plays, Busy
  <2>7. HeldReaders(sources') = HeldReaders(s)
    BY <2>1 DEF Fed, HeldReaders
  <2>8. QED BY <1>3, <2>6, <2>7
<1>7. CASE Renewing(d)
  <2> DEFINE n == Len(made) + 1
  <2>1. Renewed(s, d, sources', n)
    BY <1>7, Renews DEF s
  <2>2. /\ DOMAIN made' = 1 .. n
        /\ DOMAIN made = 1 .. Len(made)
        /\ made'[n] = NewReader(d, flags.initialized)
        /\ \A r \in DOMAIN made : made'[r] = made[r]
    BY <1>7, Renews
  <2>3. made'[n].device = d /\ made'[n].thread = "out"
    BY <2>2 DEF NewReader
  <2>4. Len(made) \in Nat
    BY DEF StreamTypes
  <2> HIDE DEF n
  <2>5. n \in DOMAIN made' /\ n # 0 /\ DOMAIN made \subseteq DOMAIN made'
        /\ \A r \in DOMAIN made' : r = n \/ r \in DOMAIN made
    BY <2>2, <2>4 DEF n
  <2>6. /\ d \notin sources'.syncing /\ sources'.syncing \subseteq sources.syncing
        /\ DOMAIN sources'.readers = DOMAIN sources.readers \cup {d}
        /\ sources'.readers[d] = n
        /\ \A e \in DOMAIN sources'.readers : e # d =>
             e \in DOMAIN sources.readers /\ sources'.readers[e] = sources.readers[e]
    BY <1>2, <2>1 DEF Renewed, Removal
  <2>7. \A e \in sources'.syncing :
          e \notin DOMAIN sources'.readers
            /\ ~ \E r \in DOMAIN made' :
                   made'[r].device = e /\ (made'[r].running \/ made'[r].thread # "out")
    BY <2>2, <2>3, <2>5, <2>6 DEF Barrier, Plays, Busy
  <2>8. \A e \in DOMAIN sources'.readers :
          sources'.readers[e] \in DOMAIN made' /\ made'[sources'.readers[e]].device = e
    BY <2>2, <2>3, <2>5, <2>6 DEF Barrier
  <2>9. \A r \in DOMAIN made' : made'[r].thread # "waiting"
    BY <2>2, <2>3, <2>5 DEF Barrier
  <2>10. Barrier'
    BY <2>7, <2>8, <2>9 DEF Barrier, Plays, Busy
  <2>11. \A r \in HeldReaders(sources') : r = n \/ r \in HeldReaders(s)
    BY <2>1 DEF Renewed, HeldReaders
  <2>12. QED BY <1>3, <2>5, <2>10, <2>11
<1>8. QED BY <1>1, <1>4, <1>5, <1>6, <1>7


\* An entry or a doomed reader of the next state is one of this state.
NoneAdded ==
  /\ HeldReaders(sources') \subseteq HeldReaders(sources)
  /\ \A t \in Threads :
       \A r \in Doomed(doing'[t]) : r \in HeldReaders(sources) \/ r \in Doomed(doing[t])

LEMMA EmptyStays ==
  ASSUME NoneEmpty, NoneAdded
  PROVE  NoneEmpty'
BY DEF NoneEmpty, NoneAdded

LEMMA TurnsAddNone ==
  ASSUME StreamTypes, NEW t, NEW c, Turns(t, c),
         HeldReaders(sources') \subseteq HeldReaders(sources),
         \A r \in Doomed(c) : r \in HeldReaders(sources) \/ r \in Doomed(doing[t])
  PROVE  NoneAdded
<1>1. doing'[t] = c /\ \A u \in Threads : u # t => doing'[u] = doing[u]
  BY CallChanges DEF Turns
<1>2. QED BY <1>1 DEF NoneAdded

LEMMA StaysAddNone ==
  ASSUME doing' = doing, HeldReaders(sources') \subseteq HeldReaders(sources)
  PROVE  NoneAdded
BY DEF NoneAdded

LEMMA ClosingAddsNone ==
  ASSUME StreamTypes, NEW f \in Sorted(DOMAIN sources.readers), NEW c,
         c.doomed = [i \in DOMAIN f |-> sources.readers[f[i]]] \o Second(sources.removed)
  PROVE  Doomed(c) \subseteq HeldReaders(sources)
<1> DEFINE first == [i \in DOMAIN f |-> sources.readers[f[i]]]
           second == Second(sources.removed)
<1>1. IsSources(sources) /\ sources.removed \in Seq(Device \X Nat)
  BY DEF StreamTypes, IsSources
<1>2. first \in Seq(Nat)
  BY <1>1, FirstReaders
<1>3. /\ second \in Seq(Nat)
      /\ DOMAIN second = DOMAIN sources.removed
      /\ \A i \in DOMAIN sources.removed : second[i] = sources.removed[i][2]
  BY <1>1, SecondIs
<1>4. \A i \in DOMAIN first : first[i] \in HeldReaders(sources)
  <2>1. f \in [1 .. Cardinality(DOMAIN sources.readers) -> DOMAIN sources.readers]
    BY SortedDevices
  <2>2. QED BY <2>1 DEF HeldReaders
<1>5. \A i \in DOMAIN second : second[i] \in HeldReaders(sources)
  BY <1>3 DEF HeldReaders
<1> HIDE DEF first, second
<1>6. c.doomed = first \o second
  BY DEF first, second
<1>7. \A i \in DOMAIN (first \o second) :
        (first \o second)[i] \in {first[j] : j \in DOMAIN first}
                               \cup {second[j] : j \in DOMAIN second}
  BY <1>2, <1>3
<1>8. QED BY <1>4, <1>5, <1>6, <1>7 DEF Doomed

LEMMA CauseCalls ==
  ASSUME StreamTypes, Barrier, NoneEmpty, ~ crashed, Application \/ Start
  PROVE  Barrier' /\ NoneEmpty' /\ ~ crashed'
<1>0. "application" \in Threads
  BY DEF Threads
<1>1. StreamTypes'
  BY TypesCalls
<1>2. 0 \notin Current
  BY DEF NoneEmpty, HeldReaders, Current
<1>3. ~ crashed'
  BY <1>2 DEF Application, Asks, SetStreamSources, UpdatePause, UpdateMute, OptimizeSources,
     OnUpgrade, Detach, AddTrack, Close, Start
<1>4. ASSUME NEW c, doing' = [doing EXCEPT !["application"] = c]
      PROVE  Turns("application", c)
  <2>1. doing'["application"] = c
    BY <1>0, <1>4 DEF StreamTypes
  <2>2. QED BY <1>0, <1>1, <1>4, <2>1 DEF StreamTypes, Turns
<1>5. CASE Close
  <2>1. made' = made
    BY <1>5 DEF Close
  <2>2. sources'.readers = <<>> /\ sources'.removed = <<>> /\ sources'.syncing = {}
    BY <1>5 DEF Close, StreamTypes, IsSources
  <2>3. Calm
    BY <2>1, <2>2 DEF Calm, Barrier, Busy
  <2>4. PICK f \in Sorted(DOMAIN sources.readers) :
          doing' = [doing EXCEPT !["application"] = [Idle EXCEPT !.step = "destroy",
                      !.doomed = [i \in DOMAIN f |-> sources.readers[f[i]]]
                                   \o Second(sources.removed)]]
    BY <1>5 DEF Close
  <2> DEFINE all == [i \in DOMAIN f |-> sources.readers[f[i]]] \o Second(sources.removed)
             c == [Idle EXCEPT !.step = "destroy", !.doomed = all]
  <2>5. c.doomed = all
    BY DEF Idle
  <2>6. doing' = [doing EXCEPT !["application"] = c]
    BY <2>4
  <2> HIDE DEF c
  <2>7. Doomed(c) \subseteq HeldReaders(sources)
    BY <2>5, ClosingAddsNone
  <2>8. Turns("application", c)
    BY <1>4, <2>6
  <2>9. HeldReaders(sources') = {}
    BY <2>2 DEF HeldReaders
  <2>10. NoneAdded
    BY <2>7, <2>8, <2>9, TurnsAddNone
  <2>11. QED BY <1>3, <2>3, <2>10, BarrierCalm, EmptyStays
<1>6. CASE ~ Close
  <2>1. sources' = sources
    BY <1>6, CallsKeep
  <2>2. /\ DOMAIN made' = DOMAIN made
        /\ \A r \in DOMAIN made : /\ made'[r].running => made[r].running \/ r \in Current
                                  /\ made'[r].thread = made[r].thread
                                  /\ made'[r].device = made[r].device
    BY CallsKeep
  <2>3. Calm
    BY <2>1, <2>2 DEF Calm, Barrier, Busy
  <2>4. NoneAdded
    <3>1. CASE doing' = doing
      BY <2>1, <3>1, StaysAddNone
    <3>2. ASSUME NEW c, c.doomed = <<>>, doing' = [doing EXCEPT !["application"] = c]
          PROVE  NoneAdded
      <4>1. Doomed(c) = {} /\ Turns("application", c)
        BY <1>4, <3>2, NoneDoomed
      <4>2. QED BY <2>1, <4>1, TurnsAddNone
    <3>3. ASSUME NEW desc, SetStreamSources(desc)
          PROVE  NoneAdded
      <4> DEFINE c == [Idle EXCEPT !.step = "configure", !.rest = Order, !.wants = desc]
      <4>1. doing' = [doing EXCEPT !["application"] = c] /\ c.doomed = <<>>
        BY <3>3 DEF SetStreamSources, Idle
      <4> HIDE DEF c
      <4>2. QED BY <3>2, <4>1
    <3>4. ASSUME NEW value \in BOOLEAN, OptimizeSources(value)
          PROVE  NoneAdded
      <4> DEFINE c == [Idle EXCEPT !.step = "read"]
      <4>1. (doing' = doing \/ doing' = [doing EXCEPT !["application"] = c]) /\ c.doomed = <<>>
        BY <3>4 DEF OptimizeSources, Idle
      <4> HIDE DEF c
      <4>2. QED BY <3>1, <3>2, <4>1
    <3>5. QED
      BY <1>6, <3>1, <3>3, <3>4 DEF Application, Asks, UpdatePause, UpdateMute, OnUpgrade, Detach,
         AddTrack, Start
  <2>5. QED BY <1>3, <2>3, <2>4, BarrierCalm, EmptyStays
<1>7. QED BY <1>5, <1>6

LEMMA CauseConfigure ==
  ASSUME StreamTypes, Barrier, NoneEmpty, ~ crashed, Configure, history'.switched = {}
  PROVE  Barrier' /\ NoneEmpty' /\ ~ crashed'
<1>0. "application" \in Threads
  BY DEF Threads
<1>1. Barrier' /\ 0 \notin HeldReaders(sources')
  BY BarrierConfigure DEF NoneEmpty
<1>2. \A t \in Threads : 0 \notin Doomed(doing'[t])
  <2> DEFINE c == [doing["application"] EXCEPT !.rest = Tail(@)]
  <2>1. IsCall(c) /\ doing' = [doing EXCEPT !["application"] = c]
    BY Configures
  <2>2. c.doomed = doing["application"].doomed
    BY <1>0 DEF StreamTypes, IsCall
  <2> HIDE DEF c
  <2>3. doing'["application"] = c /\ \A u \in Threads : u # "application" => doing'[u] = doing[u]
    BY <1>0, <2>1, CallChanges
  <2>4. QED BY <2>2, <2>3 DEF NoneEmpty, Doomed
<1>3. ~ crashed'
  BY Configures
<1>4. QED BY <1>1, <1>2, <1>3 DEF NoneEmpty

LEMMA CauseEnds ==
  ASSUME StreamTypes, StreamTypes', Barrier, NoneEmpty, ~ crashed,
         ConfigureThrows \/ Configured \/ Remember \/ EmitStateIfChanged \/ RunTask
  PROVE  Barrier' /\ NoneEmpty' /\ ~ crashed'
<1>0. "application" \in Threads /\ "worker" \in Threads
  BY DEF Threads
<1>1. IsSources(sources) /\ DOMAIN doing = Threads
  BY DEF StreamTypes
<1>2. made' = made /\ crashed' = crashed
  BY DEF ConfigureThrows, Configured, Remember, EmitStateIfChanged, RunTask
<1>3. Calm /\ HeldReaders(sources') \subseteq HeldReaders(sources)
  <2>1. CASE sources' = sources
    BY <1>2, <2>1 DEF Calm, Barrier, Busy
  <2>2. ASSUME NEW d \in Device, sources' = RemoveReader(sources, d)
        PROVE  Calm /\ HeldReaders(sources') \subseteq HeldReaders(sources)
    <3>1. Removal(sources, d, sources')
      BY <1>1, <2>2, Removes
    <3>2. Calm
      BY <1>2, <3>1 DEF Calm, Barrier, Busy, Removal
    <3>3. QED BY <1>1, <3>1, <3>2, RemovalAddsNone
  <2>3. CASE ConfigureThrows
    BY <2>2, <2>3, TypesThrows
  <2>4. CASE RunTask
    <3>1. Head(tasks).device \in Device
      BY <2>4, TypesTask DEF Task
    <3>2. QED BY <2>1, <2>2, <2>4, <3>1 DEF RunTask
  <2>5. QED
    BY <2>1, <2>3, <2>4 DEF Configured, Remember, EmitStateIfChanged
<1>4. PICK t \in Threads, step \in Steps :
        doing' = [doing EXCEPT ![t] = [Idle EXCEPT !.step = step]]
  <2>1. Idle = [Idle EXCEPT !.step = "idle"]
    BY DEF Idle
  <2>2. \E t \in Threads, step \in Steps :
        doing' = [doing EXCEPT ![t] = [Idle EXCEPT !.step = step]]
    <3>1. CASE ConfigureThrows
      BY <1>0, <2>1, <3>1 DEF ConfigureThrows, Steps
    <3>2. CASE Configured
      BY <1>0, <3>2 DEF Configured, Steps
    <3>3. CASE Remember
      BY <1>0, <2>1, <3>3 DEF Remember, Steps
    <3>4. CASE EmitStateIfChanged
      BY <1>0, <2>1, <3>4 DEF EmitStateIfChanged, Steps
    <3>5. CASE RunTask
      BY <1>0, <3>5 DEF RunTask, Steps
    <3>6. QED BY <3>1, <3>2, <3>3, <3>4, <3>5
  <2>3. QED BY <2>2
<1> DEFINE c == [Idle EXCEPT !.step = step]
<1>5. doing' = [doing EXCEPT ![t] = c] /\ c.doomed = <<>>
  BY <1>4 DEF Idle
<1> HIDE DEF c
<1>6. Turns(t, c)
  BY <1>1, <1>5 DEF StreamTypes, Turns
<1>7. NoneAdded
  BY <1>3, <1>5, <1>6, NoneDoomed, TurnsAddNone
<1>8. QED BY <1>2, <1>3, <1>7, BarrierCalm, EmptyStays

LEMMA CauseDestroying ==
  ASSUME StreamTypes, StreamTypes', Barrier, NoneEmpty, ~ crashed, NEW t \in Threads, Proceed(t)
  PROVE  Barrier' /\ NoneEmpty' /\ ~ crashed'
<1>0. 0 \notin Current
  BY DEF NoneEmpty, HeldReaders, Current
<1>1. IsSources(sources) /\ IsCall(doing[t]) /\ DOMAIN doing = Threads
  BY DEF StreamTypes
<1>2. ASSUME NEW c, doing' = [doing EXCEPT ![t] = c]
      PROVE  Turns(t, c)
  <2>1. doing'[t] = c
    BY <1>1, <1>2
  <2>2. QED BY <1>2, <2>1 DEF StreamTypes, Turns
<1>3. ASSUME made' = made, sources'.readers = sources.readers, sources'.syncing = sources.syncing
      PROVE  Barrier'
  <2>1. Calm
    BY <1>3 DEF Calm, Barrier, Busy
  <2>2. QED BY <2>1, BarrierCalm
<1>4. ASSUME sources'.readers = sources.readers, sources'.removed = sources.removed
      PROVE  HeldReaders(sources') \subseteq HeldReaders(sources)
  BY <1>4 DEF HeldReaders
<1>5. CASE TakeRemoved(t)
  <2> DEFINE c == [Idle EXCEPT !.step = "destroy", !.doomed = Second(sources.removed),
                     !.keys = {sources.removed[i][1] : i \in DOMAIN sources.removed}]
  <2>1. c.doomed = Second(sources.removed)
    BY DEF Idle
  <2>2. /\ doing' = [doing EXCEPT ![t] = c]
        /\ sources' = [sources EXCEPT !.removed = <<>>]
        /\ made' = made /\ crashed' = crashed
    BY <1>5 DEF TakeRemoved
  <2> HIDE DEF c
  <2>3. /\ sources'.readers = sources.readers /\ sources'.syncing = sources.syncing
        /\ sources'.removed = <<>>
    BY <1>1, <2>2 DEF IsSources
  <2>4. HeldReaders(sources') \subseteq HeldReaders(sources)
    BY <2>3 DEF HeldReaders
  <2>5. Doomed(c) \subseteq HeldReaders(sources)
    <3>1. /\ DOMAIN c.doomed = DOMAIN sources.removed
          /\ \A i \in DOMAIN sources.removed : c.doomed[i] = sources.removed[i][2]
      BY <1>1, <2>1, SecondIs DEF IsSources
    <3>2. QED BY <3>1 DEF Doomed, HeldReaders
  <2>6. NoneAdded
    BY <1>2, <2>2, <2>4, <2>5, TurnsAddNone
  <2>7. QED BY <1>3, <2>2, <2>3, <2>6, EmptyStays
<1>6. CASE Silence(t)
  <2> DEFINE r == Head(doing[t].doomed)
             c == [doing[t] EXCEPT !.step = "join"]
  <2>1. doing[t].doomed # <<>>
    BY <1>6 DEF Silence
  <2>2. r \in Doomed(doing[t])
    BY <1>1, <2>1, Tails DEF IsCall, Doomed
  <2>3. r # 0
    BY <2>2 DEF NoneEmpty
  <2>4. /\ doing' = [doing EXCEPT ![t] = c]
        /\ made' = [made EXCEPT ![r].heard = FALSE, ![r].running = FALSE]
        /\ sources' = sources /\ crashed' = crashed
    BY <1>1, <1>6, <2>3 DEF Silence
  <2>5. c.doomed = doing[t].doomed
    BY <1>1 DEF IsCall
  <2> HIDE DEF r, c
  <2>6. Calm
    <3>1. \A q \in DOMAIN made : made[q] \in Reader
      BY DEF StreamTypes
    <3>2. DOMAIN made' = DOMAIN made /\ \A q \in DOMAIN made : q # r => made'[q] = made[q]
      BY <2>4 DEF StreamTypes
    <3>3. ASSUME r \in DOMAIN made
          PROVE  /\ made'[r].device = made[r].device
                 /\ made'[r].thread = made[r].thread
                 /\ ~ made'[r].running
      <4>1. made'[r] = [made[r] EXCEPT !.heard = FALSE, !.running = FALSE]
        BY <2>4, <3>1, <3>3 DEF StreamTypes, Reader
      <4>2. QED BY <3>1, <3>3, <4>1 DEF Reader
    <3>4. QED BY <2>4, <3>2, <3>3 DEF Calm, Barrier, Busy
  <2>7. NoneAdded
    <3>1. Doomed(c) = Doomed(doing[t])
      BY <2>5 DEF Doomed
    <3>2. QED BY <1>2, <2>4, <3>1, TurnsAddNone
  <2>8. QED BY <2>4, <2>6, <2>7, BarrierCalm, EmptyStays
<1>7. CASE Join(t)
  <2> DEFINE c == [doing[t] EXCEPT !.step = "destroy", !.doomed = Tail(doing[t].doomed)]
  <2>1. /\ doing' = [doing EXCEPT ![t] = c]
        /\ made' = made /\ sources' = sources /\ crashed' = crashed
        /\ doing[t].step = "join"
    BY <1>1, <1>7 DEF Join, IsCall
  <2>2. c.doomed = Tail(doing[t].doomed)
    BY <1>1 DEF IsCall
  <2> HIDE DEF c
  <2>3. Doomed(c) \subseteq Doomed(doing[t])
    BY <1>1, <2>1, <2>2, Tails DEF IsCall, Doomed
  <2>4. NoneAdded
    BY <1>2, <2>1, <2>3, TurnsAddNone
  <2>5. QED BY <1>3, <2>1, <2>4, EmptyStays
<1>8. CASE Destroyed(t)
  <2>1. /\ doing' = [doing EXCEPT ![t] = Idle]
        /\ made' = made /\ crashed' = crashed
        /\ sources'.readers = sources.readers /\ sources'.removed = sources.removed
        /\ sources'.syncing = sources.syncing
    BY <1>1, <1>8 DEF Destroyed, IsSources
  <2>2. Doomed(Idle) = {}
    BY Idles, NoneDoomed
  <2>3. NoneAdded
    BY <1>2, <1>4, <2>1, <2>2, TurnsAddNone
  <2>4. QED BY <1>3, <2>1, <2>3, EmptyStays
<1>9. CASE ReadState(t)
  <2> DEFINE c == [doing[t] EXCEPT !.step = "remember", !.state = <<GetState>>]
  <2>1. /\ doing' = [doing EXCEPT ![t] = c]
        /\ made' = made /\ sources' = sources /\ crashed' = crashed
    BY <1>0, <1>1, <1>9 DEF ReadState, IsCall
  <2>2. c.doomed = doing[t].doomed
    BY <1>1 DEF IsCall
  <2> HIDE DEF c
  <2>3. Doomed(c) = Doomed(doing[t])
    BY <2>2 DEF Doomed
  <2>4. NoneAdded
    BY <1>2, <2>1, <2>3, TurnsAddNone
  <2>5. QED BY <1>3, <2>1, <2>4, EmptyStays
<1>10. QED BY <1>5, <1>6, <1>7, <1>8, <1>9 DEF Proceed

LEMMA CausePlaying ==
  ASSUME StreamTypes, Barrier, NoneEmpty, ~ crashed, NEW r \in DOMAIN made, Playing(r)
  PROVE  Barrier' /\ NoneEmpty' /\ ~ crashed'
<1>1. Runs(r) /\ Enters /\ UNCHANGED <<doing, crashed>>
  BY PlayingRuns, PlayingEnters, PlayingLeaves
<1>2. made[r] \in Reader /\ IsSources(sources)
  BY DEF StreamTypes
<1>3. ~ Synchronized(r)
  BY DEF Synchronized, Barrier
<1>4. sources'.readers = sources.readers
  BY <1>2, <1>3 DEF Playing, Callback, Frame, Synchronize, Send, End, IsSources
<1>5. made'[r].thread # "waiting"
  <2>1. ASSUME NEW x, x # "waiting", made' = [made EXCEPT ![r].thread = x]
        PROVE  made'[r].thread # "waiting"
    <3>1. made'[r] = [made[r] EXCEPT !.thread = x]
      BY <2>1 DEF StreamTypes
    <3>2. QED BY <1>2, <2>1, <3>1 DEF Reader
  <2>2. CASE Frame(r)
    BY <2>1, <2>2 DEF Frame
  <2>3. CASE Synchronize(r)
    <3>1. Plays(made[r].device)
      BY <2>3 DEF Synchronize, Plays, Busy
    <3>2. made[r].device \notin sources.syncing
      BY <3>1 DEF Barrier
    <3>3. made' = [made EXCEPT ![r].thread = "sending"]
      BY <2>3, <3>2 DEF Synchronize
    <3>4. QED BY <2>1, <3>3
  <2>4. CASE Send(r)
    BY <2>1, <2>4 DEF Send
  <2>5. CASE End(r)
    <3>1. made'[r] = [made[r] EXCEPT !.running = FALSE] /\ made[r].thread = "out"
      BY <2>5 DEF End, StreamTypes
    <3>2. QED BY <1>2, <3>1 DEF Reader
  <2>6. QED BY <1>3, <2>2, <2>3, <2>4, <2>5 DEF Playing, Callback
<1>6. Calm
  <2>1. \A q \in DOMAIN made :
          /\ made'[q].device = made[q].device
          /\ made'[q].thread # "waiting"
          /\ made'[q].running \/ made'[q].thread # "out" => Busy(q)
    BY <1>1, <1>5 DEF Runs, Barrier, Busy
  <2>2. QED BY <1>1, <1>4, <2>1 DEF Calm, Runs, Enters
<1>7. HeldReaders(sources') \subseteq HeldReaders(sources)
  BY <1>1, <1>4 DEF Enters, HeldReaders
<1>8. QED BY <1>1, <1>6, <1>7, BarrierCalm, StaysAddNone, EmptyStays

\* Devices are only ever added to those that became external under a reader.
LEMMA SwitchedGrows ==
  ASSUME StreamTypes, [Next]_vars, history'.switched = {}
  PROVE  history.switched = {}
<1>0. history \in History
  BY DEF StreamTypes
<1>1. Counted \in History /\ Counted.switched = history.switched
  BY <1>0 DEF Counted, History
<1>2. CASE UNCHANGED vars
  BY <1>2 DEF vars
<1>3. CASE Application
  <2>1. \/ history' = Counted \/ history' = [Counted EXCEPT !.thrown = FALSE]
        \/ \E u : history' = [Counted EXCEPT !.untold = u]
    BY <1>3 DEF Application, Asks, SetStreamSources, UpdatePause, UpdateMute, OptimizeSources,
       OnUpgrade, Detach, AddTrack, Close
  <2> HIDE DEF Counted
  <2>2. QED BY <1>1, <2>1 DEF History
<1>4. CASE Start
  <2>1. history' = [Counted EXCEPT !.untold = @ \/ flags.resume]
    BY <1>4 DEF Start
  <2> HIDE DEF Counted
  <2>2. QED BY <1>1, <2>1 DEF History
<1>5. CASE Configure
  BY <1>0, <1>5, Configures DEF Untouched, Removing, Feeding, Renewing, History
<1>6. CASE ConfigureThrows \/ Configured \/ Remember \/ RunTask
  <2>1. \/ \E u : history' = [history EXCEPT !.untold = u]
        \/ history' = [history EXCEPT !.thrown = TRUE, !.untold = TRUE]
    BY <1>6 DEF ConfigureThrows, Configured, Remember, RunTask
  <2>2. QED BY <1>0, <2>1 DEF History
<1>7. CASE EmitStateIfChanged
  BY <1>7 DEF EmitStateIfChanged
<1>8. ASSUME NEW t \in Threads, Proceed(t)
      PROVE  history.switched = {}
  <2>1. history' = history \/ history' = [history EXCEPT !.thrown = FALSE]
    BY <1>8 DEF Proceed, TakeRemoved, Silence, Join, Destroyed, ReadState
  <2>2. QED BY <1>0, <2>1 DEF History
<1>9. ASSUME NEW r \in DOMAIN made, Playing(r)
      PROVE  history.switched = {}
  BY <1>9, PlayingLeaves
<1>10. QED BY <1>2, <1>3, <1>4, <1>5, <1>6, <1>7, <1>8, <1>9, StreamSteps

LEMMA CauseStep ==
  ASSUME StreamTypes, CauseInv, [Next]_vars
  PROVE  CauseInv'
<1> SUFFICES ASSUME history'.switched = {}
             PROVE  Barrier' /\ NoneEmpty' /\ ~ crashed'
  BY DEF CauseInv
<1>1. Barrier /\ NoneEmpty /\ ~ crashed
  BY SwitchedGrows DEF CauseInv
<1>2. StreamTypes'
  BY StreamTypesStep
<1>3. CASE UNCHANGED vars
  <2>1. UNCHANGED <<sources, made, doing, crashed>>
    BY <1>3 DEF vars
  <2>2. Calm /\ NoneAdded
    BY <1>1, <2>1 DEF Calm, NoneAdded, Barrier, Busy
  <2>3. QED BY <1>1, <2>1, <2>2, BarrierCalm, EmptyStays
<1>4. CASE Application \/ Start
  BY <1>1, <1>4, CauseCalls
<1>5. CASE Configure
  BY <1>1, <1>5, CauseConfigure
<1>6. CASE ConfigureThrows \/ Configured \/ Remember \/ EmitStateIfChanged \/ RunTask
  BY <1>1, <1>2, <1>6, CauseEnds
<1>7. ASSUME NEW t \in Threads, Proceed(t)
      PROVE  Barrier' /\ NoneEmpty' /\ ~ crashed'
  BY <1>1, <1>2, <1>7, CauseDestroying
<1>8. ASSUME NEW r \in DOMAIN made, Playing(r)
      PROVE  Barrier' /\ NoneEmpty' /\ ~ crashed'
  BY <1>1, <1>8, CausePlaying
<1>9. QED BY <1>3, <1>4, <1>5, <1>6, <1>7, <1>8, StreamSteps

\* No entry of the map is without a reader, and no thread goes through an empty pointer,
\* as long as no device became external while one of its readers played
\* (StreamManager::setup_capture_callbacks, the entry that the barrier makes).
THEOREM EmptyOnlyWithCause == Spec => []EmptyHasCause
<1>1. Init => CauseInv
  <2> SUFFICES ASSUME Init
               PROVE  Barrier /\ NoneEmpty /\ ~ crashed
    BY DEF CauseInv
  <2>1. Barrier
    BY DEF Init, NoSources, Barrier
  <2>2. NoneEmpty
    BY Idles, NoneDoomed DEF Init, NoSources, NoneEmpty, HeldReaders
  <2>3. QED BY <2>1, <2>2 DEF Init
<1>2. StreamTypes /\ CauseInv /\ [Next]_vars => CauseInv'
  BY CauseStep
<1>3. CauseInv => EmptyHasCause
  BY DEF CauseInv, EmptyHasCause, NoneEmpty, HeldReaders, Current
<1>4. QED BY <1>1, <1>2, <1>3, StreamTypeCorrect, PTL DEF Spec


-----------------------------------------------------------------------------
(* The listener knows the state. If it does not, it is about to be told: a  *)
(* task is under way, or a call has mutex_, or the worker read the state as *)
(* it is. last_state_ is what was told, or nothing.                         *)

Placed ==
  \A d \in DOMAIN sources.readers :
    sources.readers[d] = 0 \/ sources.readers[d] \in DOMAIN made

LEMMA PlacedStep ==
  ASSUME StreamTypes, Placed, [Next]_vars
  PROVE  Placed'
<1>0. IsSources(sources)
  BY DEF StreamTypes
<1>1. ASSUME DOMAIN made' = DOMAIN made,
             DOMAIN sources'.readers \subseteq DOMAIN sources.readers,
             \A d \in DOMAIN sources'.readers : sources'.readers[d] = sources.readers[d]
      PROVE  Placed'
  BY <1>1 DEF Placed
<1>2. CASE UNCHANGED vars
  BY <1>1, <1>2 DEF vars
<1>3. CASE Application \/ Start
  <2>1. CASE Close
    <3>1. sources'.readers = <<>>
      BY <1>0, <2>1 DEF Close, IsSources
    <3>2. QED BY <3>1 DEF Placed
  <2>2. CASE sources' = sources
    BY <1>1, <1>3, <2>2, CallsKeep
  <2>3. QED BY <1>3, <2>1, <2>2, CallsKeep
<1>4. ASSUME NEW d \in Device, sources' = RemoveReader(sources, d), made' = made
      PROVE  Placed'
  <2>1. Removal(sources, d, sources')
    BY <1>0, <1>4, Removes
  <2>2. QED BY <1>1, <1>4, <2>1 DEF Removal
<1>5. CASE Configure
  <2>1. PICK d \in Device : Untouched \/ Removing(d) \/ Feeding(d) \/ Renewing(d)
    BY <1>5, Configures
  <2> DEFINE s == RemoveReader(sources, d)
  <2>2. Removal(sources, d, s)
    BY <1>0, Removes
  <2> HIDE DEF s
  <2>3. CASE Untouched
    BY <1>1, <2>3 DEF Untouched
  <2>4. CASE Removing(d)
    BY <1>4, <2>4 DEF Removing
  <2>5. CASE Feeding(d)
    <3>1. Fed(s, d, sources') /\ made' = made
      BY <2>5, Feeds DEF Feeding, s
    <3>2. QED BY <1>1, <2>2, <3>1 DEF Fed, Removal
  <2>6. CASE Renewing(d)
    <3>1. Renewed(s, d, sources', Len(made) + 1)
      BY <2>6, Renews DEF s
    <3>2. DOMAIN made' = 1 .. (Len(made) + 1) /\ DOMAIN made = 1 .. Len(made)
      BY <2>6, Renews
    <3>3. Len(made) + 1 \in DOMAIN made' /\ DOMAIN made \subseteq DOMAIN made'
      BY <3>2 DEF StreamTypes
    <3>4. QED BY <2>2, <3>1, <3>3 DEF Placed, Renewed, Removal
  <2>7. QED BY <2>1, <2>3, <2>4, <2>5, <2>6
<1>6. CASE ConfigureThrows
  BY <1>4, <1>6, TypesThrows DEF ConfigureThrows
<1>7. CASE Configured \/ Remember \/ EmitStateIfChanged
  BY <1>1, <1>7 DEF Configured, Remember, EmitStateIfChanged
<1>8. CASE RunTask
  <2>1. Head(tasks).device \in Device
    BY <1>8, TypesTask DEF Task
  <2>2. CASE sources' = sources
    BY <1>1, <1>8, <2>2 DEF RunTask
  <2>3. CASE sources' = RemoveReader(sources, Head(tasks).device)
    BY <1>4, <1>8, <2>1, <2>3 DEF RunTask
  <2>4. QED BY <1>8, <2>2, <2>3 DEF RunTask
<1>9. ASSUME NEW t \in Threads, Proceed(t)
      PROVE  Placed'
  <2>1. sources'.readers = sources.readers
    BY <1>0, <1>9 DEF Proceed, TakeRemoved, Silence, Join, Destroyed, ReadState, IsSources
  <2>2. DOMAIN made' = DOMAIN made
    BY <1>9 DEF Proceed, TakeRemoved, Silence, Join, Destroyed, ReadState, StreamTypes
  <2>3. QED BY <1>1, <2>1, <2>2
<1>10. ASSUME NEW r \in DOMAIN made, Playing(r)
       PROVE  Placed'
  BY <1>10, PlayingRuns, PlayingEnters DEF Placed, Runs, Enters
<1>11. QED BY <1>2, <1>3, <1>5, <1>6, <1>7, <1>8, <1>9, <1>10, StreamSteps

Telling == \E i \in DOMAIN tasks : tasks[i].task = "emit"

Due == Telling \/ ~ Unlocked \/ 0 \in Current

LastTold == last = <<>> \/ last = <<Told>>

WillTell ==
  \/ Due
  \/ doing["worker"].step = "read"
  \/ doing["worker"].step = "remember" /\ doing["worker"].state = <<GetState>>
  \/ Told = GetState

Remembers ==
  doing["worker"].step = "remember" =>
    /\ \E state : doing["worker"].state = <<state>>
    /\ Due \/ doing["worker"].state = <<GetState>>

\* Without a connection there was none before, or the change is untold.
Unmade ==
  ~ flags.initialized /\ Unlocked => DOMAIN made = {} /\ DOMAIN sources.readers = {}

Telltale == ~ history.untold /\ ~ flags.closed

ToldInv == Telltale => LastTold /\ WillTell /\ Remembers /\ Unmade

\* Nothing is told; the state changes only if it is due to be.
LEMMA NothingTold ==
  ASSUME LastTold, WillTell, Remembers, told' = told, last' = last \/ last' = <<>>,
         \/ doing'["worker"] = doing["worker"]
         \/ /\ doing["worker"].step \notin {"read", "remember"}
            /\ doing'["worker"].step # "remember",
         Due' \/ (GetState' = GetState /\ ~ Due)
  PROVE  LastTold' /\ WillTell' /\ Remembers'
<1>1. Told' = Told
  BY DEF Told
<1>2. LastTold'
  BY <1>1 DEF LastTold
<1>3. WillTell'
  BY <1>1 DEF WillTell
<1>4. Remembers'
  BY DEF Remembers
<1>5. QED BY <1>2, <1>3, <1>4

\* What the state is read from.
LEMMA SameState ==
  ASSUME Placed, 0 \notin Current,
         sources'.readers = sources.readers, sources'.external = sources.external,
         flags'.muted = flags.muted, flags'.initialized = flags.initialized,
         \A r \in DOMAIN made : made'[r].enabled = made[r].enabled
  PROVE  GetState' = GetState
<1>1. Current' = Current /\ Current \subseteq DOMAIN made
  BY DEF Current, Placed
<1>2. IsPaused' = IsPaused
  BY <1>1 DEF IsPaused
<1>3. \A d : HasDevice(d)' = HasDevice(d)
  BY DEF HasDevice
<1>4. {d \in Device : ~ HasDevice(d)}' = {d \in Device : ~ HasDevice(d)}
  BY <1>3
<1>5. QED BY <1>2, <1>4 DEF GetState

LEMMA CountedKeeps ==
  ASSUME StreamTypes
  PROVE  /\ Counted \in History
         /\ Counted.untold = history.untold
         /\ \A u \in BOOLEAN : [Counted EXCEPT !.untold = u].untold = u
         /\ [Counted EXCEPT !.thrown = FALSE].untold = history.untold
<1>1. Counted \in History /\ Counted.untold = history.untold
  BY DEF StreamTypes, History, Counted
<1> HIDE DEF Counted
<1>2. QED BY <1>1 DEF History

\* What is marked untold, or closed, stays so.
LEMMA TelltaleStays ==
  ASSUME StreamTypes, [Next]_vars, Telltale'
  PROVE  Telltale
<1>0. history \in History /\ flags \in Flags
  BY DEF StreamTypes
<1>1. ASSUME history' = history \/ \E u : history' = [history EXCEPT !.thrown = u], flags' = flags
      PROVE  Telltale
  BY <1>0, <1>1 DEF Telltale, History
<1>2. ASSUME NEW u \in BOOLEAN, history' = [history EXCEPT !.untold = history.untold \/ u],
             flags' = flags
      PROVE  Telltale
  BY <1>0, <1>2 DEF Telltale, History
<1>3. CASE Application \/ Start
  <2>1. flags.closed => flags'.closed
    BY <1>0, <1>3 DEF Application, Asks, SetStreamSources, UpdatePause, UpdateMute, OptimizeSources,
       OnUpgrade, Detach, AddTrack, Close, Start, Flags
  <2>2. \/ history' = Counted \/ history' = [Counted EXCEPT !.thrown = FALSE]
        \/ \E u \in BOOLEAN : history' = [Counted EXCEPT !.untold = Counted.untold \/ u]
        \/ history' = [Counted EXCEPT !.untold = TRUE]
    <3>1. ASSUME NEW connected \in BOOLEAN, OptimizeSources(connected)
          PROVE  \E u \in BOOLEAN : history' = [Counted EXCEPT !.untold = Counted.untold \/ u]
      <4>1. (~ connected) \in BOOLEAN
        OBVIOUS
      <4>2. history' = [Counted EXCEPT !.untold = Counted.untold \/ ~ connected]
        BY <3>1 DEF OptimizeSources
      <4>3. QED BY <4>1, <4>2
    <3>2. CASE Start
      <4>1. flags.resume \in BOOLEAN
        BY <1>0 DEF Flags
      <4>2. history' = [Counted EXCEPT !.untold = Counted.untold \/ flags.resume]
        BY <3>2 DEF Start
      <4>3. QED BY <4>1, <4>2
    <3>3. QED
      BY <1>3, <3>1, <3>2 DEF Application, Asks, SetStreamSources, UpdatePause, UpdateMute,
         OnUpgrade, Detach, AddTrack, Close
  <2>3. history.untold => history'.untold
    <3>1. \A u \in BOOLEAN : (Counted.untold \/ u) \in BOOLEAN
      OBVIOUS
    <3>2. QED BY <2>2, <3>1, CountedKeeps
  <2>4. QED BY <2>1, <2>3 DEF Telltale
<1>4. CASE Configure
  <2>1. history'.untold = history.untold /\ flags' = flags
    BY <1>0, <1>4, Configures DEF Untouched, Removing, Feeding, Renewing, History
  <2>2. QED BY <2>1 DEF Telltale
<1>5. CASE ConfigureThrows
  BY <1>0, <1>5 DEF ConfigureThrows, Telltale, History
<1>6. CASE Configured
  <2>1. (~ flags.initialized) \in BOOLEAN
    OBVIOUS
  <2>2. QED BY <1>2, <1>6, <2>1 DEF Configured
<1>7. CASE Remember
  <2>1. (doing["application"].state # <<Told>>) \in BOOLEAN
    OBVIOUS
  <2>2. QED BY <1>2, <1>7, <2>1 DEF Remember
<1>8. CASE RunTask
  <2>1. (Head(tasks).task = "eof") \in BOOLEAN
    OBVIOUS
  <2>2. QED BY <1>2, <1>8, <2>1 DEF RunTask
<1>9. CASE EmitStateIfChanged \/ UNCHANGED vars
  BY <1>1, <1>9 DEF EmitStateIfChanged, vars
<1>10. ASSUME NEW t \in Threads, Proceed(t)
       PROVE  Telltale
  BY <1>1, <1>10 DEF Proceed, TakeRemoved, Silence, Join, Destroyed, ReadState
<1>11. ASSUME NEW r \in DOMAIN made, Playing(r)
       PROVE  Telltale
  BY <1>1, <1>11, PlayingLeaves
<1>12. QED BY <1>3, <1>4, <1>5, <1>6, <1>7, <1>8, <1>9, <1>10, <1>11, StreamSteps

ToldParts == LastTold /\ WillTell /\ Remembers /\ Unmade

LEMMA UnmadeStays ==
  ASSUME Unmade, DOMAIN made' = DOMAIN made, sources'.readers = sources.readers,
         flags.initialized => flags'.initialized, Unlocked' => Unlocked
  PROVE  Unmade'
BY DEF Unmade

LEMMA ToldCalls ==
  ASSUME StreamTypes, Placed, ToldParts, Application \/ Start, Telltale'
  PROVE  ToldParts'
<1>0. "application" \in Threads /\ "worker" \in Threads /\ DOMAIN doing = Threads
  BY DEF Threads, StreamTypes
<1>1. flags \in Flags
  BY DEF StreamTypes
<1>2. ASSUME NEW c, doing' = doing \/ doing' = [doing EXCEPT !["application"] = c]
      PROVE  doing'["worker"] = doing["worker"]
  BY <1>0, <1>2
<1>3. CASE Asks
  <2>1. PICK desc \in [Device -> Sources] : SetStreamSources(desc)
    BY <1>3 DEF Asks
  <2> DEFINE c == [Idle EXCEPT !.step = "configure", !.rest = Order, !.wants = desc]
  <2>2. doing' = [doing EXCEPT !["application"] = c] /\ c.step = "configure"
    BY <2>1 DEF SetStreamSources, Idle
  <2> HIDE DEF c
  <2>3. ~ Unlocked'
    BY <1>0, <2>2 DEF Unlocked
  <2>4. Due' /\ Unmade'
    BY <2>3 DEF Due, Unmade
  <2>5. told' = told /\ last' = last
    BY <2>1 DEF SetStreamSources
  <2>6. doing'["worker"] = doing["worker"]
    BY <1>2, <2>2
  <2>7. LastTold' /\ WillTell' /\ Remembers'
    BY <2>4, <2>5, <2>6, NothingTold DEF ToldParts
  <2>8. QED BY <2>4, <2>7 DEF ToldParts
\* A call that leaves the maps and the threads alone.
<1>4. ASSUME sources' = sources, DOMAIN made' = DOMAIN made, doing' = doing, told' = told,
             last' = last \/ last' = <<>>, flags.initialized => flags'.initialized,
             Telling => Telling',
             Due' \/ GetState' = GetState
      PROVE  ToldParts'
  <2>1. Unmade'
    BY <1>4, UnmadeStays DEF ToldParts, Unlocked
  <2>2. Due => Due'
    BY <1>4 DEF Due, Unlocked, Current
  <2>3. LastTold' /\ WillTell' /\ Remembers'
    BY <1>4, <2>2, NothingTold DEF ToldParts
  <2>4. QED BY <2>1, <2>3 DEF ToldParts
<1>5. Telling' \in BOOLEAN /\ ((tasks' = CheckUpgrade(tasks)) => Telling' /\ Due')
  BY Upgrades DEF Telling, Due
<1>6. (tasks' = tasks) => (Telling => Telling')
  BY DEF Telling
<1>7. ASSUME NEW value \in BOOLEAN, UpdatePause(value)
      PROVE  ToldParts'
  <2>1. sources' = sources /\ doing' = doing /\ told' = told /\ last' = last /\ flags' = flags
    BY <1>7 DEF UpdatePause
  <2>2. DOMAIN made' = DOMAIN made
    BY <1>7, CallsKeep DEF Application
  <2>3. CASE 0 \in Current
    <3>1. tasks' = tasks
      BY <1>7, <2>3 DEF UpdatePause
    <3>2. Due'
      BY <2>1, <2>3 DEF Due, Current
    <3>3. QED BY <1>4, <1>6, <2>1, <2>2, <3>1, <3>2
  <2>4. CASE 0 \notin Current /\ \E r \in Current : made[r].enabled = value
    <3>1. tasks' = CheckUpgrade(tasks)
      BY <1>7, <2>4 DEF UpdatePause
    <3>2. QED BY <1>4, <1>5, <2>1, <2>2, <3>1
  <2>5. CASE 0 \notin Current /\ ~ \E r \in Current : made[r].enabled = value
    <3>1. tasks' = tasks /\ made' = EnableAll(~ value)
      BY <1>7, <2>5 DEF UpdatePause
    <3>2. (~ value) \in BOOLEAN
      OBVIOUS
    <3>3. \A r \in DOMAIN made :
            made'[r].enabled = IF r \in Current THEN ~ value ELSE made[r].enabled
      BY <3>1, <3>2, EnablesAll
    <3>4. \A r \in DOMAIN made : made[r].enabled \in BOOLEAN
      <4>1. \A r \in DOMAIN made : made[r] \in Reader
        BY DEF StreamTypes
      <4>2. QED BY <4>1 DEF Reader
    <3>5. \A r \in DOMAIN made : made'[r].enabled = made[r].enabled
      BY <2>5, <3>3, <3>4
    <3>6. GetState' = GetState
      BY <2>1, <2>5, <3>5, SameState
    <3>7. QED BY <1>4, <1>6, <2>1, <2>2, <3>1, <3>6
  <2>6. QED BY <2>3, <2>4, <2>5
<1>8. ASSUME NEW value \in BOOLEAN, UpdateMute(value)
      PROVE  ToldParts'
  <2>1. /\ sources' = sources /\ doing' = doing /\ told' = told /\ last' = last /\ made' = made
        /\ tasks' = CheckUpgrade(tasks)
    BY <1>8 DEF UpdateMute
  <2>2. flags'.initialized = flags.initialized
    BY <1>1, <1>8 DEF UpdateMute, Flags
  <2>3. QED BY <1>4, <1>5, <2>1, <2>2
<1>9. ASSUME NEW connected \in BOOLEAN, OptimizeSources(connected)
      PROVE  ToldParts'
  <2>1. /\ sources' = sources /\ told' = told /\ last' = last /\ made' = made /\ tasks' = tasks
        /\ doing["application"] = Idle
    BY <1>9 DEF OptimizeSources, Calling
  <2>2. connected
    <3>1. history' = [Counted EXCEPT !.untold = Counted.untold \/ ~ connected]
      BY <1>9 DEF OptimizeSources
    <3>2. (Counted.untold \/ ~ connected) \in BOOLEAN
      OBVIOUS
    <3>3. QED BY <3>1, <3>2, CountedKeeps DEF Telltale
  <2>3. flags'.initialized /\ flags'.muted = flags.muted
    BY <1>1, <1>9, <2>2 DEF OptimizeSources, Flags
  <2>4. Unmade'
    BY <2>3 DEF Unmade
  <2>5. doing'["worker"] = doing["worker"]
    BY <1>2, <1>9 DEF OptimizeSources
  <2>6. Unlocked
    BY <2>1, Idles DEF Unlocked
  <2>7. Due => Due'
    BY <2>1, <2>6 DEF Due, Telling, Current
  <2>8. Due' \/ GetState' = GetState
    <3>1. CASE flags.initialized
      <4>1. flags'.initialized = flags.initialized
        BY <1>1, <2>3, <3>1 DEF Flags, OptimizeSources
      <4>2. CASE 0 \in Current
        BY <2>7, <4>2 DEF Due
      <4>3. CASE 0 \notin Current
        BY <2>1, <2>3, <4>1, <4>3, SameState
      <4>4. QED BY <4>2, <4>3
    <3>2. CASE ~ flags.initialized
      <4>1. DOMAIN sources.readers = {}
        BY <2>6, <3>2 DEF ToldParts, Unmade
      <4>2. Current = {} /\ Current' = {}
        BY <2>1, <4>1 DEF Current
      <4>3. IsPaused' = IsPaused
        BY <4>2 DEF IsPaused
      <4>4. {d \in Device : ~ HasDevice(d)}' = {d \in Device : ~ HasDevice(d)}
        BY <2>1 DEF HasDevice
      <4>5. GetState' = GetState
        BY <2>3, <4>3, <4>4 DEF GetState
      <4>6. QED BY <4>5
    <3>3. QED BY <3>1, <3>2
  <2>9. LastTold' /\ WillTell' /\ Remembers'
    BY <2>1, <2>5, <2>7, <2>8, NothingTold DEF ToldParts
  <2>10. QED BY <2>4, <2>9 DEF ToldParts
<1>10. CASE OnUpgrade
  <2>1. /\ sources' = sources /\ doing' = doing /\ told' = told /\ last' = <<>> /\ made' = made
        /\ flags' = flags /\ tasks' = tasks
    BY <1>10 DEF OnUpgrade
  <2>2. Due' \/ GetState' = GetState
    BY <2>1 DEF GetState, IsPaused, Current, HasDevice
  <2>3. QED BY <1>4, <1>6, <2>1, <2>2
<1>11. CASE Detach
  BY <1>11, CountedKeeps DEF Detach, Telltale
<1>12. CASE AddTrack
  <2>1. /\ sources' = sources /\ doing' = doing /\ told' = told /\ last' = last /\ made' = made
        /\ tasks' = tasks
    BY <1>12 DEF AddTrack
  <2>2. flags'.initialized = flags.initialized /\ flags'.muted = flags.muted
    BY <1>1, <1>12 DEF AddTrack, Flags
  <2>3. Due' \/ GetState' = GetState
    BY <2>1, <2>2 DEF GetState, IsPaused, Current, HasDevice
  <2>4. QED BY <1>4, <1>6, <2>1, <2>2, <2>3
<1>13. CASE Close
  BY <1>1, <1>13 DEF Close, Flags, Telltale
<1>14. CASE Start
  <2>1. /\ sources' = sources /\ doing' = doing /\ told' = told /\ last' = last /\ tasks' = tasks
    BY <1>14 DEF Start
  <2>2. flags'.initialized = flags.initialized /\ flags'.muted = flags.muted
    BY <1>1, <1>14 DEF Start, Flags
  <2>3. ~ flags.resume
    <3>1. history' = [Counted EXCEPT !.untold = Counted.untold \/ flags.resume]
      BY <1>14 DEF Start
    <3>2. (Counted.untold \/ flags.resume) \in BOOLEAN
      OBVIOUS
    <3>3. QED BY <3>1, <3>2, CountedKeeps DEF Telltale
  <2>4. DOMAIN made' = DOMAIN made /\ \A r \in DOMAIN made : made'[r].enabled = made[r].enabled
    BY <1>14, <2>3, Starts
  <2>5. Due' \/ GetState' = GetState
    <3>1. CASE 0 \in Current
      BY <2>1, <3>1 DEF Due, Current
    <3>2. CASE 0 \notin Current
      BY <2>1, <2>2, <2>4, <3>2, SameState
    <3>3. QED BY <3>1, <3>2
  <2>6. QED BY <1>4, <1>6, <2>1, <2>2, <2>4, <2>5
<1>15. QED
  BY <1>3, <1>7, <1>8, <1>9, <1>10, <1>11, <1>12, <1>13, <1>14 DEF Application

LEMMA ToldConfigures ==
  ASSUME StreamTypes, ToldParts, Configure \/ ConfigureThrows \/ Configured, Telltale'
  PROVE  ToldParts'
<1>0. "application" \in Threads /\ "worker" \in Threads /\ DOMAIN doing = Threads
  BY DEF Threads, StreamTypes
<1>1. ASSUME Due', Unmade', told' = told, last' = last,
             doing'["worker"] = doing["worker"]
      PROVE  ToldParts'
  <2>1. LastTold' /\ WillTell' /\ Remembers'
    BY <1>1, NothingTold DEF ToldParts
  <2>2. QED BY <1>1, <2>1 DEF ToldParts
<1>2. CASE Configure
  <2> DEFINE c == [doing["application"] EXCEPT !.rest = Tail(@)]
  <2>1. /\ doing' = [doing EXCEPT !["application"] = c]
        /\ doing["application"].step = "configure"
        /\ told' = told /\ last' = last
    BY <1>2, Configures
  <2>2. c.step = "configure"
    BY <1>0, <2>1 DEF StreamTypes, IsCall
  <2> HIDE DEF c
  <2>3. ~ Unlocked' /\ doing'["worker"] = doing["worker"]
    BY <1>0, <2>1, <2>2 DEF Unlocked
  <2>4. Due' /\ Unmade'
    BY <2>3 DEF Due, Unmade
  <2>5. QED BY <1>1, <2>1, <2>3, <2>4
<1>3. CASE ConfigureThrows
  BY <1>3 DEF ConfigureThrows, Telltale, StreamTypes, History
<1>4. CASE Configured
  <2>1. flags.initialized
    <3>1. history' = [history EXCEPT !.untold = history.untold \/ ~ flags.initialized]
      BY <1>4 DEF Configured
    <3>2. (history.untold \/ ~ flags.initialized) \in BOOLEAN
      OBVIOUS
    <3>3. QED BY <3>1, <3>2 DEF Telltale, StreamTypes, History
  <2>2. /\ tasks' = CheckUpgrade(tasks) /\ flags' = flags /\ told' = told /\ last' = last
        /\ doing' = [doing EXCEPT !["application"] = [Idle EXCEPT !.step = "take"]]
    BY <1>4, <2>1 DEF Configured
  <2>3. Due'
    BY <2>2, Upgrades DEF Due, Telling
  <2>4. Unmade'
    BY <2>1, <2>2 DEF Unmade
  <2>5. doing'["worker"] = doing["worker"]
    BY <1>0, <2>2
  <2>6. QED BY <1>1, <2>2, <2>3, <2>4, <2>5
<1>5. QED BY <1>2, <1>3, <1>4

LEMMA ToldTasks ==
  ASSUME StreamTypes, ToldParts, Remember \/ EmitStateIfChanged \/ RunTask, Telltale', Telltale
  PROVE  ToldParts'
<1>0. "application" \in Threads /\ "worker" \in Threads /\ DOMAIN doing = Threads
  BY DEF Threads, StreamTypes
<1>1. CASE Remember
  <2>1. /\ UNCHANGED <<sources, made, flags, told, tasks>>
        /\ last' = doing["application"].state
        /\ doing' = [doing EXCEPT !["application"] = Idle]
        /\ doing["application"].step = "remember"
    BY <1>1 DEF Remember
  <2>2. doing["application"].state = <<Told>>
    <3>1. history' = [history EXCEPT !.untold =
                        history.untold \/ doing["application"].state # <<Told>>]
      BY <1>1 DEF Remember
    <3>2. (history.untold \/ doing["application"].state # <<Told>>) \in BOOLEAN
      OBVIOUS
    <3>3. QED BY <3>1, <3>2 DEF Telltale, StreamTypes, History
  <2>3. LastTold'
    BY <2>1, <2>2 DEF LastTold, Told
  <2>4. doing'["worker"] = doing["worker"]
    BY <1>0, <2>1
  <2>5. GetState' = GetState /\ Told' = Told
    BY <2>1 DEF GetState, IsPaused, Current, HasDevice, Told
  <2>6. Unlocked
    BY <2>1 DEF Unlocked
  <2>7. Due => Due'
    BY <2>1, <2>6 DEF Due, Telling, Current
  <2>8. WillTell' /\ Remembers'
    BY <2>4, <2>5, <2>7 DEF ToldParts, WillTell, Remembers
  <2>9. Unmade'
    BY <2>1, <2>6, UnmadeStays DEF ToldParts
  <2>10. QED BY <2>3, <2>8, <2>9 DEF ToldParts
<1>2. CASE EmitStateIfChanged
  <2> DEFINE state == doing["worker"].state
  <2>1. /\ UNCHANGED <<sources, made, flags, tasks>>
        /\ last' = state
        /\ told' = IF last = state \/ flags.closed THEN told ELSE state
        /\ doing' = [doing EXCEPT !["worker"] = Idle]
        /\ doing["worker"].step = "remember"
    BY <1>2 DEF EmitStateIfChanged
  <2>2. PICK x : state = <<x>>
    BY <2>1 DEF ToldParts, Remembers
  <2>3. Due \/ state = <<GetState>>
    BY <2>1 DEF ToldParts, Remembers
  <2>4. ~ flags.closed
    BY DEF Telltale
  <2> HIDE DEF state
  <2>5. Told' = x
    <3>1. CASE last = state
      <4>1. last = <<Told>>
        BY <2>2, <3>1 DEF ToldParts, LastTold
      <4>2. told' = told
        BY <2>1, <3>1
      <4>3. Told' = Told
        BY <4>2 DEF Told
      <4>4. QED BY <2>2, <3>1, <4>1, <4>3
    <3>2. CASE last # state
      <4>1. told' = <<x>>
        BY <2>1, <2>2, <2>4, <3>2
      <4>2. QED BY <4>1 DEF Told
    <3>3. QED BY <3>1, <3>2
  <2>6. LastTold'
    BY <2>1, <2>2, <2>5 DEF LastTold
  <2>7. doing'["application"] = doing["application"] /\ doing'["worker"] = Idle
    BY <1>0, <2>1
  <2>8. GetState' = GetState
    BY <2>1 DEF GetState, IsPaused, Current, HasDevice
  <2>9. Unlocked' = Unlocked
    BY <2>7 DEF Unlocked
  <2>10. Due => Due'
    BY <2>1, <2>9 DEF Due, Telling, Current
  <2>11. WillTell'
    BY <2>2, <2>3, <2>5, <2>8, <2>10 DEF WillTell
  <2>12. Remembers'
    BY <2>7, Idles DEF Remembers
  <2>13. Unmade'
    BY <2>1, <2>9, UnmadeStays DEF ToldParts
  <2>14. QED BY <2>6, <2>11, <2>12, <2>13 DEF ToldParts
<1>3. CASE RunTask
  <2>1. Head(tasks).task # "eof"
    <3>1. history' = [history EXCEPT !.untold = history.untold \/ Head(tasks).task = "eof"]
      BY <1>3 DEF RunTask
    <3>2. (history.untold \/ Head(tasks).task = "eof") \in BOOLEAN
      OBVIOUS
    <3>3. QED BY <3>1, <3>2 DEF Telltale, StreamTypes, History
  <2>2. Head(tasks).task = "emit"
    <3>1. Head(tasks) \in Task
      BY <1>3, TypesTask
    <3>2. QED BY <2>1, <3>1 DEF Task
  <2>3. /\ doing' = [doing EXCEPT !["worker"] = [Idle EXCEPT !.step = "read"]]
        /\ UNCHANGED <<sources, made, flags, last, told>>
    BY <1>3, <2>2 DEF RunTask
  <2>4. doing'["worker"] = [Idle EXCEPT !.step = "read"]
        /\ doing'["application"] = doing["application"]
    BY <1>0, <2>3
  <2>5. doing'["worker"].step = "read"
    BY <2>4 DEF Idle
  <2>6. LastTold'
    BY <2>3 DEF ToldParts, LastTold, Told
  <2>7. WillTell' /\ Remembers'
    BY <2>5 DEF WillTell, Remembers
  <2>8. Unlocked' = Unlocked
    BY <2>4 DEF Unlocked
  <2>9. Unmade'
    BY <2>3, <2>8, UnmadeStays DEF ToldParts
  <2>10. QED BY <2>6, <2>7, <2>9 DEF ToldParts
<1>4. QED BY <1>1, <1>2, <1>3

\* Where a call that destroys readers, or reads the state, goes to.
LEMMA Proceeds ==
  ASSUME StreamTypes, NEW t \in Threads, Proceed(t)
  PROVE  \/ doing' = doing
         \/ ~ ReadState(t) /\ doing'[t].step \in {"idle", "destroy", "join"}
         \/ ReadState(t) /\ doing'[t].step = "remember"
<1>0. DOMAIN doing = Threads /\ IsCall(doing[t])
  BY DEF StreamTypes
<1>1. CASE TakeRemoved(t)
  <2> DEFINE c == [Idle EXCEPT !.step = "destroy", !.doomed = Second(sources.removed),
                     !.keys = {sources.removed[i][1] : i \in DOMAIN sources.removed}]
  <2>1. doing' = [doing EXCEPT ![t] = c] /\ ~ ReadState(t)
    BY <1>1 DEF TakeRemoved, ReadState
  <2>2. c.step = "destroy"
    BY DEF Idle
  <2> HIDE DEF c
  <2>3. QED BY <1>0, <2>1, <2>2
<1>2. CASE Silence(t)
  <2>1. ~ ReadState(t) /\ (doing' = doing \/ doing' = [doing EXCEPT ![t].step = "join"])
    BY <1>2 DEF Silence, ReadState
  <2>2. QED BY <1>0, <2>1 DEF IsCall
<1>3. CASE Join(t)
  <2>1. /\ ~ ReadState(t)
        /\ doing' = [doing EXCEPT ![t].step = "destroy", ![t].doomed = Tail(@)]
    BY <1>3 DEF Join, ReadState
  <2>2. QED BY <1>0, <2>1 DEF IsCall
<1>4. CASE Destroyed(t)
  <2>1. ~ ReadState(t) /\ doing' = [doing EXCEPT ![t] = Idle]
    BY <1>4 DEF Destroyed, ReadState
  <2>2. QED BY <1>0, <2>1, Idles
<1>5. CASE ReadState(t)
  <2>1. \/ doing' = doing
        \/ doing' = [doing EXCEPT ![t].step = "remember", ![t].state = <<GetState>>]
    BY <1>5 DEF ReadState
  <2>2. QED BY <1>0, <1>5, <2>1 DEF IsCall
<1>6. QED BY <1>1, <1>2, <1>3, <1>4, <1>5 DEF Proceed

LEMMA ToldDestroying ==
  ASSUME StreamTypes, Placed, ToldParts, NEW t \in Threads, Proceed(t)
  PROVE  ToldParts'
<1>0. /\ "application" \in Threads /\ "worker" \in Threads /\ DOMAIN doing = Threads
      /\ IsSources(sources) /\ IsCall(doing[t])
  BY DEF Threads, StreamTypes
<1>1. \A u \in Threads : u # t => doing'[u] = doing[u]
  BY <1>0 DEF Proceed, TakeRemoved, Silence, Join, Destroyed, ReadState
<1>2. /\ sources'.readers = sources.readers /\ sources'.external = sources.external
      /\ UNCHANGED <<flags, last, told, tasks>>
  BY <1>0 DEF Proceed, TakeRemoved, Silence, Join, Destroyed, ReadState, IsSources
<1>3. /\ DOMAIN made' = DOMAIN made
      /\ \A r \in DOMAIN made : made'[r].enabled = made[r].enabled
  <2>1. \A r \in DOMAIN made : made[r] \in Reader
    BY DEF StreamTypes
  <2>2. CASE made' = made
    BY <2>2
  <2>3. CASE Silence(t)
    <3>1. PICK r : made' = made \/ made' = [made EXCEPT ![r].heard = FALSE, ![r].running = FALSE]
      BY <2>3 DEF Silence
    <3>2. CASE made' = [made EXCEPT ![r].heard = FALSE, ![r].running = FALSE]
      <4>1. DOMAIN made' = DOMAIN made /\ \A q \in DOMAIN made : q # r => made'[q] = made[q]
        BY <3>2 DEF StreamTypes
      <4>2. ASSUME r \in DOMAIN made
            PROVE  made'[r].enabled = made[r].enabled
        <5>1. made'[r] = [made[r] EXCEPT !.heard = FALSE, !.running = FALSE]
          BY <2>1, <3>2, <4>2 DEF StreamTypes, Reader
        <5>2. QED BY <2>1, <4>2, <5>1 DEF Reader
      <4>3. QED BY <4>1, <4>2
    <3>3. QED BY <3>1, <3>2
  <2>4. QED BY <2>2, <2>3 DEF Proceed, TakeRemoved, Join, Destroyed, ReadState
<1>4. Unlocked' = Unlocked
  <2>1. CASE t = "application"
    <3>1. doing[t].step # "configure"
      BY DEF Proceed, TakeRemoved, Silence, Join, Destroyed, ReadState
    <3>2. doing'[t].step # "configure"
      BY <3>1, Proceeds
    <3>3. QED BY <2>1, <3>1, <3>2 DEF Unlocked
  <2>2. CASE t # "application"
    BY <1>0, <1>1, <2>2 DEF Unlocked
  <2>3. QED BY <2>1, <2>2
<1>5. Due => Due'
  BY <1>2, <1>4 DEF Due, Telling, Current
<1>6. Due' \/ GetState' = GetState
  <2>1. CASE 0 \in Current
    BY <1>2, <2>1 DEF Due, Current
  <2>2. CASE 0 \notin Current
    BY <1>2, <1>3, <2>2, SameState
  <2>3. QED BY <2>1, <2>2
<1>7. Unmade'
  BY <1>2, <1>3, <1>4, UnmadeStays DEF ToldParts
<1>8. CASE doing'["worker"] = doing["worker"]
  <2>1. LastTold' /\ WillTell' /\ Remembers'
    BY <1>2, <1>5, <1>6, <1>8, NothingTold DEF ToldParts
  <2>2. QED BY <1>7, <2>1 DEF ToldParts
<1>9. CASE t = "worker" /\ ReadState(t) /\ doing' # doing
  <2>1. doing' = [doing EXCEPT ![t].step = "remember", ![t].state = <<GetState>>]
        /\ UNCHANGED <<sources, made, flags, last, told, tasks>>
    BY <1>9 DEF ReadState
  <2>2. doing'["worker"].step = "remember" /\ doing'["worker"].state = <<GetState>>
    BY <1>0, <1>9, <2>1 DEF IsCall
  <2>3. GetState' = GetState
    BY <2>1 DEF GetState, IsPaused, Current, HasDevice
  <2>4. LastTold'
    BY <2>1 DEF ToldParts, LastTold, Told
  <2>5. WillTell' /\ Remembers'
    BY <2>2, <2>3 DEF WillTell, Remembers
  <2>6. QED BY <1>7, <2>4, <2>5 DEF ToldParts
<1>10. CASE t = "worker" /\ ~ ReadState(t)
  <2>1. doing["worker"].step \notin {"read", "remember"}
    BY <1>10 DEF Proceed, TakeRemoved, Silence, Join, Destroyed
  <2>2. doing'["worker"].step # "remember"
    BY <1>10, <2>1, Proceeds
  <2>3. LastTold' /\ WillTell' /\ Remembers'
    BY <1>2, <1>5, <1>6, <2>1, <2>2, NothingTold DEF ToldParts
  <2>4. QED BY <1>7, <2>3 DEF ToldParts
<1>11. QED BY <1>0, <1>1, <1>8, <1>9, <1>10

LEMMA ToldPlaying ==
  ASSUME StreamTypes, Placed, ToldParts, NEW r \in DOMAIN made, Playing(r)
  PROVE  ToldParts'
<1>1. Runs(r) /\ Enters /\ Queues /\ UNCHANGED <<flags, last, told, doing>>
  BY PlayingRuns, PlayingEnters, PlayingQueues, PlayingLeaves
<1>2. IsSources(sources)
  BY DEF StreamTypes
<1>3. sources'.external = sources.external
  BY <1>2 DEF Playing, Callback, Frame, Synchronize, Synchronized, Send, End, IsSources
<1>4. \A q \in DOMAIN made : made'[q].enabled = made[q].enabled
  BY <1>1 DEF Runs
<1>5. Unlocked' = Unlocked
  BY <1>1 DEF Unlocked
<1>6. Telling => Telling'
  BY <1>1 DEF Telling, Queues
<1>7. Current \subseteq Current'
  BY <1>1 DEF Enters, Current
<1>8. Due => Due'
  BY <1>5, <1>6, <1>7 DEF Due
<1>9. Due' \/ GetState' = GetState
  <2>1. CASE 0 \in Current'
    BY <2>1 DEF Due
  <2>2. CASE 0 \notin Current'
    <3>1. DOMAIN sources'.readers = DOMAIN sources.readers
      BY <1>1, <2>2 DEF Enters, Current
    <3>2. Current' = Current
      BY <1>1, <3>1 DEF Enters, Current
    <3>3. Current \subseteq DOMAIN made
      BY <2>2, <3>2 DEF Current, Placed
    <3>4. IsPaused' = IsPaused
      BY <1>1, <1>4, <3>2, <3>3 DEF IsPaused
    <3>5. {d \in Device : ~ HasDevice(d)}' = {d \in Device : ~ HasDevice(d)}
      BY <1>3, <3>1 DEF HasDevice
    <3>6. GetState' = GetState
      BY <1>1, <3>4, <3>5 DEF GetState
    <3>7. QED BY <3>6
  <2>3. QED BY <2>1, <2>2
<1>10. LastTold' /\ WillTell' /\ Remembers'
  BY <1>1, <1>8, <1>9, NothingTold DEF ToldParts
<1>11. Unmade'
  BY <1>1, <1>5 DEF ToldParts, Unmade
<1>12. QED BY <1>10, <1>11 DEF ToldParts

LEMMA ToldStep ==
  ASSUME StreamTypes, Placed, ToldInv, [Next]_vars
  PROVE  ToldInv'
<1> SUFFICES ASSUME Telltale'
             PROVE  ToldParts'
  BY DEF ToldInv, ToldParts
<1>1. Telltale /\ ToldParts
  BY TelltaleStays DEF ToldInv, ToldParts
<1>2. CASE UNCHANGED vars
  <2>1. UNCHANGED <<sources, made, flags, last, told, tasks, doing>>
    BY <1>2 DEF vars
  <2>2. GetState' = GetState /\ Told' = Told /\ Due' = Due
    BY <2>1 DEF GetState, IsPaused, Current, HasDevice, Told, Due, Telling, Unlocked
  <2>3. QED
    BY <1>1, <2>1, <2>2 DEF ToldParts, LastTold, WillTell, Remembers, Unmade, Unlocked
<1>3. CASE Application \/ Start
  BY <1>1, <1>3, ToldCalls
<1>4. CASE Configure \/ ConfigureThrows \/ Configured
  BY <1>1, <1>4, ToldConfigures
<1>5. CASE Remember \/ EmitStateIfChanged \/ RunTask
  BY <1>1, <1>5, ToldTasks
<1>6. ASSUME NEW t \in Threads, Proceed(t)
      PROVE  ToldParts'
  BY <1>1, <1>6, ToldDestroying
<1>7. ASSUME NEW r \in DOMAIN made, Playing(r)
      PROVE  ToldParts'
  BY <1>1, <1>7, ToldPlaying
<1>8. QED BY <1>2, <1>3, <1>4, <1>5, <1>6, <1>7, StreamSteps

\* At rest the listener knows the state of the media, except after the changes marked
\* untold (StreamManager::check_upgrade, emit_state_if_changed).
THEOREM ListenerKnows == Spec => []ChangesTold
<1>1. Init => Placed /\ ToldInv
  <2> SUFFICES ASSUME Init
               PROVE  Placed /\ LastTold /\ WillTell /\ Remembers /\ Unmade
    BY DEF ToldInv
  <2>1. Placed /\ LastTold /\ Unmade
    BY DEF Init, NoSources, Placed, LastTold, Unmade
  <2>2. Remembers
    <3>1. doing["worker"] = Idle
      BY DEF Init, Threads
    <3>2. QED BY <3>1, Idles DEF Remembers
  <2>3. Told = [muted |-> FALSE, paused |-> FALSE, off |-> Device]
    BY DEF Init, Told
  <2>4. GetState = [muted |-> FALSE, paused |-> FALSE, off |-> Device]
    <3>1. ~ IsPaused /\ flags.muted = FALSE
      BY DEF Init, NoFlags, IsPaused
    <3>2. {d \in Device : ~ HasDevice(d)} = Device
      BY DEF Init, NoSources, HasDevice
    <3>3. (IsPaused \/ flags.muted) = FALSE
      BY <3>1
    <3>4. QED BY <3>1, <3>2, <3>3 DEF GetState
  <2>5. QED BY <2>1, <2>2, <2>3, <2>4 DEF WillTell
<1>2. StreamTypes /\ Placed /\ ToldInv /\ [Next]_vars => Placed' /\ ToldInv'
  BY PlacedStep, ToldStep
<1>3. ToldInv => ChangesTold
  <2> SUFFICES ASSUME ToldInv, tasks = <<>>, \A t \in Threads : doing[t] = Idle,
                      0 \notin Current, Telltale
               PROVE  Told = GetState
    BY DEF ChangesTold, Telltale
  <2>1. doing["application"].step = "idle" /\ doing["worker"].step = "idle"
    BY Idles DEF Threads
  <2>2. ~ Due
    BY <2>1 DEF Due, Telling, Unlocked
  <2>3. QED BY <2>1, <2>2 DEF ToldInv, WillTell
<1>4. QED BY <1>1, <1>2, <1>3, StreamTypeCorrect, PTL DEF Spec

-----------------------------------------------------------------------------
(* IncomingSources. A loop is a function of the number of steps taken; it   *)
(* exists, and what a step preserves holds of its end, because a set of     *)
(* numbers has a least element.                                             *)

LEMMA LeastExists ==
  ASSUME NEW S \in SUBSET Nat, S # {}
  PROVE  \E m \in S : \A x \in S : m <= x
<1> DEFINE R == {ss \in Nat \X Nat : ss[1] < ss[2]}
<1>1. IsWellFoundedOn(R, Nat)
  BY NatLessThanWellFounded DEF OpToRel
<1> HIDE DEF R
<1>2. PICK m \in S : \A y \in S : ~ (<<y, m>> \in R)
  BY <1>1, WFMin
<1>3. ASSUME NEW x \in S
      PROVE  m <= x
  <2>1. x \in Nat /\ m \in Nat
    OBVIOUS
  <2>2. ~ (x < m)
    BY <1>2, <2>1 DEF R
  <2>3. QED BY <2>1, <2>2
<1>4. QED BY <1>3

\* A property of the steps of a loop that each step preserves holds of the last.
LEMMA LoopSteps ==
  ASSUME NEW k \in Nat, NEW S, 0 \in S, \A i \in 1 .. k : i - 1 \in S => i \in S
  PROVE  k \in S
<1> DEFINE R == {i \in 0 .. k : i \notin S}
<1>1. R \in SUBSET Nat
  OBVIOUS
<1>2. ASSUME R # {}
      PROVE  FALSE
  <2>1. PICK m \in R : \A i \in R : m <= i
    BY <1>1, <1>2, LeastExists
  <2>2. m \in 0 .. k /\ m \notin S /\ m # 0
    BY <2>1
  <2>3. m \in 1 .. k /\ m - 1 \in 0 .. k /\ ~ (m <= m - 1)
    BY <2>2
  <2>4. m - 1 \in S
    BY <2>1, <2>3
  <2>5. QED BY <2>2, <2>3, <2>4
<1>3. QED BY <1>2

\* What is received by n, and is wanted.
Wanted(n) ==
  /\ DOMAIN n = {"conference", "closed", "enabled", "audio", "idle", "video", "failed", "contents",
                 "known", "unknown", "asked"}
  /\ IsFiniteSet(n.audio) /\ Cardinality(n.audio) <= Limit + 1
  /\ IsFiniteSet(n.contents)
  /\ n.closed => n.audio \cup n.video \cup n.contents = {}

\* A step of the connection that opens no channel of audio while audio is disabled.
Leads(n, m) ==
  /\ Wanted(m)
  /\ m.closed = n.closed /\ m.enabled = n.enabled
  /\ m.audio # {} => n.audio # {} \/ "audio" \in n.enabled

LEMMA LeadsOn ==
  ASSUME NEW n, NEW m, NEW o, Leads(n, m), Leads(m, o)
  PROVE  Leads(n, o)
BY DEF Leads

LEMMA LeadsNowhere ==
  ASSUME NEW n, Wanted(n)
  PROVE  Leads(n, n)
BY DEF Leads

LEMMA RemovalLeads ==
  ASSUME NEW n, Wanted(n), NEW e
  PROVE  /\ Leads(n, RemoveIncomingAudio(n, e))
         /\ RemoveIncomingAudio(n, e).audio \subseteq n.audio
<1> DEFINE m == [n EXCEPT !.audio = @ \ {e}, !.idle = Drop(@, e), !.contents = @ \ {e}]
<1>1. CASE e \notin n.contents
  BY <1>1, LeadsNowhere DEF RemoveIncomingAudio
<1>2. CASE e \in n.contents
  <2>1. RemoveIncomingAudio(n, e) = m
    BY <1>2 DEF RemoveIncomingAudio
  <2>2. /\ DOMAIN m = DOMAIN n /\ m.audio = n.audio \ {e} /\ m.contents = n.contents \ {e}
        /\ m.video = n.video /\ m.closed = n.closed /\ m.enabled = n.enabled
    BY DEF Wanted
  <2> HIDE DEF m
  <2>3. IsFiniteSet(m.audio) /\ Cardinality(m.audio) <= Cardinality(n.audio)
    BY <2>2, FS_Subset DEF Wanted
  <2>4. Cardinality(m.audio) \in Nat /\ Cardinality(n.audio) \in Nat
    BY <2>3, FS_CardinalityType DEF Wanted
  <2>5. Cardinality(m.audio) <= Limit + 1
    BY <2>3, <2>4, SourcesAssumption DEF Wanted
  <2>6. IsFiniteSet(m.contents)
    BY <2>2, FS_Subset DEF Wanted
  <2>7. Wanted(m)
    BY <2>2, <2>3, <2>5, <2>6 DEF Wanted
  <2>8. QED BY <2>1, <2>2, <2>7 DEF Leads
<1>3. QED BY <1>1, <1>2

LEMMA RoomLeads ==
  ASSUME NEW n, Wanted(n)
  PROVE  Leads(n, MakeRoom(n))
BY RemovalLeads, LeadsNowhere DEF MakeRoom

LEMMA RememberLeads ==
  ASSUME NEW n, Wanted(n), ~ n.closed, NEW e
  PROVE  Leads(n, RememberContent(n, e))
<1> DEFINE m == [n EXCEPT !.contents = @ \cup {e}]
<1>1. DOMAIN m = DOMAIN n /\ m.contents = n.contents \cup {e} /\ m.audio = n.audio
      /\ m.video = n.video /\ m.closed = n.closed /\ m.enabled = n.enabled
  BY DEF Wanted
<1>2. RememberContent(n, e) = n \/ RememberContent(n, e) = m
  BY DEF RememberContent
<1> HIDE DEF m
<1>3. IsFiniteSet(m.contents)
  BY <1>1, FS_AddElement DEF Wanted
<1>4. Leads(n, m)
  BY <1>1, <1>3 DEF Leads, Wanted
<1>5. QED BY <1>2, <1>4, LeadsNowhere

LEMMA OpeningLeads ==
  ASSUME NEW n, Wanted(n), ~ n.closed, NEW e, NEW broken, Medium(e) \in n.enabled,
         Medium(e) = "audio" => Cardinality(n.audio) <= Limit
  PROVE  Leads(n, OpenChannel(n, e, broken))
<1> DEFINE opened == {e} \ broken
           m == [n EXCEPT !.failed = (@ \ opened) \cup ({e} \cap broken)]
           a == [m EXCEPT !.audio = (@ \ {e}) \cup opened, !.idle = Drop(@, e)]
           v == [m EXCEPT !.video = (@ \ {e}) \cup opened]
<1>1. OpenChannel(n, e, broken) = IF Medium(e) = "audio" THEN a ELSE v
  BY DEF OpenChannel
<1>2. DOMAIN m = DOMAIN n /\ m.contents = n.contents /\ m.audio = n.audio
      /\ m.video = n.video /\ m.closed = n.closed /\ m.enabled = n.enabled
  BY DEF Wanted
<1>3. opened = {} \/ opened = {e}
  OBVIOUS
<1> HIDE DEF m, opened
<1>4. DOMAIN a = DOMAIN n /\ a.contents = n.contents /\ a.audio = (n.audio \ {e}) \cup opened
      /\ a.video = n.video /\ a.closed = n.closed /\ a.enabled = n.enabled
  BY <1>2 DEF Wanted
<1>5. DOMAIN v = DOMAIN n /\ v.contents = n.contents /\ v.audio = n.audio
      /\ v.closed = n.closed /\ v.enabled = n.enabled
  BY <1>2 DEF Wanted
<1> HIDE DEF a, v
<1>6. CASE Medium(e) = "audio"
  <2> DEFINE S == n.audio \ {e}
  <2>1. IsFiniteSet(S) /\ Cardinality(S) <= Cardinality(n.audio)
    BY FS_Subset DEF Wanted
  <2>2. Cardinality(S) \in Nat /\ Cardinality(n.audio) \in Nat
    BY <2>1, FS_CardinalityType DEF Wanted
  <2> HIDE DEF S
  <2> DEFINE T == S \cup {e}
  <2>3. /\ IsFiniteSet(T)
        /\ Cardinality(T) = IF e \in S THEN Cardinality(S) ELSE Cardinality(S) + 1
    BY <2>1, FS_AddElement
  <2>4. a.audio = S \/ a.audio = T
    BY <1>3, <1>4 DEF S
  <2> HIDE DEF T
  <2>5. Limit \in Nat /\ Cardinality(n.audio) <= Limit
    BY <1>6, SourcesAssumption
  <2>6. IsFiniteSet(a.audio) /\ Cardinality(a.audio) <= Limit + 1
    <3>1. Cardinality(S) <= Limit + 1 /\ Cardinality(T) <= Limit + 1
      BY <2>1, <2>2, <2>3, <2>5
    <3>2. QED BY <2>1, <2>3, <2>4, <3>1
  <2>7. Wanted(a)
    BY <1>4, <2>6 DEF Wanted
  <2>8. Leads(n, a)
    BY <1>4, <1>6, <2>7 DEF Leads
  <2>9. QED BY <1>1, <1>6, <2>8
<1>7. CASE Medium(e) # "audio"
  <2>1. Leads(n, v)
    BY <1>5 DEF Leads, Wanted
  <2>2. QED BY <1>1, <1>7, <2>1
<1>8. QED BY <1>6, <1>7

LEMMA AddingLeads ==
  ASSUME NEW n, Wanted(n), NEW e, NEW broken, NEW force
  PROVE  Leads(n, AddSource(n, e, broken, force))
<1> DEFINE room == IF Medium(e) = "audio" THEN MakeRoom(n) ELSE n
<1>1. Leads(n, room)
  BY RoomLeads, LeadsNowhere
<1>2. AddSource(n, e, broken, force) =
        IF n.closed \/ (e \in n.contents /\ ~ force) THEN n
        ELSE IF Medium(e) \notin n.enabled THEN RememberContent(n, e)
        ELSE IF Medium(e) = "audio" /\ Cardinality(room.audio) > Limit THEN room
        ELSE RememberContent(OpenChannel(room, e, broken), e)
  BY DEF AddSource
<1> HIDE DEF room
<1>3. CASE ~ n.closed /\ Medium(e) \in n.enabled
           /\ ~ (Medium(e) = "audio" /\ Cardinality(room.audio) > Limit)
  <2>1. Wanted(room) /\ ~ room.closed /\ Medium(e) \in room.enabled
    BY <1>1, <1>3 DEF Leads
  <2>2. Cardinality(room.audio) \in Nat
    BY <2>1, FS_CardinalityType DEF Wanted
  <2>3. Medium(e) = "audio" => Cardinality(room.audio) <= Limit
    BY <1>3, <2>2, SourcesAssumption
  <2> DEFINE m == OpenChannel(room, e, broken)
  <2>4. Leads(room, m)
    BY <2>1, <2>3, OpeningLeads
  <2> HIDE DEF m
  <2>5. Wanted(m) /\ ~ m.closed
    BY <2>1, <2>4 DEF Leads
  <2>6. Leads(m, RememberContent(m, e))
    BY <2>5, RememberLeads
  <2>7. Leads(n, RememberContent(m, e))
    BY <1>1, <2>4, <2>6, LeadsOn
  <2>8. QED BY <1>2, <1>3, <2>7, LeadsNowhere DEF m
<1>4. CASE ~ (~ n.closed /\ Medium(e) \in n.enabled
              /\ ~ (Medium(e) = "audio" /\ Cardinality(room.audio) > Limit))
  <2>1. ~ n.closed => Leads(n, RememberContent(n, e))
    BY RememberLeads
  <2>2. QED BY <1>1, <1>2, <1>4, <2>1, LeadsNowhere
<1>5. QED BY <1>3, <1>4

LEMMA KnowingLeads ==
  ASSUME NEW n, Wanted(n), NEW s, NEW broken
  PROVE  Leads(n, AddKnown(n, s, broken))
<1> DEFINE m == [n EXCEPT !.known = @ \cup {s}, !.unknown = @ \ {s}]
<1>1. AddKnown(n, s, broken) =
        IF s \in n.unknown \ n.audio THEN AddSource(m, s, broken, FALSE) ELSE m
  BY DEF AddKnown
<1>2. Leads(n, m)
  BY DEF Leads, Wanted
<1> HIDE DEF m
<1>3. Leads(m, AddSource(m, s, broken, FALSE))
  BY <1>2, AddingLeads DEF Leads
<1>4. QED BY <1>1, <1>2, <1>3, LeadsOn

\* The loops: what was remembered is opened, one content after the other.
LEMMA EnablingLeads ==
  ASSUME Wanted(net), NEW endpoints, Len(endpoints) \in Nat, NEW broken
  PROVE  Leads(net, EnableIncoming(endpoints, broken))
<1> DEFINE start == net
           opened[i \in 0 .. Len(endpoints)] ==
             IF i = 0 THEN start ELSE AddSource(opened[i - 1], endpoints[i], broken, TRUE)
           Makes(g, k) ==
             g = [i \in 0 .. k |->
                    IF i = 0 THEN start ELSE AddSource(g[i - 1], endpoints[i], broken, TRUE)]
<1> HIDE DEF Makes
<1>1. \E g : Makes(g, Len(endpoints))
  <2> DEFINE S == {k \in 0 .. Len(endpoints) : \E g : Makes(g, k)}
  <2>1. 0 \in S
    <3>1. Makes([i \in 0 .. 0 |-> start], 0)
      BY DEF Makes
    <3>2. QED BY <3>1
  <2>2. ASSUME NEW m \in 1 .. Len(endpoints), m - 1 \in S
        PROVE  m \in S
    <3>1. PICK g : Makes(g, m - 1)
      BY <2>2
    <3> DEFINE h == [i \in 0 .. m |->
           IF i = 0 THEN start ELSE AddSource(g[i - 1], endpoints[i], broken, TRUE)]
    <3>2. \A i \in 0 .. (m - 1) :
            g[i] = IF i = 0 THEN start ELSE AddSource(g[i - 1], endpoints[i], broken, TRUE)
      BY <3>1 DEF Makes
    <3>3. \A i \in 0 .. m : h[i] =
           IF i = 0 THEN start ELSE AddSource(g[i - 1], endpoints[i], broken, TRUE)
      OBVIOUS
    <3>4. \A i \in 0 .. (m - 1) : i \in 0 .. m
      BY <2>2
    <3>5. \A i \in 0 .. m : i # 0 => i - 1 \in 0 .. (m - 1)
      BY <2>2
    <3>6. h = [i \in 0 .. m |->
           IF i = 0 THEN start ELSE AddSource(g[i - 1], endpoints[i], broken, TRUE)]
      OBVIOUS
    <3> HIDE DEF h
    <3>7. \A i \in 0 .. (m - 1) : h[i] = g[i]
      BY <3>2, <3>3, <3>4
    <3>8. \A i \in 0 .. m : i # 0 => g[i - 1] = h[i - 1]
      BY <3>5, <3>7
    <3>9. Makes(h, m)
      BY <3>6, <3>8 DEF Makes
    <3>10. QED BY <3>9
  <2> HIDE DEF S
  <2>3. Len(endpoints) \in S
    BY <2>1, <2>2, LoopSteps
  <2>4. QED BY <2>3 DEF S
<1>2. Makes(opened, Len(endpoints))
  BY <1>1 DEF Makes
<1>3. EnableIncoming(endpoints, broken) = opened[Len(endpoints)]
  BY DEF EnableIncoming
<1> HIDE DEF opened, start
<1>4. \A i \in 0 .. Len(endpoints) :
        opened[i] = IF i = 0 THEN start ELSE AddSource(opened[i - 1], endpoints[i], broken, TRUE)
  BY <1>2 DEF Makes
<1> DEFINE S == {k \in 0 .. Len(endpoints) : Leads(net, opened[k])}
<1>5. 0 \in S
  <2>1. 0 \in 0 .. Len(endpoints)
    OBVIOUS
  <2>2. opened[0] = start
    BY <1>4, <2>1
  <2>3. Leads(net, start)
    BY LeadsNowhere DEF start
  <2>4. QED BY <2>1, <2>2, <2>3
<1>6. ASSUME NEW m \in 1 .. Len(endpoints), m - 1 \in S
      PROVE  m \in S
  <2>1. Leads(net, opened[m - 1]) /\ m \in 0 .. Len(endpoints) /\ m # 0
    BY <1>6
  <2>2. opened[m] = AddSource(opened[m - 1], endpoints[m], broken, TRUE)
    BY <1>4, <2>1
  <2>3. Wanted(opened[m - 1])
    BY <2>1 DEF Leads
  <2>4. Leads(opened[m - 1], opened[m])
    BY <2>2, <2>3, AddingLeads
  <2>5. QED BY <2>1, <2>4, LeadsOn
<1> HIDE DEF S
<1>7. Len(endpoints) \in S
  BY <1>5, <1>6, LoopSteps
<1>8. QED BY <1>3, <1>7 DEF S

\* All that are idle are removed.
LEMMA CleaningLeads ==
  ASSUME Wanted(net), NEW channels, Len(channels) \in Nat
  PROVE  Leads(net, RemoveAll(channels))
<1> DEFINE start == net
           removed[i \in 0 .. Len(channels)] ==
             IF i = 0 THEN start ELSE RemoveIncomingAudio(removed[i - 1], channels[i])
           Makes(g, k) ==
             g = [i \in 0 .. k |->
                    IF i = 0 THEN start ELSE RemoveIncomingAudio(g[i - 1], channels[i])]
<1> HIDE DEF Makes
<1>1. \E g : Makes(g, Len(channels))
  <2> DEFINE S == {k \in 0 .. Len(channels) : \E g : Makes(g, k)}
  <2>1. 0 \in S
    <3>1. Makes([i \in 0 .. 0 |-> start], 0)
      BY DEF Makes
    <3>2. QED BY <3>1
  <2>2. ASSUME NEW m \in 1 .. Len(channels), m - 1 \in S
        PROVE  m \in S
    <3>1. PICK g : Makes(g, m - 1)
      BY <2>2
    <3> DEFINE h == [i \in 0 .. m |->
           IF i = 0 THEN start ELSE RemoveIncomingAudio(g[i - 1], channels[i])]
    <3>2. \A i \in 0 .. (m - 1) :
            g[i] = IF i = 0 THEN start ELSE RemoveIncomingAudio(g[i - 1], channels[i])
      BY <3>1 DEF Makes
    <3>3. \A i \in 0 .. m : h[i] =
           IF i = 0 THEN start ELSE RemoveIncomingAudio(g[i - 1], channels[i])
      OBVIOUS
    <3>4. \A i \in 0 .. (m - 1) : i \in 0 .. m
      BY <2>2
    <3>5. \A i \in 0 .. m : i # 0 => i - 1 \in 0 .. (m - 1)
      BY <2>2
    <3>6. h = [i \in 0 .. m |-> IF i = 0 THEN start ELSE RemoveIncomingAudio(g[i - 1], channels[i])]
      OBVIOUS
    <3> HIDE DEF h
    <3>7. \A i \in 0 .. (m - 1) : h[i] = g[i]
      BY <3>2, <3>3, <3>4
    <3>8. \A i \in 0 .. m : i # 0 => g[i - 1] = h[i - 1]
      BY <3>5, <3>7
    <3>9. Makes(h, m)
      BY <3>6, <3>8 DEF Makes
    <3>10. QED BY <3>9
  <2> HIDE DEF S
  <2>3. Len(channels) \in S
    BY <2>1, <2>2, LoopSteps
  <2>4. QED BY <2>3 DEF S
<1>2. Makes(removed, Len(channels))
  BY <1>1 DEF Makes
<1>3. RemoveAll(channels) = removed[Len(channels)]
  BY DEF RemoveAll
<1> HIDE DEF removed, start
<1>4. \A i \in 0 .. Len(channels) :
        removed[i] = IF i = 0 THEN start ELSE RemoveIncomingAudio(removed[i - 1], channels[i])
  BY <1>2 DEF Makes
<1> DEFINE S == {k \in 0 .. Len(channels) : Leads(net, removed[k])}
<1>5. 0 \in S
  <2>1. 0 \in 0 .. Len(channels)
    OBVIOUS
  <2>2. removed[0] = start
    BY <1>4, <2>1
  <2>3. Leads(net, start)
    BY LeadsNowhere DEF start
  <2>4. QED BY <2>1, <2>2, <2>3
<1>6. ASSUME NEW m \in 1 .. Len(channels), m - 1 \in S
      PROVE  m \in S
  <2>1. Leads(net, removed[m - 1]) /\ m \in 0 .. Len(channels) /\ m # 0
    BY <1>6
  <2>2. removed[m] = RemoveIncomingAudio(removed[m - 1], channels[m])
    BY <1>4, <2>1
  <2>3. Wanted(removed[m - 1])
    BY <2>1 DEF Leads
  <2>4. Leads(removed[m - 1], removed[m])
    BY <2>2, <2>3, RemovalLeads
  <2>5. QED BY <2>1, <2>4, LeadsOn
<1> HIDE DEF S
<1>7. Len(channels) \in S
  BY <1>5, <1>6, LoopSteps
<1>8. QED BY <1>3, <1>7 DEF S

\* All of the list are known.
LEMMA MappingLeads ==
  ASSUME Wanted(net), NEW list, Len(list) \in Nat, NEW broken
  PROVE  Leads(net, AddAllKnown(list, broken))
<1> DEFINE start == [net EXCEPT !.known = {}]
           mapped[i \in 0 .. Len(list)] ==
             IF i = 0 THEN start ELSE AddKnown(mapped[i - 1], list[i], broken)
           Makes(g, k) ==
             g = [i \in 0 .. k |-> IF i = 0 THEN start ELSE AddKnown(g[i - 1], list[i], broken)]
<1> HIDE DEF Makes
<1>1. \E g : Makes(g, Len(list))
  <2> DEFINE S == {k \in 0 .. Len(list) : \E g : Makes(g, k)}
  <2>1. 0 \in S
    <3>1. Makes([i \in 0 .. 0 |-> start], 0)
      BY DEF Makes
    <3>2. QED BY <3>1
  <2>2. ASSUME NEW m \in 1 .. Len(list), m - 1 \in S
        PROVE  m \in S
    <3>1. PICK g : Makes(g, m - 1)
      BY <2>2
    <3> DEFINE h == [i \in 0 .. m |-> IF i = 0 THEN start ELSE AddKnown(g[i - 1], list[i], broken)]
    <3>2. \A i \in 0 .. (m - 1) :
            g[i] = IF i = 0 THEN start ELSE AddKnown(g[i - 1], list[i], broken)
      BY <3>1 DEF Makes
    <3>3. \A i \in 0 .. m : h[i] = IF i = 0 THEN start ELSE AddKnown(g[i - 1], list[i], broken)
      OBVIOUS
    <3>4. \A i \in 0 .. (m - 1) : i \in 0 .. m
      BY <2>2
    <3>5. \A i \in 0 .. m : i # 0 => i - 1 \in 0 .. (m - 1)
      BY <2>2
    <3>6. h = [i \in 0 .. m |-> IF i = 0 THEN start ELSE AddKnown(g[i - 1], list[i], broken)]
      OBVIOUS
    <3> HIDE DEF h
    <3>7. \A i \in 0 .. (m - 1) : h[i] = g[i]
      BY <3>2, <3>3, <3>4
    <3>8. \A i \in 0 .. m : i # 0 => g[i - 1] = h[i - 1]
      BY <3>5, <3>7
    <3>9. Makes(h, m)
      BY <3>6, <3>8 DEF Makes
    <3>10. QED BY <3>9
  <2> HIDE DEF S
  <2>3. Len(list) \in S
    BY <2>1, <2>2, LoopSteps
  <2>4. QED BY <2>3 DEF S
<1>2. Makes(mapped, Len(list))
  BY <1>1 DEF Makes
<1>3. AddAllKnown(list, broken) = mapped[Len(list)]
  BY DEF AddAllKnown
<1> HIDE DEF mapped, start
<1>4. \A i \in 0 .. Len(list) :
        mapped[i] = IF i = 0 THEN start ELSE AddKnown(mapped[i - 1], list[i], broken)
  BY <1>2 DEF Makes
<1> DEFINE S == {k \in 0 .. Len(list) : Leads(net, mapped[k])}
<1>5. 0 \in S
  <2>1. 0 \in 0 .. Len(list)
    OBVIOUS
  <2>2. mapped[0] = start
    BY <1>4, <2>1
  <2>3. Leads(net, start)
    BY LeadsNowhere DEF start, Leads, Wanted
  <2>4. QED BY <2>1, <2>2, <2>3
<1>6. ASSUME NEW m \in 1 .. Len(list), m - 1 \in S
      PROVE  m \in S
  <2>1. Leads(net, mapped[m - 1]) /\ m \in 0 .. Len(list) /\ m # 0
    BY <1>6
  <2>2. mapped[m] = AddKnown(mapped[m - 1], list[m], broken)
    BY <1>4, <2>1
  <2>3. Wanted(mapped[m - 1])
    BY <2>1 DEF Leads
  <2>4. Leads(mapped[m - 1], mapped[m])
    BY <2>2, <2>3, KnowingLeads
  <2>5. QED BY <2>1, <2>4, LeadsOn
<1> HIDE DEF S
<1>7. Len(list) \in S
  BY <1>5, <1>6, LoopSteps
<1>8. QED BY <1>3, <1>7 DEF S

IncomingInv == Wanted(net) /\ (net.audio # {} => "audio" \in net.enabled \cup {switching})

LEMMA OrdersFinite ==
  ASSUME NEW S, IsFiniteSet(S), NEW f \in Orders(S)
  PROVE  Len(f) \in Nat
<1>1. Cardinality(S) \in Nat
  BY FS_CardinalityType
<1>2. f \in [1 .. Cardinality(S) -> S]
  BY DEF Orders, Bijection, Injection, Surjection
<1>3. f \in Seq(S)
  BY <1>1, <1>2
<1>4. QED BY <1>3

LEMMA IncomingStep ==
  ASSUME IncomingInv, [IncomingNext]_incomingVars
  PROVE  IncomingInv'
<1>0. Wanted(net)
  BY DEF IncomingInv
\* Most tasks lead on.
<1>1. ASSUME Leads(net, net'), switching' = switching
      PROVE  IncomingInv'
  BY <1>1 DEF IncomingInv, Leads
<1>2. CASE UNCHANGED incomingVars
  BY <1>2 DEF incomingVars, IncomingInv
<1>3. ASSUME NEW s \in Speakers, NEW broken, RtpPacketReceived(s, broken)
      PROVE  IncomingInv'
  <2>1. CASE s \in net.audio
    <3>1. net' = [net EXCEPT !.idle = Drop(@, s)]
      BY <1>3, <2>1 DEF RtpPacketReceived
    <3>2. Leads(net, net')
      BY <1>0, <3>1 DEF Leads, Wanted
    <3>3. QED BY <1>1, <1>3, <3>2 DEF RtpPacketReceived
  <2>2. CASE s \notin net.audio /\ net.conference /\ s \notin net.known
    <3>1. net' = net \/ net' = [net EXCEPT !.unknown = @ \cup {s}, !.asked = TRUE]
      BY <1>3, <2>2 DEF RtpPacketReceived, AskParticipants
    <3>2. Leads(net, net')
      BY <1>0, <3>1 DEF Leads, Wanted
    <3>3. QED BY <1>1, <1>3, <3>2 DEF RtpPacketReceived
  <2>3. CASE s \notin net.audio /\ ~ (net.conference /\ s \notin net.known)
    <3>1. net' = AddSource(net, s, broken, FALSE)
      BY <1>3, <2>3 DEF RtpPacketReceived
    <3>2. Leads(net, net')
      BY <1>0, <3>1, AddingLeads
    <3>3. QED BY <1>1, <1>3, <3>2 DEF RtpPacketReceived
  <2>4. QED BY <2>1, <2>2, <2>3
<1>4. ASSUME NEW s \in Speakers, FallSilent(s)
      PROVE  IncomingInv'
  <2>1. net' = [net EXCEPT !.idle = Append(@, s)]
    BY <1>4 DEF FallSilent
  <2>2. Leads(net, net')
    BY <1>0, <2>1 DEF Leads, Wanted
  <2>3. QED BY <1>1, <1>4, <2>2 DEF FallSilent
<1>5. CASE RequestAges
  <2>1. Leads(net, net')
    BY <1>0, <1>5 DEF RequestAges, Leads, Wanted
  <2>2. QED BY <1>1, <1>5, <2>1 DEF RequestAges
<1>6. CASE Cleanup
  <2>1. PICK channels \in Orders(net.audio \cap Range(net.idle)) : net' = RemoveAll(channels)
    BY <1>6 DEF Cleanup
  <2>2. IsFiniteSet(net.audio \cap Range(net.idle))
    BY <1>0, FS_Subset DEF Wanted
  <2>3. Len(channels) \in Nat
    BY <2>2, OrdersFinite
  <2>4. Leads(net, net')
    BY <1>0, <2>1, <2>3, CleaningLeads
  <2>5. QED BY <1>1, <1>6, <2>4 DEF Cleanup
<1>7. ASSUME NEW medium \in Media, NEW broken, SwitchIncoming(medium, broken)
      PROVE  IncomingInv'
  <2>1. switching = medium /\ switching' = "none"
    BY <1>7 DEF SwitchIncoming
  <2>2. CASE medium \in net.enabled
    <3> DEFINE S == {e \in net.contents : Medium(e) = medium}
    <3>1. PICK endpoints \in Orders(S) : net' = EnableIncoming(endpoints, broken)
      BY <1>7, <2>2 DEF SwitchIncoming
    <3>2. IsFiniteSet(S)
      BY <1>0, FS_Subset DEF Wanted
    <3> HIDE DEF S
    <3>3. Len(endpoints) \in Nat
      BY <3>2, OrdersFinite
    <3>4. Leads(net, net')
      BY <1>0, <3>1, <3>3, EnablingLeads
    <3>5. QED BY <2>1, <2>2, <3>4 DEF IncomingInv, Leads
  <2>3. CASE medium \notin net.enabled /\ medium = "audio"
    <3>1. net' = [net EXCEPT !.audio = {}, !.idle = <<>>]
      BY <1>7, <2>3 DEF SwitchIncoming, DisableIncoming
    <3>2. net'.audio = {} /\ Wanted(net')
      BY <1>0, <3>1, FS_EmptySet, SourcesAssumption DEF Wanted
    <3>3. QED BY <3>2 DEF IncomingInv
  <2>4. CASE medium \notin net.enabled /\ medium # "audio"
    <3>1. net' = [net EXCEPT !.video = @ \ net.contents]
      BY <1>7, <2>4 DEF SwitchIncoming, DisableIncoming
    <3>2. Leads(net, net')
      BY <1>0, <3>1 DEF Wanted, Leads
    <3>3. QED BY <2>1, <2>4, <3>2 DEF IncomingInv, Leads
  <2>5. QED BY <2>2, <2>3, <2>4
<1>8. ASSUME NEW list \in Lists, NEW broken, UpdateAudioSsrcMappings(list, broken)
      PROVE  IncomingInv'
  <2>1. Len(list) \in Nat
    BY SourcesAssumption
  <2>2. Leads(net, net')
    BY <1>0, <1>8, <2>1, MappingLeads DEF UpdateAudioSsrcMappings
  <2>3. QED BY <1>1, <1>8, <2>2 DEF UpdateAudioSsrcMappings
<1>9. ASSUME NEW medium \in Media, SetIncoming(medium)
      PROVE  IncomingInv'
  <2> DEFINE e == IF medium \in net.enabled THEN net.enabled \ {medium}
                  ELSE net.enabled \cup {medium}
  <2>1. switching = "none" /\ switching' = medium /\ net' = [net EXCEPT !.enabled = e]
    BY <1>9 DEF SetIncoming
  <2>2. "audio" \in net.enabled => "audio" \in e \/ medium = "audio"
    OBVIOUS
  <2> HIDE DEF e
  <2>3. Wanted(net') /\ net'.audio = net.audio /\ net'.enabled = e
    BY <1>0, <2>1 DEF Wanted
  <2>4. QED BY <2>1, <2>2, <2>3 DEF IncomingInv
<1>10. ASSUME NEW e, NEW broken, AddIncomingVideo(e, broken)
       PROVE  IncomingInv'
  <2>1. Leads(net, net')
    BY <1>0, <1>10, AddingLeads DEF AddIncomingVideo
  <2>2. QED BY <1>1, <1>10, <2>1 DEF AddIncomingVideo
<1>11. ASSUME NEW e, RemoveIncomingVideo(e)
       PROVE  IncomingInv'
  <2>1. net' = [net EXCEPT !.video = @ \ {e}, !.contents = @ \ {e}]
    BY <1>11 DEF RemoveIncomingVideo
  <2>2. IsFiniteSet(net.contents \ {e})
    BY <1>0, FS_RemoveElement DEF Wanted
  <2>3. Leads(net, net')
    BY <1>0, <2>1, <2>2 DEF Wanted, Leads
  <2>4. QED BY <1>1, <1>11, <2>3 DEF RemoveIncomingVideo
<1>12. CASE CloseConnection
  <2>1. net' = [net EXCEPT !.closed = TRUE, !.contents = {}, !.audio = {}, !.idle = <<>>,
                           !.video = {}]
    BY <1>12 DEF CloseConnection
  <2>2. net'.audio = {} /\ Wanted(net')
    BY <1>0, <2>1, FS_EmptySet, SourcesAssumption DEF Wanted
  <2>3. QED BY <2>2 DEF IncomingInv
<1>13. QED
  BY <1>2, <1>3, <1>4, <1>5, <1>6, <1>7, <1>8, <1>9, <1>10, <1>11, <1>12
  DEF IncomingNext, Packet, Switch, FromApplication

\* Nothing is received that is not wanted, nothing after close, and one channel of audio
\* more than the limit at most (NativeNetworkInterface::add_incoming_smart_source,
\* enable_audio_incoming and close, GroupConnection's packets and timer).
THEOREM OnlyWantedReceived == IncomingSpec => []NothingUnwanted
<1>1. IncomingInit => IncomingInv
  <2> SUFFICES ASSUME NEW conference \in Kinds, net = NewConnection(conference)
               PROVE  IncomingInv
    BY DEF IncomingInit
  <2>1. Wanted(net) /\ net.audio = {}
    BY FS_EmptySet, SourcesAssumption DEF NewConnection, Wanted
  <2>2. QED BY <2>1 DEF IncomingInv
<1>2. IncomingInv /\ [IncomingNext]_incomingVars => IncomingInv'
  BY IncomingStep
<1>3. IncomingInv => NothingUnwanted
  BY DEF IncomingInv, Wanted, NothingUnwanted
<1>4. QED BY <1>1, <1>2, <1>3, PTL DEF IncomingSpec

=============================================================================
