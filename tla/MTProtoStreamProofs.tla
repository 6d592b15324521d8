------------------------ MODULE MTProtoStreamProofs ------------------------
(***************************************************************************)
(* Proofs about MTProtoStream, for any endpoints, times, frames and        *)
(* bounds: the time is asked for by one task (TimeNotPressed), a segment   *)
(* that a thread plays is erased under its last frame only                 *)
(* (FreedOnlyAtTheEnd), the segments are played one after the other        *)
(* (PlayedInOrder), and there are never more than the buffer holds.        *)
(*                                                                         *)
(* Same and Keeps say what the operators of MTProtoStream leave alone;     *)
(* the steps that are made of them are Ordinary. The invariants are        *)
(* OneTask, HeldInv and OrderInv.                                          *)
(***************************************************************************)
EXTENDS MTProtoStream, FiniteSetTheorems, TLAPS

-----------------------------------------------------------------------------
(* The fields of a stream and of its segments.                              *)

Fields ==
  {"rtmp", "running", "next", "waiting", "delay", "nextDelay", "wait", "segments",
   "channels", "mapping", "requests"}

IsSegment(segment) == DOMAIN segment = {"time", "ready", "parts", "videos"}

IsStream(s) ==
  /\ DOMAIN s = Fields
  /\ \A k \in DOMAIN s.segments : IsSegment(s.segments[k])

\* The segments of s and d are there for the same times, and are ready alike.
SameSegments(s, d) ==
  /\ DOMAIN d.segments = DOMAIN s.segments
  /\ \A k \in DOMAIN s.segments :
       /\ IsSegment(d.segments[k])
       /\ d.segments[k].time = s.segments[k].time
       /\ d.segments[k].ready = s.segments[k].ready

\* What is asked for, and when, is the same.
SameClock(s, d) ==
  DOMAIN d = Fields /\ d.next = s.next /\ d.waiting = s.waiting /\ d.delay = s.delay

Same(s, d) == SameClock(s, d) /\ SameSegments(s, d)

LEMMA SameRequests ==
  ASSUME NEW s, IsStream(s), NEW r
  PROVE  Same(s, [s EXCEPT !.requests = r])
BY DEF IsStream, Fields, Same, SameClock, SameSegments

LEMMA SamePart ==
  ASSUME NEW s, IsStream(s), NEW k \in DOMAIN s.segments, NEW i, NEW x, NEW y
  PROVE  Same(s, [s EXCEPT !.segments[k].parts[i].data = x, !.segments[k].parts[i].status = y])
BY DEF IsStream, IsSegment, Fields, Same, SameClock, SameSegments

LEMMA SameAsk ==
  ASSUME NEW segment, IsSegment(segment)
  PROVE  /\ IsSegment(AskParts(segment))
         /\ AskParts(segment).time = segment.time
         /\ AskParts(segment).ready = segment.ready
BY DEF IsSegment, AskParts

LEMMA MadeReady ==
  ASSUME NEW segment, IsSegment(segment)
  PROVE  /\ IsSegment(MakeReady(segment))
         /\ MakeReady(segment).time = segment.time
         /\ MakeReady(segment).ready
BY DEF IsSegment, MakeReady

LEMMA SameQuality ==
  ASSUME NEW s, IsStream(s)
  PROVE  Same(s, CheckQuality(s))
BY DEF IsStream, IsSegment, Fields, Same, SameClock, SameSegments, CheckQuality

LEMMA Discarded ==
  ASSUME NEW s, IsStream(s)
  PROVE  IsStream(DiscardPending(s)) /\ SameClock(s, DiscardPending(s))
BY DEF IsStream, IsSegment, Fields, SameClock, DiscardPending, Restrict, Ready

-----------------------------------------------------------------------------
(* What the steps of the media thread do to the stream.                     *)

\* Whoever waits for the time in d waited in s, or no task was to ask for it.
Waits(s, d) ==
  /\ IsStream(d)
  /\ d.delay = s.delay
  /\ d.waiting => s.waiting \/ s.delay = 0

\* Nothing was asked for.
Empty(s) == s.next = Unknown /\ DOMAIN s.segments = {}

\* The segments from the one that ends at "first" on, with none left out, and those that
\* are ready come first.
Lined(s, first) ==
  /\ s.next \in Nat /\ first \in Nat \ {0}
  /\ first <= s.next + 1
  /\ DOMAIN s.segments = first .. s.next
  /\ \A k \in DOMAIN s.segments : s.segments[k].time = k - 1
  /\ \A k \in Ready(s), j \in Pending(s) : k < j
  /\ ~ s.waiting

\* No more segments than the buffer holds, and the one that plays.
Fits(s) ==
  IsFiniteSet(DOMAIN s.segments) /\ Cardinality(DOMAIN s.segments) <= BufferDuration + 1

Keeps(s, d) ==
  /\ Waits(s, d)
  /\ Fits(s) => Fits(d)
  /\ Empty(s) => Empty(d)
  /\ \A first : Lined(s, first) => Lined(d, first)
  /\ Ready(s) \subseteq Ready(d)

LEMMA WaitsThrough ==
  ASSUME NEW s, NEW d, NEW e, Waits(s, d), Waits(d, e)
  PROVE  Waits(s, e)
BY DEF Waits

LEMMA KeepsThrough ==
  ASSUME NEW s, NEW d, NEW e, Keeps(s, d), Keeps(d, e)
  PROVE  Keeps(s, e)
<1>1. Waits(s, e)
  BY WaitsThrough DEF Keeps
<1>2. (Empty(s) => Empty(e)) /\ (Fits(s) => Fits(e)) /\ Ready(s) \subseteq Ready(e)
  BY DEF Keeps
<1>3. \A first : Lined(s, first) => Lined(e, first)
  BY DEF Keeps
<1>4. QED BY <1>1, <1>2, <1>3 DEF Keeps

\* A step that changes neither the segments nor the clock.
LEMMA SameKeeps ==
  ASSUME NEW s, NEW d, IsStream(s), Same(s, d)
  PROVE  Keeps(s, d)
<1>1. IsStream(d)
  BY DEF Same, SameClock, SameSegments, IsStream
<1>2. Waits(s, d)
  BY <1>1 DEF Same, SameClock, Waits
<1>3. Ready(d) = Ready(s) /\ Pending(d) = Pending(s)
  BY DEF Same, SameSegments, Ready, Pending
<1>4. (Empty(s) => Empty(d)) /\ (Fits(s) => Fits(d))
  BY DEF Same, SameClock, SameSegments, Empty, Fits
<1>5. ASSUME NEW first, Lined(s, first)
      PROVE  Lined(d, first)
  BY <1>3, <1>5 DEF Same, SameClock, SameSegments, Lined
<1>6. QED BY <1>2, <1>3, <1>4, <1>5 DEF Keeps

LEMMA NewSegmentIs ==
  ASSUME NEW s, NEW time
  PROVE  /\ IsSegment(NewSegment(s, time))
         /\ NewSegment(s, time).time = time
         /\ NewSegment(s, time).ready = FALSE
BY DEF IsSegment, NewSegment

\* What is there stays, and what is added waits for its parts.
Adds(s, ends, with) ==
  /\ DOMAIN with = DOMAIN s.segments \cup ends
  /\ \A k \in DOMAIN s.segments : with[k] = s.segments[k]
  /\ \A k \in ends \ DOMAIN s.segments : with[k].time = k - 1 /\ with[k].ready = FALSE
  /\ \A k \in DOMAIN with : IsSegment(with[k])

LEMMA SegmentsAdded ==
  ASSUME NEW s, IsStream(s), NEW ends
  PROVE  Adds(s, ends, WithSegments(s, ends))
BY NewSegmentIs DEF Adds, WithSegments, IsStream

\* RequestSegments asks for the time, or moves the clock and adds segments; it never
\* does both, and a task that is to ask for the time keeps it from asking.
LEMMA RequestsWait ==
  ASSUME NEW s, IsStream(s)
  PROVE  Waits(s, RequestSegments(s))
<1>1. CASE s.next = Unknown
  BY <1>1 DEF Waits, RequestSegments, IsStream, Fields
<1>2. CASE s.next # Unknown
  <2>1. PICK next, ends : \/ RequestSegments(s) = s
                          \/ RequestSegments(s) = [s EXCEPT !.next = next,
                                                           !.segments = WithSegments(s, ends)]
    BY <1>2 DEF RequestSegments
  <2> DEFINE with == WithSegments(s, ends)
  <2>2. \A k \in DOMAIN with : IsSegment(with[k])
    <3>1. Adds(s, ends, with)
      BY SegmentsAdded
    <3> HIDE DEF with
    <3>2. QED BY <3>1 DEF Adds
  <2> HIDE DEF with
  <2>3. CASE RequestSegments(s) = s
    BY <2>3 DEF Waits
  <2>4. CASE RequestSegments(s) = [s EXCEPT !.next = next, !.segments = with]
    BY <2>2, <2>4 DEF Waits, IsStream, Fields
  <2>5. QED BY <2>1, <2>3, <2>4 DEF with
<1>3. QED BY <1>1, <1>2

\* The segments that are asked for are the next ones: none is there yet.
LEMMA RequestsKeepLine ==
  ASSUME NEW s, IsStream(s), NEW first, Lined(s, first)
  PROVE  Lined(RequestSegments(s), first)
<1> DEFINE size == Cardinality(DOMAIN s.segments)
           missing == BufferDuration + 1 - size
           free == {i \in 1 .. missing : \A j \in 1 .. i : s.next + j \notin DOMAIN s.segments}
           n == Cardinality(free)
           ends == {s.next + i : i \in free}
           next == s.next + (IF n < missing THEN n + 1 ELSE n)
           with == WithSegments(s, ends)
           d == [s EXCEPT !.next = next, !.segments = with]
<1>1. /\ s.next \in Nat /\ first \in Nat \ {0} /\ first <= s.next + 1
      /\ DOMAIN s.segments = first .. s.next /\ ~ s.waiting
      /\ \A k \in DOMAIN s.segments : s.segments[k].time = k - 1
      /\ \A k \in Ready(s), j \in Pending(s) : k < j
  BY DEF Lined
<1>2. size \in Nat
  <2>1. first \in Int /\ s.next \in Int
    BY <1>1
  <2>2. size = IF first > s.next THEN 0 ELSE s.next - first + 1
    BY <1>1, <2>1, FS_Interval
  <2> HIDE DEF size
  <2>3. QED BY <2>1, <2>2
<1>3. missing \in Int
  BY <1>2 DEF BufferDuration
<1> HIDE DEF size, missing
<1>a. RequestSegments(s) = IF missing <= 0 THEN s ELSE d
  BY <1>1 DEF RequestSegments, Unknown, size, missing
<1> SUFFICES ASSUME ~ missing <= 0
             PROVE  Lined(d, first)
  BY <1>a
<1>4. free = 1 .. missing
  BY <1>1, <1>3
<1>5. n = IF 1 > missing THEN 0 ELSE missing - 1 + 1
  <2>1. 1 \in Int
    OBVIOUS
  <2>2. Cardinality(1 .. missing) = IF 1 > missing THEN 0 ELSE missing - 1 + 1
    BY <1>3, <2>1, FS_Interval
  <2>3. QED BY <1>4, <2>2
<1>6. next = s.next + missing
  BY <1>1, <1>3, <1>5
<1>7. ends = {s.next + i : i \in 1 .. missing}
  BY <1>4
<1>8. \A k \in ends : k \in (s.next + 1) .. next
  BY <1>1, <1>3, <1>6, <1>7
<1>9. \A k \in (s.next + 1) .. next : k \in ends
  <2> SUFFICES ASSUME NEW k \in (s.next + 1) .. next
               PROVE  \E i \in 1 .. missing : k = s.next + i
    BY <1>7
  <2> HIDE DEF next
  <2> DEFINE i == k - s.next
  <2>1. i \in 1 .. missing
    BY <1>1, <1>3, <1>6
  <2>2. k = s.next + i
    BY <1>1, <1>3, <1>6
  <2>3. QED BY <2>1, <2>2
<1>10. d = [s EXCEPT !.next = next, !.segments = with]
  OBVIOUS
<1>11. /\ DOMAIN with = DOMAIN s.segments \cup ends
       /\ \A k \in DOMAIN s.segments : with[k] = s.segments[k]
       /\ \A k \in ends \ DOMAIN s.segments : with[k].time = k - 1 /\ with[k].ready = FALSE
  <2>1. Adds(s, ends, with)
    BY SegmentsAdded
  <2> HIDE DEF ends, with
  <2>2. QED BY <2>1 DEF Adds
<1>12. next \in Nat /\ s.next <= next
  BY <1>1, <1>3, <1>6
<1> HIDE DEF with, next, ends, d
<1>13. /\ DOMAIN d.segments = DOMAIN s.segments \cup ends
       /\ d.next = next /\ d.waiting = s.waiting
       /\ \A k \in DOMAIN s.segments : d.segments[k] = s.segments[k]
       /\ \A k \in ends \ DOMAIN s.segments :
            d.segments[k].time = k - 1 /\ d.segments[k].ready = FALSE
  BY <1>10, <1>11 DEF IsStream, Fields
<1>14. DOMAIN d.segments = first .. next
  BY <1>1, <1>8, <1>9, <1>12, <1>13
<1>15. \A k \in DOMAIN d.segments : d.segments[k].time = k - 1
  BY <1>1, <1>13
<1>16. Ready(d) = Ready(s)
  BY <1>13 DEF Ready
<1>17. Pending(d) \subseteq Pending(s) \cup (s.next + 1) .. next
  BY <1>8, <1>13, <1>16 DEF Pending
<1>18. \A k \in Ready(s), j \in (s.next + 1) .. next : k < j
  BY <1>1, <1>12 DEF Ready
<1>19. \A k \in Ready(d), j \in Pending(d) : k < j
  BY <1>1, <1>16, <1>17, <1>18
<1>20. d.next \in Nat /\ first <= d.next + 1 /\ DOMAIN d.segments = first .. d.next /\ ~ d.waiting
  BY <1>1, <1>12, <1>13, <1>14
<1> QED BY <1>1, <1>15, <1>19, <1>20 DEF Lined, d

LEMMA RequestsReady ==
  ASSUME NEW s, IsStream(s)
  PROVE  Ready(s) \subseteq Ready(RequestSegments(s))
<1>1. CASE s.next = Unknown
  BY <1>1 DEF RequestSegments, IsStream, Fields, Ready
<1>2. CASE s.next # Unknown
  <2>1. PICK next, ends : \/ RequestSegments(s) = s
                          \/ RequestSegments(s) = [s EXCEPT !.next = next,
                                                           !.segments = WithSegments(s, ends)]
    BY <1>2 DEF RequestSegments
  <2>2. Adds(s, ends, WithSegments(s, ends))
    BY SegmentsAdded
  <2>3. QED BY <2>1, <2>2 DEF Adds, IsStream, Fields, Ready
<1>3. QED BY <1>1, <1>2

LEMMA RequestsFit ==
  ASSUME NEW s, IsStream(s), Fits(s)
  PROVE  Fits(RequestSegments(s))
<1>1. CASE s.next = Unknown
  BY <1>1 DEF RequestSegments, IsStream, Fields, Fits
<1>2. CASE s.next # Unknown
  <2> DEFINE keys == DOMAIN s.segments
             missing == BufferDuration + 1 - Cardinality(keys)
             free == {i \in 1 .. missing : \A j \in 1 .. i : s.next + j \notin keys}
             n == Cardinality(free)
             next == s.next + (IF n < missing THEN n + 1 ELSE n)
             ends == {s.next + i : i \in free}
             all == {s.next + i : i \in 1 .. missing}
             f == [i \in 1 .. missing |-> s.next + i]
             with == WithSegments(s, ends)
             d == [s EXCEPT !.next = next, !.segments = with]
  <2>1. RequestSegments(s) = IF missing <= 0 THEN s ELSE d
    BY <1>2 DEF RequestSegments
  <2>2. SUFFICES ASSUME ~ missing <= 0
                 PROVE  Fits(d)
    BY <2>1
  <2>3. IsFiniteSet(keys) /\ Cardinality(keys) \in Nat
    BY FS_CardinalityType DEF Fits
  <2>4. missing \in Nat
    <3> DEFINE size == Cardinality(keys)
    <3>1. size \in Nat
      BY <2>3
    <3> HIDE DEF size
    <3>2. BufferDuration + 1 - size \in Int
      BY <3>1 DEF BufferDuration
    <3>3. QED BY <2>2, <3>1, <3>2 DEF size, BufferDuration
  <2> HIDE DEF missing
  <2>5. IsFiniteSet(1 .. missing) /\ Cardinality(1 .. missing) = missing
    <3>1. 1 \in Int /\ missing \in Int
      BY <2>4
    <3>2. /\ IsFiniteSet(1 .. missing)
          /\ Cardinality(1 .. missing) = IF 1 > missing THEN 0 ELSE missing - 1 + 1
      BY <3>1, FS_Interval
    <3>3. QED BY <2>2, <2>4, <3>2
  <2>6. IsFiniteSet(all) /\ Cardinality(all) <= missing
    <3>1. f \in Surjection(1 .. missing, all)
      BY DEF Surjection
    <3> HIDE DEF f, all
    <3>2. QED BY <2>5, <3>1, FS_Surjection
  <2>7. IsFiniteSet(ends) /\ Cardinality(ends) <= Cardinality(all)
    <3>1. ends \in SUBSET all
      OBVIOUS
    <3> HIDE DEF ends, all
    <3>2. QED BY <2>6, <3>1, FS_Subset
  <2>8. DOMAIN with = keys \cup ends
    <3>1. Adds(s, ends, with)
      BY SegmentsAdded
    <3> HIDE DEF with, ends
    <3>2. QED BY <3>1 DEF Adds
  <2> HIDE DEF with, ends, all, next
  <2>9. DOMAIN d.segments = keys \cup ends
    BY <2>8 DEF IsStream, Fields
  <2>10. /\ IsFiniteSet(keys \cup ends)
         /\ Cardinality(keys \cup ends)
              = Cardinality(keys) + Cardinality(ends) - Cardinality(keys \cap ends)
    BY <2>3, <2>7, FS_Union
  <2>11. /\ Cardinality(keys \cap ends) \in Nat
         /\ Cardinality(ends) \in Nat /\ Cardinality(all) \in Nat
    <3>1. IsFiniteSet(keys \cap ends)
      BY <2>3, FS_Intersection
    <3>2. QED BY <2>6, <2>7, <3>1, FS_CardinalityType
  <2>12. Cardinality(keys \cup ends) <= Cardinality(keys) + missing
    BY <2>3, <2>4, <2>6, <2>7, <2>10, <2>11
  <2>13. Cardinality(keys) + missing = BufferDuration + 1
    BY <2>3 DEF missing, BufferDuration
  <2> HIDE DEF d
  <2>14. QED BY <2>9, <2>10, <2>12, <2>13 DEF Fits
<1>3. QED BY <1>1, <1>2

LEMMA RequestsKeep ==
  ASSUME NEW s, IsStream(s)
  PROVE  Keeps(s, RequestSegments(s))
<1>1. Waits(s, RequestSegments(s))
  BY RequestsWait
<1>2. Empty(s) => Empty(RequestSegments(s))
  BY DEF Empty, RequestSegments, IsStream, Fields
<1>3. \A first : Lined(s, first) => Lined(RequestSegments(s), first)
  BY RequestsKeepLine
<1>4. Ready(s) \subseteq Ready(RequestSegments(s))
  BY RequestsReady
<1>5. Fits(s) => Fits(RequestSegments(s))
  BY RequestsFit
<1>6. QED BY <1>1, <1>2, <1>3, <1>4, <1>5 DEF Keeps

-----------------------------------------------------------------------------
(* check_pending_segments.                                                  *)

\* What the step does to the segments: the ones in "done" become ready.
Completes(s, done, d) ==
  /\ SameClock(s, d)
  /\ DOMAIN d.segments = DOMAIN s.segments
  /\ \A k \in DOMAIN s.segments :
       /\ IsSegment(d.segments[k])
       /\ d.segments[k].time = s.segments[k].time
       /\ d.segments[k].ready = IF k \in done THEN TRUE ELSE s.segments[k].ready

CheckedSegments(s, done) ==
  [k \in DOMAIN s.segments |->
     IF k \in done THEN MakeReady(s.segments[k])
     ELSE IF s.segments[k].ready THEN s.segments[k] ELSE AskParts(s.segments[k])]

LEMMA CheckCompletes ==
  ASSUME NEW s, IsStream(s), NEW done, NEW mapping, NEW requests
  PROVE  Completes(s, done, [s EXCEPT !.mapping = mapping, !.requests = requests,
                                      !.segments = CheckedSegments(s, done)])
<1> DEFINE with == CheckedSegments(s, done)
<1>1. DOMAIN with = DOMAIN s.segments
  BY DEF CheckedSegments
<1>2. ASSUME NEW k \in DOMAIN s.segments
      PROVE  /\ IsSegment(with[k])
             /\ with[k].time = s.segments[k].time
             /\ with[k].ready = IF k \in done THEN TRUE ELSE s.segments[k].ready
  <2>1. IsSegment(s.segments[k])
    BY <1>2 DEF IsStream
  <2>2. /\ IsSegment(AskParts(s.segments[k]))
        /\ AskParts(s.segments[k]).time = s.segments[k].time
        /\ AskParts(s.segments[k]).ready = s.segments[k].ready
    BY <2>1, SameAsk
  <2>3. /\ IsSegment(MakeReady(s.segments[k]))
        /\ MakeReady(s.segments[k]).time = s.segments[k].time
        /\ MakeReady(s.segments[k]).ready = TRUE
    BY <2>1, MadeReady
  <2>4. QED BY <1>2, <2>1, <2>2, <2>3 DEF CheckedSegments
<1>3. QED BY <1>1, <1>2 DEF Completes, SameClock, IsStream, Fields

\* Only a segment with no incomplete one before becomes ready, so that those that are
\* ready stay the first ones.
LEMMA CompletesKeeps ==
  ASSUME NEW s, IsStream(s), NEW d, Completes(s, Completed(s), d)
  PROVE  Keeps(s, d)
<1> DEFINE done == Completed(s)
<1>1. IsStream(d) /\ Waits(s, d)
  BY DEF Completes, SameClock, IsStream, Waits
<1>2. (Empty(s) => Empty(d)) /\ (Fits(s) => Fits(d))
  BY DEF Completes, SameClock, Empty, Fits
<1>3. done \subseteq Pending(s)
  BY DEF Completed
<1>4. Ready(d) = Ready(s) \cup done /\ Pending(d) = Pending(s) \ done
  BY <1>3 DEF Completes, Ready, Pending
<1>5. ASSUME NEW first, Lined(s, first)
      PROVE  Lined(d, first)
  <2>1. DOMAIN s.segments \subseteq Int
    BY <1>5 DEF Lined
  <2>2. ASSUME NEW k \in done, NEW j \in Pending(s) \ done
        PROVE  k < j
    <3>1. PICK i \in Pending(s) : i <= j /\ ~ Complete(s.segments[i])
      BY <2>2 DEF Completed
    <3>2. i \in Int /\ j \in Int /\ k \in Int
      BY <1>3, <2>1, <2>2 DEF Pending
    <3>3. ~ i <= k
      BY <2>2, <3>1 DEF Completed
    <3>4. QED BY <3>1, <3>2, <3>3
  <2>3. \A k \in Ready(d), j \in Pending(d) : k < j
    BY <1>4, <1>5, <2>2 DEF Lined
  <2>4. QED BY <1>5, <2>3 DEF Completes, SameClock, Lined
<1>6. QED BY <1>1, <1>2, <1>4, <1>5 DEF Keeps

LEMMA CheckKeeps ==
  ASSUME NEW s, IsStream(s)
  PROVE  Keeps(s, CheckPending(s))
<1>1. CASE ~ s.running
  <2>1. Same(s, s)
    BY DEF IsStream, Same, SameClock, SameSegments
  <2>2. QED BY <1>1, <2>1, SameKeeps DEF CheckPending
<1>2. CASE s.running
  <2> DEFINE done == Completed(s)
  <2>1. PICK mapping, requests, d :
          /\ d = [s EXCEPT !.mapping = mapping, !.requests = requests,
                           !.segments = CheckedSegments(s, done)]
          /\ CheckPending(s) = IF done = {} THEN d ELSE RequestSegments(d)
    BY <1>2 DEF CheckPending, CheckedSegments
  <2>2. Completes(s, done, d)
    BY <2>1, CheckCompletes
  <2>3. Keeps(s, d)
    BY <2>2, CompletesKeeps
  <2>4. IsStream(d)
    BY <2>3 DEF Keeps, Waits
  <2>5. Keeps(d, RequestSegments(d))
    BY <2>4, RequestsKeep
  <2>6. Keeps(s, RequestSegments(d))
    BY <2>3, <2>5, KeepsThrough
  <2>7. QED BY <2>1, <2>3, <2>6
<1>3. QED BY <1>1, <1>2

-----------------------------------------------------------------------------
(* The time is not asked for by two: while somebody waits for it, or a      *)
(* task is going to ask, nobody else does.                                  *)

OneTask ==
  /\ IsStream(stream)
  /\ stream.waiting => stream.delay = 0
  /\ delays \subseteq {0, stream.delay}

LEMMA TaskStays ==
  ASSUME OneTask, Waits(stream, stream'), UNCHANGED delays
  PROVE  OneTask'
BY DEF OneTask, Waits

LEMMA CommitIs ==
  ASSUME NEW s, IsStream(s), Commit(s)
  PROVE  Keeps(s, stream')
<1>1. stream' = [s EXCEPT !.requests = {}]
  BY DEF Commit
<1>2. Same(s, stream')
  BY <1>1, SameRequests
<1>3. QED BY <1>2, SameKeeps

\* What an answer about a part, the passing of time and the changes of the videos do to
\* the stream, before check_pending_segments.
LEMMA PartArrives ==
  ASSUME NEW s, IsStream(s), NEW k \in DOMAIN s.segments, NEW i, NEW x
  PROVE  Keeps(s, [s EXCEPT !.segments[k].parts[i].data = x,
                            !.segments[k].parts[i].status = "success",
                            !.next = IF @ = Unknown THEN k ELSE @])
<1> DEFINE d == [s EXCEPT !.segments[k].parts[i].data = x,
                          !.segments[k].parts[i].status = "success",
                          !.next = IF @ = Unknown THEN k ELSE @]
<1>1. SameSegments(s, d) /\ IsStream(d) /\ d.delay = s.delay /\ d.waiting = s.waiting
  BY DEF IsStream, IsSegment, Fields, SameSegments
<1>2. d.next = IF s.next = Unknown THEN k ELSE s.next
  BY DEF IsStream, Fields
<1>3. ~ Empty(s)
  BY DEF Empty
<1> HIDE DEF d
<1>4. Ready(d) = Ready(s) /\ Pending(d) = Pending(s)
  BY <1>1 DEF SameSegments, Ready, Pending
<1>5. ASSUME NEW first, Lined(s, first)
      PROVE  Lined(d, first)
  <2>1. d.next = s.next
    BY <1>2, <1>5 DEF Lined, Unknown
  <2>2. QED BY <1>1, <1>4, <1>5, <2>1 DEF SameSegments, Lined
<1>6. Waits(s, d)
  BY <1>1 DEF Waits
<1>7. Keeps(s, d)
  <2>1. Fits(s) => Fits(d)
    BY <1>1 DEF SameSegments, Fits
  <2>2. QED BY <1>3, <1>4, <1>5, <1>6, <2>1 DEF Keeps
<1>8. QED BY <1>7 DEF d

LEMMA PartRefused ==
  ASSUME NEW s, IsStream(s), NEW k, NEW i
  PROVE  Same(s, [s EXCEPT !.segments[k].parts[i].status = "notReady",
                           !.segments[k].parts[i].due = FALSE])
BY DEF IsStream, IsSegment, Fields, Same, SameClock, SameSegments

LEMMA PartIsDue ==
  ASSUME NEW s, IsStream(s), NEW k, NEW i
  PROVE  Same(s, [s EXCEPT !.segments[k].parts[i].due = TRUE])
BY DEF IsStream, IsSegment, Fields, Same, SameClock, SameSegments

LEMMA VideoArrives ==
  ASSUME NEW s, IsStream(s), NEW k, NEW i, NEW x
  PROVE  Same(s, [s EXCEPT !.requests = {}, !.segments[k].videos[i].content = x,
                           !.segments[k].videos[i].update = <<>>])
BY DEF IsStream, IsSegment, Fields, Same, SameClock, SameSegments

LEMMA SameChannels ==
  ASSUME NEW s, IsStream(s), NEW channels
  PROVE  Same(s, [s EXCEPT !.channels = channels])
BY DEF IsStream, IsSegment, Fields, Same, SameClock, SameSegments

\* The stream s is checked, or asks for segments, and what it asks goes out.
LEMMA CheckCommits ==
  ASSUME NEW s, IsStream(s), stream' = [CheckPending(s) EXCEPT !.requests = {}]
  PROVE  Keeps(s, stream')
<1>1. Keeps(s, CheckPending(s))
  BY CheckKeeps
<1>2. IsStream(CheckPending(s))
  BY <1>1 DEF Keeps, Waits
<1>3. Same(CheckPending(s), stream')
  BY <1>2, SameRequests
<1>4. Keeps(CheckPending(s), stream')
  BY <1>2, <1>3, SameKeeps
<1>5. QED BY <1>1, <1>4, KeepsThrough

LEMMA RequestCommits ==
  ASSUME NEW s, IsStream(s), Commit(RequestSegments(s))
  PROVE  Keeps(s, stream')
<1>1. Keeps(s, RequestSegments(s))
  BY RequestsKeep
<1>2. IsStream(RequestSegments(s))
  BY <1>1 DEF Keeps, Waits
<1>3. Keeps(RequestSegments(s), stream')
  BY <1>2, CommitIs
<1>4. QED BY <1>1, <1>3, KeepsThrough

\* The steps that leave the delayed tasks and the history of the playback alone, and
\* that neither restart the stream nor erase a segment.
Answered(a) ==
  \/ PartIgnored(a)
  \/ \E knows \in SUBSET (IF a.of = "audio" THEN Endpoint ELSE {}) : PartSuccess(a, knows)
  \/ UpdateSuccess(a)
  \/ PartNotReady(a)

Ordinary ==
  \/ \E a \in asked : Answered(a)
  \/ \E k \in Pending(stream) : \E i \in 1 .. Len(Order) + 1 : PartDue(k, i)
  \/ Changes
  \/ Close
  \/ \E m \in Threads : PlayFrame(m)
  \/ \E m \in Threads : CheckSegments(m)

LEMMA Unchanged ==
  ASSUME IsStream(stream), UNCHANGED stream
  PROVE  Keeps(stream, stream')
<1>1. Same(stream, stream')
  BY DEF IsStream, Same, SameClock, SameSegments
<1>2. QED BY <1>1, SameKeeps

LEMMA AnswerKeeps ==
  ASSUME IsStream(stream), NEW a \in asked, Answered(a)
  PROVE  Keeps(stream, stream') /\ UNCHANGED delays
<1>1. CASE PartIgnored(a)
  BY <1>1, Unchanged DEF PartIgnored
<1>2. ASSUME NEW knows, PartSuccess(a, knows)
      PROVE  Keeps(stream, stream') /\ UNCHANGED delays
  <2> DEFINE content == [of |-> a.of, quality |-> a.quality, knows |-> knows]
             arrived == [stream EXCEPT !.segments[a.id].parts[a.part].data = <<content>>,
                                       !.segments[a.id].parts[a.part].status = "success",
                                       !.next = IF @ = Unknown THEN a.id ELSE @]
  <2>1. a.id \in DOMAIN stream.segments
    BY <1>2 DEF PartSuccess, Found
  <2>2. Keeps(stream, arrived)
    BY <2>1, PartArrives
  <2>3. IsStream(arrived)
    BY <2>2 DEF Keeps, Waits
  <2>4. stream' = [CheckPending(arrived) EXCEPT !.requests = {}] /\ UNCHANGED delays
    BY <1>2 DEF PartSuccess
  <2> HIDE DEF arrived
  <2>5. Keeps(arrived, stream')
    BY <2>3, <2>4, CheckCommits
  <2>6. QED BY <2>2, <2>4, <2>5, KeepsThrough
<1>3. CASE UpdateSuccess(a)
  <2> DEFINE content == [of |-> a.of, quality |-> a.quality, knows |-> {}]
             s == CheckPending(stream)
  <2>1. Keeps(stream, s)
    BY CheckKeeps
  <2>2. IsStream(s)
    BY <2>1 DEF Keeps, Waits
  <2>3. /\ stream' = [s EXCEPT !.requests = {},
                               !.segments[a.id].videos[a.part].content = content,
                               !.segments[a.id].videos[a.part].update = <<>>]
        /\ UNCHANGED delays
    BY <1>3 DEF UpdateSuccess
  <2> HIDE DEF s, content
  <2>4. Same(s, stream')
    BY <2>2, <2>3, VideoArrives
  <2>5. Keeps(s, stream')
    BY <2>2, <2>4, SameKeeps
  <2>6. QED BY <2>1, <2>3, <2>5, KeepsThrough
<1>4. CASE PartNotReady(a)
  <2> DEFINE refused == IF a.update THEN stream
                        ELSE [stream EXCEPT !.segments[a.id].parts[a.part].status = "notReady",
                                            !.segments[a.id].parts[a.part].due = FALSE]
  <2>1. Same(stream, refused)
    <3> DEFINE d == [stream EXCEPT !.segments[a.id].parts[a.part].status = "notReady",
                                   !.segments[a.id].parts[a.part].due = FALSE]
    <3>1. Same(stream, d)
      BY PartRefused
    <3>2. Same(stream, stream)
      BY DEF IsStream, Same, SameClock, SameSegments
    <3> HIDE DEF d
    <3>3. CASE a.update
      BY <3>2, <3>3
    <3>4. CASE ~ a.update
      BY <3>1, <3>4 DEF d
    <3>5. QED BY <3>3, <3>4
  <2>2. Keeps(stream, refused)
    BY <2>1, SameKeeps
  <2>3. IsStream(refused)
    BY <2>2 DEF Keeps, Waits
  <2>4. stream' = [CheckPending(refused) EXCEPT !.requests = {}] /\ UNCHANGED delays
    BY <1>4 DEF PartNotReady
  <2> HIDE DEF refused
  <2>5. Keeps(refused, stream')
    BY <2>3, <2>4, CheckCommits
  <2>6. QED BY <2>2, <2>4, <2>5, KeepsThrough
<1>5. QED BY <1>1, <1>2, <1>3, <1>4 DEF Answered

LEMMA ChangeKeeps ==
  ASSUME IsStream(stream), Changes
  PROVE  Keeps(stream, stream') /\ UNCHANGED delays
<1>1. PICK channels : /\ Commit(CheckQuality([stream EXCEPT !.channels = channels]))
                      /\ UNCHANGED delays
  BY DEF Changes, AddIncomingVideo, RemoveIncomingVideo
<1> DEFINE s == [stream EXCEPT !.channels = channels]
<1>2. Keeps(stream, s)
  BY SameChannels, SameKeeps
<1>3. IsStream(s)
  BY <1>2 DEF Keeps, Waits
<1> HIDE DEF s
<1>4. Keeps(s, CheckQuality(s))
  BY <1>3, SameQuality, SameKeeps
<1>5. IsStream(CheckQuality(s))
  BY <1>4 DEF Keeps, Waits
<1>6. Keeps(CheckQuality(s), stream')
  BY <1>1, <1>5, CommitIs DEF s
<1>7. QED BY <1>1, <1>2, <1>4, <1>6, KeepsThrough

LEMMA OrdinaryKeeps ==
  ASSUME IsStream(stream), Ordinary
  PROVE  Keeps(stream, stream') /\ UNCHANGED delays
<1>1. CASE \E a \in asked : Answered(a)
  BY <1>1, AnswerKeeps
<1>2. ASSUME NEW k, NEW i, PartDue(k, i)
      PROVE  Keeps(stream, stream') /\ UNCHANGED delays
  <2> DEFINE s == [stream EXCEPT !.segments[k].parts[i].due = TRUE]
  <2>1. Keeps(stream, s)
    BY PartIsDue, SameKeeps
  <2>2. IsStream(s)
    BY <2>1 DEF Keeps, Waits
  <2>3. stream' = [CheckPending(s) EXCEPT !.requests = {}] /\ UNCHANGED delays
    BY <1>2 DEF PartDue, Commit
  <2> HIDE DEF s
  <2>4. Keeps(s, stream')
    BY <2>2, <2>3, CheckCommits
  <2>5. QED BY <2>1, <2>3, <2>4, KeepsThrough
<1>3. CASE Changes
  BY <1>3, ChangeKeeps
<1>4. CASE Close
  <2>1. Same(stream, stream')
    BY <1>4 DEF Close, IsStream, IsSegment, Fields, Same, SameClock, SameSegments
  <2>2. QED BY <1>4, <2>1, SameKeeps DEF Close
<1>5. ASSUME NEW m, PlayFrame(m)
      PROVE  Keeps(stream, stream') /\ UNCHANGED delays
  <2>1. Same(stream, stream')
    BY <1>5 DEF PlayFrame, IsStream, IsSegment, Fields, Same, SameClock, SameSegments
  <2>2. QED BY <1>5, <2>1, SameKeeps DEF PlayFrame
<1>6. ASSUME NEW m, CheckSegments(m)
      PROVE  Keeps(stream, stream') /\ UNCHANGED delays
  <2>1. UNCHANGED delays
    BY <1>6 DEF CheckSegments
  <2>2. CASE UNCHANGED stream
    BY <2>1, <2>2, Unchanged
  <2>3. CASE Commit(CheckPending(RequestSegments(stream)))
    <3>1. Keeps(stream, RequestSegments(stream))
      BY RequestsKeep
    <3>2. IsStream(RequestSegments(stream))
      BY <3>1 DEF Keeps, Waits
    <3>3. Keeps(RequestSegments(stream), stream')
      BY <2>3, <3>2, CheckCommits DEF Commit
    <3>4. QED BY <2>1, <3>1, <3>3, KeepsThrough
  <2>4. QED BY <1>6, <2>2, <2>3 DEF CheckSegments
<1>7. QED BY <1>1, <1>2, <1>3, <1>4, <1>5, <1>6 DEF Ordinary

LEMMA TimeAsked ==
  ASSUME OneTask, NEW t, SendTimestamp(t)
  PROVE  OneTask'
<1>1. stream.delay = 0 /\ delays \subseteq {0} /\ IsStream(stream)
  BY DEF SendTimestamp, OneTask
<1>2. CASE t <= BufferDuration
  <2>1. /\ stream' = [stream EXCEPT !.waiting = FALSE, !.delay = stream.nextDelay,
                                    !.nextDelay = @ + 1]
        /\ delays' = delays \cup {stream.nextDelay}
    BY <1>2 DEF SendTimestamp
  <2>2. IsStream(stream') /\ stream'.waiting = FALSE /\ stream'.delay = stream.nextDelay
    BY <1>1, <2>1 DEF IsStream, Fields
  <2>3. QED BY <1>1, <2>1, <2>2 DEF OneTask
<1>3. CASE ~ t <= BufferDuration
  <2> DEFINE s == [stream EXCEPT !.waiting = FALSE, !.next = t - BufferDuration]
  <2>1. Commit(RequestSegments(s)) /\ UNCHANGED delays
    BY <1>3 DEF SendTimestamp
  <2>2. IsStream(s) /\ Waits(stream, s)
    BY <1>1 DEF IsStream, Fields, Waits
  <2> HIDE DEF s
  <2>3. Waits(s, stream')
    BY <2>1, <2>2, RequestCommits DEF Keeps
  <2>4. QED BY <2>1, <2>2, <2>3, WaitsThrough, TaskStays
<1>4. QED BY <1>2, <1>3

LEMMA TaskAsks ==
  ASSUME OneTask, NEW id, AskAgain(id)
  PROVE  OneTask'
<1>1. CASE stream.delay = id
  <2> DEFINE s == [stream EXCEPT !.delay = 0]
  <2>1. Commit(RequestSegments(s)) /\ delays' \subseteq {0}
    BY <1>1 DEF AskAgain, OneTask
  <2>2. IsStream(s) /\ s.delay = 0
    BY DEF OneTask, IsStream, Fields
  <2> HIDE DEF s
  <2>3. Waits(s, stream')
    BY <2>1, <2>2, RequestCommits DEF Keeps
  <2>4. QED BY <2>1, <2>2, <2>3 DEF OneTask, Waits
<1>2. CASE stream.delay # id
  BY <1>2 DEF AskAgain, OneTask
<1>3. QED BY <1>1, <1>2

LEMMA ResyncWaits ==
  ASSUME OneTask, NEW a, NEW t, PartResync(a, t)
  PROVE  OneTask'
<1> DEFINE n == IF stream.rtmp THEN Unknown ELSE t
           moved == [stream EXCEPT !.next = n]
           restarted == DiscardPending(moved)
           requested == RequestSegments(restarted)
<1>1. IsStream(stream)
  BY DEF OneTask
<1>2. stream' = [CheckPending(requested) EXCEPT !.requests = {}] /\ UNCHANGED delays
  BY DEF PartResync
<1> HIDE DEF n
<1>3. IsStream(moved) /\ Waits(stream, moved)
  BY <1>1 DEF IsStream, Fields, Waits
<1> HIDE DEF moved
<1>4. IsStream(restarted) /\ SameClock(moved, restarted)
  BY <1>3, Discarded
<1>5. Waits(moved, restarted)
  BY <1>4 DEF SameClock, Waits
<1> HIDE DEF restarted
<1>6. Waits(restarted, requested) /\ IsStream(requested)
  BY <1>4, RequestsWait DEF Waits
<1> HIDE DEF requested
<1>7. Waits(requested, stream')
  BY <1>2, <1>6, CheckCommits DEF Keeps
<1>8. Waits(stream, stream')
  BY <1>3, <1>5, <1>6, <1>7, WaitsThrough
<1>9. QED BY <1>2, <1>8, TaskStays

\* A thread that asks for a segment erases one, or says how many have to be ready first.
LEMMA SegmentWaits ==
  ASSUME OneTask, NEW m, GetSegment(m)
  PROVE  OneTask'
<1>1. PICK first : LET rest == [stream EXCEPT !.segments = Restrict(@, DOMAIN @ \ {first})]
                   IN  \/ \E wait : stream' = [rest EXCEPT !.wait = wait]
                       \/ stream' = rest
  BY DEF GetSegment, NextSegment
<1> DEFINE rest == [stream EXCEPT !.segments = Restrict(@, DOMAIN @ \ {first})]
<1>2. IsStream(rest) /\ Waits(stream, rest)
  BY DEF OneTask, IsStream, Fields, Waits, Restrict
<1>3. \/ \E wait : stream' = [rest EXCEPT !.wait = wait]
      \/ stream' = rest
  BY <1>1
<1> HIDE DEF rest
<1>4. Waits(rest, stream')
  BY <1>2, <1>3 DEF IsStream, Fields, Waits
<1>5. UNCHANGED delays
  BY DEF GetSegment
<1>6. QED BY <1>2, <1>4, <1>5, WaitsThrough, TaskStays

\* The steps, told apart by what they do to the stream.
LEMMA Steps ==
  ASSUME Next
  PROVE  \/ Ordinary
         \/ \E t \in Times : SendTimestamp(t)
         \/ \E id \in delays : AskAgain(id)
         \/ \E a \in asked : \E t \in Times \ {0} : PartResync(a, t)
         \/ \E m \in Threads : GetSegment(m)
BY DEF Next, Answer, Answered, AnswerTime, Later, Ordinary, Play

LEMMA OneTaskStep ==
  ASSUME OneTask, [Next]_vars
  PROVE  OneTask'
<1>1. CASE UNCHANGED vars
  BY <1>1 DEF OneTask, vars
<1>2. CASE Ordinary
  <2>1. Keeps(stream, stream') /\ UNCHANGED delays
    BY <1>2, OrdinaryKeeps DEF OneTask
  <2>2. QED BY <2>1, TaskStays DEF Keeps
<1>3. CASE \E t \in Times : SendTimestamp(t)
  BY <1>3, TimeAsked
<1>4. CASE \E id \in delays : AskAgain(id)
  BY <1>4, TaskAsks
<1>5. CASE \E a \in asked : \E t \in Times \ {0} : PartResync(a, t)
  BY <1>5, ResyncWaits
<1>6. CASE \E m \in Threads : GetSegment(m)
  BY <1>6, SegmentWaits
<1>7. QED BY <1>1, <1>2, <1>3, <1>4, <1>5, <1>6, Steps

\* After a time that cannot be used (send_broadcast_timestamp), neither thread asks for
\* another one: only the delayed task does.
THEOREM AskedOnce == Spec => []TimeNotPressed
<1>1. Init => OneTask
  BY DEF Init, OneTask, NewStream, IsStream, Fields
<1>2. OneTask /\ [Next]_vars => OneTask'
  BY OneTaskStep
<1>3. OneTask => TimeNotPressed
  BY DEF OneTask, TimeNotPressed
<1>4. QED BY <1>1, <1>2, <1>3, PTL DEF Spec

-----------------------------------------------------------------------------
(* The buffer is bounded.                                                   *)

LEMMA FewerFit ==
  ASSUME NEW s, Fits(s), NEW d, DOMAIN d.segments \subseteq DOMAIN s.segments
  PROVE  Fits(d)
<1>1. IsFiniteSet(DOMAIN d.segments)
  BY FS_Subset DEF Fits
<1>2. Cardinality(DOMAIN d.segments) <= Cardinality(DOMAIN s.segments)
  BY FS_Subset DEF Fits
<1>3. Cardinality(DOMAIN d.segments) \in Nat /\ Cardinality(DOMAIN s.segments) \in Nat
  BY <1>1, FS_CardinalityType DEF Fits
<1>4. QED BY <1>1, <1>2, <1>3 DEF Fits, BufferDuration

LEMMA FitsStep ==
  ASSUME OneTask, Fits(stream), [Next]_vars
  PROVE  Fits(stream')
<1>1. IsStream(stream)
  BY DEF OneTask
<1>2. CASE UNCHANGED vars
  BY <1>2 DEF vars
<1>3. CASE Ordinary
  BY <1>1, <1>3, OrdinaryKeeps DEF Keeps
<1>4. ASSUME NEW t, SendTimestamp(t)
      PROVE  Fits(stream')
  <2>1. CASE t <= BufferDuration
    <3>1. stream'.segments = stream.segments
      BY <1>1, <1>4, <2>1 DEF SendTimestamp, IsStream, Fields
    <3>2. QED BY <3>1, FewerFit
  <2>2. CASE ~ t <= BufferDuration
    <3> DEFINE s == [stream EXCEPT !.waiting = FALSE, !.next = t - BufferDuration]
    <3>1. Commit(RequestSegments(s))
      BY <1>4, <2>2 DEF SendTimestamp
    <3>2. IsStream(s) /\ s.segments = stream.segments
      BY <1>1 DEF IsStream, Fields
    <3> HIDE DEF s
    <3>3. Fits(s)
      BY <3>2, FewerFit
    <3>4. QED BY <3>1, <3>2, <3>3, RequestCommits DEF Keeps
  <2>3. QED BY <2>1, <2>2
<1>5. ASSUME NEW id, AskAgain(id)
      PROVE  Fits(stream')
  <2>1. CASE stream.delay = id
    <3> DEFINE s == [stream EXCEPT !.delay = 0]
    <3>1. Commit(RequestSegments(s))
      BY <1>5, <2>1 DEF AskAgain
    <3>2. IsStream(s) /\ s.segments = stream.segments
      BY <1>1 DEF IsStream, Fields
    <3> HIDE DEF s
    <3>3. Fits(s)
      BY <3>2, FewerFit
    <3>4. QED BY <3>1, <3>2, <3>3, RequestCommits DEF Keeps
  <2>2. CASE stream.delay # id
    BY <1>5, <2>2 DEF AskAgain
  <2>3. QED BY <2>1, <2>2
<1>6. ASSUME NEW a, NEW t, PartResync(a, t)
      PROVE  Fits(stream')
  <2> DEFINE n == IF stream.rtmp THEN Unknown ELSE t
             moved == [stream EXCEPT !.next = n]
             restarted == DiscardPending(moved)
             requested == RequestSegments(restarted)
  <2>1. stream' = [CheckPending(requested) EXCEPT !.requests = {}]
    BY <1>6 DEF PartResync
  <2> HIDE DEF n
  <2>2. IsStream(moved) /\ moved.segments = stream.segments
    BY <1>1 DEF IsStream, Fields
  <2> HIDE DEF moved
  <2>3. IsStream(restarted)
    BY <2>2, Discarded
  <2>4. DOMAIN restarted.segments \subseteq DOMAIN moved.segments
    BY <2>2 DEF DiscardPending, Restrict, Ready, IsStream, Fields
  <2> HIDE DEF restarted
  <2>5. Fits(restarted)
    BY <2>2, <2>4, FewerFit
  <2>6. IsStream(requested) /\ Fits(requested)
    BY <2>3, <2>5, RequestsKeep DEF Keeps, Waits
  <2> HIDE DEF requested
  <2>7. QED BY <2>1, <2>6, CheckCommits DEF Keeps
<1>7. ASSUME NEW m, GetSegment(m)
      PROVE  Fits(stream')
  <2>1. PICK first : LET rest == [stream EXCEPT !.segments = Restrict(@, DOMAIN @ \ {first})]
                     IN  \/ \E wait : stream' = [rest EXCEPT !.wait = wait]
                         \/ stream' = rest
    BY <1>7 DEF GetSegment, NextSegment
  <2>2. DOMAIN stream'.segments \subseteq DOMAIN stream.segments
    BY <1>1, <2>1 DEF IsStream, Fields, Restrict
  <2>3. QED BY <2>2, FewerFit
<1>8. QED BY <1>2, <1>3, <1>4, <1>5, <1>6, <1>7, Steps

\* However the application answers, also if it asks for a resync, and however slow the
\* threads play, request_segments_if_needed never makes more segments than the buffer is
\* long, and one.
THEOREM BufferIsBounded == Spec => []Fits(stream)
<1>1. Init => OneTask
  BY DEF Init, OneTask, NewStream, IsStream, Fields
<1>2. Init => Fits(stream)
  BY FS_EmptySet DEF Init, NewStream, Fits, BufferDuration
<1>3. OneTask /\ Fits(stream) /\ [Next]_vars => OneTask' /\ Fits(stream)'
  <2>1. Fits(stream') => Fits(stream)'
    BY DEF Fits
  <2>2. QED BY <2>1, OneTaskStep, FitsStep
<1>4. QED BY <1>1, <1>2, <1>3, PTL DEF Spec

-----------------------------------------------------------------------------
(* The segment a thread plays is erased under its last frame only.          *)

IsThread(t) == DOMAIN t = {"step", "segment", "frame", "freed"}

Consuming ==
  /\ buffer.consumed \in [Threads -> 0 .. Frames]
  /\ DOMAIN buffer = {"last", "consumed", "checks"}

\* A thread that has a segment plays the frame it counted last, unless the segment is
\* over: then it plays the last one.
Held ==
  /\ DOMAIN threads = Threads
  /\ \A m \in Threads :
       /\ IsThread(threads[m])
       /\ threads[m].segment # 0 => threads[m].frame \in {buffer.consumed[m], Frames}
       /\ threads[m].freed => threads[m].segment # 0 /\ threads[m].frame = Frames

HeldInv == Consuming /\ Held

\* A thread that lets go of its segment.
LEMMA RestHeld ==
  ASSUME HeldInv, NEW m \in Threads, NEW step,
         threads' = [threads EXCEPT ![m] = [Resting EXCEPT !.step = step]],
         buffer'.consumed = buffer.consumed, DOMAIN buffer' = DOMAIN buffer
  PROVE  HeldInv'
<1> DEFINE rest == [Resting EXCEPT !.step = step]
<1>1. IsThread(rest) /\ rest.segment = 0 /\ rest.freed = FALSE
  BY DEF Resting, IsThread
<1> HIDE DEF rest
<1>2. DOMAIN threads' = Threads /\ threads'[m] = rest
  BY DEF HeldInv, Held, rest
<1>3. \A t \in Threads \ {m} : threads'[t] = threads[t]
  BY DEF HeldInv, Held
<1>4. QED BY <1>1, <1>2, <1>3 DEF HeldInv, Held, Consuming

\* A thread that asks for a segment gets "id" and perhaps plays a frame of it, while
\* "first" is erased.
Takes(m, consumed, first, id, plays) ==
  /\ plays \in BOOLEAN
  /\ first # 0 => Spent
  /\ plays => id # 0 /\ consumed[m] < Frames
  /\ buffer' = [buffer EXCEPT !.last = id,
       !.consumed = IF plays THEN [consumed EXCEPT ![m] = @ + 1] ELSE consumed]
  /\ threads' = [t \in Threads |->
       IF t = m
       THEN IF plays
            THEN [step |-> "playing", segment |-> id, frame |-> consumed[m] + 1,
                  freed |-> FALSE]
            ELSE [Resting EXCEPT !.step = "checking"]
       ELSE [threads[t] EXCEPT !.freed = @ \/ (first # 0 /\ threads[t].segment = first)]]

LEMMA SegmentHeld ==
  ASSUME HeldInv, NEW m \in Threads, GetSegment(m)
  PROVE  HeldInv'
<1> DEFINE consumed == IF Spent THEN [t \in Threads |-> 0] ELSE buffer.consumed
<1>1. PICK first, id, plays : Takes(m, consumed, first, id, plays)
  <2> DEFINE first == IF Spent /\ DOMAIN stream.segments # {}
                      THEN Min(DOMAIN stream.segments) ELSE 0
             rest == [stream EXCEPT !.segments = Restrict(@, DOMAIN @ \ {first})]
             last == IF Spent THEN 0 ELSE buffer.last
             look == last = 0 \/ \A t \in Threads : consumed[t] = 0
             found == IF look THEN NextSegment(rest) ELSE [s |-> rest, id |-> last]
             plays == found.id # 0 /\ consumed[m] < Frames
  <2>1. Takes(m, consumed, first, found.id, plays)
    BY DEF Takes, GetSegment
  <2> HIDE DEF first, found, plays, consumed
  <2>2. QED BY <2>1
<1>2. consumed \in [Threads -> 0 .. Frames]
  BY StreamAssumption DEF HeldInv, Consuming
<1>3. Spent => \A t \in Threads : buffer.consumed[t] = Frames
  BY DEF Spent
<1> HIDE DEF consumed
<1>4. buffer'.consumed = (IF plays THEN [consumed EXCEPT ![m] = @ + 1] ELSE consumed)
  BY <1>1 DEF Takes, HeldInv, Consuming
<1>5. buffer'.consumed \in [Threads -> 0 .. Frames]
  BY <1>1, <1>2, <1>4, StreamAssumption DEF Takes
<1>6. DOMAIN buffer' = {"last", "consumed", "checks"}
  BY <1>1 DEF Takes, HeldInv, Consuming
<1>7. \A t \in Threads \ {m} : buffer'.consumed[t] = consumed[t]
  BY <1>1, <1>2, <1>4 DEF Takes
<1>8. /\ IsThread(threads'[m]) /\ threads'[m].freed = FALSE
      /\ threads'[m].segment # 0 => threads'[m].frame = buffer'.consumed[m]
  BY <1>1, <1>2, <1>4 DEF Takes, Resting, IsThread
<1>9. ASSUME NEW t \in Threads \ {m}
      PROVE  /\ IsThread(threads'[t])
             /\ threads'[t].segment # 0 => threads'[t].frame \in {buffer'.consumed[t], Frames}
             /\ threads'[t].freed => threads'[t].segment # 0 /\ threads'[t].frame = Frames
  <2> DEFINE old == threads[t]
             new == threads'[t]
  <2>1. /\ IsThread(old)
        /\ old.segment # 0 => old.frame \in {buffer.consumed[t], Frames}
        /\ old.freed => old.segment # 0 /\ old.frame = Frames
    BY <1>9 DEF HeldInv, Held
  <2>2. new = [old EXCEPT !.freed = @ \/ (first # 0 /\ old.segment = first)]
    BY <1>1, <1>9 DEF Takes
  <2> HIDE DEF old, new
  <2>3. /\ IsThread(new) /\ new.segment = old.segment /\ new.frame = old.frame
        /\ new.freed => old.freed \/ (first # 0 /\ old.segment = first)
    BY <2>1, <2>2 DEF IsThread
  <2>4. CASE Spent
    BY <1>3, <1>9, <2>1, <2>3, <2>4 DEF new
  <2>5. CASE ~ Spent
    BY <1>1, <1>7, <1>9, <2>1, <2>3, <2>5 DEF Takes, new, consumed
  <2>6. QED BY <2>4, <2>5
<1>10. DOMAIN threads' = Threads
  BY <1>1 DEF Takes
<1>11. QED BY <1>5, <1>6, <1>8, <1>9, <1>10 DEF HeldInv, Held, Consuming

LEMMA HeldStep ==
  ASSUME HeldInv, [Next]_vars
  PROVE  HeldInv'
<1>1. CASE UNCHANGED <<buffer, threads>>
  BY <1>1 DEF HeldInv, Held, Consuming
<1>2. ASSUME NEW m \in Threads, GetSegment(m)
      PROVE  HeldInv'
  BY <1>2, SegmentHeld
<1>3. ASSUME NEW m \in Threads, PlayFrame(m)
      PROVE  HeldInv'
  BY <1>3, RestHeld DEF PlayFrame
<1>4. ASSUME NEW m \in Threads, CheckSegments(m)
      PROVE  HeldInv'
  <2>1. threads' = [threads EXCEPT ![m] = [Resting EXCEPT !.step = "idle"]]
    BY <1>4 DEF CheckSegments, Resting
  <2>2. buffer'.consumed = buffer.consumed /\ DOMAIN buffer' = DOMAIN buffer
    BY <1>4 DEF CheckSegments, HeldInv, Consuming
  <2>3. QED BY <2>1, <2>2, RestHeld
<1>5. CASE Close
  BY <1>1, <1>5 DEF Close
<1>6. CASE Answer \/ AnswerTime
  <2>1. ASSUME NEW a, Answered(a)
        PROVE  UNCHANGED <<buffer, threads>>
    BY <2>1 DEF Answered, PartIgnored, PartSuccess, UpdateSuccess, PartNotReady
  <2>2. ASSUME NEW a, NEW t, PartResync(a, t)
        PROVE  UNCHANGED <<buffer, threads>>
    BY <2>2 DEF PartResync
  <2>3. ASSUME NEW t, SendTimestamp(t)
        PROVE  UNCHANGED <<buffer, threads>>
    BY <2>3 DEF SendTimestamp
  <2>4. QED BY <1>1, <1>6, <2>1, <2>2, <2>3 DEF Answer, Answered, AnswerTime
<1>7. CASE Later \/ Changes
  <2>1. UNCHANGED <<buffer, threads>>
    BY <1>7 DEF Later, Changes, AskAgain, PartDue, AddIncomingVideo, RemoveIncomingVideo
  <2>2. QED BY <1>1, <2>1
<1>8. QED BY <1>1, <1>2, <1>3, <1>4, <1>5, <1>6, <1>7 DEF Next, Play, vars

\* A segment is erased while a thread plays from it (get_segment_sync of the other
\* thread), but only when that thread is at its last frame.
THEOREM ErasedAtTheEnd == Spec => []FreedOnlyAtTheEnd
<1>1. Init => HeldInv
  BY StreamAssumption DEF Init, HeldInv, Held, Consuming, NewBuffer, Resting, IsThread
<1>2. HeldInv /\ [Next]_vars => HeldInv'
  BY HeldStep
<1>3. HeldInv => FreedOnlyAtTheEnd
  BY DEF HeldInv, Held, FreedOnlyAtTheEnd
<1>4. QED BY <1>1, <1>2, <1>3, PTL DEF Spec

-----------------------------------------------------------------------------
(* The order of the playback.                                               *)

IsHistory ==
  /\ DOMAIN history = {"played", "time", "refusals", "resyncs", "changes"}
  /\ history.played \in Nat /\ history.resyncs \in Nat

\* The buffer has a segment once a frame of it is counted.
Begun == buffer.last = 0 <=> \A m \in Threads : buffer.consumed[m] = 0

\* The segment that is played is the first one, and the one before it, or the one that
\* was played last, is where the history stops.
Played(first) ==
  /\ buffer.last # 0 => buffer.last = first /\ first \in Ready(stream) /\ history.played > 0
  /\ history.played > 0 =>
       /\ history.time \in Nat
       /\ first = history.time + (IF buffer.last = 0 THEN 2 ELSE 1)

InOrder ==
  /\ Begun
  /\ \/ Empty(stream) /\ buffer.last = 0 /\ history.played = 0
     \/ \E first : Lined(stream, first) /\ Played(first)

OrderInv ==
  /\ OneTask /\ Consuming /\ IsHistory
  /\ history.resyncs = 0 => InOrder

\* The buffer and what is said of the playback stay as they are.
Silent ==
  /\ buffer'.last = buffer.last /\ buffer'.consumed = buffer.consumed
  /\ history'.played = history.played /\ history'.time = history.time
  /\ history'.resyncs = history.resyncs

LEMMA SilentKeeps ==
  ASSUME Silent, InOrder, Keeps(stream, stream')
  PROVE  InOrder'
<1>1. Begun'
  BY DEF Silent, InOrder, Begun
<1>2. CASE Empty(stream) /\ buffer.last = 0 /\ history.played = 0
  <2>1. Empty(stream')
    BY <1>2 DEF Keeps
  <2>2. Empty(stream)' /\ buffer'.last = 0 /\ history'.played = 0
    BY <1>2, <2>1 DEF Silent, Empty
  <2>3. QED BY <1>1, <2>2 DEF InOrder
<1>3. ASSUME NEW first, Lined(stream, first), Played(first)
      PROVE  InOrder'
  <2>1. Lined(stream', first) /\ Ready(stream) \subseteq Ready(stream')
    BY <1>3 DEF Keeps
  <2>2. Played(first)'
    BY <1>3, <2>1 DEF Silent, Played, Ready
  <2>3. Lined(stream, first)'
    BY <2>1 DEF Lined, Ready, Pending
  <2>4. QED BY <1>1, <2>2, <2>3 DEF InOrder
<1>4. QED BY <1>2, <1>3 DEF InOrder

LEMMA OrdinarySilent ==
  ASSUME IsHistory, Consuming, Ordinary
  PROVE  Silent
<1>1. ASSUME NEW a, Answered(a)
      PROVE  Silent
  BY <1>1 DEF Answered, PartIgnored, PartSuccess, UpdateSuccess, PartNotReady, Silent, IsHistory
<1>2. ASSUME NEW k, NEW i, PartDue(k, i)
      PROVE  Silent
  BY <1>2 DEF PartDue, Silent
<1>3. ASSUME NEW m, PlayFrame(m) \/ CheckSegments(m)
      PROVE  Silent
  BY <1>3 DEF PlayFrame, CheckSegments, Silent, Consuming
<1>4. CASE Changes
  BY <1>4 DEF Changes, AddIncomingVideo, RemoveIncomingVideo, Changed, Silent, IsHistory
<1>5. CASE Close
  BY <1>5 DEF Close, Silent
<1>6. QED BY <1>1, <1>2, <1>3, <1>4, <1>5 DEF Ordinary

LEMMA MinIs ==
  ASSUME NEW S, S \subseteq Int, NEW x \in S, \A y \in S : x <= y
  PROVE  Min(S) = x
<1>1. \E z \in S : \A y \in S : z <= y
  OBVIOUS
<1>2. Min(S) \in S /\ \A y \in S : Min(S) <= y
  BY <1>1, Zenon DEF Min
<1> DEFINE least == Min(S)
<1>3. least \in S /\ least <= x /\ x <= least
  BY <1>2
<1> HIDE DEF least
<1>4. least = x
  BY <1>3
<1>5. QED BY <1>4 DEF least

\* Where segments are in line, the first one that is ready is the first of all.
LEMMA FirstReady ==
  ASSUME NEW s, NEW first, Lined(s, first), Ready(s) # {}
  PROVE  first \in Ready(s) /\ Min(Ready(s)) = first
<1>1. /\ DOMAIN s.segments = first .. s.next /\ s.next \in Nat /\ first \in Nat \ {0}
      /\ \A k \in Ready(s), j \in Pending(s) : k < j
  BY DEF Lined
<1>2. Ready(s) \subseteq first .. s.next
  BY <1>1 DEF Ready
<1>3. PICK k \in Ready(s) : TRUE
  OBVIOUS
<1>4. first \in DOMAIN s.segments
  BY <1>1, <1>2, <1>3
<1>5. first \in Ready(s)
  <2>1. SUFFICES ASSUME first \in Pending(s)
                 PROVE  FALSE
    BY <1>4 DEF Pending
  <2>2. k < first /\ first <= k
    BY <1>1, <1>2, <1>3, <2>1
  <2>3. QED BY <1>1, <1>2, <1>3, <2>2
<1>6. Ready(s) \subseteq Int /\ \A y \in Ready(s) : first <= y
  BY <1>1, <1>2
<1>7. QED BY <1>5, <1>6, MinIs

\* The stream without its first segment.
Without(s, first) == [s EXCEPT !.segments = Restrict(@, DOMAIN @ \ {first})]

LEMMA FirstErased ==
  ASSUME NEW s, IsStream(s), NEW first, Lined(s, first), first \in DOMAIN s.segments
  PROVE  IsStream(Without(s, first)) /\ Lined(Without(s, first), first + 1)
<1> DEFINE d == Without(s, first)
<1>1. /\ s.next \in Nat /\ first \in Nat \ {0} /\ first <= s.next + 1
      /\ DOMAIN s.segments = first .. s.next /\ ~ s.waiting
      /\ \A k \in DOMAIN s.segments : s.segments[k].time = k - 1
      /\ \A k \in Ready(s), j \in Pending(s) : k < j
  BY DEF Lined
<1>2. /\ d.next = s.next /\ d.waiting = s.waiting
      /\ DOMAIN d.segments = DOMAIN s.segments \ {first}
      /\ \A k \in DOMAIN d.segments : d.segments[k] = s.segments[k]
      /\ IsStream(d)
  BY DEF Without, Restrict, IsStream, Fields
<1> HIDE DEF d
<1>3. DOMAIN d.segments = (first + 1) .. d.next /\ first + 1 <= d.next + 1
  BY <1>1, <1>2
<1>4. Ready(d) \subseteq Ready(s) /\ Pending(d) \subseteq Pending(s)
  BY <1>2 DEF Ready, Pending
<1>5. first + 1 \in Nat \ {0} /\ d.next \in Nat /\ ~ d.waiting
  BY <1>1, <1>2
<1>6. \A k \in DOMAIN d.segments : d.segments[k].time = k - 1
  BY <1>1, <1>2
<1>7. \A k \in Ready(d), j \in Pending(d) : k < j
  BY <1>1, <1>4
<1>8. Lined(d, first + 1)
  BY <1>3, <1>5, <1>6, <1>7 DEF Lined
<1>9. QED BY <1>2, <1>8 DEF d

LEMMA NoneErased ==
  ASSUME NEW s, IsStream(s), 0 \notin DOMAIN s.segments
  PROVE  Same(s, Without(s, 0))
BY DEF Without, Restrict, IsStream, Fields, Same, SameClock, SameSegments

LEMMA WaitSame ==
  ASSUME NEW s, IsStream(s), NEW wait
  PROVE  Same(s, [s EXCEPT !.wait = wait])
BY DEF IsStream, Fields, Same, SameClock, SameSegments

\* The next segment is the first one if it is ready, and the stream is as it was.
LEMMA NextIs ==
  ASSUME NEW s, IsStream(s)
  PROVE  /\ Same(s, NextSegment(s).s)
         /\ NextSegment(s).id = 0 \/ (Ready(s) # {} /\ NextSegment(s).id = Min(Ready(s)))
<1>1. Same(s, s)
  BY DEF IsStream, Same, SameClock, SameSegments
<1>2. QED BY <1>1, WaitSame DEF NextSegment

\* What the playback has to do when it goes on.
GoesOn ==
  history'.played > history.played /\ history.played > 0 => history'.time = history.time + 1

\* A thread that looks for a segment, among those from "first" on, when all before are
\* played.
LEMMA Looked ==
  ASSUME NEW m \in Threads, NEW s, IsStream(s), NEW first, Lined(s, first),
         NEW consumed, consumed = [t \in Threads |-> 0],
         Consuming, IsHistory,
         history.played > 0 => history.time \in Nat /\ first = history.time + 2,
         NEW found, found = NextSegment(s),
         NEW erased, Takes(m, consumed, erased, found.id, found.id # 0 /\ consumed[m] < Frames),
         stream' = found.s,
         history' = IF found.id = 0 THEN history
                    ELSE [history EXCEPT !.played = @ + 1,
                                         !.time = found.s.segments[found.id].time]
  PROVE  InOrder' /\ GoesOn
<1>1. Same(s, stream') /\ (found.id = 0 \/ (Ready(s) # {} /\ found.id = Min(Ready(s))))
  BY NextIs
<1>2. Keeps(s, stream')
  BY <1>1, SameKeeps
<1>3. Lined(stream', first) /\ Ready(s) \subseteq Ready(stream')
  BY <1>2 DEF Keeps
<1>4. Lined(stream, first)'
  BY <1>3 DEF Lined, Ready, Pending
<1>5. first \in Nat \ {0}
  BY DEF Lined
<1>6. /\ history'.resyncs = history.resyncs
      /\ buffer'.last = found.id
      /\ buffer'.consumed = IF found.id # 0 /\ consumed[m] < Frames
                            THEN [consumed EXCEPT ![m] = @ + 1] ELSE consumed
  BY DEF Takes, Consuming, IsHistory
<1>7. consumed[m] = 0 /\ 0 < Frames
  BY StreamAssumption
<1>8. CASE found.id = 0
  <2>1. buffer'.last = 0 /\ buffer'.consumed = consumed /\ history' = history
    BY <1>6, <1>8
  <2>2. Begun'
    BY <2>1 DEF Begun
  <2>3. Played(first)'
    BY <2>1 DEF Played
  <2>4. history'.played = history.played /\ history.played \in Nat
    BY <2>1 DEF IsHistory
  <2>5. GoesOn
    BY <2>4 DEF GoesOn
  <2>6. QED BY <1>4, <2>2, <2>3, <2>5 DEF InOrder
<1>9. CASE found.id # 0
  <2>1. first \in Ready(s) /\ found.id = first
    BY <1>1, <1>9, FirstReady
  <2>2. first \in Ready(stream)'
    BY <1>3, <2>1 DEF Ready
  <2>3. stream'.segments[first].time = first - 1
    BY <1>3, <2>2 DEF Lined, Ready
  <2>4. history'.played = history.played + 1 /\ history'.time = first - 1
    BY <1>9, <2>1, <2>3 DEF IsHistory
  <2>5. buffer'.last = first /\ buffer'.consumed[m] = 1
    BY <1>6, <1>7, <1>9, <2>1
  <2>6. Begun'
    BY <1>5, <2>5 DEF Begun
  <2>7. Played(first)'
    BY <1>5, <2>2, <2>4, <2>5 DEF Played, IsHistory
  <2>8. GoesOn
    BY <1>5, <2>4 DEF GoesOn, IsHistory
  <2>9. QED BY <1>4, <2>6, <2>7, <2>8 DEF InOrder
<1>10. QED BY <1>8, <1>9

LEMMA SegmentOrder ==
  ASSUME OrderInv, history.resyncs = 0, NEW m \in Threads, GetSegment(m)
  PROVE  InOrder' /\ GoesOn
<1> DEFINE first == IF Spent /\ DOMAIN stream.segments # {}
                    THEN Min(DOMAIN stream.segments) ELSE 0
           rest == Without(stream, first)
           consumed == IF Spent THEN [t \in Threads |-> 0] ELSE buffer.consumed
           last == IF Spent THEN 0 ELSE buffer.last
           look == last = 0 \/ \A t \in Threads : consumed[t] = 0
           found == IF look THEN NextSegment(rest) ELSE [s |-> rest, id |-> last]
           plays == found.id # 0 /\ consumed[m] < Frames
<1>1. /\ stream' = found.s
      /\ history' = IF found.id \in {0, last} THEN history
                    ELSE [history EXCEPT !.played = @ + 1,
                                         !.time = found.s.segments[found.id].time]
  BY DEF GetSegment, Without
<1>2. Takes(m, consumed, first, found.id, plays)
  BY DEF Takes, GetSegment, Without
<1>3. IsStream(stream) /\ Consuming /\ IsHistory /\ Begun /\ InOrder
  BY DEF OrderInv, OneTask, InOrder
<1>4. Spent => buffer.last # 0 /\ \A t \in Threads : buffer.consumed[t] = Frames
  BY <1>3, StreamAssumption DEF Spent, Begun, Threads
<1> HIDE DEF plays, found, look, rest
<1>5. CASE Empty(stream) /\ buffer.last = 0 /\ history.played = 0
  <2>1. ~ Spent /\ first = 0 /\ consumed = buffer.consumed /\ last = 0 /\ look
    BY <1>4, <1>5 DEF look
  <2> HIDE DEF first, consumed, last
  <2>2. Same(stream, rest)
    BY <1>3, <1>5, <2>1, NoneErased DEF Empty, rest
  <2>3. Keeps(stream, rest)
    BY <1>3, <2>2, SameKeeps
  <2>4. IsStream(rest) /\ Empty(rest)
    BY <1>5, <2>3 DEF Keeps, Waits
  <2>5. found = NextSegment(rest)
    BY <2>1 DEF found
  <2>6. Same(rest, found.s) /\ found.id = 0
    <3>1. Ready(rest) = {}
      BY <2>4 DEF Empty, Ready
    <3>2. QED BY <2>4, <2>5, <3>1, NextIs
  <2>7. Keeps(rest, stream')
    BY <1>1, <2>4, <2>6, SameKeeps
  <2>8. Keeps(stream, stream')
    BY <2>3, <2>7, KeepsThrough
  <2>9. ~ plays
    BY <2>6 DEF plays
  <2>10. Silent
    BY <1>1, <1>2, <1>3, <1>5, <2>1, <2>6, <2>9 DEF Takes, Silent, Consuming
  <2>11. GoesOn
    BY <1>3, <2>10 DEF Silent, GoesOn, IsHistory
  <2>12. QED BY <1>3, <2>8, <2>10, <2>11, SilentKeeps
<1>6. ASSUME NEW f, Lined(stream, f), Played(f), Spent
      PROVE  InOrder' /\ GoesOn
  <2>1. /\ consumed = [t \in Threads |-> 0] /\ last = 0 /\ look
        /\ buffer.last = f /\ f \in Ready(stream) /\ history.played > 0
        /\ history.time \in Nat /\ f = history.time + 1
    BY <1>4, <1>6 DEF Played, look
  <2>2. f \in DOMAIN stream.segments
    BY <2>1 DEF Ready
  <2>3. first = f
    <3>1. /\ DOMAIN stream.segments \subseteq Int
          /\ \A k \in DOMAIN stream.segments : f <= k
      BY <1>6 DEF Lined
    <3>2. Min(DOMAIN stream.segments) = f
      BY <2>2, <3>1, MinIs
    <3>3. QED BY <1>6, <2>2, <3>2
  <2> HIDE DEF first, consumed, last
  <2>4. IsStream(rest) /\ Lined(rest, f + 1)
    BY <1>3, <1>6, <2>2, <2>3, FirstErased DEF rest
  <2>5. found = NextSegment(rest)
    BY <2>1 DEF found
  <2>6. f + 1 = history.time + 2
    BY <2>1
  <2>7. Takes(m, consumed, first, found.id, found.id # 0 /\ consumed[m] < Frames)
    BY <1>2 DEF plays
  <2>8. history' = IF found.id = 0 THEN history
                   ELSE [history EXCEPT !.played = @ + 1,
                                        !.time = found.s.segments[found.id].time]
    BY <1>1, <2>1
  <2>9. QED BY <1>1, <1>3, <2>1, <2>4, <2>5, <2>6, <2>7, <2>8, Looked
<1>7. ASSUME NEW f, Lined(stream, f), Played(f), ~ Spent
      PROVE  InOrder' /\ GoesOn
  <2>1. consumed = buffer.consumed /\ last = buffer.last /\ first = 0
    BY <1>7
  <2>2. look <=> last = 0
    BY <1>3, <2>1 DEF look, Begun
  <2> HIDE DEF first, consumed, last
  <2>3. 0 \notin DOMAIN stream.segments
    BY <1>7 DEF Lined
  <2>4. Same(stream, rest)
    BY <1>3, <2>1, <2>3, NoneErased DEF rest
  <2>5. Keeps(stream, rest)
    BY <1>3, <2>4, SameKeeps
  <2>6. IsStream(rest) /\ Lined(rest, f)
    BY <1>7, <2>5 DEF Keeps, Waits
  <2>7. CASE last = 0
    <3>1. consumed = [t \in Threads |-> 0]
      BY <1>3, <2>1, <2>7 DEF Begun, Consuming
    <3>2. history.played > 0 => history.time \in Nat /\ f = history.time + 2
      BY <1>7, <2>1, <2>7 DEF Played
    <3>3. found = NextSegment(rest)
      BY <2>2, <2>7 DEF found
    <3>4. Takes(m, consumed, first, found.id, found.id # 0 /\ consumed[m] < Frames)
      BY <1>2 DEF plays
    <3>5. history' = IF found.id = 0 THEN history
                     ELSE [history EXCEPT !.played = @ + 1,
                                          !.time = found.s.segments[found.id].time]
      BY <1>1, <2>7
    <3>6. QED BY <1>1, <1>3, <2>6, <3>1, <3>2, <3>3, <3>4, <3>5, Looked
  <2>8. CASE last # 0
    <3>1. found.s = rest /\ found.id = last
      BY <2>2, <2>8 DEF found
    <3>2. stream' = rest /\ history' = history
      BY <1>1, <3>1
    <3>3. /\ buffer'.last = buffer.last
          /\ buffer'.consumed = IF plays THEN [consumed EXCEPT ![m] = @ + 1] ELSE consumed
      BY <1>2, <1>3, <2>1, <3>1 DEF Takes, Consuming
    <3>4. consumed \in [Threads -> 0 .. Frames]
      BY <1>3, <2>1 DEF Consuming
    <3>5. ~ \A t \in Threads : buffer'.consumed[t] = 0
      <4>1. PICK t \in Threads : consumed[t] # 0
        BY <1>3, <2>1, <2>8 DEF Begun
      <4>2. CASE plays /\ t = m
        <5>1. buffer'.consumed[m] = consumed[m] + 1
          BY <3>3, <3>4, <4>2
        <5>2. QED BY <3>4, <5>1, StreamAssumption
      <4>3. CASE ~ plays \/ t # m
        <5>1. buffer'.consumed[t] = consumed[t]
          BY <3>3, <3>4, <4>3
        <5>2. QED BY <4>1, <5>1
      <4>4. QED BY <4>2, <4>3
    <3>6. Begun'
      BY <2>1, <2>8, <3>3, <3>5 DEF Begun
    <3>7. Ready(stream)' = Ready(rest) /\ Lined(stream, f)'
      BY <2>6, <3>2 DEF Lined, Ready, Pending
    <3>8. Ready(stream) \subseteq Ready(stream)'
      BY <2>5, <3>7 DEF Keeps
    <3>9. Played(f)'
      BY <1>7, <3>2, <3>3, <3>8 DEF Played
    <3>10. GoesOn
      BY <1>3, <3>2 DEF GoesOn, IsHistory
    <3>11. QED BY <3>6, <3>7, <3>9, <3>10 DEF InOrder
  <2>9. QED BY <2>7, <2>8
<1>8. QED BY <1>3, <1>5, <1>6, <1>7 DEF InOrder

\* The first segments are asked for when the time is known.
LEMMA TimeOrder ==
  ASSUME OrderInv, InOrder, NEW t \in Times, SendTimestamp(t)
  PROVE  InOrder' /\ Silent
<1>1. Silent
  BY DEF SendTimestamp, Silent, OrderInv, IsHistory
<1>2. IsStream(stream) /\ stream.waiting /\ t \in Nat
  BY StreamAssumption DEF OrderInv, OneTask, SendTimestamp
<1>3. Empty(stream) /\ buffer.last = 0 /\ history.played = 0 /\ Begun
  BY <1>2 DEF InOrder, Lined
<1>4. Begun'
  BY <1>1, <1>3 DEF Silent, Begun
<1>5. buffer'.last = 0 /\ history'.played = 0
  BY <1>1, <1>3 DEF Silent
<1>6. CASE t <= BufferDuration
  <2>1. stream' = [stream EXCEPT !.waiting = FALSE, !.delay = stream.nextDelay,
                                 !.nextDelay = @ + 1]
    BY <1>6 DEF SendTimestamp
  <2>2. stream'.next = stream.next /\ stream'.segments = stream.segments
    BY <1>2, <2>1 DEF IsStream, Fields
  <2>3. Empty(stream)'
    BY <1>3, <2>2 DEF Empty
  <2>4. QED BY <1>1, <1>4, <1>5, <2>3 DEF InOrder
<1>7. CASE ~ t <= BufferDuration
  <2> DEFINE n == t - BufferDuration
             s == [stream EXCEPT !.waiting = FALSE, !.next = n]
  <2>1. Commit(RequestSegments(s))
    BY <1>7 DEF SendTimestamp
  <2>2. n \in Nat /\ n + 1 \in Nat \ {0}
    BY <1>2, <1>7 DEF BufferDuration
  <2> HIDE DEF n
  <2>3. IsStream(s) /\ s.next = n /\ s.waiting = FALSE /\ DOMAIN s.segments = {}
    BY <1>2, <1>3 DEF IsStream, Fields, Empty
  <2> HIDE DEF s
  <2>4. (n + 1) .. n = {}
    BY <2>2
  <2>5. Lined(s, n + 1)
    BY <2>2, <2>3, <2>4 DEF Lined, Ready
  <2>6. Keeps(s, stream')
    BY <2>1, <2>3, RequestCommits
  <2>7. Lined(stream', n + 1)
    BY <2>5, <2>6 DEF Keeps
  <2>8. Lined(stream, n + 1)'
    BY <2>7 DEF Lined, Ready, Pending
  <2>9. Played(n + 1)'
    BY <1>5 DEF Played
  <2>10. QED BY <1>1, <1>4, <2>8, <2>9 DEF InOrder
<1>8. QED BY <1>6, <1>7

LEMMA AskKeeps ==
  ASSUME OrderInv, NEW id, AskAgain(id), InOrder
  PROVE  InOrder' /\ Silent
<1>1. Silent
  BY DEF AskAgain, Silent
<1>2. IsStream(stream)
  BY DEF OrderInv, OneTask
<1>3. CASE stream.delay = id
  <2> DEFINE s == [stream EXCEPT !.delay = 0]
  <2>1. Commit(RequestSegments(s))
    BY <1>3 DEF AskAgain
  <2>2. /\ IsStream(s) /\ s.next = stream.next /\ s.segments = stream.segments
        /\ s.waiting = stream.waiting
    BY <1>2 DEF IsStream, Fields
  <2> HIDE DEF s
  <2>3. Keeps(s, stream')
    BY <2>1, <2>2, RequestCommits
  <2>4. Begun'
    BY <1>1 DEF Silent, InOrder, Begun
  <2>5. CASE Empty(stream) /\ buffer.last = 0 /\ history.played = 0
    <3>1. Empty(s)
      BY <2>2, <2>5 DEF Empty
    <3>2. Empty(stream')
      BY <2>3, <3>1 DEF Keeps
    <3>3. Empty(stream)' /\ buffer'.last = 0 /\ history'.played = 0
      BY <1>1, <2>5, <3>2 DEF Silent, Empty
    <3>4. QED BY <1>1, <2>4, <3>3 DEF InOrder
  <2>6. ASSUME NEW first, Lined(stream, first), Played(first)
        PROVE  InOrder'
    <3>1. Ready(s) = Ready(stream) /\ Lined(s, first)
      BY <2>2, <2>6 DEF Lined, Ready, Pending
    <3>2. Lined(stream', first) /\ Ready(stream) \subseteq Ready(stream')
      BY <2>3, <3>1 DEF Keeps
    <3>3. Lined(stream, first)'
      BY <3>2 DEF Lined, Ready, Pending
    <3>4. Played(first)'
      BY <1>1, <2>6, <3>2 DEF Silent, Played, Ready
    <3>5. QED BY <2>4, <3>3, <3>4 DEF InOrder
  <2>7. QED BY <1>1, <2>5, <2>6 DEF InOrder
<1>4. CASE stream.delay # id
  <2>1. UNCHANGED stream
    BY <1>4 DEF AskAgain
  <2>2. Keeps(stream, stream')
    BY <1>2, <2>1, Unchanged
  <2>3. QED BY <1>1, <2>2, SilentKeeps
<1>5. QED BY <1>3, <1>4

LEMMA HistoryStays ==
  ASSUME IsHistory, Next
  PROVE  IsHistory' /\ history'.resyncs >= history.resyncs
<1>1. CASE UNCHANGED history
  BY <1>1 DEF IsHistory
<1>2. ASSUME NEW x, \/ history' = [history EXCEPT !.refusals = x]
                    \/ history' = [history EXCEPT !.changes = x]
      PROVE  IsHistory' /\ history'.resyncs >= history.resyncs
  BY <1>2 DEF IsHistory
<1>3. ASSUME NEW time, history' = [history EXCEPT !.played = @ + 1, !.time = time]
      PROVE  IsHistory' /\ history'.resyncs >= history.resyncs
  BY <1>3 DEF IsHistory
<1>4. ASSUME NEW a, NEW t, PartResync(a, t)
      PROVE  IsHistory' /\ history'.resyncs >= history.resyncs
  BY <1>4 DEF PartResync, IsHistory
<1>5. ASSUME NEW a, Answered(a)
      PROVE  UNCHANGED history \/ \E x : history' = [history EXCEPT !.refusals = x]
  BY <1>5 DEF Answered, PartIgnored, PartSuccess, UpdateSuccess, PartNotReady
<1>6. ASSUME NEW t, SendTimestamp(t)
      PROVE  UNCHANGED history \/ \E x : history' = [history EXCEPT !.refusals = x]
  BY <1>6 DEF SendTimestamp
<1>7. Later \/ Close => UNCHANGED history
  BY DEF Later, AskAgain, PartDue, Close
<1>8. Changes => \E x : history' = [history EXCEPT !.changes = x]
  BY DEF Changes, AddIncomingVideo, RemoveIncomingVideo, Changed
<1>9. ASSUME NEW m, GetSegment(m)
      PROVE  \/ UNCHANGED history
             \/ \E time : history' = [history EXCEPT !.played = @ + 1, !.time = time]
  BY <1>9 DEF GetSegment
<1>10. ASSUME NEW m, PlayFrame(m) \/ CheckSegments(m)
       PROVE  UNCHANGED history
  BY <1>10 DEF PlayFrame, CheckSegments
<1>11. CASE Answer \/ AnswerTime
  BY <1>1, <1>2, <1>4, <1>5, <1>6, <1>11 DEF Answer, Answered, AnswerTime
<1>12. CASE Later \/ Close \/ Changes
  BY <1>1, <1>2, <1>7, <1>8, <1>12
<1>13. CASE \E m \in Threads : Play(m)
  BY <1>1, <1>3, <1>9, <1>10, <1>13 DEF Play
<1>14. QED BY <1>11, <1>12, <1>13 DEF Next

LEMMA OrderStep ==
  ASSUME OrderInv, HeldInv, [Next]_vars
  PROVE  OrderInv' /\ (history'.resyncs = 0 => GoesOn \/ UNCHANGED vars)
<1>1. CASE UNCHANGED vars
  <2>1. InOrder => InOrder'
    BY <1>1 DEF vars, InOrder, Begun, Empty, Lined, Played, Ready, Pending
  <2>2. OneTask' /\ Consuming' /\ IsHistory' /\ history' = history
    BY <1>1 DEF vars, OrderInv, OneTask, Consuming, IsHistory
  <2>3. QED BY <1>1, <2>1, <2>2 DEF OrderInv
<1>2. CASE Next
  <2>1. OneTask' /\ Consuming' /\ IsHistory'
    BY <1>2, OneTaskStep, HeldStep, HistoryStays DEF OrderInv, HeldInv
  <2>2. history.resyncs \in Nat /\ (history'.resyncs = 0 => history.resyncs = 0)
    BY <1>2, HistoryStays DEF OrderInv, IsHistory
  <2>3. SUFFICES ASSUME history'.resyncs = 0
                 PROVE  InOrder' /\ GoesOn
    BY <2>1 DEF OrderInv
  <2>4. InOrder /\ history.resyncs = 0
    BY <2>2, <2>3 DEF OrderInv
  <2>5. Silent => GoesOn
    BY DEF Silent, GoesOn, OrderInv, IsHistory
  <2>6. CASE Ordinary
    <3>1. Silent
      BY <2>6, OrdinarySilent DEF OrderInv
    <3>2. Keeps(stream, stream')
      BY <2>6, OrdinaryKeeps DEF OrderInv, OneTask
    <3>3. QED BY <2>4, <2>5, <3>1, <3>2, SilentKeeps
  <2>7. CASE \E t \in Times : SendTimestamp(t)
    BY <2>4, <2>5, <2>7, TimeOrder
  <2>8. CASE \E id \in delays : AskAgain(id)
    BY <2>4, <2>5, <2>8, AskKeeps
  <2>9. ASSUME NEW a, NEW t, PartResync(a, t)
        PROVE  FALSE
    <3>1. history'.resyncs = history.resyncs + 1
      BY <2>9 DEF PartResync, OrderInv, IsHistory
    <3>2. QED BY <2>2, <2>3, <3>1
  <2>10. CASE \E m \in Threads : GetSegment(m)
    BY <2>4, <2>10, SegmentOrder
  <2>11. QED BY <1>2, <2>6, <2>7, <2>8, <2>9, <2>10, Steps
<1>3. QED BY <1>1, <1>2

LEMMA OrderInductive == Spec => [](OrderInv /\ HeldInv)
<1>1. Init => OrderInv
  <2> SUFFICES ASSUME Init
               PROVE  OrderInv
    OBVIOUS
  <2>1. OneTask
    BY DEF Init, OneTask, NewStream, IsStream, Fields
  <2>2. Empty(stream)
    BY DEF Init, NewStream, Empty
  <2>3. Consuming /\ Begun /\ buffer.last = 0
    BY StreamAssumption DEF Init, NewBuffer, Consuming, Begun
  <2>4. IsHistory /\ history.played = 0
    BY DEF Init, NoHistory, IsHistory
  <2>5. QED BY <2>1, <2>2, <2>3, <2>4 DEF OrderInv, InOrder
<1>2. Init => HeldInv
  BY StreamAssumption DEF Init, HeldInv, Held, Consuming, NewBuffer, Resting, IsThread
<1>3. OrderInv /\ HeldInv /\ [Next]_vars => OrderInv' /\ HeldInv'
  BY OrderStep, HeldStep
<1>4. QED BY <1>1, <1>2, <1>3, PTL DEF Spec

\* The segments are played one after the other (get_segment_sync), in whatever order
\* their parts come and whichever thread asks.
THEOREM OneAfterTheOther == Spec => PlayedInOrder
<1>1. OrderInv /\ HeldInv /\ [Next]_vars =>
        [history'.played > history.played /\ history.played > 0 /\ history'.resyncs = 0
           => history'.time = history.time + 1]_vars
  BY OrderStep DEF GoesOn
<1>2. QED BY <1>1, OrderInductive, PTL DEF Spec, PlayedInOrder

=============================================================================
