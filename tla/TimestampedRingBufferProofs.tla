-------------------- MODULE TimestampedRingBufferProofs ---------------------
(***************************************************************************)
(* Proofs about TimestampedRingBuffer, for every capacity, every number of *)
(* recordings and every bound on the sample times.                         *)
(***************************************************************************)
EXTENDS TimestampedRingBuffer, RingArithmetic, TLAPS

(* The arguments of a call of write, with the recording it is of.          *)
Writes ==
  {w \in [time : Times, count : 1 .. MaxTime, take : Takes] :
     w.time + w.count <= MaxTime}

(* The types of what belongs to a read.                                    *)
ReaderTypeOK ==
  /\ request \in [time : Times, count : Times]
  /\ lo \in Times
  /\ hi \in Times
  /\ toFetch \subseteq 0 .. capacity - 1
  /\ out \in [0 .. request.count - 1 -> Frames \cup {Stale}]
  /\ dataSize \in 0 .. request.count
  /\ expected \in [TimesOf(request) -> Frames]
  /\ lost \subseteq Times

(* Frames of times less than a turn apart have offsets of their own.       *)
LEMMA OffsetsApart ==
  ASSUME capacity \in Nat \ {0}, NEW t \in Nat, NEW u \in Nat,
         t # u, t - u < capacity, u - t < capacity
  PROVE  Offset(t) # Offset(u)
<1>1. t \in Int /\ u \in Int
  OBVIOUS
<1>2. CASE t < u
  BY <1>1, <1>2, ModApart DEF Offset
<1>3. CASE u < t
  BY <1>1, <1>3, ModApart DEF Offset
<1>4. QED
  BY <1>2, <1>3

(* A copy stays within the ring.                                           *)
LEMMA RegionRange ==
  ASSUME capacity \in Nat \ {0}, NEW from \in Nat, NEW to \in Nat
  PROVE  Region(from, to) \subseteq 0 .. capacity - 1
<1>1. Offset(from) \in 0 .. capacity - 1 /\ Offset(to) \in 0 .. capacity - 1
  BY ModRange DEF Offset
<1>2. QED
  BY <1>1 DEF Region

(* A copy of at most one turn goes over the offset of each of its times,   *)
(* once, and over no others.                                               *)
LEMMA RegionOfTimes ==
  ASSUME capacity \in Nat \ {0}, NEW from \in Nat, NEW to \in Nat,
         from < to, to - from <= capacity
  PROVE  /\ \A p \in Region(from, to) :
              /\ Place(p, from) \in 0 .. to - from - 1
              /\ from + Place(p, from) \in from .. to - 1
              /\ Offset(from + Place(p, from)) = p
         /\ \A t \in from .. to - 1 : Offset(t) \in Region(from, to)
<1> DEFINE a == from % capacity
           i == to - from
<1>1. a \in 0 .. capacity - 1
  BY ModRange
<1>2. i \in 1 .. capacity /\ to = from + i
  OBVIOUS
<1>3. ASSUME NEW k \in 0 .. capacity
      PROVE  Offset(from + k) = IF a + k < capacity THEN a + k ELSE a + k - capacity
  <2>1. from \in Int /\ k \in 0 .. capacity
    BY <1>3
  <2>2. (from + k) % capacity =
          IF (from % capacity) + k < capacity
            THEN (from % capacity) + k ELSE (from % capacity) + k - capacity
    BY <2>1, ModShift
  <2>3. QED
    BY <2>2 DEF Offset
<1>4. Offset(to) = IF a + i < capacity THEN a + i ELSE a + i - capacity
  BY <1>2, <1>3
<1>5. Offset(from) = a
  BY DEF Offset
<1> HIDE DEF a, i
<1>6. ASSUME NEW p \in Region(from, to)
      PROVE  /\ Place(p, from) \in 0 .. to - from - 1
             /\ from + Place(p, from) \in from .. to - 1
             /\ Offset(from + Place(p, from)) = p
  <2>1. p \in 0 .. capacity - 1 /\ Place(p, from) \in 0 .. i - 1
    BY <1>1, <1>2, <1>4, <1>5, <1>6 DEF Region, Place
  <2>2. a + Place(p, from) = IF p >= a THEN p ELSE p + capacity
    BY <1>1, <1>5, <2>1 DEF Place
  <2> DEFINE k == Place(p, from)
  <2>3. k \in 0 .. capacity
    BY <1>2, <2>1
  <2>4. Offset(from + k) = IF a + k < capacity THEN a + k ELSE a + k - capacity
    BY <1>3, <2>3
  <2>5. Offset(from + k) = p
    BY <1>1, <2>1, <2>2, <2>4
  <2>6. Place(p, from) \in 0 .. to - from - 1
    BY <2>1 DEF i
  <2>7. QED
    BY <1>2, <2>1, <2>5, <2>6
<1>7. ASSUME NEW t \in from .. to - 1
      PROVE  Offset(t) \in Region(from, to)
  <2>1. t = from + (t - from) /\ t - from \in 0 .. i - 1
    BY <1>2
  <2>2. Offset(t) = IF a + (t - from) < capacity
                      THEN a + (t - from) ELSE a + (t - from) - capacity
    BY <1>2, <1>3, <2>1
  <2>3. QED
    BY <1>1, <1>2, <1>4, <1>5, <2>1, <2>2 DEF Region
<1>8. QED
  BY <1>6, <1>7

-----------------------------------------------------------------------------
(* What write publishes before it stores: room for its frames, in a window *)
(* that is part of the one it found.                                       *)
LEMMA RoomIsMade ==
  ASSUME TypeOK, BoundsHold, NEW w \in Writes, w.count <= capacity
  PROVE  /\ capacity \in Nat \ {0}
         /\ MadeRoom(w) \in [startTime : Times, endTime : Times]
         /\ MadeRoom(w).startTime <= MadeRoom(w).endTime
         /\ MadeRoom(w).endTime <= w.time
         /\ w.time + w.count - MadeRoom(w).startTime <= capacity
         /\ Span(MadeRoom(w)) \subseteq Span(bounds)
<1> USE RingAssumption
<1>1. /\ w.time \in Nat /\ w.count \in Nat /\ w.count >= 1
      /\ w.time + w.count <= MaxTime
      /\ MaxTime \in Nat
      /\ w.time \in Times
  BY DEF Writes, Times
<1>2. capacity \in Nat \ {0}
  BY <1>1 DEF TypeOK
<1>3. /\ bounds \in [startTime : Times, endTime : Times]
      /\ bounds.startTime \in Nat /\ bounds.endTime \in Nat
      /\ bounds.startTime <= MaxTime /\ bounds.endTime <= MaxTime
      /\ bounds.startTime <= bounds.endTime
  BY DEF TypeOK, Times, BoundsHold
<1>4. CASE w.time < bounds.endTime
  BY <1>1, <1>2, <1>3, <1>4 DEF MadeRoom, Span
<1>5. CASE /\ ~(w.time < bounds.endTime)
           /\ w.time + w.count - bounds.startTime <= capacity
  BY <1>1, <1>2, <1>3, <1>5 DEF MadeRoom, Span
<1>6. CASE /\ ~(w.time < bounds.endTime)
           /\ ~(w.time + w.count - bounds.startTime <= capacity)
  <2> DEFINE new == w.time + w.count - capacity
             end == Larger(new, bounds.endTime)
  <2>1. MadeRoom(w) = [startTime |-> new, endTime |-> end]
    BY <1>6 DEF MadeRoom, NewStart
  <2>2. new \in Nat /\ new > bounds.startTime /\ new <= w.time
    BY <1>1, <1>2, <1>3, <1>6
  <2> HIDE DEF new
  <2>3. /\ end \in Nat /\ new <= end /\ end <= w.time
        /\ end = new \/ end = bounds.endTime
    BY <1>1, <1>3, <1>6, <2>2 DEF Larger
  <2> HIDE DEF end
  <2>4. new \in Times /\ end \in Times
    BY <1>1, <2>2, <2>3 DEF Times
  <2>5. w.time + w.count - new <= capacity
    BY <1>1, <1>2 DEF new
  <2>6. Span(MadeRoom(w)) \subseteq Span(bounds)
    BY <1>1, <1>3, <2>1, <2>2, <2>3 DEF Span
  <2>7. QED
    BY <1>2, <2>1, <2>3, <2>4, <2>5, <2>6
<1>7. QED
  BY <1>4, <1>5, <1>6

(* A write in progress is of a call, into a ring with room for it.         *)
LEMMA JobFacts ==
  ASSUME TypeOK, BoundsHold, WriteHolds, job # Idle
  PROVE  /\ capacity \in Nat \ {0}
         /\ job.time \in Nat /\ job.count \in Nat /\ job.take \in Takes
         /\ endWrite \in Nat /\ endWrite = job.time + job.count
         /\ job.time < endWrite /\ endWrite <= MaxTime
         /\ bounds.startTime \in Nat /\ bounds.endTime \in Nat
         /\ bounds.startTime <= bounds.endTime
         /\ bounds.endTime <= job.time
         /\ endWrite - bounds.startTime <= capacity
<1> USE RingAssumption
<1>1. /\ job \in [time : Times, count : Times, take : Takes]
      /\ bounds \in [startTime : Times, endTime : Times]
      /\ endWrite \in Times
  BY DEF TypeOK
<1>2. /\ job.time \in Nat /\ job.count \in Nat /\ job.take \in Takes
      /\ bounds.startTime \in Nat /\ bounds.endTime \in Nat
      /\ endWrite \in Nat /\ endWrite <= MaxTime /\ MaxTime \in Nat
  BY <1>1 DEF Times
<1>3. /\ endWrite = job.time + job.count
      /\ job.count >= 1
      /\ bounds.startTime <= bounds.endTime
      /\ bounds.endTime <= job.time
      /\ endWrite - bounds.startTime <= capacity
  BY DEF endWrite, WriteHolds, BoundsHold
<1>4. capacity \in Nat
  BY DEF TypeOK
<1>5. QED
  BY <1>2, <1>3, <1>4

(* A frame that write zeroes is one of the gap.                            *)
LEMMA ZeroedFrame ==
  ASSUME TypeOK, BoundsHold, WriteHolds, job # Idle, NEW p \in toZero
  PROVE  \E u \in bounds.endTime .. job.time - 1 : Offset(u) = p
<1>1. p \in Region(bounds.endTime, job.time) /\ job.time > bounds.endTime
  BY JobFacts DEF WriteHolds
<1>2. /\ capacity \in Nat \ {0}
      /\ bounds.endTime \in Nat /\ job.time \in Nat
      /\ bounds.endTime < job.time
      /\ job.time - bounds.endTime <= capacity
  BY <1>1, JobFacts
<1>3. QED
  BY <1>1, <1>2, RegionOfTimes

(* A frame that write stores is one of its own.                            *)
LEMMA StoredFrame ==
  ASSUME TypeOK, BoundsHold, WriteHolds, job # Idle, NEW p \in toStore
  PROVE  /\ job.time + Place(p, job.time) \in TimesOf(job)
         /\ Offset(job.time + Place(p, job.time)) = p
<1>1. p \in Region(job.time, endWrite)
  BY DEF WriteHolds
<1>2. /\ capacity \in Nat \ {0}
      /\ job.time \in Nat /\ endWrite \in Nat
      /\ job.time < endWrite
      /\ endWrite - job.time <= capacity
  BY JobFacts
<1>3. /\ job.time + Place(p, job.time) \in job.time .. endWrite - 1
      /\ Offset(job.time + Place(p, job.time)) = p
  BY <1>1, <1>2, RegionOfTimes
<1>4. TimesOf(job) = job.time .. endWrite - 1
  BY <1>2, JobFacts DEF TimesOf
<1>5. QED
  BY <1>3, <1>4

(* A frame that read fetches is of one of the times it clamped to, and     *)
(* goes to the place of that time.                                         *)
LEMMA FetchedFrame ==
  ASSUME TypeOK, ReadHolds, NEW p \in toFetch
  PROVE  /\ \E u \in lo .. hi - 1 :
              Offset(u) = p /\ Destination(p) = u - request.time
         /\ capacity \in Nat \ {0}
         /\ request.time \in Nat /\ lo \in Nat /\ hi \in Nat
         /\ request.count \in Nat
         /\ hi - lo <= capacity
<1> USE RingAssumption
<1>1. /\ request.time \in Nat /\ request.count \in Nat
      /\ lo \in Nat /\ hi \in Nat /\ capacity \in Nat
  BY DEF TypeOK, Times
<1>2. /\ request.time <= lo /\ lo < hi /\ hi <= request.time + request.count
      /\ request.count <= capacity
      /\ p \in Region(lo, hi)
  BY DEF ReadHolds
<1>3. capacity \in Nat \ {0} /\ hi - lo <= capacity
  BY <1>1, <1>2
<1>4. lo + Place(p, lo) \in lo .. hi - 1 /\ Offset(lo + Place(p, lo)) = p
  BY <1>1, <1>2, <1>3, RegionOfTimes
<1>5. Place(p, lo) \in Int
  BY <1>1, <1>2, <1>3, RegionOfTimes
<1>6. Destination(p) = (lo + Place(p, lo)) - request.time
  BY <1>1, <1>5 DEF Destination
<1>7. QED
  BY <1>1, <1>3, <1>4, <1>6

-----------------------------------------------------------------------------
(* The writer's steps.                                                     *)

(* Storing a frame leaves those of the times less than a turn away.        *)
LEMMA OthersStay ==
  ASSUME capacity \in Nat \ {0}, capacity' = capacity,
         buffer \in [0 .. capacity - 1 -> Frames],
         NEW u \in Nat, NEW t \in Nat, NEW frame,
         t # u, t - u < capacity, u - t < capacity,
         buffer' = [buffer EXCEPT ![Offset(u)] = frame]
  PROVE  buffer'[Offset(t)'] = buffer[Offset(t)]
<1>1. Offset(t) # Offset(u)
  BY OffsetsApart
<1>2. Offset(t)' = Offset(t)
  BY DEF Offset
<1>3. Offset(t) \in 0 .. capacity - 1
  BY ModRange DEF Offset
<1>4. QED
  BY <1>1, <1>2, <1>3

(* The reader relies on the bounds, the audio and its own variables.       *)
LEMMA ReaderUndisturbed ==
  ASSUME RingInvariant, UNCHANGED <<capacity, bounds, audio, readerVars, lost>>
  PROVE  ReadHolds' /\ ReadIntact' /\ Returned'
<1>1. /\ UNCHANGED <<capacity, bounds, audio>>
      /\ UNCHANGED <<request, lo, hi, toFetch, out, expected, lost>>
  BY DEF readerVars
<1>2. \A t : Awaited(t)' = Awaited(t)
  BY <1>1 DEF Awaited, Offset
<1>3. ReadHolds'
  BY <1>1, <1>2 DEF RingInvariant, ReadHolds, Region, Offset, Span, TimesOf
<1>4. QED
  BY <1>1, <1>3 DEF RingInvariant, ReadIntact, Returned, TimesOf

LEMMA ZeroFrameKeeps ==
  ASSUME TypeOK, RingInvariant, NEW p \in toZero, ZeroFrame(p)
  PROVE  TypeOK' /\ RingInvariant'
<1> USE RingAssumption
<1>1. job # Idle
  BY DEF TypeOK
<1>2. /\ BoundsHold /\ WriteHolds /\ PublishedIntact
  BY DEF RingInvariant
<1>3. PICK u \in bounds.endTime .. job.time - 1 : Offset(u) = p
  BY <1>1, <1>2, ZeroedFrame
<1>4. /\ capacity \in Nat \ {0}
      /\ job.time \in Nat /\ job.count \in Nat
      /\ endWrite \in Nat /\ endWrite = job.time + job.count
      /\ job.time < endWrite
      /\ bounds.startTime \in Nat /\ bounds.endTime \in Nat
      /\ bounds.startTime <= bounds.endTime
      /\ bounds.endTime <= job.time
      /\ endWrite - bounds.startTime <= capacity
      /\ u \in Nat
  BY <1>1, <1>2, <1>3, JobFacts
<1>5. /\ UNCHANGED <<capacity, bounds, audio, job, toStore, readerVars, lost>>
      /\ buffer' = [buffer EXCEPT ![Offset(u)] = Silence]
      /\ toZero' = toZero \ {p}
  BY <1>3 DEF ZeroFrame
<1>6. buffer \in [0 .. capacity - 1 -> Frames] /\ Offset(u) \in 0 .. capacity - 1
  BY <1>3, <1>4 DEF TypeOK
<1>7. TypeOK'
  <2>1. buffer' \in [0 .. capacity' - 1 -> Frames]
    BY <1>5, <1>6 DEF Frames
  <2>2. endWrite' = endWrite /\ Span(bounds)' = Span(bounds)
    BY <1>5 DEF endWrite, Span
  <2>3. TimesOf(request)' = TimesOf(request)
    BY <1>5 DEF TimesOf, readerVars
  <2>4. QED
    BY <1>1, <1>5, <2>1, <2>2, <2>3 DEF TypeOK, readerVars
<1>8. ASSUME NEW t \in bounds.startTime .. endWrite - 1, t # u
      PROVE  buffer'[Offset(t)'] = buffer[Offset(t)]
  <2>1. t \in Nat /\ t - u < capacity /\ u - t < capacity
    BY <1>3, <1>4
  <2>2. QED
    BY <1>4, <1>5, <1>6, <1>8, <2>1, OthersStay
<1>9. \A t : Offset(t)' = Offset(t)
  BY <1>5 DEF Offset
<1>10. PublishedIntact'
  <2>1. ASSUME NEW t \in Span(bounds)
        PROVE  buffer'[Offset(t)'] = audio[t]
    <3>1. t \in bounds.startTime .. endWrite - 1 /\ t # u
      BY <1>3, <1>4, <2>1 DEF Span
    <3>2. QED
      BY <1>2, <1>8, <2>1, <3>1 DEF PublishedIntact
  <2>2. QED
    BY <1>5, <2>1 DEF PublishedIntact, Span
<1>11. WriteHolds'
  <2>1. ASSUME NEW t \in bounds.endTime .. job.time - 1, Offset(t) \notin toZero'
        PROVE  buffer'[Offset(t)'] = Silence
    <3>1. CASE t = u
      BY <1>5, <1>6, <1>9, <3>1
    <3>2. CASE t # u
      <4>1. t \in bounds.startTime .. endWrite - 1
        BY <1>4
      <4>2. Offset(t) # Offset(u)
        BY <1>3, <1>4, <3>2, OffsetsApart
      <4>3. buffer[Offset(t)] = Silence
        BY <1>1, <1>2, <1>3, <1>5, <2>1, <4>2 DEF WriteHolds
      <4>4. QED
        BY <1>8, <3>2, <4>1, <4>3
    <3>3. QED
      BY <3>1, <3>2
  <2>2. ASSUME NEW t \in TimesOf(job), Offset(t) \notin toStore
        PROVE  buffer'[Offset(t)'] = [take |-> job.take, time |-> t]
    <3>1. t \in bounds.startTime .. endWrite - 1 /\ t # u
      BY <1>3, <1>4, <2>2 DEF TimesOf
    <3>2. QED
      BY <1>1, <1>2, <1>8, <2>2, <3>1 DEF WriteHolds
  <2>3. /\ Region(bounds.endTime, job.time)' = Region(bounds.endTime, job.time)
        /\ Region(job.time, endWrite)' = Region(job.time, endWrite)
        /\ endWrite' = endWrite
        /\ TimesOf(job)' = TimesOf(job)
    BY <1>5, <1>9 DEF Region, endWrite, TimesOf
  <2>4. /\ bounds.endTime <= job.time
        /\ job.count >= 1
        /\ endWrite - bounds.startTime <= capacity
        /\ toZero \subseteq IF job.time > bounds.endTime
                              THEN Region(bounds.endTime, job.time) ELSE {}
        /\ toStore \subseteq Region(job.time, endWrite)
    BY <1>1, <1>2 DEF WriteHolds
  <2>5. QED
    BY <1>5, <1>9, <2>1, <2>2, <2>3, <2>4 DEF WriteHolds
<1>12. BoundsHold'
  BY <1>2, <1>5 DEF BoundsHold
<1>13. QED
  BY <1>5, <1>7, <1>10, <1>11, <1>12, ReaderUndisturbed DEF RingInvariant

LEMMA StoreFrameKeeps ==
  ASSUME TypeOK, RingInvariant, NEW p \in toStore, StoreFrame(p)
  PROVE  TypeOK' /\ RingInvariant'
<1> USE RingAssumption
<1> DEFINE u == job.time + Place(p, job.time)
           frame == [take |-> job.take, time |-> u]
<1>1. job # Idle
  BY DEF TypeOK
<1>2. BoundsHold /\ WriteHolds /\ PublishedIntact
  BY DEF RingInvariant
<1>3. u \in TimesOf(job) /\ Offset(u) = p
  BY <1>1, <1>2, StoredFrame
<1>4. /\ UNCHANGED <<capacity, bounds, audio, job, toZero, readerVars, lost>>
      /\ buffer' = [buffer EXCEPT ![Offset(u)] = frame]
      /\ toStore' = toStore \ {p}
      /\ toZero = {}
  BY <1>3 DEF StoreFrame
<1> HIDE DEF u
<1>5. /\ capacity \in Nat \ {0}
      /\ job.time \in Nat /\ job.count \in Nat /\ job.take \in Takes
      /\ endWrite \in Nat /\ endWrite = job.time + job.count
      /\ endWrite <= MaxTime
      /\ job.time < endWrite
      /\ bounds.startTime \in Nat /\ bounds.endTime \in Nat
      /\ bounds.startTime <= bounds.endTime
      /\ bounds.endTime <= job.time
      /\ endWrite - bounds.startTime <= capacity
  BY <1>1, <1>2, JobFacts
<1>6. u \in job.time .. endWrite - 1 /\ u \in Times
  BY <1>3, <1>5 DEF TimesOf, Times
<1>7. buffer \in [0 .. capacity - 1 -> Frames] /\ Offset(u) \in 0 .. capacity - 1
  BY <1>3 DEF TypeOK
<1>8. TypeOK'
  <2>1. frame \in Frames
    BY <1>5, <1>6 DEF Frames
  <2>2. buffer' \in [0 .. capacity' - 1 -> Frames]
    BY <1>4, <1>7, <2>1
  <2>3. endWrite' = endWrite /\ Span(bounds)' = Span(bounds)
    BY <1>4 DEF endWrite, Span
  <2>4. TimesOf(request)' = TimesOf(request)
    BY <1>4 DEF TimesOf, readerVars
  <2>5. QED
    BY <1>1, <1>4, <2>2, <2>3, <2>4 DEF TypeOK, readerVars
<1>9. ASSUME NEW t \in bounds.startTime .. endWrite - 1, t # u
      PROVE  buffer'[Offset(t)'] = buffer[Offset(t)]
  <2>1. /\ t \in Nat /\ u \in Nat
        /\ t - u < capacity /\ u - t < capacity
    BY <1>5, <1>6
  <2>2. QED
    BY <1>4, <1>5, <1>7, <1>9, <2>1, OthersStay
<1>10. \A t : Offset(t)' = Offset(t)
  BY <1>4 DEF Offset
<1>11. PublishedIntact'
  <2>1. ASSUME NEW t \in Span(bounds)
        PROVE  buffer'[Offset(t)'] = audio[t]
    <3>1. t \in bounds.startTime .. endWrite - 1 /\ t # u
      BY <1>5, <1>6, <2>1 DEF Span
    <3>2. QED
      BY <1>2, <1>9, <2>1, <3>1 DEF PublishedIntact
  <2>2. QED
    BY <1>4, <2>1 DEF PublishedIntact, Span
<1>12. WriteHolds'
  <2>1. ASSUME NEW t \in bounds.endTime .. job.time - 1, Offset(t) \notin toZero
        PROVE  buffer'[Offset(t)'] = Silence
    <3>1. t \in bounds.startTime .. endWrite - 1 /\ t # u
      BY <1>5, <1>6
    <3>2. QED
      BY <1>1, <1>2, <1>9, <2>1, <3>1 DEF WriteHolds
  <2>2. ASSUME NEW t \in TimesOf(job), Offset(t) \notin toStore'
        PROVE  buffer'[Offset(t)'] = [take |-> job.take, time |-> t]
    <3>1. t \in job.time .. endWrite - 1 /\ t \in bounds.startTime .. endWrite - 1
      BY <1>5, <2>2 DEF TimesOf
    <3>2. CASE t = u
      BY <1>4, <1>7, <1>10, <3>2
    <3>3. CASE t # u
      <4>1. t \in Nat /\ u \in Nat /\ t - u < capacity /\ u - t < capacity
        BY <1>5, <1>6, <3>1
      <4>2. Offset(t) # Offset(u)
        BY <1>5, <3>3, <4>1, OffsetsApart
      <4>3. buffer[Offset(t)] = [take |-> job.take, time |-> t]
        BY <1>1, <1>2, <1>3, <1>4, <2>2, <4>2 DEF WriteHolds
      <4>4. QED
        BY <1>9, <3>1, <3>3, <4>3
    <3>4. QED
      BY <3>2, <3>3
  <2>3. /\ Region(bounds.endTime, job.time)' = Region(bounds.endTime, job.time)
        /\ Region(job.time, endWrite)' = Region(job.time, endWrite)
        /\ endWrite' = endWrite
        /\ TimesOf(job)' = TimesOf(job)
    BY <1>4, <1>10 DEF Region, endWrite, TimesOf
  <2>4. /\ bounds.endTime <= job.time
        /\ job.count >= 1
        /\ endWrite - bounds.startTime <= capacity
        /\ toZero \subseteq IF job.time > bounds.endTime
                              THEN Region(bounds.endTime, job.time) ELSE {}
        /\ toStore \subseteq Region(job.time, endWrite)
    BY <1>1, <1>2 DEF WriteHolds
  <2>5. QED
    BY <1>4, <1>10, <2>1, <2>2, <2>3, <2>4 DEF WriteHolds
<1>13. BoundsHold'
  BY <1>2, <1>4 DEF BoundsHold
<1>14. QED
  BY <1>4, <1>8, <1>11, <1>12, <1>13, ReaderUndisturbed DEF RingInvariant

LEMMA BeginWriteKeeps ==
  ASSUME TypeOK, RingInvariant, NEW w \in Writes, BeginWrite(w)
  PROVE  TypeOK' /\ RingInvariant'
<1> USE RingAssumption
<1> DEFINE made == MadeRoom(w)
           stop == w.time + w.count
<1>1. /\ job = Idle
      /\ w.count <= capacity
      /\ job' = w
      /\ bounds' = made
      /\ toZero' = IF w.time > made.endTime THEN Region(made.endTime, w.time)
                                            ELSE {}
      /\ toStore' = Region(w.time, stop)
      /\ audio' = [t \in Span(made) |-> audio[t]]
      /\ lost' = IF toFetch = {} THEN lost
                 ELSE lost \cup (lo .. hi - 1 \ Span(made))
      /\ UNCHANGED <<capacity, buffer, readerVars>>
  BY DEF BeginWrite, MakeRoom
<1>2. /\ capacity \in Nat \ {0}
      /\ made \in [startTime : Times, endTime : Times]
      /\ made.startTime <= made.endTime
      /\ made.endTime <= w.time
      /\ stop - made.startTime <= capacity
      /\ Span(made) \subseteq Span(bounds)
  <2>1. BoundsHold /\ w.count <= capacity
    BY <1>1 DEF RingInvariant
  <2>2. QED
    <3>1. /\ capacity \in Nat \ {0}
          /\ MadeRoom(w) \in [startTime : Times, endTime : Times]
          /\ MadeRoom(w).startTime <= MadeRoom(w).endTime
          /\ MadeRoom(w).endTime <= w.time
          /\ w.time + w.count - MadeRoom(w).startTime <= capacity
          /\ Span(MadeRoom(w)) \subseteq Span(bounds)
      BY <2>1, RoomIsMade
    <3>2. /\ w.time \in Nat /\ w.count \in Nat /\ capacity \in Nat
          /\ MadeRoom(w).startTime \in Nat
      BY <3>1 DEF Writes, Times
    <3>3. stop - made.startTime <= capacity
      BY <3>1, <3>2
    <3>4. QED
      BY <3>1, <3>3
<1>3. /\ w \in [time : Times, count : Times, take : Takes]
      /\ w.time \in Nat /\ w.count \in Nat /\ w.count >= 1
      /\ stop \in Times /\ stop \in Nat /\ w.time < stop
      /\ MaxTime \in Nat
  BY DEF Writes, Times
<1> HIDE DEF made
<1>4. /\ made.startTime \in Nat /\ made.endTime \in Nat
  BY <1>2 DEF Times
<1>5. \A t : Offset(t)' = Offset(t)
  BY <1>1 DEF Offset
<1>6. endWrite' = stop /\ TimesOf(job)' = w.time .. stop - 1
  <2>1. endWrite' = job'.time + job'.count
    BY DEF endWrite
  <2>2. TimesOf(job)' = job'.time .. job'.time + job'.count - 1
    BY DEF TimesOf
  <2>3. job'.time = w.time /\ job'.count = w.count
    BY <1>1
  <2>4. QED
    BY <1>3, <2>1, <2>2, <2>3 DEF stop
<1> HIDE DEF stop
<1>7. job' # Idle
  BY <1>1, <1>3 DEF Idle
<1>8. UNCHANGED <<request, lo, hi, toFetch, out, dataSize, expected>>
  BY <1>1 DEF readerVars
<1>9. TypeOK'
  <2>1. audio' \in [Span(made) -> Frames]
    BY <1>1, <1>2 DEF TypeOK
  <2>2. toZero' \subseteq 0 .. capacity - 1 /\ toStore' \subseteq 0 .. capacity - 1
    BY <1>1, <1>2, <1>3, <1>4, RegionRange
  <2>3. lost' \subseteq Times
    <3>1. lost \subseteq Times /\ lo .. hi - 1 \subseteq Times
      BY <1>3 DEF TypeOK, Times
    <3>2. lost' \subseteq lost \cup lo .. hi - 1
      BY <1>1
    <3>3. QED
      BY <3>1, <3>2
  <2>4. Span(bounds)' = Span(made)
    BY <1>1 DEF Span
  <2>5. TimesOf(request)' = TimesOf(request)
    BY <1>8 DEF TimesOf
  <2>6. QED
    BY <1>1, <1>2, <1>3, <1>6, <1>7, <1>8, <2>1, <2>2, <2>3, <2>4, <2>5 DEF TypeOK
<1>10. BoundsHold'
  BY <1>1, <1>2, <1>3, <1>4 DEF BoundsHold
<1>11. WriteHolds'
  <2>1. ASSUME NEW t \in made.endTime .. w.time - 1
        PROVE  Offset(t) \in toZero'
    <3>1. /\ made.endTime < w.time
          /\ w.time - made.endTime <= capacity
      BY <1>2, <1>3, <1>4, <2>1
    <3>2. Offset(t) \in Region(made.endTime, w.time)
      BY <1>2, <1>3, <1>4, <2>1, <3>1, RegionOfTimes
    <3>3. QED
      BY <1>1, <3>1, <3>2
  <2>2. ASSUME NEW t \in w.time .. stop - 1
        PROVE  Offset(t) \in toStore'
    <3>1. stop - w.time <= capacity
      BY <1>2, <1>3, <1>4
    <3>2. QED
      BY <1>1, <1>2, <1>3, <2>2, <3>1, RegionOfTimes
  <2>3. /\ Region(made.endTime, w.time)' = Region(made.endTime, w.time)'
        /\ \A a, b : Region(a, b)' = Region(a, b)
    BY <1>1, <1>5 DEF Region
  <2>4. /\ bounds'.endTime <= job'.time
        /\ job'.count >= 1
        /\ endWrite' - bounds'.startTime <= capacity'
    BY <1>1, <1>2, <1>3, <1>6
  <2>5. /\ toZero' \subseteq IF job'.time > bounds'.endTime
                               THEN Region(bounds.endTime, job.time)' ELSE {}
        /\ toStore' \subseteq Region(job.time, endWrite)'
    <3>1. /\ Region(bounds.endTime, job.time)' = Region(made.endTime, w.time)
          /\ Region(job.time, endWrite)' = Region(w.time, stop)
      BY <1>1, <1>5, <1>6 DEF Region
    <3>2. QED
      BY <1>1, <3>1
  <2>6. /\ \A t \in bounds'.endTime .. job'.time - 1 : Offset(t)' \in toZero'
        /\ \A t \in TimesOf(job)' : Offset(t)' \in toStore'
    BY <1>1, <1>5, <1>6, <2>1, <2>2
  <2>7. QED
    BY <2>4, <2>5, <2>6 DEF WriteHolds
<1>12. PublishedIntact'
  <2>1. ASSUME NEW t \in Span(made)
        PROVE  buffer[Offset(t)] = audio'[t]
    BY <1>1, <1>2, <2>1 DEF RingInvariant, PublishedIntact
  <2>2. Span(bounds)' = Span(made)
    BY <1>1 DEF Span
  <2>3. QED
    BY <1>1, <1>5, <2>1, <2>2 DEF PublishedIntact
<1>13. ReadHolds'
  <2> SUFFICES ASSUME toFetch # {}
               PROVE  ReadHolds'
    BY <1>8 DEF ReadHolds
  <2>1. lost' = lost \cup (lo .. hi - 1 \ Span(made))
    BY <1>1
  <2>2. Span(bounds)' = Span(made)
    BY <1>1 DEF Span
  <2>3. ASSUME NEW t \in lo .. hi - 1 \ lost'
        PROVE  t \in Span(made) /\ audio'[t] = expected[t]
    <3>1. t \in Span(made) /\ t \in lo .. hi - 1 \ lost
      BY <2>1, <2>3
    <3>2. audio[t] = expected[t]
      BY <3>1 DEF RingInvariant, ReadHolds
    <3>3. QED
      BY <1>1, <3>1, <3>2
  <2>4. /\ Region(lo, hi)' = Region(lo, hi)
        /\ \A t : Awaited(t)' = Awaited(t)
        /\ TimesOf(request)' = TimesOf(request)
    BY <1>1, <1>5, <1>8 DEF Region, Awaited, TimesOf
  <2>5. /\ request.time <= lo /\ lo < hi
        /\ hi <= request.time + request.count
        /\ request.count <= capacity
        /\ toFetch \subseteq Region(lo, hi)
        /\ lost' \subseteq lo .. hi - 1
    BY <2>1 DEF RingInvariant, ReadHolds
  <2>6. \A t \in TimesOf(request) : ~Awaited(t) =>
          /\ out[t - request.time] \in Frames
          /\ t \notin lost' => out[t - request.time] = expected[t]
    BY <2>1 DEF RingInvariant, ReadHolds
  <2>7. QED
    BY <1>1, <1>8, <2>2, <2>3, <2>4, <2>5, <2>6 DEF ReadHolds
<1>14. ReadIntact' /\ Returned'
  BY <1>1, <1>8 DEF RingInvariant, ReadIntact, Returned, TimesOf
<1>15. QED
  BY <1>9, <1>10, <1>11, <1>12, <1>13, <1>14 DEF RingInvariant

LEMMA EndWriteKeeps ==
  ASSUME TypeOK, RingInvariant, EndWrite
  PROVE  TypeOK' /\ RingInvariant'
<1> USE RingAssumption
<1>1. /\ job # Idle /\ toZero = {} /\ toStore = {}
      /\ job' = Idle
      /\ bounds' = [bounds EXCEPT !.endTime = endWrite]
      /\ audio' = [t \in Span(bounds') |->
                     IF t \in Span(bounds) THEN audio[t]
                     ELSE IF t \in TimesOf(job)
                       THEN [take |-> job.take, time |-> t]
                       ELSE Silence]
      /\ UNCHANGED <<capacity, buffer, readerVars, lost, toZero, toStore>>
  BY DEF EndWrite, Publish
<1>2. BoundsHold /\ WriteHolds /\ PublishedIntact
  BY DEF RingInvariant
<1>3. /\ capacity \in Nat \ {0}
      /\ job.time \in Nat /\ job.count \in Nat /\ job.take \in Takes
      /\ endWrite \in Nat /\ endWrite = job.time + job.count
      /\ endWrite <= MaxTime
      /\ job.time < endWrite
      /\ bounds.startTime \in Nat /\ bounds.endTime \in Nat
      /\ bounds.startTime <= bounds.endTime
      /\ bounds.endTime <= job.time
      /\ endWrite - bounds.startTime <= capacity
  BY <1>1, <1>2, JobFacts
<1>4. /\ bounds \in [startTime : Times, endTime : Times]
      /\ endWrite \in Times
  BY DEF TypeOK
<1>5. /\ bounds' \in [startTime : Times, endTime : Times]
      /\ bounds'.startTime = bounds.startTime
      /\ bounds'.endTime = endWrite
  BY <1>1, <1>4
<1>6. /\ Span(bounds') = bounds.startTime .. endWrite - 1
      /\ Span(bounds) = bounds.startTime .. bounds.endTime - 1
      /\ TimesOf(job) = job.time .. endWrite - 1
      /\ Span(bounds) \subseteq Span(bounds')
  BY <1>3, <1>5 DEF Span, TimesOf
<1>7. UNCHANGED <<request, lo, hi, toFetch, out, dataSize, expected>>
  BY <1>1 DEF readerVars
<1>8. \A t : Offset(t)' = Offset(t)
  BY <1>1 DEF Offset
<1>9. TypeOK'
  <2>1. audio' \in [Span(bounds') -> Frames]
    <3>1. ASSUME NEW t \in Span(bounds')
          PROVE  audio'[t] \in Frames
      <4>1. t \in Times
        BY <1>3, <1>6, <3>1 DEF Times
      <4>2. QED
        BY <1>1, <1>3, <3>1, <4>1 DEF TypeOK, Frames
    <3>2. QED
      BY <1>1, <3>1
  <2>2. endWrite' \in Times
    BY <1>1 DEF endWrite, Idle, Times
  <2>3. TimesOf(request)' = TimesOf(request) /\ Span(bounds)' = Span(bounds')
    BY <1>7 DEF TimesOf, Span
  <2>4. QED
    BY <1>1, <1>5, <1>7, <2>1, <2>2, <2>3 DEF TypeOK
<1>10. BoundsHold'
  BY <1>1, <1>3, <1>5 DEF BoundsHold
<1>11. WriteHolds'
  BY <1>1 DEF WriteHolds
<1>12. PublishedIntact'
  <2>1. ASSUME NEW t \in Span(bounds')
        PROVE  buffer[Offset(t)] = audio'[t]
    <3>1. CASE t \in Span(bounds)
      BY <1>1, <1>2, <2>1, <3>1 DEF PublishedIntact
    <3>2. CASE t \notin Span(bounds) /\ t \in TimesOf(job)
      BY <1>1, <1>2, <2>1, <3>2 DEF WriteHolds
    <3>3. CASE t \notin Span(bounds) /\ t \notin TimesOf(job)
      <4>1. t \in bounds.endTime .. job.time - 1
        BY <1>3, <1>6, <2>1, <3>3
      <4>2. buffer[Offset(t)] = Silence
        BY <1>1, <1>2, <4>1 DEF WriteHolds
      <4>3. QED
        BY <1>1, <2>1, <3>3, <4>2
    <3>4. QED
      BY <3>1, <3>2, <3>3
  <2>2. QED
    BY <1>1, <1>8, <2>1 DEF PublishedIntact, Span
<1>13. ReadHolds'
  <2> SUFFICES ASSUME toFetch # {}
               PROVE  ReadHolds'
    BY <1>7 DEF ReadHolds
  <2>1. ASSUME NEW t \in lo .. hi - 1 \ lost
        PROVE  t \in Span(bounds') /\ audio'[t] = expected[t]
    BY <1>1, <1>6, <2>1 DEF RingInvariant, ReadHolds
  <2>2. /\ Region(lo, hi)' = Region(lo, hi)
        /\ \A t : Awaited(t)' = Awaited(t)
        /\ TimesOf(request)' = TimesOf(request)
        /\ Span(bounds)' = Span(bounds')
    BY <1>1, <1>7, <1>8 DEF Region, Awaited, TimesOf, Span
  <2>3. /\ request.time <= lo /\ lo < hi
        /\ hi <= request.time + request.count
        /\ request.count <= capacity
        /\ toFetch \subseteq Region(lo, hi)
        /\ lost \subseteq lo .. hi - 1
        /\ \A t \in TimesOf(request) : ~Awaited(t) =>
             /\ out[t - request.time] \in Frames
             /\ t \notin lost => out[t - request.time] = expected[t]
    BY DEF RingInvariant, ReadHolds
  <2>4. QED
    BY <1>1, <1>7, <2>1, <2>2, <2>3 DEF ReadHolds
<1>14. ReadIntact' /\ Returned'
  BY <1>1, <1>7 DEF RingInvariant, ReadIntact, Returned, TimesOf
<1>15. QED
  BY <1>9, <1>10, <1>11, <1>12, <1>13, <1>14 DEF RingInvariant

-----------------------------------------------------------------------------
(* The reader's steps.                                                     *)

(* clampTimesToBounds leaves just the times that are within the bounds.    *)
LEMMA ClampedTimes ==
  ASSUME NEW call \in Calls, NEW b \in [startTime : Times, endTime : Times],
         b.startTime <= b.endTime, ReadFrom(call, b)
  PROVE  /\ call.time \in Nat /\ call.count \in Nat /\ call.count >= 1
         /\ call.time + call.count <= MaxTime
         /\ \E low, high \in Nat :
              /\ lo' = low /\ hi' = high
              /\ call.time <= low /\ low <= high /\ high <= call.time + call.count
              /\ \A t \in TimesOf(call) : t \in Span(b) <=> t \in low .. high - 1
<1> USE RingAssumption
<1> DEFINE stop == call.time + call.count
<1>1. /\ call.time \in Nat /\ call.count \in Nat /\ call.count >= 1
      /\ stop <= MaxTime /\ stop \in Nat
      /\ TimesOf(call) = call.time .. stop - 1
  BY DEF Calls, Times, TimesOf
<1>2. /\ b.startTime \in Nat /\ b.endTime \in Nat
      /\ Span(b) = b.startTime .. b.endTime - 1
  BY DEF Times, Span
<1>3. CASE call.time > b.endTime \/ stop < b.startTime
  <2>1. lo' = call.time /\ hi' = call.time
    BY <1>3 DEF ReadFrom
  <2>2. \A t \in TimesOf(call) :
          t \notin Span(b) /\ t \notin call.time .. call.time - 1
    BY <1>1, <1>2, <1>3
  <2>3. QED
    BY <1>1, <2>1, <2>2
<1>4. CASE ~(call.time > b.endTime \/ stop < b.startTime)
  <2>1. /\ lo' = Larger(call.time, b.startTime)
        /\ hi' = Clamp(stop, lo', b.endTime)
    BY <1>4 DEF ReadFrom
  <2>2. /\ lo' \in Nat /\ call.time <= lo' /\ b.startTime <= lo'
        /\ lo' = call.time \/ lo' = b.startTime
        /\ lo' <= stop /\ lo' <= b.endTime
    BY <1>1, <1>2, <1>4, <2>1 DEF Larger
  <2>3. hi' = IF b.endTime < stop THEN b.endTime ELSE stop
    BY <1>1, <1>2, <2>1, <2>2 DEF Clamp
  <2>4. QED
    BY <1>1, <1>2, <2>2, <2>3
<1>5. QED
  BY <1>3, <1>4

(* A read that has clamped its times to bounds b that are in order, in     *)
(* date or not, holds what it should: provided that the times it found     *)
(* within b and does not know as lost are in the ring, and that it is to   *)
(* give silence at the others.                                             *)
LEMMA ReadStarts ==
  ASSUME capacity \in Nat, UNCHANGED capacity,
         NEW call \in Calls, call.count <= capacity,
         NEW b \in [startTime : Times, endTime : Times],
         b.startTime <= b.endTime, ReadFrom(call, b),
         expected' \in [TimesOf(call) -> Frames],
         lost' \subseteq TimesOf(call) \cap Span(b),
         \A t \in TimesOf(call) \ Span(b) : expected'[t] = Silence,
         \A t \in (TimesOf(call) \cap Span(b)) \ lost' :
           t \in Span(bounds)' /\ audio'[t] = expected'[t]
  PROVE  /\ ReaderTypeOK' /\ ReadHolds' /\ ReadIntact' /\ Returned'
         /\ TimesOf(call) \cap Span(b) =
              IF toFetch' = {} THEN {} ELSE lo' .. hi' - 1
<1>1. /\ call.time \in Nat /\ call.count \in Nat /\ call.count >= 1
      /\ call.time + call.count <= MaxTime
  BY ClampedTimes
<1>2. PICK low, high \in Nat :
        /\ lo' = low /\ hi' = high
        /\ call.time <= low /\ low <= high /\ high <= call.time + call.count
        /\ \A t \in TimesOf(call) : t \in Span(b) <=> t \in low .. high - 1
  BY ClampedTimes
<1>3. /\ lo' = low /\ hi' = high
      /\ call.time <= low /\ low <= high /\ high <= call.time + call.count
  BY <1>2
<1>4. /\ request' = call
      /\ toFetch' = IF low = high THEN {} ELSE Region(low, high)
      /\ out' = [i \in 0 .. call.count - 1 |->
                   IF i \in Silenced(call, low - call.time, high - low)
                     THEN Silence ELSE Stale]
      /\ dataSize' = call.count
  BY <1>2 DEF ReadFrom
<1>5. /\ capacity \in Nat \ {0} /\ high - low <= capacity
      /\ TimesOf(call) = call.time .. call.time + call.count - 1
  BY <1>1, <1>3 DEF TimesOf
<1>6. TimesOf(call) \cap Span(b) = low .. high - 1
  <2>1. low .. high - 1 \subseteq TimesOf(call)
    BY <1>1, <1>3, <1>5
  <2>2. QED
    BY <1>2, <2>1
<1>7. \A t : Offset(t)' = Offset(t)
  BY DEF Offset
<1>8. low # high =>
        /\ low < high
        /\ toFetch' = Region(low, high)
        /\ \A t \in low .. high - 1 : Offset(t) \in toFetch'
  <2>1. CASE low # high
    <3>1. low < high
      BY <1>3, <2>1
    <3>2. QED
      BY <1>4, <1>5, <2>1, <3>1, RegionOfTimes
  <2>2. QED
    BY <2>1
<1>9. TimesOf(request)' = TimesOf(call) /\ DOMAIN expected' = TimesOf(call)
  BY <1>4 DEF TimesOf
<1>10. ReaderTypeOK'
  <2>1. /\ lo' \in Times /\ hi' \in Times
        /\ call \in [time : Times, count : Times]
    BY <1>1, <1>3, RingAssumption DEF Times, Calls
  <2>2. toFetch' \subseteq 0 .. capacity - 1
    BY <1>4, <1>5, RegionRange
  <2>3. out' \in [0 .. call.count - 1 -> Frames \cup {Stale}]
    BY <1>4 DEF Frames
  <2>4. dataSize' \in 0 .. call.count /\ lost' \subseteq Times
    <3>1. low .. high - 1 \subseteq Times
      BY <1>1, <1>3, RingAssumption DEF Times
    <3>2. QED
      BY <1>1, <1>4, <1>6, <3>1
  <2>5. QED
    BY <1>4, <1>9, <2>1, <2>2, <2>3, <2>4 DEF ReaderTypeOK
<1>11. ASSUME NEW t \in TimesOf(call), t \notin low .. high - 1
       PROVE  out'[t - call.time] = Silence /\ expected'[t] = Silence
  <2>1. t - call.time \in 0 .. call.count - 1 /\ t \in Int
    BY <1>1, <1>5, <1>11
  <2>2. \/ high - low = 0
        \/ t - call.time < low - call.time
        \/ t - call.time >= low - call.time + (high - low)
    BY <1>1, <1>3, <1>11, <2>1
  <2>3. t - call.time \in Silenced(call, low - call.time, high - low)
    BY <2>1, <2>2 DEF Silenced
  <2>4. t \in TimesOf(call) \ Span(b)
    BY <1>6, <1>11
  <2>5. QED
    BY <1>4, <2>1, <2>3, <2>4
<1>12. ReadHolds'
  <2> SUFFICES ASSUME low # high
               PROVE  ReadHolds'
    BY <1>4 DEF ReadHolds
  <2>1. Region(lo, hi)' = Region(low, high)
    BY <1>3 DEF Region, Offset
  <2>2. \A t \in low .. high - 1 : Awaited(t)'
    BY <1>3, <1>7, <1>8 DEF Awaited
  <2>3. ASSUME NEW t \in TimesOf(request)', ~Awaited(t)'
        PROVE  out'[t - request'.time] \in Frames
               /\ out'[t - request'.time] = expected'[t]
    BY <1>4, <1>9, <1>11, <2>2, <2>3 DEF Frames
  <2>4. \A t \in low .. high - 1 \ lost' :
          t \in Span(bounds)' /\ audio'[t] = expected'[t]
    BY <1>6
  <2>5. lost' \subseteq low .. high - 1
    BY <1>6
  <2>6. QED
    BY <1>1, <1>3, <1>4, <1>8, <2>1, <2>3, <2>4, <2>5 DEF ReadHolds
<1>13. ReadIntact' /\ Returned' /\ (toFetch' = {} => low .. high - 1 = {})
  <2> SUFFICES ASSUME toFetch' = {}
               PROVE  ReadIntact' /\ Returned' /\ low .. high - 1 = {}
    BY DEF ReadIntact, Returned
  <2>1. low = high
    <3>1. CASE low # high
      <4>1. low \in low .. high - 1
        BY <1>8, <3>1
      <4>2. QED
        BY <1>8, <3>1, <4>1
    <3>2. QED
      BY <3>1
  <2>2. low .. high - 1 = {}
    BY <2>1
  <2>3. QED
    BY <1>4, <1>9, <1>11, <2>2 DEF ReadIntact, Returned, Frames
<1>14. QED
  BY <1>3, <1>6, <1>10, <1>12, <1>13

LEMMA BeginReadKeeps ==
  ASSUME TypeOK, RingInvariant, NEW call \in Calls, BeginRead(call)
  PROVE  /\ TypeOK' /\ RingInvariant'
         /\ TimesOf(call) \cap Span(bounds) =
              IF toFetch' = {} THEN {} ELSE lo' .. hi' - 1
<1>1. /\ call.count <= capacity
      /\ ReadFrom(call, bounds)
      /\ request' = call
      /\ expected' = [t \in TimesOf(call) |->
                        IF t \in Span(bounds) THEN audio[t] ELSE Silence]
      /\ lost' = {}
      /\ UNCHANGED <<capacity, buffer, bounds, audio, job, toZero, toStore>>
  BY DEF BeginRead, ReadFrom, AudioAt, writerVars
<1>2. /\ capacity \in Nat
      /\ bounds \in [startTime : Times, endTime : Times]
      /\ audio \in [Span(bounds) -> Frames]
      /\ bounds.startTime <= bounds.endTime
  BY RingAssumption DEF TypeOK, RingInvariant, BoundsHold
<1>3. expected' \in [TimesOf(call) -> Frames]
  BY <1>1, <1>2 DEF Frames
<1>4. \A t \in TimesOf(call) \ Span(bounds) : expected'[t] = Silence
  BY <1>1
<1>5. Span(bounds)' = Span(bounds)
  BY <1>1 DEF Span
<1>6. \A t \in (TimesOf(call) \cap Span(bounds)) \ lost' :
        t \in Span(bounds)' /\ audio'[t] = expected'[t]
  BY <1>1, <1>5
<1>7. lost' \subseteq TimesOf(call) \cap Span(bounds)
  BY <1>1
<1>8. /\ ReaderTypeOK' /\ ReadHolds' /\ ReadIntact' /\ Returned'
      /\ TimesOf(call) \cap Span(bounds) =
           IF toFetch' = {} THEN {} ELSE lo' .. hi' - 1
  BY <1>1, <1>2, <1>3, <1>4, <1>6, <1>7, ReadStarts
<1>9. TypeOK'
  <2>1. endWrite' = endWrite
    BY <1>1 DEF endWrite
  <2>2. QED
    BY <1>1, <1>5, <1>8, <2>1 DEF TypeOK, ReaderTypeOK
<1>10. \A t : Offset(t)' = Offset(t)
  BY <1>1 DEF Offset
<1>11. BoundsHold' /\ PublishedIntact'
  BY <1>1, <1>5, <1>10 DEF RingInvariant, BoundsHold, PublishedIntact
<1>12. WriteHolds'
  BY <1>1, <1>10
     DEF RingInvariant, WriteHolds, endWrite, Region, Offset, TimesOf
<1>13. QED
  BY <1>8, <1>9, <1>11, <1>12 DEF RingInvariant

LEMMA FetchFrameKeeps ==
  ASSUME TypeOK, RingInvariant, NEW p \in toFetch, FetchFrame(p)
  PROVE  TypeOK' /\ RingInvariant'
<1> USE RingAssumption
<1>1. BoundsHold /\ PublishedIntact /\ WriteHolds /\ ReadHolds
  BY DEF RingInvariant
<1>a. PICK u \in lo .. hi - 1 : Offset(u) = p /\ Destination(p) = u - request.time
  BY <1>1, FetchedFrame
<1>2. /\ u \in lo .. hi - 1
      /\ Offset(u) = p
      /\ Destination(p) = u - request.time
      /\ capacity \in Nat \ {0}
      /\ request.time \in Nat /\ lo \in Nat /\ hi \in Nat
      /\ request.count \in Nat
      /\ hi - lo <= capacity
  BY <1>1, <1>a, FetchedFrame
<1>3. /\ request.time <= lo /\ lo < hi
      /\ hi <= request.time + request.count
      /\ request.count <= capacity
      /\ toFetch \subseteq Region(lo, hi)
      /\ lost \subseteq lo .. hi - 1
      /\ \A t \in lo .. hi - 1 \ lost : t \in Span(bounds) /\ audio[t] = expected[t]
      /\ \A t \in TimesOf(request) : ~Awaited(t) =>
           /\ out[t - request.time] \in Frames
           /\ t \notin lost => out[t - request.time] = expected[t]
  BY <1>1 DEF ReadHolds
<1>4. /\ out' = [out EXCEPT ![u - request.time] = buffer[p]]
      /\ toFetch' = toFetch \ {p}
      /\ dataSize' = IF toFetch' = {} THEN hi - lo ELSE dataSize
      /\ UNCHANGED <<capacity, buffer, bounds, audio, writerVars>>
      /\ UNCHANGED <<request, lo, hi, expected, lost>>
  BY <1>2 DEF FetchFrame
<1>5. /\ TimesOf(request) = request.time .. request.time + request.count - 1
      /\ u \in TimesOf(request) /\ u \in Nat
      /\ u - request.time \in 0 .. request.count - 1
  BY <1>2, <1>3 DEF TimesOf
<1>6. /\ buffer[p] \in Frames
      /\ out \in [0 .. request.count - 1 -> Frames \cup {Stale}]
  BY DEF TypeOK
<1>7. UNCHANGED <<job, toZero, toStore>>
  BY <1>4 DEF writerVars
<1>8. /\ \A t : Offset(t)' = Offset(t)
      /\ TimesOf(request)' = TimesOf(request)
      /\ Span(bounds)' = Span(bounds)
      /\ endWrite' = endWrite
      /\ Region(lo, hi)' = Region(lo, hi)
  BY <1>4, <1>7 DEF Offset, TimesOf, Span, endWrite, Region
<1>9. TypeOK'
  <2>1. out' \in [0 .. request.count - 1 -> Frames \cup {Stale}]
    BY <1>4, <1>6
  <2>2. dataSize' \in 0 .. request.count
    <3>1. hi - lo \in 0 .. request.count
      BY <1>2, <1>3
    <3>2. QED
      BY <1>4, <3>1 DEF TypeOK
  <2>3. QED
    BY <1>4, <1>7, <1>8, <2>1, <2>2 DEF TypeOK
<1>10. BoundsHold' /\ PublishedIntact'
  BY <1>1, <1>4, <1>8 DEF BoundsHold, PublishedIntact
<1>11. WriteHolds'
  BY <1>1, <1>4, <1>7, <1>8 DEF WriteHolds, endWrite, Region, Offset, TimesOf
<1>12. ASSUME NEW t \in TimesOf(request), ~Awaited(t)'
       PROVE  /\ out'[t - request.time] \in Frames
              /\ t \notin lost => out'[t - request.time] = expected[t]
  <2>1. CASE t = u
    <3>1. out'[t - request.time] = buffer[p]
      BY <1>4, <1>5, <1>6, <2>1
    <3>2. ASSUME t \notin lost
          PROVE  buffer[p] = expected[t]
      <4>1. t \in Span(bounds) /\ audio[t] = expected[t]
        BY <1>2, <1>3, <2>1, <3>2
      <4>2. buffer[p] = audio[t]
        BY <1>1, <1>2, <2>1, <4>1 DEF PublishedIntact
      <4>3. QED
        BY <4>1, <4>2
    <3>3. QED
      BY <1>6, <3>1, <3>2
  <2>2. CASE t # u
    <3>1. t - request.time # u - request.time /\ t - request.time \in 0 .. request.count - 1
      BY <1>2, <1>5, <1>12, <2>2
    <3>2. out'[t - request.time] = out[t - request.time]
      BY <1>4, <1>6, <3>1
    <3>3. ~Awaited(t)
      <4>1. CASE t \in lo .. hi - 1
        <5>1. t \in Nat /\ t - u < capacity /\ u - t < capacity
          BY <1>2, <4>1
        <5>2. Offset(t) # p
          BY <1>2, <1>5, <2>2, <5>1, OffsetsApart
        <5>3. QED
          BY <1>4, <1>8, <1>12, <5>2 DEF Awaited
      <4>2. CASE t \notin lo .. hi - 1
        BY <4>2 DEF Awaited
      <4>3. QED
        BY <4>1, <4>2
    <3>4. QED
      BY <1>3, <1>12, <3>2, <3>3
  <2>3. QED
    BY <2>1, <2>2
<1>13. ReadHolds'
  BY <1>3, <1>4, <1>8, <1>12 DEF ReadHolds
<1>14. ReadIntact' /\ Returned'
  <2> SUFFICES ASSUME toFetch' = {}
               PROVE  ReadIntact' /\ Returned'
    BY DEF ReadIntact, Returned
  <2>1. \A t \in TimesOf(request) : ~Awaited(t)'
    BY DEF Awaited
  <2>2. DOMAIN expected = TimesOf(request)
    BY DEF TypeOK
  <2>3. QED
    BY <1>4, <1>8, <1>12, <2>1, <2>2 DEF ReadIntact, Returned
<1>15. QED
  BY <1>9, <1>10, <1>11, <1>13, <1>14 DEF RingInvariant

-----------------------------------------------------------------------------
(* allocate, deallocate and reset empty the bounds, with no call under way. *)
LEMMA ManageKeeps ==
  ASSUME TypeOK, RingInvariant, Manage
  PROVE  TypeOK' /\ RingInvariant'
<1> USE RingAssumption
<1>1. /\ job = Idle /\ toFetch = {}
      /\ bounds' = [startTime |-> 0, endTime |-> 0]
      /\ audio' = Nothing
      /\ UNCHANGED <<writerVars, readerVars, lost>>
  BY DEF Manage, Allocate, Deallocate, Reset, Quiet, EmptyBounds
<1>2. /\ UNCHANGED <<job, toZero, toStore, request, lo, hi, toFetch, out,
                     dataSize, expected, lost>>
  BY <1>1 DEF writerVars, readerVars
<1>3. /\ capacity' \in Capacities \cup {0}
      /\ buffer' \in [0 .. capacity' - 1 -> Frames]
  <2>1. ASSUME NEW c \in Capacities, Allocate(c)
        PROVE  /\ capacity' \in Capacities \cup {0}
               /\ buffer' \in [0 .. capacity' - 1 -> Frames]
    BY <2>1 DEF Allocate, Frames
  <2>2. CASE Deallocate
    <3>1. 0 .. 0 - 1 = {}
      OBVIOUS
    <3>2. buffer' = [offset \in 0 .. 0 - 1 |-> Silence]
      BY <2>2, <3>1 DEF Deallocate, Nothing
    <3>3. QED
      BY <2>2, <3>2 DEF Deallocate, Frames
  <2>3. CASE Reset
    BY <2>3 DEF Reset, TypeOK
  <2>4. QED
    BY <2>1, <2>2, <2>3 DEF Manage
<1>4. Span(bounds)' = {}
  BY <1>1 DEF Span
<1>5. TypeOK'
  <2>1. audio' \in [Span(bounds)' -> Frames]
    BY <1>1, <1>4 DEF Nothing
  <2>2. bounds' \in [startTime : Times, endTime : Times]
    BY <1>1 DEF Times
  <2>3. toFetch' = {} /\ toZero' = {} /\ toStore' = {}
    BY <1>1, <1>2 DEF TypeOK
  <2>4. endWrite' = endWrite /\ TimesOf(request)' = TimesOf(request)
    BY <1>2 DEF endWrite, TimesOf
  <2>5. QED
    BY <1>2, <1>3, <2>1, <2>2, <2>3, <2>4 DEF TypeOK
<1>6. BoundsHold'
  BY <1>1, <1>3 DEF BoundsHold
<1>7. WriteHolds' /\ ReadHolds'
  BY <1>1, <1>2 DEF WriteHolds, ReadHolds
<1>8. PublishedIntact'
  BY <1>4 DEF PublishedIntact
<1>9. ReadIntact' /\ Returned'
  BY <1>2 DEF RingInvariant, ReadIntact, Returned, TimesOf
<1>10. QED
  BY <1>5, <1>6, <1>7, <1>8, <1>9 DEF RingInvariant

LEMMA InitHolds ==
  ASSUME Init
  PROVE  TypeOK /\ RingInvariant
<1> USE RingAssumption
<1>1. /\ capacity = 0 /\ bounds = [startTime |-> 0, endTime |-> 0]
      /\ buffer = Nothing /\ audio = Nothing
      /\ job = Idle /\ toZero = {} /\ toStore = {}
      /\ request = [time |-> 0, count |-> 0] /\ lo = 0 /\ hi = 0
      /\ toFetch = {} /\ out = Nothing /\ dataSize = 0 /\ expected = Nothing
      /\ lost = {}
  BY DEF Init
<1>2. /\ Span(bounds) = {} /\ TimesOf(request) = {}
      /\ 0 .. capacity - 1 = {} /\ 0 .. request.count - 1 = {}
      /\ endWrite = 0 /\ 0 \in Times
  BY <1>1 DEF Span, TimesOf, endWrite, Idle, Times
<1>3. Nothing \in [{} -> Frames] /\ Nothing \in [{} -> Frames \cup {Stale}]
  BY DEF Nothing
<1>4. TypeOK
  BY <1>1, <1>2, <1>3 DEF TypeOK
<1>5. RingInvariant
  <2>1. DOMAIN expected = {}
    BY <1>1 DEF Nothing
  <2>2. BoundsHold
    BY <1>1 DEF BoundsHold
  <2>3. WriteHolds /\ ReadHolds
    BY <1>1 DEF WriteHolds, ReadHolds
  <2>4. PublishedIntact /\ ReadIntact /\ Returned
    BY <1>2, <2>1 DEF PublishedIntact, ReadIntact, Returned
  <2>5. QED
    BY <2>2, <2>3, <2>4 DEF RingInvariant
<1>6. QED
  BY <1>4, <1>5

LEMMA StutterKeeps ==
  ASSUME TypeOK, RingInvariant, UNCHANGED vars
  PROVE  TypeOK' /\ RingInvariant'
<1>1. UNCHANGED <<capacity, buffer, bounds, audio, job, toZero, toStore,
                  request, lo, hi, toFetch, out, dataSize, expected, lost>>
  BY DEF vars, writerVars, readerVars
<1>2. TypeOK'
  BY <1>1 DEF TypeOK, Span, TimesOf, endWrite
<1>3. ReadHolds' /\ ReadIntact' /\ Returned'
  BY <1>1, ReaderUndisturbed DEF readerVars
<1>4. BoundsHold' /\ WriteHolds' /\ PublishedIntact'
  BY <1>1 DEF RingInvariant, BoundsHold, WriteHolds, PublishedIntact,
              Region, Offset, endWrite, Span, TimesOf
<1>5. QED
  BY <1>2, <1>3, <1>4 DEF RingInvariant

(* A call of write, with its arguments put together.                       *)
LEMMA WriteIsOfWrites ==
  ASSUME NEW call \in Calls, NEW take \in Takes
  PROVE  [time |-> call.time, count |-> call.count, take |-> take] \in Writes
BY DEF Calls, Writes

LEMMA StepKeeps ==
  ASSUME TypeOK, RingInvariant, [Next]_vars
  PROVE  TypeOK' /\ RingInvariant'
<1>1. ASSUME NEW call \in Calls, NEW take \in Takes, Write(call, take)
      PROVE  TypeOK' /\ RingInvariant'
  <2> DEFINE w == [time |-> call.time, count |-> call.count, take |-> take]
  <2>1. w \in Writes /\ BeginWrite(w)
    BY <1>1, WriteIsOfWrites DEF Write
  <2> HIDE DEF w
  <2>2. QED
    BY <2>1, BeginWriteKeeps
<1>2. CASE WriterStep
  BY <1>2, ZeroFrameKeeps, StoreFrameKeeps, EndWriteKeeps DEF WriterStep
<1>3. CASE ReaderStep
  BY <1>3, FetchFrameKeeps DEF ReaderStep
<1>4. QED
  BY <1>1, <1>2, <1>3, BeginReadKeeps, ManageKeeps, StutterKeeps DEF Next

-----------------------------------------------------------------------------
(* What the ring holds, what write has left to do and what read has left   *)
(* to do fit together at every step of either thread.  The types are part  *)
(* of the induction: that a stored frame has a time in range, or a fetched *)
(* one a place in the list, follows from the rest.                         *)
THEOREM InvariantHolds == Spec => [](TypeOK /\ RingInvariant)
<1>1. Init => TypeOK /\ RingInvariant
  BY InitHolds
<1>2. TypeOK /\ RingInvariant /\ [Next]_vars => (TypeOK /\ RingInvariant)'
  BY StepKeeps
<1>3. QED
  BY <1>1, <1>2, PTL DEF Spec

(* No step of write or read leaves the ring, the list or the range of      *)
(* sample times.                                                           *)
THEOREM TypeCorrect == Spec => []TypeOK
BY InvariantHolds, PTL

(* At every instant of a write, each time of the published bounds has its  *)
(* frame in the ring: for every capacity and every order of the copies.    *)
THEOREM BoundsVouchForFrames == Spec => []PublishedIntact
<1>1. RingInvariant => PublishedIntact
  BY DEF RingInvariant
<1>2. QED
  BY <1>1, InvariantHolds, PTL

(* A read returns silence outside the window it sampled and the audio of   *)
(* it inside, save at the times a write discarded meanwhile.               *)
THEOREM ReadsReturnTheAudio == Spec => []ReadIntact
<1>1. RingInvariant => ReadIntact
  BY DEF RingInvariant
<1>2. QED
  BY <1>1, InvariantHolds, PTL

-----------------------------------------------------------------------------
(* The refinement: beginning and ending a call is a step of the timeline,  *)
(* copying a frame, except the last one of a read, is a step of neither.   *)

(* What the timeline's variables stand for.                                *)
Held == [t \in Span(bounds) |-> buffer[Offset(t)]]

Sampled == IF toFetch = {} THEN {} ELSE lo .. hi - 1

Lost == IF toFetch = {} THEN {} ELSE lost

Given ==
  IF toFetch = {} THEN [t \in DOMAIN expected |-> out[t - request.time]]
                  ELSE Nothing

LEMMA HeldIsAudio ==
  /\ TypeOK /\ RingInvariant => Held = audio
  /\ (TypeOK /\ RingInvariant)' => Held' = audio'
<1>1. TypeOK /\ RingInvariant => Held = audio
  BY DEF TypeOK, RingInvariant, PublishedIntact, Held
<1>2. (TypeOK /\ RingInvariant)' => Held' = audio'
  BY DEF TypeOK, RingInvariant, PublishedIntact, Held
<1>3. QED
  BY <1>1, <1>2

LEMMA TimelineValues ==
  /\ Timeline!Times = Times
  /\ Timeline!Frames = Frames
  /\ Timeline!Idle = Idle
  /\ Timeline!Nothing = Nothing
  /\ \A b : Timeline!Span(b) = Span(b)
  /\ \A c : Timeline!TimesOf(c) = TimesOf(c)
  /\ \A a, b : Timeline!Larger(a, b) = Larger(a, b)
  /\ Timeline!Empty = [startTime |-> 0, endTime |-> 0]
BY DEF Timeline!Times, Times, Timeline!Frames, Frames, Timeline!Idle, Idle,
       Timeline!Nothing, Nothing, Timeline!Span, Span, Timeline!TimesOf,
       TimesOf, Timeline!Larger, Larger, Timeline!Empty

LEMMA StutterIsInvisible ==
  ASSUME UNCHANGED <<capacity, bounds, job, Held, Sampled, Lost, expected, Given>>,
         (toFetch = {})' <=> toFetch = {}
  PROVE  UNCHANGED Timeline!vars
BY DEF Timeline!vars, Held, Sampled, Lost, Given

LEMMA CopyIsInvisible ==
  ASSUME TypeOK, RingInvariant, TypeOK', RingInvariant',
         UNCHANGED <<capacity, bounds, audio, job, readerVars, lost>>
  PROVE  UNCHANGED Timeline!vars
<1>1. UNCHANGED <<request, lo, hi, toFetch, out, expected>>
  BY DEF readerVars
<1>2. UNCHANGED Held
  BY HeldIsAudio
<1>3. UNCHANGED <<Sampled, Lost, Given>>
  BY <1>1 DEF Sampled, Lost, Given
<1>4. QED
  BY <1>1, <1>2, <1>3, StutterIsInvisible

LEMMA ManageClears ==
  ASSUME TypeOK, RingInvariant, TypeOK', RingInvariant', Manage
  PROVE  Timeline!Clear
<1>1. /\ job = Idle /\ toFetch = {}
      /\ bounds' = [startTime |-> 0, endTime |-> 0]
      /\ audio' = Nothing
      /\ UNCHANGED <<writerVars, readerVars, lost>>
  BY DEF Manage, Allocate, Deallocate, Reset, Quiet, EmptyBounds
<1>2. UNCHANGED <<job, request, lo, hi, toFetch, out, expected, lost>>
  BY <1>1 DEF writerVars, readerVars
<1>3. Held' = Nothing
  BY <1>1, HeldIsAudio
<1>4. capacity' \in Capacities \cup {0}
  BY DEF TypeOK
<1>5. QED
  BY <1>1, <1>2, <1>3, <1>4, TimelineValues DEF Timeline!Clear, Held

LEMMA BeginWriteBegins ==
  ASSUME TypeOK, RingInvariant, TypeOK', RingInvariant',
         NEW w \in Writes, BeginWrite(w)
  PROVE  Timeline!BeginWrite(w)
<1>1. /\ job = Idle
      /\ w.count <= capacity
      /\ job' = w
      /\ bounds' = MadeRoom(w)
      /\ audio' = [t \in Span(bounds') |-> audio[t]]
      /\ lost' = IF toFetch = {} THEN lost
                 ELSE lost \cup (lo .. hi - 1 \ Span(bounds'))
      /\ UNCHANGED <<capacity, buffer, readerVars>>
  BY DEF BeginWrite, MakeRoom
<1>2. UNCHANGED <<request, lo, hi, toFetch, out, expected>>
  BY <1>1 DEF readerVars
<1>3. Held = audio /\ Held' = audio'
  BY HeldIsAudio
<1>4. Held' = [t \in Span(bounds') |-> Held[t]]
  BY <1>1, <1>3
<1>5. Lost' = Lost \cup (Sampled \ Span(bounds'))
  BY <1>1, <1>2 DEF Lost, Sampled
<1>6. UNCHANGED <<Sampled, Given>>
  BY <1>2 DEF Sampled, Given
<1> DEFINE start == Larger(bounds.startTime, w.time + w.count - capacity)
<1>7. \/ /\ w.time < bounds.endTime
         /\ bounds' = [startTime |-> w.time, endTime |-> w.time]
      \/ /\ w.time >= bounds.endTime
         /\ bounds' = [startTime |-> start,
                       endTime   |-> Larger(start, bounds.endTime)]
  <2>1. /\ w.time \in Nat /\ w.count \in Nat /\ capacity \in Nat
        /\ bounds \in [startTime : Times, endTime : Times]
        /\ bounds.startTime \in Nat /\ bounds.endTime \in Nat
        /\ bounds.startTime <= bounds.endTime
    <3>1. w.time \in Nat /\ w.count \in Nat
      BY DEF Writes, Times
    <3>2. capacity \in Nat
      BY RingAssumption DEF TypeOK
    <3>3. /\ bounds \in [startTime : Times, endTime : Times]
          /\ bounds.startTime \in Nat /\ bounds.endTime \in Nat
      BY DEF TypeOK, Times
    <3>4. QED
      BY <3>1, <3>2, <3>3 DEF RingInvariant, BoundsHold
  <2>2. CASE w.time < bounds.endTime
    BY <1>1, <2>2 DEF MadeRoom
  <2>3. CASE /\ ~(w.time < bounds.endTime)
             /\ w.time + w.count - bounds.startTime <= capacity
    <3>1. bounds' = bounds
      BY <1>1, <2>3 DEF MadeRoom
    <3>2. start = bounds.startTime
      BY <2>1, <2>3 DEF Larger
    <3>3. Larger(start, bounds.endTime) = bounds.endTime
      BY <2>1, <3>2 DEF Larger
    <3> HIDE DEF start
    <3>4. QED
      BY <2>1, <2>3, <3>1, <3>2, <3>3
  <2>4. CASE /\ ~(w.time < bounds.endTime)
             /\ ~(w.time + w.count - bounds.startTime <= capacity)
    <3>1. start = w.time + w.count - capacity
      BY <2>1, <2>4 DEF Larger
    <3>2. bounds' = [startTime |-> start, endTime |-> Larger(start, bounds.endTime)]
      BY <1>1, <2>4, <3>1 DEF MadeRoom, NewStart
    <3>3. QED
      BY <2>1, <2>4, <3>2
  <2>5. QED
    BY <2>2, <2>3, <2>4
<1> HIDE DEF start
<1>8. start = Larger(bounds.startTime, w.time + w.count - capacity)
  BY DEF start
<1>9. QED
  BY <1>1, <1>2, <1>4, <1>5, <1>6, <1>7, <1>8, TimelineValues
     DEF Timeline!BeginWrite, Held, Lost, Sampled, Given

LEMMA EndWriteEnds ==
  ASSUME TypeOK, RingInvariant, TypeOK', RingInvariant', EndWrite
  PROVE  Timeline!EndWrite
<1>1. /\ job # Idle
      /\ job' = Idle
      /\ bounds' = [bounds EXCEPT !.endTime = job.time + job.count]
      /\ audio' = [t \in Span(bounds') |->
                     IF t \in Span(bounds) THEN audio[t]
                     ELSE IF t \in TimesOf(job)
                       THEN [take |-> job.take, time |-> t]
                       ELSE Silence]
      /\ UNCHANGED <<capacity, readerVars, lost>>
  BY DEF EndWrite, Publish, endWrite
<1>2. UNCHANGED <<request, lo, hi, toFetch, out, expected, lost>>
  BY <1>1 DEF readerVars
<1>3. Held = audio /\ Held' = audio'
  BY HeldIsAudio
<1>4. UNCHANGED <<Sampled, Lost, Given>>
  BY <1>2 DEF Sampled, Lost, Given
<1>5. QED
  BY <1>1, <1>2, <1>3, <1>4, TimelineValues
     DEF Timeline!EndWrite, Held, Sampled, Lost, Given

LEMMA BeginReadSamples ==
  ASSUME TypeOK, RingInvariant, TypeOK', RingInvariant',
         NEW call \in Calls, BeginRead(call)
  PROVE  Timeline!BeginRead(call) \/ Timeline!ReadSilence(call)
<1>1. /\ toFetch = {}
      /\ call.count <= capacity
      /\ request' = call
      /\ expected' = [t \in TimesOf(call) |->
                        IF t \in Span(bounds) THEN audio[t] ELSE Silence]
      /\ lost' = {}
      /\ UNCHANGED <<capacity, bounds, audio, writerVars>>
  BY DEF BeginRead, ReadFrom, AudioAt
<1>2. Held = audio /\ Held' = audio'
  BY HeldIsAudio
<1>3. UNCHANGED job
  BY <1>1 DEF writerVars
<1>4. TimesOf(call) \cap Span(bounds) =
        IF toFetch' = {} THEN {} ELSE lo' .. hi' - 1
  BY BeginReadKeeps
<1>5. Timeline!Sample(call)
  BY <1>1, <1>2, <1>3, TimelineValues DEF Timeline!Sample, Held
<1>6. CASE toFetch' # {}
  <2>1. Sampled' = TimesOf(call) \cap Span(bounds) /\ Given' = Nothing
    BY <1>4, <1>6 DEF Sampled, Given
  <2>2. QED
    BY <1>5, <1>6, <2>1, TimelineValues DEF Timeline!BeginRead, Sampled, Given
<1>7. CASE toFetch' = {}
  <2>1. Given' = expected'
    <3>1. Given' = [t \in DOMAIN expected' |-> out'[t - request'.time]]
      BY <1>7 DEF Given
    <3>2. \A t \in DOMAIN expected' : out'[t - request'.time] = expected'[t]
      BY <1>1, <1>7 DEF RingInvariant, ReadIntact
    <3>3. expected' = [t \in DOMAIN expected' |-> expected'[t]]
      BY <1>1
    <3>4. QED
      BY <3>1, <3>2, <3>3
  <2>2. QED
    BY <1>1, <1>4, <1>5, <1>7, <2>1, TimelineValues
       DEF Timeline!ReadSilence, Given
<1>8. QED
  BY <1>6, <1>7

LEMMA LastFetchReturns ==
  ASSUME TypeOK, RingInvariant, TypeOK', RingInvariant',
         NEW p \in toFetch, FetchFrame(p)
  PROVE  Timeline!EndRead \/ UNCHANGED Timeline!vars
<1>1. /\ toFetch # {}
      /\ UNCHANGED <<capacity, bounds, audio, writerVars,
                     request, lo, hi, expected, lost>>
  BY DEF FetchFrame
<1>2. UNCHANGED job /\ UNCHANGED Held
  BY <1>1, HeldIsAudio DEF writerVars
<1>3. CASE toFetch' # {}
  <2>1. UNCHANGED <<Sampled, Lost, Given>>
    BY <1>1, <1>3 DEF Sampled, Lost, Given
  <2>2. QED
    BY <1>1, <1>2, <1>3, <2>1, StutterIsInvisible
<1>4. CASE toFetch' = {}
  <2>1. DOMAIN expected = TimesOf(request) /\ TimesOf(request)' = TimesOf(request)
    BY <1>1 DEF TypeOK, TimesOf
  <2>2. Given' = [t \in DOMAIN expected |-> out'[t - request.time]]
    BY <1>1, <1>4 DEF Given
  <2>3. \A t \in DOMAIN expected : out'[t - request.time] \in Frames
    BY <1>1, <1>4, <2>1 DEF RingInvariant, Returned
  <2>4. \A t \in DOMAIN expected \ lost : out'[t - request.time] = expected[t]
    BY <1>1, <1>4 DEF RingInvariant, ReadIntact
  <2>5. /\ Given' \in [DOMAIN expected -> Frames]
        /\ \A t \in DOMAIN expected \ lost : Given'[t] = expected[t]
    BY <2>2, <2>3, <2>4
  <2>6. Timeline!EndRead
    BY <1>1, <1>2, <1>4, <2>5, TimelineValues DEF Timeline!EndRead, Given, Held
  <2>7. QED
    BY <2>6
<1>5. QED
  BY <1>3, <1>4

(* For every capacity and every interleaving of the copies: the ring       *)
(* behaves as one window of audio, extended and sampled at instants.       *)
THEOREM RingImplementsTimeline == Spec => ImplementsTimeline
<1>1. Init => Timeline!Init
  <2> SUFFICES ASSUME Init
               PROVE  Timeline!Init
    OBVIOUS
  <2>1. /\ capacity = 0 /\ bounds = [startTime |-> 0, endTime |-> 0]
        /\ audio = Nothing /\ job = Idle /\ toFetch = {} /\ expected = Nothing
    BY DEF Init
  <2>2. Held = Nothing
    BY <2>1, InitHolds, HeldIsAudio
  <2>3. Given = Nothing
    BY <2>1 DEF Given, Nothing
  <2>4. QED
    BY <2>1, <2>2, <2>3, TimelineValues DEF Timeline!Init, Held, Given
<1>2. ASSUME TypeOK, RingInvariant, TypeOK', RingInvariant', [Next]_vars
      PROVE  [Timeline!Next]_Timeline!vars
  <2> USE <1>2
  <2>1. CASE Manage
    BY <2>1, ManageClears DEF Timeline!Next
  <2>2. ASSUME NEW call \in Calls, NEW take \in Takes, Write(call, take)
        PROVE  Timeline!Next
    <3> DEFINE w == [time |-> call.time, count |-> call.count, take |-> take]
    <3>1. w \in Writes /\ BeginWrite(w)
      BY <2>2, WriteIsOfWrites DEF Write
    <3> HIDE DEF w
    <3>2. Timeline!BeginWrite(w)
      BY <3>1, BeginWriteBegins
    <3>3. w \in [time : Times, count : 1 .. MaxTime, take : Takes]
      BY <3>1 DEF Writes
    <3>4. QED
      BY <3>2, <3>3, TimelineValues DEF Timeline!Next
  <2>3. ASSUME NEW p \in toZero, ZeroFrame(p)
        PROVE  UNCHANGED Timeline!vars
    BY <2>3, CopyIsInvisible DEF ZeroFrame
  <2>4. ASSUME NEW p \in toStore, StoreFrame(p)
        PROVE  UNCHANGED Timeline!vars
    BY <2>4, CopyIsInvisible DEF StoreFrame
  <2>5. CASE EndWrite
    BY <2>5, EndWriteEnds DEF Timeline!Next
  <2>6. ASSUME NEW call \in Calls, BeginRead(call)
        PROVE  Timeline!Next
    <3>1. call \in Timeline!Requests
      BY TimelineValues DEF Calls, Timeline!Requests
    <3>2. QED
      BY <2>6, <3>1, BeginReadSamples DEF Timeline!Next
  <2>7. ASSUME NEW p \in toFetch, FetchFrame(p)
        PROVE  [Timeline!Next]_Timeline!vars
    BY <2>7, LastFetchReturns DEF Timeline!Next
  <2>8. CASE UNCHANGED vars
    BY <2>8, CopyIsInvisible DEF vars, writerVars
  <2>9. QED
    BY <2>1, <2>2, <2>3, <2>4, <2>5, <2>6, <2>7, <2>8
       DEF Next, WriterStep, ReaderStep
<1>3. QED
  BY <1>1, <1>2, InvariantHolds, PTL
     DEF Spec, ImplementsTimeline, Timeline!Spec
=============================================================================
