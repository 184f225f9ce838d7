------------------------ MODULE TimestampedRingBuffer ------------------------
(***************************************************************************)
(* TimestampedRingBuffer: one thread writes timestamped audio into a ring  *)
(* while another reads from it, without a lock.                            *)
(*                                                                         *)
(* A step of write or of read is a copy of one frame, so the two threads   *)
(* interleave in the middle of each other's copies, and within a copy the  *)
(* frames go in any order, as those of a memcpy may.  Publishing the time  *)
(* bounds, and taking a snapshot of them, is one step each: TimeBoundsQueue *)
(* shows that the queue between the threads implements such a register,    *)
(* unless the writer publishes 31 times while the reader is between the    *)
(* first and the last access of getTimeBounds.                             *)
(*                                                                         *)
(* The bytes of the frames of all channels at one time are one frame here: *)
(* byte offsets are frame offsets, and audio data is what identifies it,   *)
(* the write it came with (its take) and its sample time.                  *)
(***************************************************************************)
EXTENDS Integers

CONSTANTS
  Capacities, \* what allocate can make of the sizes it is asked for
  Takes,      \* the recordings written, so that no two frames are alike
  Silence,    \* a frame of zeros
  Stale,      \* what the frames of the reader's buffer list hold before
  MaxTime,    \* a bound on the sample times
  UIntRange   \* how many values a uint32_t has, 2^32 in the code

ASSUME RingAssumption ==
  /\ Capacities \subseteq Nat \ {0}
  /\ \A c \in Capacities : \E n \in 1 .. c : c = 2 ^ n
  /\ MaxTime \in Nat
  /\ UIntRange \in Nat \ {0}

VARIABLES
  \* shared by the threads
  capacity, \* capacity_
  buffer,   \* buffers_, by frame offset
  bounds,   \* the entry of timeBoundsQueue_ the counter leads to
  audio,    \* ghost: the audio the ring stands for, by sample time
  \* locals of write
  job,      \* the call in progress, or Idle
  toZero,   \* the offsets it has yet to zero
  toStore,  \* the offsets it has yet to store to
  \* locals of read
  request,  \* the arguments of the last call
  lo,       \* sampleTime and
  hi,       \* endRead, after clampTimesToBounds
  toFetch,  \* the offsets it has yet to fetch from
  out,      \* the frames of bufferList
  dataSize, \* mDataByteSize of bufferList, in frames
  expected, \* ghost: what the ring held when the call took its snapshot
  lost      \* ghost: the times a write discarded since, of those to fetch

writerVars == <<job, toZero, toStore>>
readerVars == <<request, lo, hi, toFetch, out, dataSize, expected>>
vars == <<capacity, buffer, bounds, audio, writerVars, readerVars, lost>>

Times == 0 .. MaxTime

Frames == [take : Takes, time : Times] \cup {Silence}

Idle == [take |-> Silence, time |-> 0, count |-> 0]

Nothing == [t \in {} |-> Silence]

Larger(a, b) == IF a > b THEN a ELSE b

Clamp(x, low, high) == IF x < low THEN low ELSE IF high < x THEN high ELSE x

(* The times between a start and an end, as those of the bounds.           *)
Span(b) == b.startTime .. b.endTime - 1

TimesOf(call) == call.time .. call.time + call.count - 1

Offset(time) == time % capacity

(* Mutant: a ring one frame too long.                                      *)
RegionPastEnd(from, to) ==
  IF Offset(from) < Offset(to)
    THEN Offset(from) .. Offset(to) - 1
    ELSE Offset(from) .. capacity \cup 0 .. Offset(to) - 1

(* The offsets a copy from one time to a later one goes over, and the      *)
(* place of each in the copy: up to the end of the ring, then from its     *)
(* start.                                                                  *)
Region(from, to) ==
  IF Offset(from) < Offset(to)
    THEN Offset(from) .. Offset(to) - 1
    ELSE Offset(from) .. capacity - 1 \cup 0 .. Offset(to) - 1

Place(offset, from) ==
  IF offset >= Offset(from)
    THEN offset - Offset(from)
    ELSE capacity - Offset(from) + offset

Init ==
  /\ capacity = 0
  /\ buffer = Nothing
  /\ bounds = [startTime |-> 0, endTime |-> 0]
  /\ audio = Nothing
  /\ job = Idle
  /\ toZero = {}
  /\ toStore = {}
  /\ request = [time |-> 0, count |-> 0]
  /\ lo = 0
  /\ hi = 0
  /\ toFetch = {}
  /\ out = Nothing
  /\ dataSize = 0
  /\ expected = Nothing
  /\ lost = {}

-----------------------------------------------------------------------------
(* Buffer management: not thread safe, so neither thread is in a call.     *)

Quiet == job = Idle /\ toFetch = {}

(* Zero the time bounds queue.                                             *)
EmptyBounds ==
  /\ bounds' = [startTime |-> 0, endTime |-> 0]
  /\ audio' = Nothing

(* A capacity that is out of range, or too large for the format, is        *)
(* refused and changes nothing.                                            *)
Allocate(c) ==
  /\ Quiet
  /\ capacity' = c
  /\ buffer' = [offset \in 0 .. c - 1 |-> Silence]
  /\ EmptyBounds
  /\ UNCHANGED <<writerVars, readerVars, lost>>

(* Also what is left of an allocate whose malloc fails, and of a ring that *)
(* was moved from; the ring it was moved to goes on with its state.        *)
Deallocate ==
  /\ Quiet
  /\ capacity # 0
  /\ capacity' = 0
  /\ buffer' = Nothing
  /\ EmptyBounds
  /\ UNCHANGED <<writerVars, readerVars, lost>>

(* The frames stay, the bounds no longer lead to them.                     *)
Reset ==
  /\ Quiet
  /\ EmptyBounds
  /\ UNCHANGED <<capacity, buffer, writerVars, readerVars, lost>>

-----------------------------------------------------------------------------
(* write(bufferList, frameCount, sampleTime).  A call with a frameCount    *)
(* that is zero or above the capacity changes nothing.                     *)

endWrite == job.time + job.count

(* One buffer of time behind the write position; a mutant is one frame off. *)
NewStartTooEarly(call) == call.time + call.count - capacity - 1

NewStart(call) == call.time + call.count - capacity

(* Mutant: when the window moves past its own end, the end stays behind.   *)
MadeRoomKeepsEnd(call) ==
  IF call.time < bounds.endTime
    THEN [startTime |-> call.time, endTime |-> call.time]
  ELSE IF call.time + call.count - bounds.startTime <= capacity
    THEN bounds
    ELSE [bounds EXCEPT !.startTime = NewStart(call)]

(* The bounds once there is room for the call: it discards everything when *)
(* it goes backwards, and the times its frames will overwrite when they no *)
(* longer fit.                                                             *)
MadeRoom(call) ==
  IF call.time < bounds.endTime
    THEN [startTime |-> call.time, endTime |-> call.time]
  ELSE IF call.time + call.count - bounds.startTime <= capacity
    THEN bounds
    ELSE [startTime |-> NewStart(call),
          endTime   |-> Larger(NewStart(call), bounds.endTime)]

(* Publish that, then plan to zero what is skipped and to store the rest.  *)
MakeRoom(call) ==
  /\ job = Idle
  /\ call.count <= capacity
  /\ job' = call
  /\ bounds' = MadeRoom(call)
  /\ toZero' = IF call.time > bounds'.endTime
                 THEN Region(bounds'.endTime, call.time)
                 ELSE {}
  /\ toStore' = Region(call.time, call.time + call.count)
  /\ audio' = [t \in Span(bounds') |-> audio[t]]
  /\ UNCHANGED <<capacity, buffer>>

BeginWrite(call) ==
  /\ MakeRoom(call)
  /\ lost' = IF toFetch = {} THEN lost
             ELSE lost \cup (lo .. hi - 1 \ Span(bounds'))
  /\ UNCHANGED readerVars

ZeroFrame(offset) ==
  /\ offset \in toZero
  /\ buffer' = [buffer EXCEPT ![offset] = Silence]
  /\ toZero' = toZero \ {offset}
  /\ UNCHANGED <<capacity, bounds, audio, job, toStore, readerVars, lost>>

StoreFrame(offset) ==
  /\ toZero = {}
  /\ offset \in toStore
  /\ buffer' = [buffer EXCEPT ![offset] =
       [take |-> job.take, time |-> job.time + Place(offset, job.time)]]
  /\ toStore' = toStore \ {offset}
  /\ UNCHANGED <<capacity, bounds, audio, job, toZero, readerVars, lost>>

Publish ==
  /\ job' = Idle
  /\ bounds' = [bounds EXCEPT !.endTime = endWrite]
  /\ audio' = [t \in Span(bounds') |->
                 IF t \in Span(bounds) THEN audio[t]
                 ELSE IF t \in TimesOf(job)
                   THEN [take |-> job.take, time |-> t]
                   ELSE Silence]
  /\ UNCHANGED <<capacity, buffer, readerVars, lost>>

(* Mutants: the end time is published before all frames are stored, or     *)
(* only when no read is in progress.                                       *)
EndWriteEarly ==
  /\ job # Idle
  /\ toZero = {}
  /\ toStore' = {}
  /\ Publish
  /\ UNCHANGED toZero

EndWriteWaits ==
  /\ job # Idle
  /\ toZero = {}
  /\ toStore = {}
  /\ toFetch = {}
  /\ Publish
  /\ UNCHANGED <<toZero, toStore>>

(* Publish the new end time.                                               *)
EndWrite ==
  /\ job # Idle
  /\ toZero = {}
  /\ toStore = {}
  /\ Publish
  /\ UNCHANGED <<toZero, toStore>>

-----------------------------------------------------------------------------
(* read(bufferList, frameCount, sampleTime).  A call with a frameCount     *)
(* that is zero or above the capacity, or whose getTimeBounds gives up,    *)
(* changes nothing.  The list comes with room for frameCount frames.       *)

(* The positions of a list for the call that are filled with silence when  *)
(* body frames are fetched, from position head on.                         *)
Silenced(call, head, body) ==
  {i \in 0 .. call.count - 1 : body = 0 \/ i < head \/ i >= head + body}

(* Clamp the times to a snapshot of the bounds, fill what is outside with  *)
(* silence.                                                                *)
ReadFrom(call, snapshot) ==
  LET endRead0 == call.time + call.count
      missed   == \/ call.time > snapshot.endTime
                  \/ endRead0 < snapshot.startTime
  IN  /\ request' = call
      /\ lo' = IF missed THEN call.time
                         ELSE Larger(call.time, snapshot.startTime)
      /\ hi' = IF missed THEN call.time
                         ELSE Clamp(endRead0, lo', snapshot.endTime)
      /\ toFetch' = IF lo' = hi' THEN {} ELSE Region(lo', hi')
      /\ out' = [i \in 0 .. call.count - 1 |->
                   IF i \in Silenced(call, lo' - call.time, hi' - lo')
                     THEN Silence ELSE Stale]
      /\ dataSize' = call.count

(* What the ring holds at the times of a call.                             *)
AudioAt(call) ==
  [t \in TimesOf(call) |-> IF t \in Span(bounds) THEN audio[t] ELSE Silence]

BeginRead(call) ==
  /\ toFetch = {}
  /\ call.count <= capacity
  /\ ReadFrom(call, bounds)
  /\ expected' = AudioAt(call)
  /\ lost' = {}
  /\ UNCHANGED <<capacity, buffer, bounds, audio, writerVars>>

(* Where in the list a frame goes; a mutant forgets the silence before.    *)
DestinationAtFront(offset) == Place(offset, lo)

Destination(offset) == lo - request.time + Place(offset, lo)

(* Copy a frame; after the last one, set the size of the list.             *)
FetchFrame(offset) ==
  /\ offset \in toFetch
  /\ out' = [out EXCEPT ![Destination(offset)] = buffer[offset]]
  /\ toFetch' = toFetch \ {offset}
  /\ dataSize' = IF toFetch' = {} THEN hi - lo ELSE dataSize
  /\ UNCHANGED <<capacity, buffer, bounds, audio, writerVars,
                 request, lo, hi, expected, lost>>

-----------------------------------------------------------------------------
(* unusedSpace(), for the bounds it takes a snapshot of.                   *)
UnusedSpace ==
  IF capacity = 0
    THEN 0
    ELSE (capacity - (bounds.endTime - bounds.startTime) - 1) % UIntRange

(* capacity(): the mask, one less than capacity_.                          *)
UsableCapacity == IF capacity = 0 THEN 0 ELSE capacity - 1

-----------------------------------------------------------------------------
(* The calls that do not overflow the bounded times.                       *)
Calls ==
  {c \in [time : Times, count : 1 .. MaxTime] : c.time + c.count <= MaxTime}

Manage == (\E c \in Capacities : Allocate(c)) \/ Deallocate \/ Reset

WriterStep ==
  \/ \E offset \in toZero : ZeroFrame(offset)
  \/ \E offset \in toStore : StoreFrame(offset)
  \/ EndWrite

ReaderStep == \E offset \in toFetch : FetchFrame(offset)

Write(call, take) ==
  BeginWrite([time |-> call.time, count |-> call.count, take |-> take])

Next ==
  \/ Manage
  \/ \E call \in Calls : BeginRead(call) \/ \E take \in Takes : Write(call, take)
  \/ WriterStep
  \/ ReaderStep

Spec == Init /\ [][Next]_vars

-----------------------------------------------------------------------------
(* Types of all the variables.                                             *)
TypeOK ==
  /\ capacity \in Capacities \cup {0}
  /\ buffer \in [0 .. capacity - 1 -> Frames]
  /\ bounds \in [startTime : Times, endTime : Times]
  /\ audio \in [Span(bounds) -> Frames]
  /\ job \in [time : Times, count : Times, take : Takes] \cup {Idle}
  /\ toZero \subseteq 0 .. capacity - 1
  /\ toStore \subseteq 0 .. capacity - 1
  /\ job = Idle => toZero = {} /\ toStore = {}
  /\ endWrite \in Times
  /\ request \in [time : Times, count : Times]
  /\ lo \in Times
  /\ hi \in Times
  /\ toFetch \subseteq 0 .. capacity - 1
  /\ out \in [0 .. request.count - 1 -> Frames \cup {Stale}]
  /\ dataSize \in 0 .. request.count
  /\ expected \in [TimesOf(request) -> Frames]
  /\ lost \subseteq Times

(* While a write goes on, at each of its steps, the ring holds the right   *)
(* frame at every time of the published bounds: write publishes that times *)
(* are gone before it overwrites them, and that times are there only when  *)
(* all of their frames are.                                                *)
PublishedIntact ==
  \A t \in Span(bounds) : buffer[Offset(t)] = audio[t]

(* A call of read that has returned gave silence outside the window it     *)
(* sampled and the audio that was there inside it, save at the times a     *)
(* write discarded before they were copied.                                *)
ReadIntact ==
  toFetch = {} =>
    \A t \in DOMAIN expected \ lost : out[t - request.time] = expected[t]

(* Why that is: the bounds are never too wide for the ring, ...             *)
BoundsHold ==
  /\ bounds.startTime <= bounds.endTime
  /\ bounds.endTime - bounds.startTime <= capacity

(* ... a write goes only over what is past their end, and what it went     *)
(* over is silence and then its frames, ...                                *)
WriteHolds ==
  job # Idle =>
    /\ bounds.endTime <= job.time
    /\ job.count >= 1
    /\ endWrite - bounds.startTime <= capacity
    /\ toZero \subseteq IF job.time > bounds.endTime
                          THEN Region(bounds.endTime, job.time) ELSE {}
    /\ toStore \subseteq Region(job.time, endWrite)
    /\ \A t \in bounds.endTime .. job.time - 1 :
         Offset(t) \notin toZero => buffer[Offset(t)] = Silence
    /\ \A t \in TimesOf(job) :
         Offset(t) \notin toStore =>
           buffer[Offset(t)] = [take |-> job.take, time |-> t]

(* ... and what a read has yet to fetch is still there, or known as lost.  *)
Awaited(t) == t \in lo .. hi - 1 /\ Offset(t) \in toFetch

ReadHolds ==
  toFetch # {} =>
    /\ request.time <= lo
    /\ lo < hi
    /\ hi <= request.time + request.count
    /\ request.count <= capacity
    /\ toFetch \subseteq Region(lo, hi)
    /\ lost \subseteq lo .. hi - 1
    /\ \A t \in lo .. hi - 1 \ lost : t \in Span(bounds) /\ audio[t] = expected[t]
    /\ \A t \in TimesOf(request) : ~Awaited(t) =>
         /\ out[t - request.time] \in Frames
         /\ t \notin lost => out[t - request.time] = expected[t]

(* What a call returned it returned whole.                                 *)
Returned ==
  toFetch = {} => \A t \in TimesOf(request) : out[t - request.time] \in Frames

(* The invariant the threads maintain together.                            *)
RingInvariant ==
  BoundsHold /\ WriteHolds /\ PublishedIntact /\ ReadHolds /\ ReadIntact /\ Returned

(* The ring implements the timeline of audio.                              *)
Timeline == INSTANCE AudioTimeline WITH
  audio    <- [t \in Span(bounds) |-> buffer[Offset(t)]],
  pending  <- job,
  reading  <- toFetch # {},
  sampled  <- IF toFetch = {} THEN {} ELSE lo .. hi - 1,
  lost     <- IF toFetch = {} THEN {} ELSE lost,
  returned <- IF toFetch = {} THEN [t \in DOMAIN expected |-> out[t - request.time]]
                              ELSE Nothing

ImplementsTimeline == Timeline!Spec

(* A read that is under way returns whatever the writer does or leaves     *)
(* undone, and a write likewise: neither thread waits for the other.       *)
WaitFree ==
  /\ WF_vars(ReaderStep) => (toFetch # {} ~> toFetch = {})
  /\ WF_vars(WriterStep) => (job # Idle ~> job = Idle)

-----------------------------------------------------------------------------
(* What the documentation says and the code does not do.                   *)

(* "This class is thread safe when used from one reader thread and one     *)
(* writer thread" (TimestampedRingBuffer.hpp:20): a read that returns true *)
(* delivers the audio that was there, whatever the writer does meanwhile.  *)
ReadUndisturbed ==
  toFetch = {} =>
    \A t \in DOMAIN expected : out[t - request.time] = expected[t]

(* "gaps are filled with silence" (TimestampedRingBuffer.hpp:126): the     *)
(* list a read returns holds, within the size read gives it, silence for a *)
(* gap and then the audio after it.                                        *)
AudioWithinDataSize ==
  toFetch = {} => \A i \in DOMAIN out : out[i] # Silence => i < dataSize

(* "Returns the unused portion of the ring buffer's capacity"              *)
(* (TimestampedRingBuffer.hpp:106).                                        *)
UnusedWithinCapacity == UnusedSpace <= UsableCapacity
=============================================================================
