---------------------------- MODULE RingOverQueue -----------------------------
(***************************************************************************)
(* TimestampedRingBuffer as a whole: the ring of TimestampedRingBuffer,    *)
(* whose threads publish and sample the time bounds through the queue of   *)
(* TimeBoundsQueue, one access to shared memory at a time.                 *)
(*                                                                         *)
(* The ring's bounds are the entry of the queue that the counter leads to. *)
(* A write that makes room, and one that has stored its frames, goes       *)
(* through setTimeBounds, and a read through getTimeBounds, while the      *)
(* other thread goes on.  A read so works from bounds that may be out of   *)
(* date before it has even loaded them, or that are a mixture of two.      *)
(***************************************************************************)
EXTENDS Integers

CONSTANTS
  \* of the ring
  Capacities, Takes, Silence, Stale, MaxTime, UIntRange,
  \* of the queue
  QueueSize, MaxTries, MaxUpdates,
  \* of the whole
  ReadCounts \* the numbers of frames asked for

VARIABLES
  \* of the ring, without its bounds
  capacity, buffer, audio, job, toZero, toStore,
  request, lo, hi, toFetch, out, dataSize, expected, lost,
  \* of the queue
  queueCounter, timeBounds, updateCounter, writer, boundsToStore, intended,
  reader, tries, currentCounter, toLoad, snapshot, outcome, called,
  \* the write that is making room, and the read that has yet to do so
  preparing, \* the arguments of the write that publishes a new start, or Idle
  asked,     \* the arguments of the read that takes a snapshot
  sampled,   \* ghost: the times it found in the ring when it loaded the counter
  lapped     \* ghost: the writer came round to the entry it loaded

ringVars == <<capacity, buffer, audio, job, toZero, toStore,
              request, lo, hi, toFetch, out, dataSize>>
queueVars == <<queueCounter, timeBounds, updateCounter, writer, boundsToStore,
               intended, reader, tries, currentCounter, toLoad, snapshot,
               outcome, called>>
promiseVars == <<expected, lost, sampled, lapped>>
vars == <<ringVars, queueVars, promiseVars, preparing, asked>>

Queue == INSTANCE TimeBoundsQueue WITH
  Times <- 0 .. MaxTime, toStore <- boundsToStore

Ring == INSTANCE TimestampedRingBuffer WITH
  bounds <- timeBounds[Queue!Slot(queueCounter)]

(* The queue has more than the one entry that its counter leads to.        *)
ASSUME CompositionAssumption ==
  /\ Queue!QueueAssumption
  /\ QueueSize > 1
  /\ Ring!RingAssumption

Nobody == [time |-> 0, count |-> 0]

Init ==
  /\ Queue!Init
  /\ Ring!Init
  /\ preparing = Ring!Idle
  /\ asked = Nobody
  /\ sampled = {}
  /\ lapped = FALSE

bounds == timeBounds[Queue!Slot(queueCounter)]

Writing == preparing # Ring!Idle \/ job # Ring!Idle

Fetching == toFetch # {}

(* A read has taken its sample of the ring and has not returned.           *)
Reading == reader \in {"check", "copy"} \/ Fetching

-----------------------------------------------------------------------------
(* Both threads are outside.                                               *)
Manage ==
  /\ ~Writing
  /\ reader = "idle"
  /\ Queue!Reset
  /\ (\E c \in Capacities : Ring!Allocate(c)) \/ Ring!Deallocate \/ Ring!Reset
  /\ UNCHANGED <<preparing, asked, sampled, lapped>>

-----------------------------------------------------------------------------
(* write(bufferList, frameCount, sampleTime).                              *)

(* What a write discards is lost to a read that sampled it.                *)
Discard ==
  lost' = IF Reading THEN lost \cup (sampled \ Ring!Span(bounds')) ELSE lost

(* It fits: there is nothing to discard and nothing to publish yet.        *)
WriteThatFits(call) ==
  /\ ~Writing
  /\ Ring!MadeRoom(call) = bounds
  /\ UNCHANGED queueVars
  /\ Ring!MakeRoom(call)
  /\ UNCHANGED <<request, lo, hi, toFetch, out, dataSize, promiseVars,
                 preparing, asked>>

(* It does not: the first setTimeBounds of the call begins.                *)
WriteThatDiscards(call) ==
  /\ ~Writing
  /\ call.count <= capacity
  /\ Ring!MadeRoom(call) # bounds
  /\ preparing' = call
  /\ Queue!BeginSet(Ring!MadeRoom(call))
  /\ UNCHANGED <<ringVars, promiseVars, asked>>

(* All is stored: the second one begins.                                   *)
PublishEnd ==
  /\ job # Ring!Idle
  /\ toZero = {}
  /\ toStore = {}
  /\ Queue!BeginSet([bounds EXCEPT !["endTime"] = Ring!endWrite])
  /\ UNCHANGED <<ringVars, promiseVars, preparing, asked>>

StoreBounds ==
  /\ (\E f \in Queue!Fields : Queue!StoreField(f)) \/ Queue!StoreUpdateCounter
  /\ UNCHANGED <<ringVars, promiseVars, preparing, asked>>

(* Mutant: the write is still taken to be making room.                     *)
RoomIsMadeAgain ==
  /\ preparing # Ring!Idle
  /\ Queue!IncrementCounter
  /\ Ring!MakeRoom(preparing)
  /\ Discard
  /\ UNCHANGED <<request, lo, hi, toFetch, out, dataSize, expected, sampled,
                 lapped, asked, preparing>>

(* The new bounds are there for the reader.                                *)
RoomIsMade ==
  /\ preparing # Ring!Idle
  /\ Queue!IncrementCounter
  /\ Ring!MakeRoom(preparing)
  /\ Discard
  /\ preparing' = Ring!Idle
  /\ UNCHANGED <<request, lo, hi, toFetch, out, dataSize, expected, sampled,
                 lapped, asked>>

WriteReturns ==
  /\ preparing = Ring!Idle
  /\ Queue!IncrementCounter
  /\ Ring!EndWrite
  /\ UNCHANGED <<preparing, asked, sampled, lapped>>

CopyIn ==
  /\ UNCHANGED queueVars
  /\ \/ \E offset \in toZero : Ring!ZeroFrame(offset)
     \/ \E offset \in toStore : Ring!StoreFrame(offset)
  /\ UNCHANGED <<preparing, asked, sampled, lapped>>

-----------------------------------------------------------------------------
(* read(bufferList, frameCount, sampleTime).                               *)

CallRead(call) ==
  /\ ~Fetching
  /\ call.count \in ReadCounts
  /\ call.count <= capacity
  /\ Queue!CallGetTimeBounds
  /\ asked' = call
  /\ lapped' = FALSE
  /\ UNCHANGED <<ringVars, expected, lost, sampled, preparing>>

(* The instant a snapshot is of, if it is any good.                        *)
LoadCounter ==
  /\ Queue!LoadCounter
  /\ expected' = Ring!AudioAt(asked)
  /\ sampled' = Ring!TimesOf(asked) \cap Ring!Span(bounds)
  /\ lost' = {}
  /\ UNCHANGED <<ringVars, lapped, preparing, asked>>

CheckPasses ==
  /\ Queue!CheckPasses
  /\ UNCHANGED <<ringVars, promiseVars, preparing, asked>>

(* Another iteration, or the call returns false.                           *)
CheckFails ==
  /\ Queue!CheckFails
  /\ expected' = Ring!Nothing
  /\ sampled' = {}
  /\ lost' = {}
  /\ UNCHANGED <<ringVars, lapped, preparing, asked>>

(* What getTimeBounds returns is bounds: std::clamp is defined for them.   *)
Ordered(b) == b["startTime"] <= b["endTime"]

(* After the last field getTimeBounds returns, and read goes on up to its  *)
(* first copy.  When the bounds are not ordered, what std::clamp makes of  *)
(* them is undefined: the call is left to end there.                       *)
LoadField(f) ==
  /\ Queue!LoadField(f)
  /\ IF toLoad' # {}
       THEN UNCHANGED <<ringVars, lapped>>
       ELSE /\ lapped' = (queueCounter - currentCounter >= QueueSize - 1)
            /\ IF Ordered(snapshot')
                 THEN Ring!ReadFrom(asked, snapshot')
                 ELSE Ring!ReadFrom(asked, Queue!ZeroBounds)
            /\ UNCHANGED <<capacity, buffer, audio, job, toZero, toStore>>
  /\ UNCHANGED <<expected, lost, sampled, preparing, asked>>

CopyOut ==
  /\ UNCHANGED queueVars
  /\ \E offset \in toFetch : Ring!FetchFrame(offset)
  /\ UNCHANGED <<preparing, asked, sampled, lapped>>

-----------------------------------------------------------------------------
Write(call, take) ==
  LET c == [take |-> take, time |-> call.time, count |-> call.count]
  IN  WriteThatFits(c) \/ WriteThatDiscards(c)

WriterStep == PublishEnd \/ StoreBounds \/ RoomIsMade \/ WriteReturns \/ CopyIn

ReaderStep ==
  \/ LoadCounter
  \/ CheckPasses
  \/ CheckFails
  \/ \E f \in Queue!Fields : LoadField(f)
  \/ CopyOut

Next ==
  \/ Manage
  \/ \E call \in Ring!Calls :
       CallRead(call) \/ \E take \in Takes : Write(call, take)
  \/ WriterStep
  \/ ReaderStep

Spec == Init /\ [][Next]_vars

-----------------------------------------------------------------------------
(* Types of the variables that are not the queue's or the ring's alone.  A *)
(* write that publishes bounds has not begun to copy, or has finished.     *)
TypeOK ==
  /\ preparing \in [take : Takes, time : 0 .. MaxTime, count : 0 .. MaxTime]
                     \cup {Ring!Idle}
  /\ preparing # Ring!Idle => job = Ring!Idle /\ writer # "idle"
  /\ writer # "idle" => toZero = {} /\ toStore = {}
  /\ Writing \/ writer = "idle"
  /\ Fetching => reader = "idle"
  /\ asked \in [time : 0 .. MaxTime, count : 0 .. MaxTime]
  /\ lapped \in BOOLEAN
  /\ lost \subseteq sampled

(* clampTimesToBounds meets the precondition of std::clamp: the bounds     *)
(* that getTimeBounds returns are in order, although their fields are      *)
(* loaded one by one while the writer publishes others, unless the writer  *)
(* came round to the very entry meanwhile.                                 *)
ClampDefined ==
  outcome = "captured" /\ ~lapped => Ordered(snapshot)

(* What a write publishes is still what it has to publish when the other   *)
(* thread gets to see it, and whole: so RoomIsMade and WriteReturns, which *)
(* ask the ring for these very bounds, never hold a write up.              *)
PublishedAsComputed ==
  writer = "publish" =>
    timeBounds[Queue!Slot(queueCounter + 1)] =
      IF preparing # Ring!Idle
        THEN Ring!MadeRoom(preparing)
        ELSE [bounds EXCEPT !["endTime"] = Ring!endWrite]

(* A read that works from bounds the queue gave it, however old they are   *)
(* by then, returns the audio, or the silence, that was there when it      *)
(* loaded the counter, save what writes discarded since: while the bounds  *)
(* were on their way to it, and while it copied.                           *)
ReadsHold ==
  reader = "idle" /\ ~Fetching /\ ~lapped =>
    \A t \in DOMAIN expected \ lost : out[t - request.time] = expected[t]

(* The ring uses the queue as TimeBoundsQueue assumes it is used: one call *)
(* at a time on each side, and bounds that are in order.                   *)
QueueUsedAsAssumed == Queue!Spec

(* The two together are the timeline that the ring with bounds of one      *)
(* piece implements; only the steps of a read whose entry was overtaken    *)
(* are exempt, and those change nothing the writer sees.                   *)
Timeline == INSTANCE AudioTimeline WITH
  audio    <- [t \in Ring!Span(bounds) |-> buffer[Ring!Offset(t)]],
  pending  <- job,
  reading  <- Reading,
  sampled  <- IF Reading THEN sampled ELSE {},
  lost     <- IF Reading THEN lost ELSE {},
  returned <- IF Reading THEN Ring!Nothing
              ELSE [t \in DOMAIN expected |-> out[t - request.time]]

OvertakenRead ==
  /\ lapped'
  /\ UNCHANGED <<capacity, buffer, audio, job, queueCounter, timeBounds>>

TimelineUnlessLapped ==
  /\ Timeline!Init
  /\ [][Timeline!Next \/ UNCHANGED Timeline!vars \/ OvertakenRead]_vars
=============================================================================
