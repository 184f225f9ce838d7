----------------------------- MODULE ListReading ------------------------------
(***************************************************************************)
(* The list a reader of a TimestampedRingBuffer reads into: a BufferList    *)
(* whose sizes say how far read may go, and which read sets in turn.       *)
(*                                                                         *)
(* All buffers of the list are alike, so there is one, byte by byte.  The  *)
(* ring is what the times of a call find in it: any bounds, and for each    *)
(* time in them its frame.  Offsets and sizes are in bytes, in UInt32.     *)
(* A read that leaves the memory of the list goes on here, as if nothing    *)
(* came of it, so that what follows is seen too.                           *)
(***************************************************************************)
EXTENDS Integers

CONSTANTS
  FrameCapacity, \* of the list
  RingCapacity,  \* of the ring, a power of two
  BytesPerFrame,
  LastTime,      \* a bound on sample times
  UInt32Values,  \* how many values a UInt32 has
  Silence,
  Stale          \* what the list held before

ASSUME ReadingAssumption ==
  /\ FrameCapacity \in Nat
  /\ RingCapacity \in Nat \ {0}
  /\ BytesPerFrame \in Nat \ {0}
  /\ LastTime \in Nat
  /\ UInt32Values \in Nat
  /\ FrameCapacity * BytesPerFrame < UInt32Values \* or the list is not allocated
  /\ RingCapacity * BytesPerFrame < UInt32Values  \* or the ring is not
  /\ Silence \notin Nat /\ Stale \notin Nat

VARIABLES
  data,     \* the bytes of the list: of the frame of a time, silent, or stale
  dataSize, \* mDataByteSize
  length,   \* frameLength_
  ready,    \* ghost: prepareForReading was the last call
  expected, \* ghost: what a read that found it ready is to leave
  \* Ghosts, of the reads since the list itself last set its sizes:
  tooLong,  \* how many, up to two, asked for more frames than it has
  asserted, \* whether all assertions held
  inside    \* whether all stayed in its memory

ghosts == <<tooLong, asserted, inside>>

listVars == <<data, dataSize, length, ready, expected, ghosts>>

Room == FrameCapacity * BytesPerFrame

Bytes == 0 .. Room - 1

NothingExpected == [i \in {} |-> Stale]

Least(a, b) == IF a < b THEN a ELSE b

ListInit ==
  /\ data = [i \in Bytes |-> Stale]
  /\ dataSize = Room
  /\ length = 0
  /\ ready = FALSE
  /\ expected = NothingExpected
  /\ tooLong = 0 /\ asserted = TRUE /\ inside = TRUE

SizeIsSet == tooLong' = 0 /\ asserted' = TRUE /\ inside' = TRUE

-----------------------------------------------------------------------------
(* setFrameLength.                                                         *)

SizeOf(n) == n * BytesPerFrame

SetFrameLength(n) ==
  /\ n <= FrameCapacity
  /\ length' = n
  /\ dataSize' = SizeOf(n)
  /\ ready' = FALSE
  /\ expected' = NothingExpected
  /\ SizeIsSet
  /\ UNCHANGED data

PrepareForReading ==
  /\ length' = FrameCapacity
  /\ dataSize' = SizeOf(FrameCapacity)
  /\ ready' = TRUE
  /\ expected' = NothingExpected
  /\ SizeIsSet
  /\ UNCHANGED data

(* It throws, and changes nothing, when there are more than FrameCapacity. *)
InferFrameLength ==
  /\ dataSize \div BytesPerFrame <= FrameCapacity
  /\ length' = dataSize \div BytesPerFrame
  /\ ready' = FALSE
  /\ expected' = NothingExpected
  /\ UNCHANGED <<data, dataSize, ghosts>>

-----------------------------------------------------------------------------
(* read(bufferList, count, time).                                          *)

(* The times of a call that are in the bounds, from a first to an end.     *)
FirstIn(call) == IF call.time < call.startTime THEN call.startTime ELSE call.time

EndIn(call) == Least(call.time + call.count, call.endTime)

Overlaps(call) ==
  /\ call.time <= call.endTime
  /\ call.startTime <= call.time + call.count
  /\ FirstIn(call) < EndIn(call)

Offset(time) == (time % RingCapacity) * BytesPerFrame

(* A copy or a memset: the offset in the list, how much is asked for, and  *)
(* the time of the first frame or Silence.                                 *)
Piece(offset, count, from) == [offset |-> offset, count |-> count, from |-> from]

(* Silence before the audio, and after it, when there is any.              *)
Gaps(call) ==
  LET before == (FirstIn(call) - call.time) * BytesPerFrame
      audio == (EndIn(call) - FirstIn(call)) * BytesPerFrame
      after == (call.time + call.count - EndIn(call)) * BytesPerFrame
  IN {p \in {Piece(0, before, Silence), Piece(before + audio, after, Silence)} : p.count > 0}

(* Mutant: what wraps around goes where the first part went.               *)
FetchedAtOnePlace(call) ==
  LET before == (FirstIn(call) - call.time) * BytesPerFrame
      first == Offset(FirstIn(call))
      last == Offset(EndIn(call))
      toEnd == RingCapacity * BytesPerFrame - first
  IN IF first < last
       THEN {Piece(before, last - first, FirstIn(call))}
       ELSE {Piece(before, toEnd, FirstIn(call)),
             Piece(before, last, FirstIn(call) + toEnd \div BytesPerFrame)}

(* The audio, in one part or, around the end of the ring, in two.          *)
Fetched(call) ==
  LET before == (FirstIn(call) - call.time) * BytesPerFrame
      first == Offset(FirstIn(call))
      last == Offset(EndIn(call))
      toEnd == RingCapacity * BytesPerFrame - first
  IN IF first < last
       THEN {Piece(before, last - first, FirstIn(call))}
       ELSE {Piece(before, toEnd, FirstIn(call)),
             Piece(before + toEnd, last, FirstIn(call) + toEnd \div BytesPerFrame)}

Pieces(call) ==
  IF Overlaps(call)
    THEN Gaps(call) \cup Fetched(call)
    ELSE {Piece(0, call.count * BytesPerFrame, Silence)}

(* Mutant: the size of the list is not looked at.                          *)
ReachAll(p) == p.offset .. p.offset + p.count - 1

(* The bytes a piece goes to: as many as the list's size is thought to     *)
(* leave.  Below the offset, the difference wraps around.                  *)
Reach(p) == p.offset .. p.offset + Least(p.count, (dataSize - p.offset) % UInt32Values) - 1

ContentOf(p, i) ==
  IF p.from = Silence THEN Silence ELSE p.from + (i - p.offset) \div BytesPerFrame

(* Mutant: the size is that of the part of the ring up to its end.         *)
SizeFetchedPastEnd(call) ==
  LET first == Offset(FirstIn(call))
      last == Offset(EndIn(call))
  IN IF first < last THEN last - first ELSE RingCapacity * BytesPerFrame + last

SizeFetched(call) ==
  LET first == Offset(FirstIn(call))
      last == Offset(EndIn(call))
  IN IF first < last THEN last - first ELSE RingCapacity * BytesPerFrame - first + last

(* What a caller is told it gets: the frames of its times, with silence for *)
(* those the ring has not, and the rest of its list as it was.             *)
Wanted(call) ==
  [i \in Bytes |->
     LET t == call.time + i \div BytesPerFrame
     IN IF t >= call.time + call.count THEN data[i]
        ELSE IF t \in call.startTime .. call.endTime - 1 THEN t ELSE Silence]

(* Where the assertions, that no piece begins past the size, are compiled   *)
(* out, what does not meet them goes on.                                   *)
Read(call) ==
  LET pieces == Pieces(call)
  IN /\ data' = [i \in Bytes |->
          IF \E p \in pieces : i \in Reach(p)
            THEN ContentOf(CHOOSE p \in pieces : i \in Reach(p), i)
            ELSE data[i]]
     /\ tooLong' = IF call.count > FrameCapacity THEN Least(tooLong + 1, 2) ELSE tooLong
     /\ asserted' = (asserted /\ \A p \in pieces : p.offset <= dataSize)
     /\ inside' = (inside /\ \A p \in pieces : Reach(p) \subseteq Bytes)
     /\ dataSize' = IF Overlaps(call) THEN SizeFetched(call) ELSE dataSize
     /\ expected' = IF ready THEN Wanted(call) ELSE NothingExpected
     /\ ready' = FALSE
     /\ UNCHANGED length

(* Calls for what a ring can have, whatever the list has room for, in any   *)
(* bounds of no more times than its capacity; none runs past LastTime.     *)
Calls ==
  {c \in [time : 0 .. LastTime, count : 1 .. RingCapacity,
          startTime : 0 .. LastTime, endTime : 0 .. LastTime] :
     /\ c.time + c.count <= LastTime
     /\ c.startTime <= c.endTime /\ c.endTime - c.startTime <= RingCapacity}

ListNext ==
  \/ \E n \in 0 .. FrameCapacity + 1 : SetFrameLength(n)
  \/ PrepareForReading
  \/ InferFrameLength
  \/ \E call \in Calls : Read(call)

ListSpec == ListInit /\ [][ListNext]_listVars

-----------------------------------------------------------------------------
(* Types of the variables.                                                 *)
ListTypes ==
  /\ data \in [Bytes -> (0 .. LastTime - 1) \cup {Silence, Stale}]
  /\ dataSize \in Nat
  /\ length \in 0 .. FrameCapacity
  /\ ready \in BOOLEAN
  /\ tooLong \in 0 .. 2
  /\ asserted \in BOOLEAN /\ inside \in BOOLEAN

(* A read into a list that was prepared fills all it was asked for, as far  *)
(* as the list goes, with the audio of its times or with silence and       *)
(* leaves the rest as it was.                                              *)
ReadsFillTheList == inside => \A i \in DOMAIN expected : data[i] = expected[i]

(* Reads for no more frames than the list has stay in its memory, and so    *)
(* does one for more if its assertions and those of the reads before it    *)
(* hold, however short a size those left for it to go by; up to the next    *)
(* one for more.                                                           *)
ReadsStayInside == (tooLong = 0 \/ (tooLong = 1 /\ asserted)) => inside

(* The sizes that reads for no more frames than the list has leave are ones *)
(* that inferFrameLength takes: it does not throw, however many came       *)
(* between.                                                                *)
SizesCanBeInferred ==
  tooLong = 0 =>
    dataSize % BytesPerFrame = 0 /\ dataSize \div BytesPerFrame <= FrameCapacity

=============================================================================
