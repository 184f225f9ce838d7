------------------------------ MODULE MovedRings ------------------------------
(***************************************************************************)
(* TimestampedRingBuffers while no other thread uses them: what becomes of  *)
(* their memory and of their time bounds queues when they are allocated,   *)
(* written to, reset, moved and destroyed, in any order.                   *)
(*                                                                         *)
(* The queue is there with its entries and counters, since a move takes    *)
(* them over one by one; the audio in the memory is left out.              *)
(***************************************************************************)
EXTENDS Integers

CONSTANTS
  Rings,           \* the TimestampedRingBuffer objects
  Memory,          \* the blocks std::malloc may return
  NoMemory,        \* no block
  RingFormats,     \* the formats in use
  NoRingFormat,    \* one that is reset
  RingSizes,       \* the capacities allocate makes of what it is asked for
  QueueEntries,    \* timeBoundsQueueSize, 32 in the code
  MaxPublications, \* a bound on the counter of a ring
  LatestTime       \* a bound on the sample times

ASSUME MovedRingsAssumption ==
  /\ NoMemory \notin Memory
  /\ NoRingFormat \notin RingFormats
  /\ RingSizes \subseteq Nat \ {0, 1}
  /\ QueueEntries \in Nat \ {0}
  /\ MaxPublications \in Nat
  /\ LatestTime \in Nat

VARIABLES
  ring,    \* the objects
  inUse,   \* the blocks that were allocated and not freed
  promised \* ghost: the time bounds of each that its calls promise

ringVars == <<ring, inUse, promised>>

Entries == 0 .. QueueEntries - 1

Entry(counter) == counter % QueueEntries

NoBounds == [startTime |-> 0, endTime |-> 0]

Bound(startTime, endTime, counter) ==
  [startTime |-> startTime, endTime |-> endTime, updateCounter |-> counter]

ZeroQueue == [i \in Entries |-> Bound(0, 0, 0)]

NewRing ==
  [buffers |-> NoMemory, capacity |-> 0, capacityMask |-> 0, format |-> NoRingFormat,
   queue |-> ZeroQueue, counter |-> 0]

RingsInit ==
  /\ ring = [x \in Rings |-> NewRing]
  /\ inUse = {}
  /\ promised = [x \in Rings |-> NoBounds]

-----------------------------------------------------------------------------
(* Buffer management.                                                      *)

(* Mutant: the queue is zeroed, its counter is not.                        *)
WithoutBoundsButCounter(r) == [r EXCEPT !.queue = ZeroQueue]

WithoutBounds(r) == [r EXCEPT !.queue = ZeroQueue, !.counter = 0]

(* deallocate of a ring without memory does nothing.                       *)
WithoutMemory(r) ==
  IF r.buffers = NoMemory THEN r
  ELSE [WithoutBounds(r) EXCEPT
          !.buffers = NoMemory, !.capacity = 0, !.capacityMask = 0, !.format = NoRingFormat]

WithMemory(r, b, size, f) ==
  WithoutBounds([WithoutMemory(r) EXCEPT
    !.buffers = b, !.capacity = size, !.capacityMask = size - 1, !.format = f])

(* Once format and size are accepted.  The block that is freed may come    *)
(* back, or there is none.  What is stored is the format as it is after    *)
(* deallocate.                                                             *)
AllocateRing(x, size, f) ==
  LET left == inUse \ {ring[x].buffers}
  IN /\ \/ \E b \in Memory \ left :
             /\ ring' = [ring EXCEPT ![x] = WithMemory(@, b, size, f)]
             /\ inUse' = left \cup {b}
        \/ /\ ring' = [ring EXCEPT ![x] = WithoutMemory(@)]
           /\ inUse' = left
     /\ promised' = [promised EXCEPT ![x] = NoBounds]

(* allocate(ring.format(), size): what is accepted is the ring's own format, *)
(* which is passed by reference, and deallocate resets it.                 *)
AllocateWithOwn(x, size) ==
  /\ ring[x].format # NoRingFormat
  /\ AllocateRing(x, size, NoRingFormat)

DeallocateRing(x) ==
  /\ ring' = [ring EXCEPT ![x] = WithoutMemory(@)]
  /\ inUse' = inUse \ {ring[x].buffers}
  /\ promised' = [promised EXCEPT ![x] = NoBounds]

ResetRing(x) ==
  /\ ring' = [ring EXCEPT ![x] = WithoutBounds(@)]
  /\ promised' = [promised EXCEPT ![x] = NoBounds]
  /\ UNCHANGED inUse

(* Mutant: the other ring keeps the pointer to its memory.                 *)
MoveRingKeepsPointer(x, y) ==
  /\ x # y
  /\ ring' = [ring EXCEPT ![x] = ring[y], ![y] = [NewRing EXCEPT !.buffers = ring[y].buffers]]
  /\ inUse' = inUse \ {ring[x].buffers}
  /\ promised' = [promised EXCEPT ![x] = promised[y], ![y] = NoBounds]

(* Into an object of its own: each field is exchanged for that of a new    *)
(* ring.  Of a ring into itself, nothing.  The constructor is the          *)
(* assignment to a new ring.                                               *)
MoveRing(x, y) ==
  /\ x # y
  /\ ring' = [ring EXCEPT ![x] = ring[y], ![y] = NewRing]
  /\ inUse' = inUse \ {ring[x].buffers}
  /\ promised' = [promised EXCEPT ![x] = promised[y], ![y] = NoBounds]

(* The destructor, and a new ring in its place.                            *)
DestroyRing(x) ==
  /\ ring' = [ring EXCEPT ![x] = NewRing]
  /\ inUse' = inUse \ {ring[x].buffers}
  /\ promised' = [promised EXCEPT ![x] = NoBounds]

-----------------------------------------------------------------------------
(* write, as far as the queue is concerned.                                *)

Latest(r) == r.queue[Entry(r.counter)]

Published(r, startTime, endTime) ==
  LET next == r.counter + 1
  IN [r EXCEPT !.queue = [@ EXCEPT ![Entry(next)] = Bound(startTime, endTime, next)],
               !.counter = next]

Later(a, b) == IF a > b THEN a ELSE b

(* Mutant: when the window moves past its own end, the end stays behind.   *)
RingWithRoomKeepsEnd(r, time, end) ==
  IF time < Latest(r).endTime
    THEN Published(r, time, time)
  ELSE IF end - Latest(r).startTime <= r.capacity
    THEN r
    ELSE Published(r, end - r.capacity, Latest(r).endTime)

RingWithRoom(r, time, end) ==
  IF time < Latest(r).endTime
    THEN Published(r, time, time)
  ELSE IF end - Latest(r).startTime <= r.capacity
    THEN r
    ELSE Published(r, end - r.capacity, Later(end - r.capacity, Latest(r).endTime))

Written(r, time, end) ==
  LET roomy == RingWithRoom(r, time, end)
  IN Published(roomy, Latest(roomy).startTime, end)

(* What is promised of it: the frames written, and those before them that  *)
(* a ring of its capacity has room for, but none if it went back in time.  *)
Window(b, capacity, time, end) ==
  [startTime |-> IF time < b.endTime THEN time ELSE Later(b.startTime, end - capacity),
   endTime   |-> end]

WriteToRing(x, time, count) ==
  /\ count <= ring[x].capacity
  /\ ring' = [ring EXCEPT ![x] = Written(@, time, time + count)]
  /\ promised' = [promised EXCEPT ![x] = Window(@, ring[x].capacity, time, time + count)]
  /\ UNCHANGED inUse

-----------------------------------------------------------------------------
RingsNext ==
  \/ \E x \in Rings :
       \/ \E size \in RingSizes, f \in RingFormats : AllocateRing(x, size, f)
       \/ \E size \in RingSizes : AllocateWithOwn(x, size)
       \/ DeallocateRing(x)
       \/ ResetRing(x)
       \/ DestroyRing(x)
       \/ \E y \in Rings : MoveRing(x, y)
       \/ \E time, count \in 0 .. LatestTime :
            /\ count # 0
            /\ time + count <= LatestTime
            /\ ring[x].counter + 2 <= MaxPublications
            /\ WriteToRing(x, time, count)

RingsSpec == RingsInit /\ [][RingsNext]_ringVars

-----------------------------------------------------------------------------
RingRecords ==
  [buffers : Memory \cup {NoMemory}, capacity : RingSizes \cup {0}, capacityMask : Nat,
   format : RingFormats \cup {NoRingFormat},
   queue : [Entries -> [startTime : Nat, endTime : Nat, updateCounter : Nat]], counter : Nat]

InOrder(r) == \A i \in Entries : r.queue[i].startTime <= r.queue[i].endTime

(* Types of the variables.  No entry of a queue is of a time after its end. *)
RingTypes ==
  /\ ring \in [Rings -> RingRecords]
  /\ \A x \in Rings : InOrder(ring[x])
  /\ inUse \subseteq Memory
  /\ promised \in [Rings -> [startTime : Nat, endTime : Nat]]

(* The memory that is allocated is that of the rings, each has its own, and *)
(* a ring without memory, emptied or moved from, is in no way different    *)
(* from a new one.                                                         *)
RingsOwnTheirMemory ==
  /\ inUse = {ring[x].buffers : x \in Rings} \ {NoMemory}
  /\ \A x, y \in Rings :
       (ring[x].buffers = ring[y].buffers /\ x # y) => ring[x].buffers = NoMemory
  /\ \A x \in Rings :
       IF ring[x].buffers = NoMemory THEN ring[x] = NewRing
       ELSE ring[x].capacity # 0 /\ ring[x].capacityMask = ring[x].capacity - 1

(* A ring that no other thread uses answers getTimeBounds at the first try, *)
(* with the bounds of the writes since it, or the ring it was moved from,  *)
(* was last emptied.                                                       *)
BoundsSurvive ==
  \A x \in Rings :
    Latest(ring[x]) = Bound(promised[x].startTime, promised[x].endTime, ring[x].counter)

-----------------------------------------------------------------------------
(* What the documentation says and the code does not do.                   *)

(* The format given to allocate is "The format of the audio that will be    *)
(* written to and read from this buffer" (TimestampedRingBuffer.hpp:79): a *)
(* ring that has memory has a format.                                      *)
MemoryHasFormat ==
  \A x \in Rings : ring[x].buffers # NoMemory => ring[x].format # NoRingFormat
=============================================================================
