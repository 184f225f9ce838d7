------------------------ MODULE RingOverQueueProofs -------------------------
(***************************************************************************)
(* Proofs about RingOverQueue, for every capacity, size of the queue,      *)
(* number of tries and bound on the times and the publications.            *)
(***************************************************************************)
EXTENDS RingOverQueue, TLAPS

(* What is proved of the parts, about the parts of the whole.              *)
Q == INSTANCE TimeBoundsQueueProofs WITH
  Times <- 0 .. MaxTime, toStore <- boundsToStore

R == INSTANCE TimestampedRingBufferProofs

(* The ring as its writer sees it, without a reader.                       *)
W == INSTANCE TimestampedRingBufferProofs WITH
  request <- Nobody, lo <- 0, hi <- 0, toFetch <- {}, out <- Ring!Nothing,
  dataSize <- 0, expected <- Ring!Nothing, lost <- {}

LEMMA Constants ==
  /\ Q!QueueAssumption /\ R!RingAssumption /\ W!RingAssumption
  /\ QueueSize \in Nat /\ QueueSize > 1 /\ MaxTime \in Nat /\ MaxUpdates \in Nat
BY CompositionAssumption
   DEF Queue!QueueAssumption, Ring!RingAssumption, Q!QueueAssumption,
       R!RingAssumption, W!RingAssumption

LEMMA QueueSame ==
  /\ Queue!Init => Q!Init
  /\ [Queue!Next]_(Queue!vars) => [Q!Next]_(Q!vars)
  /\ Queue!Windows = Q!Windows /\ Queue!Fields = Q!Fields
  /\ \A k : Queue!Slot(k) = Q!Slot(k)
<1>1. Queue!Windows = Q!Windows /\ Queue!Fields = Q!Fields
  BY DEF Queue!Windows, Q!Windows, Queue!Fields, Q!Fields, Queue!Bounds, Q!Bounds
<1>2. \A k : Queue!Slot(k) = Q!Slot(k)
  BY DEF Queue!Slot, Q!Slot
<1>3. Queue!Init => Q!Init
  BY <1>1 DEF Queue!Init, Q!Init, Queue!ZeroBounds, Q!ZeroBounds, Queue!Slots, Q!Slots
<1>4. Queue!Next => Q!Next
  BY <1>1, <1>2
     DEF Queue!Next, Q!Next, Queue!SetTimeBounds, Q!SetTimeBounds,
         Queue!GetTimeBounds, Q!GetTimeBounds,
         Queue!BeginSet, Q!BeginSet, Queue!StoreField, Q!StoreField,
         Queue!StoreUpdateCounter, Q!StoreUpdateCounter,
         Queue!IncrementCounter, Q!IncrementCounter,
         Queue!CallGetTimeBounds, Q!CallGetTimeBounds,
         Queue!LoadCounter, Q!LoadCounter, Queue!CheckPasses, Q!CheckPasses,
         Queue!CheckFails, Q!CheckFails, Queue!LoadField, Q!LoadField,
         Queue!Reset, Q!Reset, Queue!nextCounter, Q!nextCounter,
         Queue!ZeroBounds, Q!ZeroBounds, Queue!Slots, Q!Slots,
         Queue!writerVars, Q!writerVars, Queue!readerVars, Q!readerVars
<1>5. Queue!vars' = Queue!vars => Q!vars' = Q!vars
  BY DEF Queue!vars, Q!vars, Queue!writerVars, Q!writerVars,
         Queue!readerVars, Q!readerVars
<1>6. QED
  BY <1>1, <1>2, <1>3, <1>4, <1>5

LEMMA RingSame ==
  /\ Ring!Idle = W!Idle /\ Ring!Idle = R!Idle
  /\ Ring!Nothing = W!Nothing /\ Ring!Nothing = R!Nothing
  /\ Ring!Times = W!Times /\ Ring!Times = R!Times
  /\ Ring!Frames = W!Frames /\ Ring!Frames = R!Frames
  /\ Ring!endWrite = W!endWrite /\ Ring!endWrite = R!endWrite
  /\ Ring!Calls = R!Calls
  /\ W!Writes = R!Writes
  /\ \A t : Ring!Offset(t) = W!Offset(t) /\ Ring!Offset(t) = R!Offset(t)
  /\ \A b : Ring!Span(b) = W!Span(b) /\ Ring!Span(b) = R!Span(b)
  /\ \A c : Ring!TimesOf(c) = W!TimesOf(c) /\ Ring!TimesOf(c) = R!TimesOf(c)
  /\ \A a, b : /\ Ring!Larger(a, b) = W!Larger(a, b)
               /\ Ring!Larger(a, b) = R!Larger(a, b)
  /\ \A a, b : /\ Ring!Region(a, b) = W!Region(a, b)
               /\ Ring!Region(a, b) = R!Region(a, b)
  /\ \A a, b : Ring!Place(a, b) = W!Place(a, b) /\ Ring!Place(a, b) = R!Place(a, b)
  /\ \A c : Ring!MadeRoom(c) = W!MadeRoom(c) /\ Ring!MadeRoom(c) = R!MadeRoom(c)
<1>1. Ring!Times = W!Times /\ Ring!Times = R!Times
  BY DEF Ring!Times, W!Times, R!Times
<1>2. \A t : Ring!Offset(t) = W!Offset(t) /\ Ring!Offset(t) = R!Offset(t)
  BY DEF Ring!Offset, W!Offset, R!Offset
<1>3. \A a, b : /\ Ring!Larger(a, b) = W!Larger(a, b)
                /\ Ring!Larger(a, b) = R!Larger(a, b)
  BY DEF Ring!Larger, W!Larger, R!Larger
<1>4. \A a, b : /\ Ring!Region(a, b) = W!Region(a, b)
                /\ Ring!Region(a, b) = R!Region(a, b)
  BY <1>2 DEF Ring!Region, W!Region, R!Region
<1>5. \A a, b : Ring!Place(a, b) = W!Place(a, b) /\ Ring!Place(a, b) = R!Place(a, b)
  BY <1>2 DEF Ring!Place, W!Place, R!Place
<1>6. \A c : Ring!MadeRoom(c) = W!MadeRoom(c) /\ Ring!MadeRoom(c) = R!MadeRoom(c)
  BY <1>3 DEF Ring!MadeRoom, W!MadeRoom, R!MadeRoom,
              Ring!NewStart, W!NewStart, R!NewStart, bounds
<1>7. QED
  BY <1>1, <1>2, <1>3, <1>4, <1>5, <1>6
     DEF Ring!Idle, W!Idle, R!Idle, Ring!Nothing, W!Nothing, R!Nothing,
         Ring!Frames, W!Frames, R!Frames, Ring!endWrite, W!endWrite, R!endWrite,
         Ring!Calls, R!Calls, W!Writes, R!Writes,
         Ring!Span, W!Span, R!Span, Ring!TimesOf, W!TimesOf, R!TimesOf

-----------------------------------------------------------------------------
(* The inductive invariant.                                                *)

(* The bounds that the writer is about to make the ring's.                 *)
ToPublish ==
  IF preparing # Ring!Idle
    THEN Ring!MadeRoom(preparing)
    ELSE [bounds EXCEPT !["endTime"] = Ring!endWrite]

(* Between its publications the writer finds the ring as it would with     *)
(* bounds of one piece; and it publishes what it computed from them,       *)
(* because nobody else publishes.                                          *)
WriterHolds ==
  /\ W!TypeOK
  /\ W!RingInvariant
  /\ preparing # Ring!Idle =>
       preparing \in R!Writes /\ preparing.count <= capacity
  /\ writer # "idle" => intended[queueCounter + 1] = ToPublish

(* What a read is to return was settled when it loaded the counter, by the *)
(* bounds that the counter stood for; and what has not been discarded      *)
(* since is still there, even for a read that was overtaken.               *)
SampleHolds ==
  /\ reader # "idle" => asked \in Ring!Calls /\ asked.count <= capacity
  /\ reader \in {"check", "copy"} =>
       /\ expected \in [Ring!TimesOf(asked) -> Ring!Frames]
       /\ sampled =
            Ring!TimesOf(asked) \cap Ring!Span(intended[currentCounter])
       /\ \A t \in Ring!TimesOf(asked) \ sampled : expected[t] = Silence
  /\ Reading =>
       \A t \in sampled \ lost :
         t \in Ring!Span(bounds) /\ audio[t] = expected[t]

(* A read that was not overtaken copies as if it had taken the bounds in   *)
(* one piece.                                                              *)
CopyHolds ==
  Fetching /\ ~lapped =>
    R!TypeOK /\ R!RingInvariant /\ sampled = lo .. hi - 1

Inv ==
  /\ Q!TypeOK /\ Q!QueueInvariant
  /\ TypeOK
  /\ WriterHolds
  /\ SampleHolds
  /\ CopyHolds
  /\ ClampDefined
  /\ ReadsHold

-----------------------------------------------------------------------------
(* What the parts have in common.                                          *)

(* The ring's bounds are those the counter stands for.                     *)
LEMMA BoundsAreIntended ==
  /\ Q!TypeOK /\ Q!QueueInvariant =>
       bounds = intended[queueCounter] /\ queueCounter \in 0 .. MaxUpdates
  /\ (Q!TypeOK /\ Q!QueueInvariant)' =>
       bounds' = intended'[queueCounter'] /\ queueCounter' \in 0 .. MaxUpdates
<1>1. ASSUME Q!TypeOK, Q!QueueInvariant
      PROVE  bounds = intended[queueCounter] /\ queueCounter \in 0 .. MaxUpdates
  <2>1. /\ queueCounter \in 0 .. queueCounter
        /\ queueCounter \in 0 .. MaxUpdates
        /\ Q!nextCounter - queueCounter < QueueSize
    BY <1>1, Constants DEF Q!TypeOK, Q!nextCounter
  <2>2. QED
    BY <1>1, <2>1, QueueSame DEF Q!QueueInvariant, Q!EntriesHold, bounds
<1>2. ASSUME Q!TypeOK', Q!QueueInvariant'
      PROVE  /\ bounds' = intended'[queueCounter']
             /\ queueCounter' \in 0 .. MaxUpdates
  <2>1. /\ queueCounter' \in 0 .. queueCounter'
        /\ queueCounter' \in 0 .. MaxUpdates
        /\ Q!nextCounter' - queueCounter' < QueueSize
    <3>1. queueCounter' \in 0 .. MaxUpdates
      BY <1>2 DEF Q!TypeOK
    <3>2. queueCounter' \in 0 .. queueCounter'
      BY <3>1, Constants
    <3>3. Q!nextCounter' - queueCounter' = 1
      BY <3>2 DEF Q!nextCounter
    <3>4. QED
      BY <3>1, <3>2, <3>3, Constants
  <2>2. QED
    BY <1>2, <2>1, QueueSame DEF Q!QueueInvariant, Q!EntriesHold, bounds
<1>3. QED
  BY <1>1, <1>2

(* A record of two times is a function of the two fields.                  *)
LEMMA WindowsAreRecords ==
  /\ \A b \in [startTime : W!Times, endTime : W!Times] :
       b.startTime <= b.endTime => b \in Queue!Windows
  /\ \A b \in Queue!Windows :
       /\ b \in [startTime : W!Times, endTime : W!Times]
       /\ b.startTime <= b.endTime
       /\ Ordered(b)
BY DEF Queue!Windows, Queue!Bounds, Queue!Fields, W!Times, Ordered

(* The writer publishes bounds that are in order: those it makes room      *)
(* with, and those that end where what it wrote ends.                      *)
LEMMA PublishesWindows ==
  ASSUME Inv
  PROVE  /\ \A c \in R!Writes : c.count <= capacity =>
              Ring!MadeRoom(c) \in Queue!Windows
         /\ job # Ring!Idle =>
              [bounds EXCEPT !["endTime"] = Ring!endWrite] \in Queue!Windows
<1>1. W!TypeOK /\ W!BoundsHold /\ W!WriteHolds
  BY DEF Inv, WriterHolds, W!RingInvariant
<1>2. ASSUME NEW c \in R!Writes, c.count <= capacity
      PROVE  Ring!MadeRoom(c) \in Queue!Windows
  <2>1. c \in W!Writes /\ Ring!MadeRoom(c) = W!MadeRoom(c)
    BY RingSame
  <2>2. /\ W!MadeRoom(c) \in [startTime : W!Times, endTime : W!Times]
        /\ W!MadeRoom(c).startTime <= W!MadeRoom(c).endTime
    BY <1>1, <1>2, <2>1, Constants, W!RoomIsMade
  <2>3. QED
    BY <2>1, <2>2, WindowsAreRecords
<1>3. ASSUME job # Ring!Idle
      PROVE  [bounds EXCEPT !["endTime"] = Ring!endWrite] \in Queue!Windows
  <2>1. job # W!Idle /\ Ring!endWrite = W!endWrite
    BY <1>3, RingSame
  <2>2. /\ W!endWrite \in Nat /\ W!endWrite <= MaxTime
        /\ bounds.startTime \in Nat /\ bounds.startTime <= bounds.endTime
        /\ bounds.endTime \in Nat /\ bounds.endTime <= job.time
        /\ job.time \in Nat /\ job.time < W!endWrite
    BY <1>1, <2>1, Constants, W!JobFacts
  <2>3. bounds \in [startTime : W!Times, endTime : W!Times]
    BY <1>1 DEF W!TypeOK
  <2>4. W!endWrite \in W!Times /\ bounds.startTime <= W!endWrite
    BY <2>2, Constants DEF W!Times
  <2>5. QED
    BY <2>1, <2>3, <2>4, WindowsAreRecords
<1>4. QED
  BY <1>2, <1>3

(* The steps of the thread that writes.                                    *)
WriterActs ==
  \/ \E c \in R!Writes : WriteThatFits(c) \/ WriteThatDiscards(c)
  \/ WriterStep

LEMMA StepCases ==
  ASSUME [Next]_vars
  PROVE  \/ Manage
         \/ WriterActs
         \/ \E call \in Ring!Calls : CallRead(call)
         \/ ReaderStep
         \/ UNCHANGED vars
<1>1. ASSUME NEW call \in Ring!Calls, NEW take \in Takes, Write(call, take)
      PROVE  WriterActs
  <2> DEFINE c == [take |-> take, time |-> call.time, count |-> call.count]
  <2>1. c \in R!Writes
    BY DEF Ring!Calls, R!Writes, Ring!Times, R!Times
  <2>2. WriteThatFits(c) \/ WriteThatDiscards(c)
    BY <1>1 DEF Write
  <2> HIDE DEF c
  <2>3. QED
    BY <2>1, <2>2 DEF WriterActs
<1>2. QED
  BY <1>1 DEF Next, WriterActs

(* Every step of the whole is one of the queue, or leaves it alone.        *)
LEMMA QueueStep ==
  ASSUME Inv, [Next]_vars
  PROVE  [Queue!Next]_(Queue!vars)
<1>1. UNCHANGED queueVars => UNCHANGED Queue!vars
  BY DEF queueVars, Queue!vars, Queue!writerVars, Queue!readerVars
<1>2. ASSUME NEW b \in Queue!Windows, Queue!BeginSet(b)
      PROVE  Queue!Next
  BY <1>2 DEF Queue!Next, Queue!SetTimeBounds
<1>3. CASE Manage
  BY <1>3 DEF Manage, Queue!Next
<1>4. ASSUME NEW call \in Ring!Calls, CallRead(call)
      PROVE  Queue!Next
  BY <1>4 DEF CallRead, Queue!Next, Queue!GetTimeBounds
<1>5. ASSUME NEW c \in R!Writes, WriteThatFits(c) \/ WriteThatDiscards(c)
      PROVE  [Queue!Next]_(Queue!vars)
  BY <1>1, <1>2, <1>5, PublishesWindows DEF WriteThatFits, WriteThatDiscards
<1>6. CASE PublishEnd
  BY <1>2, <1>6, PublishesWindows DEF PublishEnd
<1>7. CASE StoreBounds
  BY <1>7 DEF StoreBounds, Queue!Next, Queue!SetTimeBounds
<1>8. CASE RoomIsMade \/ WriteReturns
  BY <1>8 DEF RoomIsMade, WriteReturns, Queue!Next, Queue!SetTimeBounds
<1>9. CASE CopyIn \/ CopyOut
  BY <1>1, <1>9 DEF CopyIn, CopyOut
<1>10. CASE LoadCounter \/ CheckPasses \/ CheckFails
  BY <1>10
     DEF LoadCounter, CheckPasses, CheckFails, Queue!Next, Queue!GetTimeBounds
<1>11. ASSUME NEW f \in Queue!Fields, LoadField(f)
       PROVE  Queue!Next
  BY <1>11 DEF LoadField, Queue!Next, Queue!GetTimeBounds
<1>12. CASE UNCHANGED vars
  BY <1>1, <1>12 DEF vars
<1>13. QED
  BY <1>3, <1>4, <1>5, <1>6, <1>7, <1>8, <1>9, <1>10, <1>11, <1>12, StepCases
     DEF WriterActs, WriterStep, ReaderStep

LEMMA QueueKeeps ==
  ASSUME Inv, [Next]_vars
  PROVE  (Q!TypeOK /\ Q!QueueInvariant)'
<1>1. Q!TypeOK /\ Q!QueueInvariant
  BY DEF Inv
<1>2. [Q!Next]_(Q!vars)
  BY QueueStep, QueueSame
<1>3. QED
  BY <1>1, <1>2, Constants, Q!StepKeepsTypes, Q!StepKeepsInvariant

(* Until the counter is incremented the ring's bounds stay what they are,  *)
(* whatever is stored to the queue.                                        *)
LEMMA BoundsStay ==
  ASSUME Inv, [Next]_vars, queueCounter' = queueCounter,
         \/ UNCHANGED intended
         \/ \E b : intended' = [intended EXCEPT ![queueCounter + 1] = b]
  PROVE  bounds' = bounds
<1>1. Q!TypeOK /\ Q!QueueInvariant /\ (Q!TypeOK /\ Q!QueueInvariant)'
  BY QueueKeeps DEF Inv
<1>2. bounds = intended[queueCounter] /\ queueCounter \in 0 .. MaxUpdates
  BY <1>1, BoundsAreIntended
<1>3. bounds' = intended'[queueCounter]
  BY <1>1, BoundsAreIntended
<1>4. DOMAIN intended = 0 .. MaxUpdates
  BY <1>1 DEF Q!TypeOK
<1>5. intended'[queueCounter] = intended[queueCounter]
  BY <1>2, <1>4, Constants
<1>6. QED
  BY <1>2, <1>3, <1>5

(* The steps that leave the ring's frames, bounds and write alone.         *)
RingRests ==
  /\ UNCHANGED <<capacity, buffer, bounds, audio, job, toZero, toStore>>
  /\ queueCounter' = queueCounter

LEMMA RestingSteps ==
  ASSUME Inv, [Next]_vars,
         \/ \E c \in R!Writes : WriteThatDiscards(c)
         \/ PublishEnd
         \/ StoreBounds
         \/ \E call \in Ring!Calls : CallRead(call)
         \/ ReaderStep
         \/ UNCHANGED vars
  PROVE  RingRests
<1> DEFINE Still ==
             /\ UNCHANGED <<capacity, buffer, audio, job, toZero, toStore>>
             /\ queueCounter' = queueCounter
             /\ \/ UNCHANGED intended
                \/ \E b : intended' = [intended EXCEPT ![queueCounter + 1] = b]
<1>1. ASSUME NEW c \in R!Writes, WriteThatDiscards(c)
      PROVE  Still
  BY <1>1 DEF WriteThatDiscards, Queue!BeginSet, Queue!nextCounter, ringVars
<1>2. ASSUME PublishEnd
      PROVE  Still
  BY <1>2 DEF PublishEnd, Queue!BeginSet, Queue!nextCounter, ringVars
<1>3. ASSUME StoreBounds
      PROVE  Still
  BY <1>3 DEF StoreBounds, Queue!StoreField, Queue!StoreUpdateCounter, ringVars
<1>4. ASSUME NEW call \in Ring!Calls, CallRead(call)
      PROVE  Still
  BY <1>4 DEF CallRead, Queue!CallGetTimeBounds, Queue!writerVars, ringVars
<1>5. ASSUME LoadCounter \/ CheckPasses \/ CheckFails
      PROVE  Still
  BY <1>5 DEF LoadCounter, CheckPasses, CheckFails, Queue!LoadCounter,
              Queue!CheckPasses, Queue!CheckFails, Queue!writerVars, ringVars
<1>6. ASSUME NEW f \in Queue!Fields, LoadField(f)
      PROVE  Still
  BY <1>6 DEF LoadField, Queue!LoadField, Queue!writerVars, ringVars
<1>7. ASSUME CopyOut
      PROVE  Still
  BY <1>7 DEF CopyOut, Ring!FetchFrame, Ring!writerVars, queueVars
<1>8. ASSUME UNCHANGED vars
      PROVE  Still
  BY <1>8 DEF vars, ringVars, queueVars
<1> HIDE DEF Still
<1>9. Still
  BY <1>1, <1>2, <1>3, <1>4, <1>5, <1>6, <1>7, <1>8 DEF ReaderStep
<1>10. QED
  BY <1>9, BoundsStay DEF RingRests, Still

(* Making room, and ending a write, are steps of the ring: the bounds that *)
(* it publishes are those that it computes.                                *)
LEMMA RoomIsOfRing ==
  ASSUME Inv, NEW c \in R!Writes, Ring!MakeRoom(c)
  PROVE  W!BeginWrite(c) /\ R!MakeRoom(c)
<1>1. bounds' = timeBounds'[Queue!Slot(queueCounter')]
  BY DEF bounds
<1>2. /\ job = Ring!Idle
      /\ c.count <= capacity
      /\ job' = c
      /\ bounds' = Ring!MadeRoom(c)
      /\ toZero' = IF c.time > bounds'.endTime
                     THEN Ring!Region(bounds'.endTime, c.time)
                     ELSE {}
      /\ toStore' = Ring!Region(c.time, c.time + c.count)
      /\ audio' = [t \in Ring!Span(bounds') |-> audio[t]]
      /\ UNCHANGED <<capacity, buffer>>
  BY <1>1 DEF Ring!MakeRoom
<1>3. R!MakeRoom(c)
  BY <1>2, RingSame DEF R!MakeRoom
<1>4. W!MakeRoom(c)
  BY <1>2, RingSame DEF W!MakeRoom
<1>5. QED
  BY <1>3, <1>4 DEF W!BeginWrite, W!readerVars, Nobody, Ring!Nothing

LEMMA EndIsOfRing ==
  ASSUME Ring!EndWrite
  PROVE  W!EndWrite /\ R!EndWrite
<1>1. bounds' = timeBounds'[Queue!Slot(queueCounter')]
  BY DEF bounds
<1>2. /\ job # Ring!Idle
      /\ toZero = {}
      /\ toStore = {}
      /\ job' = Ring!Idle
      /\ bounds' = [bounds EXCEPT !.endTime = Ring!endWrite]
      /\ audio' = [t \in Ring!Span(bounds') |->
                     IF t \in Ring!Span(bounds) THEN audio[t]
                     ELSE IF t \in Ring!TimesOf(job)
                       THEN [take |-> job.take, time |-> t]
                       ELSE Silence]
      /\ UNCHANGED <<capacity, buffer, request, lo, hi, toFetch, out, dataSize,
                     expected, lost, toZero, toStore>>
  BY <1>1 DEF Ring!EndWrite, Ring!Publish, Ring!readerVars, bounds
<1>3. R!Publish
  BY <1>2, RingSame DEF R!Publish, R!readerVars
<1>4. W!Publish
  BY <1>2, RingSame DEF W!Publish, W!readerVars, Nobody, Ring!Nothing
<1>5. QED
  BY <1>2, <1>3, <1>4, RingSame DEF W!EndWrite, R!EndWrite

LEMMA CopyInIsOfRing ==
  ASSUME CopyIn
  PROVE  \/ \E p \in toZero : W!ZeroFrame(p) /\ R!ZeroFrame(p)
         \/ \E p \in toStore : W!StoreFrame(p) /\ R!StoreFrame(p)
<1>1. bounds' = bounds
  BY DEF CopyIn, queueVars, bounds
<1>2. ASSUME NEW p \in toZero, Ring!ZeroFrame(p)
      PROVE  W!ZeroFrame(p) /\ R!ZeroFrame(p)
  BY <1>1, <1>2, RingSame
     DEF Ring!ZeroFrame, W!ZeroFrame, R!ZeroFrame, Ring!readerVars,
         W!readerVars, R!readerVars, Nobody, Ring!Nothing
<1>3. ASSUME NEW p \in toStore, Ring!StoreFrame(p)
      PROVE  W!StoreFrame(p) /\ R!StoreFrame(p)
  BY <1>1, <1>3, RingSame
     DEF Ring!StoreFrame, W!StoreFrame, R!StoreFrame, Ring!readerVars,
         W!readerVars, R!readerVars, Nobody, Ring!Nothing
<1>4. QED
  BY <1>2, <1>3 DEF CopyIn

LEMMA ManageIsOfRing ==
  ASSUME Manage
  PROVE  /\ job = Ring!Idle /\ toFetch = {} /\ preparing = Ring!Idle
         /\ reader = "idle" /\ reader' = "idle" /\ writer = "idle"
         /\ outcome' = "none"
         /\ bounds' = [startTime |-> 0, endTime |-> 0]
         /\ audio' = Ring!Nothing
         /\ UNCHANGED <<job, toZero, toStore, request, lo, hi, toFetch, out,
                        dataSize, expected, lost, sampled, lapped, preparing,
                        asked, writer>>
         /\ W!Manage
<1>1. bounds' = timeBounds'[Queue!Slot(queueCounter')]
  BY DEF bounds
<1>2. /\ bounds' = [startTime |-> 0, endTime |-> 0]
      /\ audio' = Ring!Nothing
      /\ job = Ring!Idle /\ toFetch = {}
      /\ UNCHANGED <<job, toZero, toStore, request, lo, hi, toFetch, out,
                     dataSize, expected, lost>>
  BY <1>1 DEF Manage, Ring!Allocate, Ring!Deallocate, Ring!Reset, Ring!Quiet,
              Ring!EmptyBounds, Ring!writerVars, Ring!readerVars
<1>3. /\ preparing = Ring!Idle
      /\ UNCHANGED <<preparing, asked, sampled, lapped, writer>>
      /\ reader = "idle" /\ reader' = "idle" /\ writer = "idle"
      /\ outcome' = "none"
  BY DEF Manage, Writing, Queue!Reset
<1>4. W!Manage
  <2>1. W!Quiet /\ W!EmptyBounds /\ UNCHANGED <<W!writerVars, W!readerVars>>
    BY <1>2, RingSame
       DEF W!Quiet, W!EmptyBounds, W!writerVars, W!readerVars, Nobody, Ring!Nothing
  <2>2. CASE \E c \in Capacities : Ring!Allocate(c)
    BY <2>1, <2>2, RingSame DEF Ring!Allocate, W!Allocate, W!Manage
  <2>3. CASE Ring!Deallocate
    BY <2>1, <2>3, RingSame DEF Ring!Deallocate, W!Deallocate, W!Manage
  <2>4. CASE Ring!Reset
    BY <2>1, <2>4 DEF Ring!Reset, W!Reset, W!Manage
  <2>5. QED
    BY <2>2, <2>3, <2>4 DEF Manage
<1>5. QED
  BY <1>2, <1>3, <1>4

(* What the writer relies on of the ring holds, whatever a thread does.    *)
LEMMA WriterRingKeeps ==
  ASSUME Inv, [Next]_vars
  PROVE  (W!TypeOK /\ W!RingInvariant)'
<1>1. W!TypeOK /\ W!RingInvariant
  BY DEF Inv, WriterHolds
<1>2. ASSUME NEW c \in R!Writes, Ring!MakeRoom(c)
      PROVE  (W!TypeOK /\ W!RingInvariant)'
  <2>1. W!BeginWrite(c) /\ c \in W!Writes
    BY <1>2, RoomIsOfRing, RingSame
  <2>2. QED
    BY <1>1, <2>1, Constants, W!BeginWriteKeeps
<1>3. ASSUME RingRests
      PROVE  (W!TypeOK /\ W!RingInvariant)'
  <2>1. UNCHANGED W!vars
    BY <1>3 DEF RingRests, W!vars, W!writerVars, W!readerVars, Nobody, Ring!Nothing
  <2>2. QED
    BY <1>1, <2>1, Constants, W!StutterKeeps
<1>4. CASE Manage
  BY <1>1, <1>4, Constants, ManageIsOfRing, W!ManageKeeps
<1>5. ASSUME NEW c \in R!Writes, WriteThatFits(c) \/ WriteThatDiscards(c)
      PROVE  (W!TypeOK /\ W!RingInvariant)'
  BY <1>2, <1>3, <1>5, RestingSteps DEF WriteThatFits
<1>6. CASE RoomIsMade
  <2>1. preparing \in R!Writes /\ Ring!MakeRoom(preparing)
    BY <1>6 DEF RoomIsMade, Inv, WriterHolds
  <2>2. QED
    BY <1>2, <2>1
<1>7. CASE WriteReturns
  BY <1>1, <1>7, Constants, EndIsOfRing, W!EndWriteKeeps DEF WriteReturns
<1>8. CASE CopyIn
  BY <1>1, <1>8, Constants, CopyInIsOfRing, W!ZeroFrameKeeps, W!StoreFrameKeeps
<1>9. CASE PublishEnd \/ StoreBounds \/ ReaderStep \/ UNCHANGED vars
  BY <1>3, <1>9, RestingSteps
<1>10. ASSUME NEW call \in Ring!Calls, CallRead(call)
       PROVE  (W!TypeOK /\ W!RingInvariant)'
  BY <1>3, <1>10, RestingSteps
<1>11. QED
  BY <1>4, <1>5, <1>6, <1>7, <1>8, <1>9, <1>10, StepCases DEF WriterActs, WriterStep

-----------------------------------------------------------------------------
(* The reader.                                                             *)

(* What the writer relies on, with what a read relies on, is the invariant *)
(* of the ring with bounds of one piece.                                   *)
LEMMA HalvesMakeWhole ==
  ASSUME (W!TypeOK /\ W!RingInvariant)', R!ReaderTypeOK',
         R!ReadHolds', R!ReadIntact', R!Returned'
  PROVE  (R!TypeOK /\ R!RingInvariant)'
<1>1. /\ W!Times = R!Times /\ W!Frames = R!Frames /\ W!Idle = R!Idle
      /\ W!endWrite' = R!endWrite'
      /\ \A t : W!Offset(t)' = R!Offset(t)'
      /\ \A b : W!Span(b) = R!Span(b)
      /\ \A c : W!TimesOf(c) = R!TimesOf(c)
  BY DEF W!Times, R!Times, W!Frames, R!Frames, W!Idle, R!Idle,
         W!endWrite, R!endWrite, W!Offset, R!Offset, W!Span, R!Span,
         W!TimesOf, R!TimesOf
<1>2. \A a, b : W!Region(a, b)' = R!Region(a, b)'
  BY DEF W!Region, R!Region, W!Offset, R!Offset
<1>3. R!TypeOK'
  BY <1>1 DEF W!TypeOK, R!TypeOK, R!ReaderTypeOK
<1>4. R!BoundsHold'
  BY DEF W!RingInvariant, W!BoundsHold, R!BoundsHold
<1>5. R!PublishedIntact'
  BY <1>1 DEF W!RingInvariant, W!PublishedIntact, R!PublishedIntact
<1>6. R!WriteHolds'
  BY <1>1, <1>2 DEF W!RingInvariant, W!WriteHolds, R!WriteHolds
<1>7. QED
  BY <1>3, <1>4, <1>5, <1>6 DEF R!RingInvariant

(* A read that was not overtaken clamps to the bounds that the counter it  *)
(* loaded stood for.                                                       *)
LEMMA LastLoadStarts ==
  ASSUME Inv, [Next]_vars,
         NEW f \in Queue!Fields, LoadField(f), toLoad' = {}, ~lapped'
  PROVE  /\ snapshot' \in Queue!Windows
         /\ R!ReaderTypeOK' /\ (R!TypeOK /\ R!RingInvariant)'
         /\ sampled = IF toFetch' = {} THEN {} ELSE lo' .. hi' - 1
         /\ request' = asked
<1>1. Q!TypeOK /\ Q!QueueInvariant /\ Q!TypeOK' /\ Q!LoadField(f) /\ f \in Q!Fields
  <2>1. Q!LoadField(f)
    BY QueueSame DEF LoadField, Queue!LoadField, Q!LoadField,
                     Queue!writerVars, Q!writerVars
  <2>2. QED
    BY <2>1, QueueKeeps, QueueSame DEF Inv
<1>2. /\ lapped' = (queueCounter - currentCounter >= QueueSize - 1)
      /\ UNCHANGED <<capacity, audio, expected, lost, sampled, asked>>
      /\ reader = "copy"
  BY DEF LoadField, Queue!LoadField
<1>3. snapshot' = intended[currentCounter]
  <2>1. queueCounter \in Int /\ currentCounter \in Int
    BY <1>1, Constants DEF Q!TypeOK
  <2>2. ~(queueCounter - currentCounter >= QueueSize - 1)
    BY <1>2, Zenon
  <2>3. queueCounter - currentCounter < QueueSize - 1
    BY <2>1, <2>2, Constants
  <2>4. QED
    BY <1>1, <2>3, Constants, Q!LastLoadCompletes
<1>4. snapshot' \in Queue!Windows
  BY <1>1, <1>3, QueueSame DEF Q!TypeOK
<1>5. PICK b \in Queue!Windows : b = snapshot'
  BY <1>4
<1>6. /\ b \in [startTime : R!Times, endTime : R!Times]
      /\ b.startTime <= b.endTime
      /\ Ordered(b)
  BY WindowsAreRecords, RingSame
<1>7. Ring!ReadFrom(asked, b)
  BY <1>5, <1>6 DEF LoadField
<1>8. R!ReadFrom(asked, b)
  BY <1>7, RingSame DEF Ring!ReadFrom, R!ReadFrom, Ring!Silenced, R!Silenced,
                        Ring!Clamp, R!Clamp
<1>9. /\ asked \in R!Calls /\ asked.count <= capacity
      /\ expected \in [R!TimesOf(asked) -> R!Frames]
      /\ sampled = R!TimesOf(asked) \cap R!Span(b)
      /\ \A t \in R!TimesOf(asked) \ sampled : expected[t] = Silence
      /\ \A t \in sampled \ lost : t \in R!Span(bounds) /\ audio[t] = expected[t]
      /\ lost \subseteq sampled
  BY <1>2, <1>3, <1>5, RingSame DEF Inv, SampleHolds, Reading, TypeOK
<1>10. RingRests
  BY RestingSteps DEF ReaderStep
<1>11. R!Span(bounds)' = R!Span(bounds)
  BY <1>10 DEF RingRests, R!Span
<1>12. capacity \in Nat
  BY Constants DEF Inv, WriterHolds, W!TypeOK, R!RingAssumption
<1>13. \A t \in R!TimesOf(asked) \ R!Span(b) : expected'[t] = Silence
  BY <1>2, <1>9
<1>14. \A t \in (R!TimesOf(asked) \cap R!Span(b)) \ lost' :
         t \in R!Span(bounds)' /\ audio'[t] = expected'[t]
  BY <1>2, <1>9, <1>11
<1>15. /\ R!ReaderTypeOK' /\ R!ReadHolds' /\ R!ReadIntact' /\ R!Returned'
       /\ R!TimesOf(asked) \cap R!Span(b) =
            IF toFetch' = {} THEN {} ELSE lo' .. hi' - 1
  BY <1>2, <1>6, <1>8, <1>9, <1>12, <1>13, <1>14, Constants, R!ReadStarts
<1>16. (R!TypeOK /\ R!RingInvariant)'
  BY <1>15, WriterRingKeeps, HalvesMakeWhole
<1>17. QED
  BY <1>4, <1>8, <1>9, <1>15, <1>16 DEF R!ReadFrom

LEMMA CopyOutIsOfRing ==
  ASSUME CopyOut
  PROVE  \E p \in toFetch : R!FetchFrame(p)
<1>1. PICK p \in toFetch : Ring!FetchFrame(p)
  BY DEF CopyOut
<1>2. bounds' = bounds
  BY DEF CopyOut, queueVars, bounds
<1>3. Ring!Destination(p) = R!Destination(p)
  BY RingSame DEF Ring!Destination, R!Destination
<1>4. R!FetchFrame(p)
  BY <1>1, <1>2, <1>3 DEF Ring!FetchFrame, R!FetchFrame, Ring!writerVars, R!writerVars
<1>5. QED
  BY <1>4

(* What the writer's steps leave alone of the reader's.                    *)
ReaderRests ==
  UNCHANGED <<request, lo, hi, toFetch, out, dataSize, expected, sampled, lapped,
              asked, reader, tries, currentCounter, toLoad, snapshot, outcome>>

LEMMA WriterLeavesReader ==
  ASSUME WriterActs \/ UNCHANGED vars
  PROVE  ReaderRests /\ UNCHANGED capacity
<1> USE DEF ReaderRests
<1>1. ASSUME NEW c \in R!Writes, WriteThatFits(c)
      PROVE  ReaderRests /\ UNCHANGED capacity
  BY <1>1 DEF WriteThatFits, Ring!MakeRoom, queueVars, promiseVars
<1>2. ASSUME NEW c \in R!Writes, WriteThatDiscards(c)
      PROVE  ReaderRests /\ UNCHANGED capacity
  BY <1>2 DEF WriteThatDiscards, Queue!BeginSet, Queue!readerVars, ringVars,
              promiseVars
<1>3. CASE PublishEnd
  BY <1>3 DEF PublishEnd, Queue!BeginSet, Queue!readerVars, ringVars, promiseVars
<1>4. CASE StoreBounds
  BY <1>4 DEF StoreBounds, Queue!StoreField, Queue!StoreUpdateCounter,
              Queue!readerVars, ringVars, promiseVars
<1>5. CASE RoomIsMade
  BY <1>5 DEF RoomIsMade, Ring!MakeRoom, Queue!IncrementCounter, Queue!readerVars
<1>6. CASE WriteReturns
  BY <1>6 DEF WriteReturns, Ring!EndWrite, Ring!Publish, Ring!readerVars,
              Queue!IncrementCounter, Queue!readerVars
<1>7. CASE CopyIn
  BY <1>7 DEF CopyIn, Ring!ZeroFrame, Ring!StoreFrame, Ring!readerVars, queueVars
<1>8. CASE UNCHANGED vars
  BY <1>8 DEF vars, ringVars, queueVars, promiseVars
<1>9. QED
  BY <1>1, <1>2, <1>3, <1>4, <1>5, <1>6, <1>7, <1>8 DEF WriterActs, WriterStep

(* Of what a read sampled, the writer's steps keep what they do not record *)
(* as lost; and no counter that was published comes to stand for other     *)
(* bounds.                                                                 *)
LEMMA WriterLosesWhatItDiscards ==
  ASSUME Inv, [Next]_vars, WriterActs \/ UNCHANGED vars
  PROVE  /\ lost' = IF Reading THEN lost \cup (sampled \ Ring!Span(bounds')) ELSE lost
         /\ \A t \in Ring!Span(bounds) \cap Ring!Span(bounds') : audio'[t] = audio[t]
         /\ \A k \in 0 .. queueCounter : intended'[k] = intended[k]
<1> DEFINE Loses ==
             lost' = IF Reading THEN lost \cup (sampled \ Ring!Span(bounds'))
                                ELSE lost
           Keeps ==
             \A t \in Ring!Span(bounds) \cap Ring!Span(bounds') : audio'[t] = audio[t]
<1>1. Reading => sampled \ Ring!Span(bounds) \subseteq lost
  BY DEF Inv, SampleHolds
<1>2. ASSUME NEW c \in R!Writes, WriteThatFits(c)
      PROVE  Loses /\ Keeps /\ UNCHANGED intended
  <2>1. bounds' = bounds /\ lost' = lost /\ UNCHANGED intended
    BY <1>2 DEF WriteThatFits, queueVars, promiseVars, bounds
  <2>2. audio' = [t \in Ring!Span(bounds') |-> audio[t]]
    BY <1>2 DEF WriteThatFits, Ring!MakeRoom, bounds
  <2>3. Loses
    BY <1>1, <2>1
  <2>4. QED
    BY <2>1, <2>2, <2>3
<1>3. CASE RoomIsMade
  <2>1. Loses
    BY <1>3 DEF RoomIsMade, Discard
  <2>2. audio' = [t \in Ring!Span(bounds') |-> audio[t]]
    BY <1>3 DEF RoomIsMade, Ring!MakeRoom, bounds
  <2>3. UNCHANGED intended
    BY <1>3 DEF RoomIsMade, Queue!IncrementCounter
  <2>4. QED
    BY <2>1, <2>2, <2>3
<1>4. CASE WriteReturns
  <2>1. /\ lost' = lost
        /\ bounds' = [bounds EXCEPT !.endTime = Ring!endWrite]
        /\ \A t \in Ring!Span(bounds) \cap Ring!Span(bounds') : audio'[t] = audio[t]
        /\ job # Ring!Idle
    BY <1>4 DEF WriteReturns, Ring!EndWrite, Ring!Publish, Ring!readerVars, bounds
  <2>2. /\ W!endWrite \in Nat /\ Ring!endWrite = W!endWrite
        /\ bounds.startTime \in Nat /\ bounds.endTime \in Nat
        /\ bounds.endTime <= job.time
        /\ job.time \in Nat /\ job.time < W!endWrite
    BY <2>1, Constants, RingSame, W!JobFacts DEF Inv, WriterHolds, W!RingInvariant
  <2>3. bounds \in [startTime : W!Times, endTime : W!Times]
    BY DEF Inv, WriterHolds, W!TypeOK
  <2>4. bounds'.startTime = bounds.startTime /\ bounds'.endTime = W!endWrite
    BY <2>1, <2>2, <2>3
  <2>5. Ring!Span(bounds) \subseteq Ring!Span(bounds')
    BY <2>2, <2>4 DEF Ring!Span
  <2>6. Loses
    BY <1>1, <2>1, <2>5
  <2>7. UNCHANGED intended
    BY <1>4 DEF WriteReturns, Queue!IncrementCounter
  <2>8. QED
    BY <2>1, <2>6, <2>7
<1>5. ASSUME UNCHANGED <<bounds, audio, lost>>
      PROVE  Loses /\ Keeps
  BY <1>1, <1>5
<1>6. CASE CopyIn
  <2>1. UNCHANGED <<bounds, audio, lost, intended>>
    BY <1>6 DEF CopyIn, Ring!ZeroFrame, Ring!StoreFrame, queueVars, bounds
  <2>2. QED
    BY <1>5, <2>1
<1>7. ASSUME \/ \E c \in R!Writes : WriteThatDiscards(c)
             \/ PublishEnd \/ StoreBounds \/ UNCHANGED vars
      PROVE  /\ Loses /\ Keeps
             /\ \A k \in 0 .. queueCounter : intended'[k] = intended[k]
  <2>1. UNCHANGED <<bounds, audio>>
    BY <1>7, RestingSteps DEF RingRests
  <2>2. UNCHANGED lost
    BY <1>7 DEF WriteThatDiscards, PublishEnd, StoreBounds, vars, promiseVars
  <2>3. \/ UNCHANGED intended
        \/ \E b : intended' = [intended EXCEPT ![queueCounter + 1] = b]
    BY <1>7 DEF WriteThatDiscards, PublishEnd, StoreBounds, vars, queueVars,
                Queue!BeginSet, Queue!StoreField, Queue!StoreUpdateCounter,
                Queue!nextCounter
  <2>4. /\ DOMAIN intended = 0 .. MaxUpdates
        /\ queueCounter \in 0 .. MaxUpdates
    BY DEF Inv, Q!TypeOK
  <2>5. \A k \in 0 .. queueCounter : intended'[k] = intended[k]
    BY <2>3, <2>4, Constants
  <2>6. QED
    BY <1>5, <2>1, <2>2, <2>5
<1>8. QED
  BY <1>2, <1>3, <1>4, <1>6, <1>7 DEF WriterActs, WriterStep

(* A read that was not overtaken goes on to copy what it planned to,       *)
(* whatever the writer does meanwhile.                                     *)
LEMMA CopyKeeps ==
  ASSUME Inv, [Next]_vars
  PROVE  CopyHolds'
<1> DEFINE Whole == (R!TypeOK /\ R!RingInvariant)' /\ (sampled = lo .. hi - 1)'
<1>1. ASSUME Fetching, ~lapped
      PROVE  /\ R!TypeOK /\ R!RingInvariant /\ sampled = lo .. hi - 1
             /\ reader = "idle" /\ Reading
  BY <1>1 DEF Inv, CopyHolds, TypeOK, Reading
<1>2. ASSUME Fetching, ~lapped, WriterActs \/ UNCHANGED vars
      PROVE  Whole
  <2>1. /\ UNCHANGED <<request, lo, hi, toFetch, out, dataSize, expected, sampled>>
        /\ lost' = lost \cup (sampled \ R!Span(bounds'))
    BY <1>1, <1>2, WriterLeavesReader, WriterLosesWhatItDiscards, RingSame
       DEF ReaderRests
  <2>2. (sampled = lo .. hi - 1)'
    BY <1>1, <1>2, <2>1
  <2>3. ASSUME NEW c \in R!Writes, Ring!MakeRoom(c)
        PROVE  (R!TypeOK /\ R!RingInvariant)'
    <3>1. R!BeginWrite(c)
      BY <1>1, <1>2, <2>1, <2>3, RoomIsOfRing
         DEF R!BeginWrite, R!readerVars, Fetching
    <3>2. QED
      BY <1>1, <1>2, <3>1, Constants, R!BeginWriteKeeps
  <2>4. ASSUME RingRests, UNCHANGED lost
        PROVE  (R!TypeOK /\ R!RingInvariant)'
    <3>1. UNCHANGED R!vars
      BY <2>1, <2>4 DEF RingRests, R!vars, R!writerVars, R!readerVars
    <3>2. QED
      BY <1>1, <1>2, <3>1, Constants, R!StutterKeeps
  <2>5. CASE \E c \in R!Writes : WriteThatFits(c)
    BY <2>2, <2>3, <2>5 DEF WriteThatFits
  <2>6. CASE RoomIsMade
    <3>1. preparing \in R!Writes /\ Ring!MakeRoom(preparing)
      BY <2>6 DEF RoomIsMade, Inv, WriterHolds
    <3>2. QED
      BY <2>2, <2>3, <3>1
  <2>7. CASE WriteReturns
    BY <1>1, <1>2, <2>2, <2>7, Constants, EndIsOfRing, R!EndWriteKeeps
       DEF WriteReturns
  <2>8. CASE CopyIn
    BY <1>1, <1>2, <2>2, <2>8, Constants, CopyInIsOfRing, R!ZeroFrameKeeps,
       R!StoreFrameKeeps
  <2>9. CASE \/ \E c \in R!Writes : WriteThatDiscards(c)
             \/ PublishEnd \/ StoreBounds \/ UNCHANGED vars
    <3>1. UNCHANGED lost
      BY <2>9 DEF WriteThatDiscards, PublishEnd, StoreBounds, vars, promiseVars
    <3>2. RingRests
      BY <2>9, RestingSteps
    <3>3. QED
      BY <2>2, <2>4, <3>1, <3>2
  <2>10. QED
    BY <1>2, <2>5, <2>6, <2>7, <2>8, <2>9 DEF WriterActs, WriterStep
<1>3. ASSUME Fetching, ~lapped, CopyOut
      PROVE  Whole
  <2>1. UNCHANGED <<lo, hi, sampled>>
    BY <1>3 DEF CopyOut, Ring!FetchFrame
  <2>2. QED
    BY <1>1, <1>3, <2>1, Constants, CopyOutIsOfRing, R!FetchFrameKeeps
<1>4. ASSUME NEW f \in Queue!Fields, LoadField(f), Fetching', ~lapped'
      PROVE  Whole
  <2>1. toLoad' = {}
    BY <1>4 DEF LoadField, Queue!LoadField, ringVars, Fetching, Inv, TypeOK
  <2>2. sampled' = sampled
    BY <1>4 DEF LoadField
  <2>3. QED
    BY <1>4, <2>1, <2>2, LastLoadStarts DEF Fetching
<1> HIDE DEF Whole
<1>5. CASE WriterActs \/ UNCHANGED vars
  <2>1. UNCHANGED <<toFetch, lapped>>
    BY <1>5, WriterLeavesReader DEF ReaderRests
  <2>2. QED
    BY <1>2, <1>5, <2>1 DEF CopyHolds, Fetching, Whole
<1>6. CASE CopyOut
  BY <1>3, <1>6 DEF CopyOut, CopyHolds, Fetching, Whole
<1>7. CASE \E f \in Queue!Fields : LoadField(f)
  BY <1>4, <1>7 DEF CopyHolds, Whole
<1>8. CASE Manage
  BY <1>8, ManageIsOfRing DEF CopyHolds, Fetching
<1>9. CASE \E call \in Ring!Calls : CallRead(call)
  BY <1>9 DEF CallRead, ringVars, Fetching, CopyHolds
<1>10. CASE LoadCounter \/ CheckPasses \/ CheckFails
  BY <1>10 DEF LoadCounter, CheckPasses, CheckFails, ringVars, Fetching,
               Queue!LoadCounter, Queue!CheckPasses, Queue!CheckFails, Inv,
               TypeOK, CopyHolds
<1>11. QED
  BY <1>5, <1>6, <1>7, <1>8, <1>9, <1>10, StepCases DEF ReaderStep

(* The steps of a read up to its first copy leave the ring alone.          *)
LEMMA ReaderLeavesRing ==
  ASSUME Inv, [Next]_vars,
         ReaderStep \/ \E call \in Ring!Calls : CallRead(call)
  PROVE  /\ UNCHANGED <<capacity, bounds, audio, job, intended, writer, preparing,
                        toZero, toStore, queueCounter>>
<1>1. RingRests
  BY RestingSteps
<1>2. UNCHANGED <<intended, writer, preparing>>
  <2>1. CASE \E call \in Ring!Calls : CallRead(call)
    BY <2>1 DEF CallRead, Queue!CallGetTimeBounds, Queue!writerVars
  <2>2. CASE LoadCounter \/ CheckPasses \/ CheckFails
    BY <2>2 DEF LoadCounter, CheckPasses, CheckFails, Queue!LoadCounter,
                Queue!CheckPasses, Queue!CheckFails, Queue!writerVars
  <2>3. CASE \E f \in Queue!Fields : LoadField(f)
    BY <2>3 DEF LoadField, Queue!LoadField, Queue!writerVars
  <2>4. CASE CopyOut
    BY <2>4 DEF CopyOut, queueVars
  <2>5. QED
    BY <2>1, <2>2, <2>3, <2>4 DEF ReaderStep
<1>3. QED
  BY <1>1, <1>2 DEF RingRests

(* What a read sampled when it loaded the counter is what it is to return, *)
(* until it is discarded.                                                  *)
LEMMA SampleKeeps ==
  ASSUME Inv, [Next]_vars
  PROVE  SampleHolds'
<1>1. /\ Q!TypeOK /\ Q!QueueInvariant /\ SampleHolds /\ TypeOK
      /\ bounds = intended[queueCounter]
  BY BoundsAreIntended DEF Inv
<1>2. CASE WriterActs \/ UNCHANGED vars
  <2>1. /\ UNCHANGED <<expected, sampled, asked, reader, currentCounter, toFetch>>
        /\ UNCHANGED capacity
    BY <1>2, WriterLeavesReader DEF ReaderRests
  <2>2. Reading' = Reading
    BY <2>1 DEF Reading, Fetching
  <2>3. reader \in {"check", "copy"} =>
          intended'[currentCounter] = intended[currentCounter]
    <3>1. reader \in {"check", "copy"} => currentCounter \in 0 .. queueCounter
      BY <1>1, Constants DEF Q!TypeOK, Q!QueueInvariant, Q!CallHolds
    <3>2. QED
      BY <1>2, <3>1, WriterLosesWhatItDiscards
  <2>4. ASSUME Reading', NEW t \in sampled' \ lost'
        PROVE  t \in Ring!Span(bounds)' /\ audio'[t] = expected'[t]
    <3>1. t \in sampled \ lost /\ t \in Ring!Span(bounds')
      BY <1>2, <2>1, <2>2, <2>4, WriterLosesWhatItDiscards
    <3>2. t \in Ring!Span(bounds) /\ audio[t] = expected[t]
      BY <1>1, <2>2, <2>4, <3>1 DEF SampleHolds
    <3>3. audio'[t] = audio[t]
      BY <1>2, <3>1, <3>2, WriterLosesWhatItDiscards
    <3>4. QED
      BY <2>1, <3>1, <3>2, <3>3
  <2>5. QED
    BY <1>1, <2>1, <2>3, <2>4 DEF SampleHolds
<1>3. CASE Manage
  <2>1. reader' = "idle" /\ ~Reading'
    BY <1>3, ManageIsOfRing DEF Reading, Fetching
  <2>2. QED
    BY <2>1 DEF SampleHolds
<1>4. ASSUME NEW call \in Ring!Calls, CallRead(call)
      PROVE  SampleHolds'
  <2>1. /\ asked' = call /\ call.count <= capacity /\ UNCHANGED capacity
        /\ reader' = "load" /\ ~Reading'
    BY <1>4 DEF CallRead, Queue!CallGetTimeBounds, ringVars, Reading, Fetching
  <2>2. QED
    BY <2>1 DEF SampleHolds
<1>5. CASE LoadCounter
  <2>1. /\ expected' = Ring!AudioAt(asked)
        /\ sampled' = Ring!TimesOf(asked) \cap Ring!Span(bounds)
        /\ lost' = {}
        /\ currentCounter' = queueCounter
        /\ reader = "load"
        /\ UNCHANGED <<intended, bounds, audio, asked, capacity>>
    BY <1>5, ReaderLeavesRing DEF LoadCounter, Queue!LoadCounter, ReaderStep
  <2>2. expected' = [t \in Ring!TimesOf(asked) |->
                       IF t \in Ring!Span(bounds) THEN audio[t] ELSE Silence]
    BY <2>1 DEF Ring!AudioAt, bounds
  <2>3. audio \in [Ring!Span(bounds) -> Ring!Frames]
    BY RingSame DEF Inv, WriterHolds, W!TypeOK
  <2>4. expected' \in [Ring!TimesOf(asked) -> Ring!Frames]
    BY <2>2, <2>3 DEF Ring!Frames
  <2>5. Ring!Span(bounds)' = Ring!Span(bounds)
    BY <2>1 DEF Ring!Span
  <2>6. \A t \in sampled' \ lost' :
          t \in Ring!Span(bounds)' /\ audio'[t] = expected'[t]
    BY <2>1, <2>2, <2>5
  <2>7. QED
    BY <1>1, <2>1, <2>2, <2>4, <2>6 DEF SampleHolds
<1>6. CASE CheckPasses
  <2>1. /\ UNCHANGED <<intended, bounds, audio, asked, capacity, expected, sampled,
                       lost, currentCounter>>
        /\ reader = "check"
    BY <1>6, ReaderLeavesRing
       DEF CheckPasses, Queue!CheckPasses, ReaderStep, promiseVars
  <2>2. QED
    BY <1>1, <2>1 DEF SampleHolds, Reading
<1>7. CASE CheckFails
  <2>1. /\ UNCHANGED <<asked, capacity, toFetch>>
        /\ reader = "check"
        /\ reader' \in {"load", "idle"}
    BY <1>7 DEF CheckFails, Queue!CheckFails, ringVars
  <2>2. ~Reading'
    BY <1>1, <2>1 DEF TypeOK, Reading, Fetching
  <2>3. QED
    BY <1>1, <2>1, <2>2 DEF SampleHolds
<1>8. ASSUME NEW f \in Queue!Fields, LoadField(f)
      PROVE  SampleHolds'
  <2>1. /\ UNCHANGED <<intended, bounds, audio, asked, capacity, expected, sampled,
                       lost, currentCounter>>
        /\ reader = "copy"
        /\ reader' \in {"copy", "idle"}
    BY <1>8, ReaderLeavesRing DEF LoadField, Queue!LoadField, ReaderStep
  <2>2. QED
    BY <1>1, <2>1 DEF SampleHolds, Reading
<1>9. CASE CopyOut
  <2>1. /\ UNCHANGED <<intended, bounds, audio, asked, capacity, expected, sampled,
                       lost, currentCounter, reader>>
        /\ Fetching
    BY <1>9, ReaderLeavesRing
       DEF CopyOut, Ring!FetchFrame, ReaderStep, queueVars, Fetching
  <2>2. QED
    BY <1>1, <2>1 DEF SampleHolds, Reading
<1>10. QED
  BY <1>2, <1>3, <1>4, <1>5, <1>6, <1>7, <1>8, <1>9, StepCases DEF ReaderStep

(* A read that returns has returned what it sampled; the writer changes    *)
(* nothing about a read that has returned.                                 *)
LEMMA ReadsKeep ==
  ASSUME Inv, [Next]_vars
  PROVE  ReadsHold'
<1>1. ReadsHold /\ TypeOK
  BY DEF Inv
<1>2. ASSUME UNCHANGED <<reader, toFetch, lapped, expected, lost, out, request>>
      PROVE  ReadsHold'
  BY <1>1, <1>2 DEF ReadsHold, Fetching
<1>3. ASSUME (R!TypeOK /\ R!RingInvariant)', ~Fetching'
      PROVE  ReadsHold'
  BY <1>3 DEF R!RingInvariant, R!ReadIntact, ReadsHold, Fetching
<1>4. CASE WriterActs \/ UNCHANGED vars
  <2>1. UNCHANGED <<reader, toFetch, lapped, expected, out, request>>
    BY <1>4, WriterLeavesReader DEF ReaderRests
  <2>2. CASE Reading
    BY <2>1, <2>2 DEF Reading, Fetching, ReadsHold
  <2>3. CASE ~Reading
    BY <1>2, <1>4, <2>1, <2>3, WriterLosesWhatItDiscards
  <2>4. QED
    BY <2>2, <2>3
<1>5. CASE Manage
  BY <1>2, <1>5, ManageIsOfRing
<1>6. CASE \E call \in Ring!Calls : CallRead(call)
  BY <1>6 DEF CallRead, Queue!CallGetTimeBounds, ReadsHold
<1>7. CASE LoadCounter \/ CheckPasses
  BY <1>7 DEF LoadCounter, Queue!LoadCounter, CheckPasses, Queue!CheckPasses,
              ReadsHold
<1>8. CASE CheckFails
  <2>1. DOMAIN expected' = {}
    BY <1>8 DEF CheckFails, Ring!Nothing
  <2>2. QED
    BY <2>1 DEF ReadsHold
<1>9. ASSUME NEW f \in Queue!Fields, LoadField(f)
      PROVE  ReadsHold'
  <2>1. CASE toLoad' = {} /\ ~lapped' /\ ~Fetching'
    BY <1>3, <1>9, <2>1, LastLoadStarts
  <2>2. CASE toLoad' # {}
    BY <1>9, <2>2 DEF LoadField, Queue!LoadField, ReadsHold
  <2>3. QED
    BY <2>1, <2>2 DEF ReadsHold
<1>10. CASE CopyOut
  <2>1. Fetching /\ lapped' = lapped
    BY <1>10 DEF CopyOut, Fetching
  <2>2. CASE ~lapped /\ ~Fetching'
    <3>1. R!TypeOK /\ R!RingInvariant
      BY <2>1, <2>2 DEF Inv, CopyHolds
    <3>2. QED
      BY <1>3, <1>10, <2>2, <3>1, Constants, CopyOutIsOfRing, R!FetchFrameKeeps
  <2>3. QED
    BY <2>1, <2>2 DEF ReadsHold
<1>11. QED
  BY <1>4, <1>5, <1>6, <1>7, <1>8, <1>9, <1>10, StepCases DEF ReaderStep

LEMMA ClampKeeps ==
  ASSUME Inv, [Next]_vars
  PROVE  ClampDefined'
<1>1. ClampDefined /\ Q!TypeOK
  BY DEF Inv
<1>2. CASE WriterActs \/ UNCHANGED vars
  BY <1>1, <1>2, WriterLeavesReader DEF ReaderRests, ClampDefined, Ordered
<1>3. CASE Manage
  BY <1>3, ManageIsOfRing DEF ClampDefined
<1>4. CASE \E call \in Ring!Calls : CallRead(call)
  BY <1>4 DEF CallRead, Queue!CallGetTimeBounds, ClampDefined
<1>5. CASE LoadCounter \/ CheckPasses \/ CheckFails
  BY <1>1, <1>5 DEF LoadCounter, Queue!LoadCounter, CheckPasses, Queue!CheckPasses,
                    CheckFails, Queue!CheckFails, Q!TypeOK, ClampDefined
<1>6. ASSUME NEW f \in Queue!Fields, LoadField(f)
      PROVE  ClampDefined'
  <2>1. CASE toLoad' = {} /\ ~lapped'
    <3>1. snapshot' \in Queue!Windows
      BY <1>6, <2>1, LastLoadStarts
    <3>2. PICK b \in Queue!Windows : b = snapshot'
      BY <3>1
    <3>3. b["startTime"] <= b["endTime"]
      BY DEF Queue!Windows
    <3>4. QED
      BY <3>2, <3>3 DEF ClampDefined, Ordered
  <2>2. CASE toLoad' # {}
    BY <1>1, <1>6, <2>2 DEF LoadField, Queue!LoadField, Q!TypeOK, ClampDefined
  <2>3. QED
    BY <2>1, <2>2 DEF ClampDefined
<1>7. CASE CopyOut
  BY <1>1, <1>7 DEF CopyOut, queueVars, ClampDefined, Ordered
<1>8. QED
  BY <1>2, <1>3, <1>4, <1>5, <1>6, <1>7, StepCases DEF ReaderStep

-----------------------------------------------------------------------------
(* The writer.                                                             *)

LEMMA ToPublishStays ==
  ASSUME UNCHANGED <<capacity, bounds, preparing, job>>
  PROVE  /\ ToPublish' = ToPublish
         /\ \A c : Ring!MadeRoom(c)' = Ring!MadeRoom(c)
         /\ Ring!endWrite' = Ring!endWrite
<1>1. timeBounds'[Queue!Slot(queueCounter')] =
            timeBounds[Queue!Slot(queueCounter)]
  BY DEF bounds
<1>2. \A c : Ring!MadeRoom(c)' = Ring!MadeRoom(c)
  BY <1>1 DEF Ring!MadeRoom, Ring!NewStart, Ring!Larger
<1>3. Ring!endWrite' = Ring!endWrite
  BY DEF Ring!endWrite
<1>4. (Ring!MadeRoom(preparing))' = Ring!MadeRoom(preparing)
  BY <1>1 DEF Ring!MadeRoom, Ring!NewStart, Ring!Larger
<1>5. QED
  BY <1>2, <1>3, <1>4 DEF ToPublish, Ring!Idle

(* What the writer publishes is what it had to publish when it began to    *)
(* store it.                                                               *)
LEMMA WriterKeeps ==
  ASSUME Inv, [Next]_vars
  PROVE  WriterHolds'
<1>1. /\ Q!TypeOK /\ TypeOK
      /\ preparing # Ring!Idle =>
           preparing \in R!Writes /\ preparing.count <= capacity
      /\ writer # "idle" => intended[queueCounter + 1] = ToPublish
  BY DEF Inv, WriterHolds
<1>2. (W!TypeOK /\ W!RingInvariant)'
  BY WriterRingKeeps
<1>3. Ring!Idle' = Ring!Idle
  BY DEF Ring!Idle
<1>4. ASSUME UNCHANGED <<preparing, capacity>>, writer' = "idle"
      PROVE  WriterHolds'
  BY <1>1, <1>2, <1>3, <1>4 DEF WriterHolds
<1>5. ASSUME UNCHANGED <<preparing, capacity, bounds, job, intended, queueCounter>>,
             writer # "idle"
      PROVE  WriterHolds'
  BY <1>1, <1>2, <1>3, <1>5, ToPublishStays DEF WriterHolds
<1>6. ASSUME UNCHANGED <<capacity, bounds, job, queueCounter>>,
             preparing' # Ring!Idle =>
               preparing' \in R!Writes /\ preparing'.count <= capacity,
             queueCounter < MaxUpdates,
             intended' = [intended EXCEPT ![queueCounter + 1] = ToPublish']
      PROVE  WriterHolds'
  <2>1. queueCounter + 1 \in DOMAIN intended
    BY <1>1, <1>6, Constants DEF Q!TypeOK
  <2>2. intended'[queueCounter' + 1] = ToPublish'
    BY <1>6, <2>1
  <2>3. QED
    BY <1>2, <1>3, <1>6, <2>2 DEF WriterHolds
<1>7. ASSUME NEW c \in R!Writes, WriteThatDiscards(c)
      PROVE  WriterHolds'
  <2>1. /\ c # Ring!Idle
        /\ preparing' = c /\ c.count <= capacity
        /\ queueCounter < MaxUpdates
        /\ intended' = [intended EXCEPT ![queueCounter + 1] = Ring!MadeRoom(c)]
    BY <1>7 DEF WriteThatDiscards, Queue!BeginSet, Queue!nextCounter, R!Writes,
                Ring!Idle
  <2>2. UNCHANGED <<capacity, bounds, job, queueCounter>>
    BY <1>7, RestingSteps DEF RingRests
  <2>3. Ring!MadeRoom(c)' = Ring!MadeRoom(c)
    <3>1. timeBounds'[Queue!Slot(queueCounter')] =
            timeBounds[Queue!Slot(queueCounter)]
      BY <2>2 DEF bounds
    <3>2. QED
      BY <2>2, <3>1 DEF Ring!MadeRoom, Ring!NewStart, Ring!Larger
  <2>4. ToPublish' = Ring!MadeRoom(preparing)'
    BY <1>3, <2>1 DEF ToPublish
  <2>5. Ring!MadeRoom(preparing)' = Ring!MadeRoom(c)'
    BY <2>1 DEF Ring!MadeRoom, Ring!NewStart, Ring!Larger
  <2>6. QED
    BY <1>6, <1>7, <2>1, <2>2, <2>3, <2>4, <2>5
<1>8. CASE PublishEnd
  <2>1. /\ preparing = Ring!Idle /\ preparing' = preparing
        /\ queueCounter < MaxUpdates
        /\ intended' = [intended EXCEPT
             ![queueCounter + 1] = [bounds EXCEPT !["endTime"] = Ring!endWrite]]
    BY <1>1, <1>8 DEF PublishEnd, Queue!BeginSet, Queue!nextCounter, TypeOK
  <2>2. UNCHANGED <<capacity, bounds, job, queueCounter>>
    BY <1>8, RestingSteps DEF RingRests
  <2>3. ToPublish' = [bounds EXCEPT !["endTime"] = Ring!endWrite]
    BY <2>1, <2>2, ToPublishStays DEF ToPublish
  <2>4. QED
    BY <1>6, <2>1, <2>2, <2>3
<1>9. CASE StoreBounds
  <2>1. writer # "idle" /\ UNCHANGED <<preparing, intended>>
    BY <1>9 DEF StoreBounds, Queue!StoreField, Queue!StoreUpdateCounter
  <2>2. UNCHANGED <<capacity, bounds, job, queueCounter>>
    BY <1>9, RestingSteps DEF RingRests
  <2>3. QED
    BY <1>5, <2>1, <2>2
<1>10. ASSUME NEW c \in R!Writes, WriteThatFits(c)
       PROVE  WriterHolds'
  <2>1. writer = "idle" /\ UNCHANGED <<writer, preparing, capacity>>
    BY <1>1, <1>10 DEF WriteThatFits, TypeOK, queueVars, Ring!MakeRoom
  <2>2. QED
    BY <1>4, <2>1
<1>11. CASE RoomIsMade
  <2>1. preparing' = Ring!Idle /\ writer' = "idle"
    BY <1>11 DEF RoomIsMade, Queue!IncrementCounter
  <2>2. QED
    BY <1>2, <1>3, <2>1 DEF WriterHolds
<1>12. CASE WriteReturns
  <2>1. UNCHANGED <<preparing, capacity>> /\ writer' = "idle"
    BY <1>12 DEF WriteReturns, Ring!EndWrite, Ring!Publish, Queue!IncrementCounter
  <2>2. QED
    BY <1>4, <2>1
<1>13. CASE CopyIn
  <2>1. writer = "idle" /\ UNCHANGED <<writer, preparing, capacity>>
    BY <1>1, <1>13 DEF CopyIn, queueVars, Ring!ZeroFrame, Ring!StoreFrame, TypeOK
  <2>2. QED
    BY <1>4, <2>1
<1>14. ASSUME UNCHANGED <<preparing, capacity, bounds, job, intended, queueCounter,
                          writer>>
       PROVE  WriterHolds'
  BY <1>4, <1>5, <1>14
<1>15. CASE ReaderStep \/ \E call \in Ring!Calls : CallRead(call)
  BY <1>14, <1>15, ReaderLeavesRing
<1>16. CASE UNCHANGED vars
  BY <1>14, <1>16 DEF vars, ringVars, queueVars, bounds
<1>17. CASE Manage
  BY <1>2, <1>3, <1>17, ManageIsOfRing DEF WriterHolds
<1>18. QED
  BY <1>7, <1>8, <1>9, <1>10, <1>11, <1>12, <1>13, <1>15, <1>16, <1>17, StepCases
     DEF WriterActs, WriterStep

(* A write publishes before it copies or after; a read copies after it has *)
(* its bounds; and what it lost it had sampled.                            *)
LEMMA TypesKeep ==
  ASSUME Inv, [Next]_vars
  PROVE  TypeOK'
<1> DEFINE WriterTypes ==
             /\ preparing \in [take : Takes, time : 0 .. MaxTime,
                               count : 0 .. MaxTime] \cup {Ring!Idle}
             /\ preparing # Ring!Idle => job = Ring!Idle /\ writer # "idle"
             /\ writer # "idle" => toZero = {} /\ toStore = {}
             /\ Writing \/ writer = "idle"
           ReaderTypes ==
             /\ Fetching => reader = "idle"
             /\ asked \in [time : 0 .. MaxTime, count : 0 .. MaxTime]
             /\ lapped \in BOOLEAN
             /\ lost \subseteq sampled
<1>1. WriterTypes /\ ReaderTypes
  BY DEF Inv, TypeOK
<1>2. job = Ring!Idle => toZero = {} /\ toStore = {}
  BY RingSame DEF Inv, WriterHolds, W!TypeOK
<1>3. Ring!Idle' = Ring!Idle
  BY DEF Ring!Idle
<1>4. \A c \in R!Writes :
        /\ c \in [take : Takes, time : 0 .. MaxTime, count : 0 .. MaxTime]
        /\ c # Ring!Idle
  BY Constants DEF R!Writes, R!Times, Ring!Idle
<1>5. ASSUME UNCHANGED <<preparing, job, writer, toZero, toStore>>
      PROVE  WriterTypes'
  BY <1>1, <1>3, <1>5 DEF Writing
<1>6. ASSUME NEW c \in R!Writes, WriteThatDiscards(c)
      PROVE  WriterTypes'
  BY <1>2, <1>3, <1>4, <1>6
     DEF WriteThatDiscards, Queue!BeginSet, Writing, ringVars
<1>7. ASSUME PublishEnd
      PROVE  WriterTypes'
  BY <1>1, <1>3, <1>7 DEF PublishEnd, Queue!BeginSet, Writing, ringVars
<1>8. ASSUME StoreBounds
      PROVE  WriterTypes'
  BY <1>1, <1>3, <1>8
     DEF StoreBounds, Queue!StoreField, Queue!StoreUpdateCounter, Writing, ringVars
<1>9. ASSUME NEW c \in R!Writes, WriteThatFits(c)
      PROVE  WriterTypes'
  BY <1>1, <1>3, <1>9 DEF WriteThatFits, queueVars, Writing
<1>10. ASSUME RoomIsMade
       PROVE  WriterTypes'
  BY <1>3, <1>10 DEF RoomIsMade, Queue!IncrementCounter, Writing
<1>11. ASSUME WriteReturns
       PROVE  WriterTypes'
  BY <1>3, <1>11 DEF WriteReturns, Queue!IncrementCounter, Writing
<1>12. ASSUME CopyIn
       PROVE  WriterTypes'
  BY <1>1, <1>3, <1>12
     DEF CopyIn, Ring!ZeroFrame, Ring!StoreFrame, queueVars, Writing
<1>13. ASSUME Manage
       PROVE  WriterTypes' /\ ReaderTypes'
  BY <1>1, <1>3, <1>5, <1>13, ManageIsOfRing DEF Fetching
<1>14. ASSUME ReaderStep \/ \E call \in Ring!Calls : CallRead(call)
       PROVE  WriterTypes'
  BY <1>5, <1>14, ReaderLeavesRing
<1>15. ASSUME UNCHANGED vars
       PROVE  WriterTypes'
  BY <1>5, <1>15 DEF vars, ringVars, queueVars
<1>16. ASSUME WriterActs \/ UNCHANGED vars
       PROVE  ReaderTypes'
  BY <1>1, <1>16, WriterLeavesReader, WriterLosesWhatItDiscards
     DEF ReaderRests, Fetching
<1>17. ASSUME NEW call \in Ring!Calls, CallRead(call)
       PROVE  ReaderTypes'
  <2>1. asked' \in [time : 0 .. MaxTime, count : 0 .. MaxTime]
    <3>1. call \in [time : 0 .. MaxTime, count : 0 .. MaxTime]
      BY Constants DEF Ring!Calls, Ring!Times
    <3>2. QED
      BY <1>17, <3>1 DEF CallRead
  <2>2. ~Fetching' /\ lapped' \in BOOLEAN /\ UNCHANGED <<lost, sampled>>
    BY <1>17 DEF CallRead, Fetching, ringVars
  <2>3. QED
    BY <1>1, <2>1, <2>2
<1>18. ASSUME LoadCounter \/ CheckPasses \/ CheckFails
       PROVE  ReaderTypes'
  BY <1>1, <1>18 DEF LoadCounter, CheckPasses, CheckFails, Queue!LoadCounter,
                     Queue!CheckPasses, Queue!CheckFails, promiseVars, ringVars,
                     Fetching
<1>19. ASSUME NEW f \in Queue!Fields, LoadField(f)
       PROVE  ReaderTypes'
  <2>1. /\ UNCHANGED <<asked, lost, sampled>>
        /\ toLoad' # {} => UNCHANGED <<toFetch, lapped>>
        /\ toLoad' = {} => reader' = "idle"
        /\ reader = "copy"
    BY <1>19 DEF LoadField, Queue!LoadField, ringVars
  <2>2. lapped' \in BOOLEAN
    <3>1. toLoad' = {} => lapped' = (queueCounter - currentCounter >= QueueSize - 1)
      BY <1>19 DEF LoadField
    <3>2. (queueCounter - currentCounter >= QueueSize - 1) \in BOOLEAN
      OBVIOUS
    <3>3. QED
      BY <1>1, <2>1, <3>1, <3>2, Zenon
  <2>3. QED
    BY <1>1, <2>1, <2>2 DEF Fetching
<1>20. ASSUME CopyOut
       PROVE  ReaderTypes'
  BY <1>1, <1>20 DEF CopyOut, Ring!FetchFrame, queueVars, Fetching
<1>21. ASSUME WriterTypes', ReaderTypes'
       PROVE  TypeOK'
  BY <1>21 DEF TypeOK
<1> HIDE DEF WriterTypes, ReaderTypes
<1>22. WriterTypes'
  BY <1>6, <1>7, <1>8, <1>9, <1>10, <1>11, <1>12, <1>13, <1>14, <1>15, StepCases
     DEF WriterActs, WriterStep
<1>23. ReaderTypes'
  BY <1>13, <1>16, <1>17, <1>18, <1>19, <1>20, StepCases DEF ReaderStep
<1>24. QED
  BY <1>21, <1>22, <1>23

-----------------------------------------------------------------------------
(* The theorems.                                                           *)

LEMMA InitHolds ==
  ASSUME Init
  PROVE  Inv
<1>1. Q!TypeOK /\ Q!QueueInvariant
  BY QueueSame, Constants, Q!InitTypes, Q!InitInvariant DEF Init
<1>2. W!TypeOK /\ W!RingInvariant
  <2>1. W!Init
    BY RingSame DEF Init, Ring!Init, W!Init, Nobody, Ring!Nothing, W!Nothing, bounds
  <2>2. QED
    BY <2>1, Constants, W!InitHolds
<1>3. /\ preparing = Ring!Idle /\ job = Ring!Idle /\ toZero = {} /\ toStore = {}
      /\ writer = "idle" /\ reader = "idle" /\ toFetch = {} /\ outcome = "none"
      /\ asked = [time |-> 0, count |-> 0] /\ lapped = FALSE
      /\ sampled = {} /\ lost = {} /\ expected = Ring!Nothing
  BY DEF Init, Queue!Init, Ring!Init, Nobody
<1>4. TypeOK
  BY <1>3, Constants DEF TypeOK, Writing, Fetching
<1>5. WriterHolds
  BY <1>2, <1>3 DEF WriterHolds
<1>6. SampleHolds /\ CopyHolds /\ ClampDefined
  BY <1>3 DEF SampleHolds, CopyHolds, ClampDefined, Reading, Fetching
<1>7. ReadsHold
  BY <1>3 DEF ReadsHold, Ring!Nothing
<1>8. QED
  BY <1>1, <1>4, <1>5, <1>6, <1>7 DEF Inv

(* The two threads, the queue and the ring keep to their parts: the bounds *)
(* that the ring works from are those that the counter stands for, a write *)
(* publishes what it computed from them, and a read that was not overtaken *)
(* copies what was there when it loaded the counter.                       *)
THEOREM InvariantHolds == Spec => []Inv
<1>1. Init => Inv
  BY InitHolds
<1>2. Inv /\ [Next]_vars => Inv'
  BY QueueKeeps, TypesKeep, WriterKeeps, SampleKeeps, CopyKeeps, ClampKeeps,
     ReadsKeep DEF Inv
<1>3. QED
  BY <1>1, <1>2, PTL DEF Spec

(* A write publishes its bounds before it copies or after it has copied,   *)
(* one call at a time; a read copies once it has bounds to work from.      *)
THEOREM TypeCorrect == Spec => []TypeOK
<1>1. Inv => TypeOK
  BY DEF Inv
<1>2. QED
  BY <1>1, InvariantHolds, PTL

(* Whatever the reader does meanwhile, the bounds that become the ring's   *)
(* when the counter is incremented are what the write computed, and whole. *)
THEOREM PublishesWhatItComputed == Spec => []PublishedAsComputed
<1>1. Inv => PublishedAsComputed
  <2> SUFFICES ASSUME Inv, writer = "publish"
               PROVE  timeBounds[Queue!Slot(queueCounter + 1)] = ToPublish
    BY DEF PublishedAsComputed, ToPublish
  <2>1. timeBounds[Queue!Slot(queueCounter + 1)] = intended[queueCounter + 1]
    BY QueueSame DEF Inv, Q!QueueInvariant, Q!EntriesHold, Q!nextCounter
  <2>2. QED
    BY <2>1 DEF Inv, WriterHolds
<1>2. QED
  BY <1>1, InvariantHolds, PTL

(* The bounds that getTimeBounds returns are in order, so that std::clamp  *)
(* is defined for them, unless the writer came round to their entry.       *)
THEOREM ClampIsDefined == Spec => []ClampDefined
<1>1. Inv => ClampDefined
  BY DEF Inv
<1>2. QED
  BY <1>1, InvariantHolds, PTL

(* A read that was not overtaken returns what was there when it loaded the *)
(* counter, save what was discarded since: for every capacity, size of the *)
(* queue and interleaving of the accesses to shared memory.                *)
THEOREM ReadsReturnWhatTheySampled == Spec => []ReadsHold
<1>1. Inv => ReadsHold
  BY DEF Inv
<1>2. QED
  BY <1>1, InvariantHolds, PTL

(* The ring keeps to the queue's terms: so whatever holds of the queue     *)
(* alone holds of it in the ring.                                          *)
THEOREM RingKeepsToQueue == Spec => QueueUsedAsAssumed
<1>1. Init => Queue!Init
  BY DEF Init
<1>2. Inv /\ [Next]_vars => [Queue!Next]_(Queue!vars)
  BY QueueStep
<1>3. QED
  BY <1>1, <1>2, InvariantHolds, PTL DEF Spec, QueueUsedAsAssumed, Queue!Spec

-----------------------------------------------------------------------------
(* The refinement: a write takes place when its bounds are published, a    *)
(* read begins when it loads the counter and ends with its last copy.      *)

(* What the timeline's variables stand for.                                *)
Held == [t \in Ring!Span(bounds) |-> buffer[Ring!Offset(t)]]

Sampled == IF Reading THEN sampled ELSE {}

Lost == IF Reading THEN lost ELSE {}

Given ==
  IF Reading THEN Ring!Nothing
             ELSE [t \in DOMAIN expected |-> out[t - request.time]]

LEMMA TimelineValues ==
  /\ Timeline!Times = Ring!Times
  /\ Timeline!Frames = Ring!Frames
  /\ Timeline!Idle = Ring!Idle
  /\ Timeline!Nothing = Ring!Nothing
  /\ \A b : Timeline!Span(b) = Ring!Span(b)
  /\ \A c : Timeline!TimesOf(c) = Ring!TimesOf(c)
  /\ Timeline!Empty = [startTime |-> 0, endTime |-> 0]
  /\ \A a, b : Timeline!Larger(a, b) = W!Timeline!Larger(a, b)
BY DEF Timeline!Times, Ring!Times, Timeline!Frames, Ring!Frames,
       Timeline!Idle, Ring!Idle, Timeline!Nothing, Ring!Nothing,
       Timeline!Span, Ring!Span, Timeline!TimesOf, Ring!TimesOf,
       Timeline!Empty, Timeline!Larger, W!Timeline!Larger

LEMMA HeldIsAudio ==
  /\ Inv => Held = audio
  /\ (W!TypeOK /\ W!RingInvariant)' => Held' = audio'
<1>1. Held = W!Held
  BY RingSame DEF Held, W!Held
<1>2. Held' = W!Held'
  BY DEF Held, W!Held, Ring!Span, W!Span, Ring!Offset, W!Offset
<1>3. QED
  BY <1>1, <1>2, Constants, W!HeldIsAudio DEF Inv, WriterHolds

LEMMA RoomIsTimelines ==
  ASSUME Inv, [Next]_vars, WriterActs, NEW c \in R!Writes, Ring!MakeRoom(c)
  PROVE  Timeline!BeginWrite(c)
<1>1. W!TypeOK /\ W!RingInvariant /\ (W!TypeOK /\ W!RingInvariant)'
  BY WriterRingKeeps DEF Inv, WriterHolds
<1>2. W!BeginWrite(c) /\ c \in W!Writes
  BY RoomIsOfRing, RingSame
<1>3. W!Timeline!BeginWrite(c)
  BY <1>1, <1>2, Constants, W!BeginWriteBegins
<1>4. /\ job = Ring!Idle /\ c.count <= capacity /\ job' = c
      /\ \/ /\ c.time < bounds.endTime
            /\ bounds' = [startTime |-> c.time, endTime |-> c.time]
         \/ LET start ==
                  Timeline!Larger(bounds.startTime, c.time + c.count - capacity)
            IN  /\ c.time >= bounds.endTime
                /\ bounds' = [startTime |-> start,
                              endTime   |-> Timeline!Larger(start, bounds.endTime)]
      /\ UNCHANGED capacity
  BY <1>3, TimelineValues
     DEF W!Timeline!BeginWrite, W!Timeline!Idle, Ring!Idle
<1>5. Held' = [t \in Ring!Span(bounds') |-> Held[t]]
  BY <1>1, HeldIsAudio DEF Ring!MakeRoom, bounds
<1>6. ReaderRests /\ UNCHANGED <<Reading, Sampled, expected, Given>>
  BY WriterLeavesReader
     DEF ReaderRests, Reading, Fetching, Sampled, Given, Ring!Nothing
<1>7. Lost' = Lost \cup (Sampled \ Ring!Span(bounds'))
  BY <1>6, WriterLosesWhatItDiscards DEF Lost, Sampled
<1>8. QED
  BY <1>4, <1>5, <1>6, <1>7, TimelineValues
     DEF Timeline!BeginWrite, Held, Sampled, Lost, Given

LEMMA EndIsTimelines ==
  ASSUME Inv, [Next]_vars, WriteReturns
  PROVE  Timeline!EndWrite
<1>1. W!TypeOK /\ W!RingInvariant /\ (W!TypeOK /\ W!RingInvariant)'
  BY WriterRingKeeps DEF Inv, WriterHolds
<1>2. W!Timeline!EndWrite
  BY <1>1, Constants, EndIsOfRing, W!EndWriteEnds DEF WriteReturns
<1>3. Held = W!Held /\ Held' = W!Held'
  BY <1>1, Constants, HeldIsAudio, W!HeldIsAudio
<1>4. /\ job # Ring!Idle /\ job' = Ring!Idle
      /\ bounds' = [bounds EXCEPT !.endTime = job.time + job.count]
      /\ Held' = [t \in Ring!Span(bounds') |->
                    IF t \in Ring!Span(bounds) THEN Held[t]
                    ELSE IF t \in Ring!TimesOf(job)
                      THEN [take |-> job.take, time |-> t]
                      ELSE Silence]
      /\ UNCHANGED capacity
  BY <1>2, <1>3, RingSame, Constants, W!TimelineValues
     DEF W!Timeline!EndWrite, W!Held
<1>5. ReaderRests /\ UNCHANGED <<Reading, Sampled, expected, Given>>
  BY WriterLeavesReader
     DEF WriterActs, WriterStep, ReaderRests, Reading, Fetching, Sampled, Given,
         Ring!Nothing
<1>6. UNCHANGED Lost
  BY <1>5 DEF WriteReturns, Ring!EndWrite, Ring!Publish, Ring!readerVars, Lost
<1>7. QED
  BY <1>4, <1>5, <1>6, TimelineValues
     DEF Timeline!EndWrite, Held, Sampled, Lost, Given

LEMMA ManageIsTimelines ==
  ASSUME Inv, [Next]_vars, Manage
  PROVE  Timeline!Clear
<1>1. (W!TypeOK /\ W!RingInvariant)'
  BY WriterRingKeeps
<1>2. /\ capacity' \in Capacities \cup {0}
      /\ Held' = audio'
  BY <1>1, HeldIsAudio DEF W!TypeOK
<1>3. ~Reading /\ ~Reading' /\ UNCHANGED <<Reading, Sampled, Lost, Given>>
  BY ManageIsOfRing DEF Reading, Fetching, Sampled, Lost, Given
<1>4. /\ job = Ring!Idle
      /\ bounds' = [startTime |-> 0, endTime |-> 0]
      /\ Held' = Ring!Nothing
      /\ UNCHANGED <<job, expected>>
  BY <1>2, ManageIsOfRing
<1>5. QED
  BY <1>2, <1>3, <1>4, TimelineValues
     DEF Timeline!Clear, Held, Sampled, Lost, Given

(* A step that neither publishes nor samples nor returns is invisible.     *)
LEMMA UnseenSteps ==
  ASSUME Inv, [Next]_vars,
         UNCHANGED <<capacity, bounds, audio, job>>,
         UNCHANGED <<Reading, Sampled, Lost, expected, Given>>
  PROVE  UNCHANGED Timeline!vars
<1>1. UNCHANGED Held
  BY WriterRingKeeps, HeldIsAudio
<1>2. QED
  BY <1>1 DEF Timeline!vars, Held, Sampled, Lost, Given

(* A read that was not overtaken returns what the timeline has it return.  *)
LEMMA ReadReturns ==
  ASSUME Inv, [Next]_vars, RingRests, Reading, ~Reading',
         UNCHANGED <<expected, lost>>, (R!TypeOK /\ R!RingInvariant)'
  PROVE  Timeline!EndRead
<1>1. UNCHANGED Held
  BY WriterRingKeeps, HeldIsAudio DEF RingRests
<1>2. toFetch' = {}
  BY DEF Reading, Fetching
<1>3. DOMAIN expected = R!TimesOf(request')
  <2>1. expected' \in [R!TimesOf(request') -> R!Frames]
    BY DEF R!TypeOK, R!TimesOf
  <2>2. QED
    BY <2>1
<1>4. \A t \in DOMAIN expected : out'[t - request'.time] \in Ring!Frames
  BY <1>2, <1>3, RingSame DEF R!RingInvariant, R!Returned, R!Frames, R!TimesOf
<1>5. \A t \in DOMAIN expected \ lost : out'[t - request'.time] = expected[t]
  BY <1>2 DEF R!RingInvariant, R!ReadIntact
<1>6. Given' = [t \in DOMAIN expected |-> out'[t - request'.time]]
  BY DEF Given
<1>7. /\ Given' \in [DOMAIN expected -> Ring!Frames]
      /\ \A t \in DOMAIN expected \ Lost : Given'[t] = expected[t]
  BY <1>4, <1>5, <1>6 DEF Lost
<1>8. Sampled' = {} /\ Lost' = {}
  BY DEF Sampled, Lost
<1>9. QED
  BY <1>1, <1>7, <1>8, TimelineValues
     DEF Timeline!EndRead, RingRests, Held, Sampled, Lost, Given

LEMMA SampleIsTimelines ==
  ASSUME Inv, [Next]_vars, LoadCounter
  PROVE  Timeline!Next
<1>1. RingRests
  BY RestingSteps DEF ReaderStep
<1>2. UNCHANGED Held /\ Held = audio
  BY <1>1, WriterRingKeeps, HeldIsAudio DEF RingRests
<1>3. /\ reader = "load" /\ ~Reading /\ Reading'
      /\ asked \in Ring!Calls /\ asked.count <= capacity
      /\ expected' = [t \in Ring!TimesOf(asked) |->
                        IF t \in Ring!Span(bounds) THEN audio[t] ELSE Silence]
      /\ sampled' = Ring!TimesOf(asked) \cap Ring!Span(bounds)
      /\ lost' = {}
  BY DEF LoadCounter, Queue!LoadCounter, Reading, Inv, TypeOK, SampleHolds,
         Ring!AudioAt, bounds
<1>4. /\ Sampled' = Ring!TimesOf(asked) \cap Ring!Span(bounds)
      /\ Lost' = {}
      /\ Given' = Ring!Nothing
  BY <1>3 DEF Sampled, Lost, Given, Ring!Nothing
<1>5. PICK r \in Ring!Calls : r = asked
  BY <1>3
<1>6. Timeline!Sample(r)
  BY <1>1, <1>2, <1>3, <1>4, <1>5, TimelineValues
     DEF Timeline!Sample, RingRests, Held, Lost
<1>7. Timeline!BeginRead(r)
  BY <1>3, <1>4, <1>5, <1>6, TimelineValues DEF Timeline!BeginRead, Sampled, Given
<1>8. r \in Timeline!Requests
  BY TimelineValues DEF Ring!Calls, Timeline!Requests
<1>9. QED
  BY <1>7, <1>8 DEF Timeline!Next

LEMMA FailureIsTimelines ==
  ASSUME Inv, [Next]_vars, CheckFails
  PROVE  Timeline!FailRead
<1>1. RingRests
  BY RestingSteps DEF ReaderStep
<1>2. UNCHANGED Held
  BY <1>1, WriterRingKeeps, HeldIsAudio DEF RingRests
<1>3. /\ Reading /\ ~Reading'
      /\ expected' = Ring!Nothing
  BY DEF CheckFails, Queue!CheckFails, Reading, Fetching, Inv, TypeOK, ringVars
<1>4. Sampled' = {} /\ Lost' = {} /\ Given' = Ring!Nothing
  BY <1>3 DEF Sampled, Lost, Given, Ring!Nothing
<1>5. QED
  BY <1>1, <1>2, <1>3, <1>4, TimelineValues
     DEF Timeline!FailRead, RingRests, Held, Sampled, Lost, Given

(* A step that copies to the reader's buffer ends the read, or is          *)
(* invisible, or is of a read that was overtaken.                          *)
LEMMA ReadIsTimelines ==
  ASSUME Inv, [Next]_vars, ReaderStep, ~LoadCounter, ~CheckFails
  PROVE  Timeline!EndRead \/ UNCHANGED Timeline!vars \/ OvertakenRead
<1>1. RingRests
  BY RestingSteps
<1>2. TypeOK
  BY DEF Inv
<1>3. ASSUME Reading, Reading', UNCHANGED <<expected, sampled, lost>>
      PROVE  UNCHANGED Timeline!vars
  <2>1. UNCHANGED <<Reading, Sampled, Lost, expected, Given>>
    BY <1>3 DEF Sampled, Lost, Given, Ring!Nothing
  <2>2. QED
    BY <1>1, <2>1, UnseenSteps DEF RingRests
<1>4. CASE CheckPasses
  <2>1. /\ Reading /\ Reading'
        /\ UNCHANGED <<expected, sampled, lost>>
    BY <1>4 DEF CheckPasses, Queue!CheckPasses, Reading, promiseVars
  <2>2. QED
    BY <1>3, <2>1
<1>5. ASSUME NEW f \in Queue!Fields, LoadField(f)
      PROVE  Timeline!EndRead \/ UNCHANGED Timeline!vars \/ OvertakenRead
  <2>1. /\ Reading
        /\ reader' = IF toLoad' = {} THEN "idle" ELSE "copy"
        /\ UNCHANGED <<expected, sampled, lost>>
    BY <1>5 DEF LoadField, Queue!LoadField, Reading
  <2>2. CASE toLoad' # {}
    BY <1>3, <2>1, <2>2 DEF Reading
  <2>3. CASE toLoad' = {} /\ lapped'
    <3>1. UNCHANGED <<capacity, buffer, audio, job, queueCounter, timeBounds>>
      BY <1>5, <2>3
         DEF LoadField, Queue!LoadField, Queue!writerVars
    <3>2. QED
      BY <2>3, <3>1 DEF OvertakenRead
  <2>4. CASE toLoad' = {} /\ ~lapped' /\ toFetch' # {}
    BY <1>3, <2>1, <2>4 DEF Reading, Fetching
  <2>5. CASE toLoad' = {} /\ ~lapped' /\ toFetch' = {}
    <3>1. ~Reading'
      BY <2>1, <2>5 DEF Reading, Fetching
    <3>2. (R!TypeOK /\ R!RingInvariant)'
      BY <1>5, <2>5, LastLoadStarts
    <3>3. QED
      BY <1>1, <2>1, <3>1, <3>2, ReadReturns
  <2>6. QED
    BY <2>2, <2>3, <2>4, <2>5
<1>6. CASE CopyOut
  <2>1. /\ Reading /\ reader = "idle" /\ reader' = "idle"
        /\ UNCHANGED <<expected, sampled, lost, lapped>>
    BY <1>2, <1>6
       DEF CopyOut, Ring!FetchFrame, queueVars, TypeOK, Reading, Fetching
  <2>2. CASE lapped
    <3>1. UNCHANGED <<capacity, buffer, audio, job, queueCounter, timeBounds>>
      BY <1>6 DEF CopyOut, Ring!FetchFrame, Ring!writerVars, queueVars
    <3>2. QED
      BY <2>1, <2>2, <3>1 DEF OvertakenRead
  <2>3. CASE toFetch' # {}
    BY <1>3, <2>1, <2>3 DEF Reading, Fetching
  <2>4. CASE ~lapped /\ toFetch' = {}
    <3>1. R!TypeOK /\ R!RingInvariant
      BY <2>1, <2>4 DEF Inv, CopyHolds, Reading
    <3>2. (R!TypeOK /\ R!RingInvariant)'
      BY <1>6, <3>1, Constants, CopyOutIsOfRing, R!FetchFrameKeeps
    <3>3. ~Reading'
      BY <2>1, <2>4 DEF Reading, Fetching
    <3>4. QED
      BY <1>1, <2>1, <3>2, <3>3, ReadReturns
  <2>5. QED
    BY <2>2, <2>3, <2>4
<1>7. QED
  BY <1>4, <1>5, <1>6 DEF ReaderStep

(* The steps of a write between its publications, and the call of a read.  *)
LEMMA OtherStepsAreUnseen ==
  ASSUME Inv, [Next]_vars,
         \/ \E c \in R!Writes : WriteThatDiscards(c)
         \/ PublishEnd \/ StoreBounds \/ CopyIn
         \/ \E call \in Ring!Calls : CallRead(call)
         \/ UNCHANGED vars
  PROVE  UNCHANGED Timeline!vars
<1>1. UNCHANGED <<capacity, bounds, audio, job>>
  <2>1. CASE CopyIn
    BY <2>1 DEF CopyIn, Ring!ZeroFrame, Ring!StoreFrame, queueVars, bounds
  <2>2. CASE ~CopyIn
    BY <2>2, RestingSteps DEF RingRests
  <2>3. QED
    BY <2>1, <2>2
<1>2. CASE ~\E call \in Ring!Calls : CallRead(call)
  <2>1. ReaderRests
    BY <1>2, WriterLeavesReader DEF WriterActs, WriterStep
  <2>2. UNCHANGED lost
    BY <1>2 DEF WriteThatDiscards, PublishEnd, StoreBounds, CopyIn,
                Ring!ZeroFrame, Ring!StoreFrame, Ring!readerVars, promiseVars, vars
  <2>3. UNCHANGED <<Reading, Sampled, Lost, expected, Given>>
    BY <2>1, <2>2
       DEF ReaderRests, Reading, Fetching, Sampled, Lost, Given, Ring!Nothing
  <2>4. QED
    BY <1>1, <2>3, UnseenSteps
<1>3. CASE \E call \in Ring!Calls : CallRead(call)
  <2>1. /\ ~Reading /\ ~Reading' /\ UNCHANGED Reading
        /\ UNCHANGED <<expected, out, request>>
    BY <1>3 DEF CallRead, Queue!CallGetTimeBounds, ringVars, Reading, Fetching
  <2>2. UNCHANGED <<Reading, Sampled, Lost, expected, Given>>
    BY <2>1 DEF Sampled, Lost, Given, Ring!Nothing
  <2>3. QED
    BY <1>1, <2>2, UnseenSteps
<1>4. QED
  BY <1>2, <1>3

(* Nothing is held, and nobody reads, to begin with.                       *)
LEMMA InitIsTimelines == Init => Timeline!Init
<1> SUFFICES ASSUME Init
             PROVE  Timeline!Init
  OBVIOUS
<1>1. Held = audio
  BY InitHolds, HeldIsAudio
<1>2. /\ capacity = 0
      /\ bounds = [startTime |-> 0, endTime |-> 0]
      /\ audio = Ring!Nothing
      /\ job = Ring!Idle
      /\ expected = Ring!Nothing
      /\ reader = "idle" /\ toFetch = {}
  BY DEF Init, Ring!Init, Queue!Init, bounds
<1>3. ~Reading /\ Reading = FALSE
  BY <1>2 DEF Reading, Fetching
<1>4. Given = Ring!Nothing
  BY <1>2, <1>3 DEF Given, Ring!Nothing
<1>5. Sampled = {} /\ Lost = {}
  BY <1>3 DEF Sampled, Lost
<1>6. QED
  BY <1>1, <1>2, <1>3, <1>4, <1>5, TimelineValues
     DEF Timeline!Init, Held, Sampled, Lost, Given

LEMMA WriteIsTimelines ==
  ASSUME Inv, [Next]_vars, WriterActs, NEW c \in R!Writes, Ring!MakeRoom(c)
  PROVE  Timeline!Next
<1>1. c \in [time : Timeline!Times, count : 1 .. MaxTime, take : Takes]
  BY TimelineValues, RingSame DEF R!Writes
<1>2. QED
  BY <1>1, RoomIsTimelines DEF Timeline!Next

LEMMA StepIsTimelines ==
  ASSUME Inv, [Next]_vars
  PROVE  Timeline!Next \/ UNCHANGED Timeline!vars \/ OvertakenRead
<1>1. CASE Manage
  BY <1>1, ManageIsTimelines DEF Timeline!Next
<1>2. ASSUME NEW c \in R!Writes, WriteThatFits(c)
      PROVE  Timeline!Next
  BY <1>2, WriteIsTimelines DEF WriteThatFits, WriterActs
<1>3. CASE RoomIsMade
  <2>1. preparing \in R!Writes /\ Ring!MakeRoom(preparing)
    BY <1>3 DEF RoomIsMade, Inv, WriterHolds
  <2>2. QED
    BY <1>3, <2>1, WriteIsTimelines DEF WriterActs, WriterStep
<1>4. CASE WriteReturns
  BY <1>4, EndIsTimelines DEF Timeline!Next
<1>5. CASE LoadCounter
  BY <1>5, SampleIsTimelines
<1>6. CASE CheckFails
  BY <1>6, FailureIsTimelines DEF Timeline!Next
<1>7. CASE ReaderStep /\ ~LoadCounter /\ ~CheckFails
  BY <1>7, ReadIsTimelines DEF Timeline!Next
<1>8. CASE \/ \E c \in R!Writes : WriteThatDiscards(c)
           \/ PublishEnd \/ StoreBounds \/ CopyIn
           \/ \E call \in Ring!Calls : CallRead(call)
           \/ UNCHANGED vars
  BY <1>8, OtherStepsAreUnseen
<1>9. QED
  BY <1>1, <1>2, <1>3, <1>4, <1>5, <1>6, <1>7, <1>8, StepCases
     DEF WriterActs, WriterStep

(* The whole is the timeline that the ring with bounds of one piece        *)
(* implements: a write takes place when its bounds are published, a read   *)
(* when it loads the counter.  Only the steps of a read whose entry was    *)
(* overtaken are exempt.                                                   *)
THEOREM RingOverQueueImplementsTimeline == Spec => TimelineUnlessLapped
<1>1. Inv /\ [Next]_vars =>
        [Timeline!Next \/ UNCHANGED Timeline!vars \/ OvertakenRead]_vars
  BY StepIsTimelines
<1>2. QED
  BY <1>1, InitIsTimelines, InvariantHolds, PTL DEF Spec, TimelineUnlessLapped
=============================================================================
