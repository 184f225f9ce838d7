----------------------- MODULE TimeBoundsQueueProofs ------------------------
(***************************************************************************)
(* Proofs about TimeBoundsQueue, for every size of the queue, number of    *)
(* tries, set of times and number of publications.                         *)
(***************************************************************************)
EXTENDS TimeBoundsQueue, RingArithmetic, TLAPS

(* Masking a counter gives the index of an entry.                          *)
LEMMA SlotIndex ==
  ASSUME NEW k \in Nat
  PROVE  Slot(k) \in Slots
BY QueueAssumption, ModRange DEF Slot, Slots

LEMMA InitTypes ==
  ASSUME Init
  PROVE  TypeOK
BY QueueAssumption
   DEF Init, TypeOK, Slots, Bounds, Windows, ZeroBounds, Fields

LEMMA StepKeepsTypes ==
  ASSUME TypeOK, [Next]_vars
  PROVE  TypeOK'
<1> USE QueueAssumption DEF TypeOK, nextCounter
<1>1. ASSUME NEW b \in Windows, BeginSet(b)
      PROVE  TypeOK'
  BY <1>1 DEF BeginSet, readerVars
<1>2. ASSUME NEW f \in Fields, StoreField(f)
      PROVE  TypeOK'
  <2>1. timeBounds' \in [Slots -> Bounds]
    BY <1>2, SlotIndex DEF StoreField, Fields, Bounds, Windows
  <2>2. QED
    BY <1>2, <2>1 DEF StoreField, readerVars
<1>3. CASE StoreUpdateCounter
  <2>1. updateCounter' \in [Slots -> Nat]
    BY <1>3, SlotIndex DEF StoreUpdateCounter
  <2>2. QED
    BY <1>3, <2>1 DEF StoreUpdateCounter, readerVars
<1>4. CASE IncrementCounter
  BY <1>4 DEF IncrementCounter, readerVars
<1>5. CASE CallGetTimeBounds
  BY <1>5 DEF CallGetTimeBounds, writerVars, ZeroBounds, Bounds
<1>6. CASE LoadCounter
  BY <1>6 DEF LoadCounter, writerVars
<1>7. CASE CheckPasses
  BY <1>7 DEF CheckPasses, writerVars, Fields
<1>8. CASE CheckFails
  BY <1>8 DEF CheckFails, writerVars
<1>9. ASSUME NEW f \in Fields, LoadField(f)
      PROVE  TypeOK'
  <2>1. snapshot' \in Bounds
    BY <1>9, SlotIndex DEF LoadField, Fields, Bounds
  <2>2. /\ toLoad' \in SUBSET Fields
        /\ reader' \in {"copy", "idle"}
        /\ (reader' = "copy") <=> (toLoad' # {})
        /\ reader' = "copy" => outcome' = "none"
        /\ outcome' \in {"none", "captured"}
    BY <1>9 DEF LoadField
  <2>3. UNCHANGED <<queueCounter, timeBounds, updateCounter, writerVars,
                    tries, currentCounter, called>>
    BY <1>9 DEF LoadField
  <2>4. reader = "copy"
    BY <1>9 DEF LoadField
  <2>5. QED
    BY <2>1, <2>2, <2>3, <2>4 DEF writerVars
<1>10. CASE Reset
  <2>1. ZeroBounds \in Windows
    BY DEF ZeroBounds, Bounds, Windows, Fields
  <2>2. QED
    BY <1>10, <2>1 DEF Reset, Windows
<1>11. CASE UNCHANGED vars
  BY <1>11 DEF vars, writerVars, readerVars
<1>12. QED
  BY <1>1, <1>2, <1>3, <1>4, <1>5, <1>6, <1>7, <1>8, <1>9, <1>10, <1>11
     DEF Next, SetTimeBounds, GetTimeBounds

(* Every variable keeps its type; a call spends at most MaxTries           *)
(* iterations of the loop of getTimeBounds.                                *)
THEOREM TypeCorrect == Spec => []TypeOK
BY InitTypes, StepKeepsTypes, PTL DEF Spec

-----------------------------------------------------------------------------
(* Two counters less than QueueSize apart have entries of their own.       *)
LEMMA SlotsApart ==
  ASSUME NEW j \in Nat, NEW k \in Nat, j < k, k - j < QueueSize
  PROVE  Slot(j) # Slot(k)
<1>1. j \in Int /\ k \in Int /\ QueueSize \in Nat \ {0}
  BY QueueAssumption
<1>2. j % QueueSize # k % QueueSize
  BY <1>1, ModApart
<1>3. QED
  BY <1>2 DEF Slot

(* The writer's steps keep what the entries hold: it stores only to the    *)
(* entry that is QueueSize publications old.                               *)
LEMMA WriterKeepsEntries ==
  ASSUME TypeOK, EntriesHold, SetTimeBounds
  PROVE  EntriesHold'
<1> USE QueueAssumption DEF TypeOK
<1> DEFINE Entry(k) ==
             timeBounds[Slot(k)] = intended[k] /\ updateCounter[Slot(k)] = k
<1>0. /\ nextCounter \in Nat
      /\ nextCounter = queueCounter + 1
      /\ Slot(nextCounter) \in Slots
  BY SlotIndex DEF nextCounter
<1>1. ASSUME NEW b \in Windows, BeginSet(b)
      PROVE  EntriesHold'
  <2>1. \A k \in 0 .. queueCounter : intended'[k] = intended[k]
    BY <1>1, <1>0 DEF BeginSet
  <2>2. QED
    BY <1>1, <2>1 DEF BeginSet, EntriesHold, nextCounter
<1>2. ASSUME NEW f \in Fields, StoreField(f)
      PROVE  EntriesHold'
  <2>1. ASSUME NEW k \in 0 .. queueCounter, nextCounter - k < QueueSize
        PROVE  Slot(k) \in Slots /\ timeBounds'[Slot(k)] = timeBounds[Slot(k)]
    <3>1. Slot(k) # Slot(nextCounter)
      BY <1>0, <2>1, SlotsApart
    <3>2. QED
      BY <1>2, <3>1, SlotIndex DEF StoreField
  <2>2. timeBounds'[Slot(nextCounter)] =
          [timeBounds[Slot(nextCounter)] EXCEPT ![f] = intended[nextCounter][f]]
    BY <1>2, <1>0 DEF StoreField
  <2>3. timeBounds[Slot(nextCounter)] \in [Fields -> Times]
    BY <1>0 DEF Bounds
  <2>4. ASSUME NEW g \in Fields \ toStore'
        PROVE  timeBounds'[Slot(nextCounter)][g] = intended[nextCounter][g]
    BY <1>2, <2>2, <2>3, <2>4 DEF StoreField, EntriesHold
  <2>5. UNCHANGED <<nextCounter, queueCounter, updateCounter, intended, writer>>
    BY <1>2 DEF StoreField, nextCounter
  <2>6. writer = "store"
    BY <1>2 DEF StoreField
  <2>7. QED
    BY <2>1, <2>4, <2>5, <2>6 DEF EntriesHold, Slot
<1>3. CASE StoreUpdateCounter
  <2>1. ASSUME NEW k \in 0 .. queueCounter, nextCounter - k < QueueSize
        PROVE  updateCounter'[Slot(k)] = updateCounter[Slot(k)]
    <3>1. Slot(k) # Slot(nextCounter)
      BY <1>0, <2>1, SlotsApart
    <3>2. QED
      BY <1>3, <3>1, SlotIndex DEF StoreUpdateCounter
  <2>2. updateCounter'[Slot(nextCounter)] = nextCounter
    BY <1>3, <1>0 DEF StoreUpdateCounter
  <2>3. timeBounds[Slot(nextCounter)] = intended[nextCounter]
    <3>1. \A f \in Fields :
            timeBounds[Slot(nextCounter)][f] = intended[nextCounter][f]
      BY <1>3 DEF StoreUpdateCounter, EntriesHold
    <3>2. timeBounds[Slot(nextCounter)] \in [Fields -> Times]
      BY <1>0 DEF Bounds
    <3>3. intended[nextCounter] \in [Fields -> Times]
      BY <1>3, <1>0 DEF StoreUpdateCounter, Bounds, Windows
    <3>4. QED
      BY <3>1, <3>2, <3>3
  <2>4. UNCHANGED <<nextCounter, queueCounter, timeBounds, intended>>
    BY <1>3 DEF StoreUpdateCounter, nextCounter
  <2>5. writer' = "publish"
    BY <1>3 DEF StoreUpdateCounter
  <2>6. QED
    BY <2>1, <2>2, <2>3, <2>4, <2>5 DEF EntriesHold, Slot
<1>4. CASE IncrementCounter
  <2>1. ASSUME NEW k \in 0 .. queueCounter', nextCounter' - k < QueueSize
        PROVE  Entry(k)
    <3>1. CASE k = nextCounter
      BY <1>4, <3>1 DEF IncrementCounter, EntriesHold
    <3>2. CASE k # nextCounter
      <4>1. k \in 0 .. queueCounter /\ nextCounter - k < QueueSize
        BY <1>4, <2>1, <3>2 DEF IncrementCounter, nextCounter
      <4>2. QED
        BY <4>1 DEF EntriesHold
    <3>3. QED
      BY <3>1, <3>2
  <2>2. UNCHANGED <<timeBounds, updateCounter, intended>> /\ writer' = "idle"
    BY <1>4 DEF IncrementCounter
  <2>3. QED
    BY <2>1, <2>2 DEF EntriesHold, Slot
<1>5. QED
  BY <1>1, <1>2, <1>3, <1>4 DEF SetTimeBounds

(* An iteration that fails was one in which the writer came round: that    *)
(* took QueueSize - 1 publications since the counter was loaded.           *)
LEMMA FailedMeansOvertaken ==
  ASSUME TypeOK, QueueInvariant, CheckFails
  PROVE  /\ currentCounter + (QueueSize - 1) <= queueCounter
         /\ called + (tries + 1) * (QueueSize - 1) <= queueCounter
<1> USE QueueAssumption DEF TypeOK
<1>1. /\ currentCounter <= queueCounter
      /\ called + tries * (QueueSize - 1) <= currentCounter
  BY DEF CheckFails, QueueInvariant, CallHolds
<1>2. currentCounter + (QueueSize - 1) <= queueCounter
  <2>1. currentCounter \in 0 .. queueCounter
    BY <1>1
  <2>2. ~(nextCounter - currentCounter < QueueSize)
    BY <2>1 DEF CheckFails, QueueInvariant, EntriesHold
  <2>3. QED
    BY <2>1, <2>2 DEF nextCounter
<1>3. (tries + 1) * (QueueSize - 1) = tries * (QueueSize - 1) + (QueueSize - 1)
  OBVIOUS
<1>4. tries * (QueueSize - 1) \in Int
  OBVIOUS
<1>5. QED
  BY <1>1, <1>2, <1>3, <1>4

(* What the reader has loaded stays what was published under the counter   *)
(* it loaded, whatever either thread does next, until it is overtaken.     *)
LEMMA StepKeepsCall ==
  ASSUME TypeOK, QueueInvariant, Next
  PROVE  CallHolds'
<1> USE QueueAssumption DEF TypeOK
<1>1. ASSUME NEW b \in Windows, BeginSet(b)
      PROVE  CallHolds'
  <2>1. \A k \in 0 .. queueCounter : intended'[k] = intended[k]
    BY <1>1 DEF BeginSet, nextCounter
  <2>2. QED
    BY <1>1, <2>1 DEF BeginSet, readerVars, QueueInvariant, CallHolds
<1>2. ASSUME NEW f \in Fields, StoreField(f)
      PROVE  CallHolds'
  BY <1>2 DEF StoreField, readerVars, QueueInvariant, CallHolds
<1>3. CASE StoreUpdateCounter
  BY <1>3 DEF StoreUpdateCounter, readerVars, QueueInvariant, CallHolds
<1>4. CASE IncrementCounter
  <2>1. queueCounter' = queueCounter + 1
    BY <1>4 DEF IncrementCounter, nextCounter
  <2>2. UNCHANGED <<readerVars, intended>>
    BY <1>4 DEF IncrementCounter
  <2>3. tries * (QueueSize - 1) \in Int
    OBVIOUS
  <2>4. QED
    BY <2>1, <2>2, <2>3 DEF readerVars, QueueInvariant, CallHolds
<1>5. CASE CallGetTimeBounds
  <2>1. 0 * (QueueSize - 1) = 0
    OBVIOUS
  <2>2. QED
    BY <1>5, <2>1 DEF CallGetTimeBounds, CallHolds
<1>6. CASE LoadCounter
  BY <1>6 DEF LoadCounter, QueueInvariant, CallHolds
<1>7. CASE CheckPasses
  BY <1>7 DEF CheckPasses, writerVars, QueueInvariant, CallHolds
<1>8. CASE CheckFails
  BY <1>8, FailedMeansOvertaken DEF CheckFails, CallHolds
<1>9. ASSUME NEW f \in Fields, LoadField(f)
      PROVE  CallHolds'
  <2>1. /\ currentCounter \in 0 .. queueCounter
        /\ called + tries * (QueueSize - 1) <= currentCounter
    BY <1>9 DEF LoadField, QueueInvariant, CallHolds
  <2>2. snapshot' =
          [snapshot EXCEPT ![f] = timeBounds[Slot(currentCounter)][f]]
    BY <1>9 DEF LoadField
  <2>3. ASSUME NEW g \in Fields \ toLoad',
               queueCounter - currentCounter < QueueSize - 1
        PROVE  snapshot'[g] = intended[currentCounter][g]
    <3>1. timeBounds[Slot(currentCounter)] = intended[currentCounter]
      BY <2>1, <2>3 DEF QueueInvariant, EntriesHold, nextCounter
    <3>2. CASE g = f
      BY <2>2, <3>1, <3>2 DEF Bounds
    <3>3. CASE g # f
      BY <1>9, <2>2, <2>3, <3>3 DEF LoadField, QueueInvariant, CallHolds, Bounds
    <3>4. QED
      BY <3>2, <3>3
  <2>4. UNCHANGED <<queueCounter, currentCounter, called, tries, intended>>
    BY <1>9 DEF LoadField, writerVars
  <2>5. reader' \in {"copy", "idle"}
    BY <1>9 DEF LoadField
  <2>6. QED
    BY <2>1, <2>3, <2>4, <2>5 DEF CallHolds
<1>10. CASE Reset
  BY <1>10 DEF Reset, CallHolds
<1>11. QED
  BY <1>1, <1>2, <1>3, <1>4, <1>5, <1>6, <1>7, <1>8, <1>9, <1>10
     DEF Next, SetTimeBounds, GetTimeBounds

LEMMA InitInvariant ==
  ASSUME Init
  PROVE  QueueInvariant
<1> USE QueueAssumption
<1>1. EntriesHold
  <2>1. ASSUME NEW k \in 0 .. queueCounter
        PROVE  k = 0 /\ Slot(k) \in Slots
    BY <2>1, SlotIndex DEF Init
  <2>2. QED
    BY <2>1 DEF Init, EntriesHold
<1>2. CallHolds
  BY DEF Init, CallHolds
<1>3. QED
  BY <1>1, <1>2 DEF QueueInvariant

LEMMA StepKeepsInvariant ==
  ASSUME TypeOK, QueueInvariant, [Next]_vars
  PROVE  QueueInvariant'
<1> USE QueueAssumption
<1>1. CASE SetTimeBounds
  BY <1>1, WriterKeepsEntries, StepKeepsCall DEF QueueInvariant, Next
<1>2. CASE GetTimeBounds
  <2>1. UNCHANGED <<queueCounter, timeBounds, updateCounter, writerVars>>
    BY <1>2 DEF GetTimeBounds, CallGetTimeBounds, LoadCounter, CheckPasses,
                CheckFails, LoadField
  <2>2. EntriesHold'
    BY <2>1
       DEF QueueInvariant, EntriesHold, writerVars, Slot, nextCounter
  <2>3. QED
    BY <1>2, <2>2, StepKeepsCall DEF QueueInvariant, Next
<1>3. CASE Reset
  <2>1. EntriesHold'
    <3>1. ASSUME NEW k \in 0 .. queueCounter'
          PROVE  k = 0 /\ Slot(k) \in Slots
      BY <1>3, <3>1, SlotIndex DEF Reset
    <3>2. QED
      BY <1>3, <3>1 DEF Reset, EntriesHold, Slot
  <2>2. QED
    BY <1>3, <2>1, StepKeepsCall DEF QueueInvariant, Next
<1>4. CASE UNCHANGED vars
  BY <1>4 DEF vars, writerVars, readerVars, QueueInvariant,
              EntriesHold, CallHolds, Slot, nextCounter
<1>5. QED
  BY <1>1, <1>2, <1>3, <1>4 DEF Next

(* The entries hold what was published under their counters until the      *)
(* writer comes round to them, and a call of getTimeBounds relies on       *)
(* nothing else: the invariant is inductive, given the types.              *)
THEOREM InvariantHolds == Spec => []QueueInvariant
<1>1. Init => QueueInvariant
  BY InitInvariant
<1>2. TypeOK /\ QueueInvariant /\ [Next]_vars => QueueInvariant'
  BY StepKeepsInvariant
<1>3. QED
  BY <1>1, <1>2, TypeCorrect, PTL DEF Spec

-----------------------------------------------------------------------------
(* The refinement: one step of each thread is a step of the register, the  *)
(* others are steps of neither.                                            *)

LEMMA RegisterValues ==
  /\ Register!Bounds = Bounds
  /\ Register!Windows = Windows
  /\ Register!ZeroBounds = ZeroBounds
BY DEF Register!Bounds, Register!Windows, Register!ZeroBounds, Register!Fields,
       Bounds, Windows, ZeroBounds, Fields

(* Until the counter is incremented nothing the writer stores is seen.     *)
LEMMA StoringIsInvisible ==
  ASSUME TypeOK,
         \/ \E b \in Windows : BeginSet(b)
         \/ \E f \in Fields : StoreField(f)
         \/ StoreUpdateCounter
  PROVE  UNCHANGED Register!vars
<1>1. UNCHANGED <<queueCounter, readerVars>>
  BY DEF BeginSet, StoreField, StoreUpdateCounter
<1>2. \A k \in 0 .. queueCounter : intended'[k] = intended[k]
  <2>1. \/ intended' = intended
        \/ \E b \in Windows : intended' = [intended EXCEPT ![queueCounter + 1] = b]
    BY DEF BeginSet, StoreField, StoreUpdateCounter, nextCounter
  <2>2. QED
    BY <2>1, QueueAssumption DEF TypeOK
<1>3. [k \in 0 .. queueCounter |-> intended'[k]]
        = [k \in 0 .. queueCounter |-> intended[k]]
  BY <1>2
<1>4. QED
  BY <1>1, <1>3 DEF Register!vars, readerVars, ZeroBounds

LEMMA IncrementPublishes ==
  ASSUME TypeOK, IncrementCounter
  PROVE  Register!Publish
<1> USE QueueAssumption DEF TypeOK
<1>1. /\ queueCounter' = queueCounter + 1
      /\ queueCounter < MaxUpdates
      /\ UNCHANGED <<intended, readerVars>>
  BY DEF IncrementCounter, nextCounter
<1>2. intended[queueCounter + 1] \in Windows
  BY <1>1
<1>3. [k \in 0 .. queueCounter |-> intended[k]]'
        = [k \in 0 .. queueCounter + 1 |->
             IF k = queueCounter + 1
               THEN intended[queueCounter + 1]
               ELSE [i \in 0 .. queueCounter |-> intended[i]][k]]
  BY <1>1
<1>4. QED
  BY <1>1, <1>2, <1>3, RegisterValues DEF Register!Publish, readerVars, ZeroBounds

LEMMA CheckIsInvisible ==
  ASSUME TypeOK, CheckPasses
  PROVE  UNCHANGED Register!vars
BY DEF CheckPasses, Register!vars, writerVars, ZeroBounds

LEMMA FailedCheckIsInvisibleOrGivesUp ==
  ASSUME TypeOK, QueueInvariant, CheckFails
  PROVE  UNCHANGED Register!vars \/ Register!GiveUp
<1> USE QueueAssumption DEF TypeOK
<1>1. /\ UNCHANGED <<queueCounter, intended, currentCounter, snapshot, called>>
      /\ reader = "check"
      /\ outcome = "none"
      /\ tries \in Nat
      /\ tries' = tries + 1
  BY DEF CheckFails, writerVars
<1>2. CASE reader' = "load"
  BY <1>1, <1>2 DEF CheckFails, Register!vars, ZeroBounds
<1>3. CASE reader' = "idle"
  <2>1. MaxTries = tries + 1 /\ outcome' = "failed"
    BY <1>3 DEF CheckFails
  <2>2. called + MaxTries * (QueueSize - 1) <= queueCounter
    BY <2>1, FailedMeansOvertaken
  <2>3. MaxTries * (QueueSize - 1) \in Int
    OBVIOUS
  <2>4. queueCounter - called >= MaxTries * (QueueSize - 1)
    BY <2>2, <2>3
  <2>5. QED
    BY <1>1, <1>3, <2>1, <2>4 DEF Register!GiveUp, ZeroBounds
<1>4. QED
  BY <1>2, <1>3 DEF CheckFails

(* The last load of an iteration that was not overtaken completes what was *)
(* published under the counter it loaded.                                  *)
LEMMA LastLoadCompletes ==
  ASSUME TypeOK, QueueInvariant, TypeOK',
         NEW f \in Fields, LoadField(f), toLoad' = {},
         queueCounter - currentCounter < QueueSize - 1
  PROVE  snapshot' = intended[currentCounter]
<1> USE QueueAssumption
<1>1. reader = "copy" /\ currentCounter \in 0 .. queueCounter
  BY DEF LoadField, TypeOK, QueueInvariant, CallHolds
<1>2. timeBounds[Slot(currentCounter)] = intended[currentCounter]
  BY <1>1 DEF QueueInvariant, EntriesHold, nextCounter, TypeOK
<1>3. ASSUME NEW g \in Fields
      PROVE  snapshot'[g] = intended[currentCounter][g]
  <2>1. g = f \/ g \notin toLoad
    BY DEF LoadField
  <2>2. CASE g = f
    BY <1>2, <2>2 DEF LoadField, TypeOK, Bounds
  <2>3. CASE g # f /\ g \notin toLoad
    BY <1>1, <2>3
       DEF LoadField, TypeOK, Bounds, QueueInvariant, CallHolds
  <2>4. QED
    BY <2>1, <2>2, <2>3
<1>4. snapshot' \in [Fields -> Times]
  BY DEF TypeOK, Bounds
<1>5. intended[currentCounter] \in [Fields -> Times]
  BY <1>1 DEF TypeOK, Windows, Bounds
<1>6. QED
  BY <1>3, <1>4, <1>5

LEMMA LastLoadCaptures ==
  ASSUME TypeOK, QueueInvariant, TypeOK', CallHolds',
         NEW f \in Fields, LoadField(f)
  PROVE  UNCHANGED Register!vars \/ Register!Capture
<1> USE QueueAssumption
<1>1. /\ UNCHANGED <<queueCounter, intended, currentCounter, tries, called>>
      /\ reader = "copy"
      /\ outcome = "none"
      /\ currentCounter \in 0 .. queueCounter
  BY DEF LoadField, writerVars, TypeOK, QueueInvariant, CallHolds
<1>2. CASE toLoad' # {}
  BY <1>1, <1>2 DEF LoadField, Register!vars, ZeroBounds
<1>3. CASE toLoad' = {}
  <2>1. reader' = "idle" /\ outcome' = "captured"
    BY <1>3 DEF LoadField
  <2>2. snapshot' \in [Fields -> Times]
    BY DEF TypeOK, Bounds
  <2>3. queueCounter - currentCounter < QueueSize - 1 =>
          snapshot' = intended[currentCounter]
    BY <1>3, LastLoadCompletes
  <2>4. [k \in 0 .. queueCounter |-> intended[k]][currentCounter]
          = intended[currentCounter]
    BY <1>1
  <2>5. QED
    BY <1>1, <2>1, <2>2, <2>3, <2>4, RegisterValues
       DEF Register!Capture, Bounds
<1>4. QED
  BY <1>2, <1>3

(* For every size of the queue and every interleaving: getTimeBounds       *)
(* captures what was published at an instant of the call, unless it is     *)
(* overtaken, and gives up only if it is overtaken in every iteration.     *)
THEOREM QueueImplementsRegister == Spec => ImplementsRegister
<1> USE QueueAssumption
<1>1. Init => Register!Init
  <2> SUFFICES ASSUME Init
               PROVE  Register!Init
    OBVIOUS
  <2>1. [k \in 0 .. queueCounter |-> intended[k]]
          = [k \in 0 .. 0 |-> ZeroBounds]
    BY DEF Init
  <2>2. QED
    BY <2>1, RegisterValues DEF Init, Register!Init
<1>2. ASSUME TypeOK, TypeOK', QueueInvariant, QueueInvariant', [Next]_vars
      PROVE  [Register!Next]_Register!vars
  <2> USE <1>2
  <2>1. CASE SetTimeBounds
    BY <2>1, StoringIsInvisible, IncrementPublishes
       DEF SetTimeBounds, Register!Next
  <2>2. CASE CallGetTimeBounds
    <3>1. Register!Call
      BY <2>2, RegisterValues
         DEF CallGetTimeBounds, Register!Call, writerVars
    <3>2. QED
      BY <3>1 DEF Register!Next
  <2>3. CASE LoadCounter
    <3>1. Register!Sample
      BY <2>3 DEF LoadCounter, Register!Sample, writerVars, ZeroBounds
    <3>2. QED
      BY <3>1 DEF Register!Next
  <2>4. CASE CheckPasses
    BY <2>4, CheckIsInvisible
  <2>5. CASE CheckFails
    BY <2>5, FailedCheckIsInvisibleOrGivesUp DEF Register!Next
  <2>6. ASSUME NEW f \in Fields, LoadField(f)
        PROVE  [Register!Next]_Register!vars
    BY <2>6, LastLoadCaptures DEF QueueInvariant, Register!Next
  <2>7. CASE Reset
    <3>1. [k \in 0 .. queueCounter |-> intended[k]]'
            = [k \in 0 .. 0 |-> ZeroBounds]
      BY <2>7 DEF Reset
    <3>2. Register!Clear
      BY <2>7, <3>1, RegisterValues DEF Reset, Register!Clear
    <3>3. QED
      BY <3>2 DEF Register!Next
  <2>8. CASE UNCHANGED vars
    BY <2>8 DEF vars, writerVars, readerVars, Register!vars, ZeroBounds
  <2>9. QED
    BY <2>1, <2>2, <2>3, <2>4, <2>5, <2>6, <2>7, <2>8
       DEF Next, GetTimeBounds
<1>3. QED
  BY <1>1, <1>2, TypeCorrect, InvariantHolds, PTL
     DEF Spec, ImplementsRegister, Register!Spec
=============================================================================
