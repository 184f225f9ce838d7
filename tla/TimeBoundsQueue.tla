-------------------------- MODULE TimeBoundsQueue ---------------------------
(***************************************************************************)
(* The time bounds queue of TimestampedRingBuffer: how the writer thread   *)
(* publishes a pair of times (the setTimeBounds lambda of write) and how   *)
(* the reader thread takes a snapshot of the pair (getTimeBounds), one     *)
(* access to shared memory per step.                                       *)
(*                                                                         *)
(* startTime_ and endTime_ are plain fields that both threads access: a    *)
(* data race.  Either side may touch the two in any order, and each access *)
(* is a step, which gives every mixture of old and new fields the build    *)
(* can produce on a machine whose 64-bit accesses do not tear.             *)
(***************************************************************************)
EXTENDS Integers

CONSTANTS
  QueueSize,  \* timeBoundsQueueSize, 32 in the code
  MaxTries,   \* iterations of the loop of getTimeBounds, 8 in the code
  Times,      \* the sample times the writer publishes
  MaxUpdates  \* a bound on timeBoundsQueueCounter_ between two resets

ASSUME QueueAssumption ==
  /\ QueueSize \in Nat \ {0}
  /\ MaxTries \in Nat \ {0}
  /\ MaxUpdates \in Nat
  /\ Times \subseteq Nat
  /\ 0 \in Times

VARIABLES
  \* shared memory
  queueCounter,   \* timeBoundsQueueCounter_
  timeBounds,     \* timeBoundsQueue_[].startTime_ and endTime_
  updateCounter,  \* timeBoundsQueue_[].updateCounter_
  \* the writer thread
  writer,         \* "idle", or what setTimeBounds does next
  toStore,        \* the fields of the entry it has yet to store
  intended,       \* ghost: the bounds each counter value stands for
  \* the reader thread
  reader,         \* "idle", or what getTimeBounds does next
  tries,          \* the loop variable i
  currentCounter, \* the counter it loaded in this iteration
  toLoad,         \* the fields of the entry it has yet to load
  snapshot,       \* the out parameters startTime and endTime
  outcome,        \* how the last call ended
  called          \* ghost: queueCounter when the call was made

writerVars == <<writer, toStore, intended>>
readerVars ==
  <<reader, tries, currentCounter, toLoad, snapshot, outcome, called>>
vars == <<queueCounter, timeBounds, updateCounter, writerVars, readerVars>>

Fields == {"startTime", "endTime"}

Bounds == [Fields -> Times]

(* The pairs write publishes: it never passes an end before the start.     *)
Windows == {b \in Bounds : b["startTime"] <= b["endTime"]}

ZeroBounds == [f \in Fields |-> 0]

Slots == 0 .. QueueSize - 1

(* A counter masked with timeBoundsQueueMask.                              *)
Slot(counter) == counter % QueueSize

Init ==
  /\ queueCounter = 0
  /\ timeBounds = [i \in Slots |-> ZeroBounds]
  /\ updateCounter = [i \in Slots |-> 0]
  /\ writer = "idle"
  /\ toStore = {}
  /\ intended = [k \in 0 .. MaxUpdates |-> ZeroBounds]
  /\ reader = "idle"
  /\ tries = 0
  /\ currentCounter = 0
  /\ toLoad = {}
  /\ snapshot = ZeroBounds
  /\ outcome = "none"
  /\ called = 0

-----------------------------------------------------------------------------
(* The writer: setTimeBounds(startTime, endTime).  Only the writer changes  *)
(* queueCounter, so nextCounter stays queueCounter + 1 throughout.          *)

nextCounter == queueCounter + 1

BeginSet(b) ==
  /\ writer = "idle"
  /\ queueCounter < MaxUpdates
  /\ writer' = "store"
  /\ toStore' = Fields
  /\ intended' = [intended EXCEPT ![nextCounter] = b]
  /\ UNCHANGED <<queueCounter, timeBounds, updateCounter, readerVars>>

StoreField(f) ==
  /\ writer = "store"
  /\ f \in toStore
  /\ timeBounds' = [timeBounds EXCEPT
       ![Slot(nextCounter)] = [@ EXCEPT ![f] = intended[nextCounter][f]]]
  /\ toStore' = toStore \ {f}
  /\ UNCHANGED <<queueCounter, updateCounter, writer, intended, readerVars>>

(* Mutant: the counter may be stored before the fields it vouches for.     *)
StoreUpdateCounterFirst ==
  /\ writer = "store"
  /\ updateCounter' = [updateCounter EXCEPT ![Slot(nextCounter)] = nextCounter]
  /\ writer' = "publish"
  /\ toStore' = {}
  /\ UNCHANGED <<queueCounter, timeBounds, intended, readerVars>>

StoreUpdateCounter ==
  /\ writer = "store"
  /\ toStore = {}
  /\ updateCounter' = [updateCounter EXCEPT ![Slot(nextCounter)] = nextCounter]
  /\ writer' = "publish"
  /\ UNCHANGED <<queueCounter, timeBounds, toStore, intended, readerVars>>

IncrementCounter ==
  /\ writer = "publish"
  /\ queueCounter' = nextCounter
  /\ writer' = "idle"
  /\ UNCHANGED <<timeBounds, updateCounter, toStore, intended, readerVars>>

-----------------------------------------------------------------------------
(* The reader: getTimeBounds(startTime, endTime).                           *)

CallGetTimeBounds ==
  /\ reader = "idle"
  /\ reader' = "load"
  /\ tries' = 0
  /\ called' = queueCounter
  /\ snapshot' = ZeroBounds
  /\ outcome' = "none"
  /\ UNCHANGED <<queueCounter, timeBounds, updateCounter, writerVars,
                 currentCounter, toLoad>>

(* Mutant: the reader waits until the writer is outside.                   *)
LoadCounterOfIdle ==
  /\ reader = "load"
  /\ writer = "idle"
  /\ currentCounter' = queueCounter
  /\ reader' = "check"
  /\ UNCHANGED <<queueCounter, timeBounds, updateCounter, writerVars,
                 tries, toLoad, snapshot, outcome, called>>

LoadCounter ==
  /\ reader = "load"
  /\ currentCounter' = queueCounter
  /\ reader' = "check"
  /\ UNCHANGED <<queueCounter, timeBounds, updateCounter, writerVars,
                 tries, toLoad, snapshot, outcome, called>>

(* The entry carries the counter that led to it: load its fields.          *)
CheckPasses ==
  /\ reader = "check"
  /\ updateCounter[Slot(currentCounter)] = currentCounter
  /\ reader' = "copy"
  /\ toLoad' = Fields
  /\ UNCHANGED <<queueCounter, timeBounds, updateCounter, writerVars,
                 tries, currentCounter, snapshot, outcome, called>>

(* Mutants: one iteration too many, and the counter loaded before the loop. *)
CheckFailsOnceMore ==
  /\ reader = "check"
  /\ updateCounter[Slot(currentCounter)] # currentCounter
  /\ tries' = tries + 1
  /\ \/ /\ tries + 1 <= MaxTries
        /\ reader' = "load"
        /\ outcome' = outcome
     \/ /\ tries + 1 > MaxTries
        /\ reader' = "idle"
        /\ outcome' = "failed"
  /\ UNCHANGED <<queueCounter, timeBounds, updateCounter, writerVars,
                 currentCounter, toLoad, snapshot, called>>

CheckFailsWithoutReload ==
  /\ reader = "check"
  /\ updateCounter[Slot(currentCounter)] # currentCounter
  /\ tries' = tries + 1
  /\ \/ /\ tries + 1 < MaxTries
        /\ reader' = "check"
        /\ outcome' = outcome
     \/ /\ tries + 1 = MaxTries
        /\ reader' = "idle"
        /\ outcome' = "failed"
  /\ UNCHANGED <<queueCounter, timeBounds, updateCounter, writerVars,
                 currentCounter, toLoad, snapshot, called>>

(* It does not: one iteration of the loop has gone.                        *)
CheckFails ==
  /\ reader = "check"
  /\ updateCounter[Slot(currentCounter)] # currentCounter
  /\ tries' = tries + 1
  /\ \/ /\ tries + 1 < MaxTries
        /\ reader' = "load"
        /\ outcome' = outcome
     \/ /\ tries + 1 = MaxTries
        /\ reader' = "idle"
        /\ outcome' = "failed"
  /\ UNCHANGED <<queueCounter, timeBounds, updateCounter, writerVars,
                 currentCounter, toLoad, snapshot, called>>

(* Mutant: the fields are those of the latest entry, which was not checked. *)
LoadFieldOfLatest(f) ==
  /\ reader = "copy"
  /\ f \in toLoad
  /\ snapshot' = [snapshot EXCEPT ![f] = timeBounds[Slot(queueCounter)][f]]
  /\ toLoad' = toLoad \ {f}
  /\ \/ /\ toLoad' # {}
        /\ UNCHANGED <<reader, outcome>>
     \/ /\ toLoad' = {}
        /\ reader' = "idle"
        /\ outcome' = "captured"
  /\ UNCHANGED <<queueCounter, timeBounds, updateCounter, writerVars,
                 tries, currentCounter, called>>

LoadField(f) ==
  /\ reader = "copy"
  /\ f \in toLoad
  /\ snapshot' = [snapshot EXCEPT ![f] = timeBounds[Slot(currentCounter)][f]]
  /\ toLoad' = toLoad \ {f}
  /\ \/ /\ toLoad' # {}
        /\ UNCHANGED <<reader, outcome>>
     \/ /\ toLoad' = {}
        /\ reader' = "idle"
        /\ outcome' = "captured"
  /\ UNCHANGED <<queueCounter, timeBounds, updateCounter, writerVars,
                 tries, currentCounter, called>>

-----------------------------------------------------------------------------
(* reset(), and the same loop in allocate and deallocate: not thread safe,  *)
(* so both threads are outside the object.                                  *)
Reset ==
  /\ writer = "idle"
  /\ reader = "idle"
  /\ queueCounter' = 0
  /\ timeBounds' = [i \in Slots |-> ZeroBounds]
  /\ updateCounter' = [i \in Slots |-> 0]
  /\ intended' = [k \in 0 .. MaxUpdates |-> ZeroBounds]
  /\ tries' = 0
  /\ currentCounter' = 0
  /\ snapshot' = ZeroBounds
  /\ outcome' = "none"
  /\ called' = 0
  /\ UNCHANGED <<writer, toStore, reader, toLoad>>

SetTimeBounds ==
  \/ \E b \in Windows : BeginSet(b)
  \/ \E f \in Fields : StoreField(f)
  \/ StoreUpdateCounter
  \/ IncrementCounter

GetTimeBounds ==
  \/ CallGetTimeBounds
  \/ LoadCounter
  \/ CheckPasses
  \/ CheckFails
  \/ \E f \in Fields : LoadField(f)

Next == SetTimeBounds \/ GetTimeBounds \/ Reset

Spec == Init /\ [][Next]_vars

-----------------------------------------------------------------------------
(* Types of all the variables.  A call in progress has spent fewer than    *)
(* MaxTries iterations.  An entry, or a snapshot, may be a mixture of two  *)
(* windows and is then no window.                                          *)
TypeOK ==
  /\ queueCounter \in 0 .. MaxUpdates
  /\ timeBounds \in [Slots -> Bounds]
  /\ updateCounter \in [Slots -> Nat]
  /\ writer \in {"idle", "store", "publish"}
  /\ toStore \in SUBSET Fields
  /\ writer # "store" => toStore = {}
  /\ writer # "idle" => queueCounter < MaxUpdates
  /\ intended \in [0 .. MaxUpdates -> Windows]
  /\ reader \in {"idle", "load", "check", "copy"}
  /\ tries \in 0 .. MaxTries
  /\ reader # "idle" => tries < MaxTries /\ outcome = "none"
  /\ currentCounter \in 0 .. MaxUpdates
  /\ toLoad \in SUBSET Fields
  /\ (reader = "copy") <=> (toLoad # {})
  /\ snapshot \in Bounds
  /\ outcome \in {"none", "captured", "failed"}
  /\ called \in 0 .. MaxUpdates

(* Why the check of updateCounter_ is enough, until the reader is          *)
(* overtaken: an entry holds what was published under its counter, counter *)
(* included, until the writer comes round to it again, and the entry it is *)
(* at holds what it has stored so far.                                     *)
EntriesHold ==
  /\ \A k \in 0 .. queueCounter :
       nextCounter - k < QueueSize =>
         timeBounds[Slot(k)] = intended[k] /\ updateCounter[Slot(k)] = k
  /\ writer = "store" =>
       \A f \in Fields \ toStore :
         timeBounds[Slot(nextCounter)][f] = intended[nextCounter][f]
  /\ writer = "publish" =>
       /\ timeBounds[Slot(nextCounter)] = intended[nextCounter]
       /\ updateCounter[Slot(nextCounter)] = nextCounter

(* The reader has loaded the fields of the entry it is at, unless it was   *)
(* overtaken; and each iteration it has spent was one that it was.         *)
CallHolds ==
  /\ reader \in {"check", "copy"} => currentCounter <= queueCounter
  /\ reader = "copy" =>
       \A f \in Fields \ toLoad :
         queueCounter - currentCounter < QueueSize - 1 =>
           snapshot[f] = intended[currentCounter][f]
  /\ reader = "load" =>
       called + tries * (QueueSize - 1) <= queueCounter
  /\ reader \in {"check", "copy"} =>
       called + tries * (QueueSize - 1) <= currentCounter

QueueInvariant == EntriesHold /\ CallHolds

(* The queue implements the register: every snapshot getTimeBounds returns *)
(* was the published pair at an instant within the call, unless the writer *)
(* published QueueSize - 1 more pairs since; and it returns false only     *)
(* after being overtaken MaxTries times, QueueSize - 1 publications each.  *)
Register == INSTANCE BoundsRegister WITH
  count     <- queueCounter,
  published <- [k \in 0 .. queueCounter |-> intended[k]],
  reading   <- reader # "idle",
  called    <- called,
  sampled   <- IF reader = "load" /\ tries = 0 THEN called ELSE currentCounter,
  snapshot  <- IF outcome = "captured" THEN snapshot ELSE ZeroBounds,
  Slack     <- QueueSize - 1,
  Patience  <- MaxTries * (QueueSize - 1)

ImplementsRegister == Register!Spec

(* A call of getTimeBounds returns, by success or because it gives up,      *)
(* although the writer may stop between any two of its accesses, inside     *)
(* setTimeBounds too, or overtake every try: the loop does not wait.       *)
InCall == GetTimeBounds /\ reader # "idle"

CallsReturn == WF_vars(InCall) => (reader # "idle" ~> reader = "idle")

(* getTimeBounds returns true only with "a consistent snapshot of the time *)
(* bounds" (TimestampedRingBuffer.hpp:102): a pair that was published, and *)
(* that was not yet out of date when the call was made.                    *)
ConsistentSnapshot ==
  outcome = "captured" =>
    \E k \in called .. queueCounter : snapshot = intended[k]
=============================================================================
