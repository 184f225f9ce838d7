--------------------------- MODULE BoundsRegister ---------------------------
(***************************************************************************)
(* What the time bounds queue of TimestampedRingBuffer promises, without   *)
(* its queue: a register one thread publishes time bounds to and another   *)
(* takes a snapshot of.                                                    *)
(*                                                                         *)
(*  - A snapshot is the value that was published last at some instant      *)
(*    between the call and the return, unless Slack or more values were    *)
(*    published since that instant; nothing is promised of it then.        *)
(*  - The reader gives up only if Patience values were published during    *)
(*    the call, however slow it was.                                       *)
(*                                                                         *)
(* TimeBoundsQueue implements this specification with                      *)
(* Slack = QueueSize - 1 and Patience = MaxTries * (QueueSize - 1).        *)
(***************************************************************************)
EXTENDS Naturals

CONSTANTS
  Times,      \* the sample times
  MaxUpdates, \* how many values are published between two clears (a bound)
  Slack,      \* publications a snapshot in progress is sure to survive
  Patience    \* publications during a call before it may give up

VARIABLES
  count,      \* the number of values published since the last clear
  published,  \* the values published, by publication number
  reading,    \* a call is in progress
  called,     \* count when that call was made
  sampled,    \* the publication the call is taking a snapshot of
  outcome,    \* how the last call ended
  snapshot    \* what it returned, when it captured something

vars == <<count, published, reading, called, sampled, outcome, snapshot>>

Fields == {"startTime", "endTime"}

Bounds == [Fields -> Times]

Windows == {b \in Bounds : b["startTime"] <= b["endTime"]}

ZeroBounds == [f \in Fields |-> 0]

Init ==
  /\ count = 0
  /\ published = [k \in 0 .. 0 |-> ZeroBounds]
  /\ reading = FALSE
  /\ called = 0
  /\ sampled = 0
  /\ outcome = "none"
  /\ snapshot = ZeroBounds

Publish ==
  /\ count < MaxUpdates
  /\ count' = count + 1
  /\ \E b \in Windows :
       published' = [k \in 0 .. count + 1 |->
                       IF k = count + 1 THEN b ELSE published[k]]
  /\ UNCHANGED <<reading, called, sampled, outcome, snapshot>>

Call ==
  /\ ~reading
  /\ reading' = TRUE
  /\ called' = count
  /\ sampled' = count
  /\ outcome' = "none"
  /\ snapshot' = ZeroBounds
  /\ UNCHANGED <<count, published>>

(* The call turns to the value that is the last one published now.         *)
Sample ==
  /\ reading
  /\ sampled' = count
  /\ UNCHANGED <<count, published, reading, called, outcome, snapshot>>

Capture ==
  /\ reading
  /\ reading' = FALSE
  /\ outcome' = "captured"
  /\ snapshot' \in Bounds
  /\ count - sampled < Slack => snapshot' = published[sampled]
  /\ UNCHANGED <<count, published, called, sampled>>

GiveUp ==
  /\ reading
  /\ count - called >= Patience
  /\ reading' = FALSE
  /\ outcome' = "failed"
  /\ UNCHANGED <<count, published, called, sampled, snapshot>>

Clear ==
  /\ ~reading
  /\ count' = 0
  /\ published' = [k \in 0 .. 0 |-> ZeroBounds]
  /\ called' = 0
  /\ sampled' = 0
  /\ outcome' = "none"
  /\ snapshot' = ZeroBounds
  /\ UNCHANGED reading

Next ==
  \/ Publish
  \/ Call
  \/ Sample
  \/ Capture
  \/ GiveUp
  \/ Clear

Spec == Init /\ [][Next]_vars
=============================================================================
