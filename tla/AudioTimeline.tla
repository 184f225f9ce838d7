---------------------------- MODULE AudioTimeline ----------------------------
(***************************************************************************)
(* What TimestampedRingBuffer promises its two threads, without its ring:  *)
(* a window of timestamped audio that one thread extends and another reads.*)
(*                                                                         *)
(*  - A write first discards just what has to go to hold the newest        *)
(*    capacity frames, the ones it brings included, or everything when it  *)
(*    goes backwards in time; it then appends, in one step, silence up to  *)
(*    its first frame and its own frames.                                  *)
(*  - A read is of the window at one instant of the call.  What it asks    *)
(*    for outside that window is silence; what it asks for inside is the   *)
(*    audio of that time, unless a write discarded it during the call.     *)
(*  - A read that fails promises nothing.                                  *)
(***************************************************************************)
EXTENDS Integers

CONSTANTS
  Capacities, \* what allocate can make of the sizes it is asked for
  Takes,      \* the recordings written, so that no two frames are alike
  Silence,    \* a frame of zeros
  MaxTime     \* a bound on the sample times

VARIABLES
  capacity, \* in frames, 0 when nothing is allocated
  bounds,   \* the times the audio spans
  audio,    \* the audio, by time
  pending,  \* the write in progress
  reading,  \* whether a read is in progress
  sampled,  \* the times that read found in the window
  lost,     \* those of them a write has discarded since
  expected, \* what was there at all the times it asks for
  returned  \* what the last read returned, by time

vars == <<capacity, bounds, audio, pending, reading, sampled, lost, expected,
          returned>>

Times == 0 .. MaxTime

Frames == [take : Takes, time : Times] \cup {Silence}

Requests == [time : Times, count : 1 .. MaxTime]

Idle == [take |-> Silence, time |-> 0, count |-> 0]

Empty == [startTime |-> 0, endTime |-> 0]

Span(b) == b.startTime .. b.endTime - 1

TimesOf(r) == r.time .. r.time + r.count - 1

Larger(a, b) == IF a > b THEN a ELSE b

Nothing == [t \in {} |-> Silence]

Init ==
  /\ capacity = 0
  /\ bounds = Empty
  /\ audio = Nothing
  /\ pending = Idle
  /\ reading = FALSE
  /\ sampled = {}
  /\ lost = {}
  /\ expected = Nothing
  /\ returned = Nothing

(* Make room for the write w.                                              *)
BeginWrite(w) ==
  /\ pending = Idle
  /\ w.count <= capacity
  /\ pending' = w
  /\ \/ /\ w.time < bounds.endTime
        /\ bounds' = [startTime |-> w.time, endTime |-> w.time]
     \/ LET start == Larger(bounds.startTime, w.time + w.count - capacity)
        IN  /\ w.time >= bounds.endTime
            /\ bounds' = [startTime |-> start,
                          endTime   |-> Larger(start, bounds.endTime)]
  /\ audio' = [t \in Span(bounds') |-> audio[t]]
  /\ lost' = lost \cup (sampled \ Span(bounds'))
  /\ UNCHANGED <<capacity, reading, sampled, expected, returned>>

EndWrite ==
  /\ pending # Idle
  /\ pending' = Idle
  /\ bounds' = [bounds EXCEPT !.endTime = pending.time + pending.count]
  /\ audio' = [t \in Span(bounds') |->
                 IF t \in Span(bounds) THEN audio[t]
                 ELSE IF t \in TimesOf(pending)
                   THEN [take |-> pending.take, time |-> t]
                   ELSE Silence]
  /\ UNCHANGED <<capacity, reading, sampled, lost, expected, returned>>

(* Sample the window for the times r asks for.                             *)
Sample(r) ==
  /\ ~reading
  /\ r.count <= capacity
  /\ lost' = {}
  /\ expected' = [t \in TimesOf(r) |->
                    IF t \in Span(bounds) THEN audio[t] ELSE Silence]
  /\ UNCHANGED <<capacity, bounds, audio, pending>>

BeginRead(r) ==
  /\ Sample(r)
  /\ reading' = TRUE
  /\ sampled' = TimesOf(r) \cap Span(bounds)
  /\ returned' = Nothing

(* Nothing of what r asks for is there: the call returns at once.          *)
ReadSilence(r) ==
  /\ Sample(r)
  /\ TimesOf(r) \cap Span(bounds) = {}
  /\ reading' = FALSE
  /\ sampled' = {}
  /\ returned' = expected'

EndRead ==
  /\ reading
  /\ reading' = FALSE
  /\ sampled' = {}
  /\ lost' = {}
  /\ returned' \in [DOMAIN expected -> Frames]
  /\ \A t \in DOMAIN expected \ lost : returned'[t] = expected[t]
  /\ UNCHANGED <<capacity, bounds, audio, pending, expected>>

FailRead ==
  /\ reading
  /\ reading' = FALSE
  /\ sampled' = {}
  /\ lost' = {}
  /\ expected' = Nothing
  /\ returned' = Nothing
  /\ UNCHANGED <<capacity, bounds, audio, pending>>

(* Neither thread is in a call: the audio goes.                            *)
Clear ==
  /\ pending = Idle
  /\ ~reading
  /\ capacity' \in Capacities \cup {0}
  /\ bounds' = Empty
  /\ audio' = Nothing
  /\ UNCHANGED <<pending, reading, sampled, lost, expected, returned>>

Next ==
  \/ \E w \in [time : Times, count : 1 .. MaxTime, take : Takes] :
       BeginWrite(w)
  \/ EndWrite
  \/ \E r \in Requests : BeginRead(r) \/ ReadSilence(r)
  \/ EndRead
  \/ FailRead
  \/ Clear

Spec == Init /\ [][Next]_vars
=============================================================================
