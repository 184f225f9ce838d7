----------------------------- MODULE FrameLists ------------------------------
(***************************************************************************)
(* What BufferList promises its owner, without its memory: lists of frames *)
(* that are edited in place, each up to a capacity.                        *)
(*                                                                         *)
(*  - An insertion puts in as many frames as were asked for, there are to  *)
(*    take and there is room for; it moves the frames after them up, and   *)
(*    changes no other list.  It may be from a list into itself; which     *)
(*    frames go in is promised only if those asked for start where they    *)
(*    are to go, or lie before that place altogether.                      *)
(*  - A trim closes the gap it leaves.                                     *)
(*  - A longer frame length keeps the frames there are; what comes after   *)
(*    them is not promised.                                                *)
(***************************************************************************)
EXTENDS Integers

CONSTANTS
  Lists,      \* the buffer lists
  Formats,    \* the audio formats
  NoFormat,   \* the format of a list without a buffer
  Signed,     \* the formats whose zeros are silence
  Capacities, \* the capacities asked for
  Counts,     \* the other frame counts and offsets asked for
  Frames,     \* the frames of audio
  Silence     \* a frame of zeros

VARIABLES
  format,   \* of each list
  capacity, \* in frames
  length,   \* in frames
  contents  \* the frames, by offset

vars == <<format, capacity, length, contents>>

Least(a, b) == IF a < b THEN a ELSE b

Nothing == [i \in 0 .. -1 |-> Silence]

Init ==
  /\ format = [l \in Lists |-> NoFormat]
  /\ capacity = [l \in Lists |-> 0]
  /\ length = [l \in Lists |-> 0]
  /\ contents = [l \in Lists |-> Nothing]

(* The list l becomes an empty one.                                        *)
Renew(l, f, c) ==
  /\ format' = [format EXCEPT ![l] = f]
  /\ capacity' = [capacity EXCEPT ![l] = c]
  /\ length' = [length EXCEPT ![l] = 0]
  /\ contents' = [contents EXCEPT ![l] = Nothing]

Allocate(l) == \E f \in Formats, c \in Capacities : Renew(l, f, c)

Drop(l) == Renew(l, NoFormat, 0)

(* The list l takes over what m is, and m is empty.                        *)
Move(l, m) ==
  /\ l # m
  /\ format' = [format EXCEPT ![l] = format[m], ![m] = NoFormat]
  /\ capacity' = [capacity EXCEPT ![l] = capacity[m], ![m] = 0]
  /\ length' = [length EXCEPT ![l] = length[m], ![m] = 0]
  /\ contents' = [contents EXCEPT ![l] = contents[m], ![m] = Nothing]

(* Only the list l changes, and has n frames.                              *)
Edit(l, n) ==
  /\ length' = [length EXCEPT ![l] = n]
  /\ contents' = [contents EXCEPT ![l] = contents'[l]]
  /\ contents'[l] \in [0 .. n - 1 -> Frames]
  /\ UNCHANGED <<format, capacity>>

SetLength(l) ==
  \E n \in 0 .. capacity[l] :
    /\ Edit(l, n)
    /\ \A i \in 0 .. Least(n, length[l]) - 1 : contents'[l][i] = contents[l][i]

(* The owner of the list writes over its frames.                           *)
Overwrite(l) == Edit(l, length[l])

(* Room for k frames opens at w.                                           *)
Open(l, w, k) ==
  /\ w <= length[l]
  /\ k > 0
  /\ Edit(l, length[l] + k)
  /\ \A i \in 0 .. w - 1 : contents'[l][i] = contents[l][i]
  /\ \A i \in w .. length[l] - 1 : contents'[l][i + k] = contents[l][i]

Insert(l, m, r, n, w) ==
  LET k == Least(capacity[l] - length[l], Least(n, length[m] - r)) IN
  /\ format[l] = format[m]
  /\ r <= length[m]
  /\ Open(l, w, k)
  /\ l # m \/ r = w \/ r + k <= w =>
       \A j \in 0 .. k - 1 : contents'[l][w + j] = contents[m][r + j]

InsertSilence(l, o, n) ==
  LET k == Least(capacity[l] - length[l], n) IN
  /\ format[l] \in Signed
  /\ Open(l, o, k)
  /\ \A j \in 0 .. k - 1 : contents'[l][o + j] = Silence

Trim(l, o, n) ==
  LET k == Least(n, length[l] - o) IN
  /\ o <= length[l]
  /\ Edit(l, length[l] - k)
  /\ \A i \in 0 .. o - 1 : contents'[l][i] = contents[l][i]
  /\ \A i \in o .. length[l] - k - 1 : contents'[l][i] = contents[l][i + k]

Next ==
  \E l \in Lists :
    \/ Allocate(l)
    \/ Drop(l)
    \/ SetLength(l)
    \/ Overwrite(l)
    \/ \E m \in Lists : Move(l, m)
    \/ \E o, n \in Counts : InsertSilence(l, o, n) \/ Trim(l, o, n)
    \/ \E m \in Lists, r, n, w \in Counts : Insert(l, m, r, n, w)

Spec == Init /\ [][Next]_vars
=============================================================================
