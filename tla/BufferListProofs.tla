--------------------------- MODULE BufferListProofs ---------------------------
(***************************************************************************)
(* Proofs about BufferList, for any lists, heap, formats and capacities.   *)
(***************************************************************************)
EXTENDS BufferList, TLAPS

IInv == TypeOK /\ OwnedOnce /\ ListInvariant

(* A copy of frames within a block leaves a block of frames.               *)
LEMMA CopiedFrames ==
  ASSUME NEW c \in Nat, NEW target \in [0 .. c - 1 -> Frames],
         NEW to \in Nat, NEW from \in Nat, NEW n \in Int, NEW source,
         \A i \in from .. from + n - 1 : source[i] \in Frames
  PROVE  Copied(target, to, source, from, n) \in [0 .. c - 1 -> Frames]
<1> SUFFICES ASSUME NEW i \in 0 .. c - 1
             PROVE  (IF i \in to .. to + n - 1
                       THEN source[i - to + from] ELSE target[i]) \in Frames
  BY DEF Copied
<1>1. CASE i \in to .. to + n - 1
  <2>1. i - to + from \in from .. from + n - 1
    BY <1>1
  <2>2. QED
    BY <1>1, <2>1
<1>2. CASE i \notin to .. to + n - 1
  BY <1>2
<1>3. QED
  BY <1>1, <1>2

(* What a copy makes of each offset.                                       *)
LEMMA CopiedAt ==
  ASSUME NEW c \in Nat, NEW target, DOMAIN target = 0 .. c - 1,
         NEW to \in Nat, NEW from \in Nat, NEW n \in Int, NEW source,
         NEW i \in 0 .. c - 1
  PROVE  Copied(target, to, source, from, n)[i] =
           IF i \in to .. to + n - 1 THEN source[i - to + from] ELSE target[i]
BY DEF Copied

(* A list that an action does not touch stays sound, unless it touches the *)
(* list's block.                                                           *)
LEMMA UntouchedSound ==
  ASSUME NEW m \in Lists, Sound(m),
         block'[m] = block[m], format'[m] = format[m],
         capacity'[m] = capacity[m], length'[m] = length[m],
         block[m] # NULL =>
           /\ frames'[block[m]] = frames[block[m]]
           /\ byteSize'[block[m]] = byteSize[block[m]]
           /\ block[m] \in loose => block[m] \in loose'
  PROVE  Sound(m)'
<1>1. CASE block[m] = NULL
  BY <1>1 DEF Sound
<1>2. CASE block[m] # NULL
  <2>1. Described(m)
    BY <1>2 DEF Sound
  <2>2. Described(m)'
    BY <1>2, <2>1 DEF Described, WholeFrames
  <2>3. QED
    BY <1>2, <2>2 DEF Sound
<1>3. QED
  BY <1>1, <1>2

(* A list with a block is sound for what the invariant says of it.         *)
LEMMA OwnBlock ==
  ASSUME IInv, NEW l \in Lists, block[l] # NULL
  PROVE  /\ Described(l)
         /\ block[l] \in Blocks
         /\ block[l] \notin held \cup freed
         /\ capacity[l] \in Nat
         /\ length[l] \in Nat
         /\ format[l] \in Formats
         /\ BytesPerFrame[format[l]] \in Nat \ {0}
         /\ \A m \in Lists \ {l} : block[m] # block[l]
BY ListAssumption DEF IInv, TypeOK, OwnedOnce, ListInvariant, Sound, Described

(* An action that changes the block of one list, and that list's length.   *)
LEMMA EditSound ==
  ASSUME IInv, NEW l \in Lists, block[l] # NULL,
         NEW n \in Nat,
         DOMAIN frames' = Blocks,
         DOMAIN byteSize' = Blocks,
         \A b \in Blocks \ {block[l]} :
           frames'[b] = frames[b] /\ byteSize'[b] = byteSize[b],
         length' = [length EXCEPT ![l] = n],
         UNCHANGED <<block, format, capacity, held, freed>>,
         loose' \in {loose \ {block[l]}, loose \cup {block[l]}},
         Described(l)'
  PROVE  IInv'
<1>1. TypeOK'
  BY OwnBlock DEF IInv, TypeOK
<1>2. OwnedOnce'
  BY DEF IInv, OwnedOnce
<1>3. ASSUME NEW m \in Lists
      PROVE  Sound(m)'
  <2>1. CASE m = l
    BY <2>1 DEF Sound
  <2>2. CASE m # l
    <3>1. Sound(m)
      BY DEF IInv, ListInvariant
    <3>2. block[m] # block[l]
      BY <2>2, OwnBlock
    <3>3. /\ DOMAIN frames = Blocks
          /\ DOMAIN byteSize = Blocks
          /\ length \in [Lists -> Nat]
          /\ block[m] \in Blocks \cup {NULL}
      BY DEF IInv, TypeOK
    <3>4. block[m] # NULL =>
            /\ frames'[block[m]] = frames[block[m]]
            /\ byteSize'[block[m]] = byteSize[block[m]]
            /\ block[m] \in loose => block[m] \in loose'
      BY <3>2, <3>3
    <3>5. length'[m] = length[m]
      BY <2>2, <3>3
    <3>6. QED
      BY <3>1, <3>4, <3>5, UntouchedSound
  <2>3. QED
    BY <2>1, <2>2
<1>4. ListInvariant'
  BY <1>3 DEF ListInvariant
<1>5. QED
  BY <1>1, <1>2, <1>4 DEF IInv

-----------------------------------------------------------------------------
(* Each operation keeps the invariant.                                     *)

(* The invariant from its three parts, the last one list by list.          *)
LEMMA Together ==
  ASSUME TypeOK', OwnedOnce', \A m \in Lists : Sound(m)'
  PROVE  IInv'
BY DEF IInv, ListInvariant

LEMMA AllocateKeeps ==
  ASSUME IInv, NEW l \in Lists, NEW f \in Formats, NEW c \in Capacities,
         Allocate(l, f, c)
  PROVE  IInv'
<1>1. PICK b \in FreedWith(block[l]) :
        /\ block' = [block EXCEPT ![l] = b]
        /\ format' = [format EXCEPT ![l] = f]
        /\ capacity' = [capacity EXCEPT ![l] = c]
        /\ length' = [length EXCEPT ![l] = 0]
        /\ frames' = [Emptied(frames, block[l]) EXCEPT
                        ![b] = [i \in 0 .. c - 1 |-> Silence]]
        /\ byteSize' = [Emptied(byteSize, block[l]) EXCEPT ![b] = SizesOf(f, c)]
        /\ freed' = FreedWith(block[l]) \ {b}
        /\ loose' = (loose \ {block[l]}) \cup {b}
        /\ held' = held
  BY DEF Allocate
<1>2. TypeOK /\ OwnedOnce /\ c \in Nat /\ c > 0
  BY ListAssumption DEF IInv
<1>3. b \in Blocks /\ b # NULL /\ b \notin held
  BY <1>1, <1>2, ListAssumption DEF FreedWith, TypeOK, OwnedOnce
<1>4. \A m \in Lists \ {l} : block[m] # b
  BY <1>1, <1>2, <1>3 DEF FreedWith, OwnedOnce
<1>5. TypeOK'
  BY <1>1, <1>2, <1>3 DEF TypeOK, FreedWith, Emptied
<1>6. OwnedOnce'
  <2>1. \A m \in Lists : block'[m] = IF m = l THEN b ELSE block[m]
    BY <1>1, <1>2 DEF TypeOK
  <2>2. \A m \in Lists : block'[m] \notin held' \cup freed'
    BY <1>1, <1>2, <1>3, <2>1 DEF FreedWith, OwnedOnce
  <2>3. \A m, k \in Lists : m # k /\ block'[m] = block'[k] => block'[m] = NULL
    BY <1>2, <1>4, <2>1 DEF OwnedOnce
  <2>4. held' \cap freed' = {}
    BY <1>1, <1>2 DEF FreedWith, OwnedOnce
  <2>5. ASSUME NEW d \in Blocks \ (held' \cup freed')
        PROVE  \E m \in Lists : block'[m] = d
    <3>1. CASE d = b
      BY <3>1, <2>1
    <3>2. CASE d # b
      <4>1. d \notin held \cup freed /\ d # block[l]
        BY <3>2, <1>1, <2>5, ListAssumption DEF FreedWith
      <4>2. QED
        BY <4>1, <1>2, <2>1 DEF OwnedOnce
    <3>3. QED
      BY <3>1, <3>2
  <2>6. QED
    BY <2>2, <2>3, <2>4, <2>5 DEF OwnedOnce
<1>7. ASSUME NEW m \in Lists
      PROVE  Sound(m)'
  <2>1. CASE m = l
    <3>1. /\ block'[l] = b
          /\ format'[l] = f
          /\ capacity'[l] = c
          /\ length'[l] = 0
          /\ b \in loose'
      BY <1>1, <1>2 DEF TypeOK
    <3>2. frames'[b] = [i \in 0 .. c - 1 |-> Silence]
      BY <1>1, <1>3 DEF Emptied
    <3>3. byteSize'[b] = SizesOf(f, c)
      BY <1>1, <1>3 DEF Emptied
    <3>4. SizesOf(f, c) \in [Buffers(f) -> Nat]
      BY <1>2, ListAssumption DEF SizesOf
    <3>5. [i \in 0 .. c - 1 |-> Silence] \in [0 .. c - 1 -> Frames]
      BY DEF Frames
    <3>6. Described(l)'
      BY <1>2, <3>1, <3>2, <3>3, <3>4, <3>5 DEF Described
    <3>7. QED
      BY <2>1, <1>3, <3>1, <3>6 DEF Sound
  <2>2. CASE m # l
    <3>1. Sound(m)
      BY DEF IInv, ListInvariant
    <3>2. block[m] # NULL =>
            /\ block[m] \in Blocks
            /\ block[m] # b
            /\ block[m] # block[l]
      BY <1>2, <1>4, <2>2 DEF TypeOK, OwnedOnce
    <3>3. block[m] # NULL =>
            /\ frames'[block[m]] = frames[block[m]]
            /\ byteSize'[block[m]] = byteSize[block[m]]
            /\ block[m] \in loose => block[m] \in loose'
      BY <1>1, <3>2 DEF Emptied
    <3>4. /\ block'[m] = block[m]
          /\ format'[m] = format[m]
          /\ capacity'[m] = capacity[m]
          /\ length'[m] = length[m]
      BY <1>1, <1>2, <2>2 DEF TypeOK
    <3>5. QED
      BY <3>1, <3>3, <3>4, UntouchedSound
  <2>3. QED
    BY <2>1, <2>2
<1>8. QED
  BY <1>5, <1>6, <1>7, Together

(* What remains of a list that lets go of its block.                       *)
LEMMA ClearedSound ==
  ASSUME IInv, NEW l \in Lists, Cleared(l),
         \A m \in Lists \ {l} : block[m] # NULL =>
           /\ frames'[block[m]] = frames[block[m]]
           /\ byteSize'[block[m]] = byteSize[block[m]]
           /\ block[m] \in loose => block[m] \in loose'
  PROVE  \A m \in Lists : Sound(m)'
<1> SUFFICES ASSUME NEW m \in Lists
             PROVE  Sound(m)'
  OBVIOUS
<1>1. TypeOK /\ Sound(m)
  BY DEF IInv, ListInvariant
<1>2. CASE m = l
  BY <1>1, <1>2 DEF Cleared, Sound, TypeOK
<1>3. CASE m # l
  <2>1. /\ block'[m] = block[m]
        /\ format'[m] = format[m]
        /\ capacity'[m] = capacity[m]
        /\ length'[m] = length[m]
    BY <1>1, <1>3 DEF Cleared, TypeOK
  <2>2. QED
    BY <1>1, <1>3, <2>1, UntouchedSound
<1>4. QED
  BY <1>2, <1>3

(* std::free spares every other block.                                     *)
LEMMA FreeSpares ==
  ASSUME NEW b, Free(b), NEW d \in Blocks \ {b}
  PROVE  /\ frames'[d] = frames[d]
         /\ byteSize'[d] = byteSize[d]
         /\ d \in loose => d \in loose'
BY DEF Free, Emptied

LEMMA DeallocateKeeps ==
  ASSUME IInv, NEW l \in Lists, Deallocate(l)
  PROVE  IInv'
<1>1. TypeOK /\ OwnedOnce /\ block[l] # NULL
  BY DEF IInv, Deallocate
<1>2. \A m \in Lists : block'[m] = IF m = l THEN NULL ELSE block[m]
  BY <1>1 DEF Deallocate, Cleared, TypeOK
<1>3. freed' = freed \cup {block[l]} /\ held' = held
  BY <1>1 DEF Deallocate, Free, FreedWith
<1>4. TypeOK'
  BY <1>1, <1>3 DEF TypeOK, Deallocate, Cleared, Free, Emptied
<1>5. OwnedOnce'
  <2>1. block[l] \notin held /\ NULL \notin held \cup freed \cup {block[l]}
    BY <1>1, ListAssumption DEF OwnedOnce, TypeOK
  <2>2. \A m \in Lists : block'[m] \notin held' \cup freed'
    BY <1>1, <1>2, <1>3, <2>1 DEF OwnedOnce
  <2>3. \A m, k \in Lists : m # k /\ block'[m] = block'[k] => block'[m] = NULL
    BY <1>1, <1>2 DEF OwnedOnce
  <2>4. \A d \in Blocks \ (held' \cup freed') : \E m \in Lists : block'[m] = d
    BY <1>1, <1>2, <1>3 DEF OwnedOnce
  <2>5. QED
    BY <1>1, <1>3, <2>1, <2>2, <2>3, <2>4 DEF OwnedOnce
<1>6. \A m \in Lists \ {l} : block[m] # NULL =>
        block[m] \in Blocks \ {block[l]}
  BY <1>1 DEF TypeOK, OwnedOnce
<1>7. \A m \in Lists : Sound(m)'
  BY <1>6, FreeSpares, ClearedSound DEF Deallocate
<1>8. QED
  BY <1>4, <1>5, <1>7, Together

LEMMA ReleaseKeeps ==
  ASSUME IInv, NEW l \in Lists, Release(l)
  PROVE  IInv'
<1>1. TypeOK /\ OwnedOnce /\ block[l] # NULL
  BY DEF IInv, Release
<1>2. \A m \in Lists : block'[m] = IF m = l THEN NULL ELSE block[m]
  BY <1>1 DEF Release, Cleared, TypeOK
<1>3. held' = held \cup {block[l]} /\ freed' = freed
  BY DEF Release
<1>4. TypeOK'
  BY <1>1, <1>3 DEF TypeOK, Release, Cleared
<1>5. OwnedOnce'
  <2>1. block[l] \notin freed /\ NULL \notin held \cup freed \cup {block[l]}
    BY <1>1, ListAssumption DEF OwnedOnce, TypeOK
  <2>2. \A m \in Lists : block'[m] \notin held' \cup freed'
    BY <1>1, <1>2, <1>3, <2>1 DEF OwnedOnce
  <2>3. \A m, k \in Lists : m # k /\ block'[m] = block'[k] => block'[m] = NULL
    BY <1>1, <1>2 DEF OwnedOnce
  <2>4. \A d \in Blocks \ (held' \cup freed') : \E m \in Lists : block'[m] = d
    BY <1>1, <1>2, <1>3 DEF OwnedOnce
  <2>5. QED
    BY <1>1, <1>3, <2>1, <2>2, <2>3, <2>4 DEF OwnedOnce
<1>6. \A m \in Lists : Sound(m)'
  BY ClearedSound DEF Release
<1>7. QED
  BY <1>4, <1>5, <1>6, Together

LEMMA MoveKeeps ==
  ASSUME IInv, NEW l \in Lists, NEW m \in Lists, MoveFrom(l, m)
  PROVE  IInv'
<1>1. TypeOK /\ OwnedOnce /\ l # m
  BY DEF IInv, MoveFrom
<1>2. \A k \in Lists :
        block'[k] = IF k = m THEN NULL ELSE IF k = l THEN block[m] ELSE block[k]
  BY <1>1 DEF MoveFrom, TypeOK
<1>3. freed' = FreedWith(block[l]) /\ held' = held
  BY DEF MoveFrom, Free
<1>4. TypeOK'
  <2>1. /\ block' \in [Lists -> Blocks \cup {NULL}]
        /\ format' \in [Lists -> Formats \cup {NoFormat}]
        /\ capacity' \in [Lists -> Nat]
        /\ length' \in [Lists -> Nat]
    BY <1>1 DEF MoveFrom, TypeOK
  <2>2. /\ DOMAIN frames' = Blocks
        /\ DOMAIN byteSize' = Blocks
        /\ held' \subseteq Blocks
        /\ loose' \subseteq Blocks
    BY <1>1 DEF MoveFrom, TypeOK, Free, Emptied
  <2>3. freed' \subseteq Blocks
    BY <1>1, <1>3 DEF FreedWith, TypeOK
  <2>4. QED
    BY <2>1, <2>2, <2>3 DEF TypeOK
<1>5. OwnedOnce'
  <2>1. NULL \notin held \cup freed'
    BY <1>1, <1>3, ListAssumption DEF FreedWith, TypeOK
  <2>2. \A k \in Lists : block'[k] \notin held' \cup freed'
    BY <1>1, <1>2, <1>3, <2>1 DEF OwnedOnce, FreedWith
  <2>3. \A j, k \in Lists : j # k /\ block'[j] = block'[k] => block'[j] = NULL
    BY <1>1, <1>2 DEF OwnedOnce
  <2>4. held' \cap freed' = {}
    BY <1>1, <1>3 DEF FreedWith, OwnedOnce
  <2>5. ASSUME NEW d \in Blocks \ (held' \cup freed')
        PROVE  \E k \in Lists : block'[k] = d
    <3>1. d \notin held \cup freed /\ d # block[l] /\ d # NULL
      BY <2>5, <1>3, ListAssumption DEF FreedWith
    <3>2. PICK k \in Lists : block[k] = d
      BY <3>1, <1>1 DEF OwnedOnce
    <3>3. CASE k = m
      BY <3>2, <3>3, <1>1, <1>2
    <3>4. CASE k # m
      BY <3>1, <3>2, <3>4, <1>2
    <3>5. QED
      BY <3>3, <3>4
  <2>6. QED
    BY <2>2, <2>3, <2>4, <2>5 DEF OwnedOnce
<1>6. ASSUME NEW k \in Lists, k # l, block[k] # NULL
      PROVE  /\ frames'[block[k]] = frames[block[k]]
             /\ byteSize'[block[k]] = byteSize[block[k]]
             /\ block[k] \in loose => block[k] \in loose'
  <2>1. block[k] \in Blocks \ {block[l]}
    BY <1>1, <1>6 DEF TypeOK, OwnedOnce
  <2>2. QED
    BY <2>1, FreeSpares DEF MoveFrom
<1>7. ASSUME NEW k \in Lists
      PROVE  Sound(k)'
  <2>1. Sound(k) /\ Sound(m)
    BY DEF IInv, ListInvariant
  <2>2. CASE k = m
    BY <2>2, <1>1 DEF MoveFrom, Sound, TypeOK
  <2>3. CASE k = l
    <3>1. /\ block'[l] = block[m]
          /\ format'[l] = format[m]
          /\ capacity'[l] = capacity[m]
          /\ length'[l] = length[m]
      BY <1>1 DEF MoveFrom, TypeOK
    <3>2. CASE block[m] = NULL
      BY <2>1, <2>3, <3>1, <3>2 DEF Sound
    <3>3. CASE block[m] # NULL
      <4>1. Described(m)
        BY <2>1, <3>3 DEF Sound
      <4>2. Described(l)'
        BY <1>1, <1>6, <3>1, <3>3, <4>1 DEF Described, WholeFrames
      <4>3. QED
        BY <2>3, <3>1, <3>3, <4>2 DEF Sound
    <3>4. QED
      BY <3>2, <3>3
  <2>4. CASE k # m /\ k # l
    <3>1. /\ block'[k] = block[k]
          /\ format'[k] = format[k]
          /\ capacity'[k] = capacity[k]
          /\ length'[k] = length[k]
      BY <1>1, <2>4 DEF MoveFrom, TypeOK
    <3>2. QED
      BY <1>6, <2>1, <2>4, <3>1, UntouchedSound
  <2>5. QED
    BY <2>2, <2>3, <2>4
<1>8. QED
  BY <1>4, <1>5, <1>7, Together

(* The caller's dealings with blocks no list has.                          *)
LEMMA CallerSound ==
  ASSUME IInv, UNCHANGED listVars, NEW b \in held \cup freed,
         \A d \in Blocks \ {b} :
           /\ frames'[d] = frames[d]
           /\ byteSize'[d] = byteSize[d]
           /\ d \in loose => d \in loose'
  PROVE  \A m \in Lists : Sound(m)'
<1> SUFFICES ASSUME NEW m \in Lists
             PROVE  Sound(m)'
  OBVIOUS
<1>1. Sound(m) /\ TypeOK /\ OwnedOnce
  BY DEF IInv, ListInvariant
<1>2. block[m] # NULL => block[m] \in Blocks \ {b}
  BY <1>1 DEF TypeOK, OwnedOnce
<1>3. UNCHANGED <<block, format, capacity, length>>
  BY DEF listVars
<1>4. QED
  BY <1>1, <1>2, <1>3, UntouchedSound

LEMMA CallerFreesKeeps ==
  ASSUME IInv, NEW b \in Blocks, CallerFrees(b)
  PROVE  IInv'
<1>1. TypeOK /\ OwnedOnce /\ b \in held
  BY DEF IInv, CallerFrees
<1>2. /\ held' = held \ {b}
      /\ freed' = freed \cup {b}
      /\ UNCHANGED <<block, format, capacity, length>>
  BY ListAssumption DEF CallerFrees, Free, FreedWith, listVars
<1>3. TypeOK'
  BY <1>1, <1>2 DEF CallerFrees, TypeOK, Free, Emptied
<1>4. OwnedOnce'
  BY <1>1, <1>2 DEF OwnedOnce
<1>5. \A m \in Lists : Sound(m)'
  BY <1>1, FreeSpares, CallerSound DEF CallerFrees
<1>6. QED
  BY <1>3, <1>4, <1>5, Together

LEMMA CallerAllocatesKeeps ==
  ASSUME IInv, NEW f \in Formats, NEW c \in Capacities \cup {0},
         CallerAllocates(f, c)
  PROVE  IInv'
<1>1. TypeOK /\ OwnedOnce
  BY DEF IInv
<1>2. PICK b \in freed :
        /\ held' = held \cup {b}
        /\ frames' = [frames EXCEPT ![b] = [i \in 0 .. c - 1 |-> Silence]]
        /\ byteSize' = [byteSize EXCEPT ![b] = SizesOf(f, c)]
        /\ freed' = freed \ {b}
        /\ loose' = loose \cup {b}
        /\ UNCHANGED listVars
  BY DEF CallerAllocates
<1>3. UNCHANGED <<block, format, capacity, length>>
  BY <1>2 DEF listVars
<1>4. TypeOK'
  BY <1>1, <1>2, <1>3 DEF TypeOK
<1>5. OwnedOnce'
  BY <1>1, <1>2, <1>3 DEF OwnedOnce
<1>6. \A m \in Lists : Sound(m)'
  <2>1. \A d \in Blocks \ {b} :
          /\ frames'[d] = frames[d]
          /\ byteSize'[d] = byteSize[d]
          /\ d \in loose => d \in loose'
    BY <1>1, <1>2 DEF TypeOK
  <2>2. QED
    BY <1>2, <2>1, CallerSound
<1>7. QED
  BY <1>4, <1>5, <1>6, Together

(* adopt accepts no list, whatever its buffers, format and sizes, since    *)
(* the condition it tests for the number of buffers is never zero.         *)
THEOREM AdoptRefusesAll ==
  ASSUME NEW b, NEW f \in Formats, NEW c, NEW n
  PROVE  ~Accepts(b, f, c, n)
<1>1. Channels[f] # 0
  BY ListAssumption
<1>2. RefusesBuffers(b, f)
  BY <1>1 DEF RefusesBuffers
<1>3. QED
  BY <1>2 DEF Accepts

-----------------------------------------------------------------------------
(* Lengths, sizes and edits.                                               *)

(* setFrameLength, with whatever frames the block has got.                 *)
LEMMA SetLengthKeeps ==
  ASSUME IInv, NEW l \in Lists, block[l] # NULL,
         NEW n \in 0 .. capacity[l],
         DOMAIN frames' = Blocks,
         \A b \in Blocks \ {block[l]} : frames'[b] = frames[b],
         frames'[block[l]] \in [0 .. capacity[l] - 1 -> Frames],
         SetLength(l, n)
  PROVE  IInv'
<1> DEFINE bytes == n * BytesPerFrame[format[l]]
           bs == [i \in Buffers(format[l]) |-> bytes]
<1>1. TypeOK /\ n \in Nat
  BY OwnBlock DEF IInv
<1>2. DOMAIN byteSize[block[l]] = Buffers(format[l])
  BY OwnBlock DEF Described
<1>3. bytes \in Nat
  BY <1>1, OwnBlock
<1>4. byteSize' = [byteSize EXCEPT ![block[l]] = bs]
  BY <1>1, <1>2, OwnBlock DEF SetLength, TypeOK
<1>5. /\ length' = [length EXCEPT ![l] = n]
      /\ loose' = loose \ {block[l]}
      /\ UNCHANGED <<block, format, capacity, held, freed>>
  BY DEF SetLength
<1>6. Described(l)'
  <2>1. length'[l] = n /\ byteSize'[block[l]] = bs
    BY <1>1, <1>4, <1>5, OwnBlock DEF TypeOK
  <2>2. bytes - bytes \in 0 .. BytesPerFrame[format[l]] - 1
    BY <1>3, OwnBlock
  <2>3. \A i \in Buffers(format[l]) :
          bs[i] - n * BytesPerFrame[format[l]] \in 0 .. BytesPerFrame[format[l]] - 1
    BY <2>2
  <2>4. bs \in [Buffers(format[l]) -> Nat]
    BY <1>3
  <2>5. /\ format[l] \in Formats
        /\ capacity[l] > 0
        /\ n <= capacity[l]
    BY OwnBlock DEF Described
  <2> HIDE DEF bs, bytes
  <2>6. QED
    BY <1>5, <2>1, <2>3, <2>4, <2>5 DEF Described, WholeFrames
<1>7. /\ DOMAIN byteSize' = Blocks
      /\ \A b \in Blocks \ {block[l]} : byteSize'[b] = byteSize[b]
  BY <1>1, <1>4 DEF TypeOK
<1>8. QED
  BY <1>1, <1>5, <1>6, <1>7, EditSound

(* The same when the frames stay.                                          *)
LEMMA ResizeKeeps ==
  ASSUME IInv, NEW l \in Lists, block[l] # NULL,
         NEW n \in 0 .. capacity[l], SetLength(l, n), frames' = frames
  PROVE  IInv'
<1>1. frames[block[l]] \in [0 .. capacity[l] - 1 -> Frames]
  BY OwnBlock DEF Described
<1>2. DOMAIN frames = Blocks
  BY DEF IInv, TypeOK
<1>3. QED
  BY <1>1, <1>2, SetLengthKeeps

LEMMA InferKeeps ==
  ASSUME IInv, NEW l \in Lists, InferFrameLength(l)
  PROVE  IInv'
<1> DEFINE sizes == byteSize[block[l]]
<1>1. /\ block[l] # NULL
      /\ \A i \in DOMAIN sizes : sizes[i] = sizes[1]
      /\ loose' = loose \ {block[l]}
      /\ UNCHANGED <<block, format, capacity, frames, byteSize, held, freed>>
  BY DEF InferFrameLength
<1>2. PICK n \in 0 .. capacity[l] :
        WholeFrames(l, n, sizes[1]) /\ length' = [length EXCEPT ![l] = n]
  BY DEF InferFrameLength
<1>3. TypeOK /\ Described(l) /\ n \in Nat /\ n <= capacity[l]
  BY <1>1, OwnBlock DEF IInv
<1>4. DOMAIN sizes = Buffers(format[l])
  BY <1>3 DEF Described
<1>5. length'[l] = n
  BY <1>2, <1>3 DEF TypeOK
<1>6. \A i \in Buffers(format[l]) : WholeFrames(l, n, sizes[i])
  BY <1>1, <1>2, <1>4
<1>7. Described(l)'
  BY <1>1, <1>3, <1>5, <1>6 DEF Described, WholeFrames
<1>8. DOMAIN frames' = Blocks /\ DOMAIN byteSize' = Blocks
  BY <1>1, <1>3 DEF TypeOK
<1>9. QED
  BY <1>1, <1>2, <1>3, <1>7, <1>8, EditSound

LEMMA ReadIntoKeeps ==
  ASSUME IInv, NEW l \in Lists, NEW take \in Takes, NEW sizes \in Sizes(l),
         ReadInto(l, take, sizes)
  PROVE  IInv'
<1> DEFINE fr == [i \in 0 .. capacity[l] - 1 |-> [take |-> take, offset |-> i]]
<1>1. /\ block[l] # NULL
      /\ loose' = loose \cup {block[l]}
      /\ UNCHANGED <<block, format, capacity, length, held, freed>>
  BY DEF ReadInto, listVars
<1>2. TypeOK /\ Described(l)
  BY <1>1, OwnBlock DEF IInv
<1>3. /\ DOMAIN frames' = Blocks
      /\ DOMAIN byteSize' = Blocks
      /\ \A b \in Blocks \ {block[l]} :
           frames'[b] = frames[b] /\ byteSize'[b] = byteSize[b]
  BY <1>2 DEF ReadInto, TypeOK
<1>4. frames'[block[l]] = fr
  BY <1>1, <1>2, OwnBlock DEF ReadInto, TypeOK, Described
<1>5. fr \in [0 .. capacity[l] - 1 -> Frames]
  BY <1>1, OwnBlock DEF Frames
<1>6. byteSize'[block[l]] = sizes
  BY <1>1, <1>2, OwnBlock DEF ReadInto, TypeOK
<1>7. sizes \in [Buffers(format[l]) -> Nat]
  BY ListAssumption DEF Sizes
<1>8. block[l] \in loose'
  BY <1>1
<1> HIDE DEF fr
<1>9. Described(l)'
  BY <1>1, <1>2, <1>4, <1>5, <1>6, <1>7, <1>8 DEF Described
<1>10. length[l] \in Nat /\ length' = [length EXCEPT ![l] = length[l]]
  BY <1>1, <1>2 DEF TypeOK
<1>11. QED
  BY <1>1, <1>3, <1>9, <1>10, EditSound

(* Frames that move up by k, within the capacity, leave a block of frames. *)
LEMMA OpenedFrames ==
  ASSUME IInv, NEW l \in Lists, block[l] # NULL,
         NEW w \in 0 .. length[l], NEW k \in 0 .. capacity[l] - length[l]
  PROVE  Opened(l, w, k) \in [0 .. capacity[l] - 1 -> Frames]
<1>1. /\ capacity[l] \in Nat
      /\ length[l] \in 0 .. capacity[l]
      /\ frames[block[l]] \in [0 .. capacity[l] - 1 -> Frames]
  BY OwnBlock DEF Described
<1>2. \A i \in w .. w + (length[l] - w) - 1 : frames[block[l]][i] \in Frames
  <2>1. w .. w + (length[l] - w) - 1 \subseteq 0 .. capacity[l] - 1
    BY <1>1
  <2>2. QED
    BY <1>1, <2>1
<1>3. w \in Nat /\ w + k \in Nat /\ length[l] - w \in Int
  BY <1>1
<1>4. QED
  BY <1>1, <1>2, <1>3, CopiedFrames DEF Opened

(* How much goes in, and where: what the guards of Insert and              *)
(* InsertSilence say of their arguments.                                   *)
LEMMA Room ==
  ASSUME IInv, NEW l \in Lists, NEW n \in Int, NEW k,
         k = Least(capacity[l] - length[l], n), k > 0
  PROVE  /\ block[l] # NULL
         /\ k \in 1 .. capacity[l] - length[l]
         /\ k <= n
         /\ length[l] + k \in 0 .. capacity[l]
<1>1. capacity[l] \in Nat /\ length[l] \in Nat /\ Sound(l)
  BY DEF IInv, TypeOK, ListInvariant
<1>2. k \in Int /\ k <= capacity[l] - length[l] /\ k <= n
  BY <1>1 DEF Least
<1>3. block[l] # NULL
  BY <1>1, <1>2 DEF Sound
<1>4. QED
  BY <1>1, <1>2, <1>3

(* The source of an insertion, and what is inserted.                       *)
Source(l, m, w, k) == IF l = m THEN Opened(l, w, k) ELSE frames[block[m]]

Overlap(l, m, r, w, k) == l = m /\ r # w /\ r < w + k /\ w < r + k

LEMMA InsertCopies ==
  ASSUME IInv, NEW l \in Lists, NEW m \in Lists,
         NEW r \in Counts, NEW n \in Counts, NEW w \in Counts,
         Insert(l, m, r, n, w)
  PROVE  \E k \in 1 .. capacity[l] - length[l] :
           /\ k = Least(capacity[l] - length[l], Least(n, length[m] - r))
           /\ block[l] # NULL
           /\ format[l] = format[m]
           /\ r \in 0 .. length[m] - k
           /\ w \in 0 .. length[l]
           /\ length[l] + k \in 0 .. capacity[l]
           /\ \A i \in r .. r + k - 1 : Source(l, m, w, k)[i] \in Frames
           /\ SetLength(l, length[l] + k)
           /\ \E inserted \in [0 .. k - 1 -> Frames] :
                /\ ~Overlap(l, m, r, w, k) =>
                     inserted = [j \in 0 .. k - 1 |-> Source(l, m, w, k)[r + j]]
                /\ frames' = [frames EXCEPT ![block[l]] =
                                Copied(Opened(l, w, k), w, inserted, 0, k)]
<1> DEFINE k == Least(capacity[l] - length[l], Least(n, length[m] - r))
           source == Source(l, m, w, k)
           read == {source[i] : i \in r .. r + k - 1}
<1>1. /\ format[l] = format[m]
      /\ r <= length[m]
      /\ w <= length[l]
      /\ k > 0
      /\ SetLength(l, length[l] + k)
  BY DEF Insert
<1>2. PICK inserted \in [0 .. k - 1 -> read] :
        /\ ~Overlap(l, m, r, w, k) =>
             inserted = [j \in 0 .. k - 1 |-> source[r + j]]
        /\ frames' = [frames EXCEPT ![block[l]] =
                        Copied(Opened(l, w, k), w, inserted, 0, k)]
  BY DEF Insert, Source, Overlap
<1>3. r \in Nat /\ w \in Nat /\ n \in Nat /\ length[m] \in Nat
  BY ListAssumption DEF Counts, IInv, TypeOK
<1>4. Least(n, length[m] - r) \in Int /\ Least(n, length[m] - r) <= length[m] - r
  BY <1>3 DEF Least
<1>5. /\ block[l] # NULL
      /\ k \in 1 .. capacity[l] - length[l]
      /\ k <= Least(n, length[m] - r)
      /\ length[l] + k \in 0 .. capacity[l]
  <2> HIDE DEF k
  <2>1. k = Least(capacity[l] - length[l], Least(n, length[m] - r))
    BY DEF k
  <2>2. QED
    BY <1>1, <1>4, <2>1, Room
<1> HIDE DEF k
<1>6. r \in 0 .. length[m] - k /\ w \in 0 .. length[l]
  BY <1>1, <1>3, <1>4, <1>5, OwnBlock
<1>7. \A i \in r .. r + k - 1 : source[i] \in Frames
  <2>1. block[m] # NULL
    BY <1>3, <1>5, <1>6 DEF IInv, ListInvariant, Sound
  <2>2. /\ frames[block[m]] \in [0 .. capacity[m] - 1 -> Frames]
        /\ length[m] <= capacity[m]
        /\ capacity[m] \in Nat
    BY <2>1, OwnBlock DEF Described
  <2>3. r .. r + k - 1 \subseteq 0 .. capacity[m] - 1
    BY <1>3, <1>5, <1>6, <2>2
  <2>4. CASE l = m
    <3>1. Opened(l, w, k) \in [0 .. capacity[l] - 1 -> Frames]
      BY <1>5, <1>6, OpenedFrames, OwnBlock
    <3>2. QED
      BY <2>3, <2>4, <3>1 DEF Source
  <2>5. CASE l # m
    BY <2>2, <2>3, <2>5 DEF Source
  <2>6. QED
    BY <2>4, <2>5
<1>8. inserted \in [0 .. k - 1 -> Frames]
  <2>1. read \subseteq Frames
    BY <1>7
  <2> HIDE DEF read
  <2>2. QED
    BY <2>1
<1>9. QED
  BY <1>1, <1>2, <1>5, <1>6, <1>7, <1>8 DEF k

(* The guards of InsertSilence, and what it does.                          *)
LEMMA SilenceCopies ==
  ASSUME IInv, NEW l \in Lists, NEW o \in Counts, NEW n \in Counts,
         InsertSilence(l, o, n)
  PROVE  \E k \in 1 .. capacity[l] - length[l] :
           /\ k = Least(capacity[l] - length[l], n)
           /\ block[l] # NULL
           /\ o \in 0 .. length[l]
           /\ length[l] + k \in 0 .. capacity[l]
           /\ SetLength(l, length[l] + k)
           /\ frames' = [frames EXCEPT ![block[l]] =
                Copied(Opened(l, o, k), o, [j \in 0 .. k - 1 |-> Silence], 0, k)]
<1> DEFINE k == Least(capacity[l] - length[l], n)
<1>1. /\ o <= length[l]
      /\ k > 0
      /\ SetLength(l, length[l] + k)
      /\ frames' = [frames EXCEPT ![block[l]] =
           Copied(Opened(l, o, k), o, [j \in 0 .. k - 1 |-> Silence], 0, k)]
  BY DEF InsertSilence
<1>2. o \in Nat /\ n \in Nat /\ length[l] \in Nat
  BY ListAssumption DEF Counts, IInv, TypeOK
<1>3. /\ block[l] # NULL
      /\ k \in 1 .. capacity[l] - length[l]
      /\ length[l] + k \in 0 .. capacity[l]
  <2> HIDE DEF k
  <2>1. k = Least(capacity[l] - length[l], n)
    BY DEF k
  <2>2. QED
    BY <1>1, <1>2, <2>1, Room
<1> HIDE DEF k
<1>4. o \in 0 .. length[l]
  BY <1>1, <1>2
<1>5. QED
  BY <1>1, <1>3, <1>4 DEF k

(* Frames that go in where room was made for them.                         *)
LEMMA FilledKeeps ==
  ASSUME IInv, NEW l \in Lists, block[l] # NULL,
         NEW k \in 1 .. capacity[l] - length[l],
         NEW w \in 0 .. length[l],
         NEW inserted \in [0 .. k - 1 -> Frames],
         SetLength(l, length[l] + k),
         frames' = [frames EXCEPT ![block[l]] =
                      Copied(Opened(l, w, k), w, inserted, 0, k)]
  PROVE  /\ IInv'
         /\ frames'[block[l]] = Copied(Opened(l, w, k), w, inserted, 0, k)
         /\ \A b \in Blocks \ {block[l]} : frames'[b] = frames[b]
<1>1. capacity[l] \in Nat /\ length[l] \in Nat /\ DOMAIN frames = Blocks
  BY DEF IInv, TypeOK
<1>2. Opened(l, w, k) \in [0 .. capacity[l] - 1 -> Frames]
  BY <1>1, OpenedFrames
<1>3. Copied(Opened(l, w, k), w, inserted, 0, k)
        \in [0 .. capacity[l] - 1 -> Frames]
  <2>1. \A i \in 0 .. 0 + k - 1 : inserted[i] \in Frames
    BY <1>1
  <2>2. w \in Nat /\ k \in Int
    BY <1>1
  <2>3. QED
    BY <1>1, <1>2, <2>1, <2>2, CopiedFrames
<1>4. /\ frames'[block[l]] = Copied(Opened(l, w, k), w, inserted, 0, k)
      /\ DOMAIN frames' = Blocks
      /\ \A b \in Blocks \ {block[l]} : frames'[b] = frames[b]
  BY <1>1, OwnBlock
<1>5. length[l] + k \in 0 .. capacity[l]
  BY <1>1
<1>6. QED
  BY <1>3, <1>4, <1>5, SetLengthKeeps

LEMMA InsertKeeps ==
  ASSUME IInv, NEW l \in Lists, NEW m \in Lists,
         NEW r \in Counts, NEW n \in Counts, NEW w \in Counts,
         Insert(l, m, r, n, w)
  PROVE  IInv'
<1>1. PICK k \in 1 .. capacity[l] - length[l] :
        /\ block[l] # NULL
        /\ w \in 0 .. length[l]
        /\ length[l] + k \in 0 .. capacity[l]
        /\ SetLength(l, length[l] + k)
        /\ \E inserted \in [0 .. k - 1 -> Frames] :
             frames' = [frames EXCEPT ![block[l]] =
                          Copied(Opened(l, w, k), w, inserted, 0, k)]
  BY InsertCopies
<1>2. QED
  BY <1>1, FilledKeeps

LEMMA SilenceKeeps ==
  ASSUME IInv, NEW l \in Lists, NEW o \in Counts, NEW n \in Counts,
         InsertSilence(l, o, n)
  PROVE  IInv'
<1>1. PICK k \in 1 .. capacity[l] - length[l] :
        /\ block[l] # NULL
        /\ o \in 0 .. length[l]
        /\ SetLength(l, length[l] + k)
        /\ frames' = [frames EXCEPT ![block[l]] =
             Copied(Opened(l, o, k), o, [j \in 0 .. k - 1 |-> Silence], 0, k)]
  BY SilenceCopies
<1>2. [j \in 0 .. k - 1 |-> Silence] \in [0 .. k - 1 -> Frames]
  BY DEF Frames
<1>3. QED
  BY <1>1, <1>2, FilledKeeps

(* The block of a list from which k frames at o are trimmed.               *)
Trimmed(l, o, k) ==
  LET old == frames[block[l]] IN Copied(old, o, old, o + k, length[l] - (o + k))

(* What a trim takes off, and where the frames behind it go.               *)
LEMMA TrimCopies ==
  ASSUME IInv, NEW l \in Lists, NEW o \in Counts, NEW n \in Counts,
         Trim(l, o, n)
  PROVE  \E k \in 0 .. length[l] :
           /\ k = Least(n, length[l] - o)
           /\ block[l] # NULL
           /\ o \in 0 .. length[l] - k
           /\ SetLength(l, length[l] - k)
           /\ frames' = [frames EXCEPT ![block[l]] = Trimmed(l, o, k)]
<1> DEFINE k == Least(n, length[l] - o)
<1>1. /\ block[l] # NULL
      /\ o <= length[l]
      /\ SetLength(l, length[l] - k)
      /\ frames' = [frames EXCEPT ![block[l]] = Trimmed(l, o, k)]
  BY DEF Trim, Trimmed
<1>2. o \in Nat /\ n \in Nat /\ length[l] \in Nat
  BY ListAssumption DEF Counts, IInv, TypeOK
<1>3. k \in 0 .. length[l] /\ o \in 0 .. length[l] - k
  BY <1>1, <1>2 DEF Least
<1> HIDE DEF k
<1>4. QED
  BY <1>1, <1>3 DEF k

(* The frames behind those that a trim takes off are in the block.         *)
LEMMA Behind ==
  ASSUME NEW c \in Nat, NEW n \in 0 .. c, NEW k \in 0 .. n, NEW o \in 0 .. n - k
  PROVE  /\ o \in Nat
         /\ o + k \in Nat
         /\ n - (o + k) \in Int
         /\ \A i \in o + k .. (o + k) + (n - (o + k)) - 1 : i \in 0 .. c - 1
OBVIOUS

LEMMA TrimmedKeeps ==
  ASSUME IInv, NEW l \in Lists, block[l] # NULL,
         NEW k \in 0 .. length[l], NEW o \in 0 .. length[l] - k,
         SetLength(l, length[l] - k),
         frames' = [frames EXCEPT ![block[l]] = Trimmed(l, o, k)]
  PROVE  /\ IInv'
         /\ frames'[block[l]] = Trimmed(l, o, k)
         /\ \A b \in Blocks \ {block[l]} : frames'[b] = frames[b]
<1>1. /\ capacity[l] \in Nat
      /\ length[l] \in 0 .. capacity[l]
      /\ DOMAIN frames = Blocks
      /\ frames[block[l]] \in [0 .. capacity[l] - 1 -> Frames]
  BY OwnBlock DEF Described, IInv, TypeOK
<1>2. /\ o \in Nat
      /\ o + k \in Nat
      /\ length[l] - (o + k) \in Int
      /\ \A i \in o + k .. (o + k) + (length[l] - (o + k)) - 1 :
           i \in 0 .. capacity[l] - 1
  BY <1>1, Behind
<1>3. \A i \in o + k .. (o + k) + (length[l] - (o + k)) - 1 :
        frames[block[l]][i] \in Frames
  BY <1>1, <1>2
<1>4. Trimmed(l, o, k) \in [0 .. capacity[l] - 1 -> Frames]
  BY <1>1, <1>2, <1>3, CopiedFrames DEF Trimmed
<1>5. /\ frames'[block[l]] = Trimmed(l, o, k)
      /\ DOMAIN frames' = Blocks
      /\ \A b \in Blocks \ {block[l]} : frames'[b] = frames[b]
  BY <1>1, OwnBlock
<1>6. length[l] - k \in 0 .. capacity[l]
  BY <1>1
<1>7. QED
  BY <1>4, <1>5, <1>6, SetLengthKeeps

LEMMA TrimKeeps ==
  ASSUME IInv, NEW l \in Lists, NEW o \in Counts, NEW n \in Counts,
         Trim(l, o, n)
  PROVE  IInv'
BY TrimCopies, TrimmedKeeps

LEMMA SetFrameLengthKeeps ==
  ASSUME IInv, NEW l \in Lists, NEW n \in Counts, SetFrameLength(l, n)
  PROVE  IInv'
<1>1. block[l] # NULL /\ SetLength(l, n) /\ frames' = frames
  BY DEF SetFrameLength
<1>2. n \in 0 .. capacity[l]
  BY <1>1, ListAssumption, OwnBlock DEF SetFrameLength, Counts
<1>3. QED
  BY <1>1, <1>2, ResizeKeeps

LEMMA TrimLastKeeps ==
  ASSUME IInv, NEW l \in Lists, NEW n \in Counts, TrimLast(l, n)
  PROVE  IInv'
<1>1. /\ block[l] # NULL
      /\ SetLength(l, length[l] - Least(n, length[l]))
      /\ frames' = frames
  BY DEF TrimLast
<1>2. length[l] - Least(n, length[l]) \in 0 .. capacity[l]
  <2>1. n \in Nat
    BY ListAssumption DEF Counts
  <2>2. length[l] \in Nat /\ capacity[l] \in Nat /\ length[l] <= capacity[l]
    BY <1>1, OwnBlock DEF Described
  <2>3. QED
    BY <2>1, <2>2 DEF Least
<1>3. QED
  BY <1>1, <1>2, ResizeKeeps

LEMMA InitHolds == Init => IInv
<1> SUFFICES ASSUME Init
             PROVE  IInv
  OBVIOUS
<1>1. TypeOK
  BY ListAssumption DEF Init, TypeOK
<1>2. OwnedOnce
  BY ListAssumption DEF Init, OwnedOnce
<1>3. ListInvariant
  BY DEF Init, ListInvariant, Sound
<1>4. QED
  BY <1>1, <1>2, <1>3 DEF IInv

LEMMA StutterKeeps ==
  ASSUME IInv, UNCHANGED vars
  PROVE  IInv'
<1>1. UNCHANGED <<block, format, capacity, length, frames, byteSize,
                  held, freed, loose>>
  BY DEF vars, listVars
<1>2. TypeOK'
  BY <1>1 DEF IInv, TypeOK
<1>3. OwnedOnce'
  BY <1>1 DEF IInv, OwnedOnce
<1>4. \A m \in Lists : Sound(m)'
  BY <1>1 DEF IInv, ListInvariant, Sound, Described, WholeFrames
<1>5. QED
  BY <1>2, <1>3, <1>4, Together

LEMMA AdoptStutters ==
  ASSUME NEW l, NEW b, NEW f \in Formats, NEW c, NEW n, Adopt(l, b, f, c, n)
  PROVE  UNCHANGED vars
BY AdoptRefusesAll DEF Adopt

LEMMA StepKeeps == IInv /\ [Next]_vars => IInv'
<1> SUFFICES ASSUME IInv, [Next]_vars
             PROVE  IInv'
  OBVIOUS
<1>1. CASE Caller
  BY <1>1, CallerFreesKeeps, CallerAllocatesKeeps DEF Caller
<1>2. ASSUME NEW l \in Lists, Manage(l)
      PROVE  IInv'
  <2>1. ASSUME NEW f \in Formats, NEW c \in Capacities, Allocate(l, f, c)
        PROVE  IInv'
    BY <2>1, AllocateKeeps
  <2>2. CASE Deallocate(l)
    BY <2>2, DeallocateKeeps
  <2>3. ASSUME NEW m \in Lists, MoveFrom(l, m)
        PROVE  IInv'
    BY <2>3, MoveKeeps
  <2>4. CASE Release(l)
    BY <2>4, ReleaseKeeps
  <2>5. ASSUME NEW b \in Blocks, NEW f \in Formats, NEW c \in Capacities,
               NEW n \in Counts, Adopt(l, b, f, c, n)
        PROVE  IInv'
    BY <2>5, AdoptStutters, StutterKeeps
  <2>6. QED
    BY <1>2, <2>1, <2>2, <2>3, <2>4, <2>5 DEF Manage
<1>3. ASSUME NEW l \in Lists, Resize(l)
      PROVE  IInv'
  BY <1>3, SetFrameLengthKeeps, TrimLastKeeps, InferKeeps, ReadIntoKeeps DEF Resize
<1>4. ASSUME NEW l \in Lists, Edit(l)
      PROVE  IInv'
  BY <1>4, InsertKeeps, SilenceKeeps, TrimKeeps DEF Edit
<1>5. CASE UNCHANGED vars
  BY <1>5, StutterKeeps
<1>6. QED
  BY <1>1, <1>2, <1>3, <1>4, <1>5 DEF Next

(* After any sequence of calls, the types are right, every block is owned  *)
(* once, and what every list says of its block is so.                      *)
THEOREM InvariantHolds == Spec => [](TypeOK /\ OwnedOnce /\ ListInvariant)
<1>1. Spec => []IInv
  BY InitHolds, StepKeeps, PTL DEF Spec
<1>2. IInv => TypeOK /\ OwnedOnce /\ ListInvariant
  BY DEF IInv
<1>3. QED
  BY <1>1, <1>2, PTL

(* The fields of every list and of every block have their types.           *)
THEOREM TypesHold == Spec => []TypeOK
<1>1. TypeOK /\ OwnedOnce /\ ListInvariant => TypeOK
  OBVIOUS
<1>2. QED
  BY <1>1, InvariantHolds, PTL

(* Every block has one owner: none is freed twice, used when freed, or      *)
(* lost, by any sequence of allocations, moves and releases.               *)
THEOREM OwnershipHolds == Spec => []OwnedOnce
<1>1. TypeOK /\ OwnedOnce /\ ListInvariant => OwnedOnce
  OBVIOUS
<1>2. QED
  BY <1>1, InvariantHolds, PTL

-----------------------------------------------------------------------------
(* The refinement of FrameLists.                                           *)

(* A list that has a block another had, or the same as before, has the     *)
(* frames that were there; without a block there are none.                 *)
LEMMA FramesStay ==
  ASSUME IInv, NEW l \in Lists, NEW m \in Lists,
         length'[l] = length[m], block'[l] = block[m],
         block[m] # NULL => frames'[block[m]] = frames[block[m]]
  PROVE  FramesOf(l)' = FramesOf(m)
<1>1. CASE block[m] = NULL
  <2>1. length[m] = 0
    BY <1>1 DEF IInv, ListInvariant, Sound
  <2>2. \A i \in 0 .. length[m] - 1 : FALSE
    BY <2>1
  <2>3. QED
    BY <2>2 DEF FramesOf
<1>2. CASE block[m] # NULL
  BY <1>2 DEF FramesOf
<1>3. QED
  BY <1>1, <1>2

(* Where one list's block and length change, that list is edited.          *)
LEMMA EditRefines ==
  ASSUME IInv, IInv', NEW l \in Lists, block[l] # NULL, NEW n \in Nat,
         length' = [length EXCEPT ![l] = n],
         UNCHANGED <<block, format, capacity>>,
         \A b \in Blocks \ {block[l]} : frames'[b] = frames[b]
  PROVE  /\ Abstract!Edit(l, n)
         /\ \A i \in 0 .. n - 1 : Contents'[l][i] = frames'[block[l]][i]
         /\ n <= capacity[l]
<1>1. length'[l] = n
  BY DEF IInv, TypeOK
<1>2. Described(l)'
  BY OwnBlock DEF IInv, ListInvariant, Sound
<1>3. /\ frames'[block[l]] \in [0 .. capacity[l] - 1 -> Frames]
      /\ n <= capacity[l]
      /\ capacity[l] \in Nat
  BY <1>1, <1>2 DEF Described, IInv, TypeOK
<1>4. Contents'[l] = [i \in 0 .. n - 1 |-> frames'[block[l]][i]]
  BY <1>1 DEF Contents, FramesOf
<1>5. Contents'[l] \in [0 .. n - 1 -> Frames]
  <2>1. 0 .. n - 1 \subseteq 0 .. capacity[l] - 1
    BY <1>3
  <2>2. QED
    BY <1>3, <1>4, <2>1
<1>6. ASSUME NEW m \in Lists, m # l
      PROVE  FramesOf(m)' = FramesOf(m)
  <2>1. length'[m] = length[m]
    BY <1>6 DEF IInv, TypeOK
  <2>2. block[m] # NULL => block[m] \in Blocks \ {block[l]}
    BY <1>6, OwnBlock
  <2>3. QED
    BY <2>1, <2>2, FramesStay
<1>7. Contents' = [Contents EXCEPT ![l] = Contents'[l]]
  BY <1>6 DEF Contents
<1>8. Abstract!Edit(l, n)
  BY <1>5, <1>7 DEF Abstract!Edit
<1>9. QED
  BY <1>3, <1>4, <1>8

(* Frames copied to where others have made room for them.                  *)
LEMMA FilledAt ==
  ASSUME IInv, NEW l \in Lists, block[l] # NULL,
         NEW k \in 1 .. capacity[l] - length[l],
         NEW w \in 0 .. length[l], NEW inserted
  PROVE  /\ \A i \in 0 .. w + k - 1 : Opened(l, w, k)[i] = frames[block[l]][i]
         /\ \A i \in 0 .. w - 1 :
              Copied(Opened(l, w, k), w, inserted, 0, k)[i] = frames[block[l]][i]
         /\ \A i \in w .. length[l] - 1 :
              Copied(Opened(l, w, k), w, inserted, 0, k)[i + k] = frames[block[l]][i]
         /\ \A j \in 0 .. k - 1 :
              Copied(Opened(l, w, k), w, inserted, 0, k)[w + j] = inserted[j]
<1> DEFINE c == capacity[l]
           n == length[l]
           old == frames[block[l]]
           opened == Opened(l, w, k)
           filled == Copied(opened, w, inserted, 0, k)
<1>0. /\ c \in Nat
      /\ n \in 0 .. c
      /\ DOMAIN old = 0 .. c - 1
      /\ k \in 1 .. c - n
      /\ w \in 0 .. n
      /\ opened = Copied(old, w + k, old, w, n - w)
      /\ filled = Copied(opened, w, inserted, 0, k)
  BY OwnBlock DEF Described, Opened
<1> HIDE DEF c, n, old, opened, filled
<1>1. \A i \in 0 .. c - 1 :
        opened[i] = IF i \in w + k .. w + k + (n - w) - 1
                      THEN old[i - (w + k) + w] ELSE old[i]
  BY <1>0 DEF Copied
<1>2. DOMAIN opened = 0 .. c - 1
  BY <1>0 DEF Copied
<1>3. \A i \in 0 .. c - 1 :
        filled[i] = IF i \in w .. w + k - 1
                      THEN inserted[i - w + 0] ELSE opened[i]
  BY <1>0, <1>2 DEF Copied
<1>4. ASSUME NEW i \in 0 .. w + k - 1
      PROVE  opened[i] = old[i]
  BY <1>0, <1>1
<1>5. ASSUME NEW i \in 0 .. w - 1
      PROVE  filled[i] = old[i]
  BY <1>0, <1>1, <1>3
<1>6. ASSUME NEW i \in w .. n - 1
      PROVE  filled[i + k] = old[i]
  <2>1. /\ i + k \in 0 .. c - 1
        /\ i + k \notin w .. w + k - 1
        /\ i + k \in w + k .. w + k + (n - w) - 1
        /\ i + k - (w + k) + w = i
    BY <1>0
  <2>2. filled[i + k] = opened[i + k]
    BY <1>3, <2>1
  <2>3. opened[i + k] = old[i]
    BY <1>1, <2>1
  <2>4. QED
    BY <2>2, <2>3
<1>7. ASSUME NEW j \in 0 .. k - 1
      PROVE  filled[w + j] = inserted[j]
  <2>1. /\ w + j \in 0 .. c - 1
        /\ w + j \in w .. w + k - 1
        /\ w + j - w + 0 = j
    BY <1>0
  <2>2. QED
    BY <1>3, <2>1
<1>8. QED
  BY <1>4, <1>5, <1>6, <1>7 DEF c, n, old, opened, filled

(* What fills the room made in a list opens the list of frames there.      *)
LEMMA FilledOpens ==
  ASSUME IInv, NEW l \in Lists, block[l] # NULL,
         NEW k \in 1 .. capacity[l] - length[l],
         NEW w \in 0 .. length[l],
         NEW inserted \in [0 .. k - 1 -> Frames],
         SetLength(l, length[l] + k),
         frames' = [frames EXCEPT ![block[l]] =
                      Copied(Opened(l, w, k), w, inserted, 0, k)]
  PROVE  /\ Abstract!Open(l, w, k)
         /\ \A j \in 0 .. k - 1 : Contents'[l][w + j] = inserted[j]
         /\ \A i \in 0 .. w + k - 1 : Opened(l, w, k)[i] = frames[block[l]][i]
<1> DEFINE old == frames[block[l]]
           opened == Opened(l, w, k)
           filled == Copied(opened, w, inserted, 0, k)
<1>1. /\ IInv'
      /\ frames'[block[l]] = filled
      /\ \A b \in Blocks \ {block[l]} : frames'[b] = frames[b]
  BY FilledKeeps
<1>2. /\ capacity[l] \in Nat
      /\ length[l] \in 0 .. capacity[l]
      /\ DOMAIN old = 0 .. capacity[l] - 1
  BY OwnBlock DEF Described
<1>4. /\ \A i \in 0 .. w + k - 1 : opened[i] = old[i]
      /\ \A i \in 0 .. w - 1 : filled[i] = old[i]
      /\ \A i \in w .. length[l] - 1 : filled[i + k] = old[i]
      /\ \A j \in 0 .. k - 1 : filled[w + j] = inserted[j]
  BY FilledAt
<1> HIDE DEF old, opened, filled
<1>5. length[l] + k \in Nat
  BY <1>2
<1>6. /\ Abstract!Edit(l, length[l] + k)
      /\ \A i \in 0 .. length[l] + k - 1 : Contents'[l][i] = filled[i]
  <2>1. /\ length' = [length EXCEPT ![l] = length[l] + k]
        /\ UNCHANGED <<block, format, capacity>>
    BY DEF SetLength
  <2>2. /\ Abstract!Edit(l, length[l] + k)
        /\ \A i \in 0 .. length[l] + k - 1 : Contents'[l][i] = frames'[block[l]][i]
    <3>1. PICK n \in Nat : n = length[l] + k
      BY <1>5
    <3>2. length' = [length EXCEPT ![l] = n]
      BY <2>1, <3>1
    <3>3. /\ Abstract!Edit(l, n)
          /\ \A i \in 0 .. n - 1 : Contents'[l][i] = frames'[block[l]][i]
      BY <1>1, <2>1, <3>2, EditRefines
    <3>4. Abstract!Edit(l, length[l] + k)
      BY <3>1, <3>3, Zenon
    <3>5. n - 1 = length[l] + k - 1
      BY <1>2, <3>1
    <3>6. QED
      BY <3>3, <3>4, <3>5, Zenon
  <2>3. QED
    BY <1>1, <2>2
<1>7. \A i \in 0 .. length[l] - 1 : Contents[l][i] = old[i]
  BY DEF Contents, FramesOf, old
<1>8. \A i \in 0 .. w - 1 : Contents'[l][i] = Contents[l][i]
  <2>1. ASSUME NEW i \in 0 .. w - 1
        PROVE  i \in 0 .. length[l] + k - 1 /\ i \in 0 .. length[l] - 1
    BY <1>2
  <2>2. QED
    BY <1>4, <1>6, <1>7, <2>1
<1>9. \A i \in w .. length[l] - 1 : Contents'[l][i + k] = Contents[l][i]
  <2>1. ASSUME NEW i \in w .. length[l] - 1
        PROVE  i + k \in 0 .. length[l] + k - 1 /\ i \in 0 .. length[l] - 1
    BY <1>2
  <2>2. QED
    BY <1>4, <1>6, <1>7, <2>1
<1>10. \A j \in 0 .. k - 1 : Contents'[l][w + j] = inserted[j]
  <2>1. ASSUME NEW j \in 0 .. k - 1
        PROVE  w + j \in 0 .. length[l] + k - 1
    BY <1>2
  <2>2. QED
    BY <1>4, <1>6, <2>1
<1>11. Abstract!Open(l, w, k)
  BY <1>2, <1>6, <1>8, <1>9 DEF Abstract!Open
<1>12. QED
  BY <1>4, <1>10, <1>11 DEF old, opened

LEMMA InsertRefines ==
  ASSUME IInv, NEW l \in Lists, NEW m \in Lists,
         NEW r \in Counts, NEW n \in Counts, NEW w \in Counts,
         Insert(l, m, r, n, w)
  PROVE  Abstract!Insert(l, m, r, n, w)
<1>1. PICK k \in 1 .. capacity[l] - length[l] :
        /\ k = Least(capacity[l] - length[l], Least(n, length[m] - r))
        /\ block[l] # NULL
        /\ format[l] = format[m]
        /\ r \in 0 .. length[m] - k
        /\ w \in 0 .. length[l]
        /\ length[l] + k \in 0 .. capacity[l]
        /\ \A i \in r .. r + k - 1 : Source(l, m, w, k)[i] \in Frames
        /\ SetLength(l, length[l] + k)
        /\ \E inserted \in [0 .. k - 1 -> Frames] :
             /\ ~Overlap(l, m, r, w, k) =>
                  inserted = [j \in 0 .. k - 1 |-> Source(l, m, w, k)[r + j]]
             /\ frames' = [frames EXCEPT ![block[l]] =
                             Copied(Opened(l, w, k), w, inserted, 0, k)]
  BY InsertCopies
<1>2. PICK inserted \in [0 .. k - 1 -> Frames] :
        /\ ~Overlap(l, m, r, w, k) =>
             inserted = [j \in 0 .. k - 1 |-> Source(l, m, w, k)[r + j]]
        /\ frames' = [frames EXCEPT ![block[l]] =
                        Copied(Opened(l, w, k), w, inserted, 0, k)]
  BY <1>1
<1>3. /\ Abstract!Open(l, w, k)
      /\ \A j \in 0 .. k - 1 : Contents'[l][w + j] = inserted[j]
      /\ \A i \in 0 .. w + k - 1 : Opened(l, w, k)[i] = frames[block[l]][i]
  <2>1. /\ block[l] # NULL
        /\ w \in 0 .. length[l]
        /\ SetLength(l, length[l] + k)
    BY <1>1
  <2>2. frames' = [frames EXCEPT ![block[l]] =
                     Copied(Opened(l, w, k), w, inserted, 0, k)]
    BY <1>2
  <2>3. QED
    BY <2>1, <2>2, FilledOpens
<1>4. length[m] \in Nat /\ r \in Nat /\ r <= length[m]
  BY <1>1 DEF IInv, TypeOK
<1>5. \A j \in 0 .. k - 1 : Contents[m][r + j] = frames[block[m]][r + j]
  <2>1. \A j \in 0 .. k - 1 : r + j \in 0 .. length[m] - 1
    BY <1>1, <1>4
  <2>2. QED
    BY <2>1 DEF Contents, FramesOf
<1>6. ASSUME l # m \/ r = w \/ r + k <= w, NEW j \in 0 .. k - 1
      PROVE  Contents'[l][w + j] = Contents[m][r + j]
  <2>1. ~Overlap(l, m, r, w, k)
    BY <1>1, <1>4, <1>6 DEF Overlap
  <2>2. inserted[j] = Source(l, m, w, k)[r + j]
    BY <1>2, <2>1
  <2>3. CASE l # m
    BY <1>3, <1>5, <2>2, <2>3 DEF Source
  <2>4. CASE l = m
    <3>1. r + j \in 0 .. w + k - 1
      BY <1>1, <1>4, <1>6, <2>4
    <3>2. QED
      BY <1>3, <1>5, <2>2, <2>4, <3>1 DEF Source
  <2>5. QED
    BY <2>3, <2>4
<1>7. k = Abstract!Least(capacity[l] - length[l], Abstract!Least(n, length[m] - r))
  BY <1>1 DEF Least, Abstract!Least
<1>8. QED
  BY <1>1, <1>3, <1>4, <1>6, <1>7 DEF Abstract!Insert

LEMMA SilenceRefines ==
  ASSUME IInv, NEW l \in Lists, NEW o \in Counts, NEW n \in Counts,
         InsertSilence(l, o, n)
  PROVE  Abstract!InsertSilence(l, o, n)
<1>1. PICK k \in 1 .. capacity[l] - length[l] :
        /\ k = Least(capacity[l] - length[l], n)
        /\ block[l] # NULL
        /\ o \in 0 .. length[l]
        /\ length[l] + k \in 0 .. capacity[l]
        /\ SetLength(l, length[l] + k)
        /\ frames' = [frames EXCEPT ![block[l]] =
             Copied(Opened(l, o, k), o, [j \in 0 .. k - 1 |-> Silence], 0, k)]
  BY SilenceCopies
<1> DEFINE inserted == [j \in 0 .. k - 1 |-> Silence]
<1>2. inserted \in [0 .. k - 1 -> Frames]
  BY DEF Frames
<1>3. \A j \in 0 .. k - 1 : inserted[j] = Silence
  OBVIOUS
<1> HIDE DEF inserted
<1>4. /\ Abstract!Open(l, o, k)
      /\ \A j \in 0 .. k - 1 : Contents'[l][o + j] = Silence
  BY <1>1, <1>2, <1>3, FilledOpens DEF inserted
<1>5. k = Abstract!Least(capacity[l] - length[l], n)
  BY <1>1 DEF Least, Abstract!Least
<1>6. format[l] \in Signed
  BY DEF InsertSilence
<1>7. QED
  BY <1>4, <1>5, <1>6 DEF Abstract!InsertSilence

(* Frames that close the gap a trim leaves.                                *)
LEMMA TrimmedAt ==
  ASSUME IInv, NEW l \in Lists, block[l] # NULL,
         NEW k \in 0 .. length[l], NEW o \in 0 .. length[l] - k
  PROVE  /\ \A i \in 0 .. o - 1 : Trimmed(l, o, k)[i] = frames[block[l]][i]
         /\ \A i \in o .. length[l] - k - 1 :
              Trimmed(l, o, k)[i] = frames[block[l]][i + k]
<1> DEFINE c == capacity[l]
           n == length[l]
           old == frames[block[l]]
           trimmed == Trimmed(l, o, k)
<1>0. /\ c \in Nat
      /\ n \in 0 .. c
      /\ DOMAIN old = 0 .. c - 1
      /\ k \in 0 .. n
      /\ o \in 0 .. n - k
      /\ trimmed = Copied(old, o, old, o + k, n - (o + k))
  BY OwnBlock DEF Described, Trimmed
<1> HIDE DEF c, n, old, trimmed
<1>1. \A i \in 0 .. c - 1 :
        trimmed[i] = IF i \in o .. o + (n - (o + k)) - 1
                       THEN old[i - o + (o + k)] ELSE old[i]
  BY <1>0 DEF Copied
<1>2. ASSUME NEW i \in 0 .. o - 1
      PROVE  trimmed[i] = old[i]
  BY <1>0, <1>1
<1>3. ASSUME NEW i \in o .. n - k - 1
      PROVE  trimmed[i] = old[i + k]
  <2>1. /\ i \in 0 .. c - 1
        /\ i \in o .. o + (n - (o + k)) - 1
        /\ i - o + (o + k) = i + k
    BY <1>0
  <2>2. QED
    BY <1>1, <2>1
<1>4. QED
  BY <1>2, <1>3 DEF n, old, trimmed

LEMMA TrimRefines ==
  ASSUME IInv, NEW l \in Lists, NEW o \in Counts, NEW n \in Counts,
         Trim(l, o, n)
  PROVE  Abstract!Trim(l, o, n)
<1>1. PICK k \in 0 .. length[l] :
        /\ k = Least(n, length[l] - o)
        /\ block[l] # NULL
        /\ o \in 0 .. length[l] - k
        /\ SetLength(l, length[l] - k)
        /\ frames' = [frames EXCEPT ![block[l]] = Trimmed(l, o, k)]
  BY TrimCopies
<1> DEFINE old == frames[block[l]]
           trimmed == Trimmed(l, o, k)
<1>2. /\ IInv'
      /\ frames'[block[l]] = trimmed
      /\ \A b \in Blocks \ {block[l]} : frames'[b] = frames[b]
  BY <1>1, TrimmedKeeps
<1>3. /\ capacity[l] \in Nat
      /\ length[l] \in 0 .. capacity[l]
      /\ DOMAIN old = 0 .. capacity[l] - 1
  BY <1>1, OwnBlock DEF Described
<1>4. \A i \in 0 .. length[l] - 1 : Contents[l][i] = old[i]
  BY DEF Contents, FramesOf
<1>5. /\ \A i \in 0 .. o - 1 : trimmed[i] = old[i]
      /\ \A i \in o .. length[l] - k - 1 : trimmed[i] = old[i + k]
  BY <1>1, TrimmedAt
<1> HIDE DEF old, trimmed
<1>6. PICK rest \in Nat : rest = length[l] - k
  BY <1>1, <1>3
<1>7. /\ length' = [length EXCEPT ![l] = rest]
      /\ UNCHANGED <<block, format, capacity>>
  BY <1>1, <1>6 DEF SetLength
<1>8. /\ Abstract!Edit(l, rest)
      /\ \A i \in 0 .. rest - 1 : Contents'[l][i] = frames'[block[l]][i]
  BY <1>1, <1>2, <1>7, EditRefines
<1>9. \A i \in 0 .. rest - 1 : Contents'[l][i] = trimmed[i]
  BY <1>2, <1>8
<1>10. \A i \in 0 .. o - 1 : Contents'[l][i] = Contents[l][i]
  <2>1. ASSUME NEW i \in 0 .. o - 1
        PROVE  i \in 0 .. rest - 1 /\ i \in 0 .. length[l] - 1
    BY <1>1, <1>3, <1>6
  <2>2. QED
    BY <2>1, <1>4, <1>5, <1>9
<1>11. \A i \in o .. length[l] - k - 1 : Contents'[l][i] = Contents[l][i + k]
  <2>1. ASSUME NEW i \in o .. length[l] - k - 1
        PROVE  i \in 0 .. rest - 1 /\ i + k \in 0 .. length[l] - 1
    BY <1>1, <1>3, <1>6
  <2>2. QED
    BY <2>1, <1>4, <1>5, <1>9
<1>12. Abstract!Edit(l, length[l] - k)
  BY <1>6, <1>8, Zenon
<1>13. k = Abstract!Least(n, length[l] - o)
  BY <1>1 DEF Least, Abstract!Least
<1>14. o <= length[l]
  BY <1>1, <1>3
<1>15. QED
  BY <1>10, <1>11, <1>12, <1>13, <1>14 DEF Abstract!Trim

(* A change of the length keeps the frames.                                *)
LEMMA ResizeRefines ==
  ASSUME IInv, IInv', NEW l \in Lists, block[l] # NULL, NEW n \in Nat,
         length' = [length EXCEPT ![l] = n],
         UNCHANGED <<block, format, capacity, frames>>
  PROVE  Abstract!SetLength(l)
<1>1. /\ Abstract!Edit(l, n)
      /\ \A i \in 0 .. n - 1 : Contents'[l][i] = frames[block[l]][i]
      /\ n <= capacity[l]
  BY EditRefines
<1>2. capacity[l] \in Nat /\ length[l] \in Nat
  BY OwnBlock
<1>3. \A i \in 0 .. length[l] - 1 : Contents[l][i] = frames[block[l]][i]
  BY DEF Contents, FramesOf
<1>4. \A i \in 0 .. Abstract!Least(n, length[l]) - 1 : Contents'[l][i] = Contents[l][i]
  BY <1>1, <1>2, <1>3 DEF Abstract!Least
<1>5. n \in 0 .. capacity[l]
  BY <1>1, <1>2
<1>6. QED
  BY <1>1, <1>4, <1>5 DEF Abstract!SetLength

LEMMA SizingRefines ==
  ASSUME IInv, IInv', NEW l \in Lists, NEW n \in Counts,
         SetFrameLength(l, n) \/ TrimLast(l, n) \/ InferFrameLength(l)
  PROVE  Abstract!SetLength(l)
<1>1. n \in Nat
  BY ListAssumption DEF Counts
<1>2. CASE SetFrameLength(l, n)
  BY <1>1, <1>2, ResizeRefines DEF SetFrameLength, SetLength
<1>3. CASE TrimLast(l, n)
  <2>1. length[l] - Least(n, length[l]) \in Nat
    BY <1>1 DEF IInv, TypeOK, Least
  <2>2. PICK rest \in Nat : rest = length[l] - Least(n, length[l])
    BY <2>1
  <2>3. /\ block[l] # NULL
        /\ length' = [length EXCEPT ![l] = rest]
        /\ UNCHANGED <<block, format, capacity, frames>>
    BY <1>3, <2>2 DEF TrimLast, SetLength
  <2>4. QED
    BY <2>3, ResizeRefines
<1>4. CASE InferFrameLength(l)
  <2>1. PICK rest \in 0 .. capacity[l] : length' = [length EXCEPT ![l] = rest]
    BY <1>4 DEF InferFrameLength
  <2>2. block[l] # NULL /\ UNCHANGED <<block, format, capacity, frames>>
    BY <1>4 DEF InferFrameLength
  <2>3. rest \in Nat
    BY DEF IInv, TypeOK
  <2>4. QED
    BY <2>1, <2>2, <2>3, ResizeRefines
<1>5. QED
  BY <1>2, <1>3, <1>4

LEMMA ReadIntoRefines ==
  ASSUME IInv, IInv', NEW l \in Lists, NEW take, NEW sizes,
         ReadInto(l, take, sizes)
  PROVE  Abstract!Overwrite(l)
<1>1. /\ block[l] # NULL
      /\ UNCHANGED <<block, format, capacity, length>>
      /\ \A b \in Blocks \ {block[l]} : frames'[b] = frames[b]
  BY DEF ReadInto, listVars, IInv, TypeOK
<1>2. length[l] \in Nat /\ length' = [length EXCEPT ![l] = length[l]]
  BY <1>1 DEF IInv, TypeOK
<1>3. Abstract!Edit(l, length[l])
  BY <1>1, <1>2, EditRefines
<1>4. QED
  BY <1>3 DEF Abstract!Overwrite

(* A list that is given another block, or none, is renewed.                *)
LEMMA RenewRefines ==
  ASSUME IInv, NEW l \in Lists, NEW f, NEW c,
         format' = [format EXCEPT ![l] = f],
         capacity' = [capacity EXCEPT ![l] = c],
         length' = [length EXCEPT ![l] = 0],
         \A m \in Lists \ {l} :
           /\ block'[m] = block[m]
           /\ block[m] # NULL => frames'[block[m]] = frames[block[m]]
  PROVE  Abstract!Renew(l, f, c)
<1>1. ASSUME NEW m \in Lists, m # l
      PROVE  FramesOf(m)' = FramesOf(m)
  <2>1. length'[m] = length[m]
    BY <1>1 DEF IInv, TypeOK
  <2>2. QED
    BY <1>1, <2>1, FramesStay
<1>2. FramesOf(l)' = Abstract!Nothing
  <2>1. length'[l] = 0
    BY DEF IInv, TypeOK
  <2>2. \A i \in 0 .. 0 - 1 : FALSE
    OBVIOUS
  <2>3. 0 .. 0 - 1 = 0 .. -1
    OBVIOUS
  <2>4. QED
    BY <2>1, <2>2, <2>3 DEF FramesOf, Abstract!Nothing
<1>3. Contents' = [Contents EXCEPT ![l] = Abstract!Nothing]
  BY <1>1, <1>2 DEF Contents
<1>4. QED
  BY <1>3 DEF Abstract!Renew

LEMMA AllocateRefines ==
  ASSUME IInv, NEW l \in Lists, NEW f \in Formats, NEW c \in Capacities,
         Allocate(l, f, c)
  PROVE  Abstract!Allocate(l)
<1>1. PICK b \in FreedWith(block[l]) :
        /\ block' = [block EXCEPT ![l] = b]
        /\ format' = [format EXCEPT ![l] = f]
        /\ capacity' = [capacity EXCEPT ![l] = c]
        /\ length' = [length EXCEPT ![l] = 0]
        /\ frames' = [Emptied(frames, block[l]) EXCEPT
                        ![b] = [i \in 0 .. c - 1 |-> Silence]]
  BY DEF Allocate
<1>2. TypeOK /\ OwnedOnce
  BY DEF IInv
<1>3. ASSUME NEW m \in Lists \ {l}
      PROVE  /\ block'[m] = block[m]
             /\ block[m] # NULL => frames'[block[m]] = frames[block[m]]
  <2>1. block'[m] = block[m]
    BY <1>1, <1>2 DEF TypeOK
  <2>2. block[m] # NULL =>
          block[m] \in Blocks /\ block[m] # block[l] /\ block[m] # b
    BY <1>1, <1>2 DEF TypeOK, OwnedOnce, FreedWith
  <2>3. QED
    BY <1>1, <2>1, <2>2 DEF Emptied
<1>4. Abstract!Renew(l, f, c)
  BY <1>1, <1>3, RenewRefines
<1>5. QED
  BY <1>4 DEF Abstract!Allocate

LEMMA DropRefines ==
  ASSUME IInv, NEW l \in Lists, Deallocate(l) \/ Release(l)
  PROVE  Abstract!Drop(l)
<1>1. TypeOK /\ OwnedOnce
  BY DEF IInv
<1>2. Cleared(l)
  BY DEF Deallocate, Release
<1>3. ASSUME NEW m \in Lists \ {l}
      PROVE  /\ block'[m] = block[m]
             /\ block[m] # NULL => frames'[block[m]] = frames[block[m]]
  <2>1. block'[m] = block[m]
    BY <1>1, <1>2 DEF Cleared, TypeOK
  <2>2. block[m] # NULL => block[m] \in Blocks \ {block[l]}
    BY <1>1 DEF TypeOK, OwnedOnce
  <2>3. block[m] # NULL => frames'[block[m]] = frames[block[m]]
    BY <2>2, FreeSpares DEF Deallocate, Release
  <2>4. QED
    BY <2>1, <2>3
<1>4. Abstract!Renew(l, NoFormat, 0)
  BY <1>2, <1>3, RenewRefines DEF Cleared
<1>5. QED
  BY <1>4 DEF Abstract!Drop

LEMMA MoveRefines ==
  ASSUME IInv, NEW l \in Lists, NEW m \in Lists, MoveFrom(l, m)
  PROVE  Abstract!Move(l, m)
<1>1. TypeOK /\ OwnedOnce /\ l # m
  BY DEF IInv, MoveFrom
<1>2. \A k \in Lists :
        /\ block'[k] = IF k = m THEN NULL ELSE IF k = l THEN block[m] ELSE block[k]
        /\ length'[k] = IF k = m THEN 0 ELSE IF k = l THEN length[m] ELSE length[k]
  BY <1>1 DEF MoveFrom, TypeOK
<1>3. ASSUME NEW k \in Lists \ {l}, block[k] # NULL
      PROVE  frames'[block[k]] = frames[block[k]]
  <2>1. block[k] \in Blocks \ {block[l]}
    BY <1>1, <1>3 DEF TypeOK, OwnedOnce
  <2>2. QED
    BY <2>1, FreeSpares DEF MoveFrom
<1>4. FramesOf(l)' = FramesOf(m)
  BY <1>1, <1>2, <1>3, FramesStay
<1>5. FramesOf(m)' = Abstract!Nothing
  <2>1. length'[m] = 0
    BY <1>2
  <2>2. \A i \in 0 .. 0 - 1 : FALSE
    OBVIOUS
  <2>3. 0 .. 0 - 1 = 0 .. -1
    OBVIOUS
  <2>4. QED
    BY <2>1, <2>2, <2>3 DEF FramesOf, Abstract!Nothing
<1>6. ASSUME NEW k \in Lists \ {l, m}
      PROVE  FramesOf(k)' = FramesOf(k)
  BY <1>2, <1>3, FramesStay
<1>7. Contents' = [Contents EXCEPT ![l] = Contents[m], ![m] = Abstract!Nothing]
  BY <1>1, <1>4, <1>5, <1>6 DEF Contents
<1>8. QED
  BY <1>1, <1>7 DEF Abstract!Move, MoveFrom

LEMMA CallerStutters ==
  ASSUME IInv, Caller
  PROVE  UNCHANGED Abstract!vars
<1>1. PICK b \in held \cup freed :
        /\ UNCHANGED <<block, format, capacity, length>>
        /\ \A d \in Blocks \ {b} : frames'[d] = frames[d]
  <2>1. CASE \E b \in Blocks : CallerFrees(b)
    <3>1. PICK b \in Blocks : CallerFrees(b)
      BY <2>1
    <3>2. \A d \in Blocks \ {b} : frames'[d] = frames[d]
      BY <3>1, FreeSpares DEF CallerFrees
    <3>3. QED
      BY <3>1, <3>2 DEF CallerFrees, listVars
  <2>2. CASE \E f \in Formats, c \in Capacities \cup {0} : CallerAllocates(f, c)
    BY <2>2 DEF CallerAllocates, listVars, IInv, TypeOK
  <2>3. QED
    BY <2>1, <2>2 DEF Caller
<1>2. ASSUME NEW m \in Lists
      PROVE  FramesOf(m)' = FramesOf(m)
  <2>1. block[m] # NULL => block[m] \in Blocks \ {b}
    BY DEF IInv, TypeOK, OwnedOnce
  <2>2. QED
    BY <1>1, <2>1, FramesStay
<1>3. Contents' = Contents
  BY <1>2 DEF Contents
<1>4. QED
  BY <1>1, <1>3 DEF Abstract!vars

LEMMA NothingStutters ==
  ASSUME UNCHANGED vars
  PROVE  UNCHANGED Abstract!vars
<1>1. UNCHANGED <<block, format, capacity, length, frames>>
  BY DEF vars, listVars
<1>2. Contents' = Contents
  BY <1>1 DEF Contents, FramesOf
<1>3. QED
  BY <1>1, <1>2 DEF Abstract!vars

LEMMA InitRefines == Init => Abstract!Init
<1> SUFFICES ASSUME Init
             PROVE  Abstract!Init
  OBVIOUS
<1>1. ASSUME NEW l \in Lists
      PROVE  FramesOf(l) = Abstract!Nothing
  <2>1. length[l] = 0
    BY DEF Init
  <2>2. \A i \in 0 .. 0 - 1 : FALSE
    OBVIOUS
  <2>3. 0 .. 0 - 1 = 0 .. -1
    OBVIOUS
  <2>4. QED
    BY <2>1, <2>2, <2>3 DEF FramesOf, Abstract!Nothing
<1>2. Contents = [l \in Lists |-> Abstract!Nothing]
  BY <1>1 DEF Contents
<1>3. QED
  BY <1>2 DEF Init, Abstract!Init

LEMMA StepRefines == IInv /\ [Next]_vars => [Abstract!Next]_Abstract!vars
<1> SUFFICES ASSUME IInv, [Next]_vars
             PROVE  [Abstract!Next]_Abstract!vars
  OBVIOUS
<1>1. IInv'
  BY StepKeeps
<1>2. CASE Caller
  BY <1>2, CallerStutters
<1>3. ASSUME NEW l \in Lists, Manage(l)
      PROVE  [Abstract!Next]_Abstract!vars
  <2>1. ASSUME NEW f \in Formats, NEW c \in Capacities, Allocate(l, f, c)
        PROVE  Abstract!Next
    BY <2>1, AllocateRefines DEF Abstract!Next
  <2>2. CASE Deallocate(l) \/ Release(l)
    BY <2>2, DropRefines DEF Abstract!Next
  <2>3. ASSUME NEW m \in Lists, MoveFrom(l, m)
        PROVE  Abstract!Next
    BY <2>3, MoveRefines DEF Abstract!Next
  <2>4. ASSUME NEW b \in Blocks, NEW f \in Formats, NEW c \in Capacities,
               NEW n \in Counts, Adopt(l, b, f, c, n)
        PROVE  UNCHANGED Abstract!vars
    BY <2>4, AdoptStutters, NothingStutters
  <2>5. QED
    BY <1>3, <2>1, <2>2, <2>3, <2>4 DEF Manage
<1>4. ASSUME NEW l \in Lists, Resize(l)
      PROVE  Abstract!Next
  <2>1. ASSUME NEW n \in Counts,
               SetFrameLength(l, n) \/ TrimLast(l, n) \/ InferFrameLength(l)
        PROVE  Abstract!Next
    BY <1>1, <2>1, SizingRefines DEF Abstract!Next
  <2>2. ASSUME NEW take \in Takes, NEW sizes \in Sizes(l), ReadInto(l, take, sizes)
        PROVE  Abstract!Next
    BY <1>1, <2>2, ReadIntoRefines DEF Abstract!Next
  <2>3. 0 \in Counts
    BY ListAssumption DEF Counts
  <2>4. QED
    BY <1>4, <2>1, <2>2, <2>3 DEF Resize
<1>5. ASSUME NEW l \in Lists, Edit(l)
      PROVE  Abstract!Next
  BY <1>5, InsertRefines, SilenceRefines, TrimRefines DEF Edit, Abstract!Next
<1>6. CASE UNCHANGED vars
  BY <1>6, NothingStutters
<1>7. QED
  BY <1>2, <1>3, <1>4, <1>5, <1>6 DEF Next

(* Whatever blocks malloc returns and however lists and caller pass them   *)
(* on, the lists are lists of frames that are edited in place.             *)
THEOREM ListsImplementFrameLists == Spec => ImplementsFrameLists
<1>1. Spec => []IInv
  BY InitHolds, StepKeeps, PTL DEF Spec
<1>2. QED
  BY <1>1, InitRefines, StepRefines, PTL DEF Spec, ImplementsFrameLists, Abstract!Spec

(* Each insertion and each trim leaves the frames its name and arguments   *)
(* promise.                                                                *)
THEOREM EditsKeepPromises == Spec => EditsAsPromised
<1> DEFINE Promised ==
      \A l \in Lists, o, n \in Counts :
        /\ InsertSilence(l, o, n) => Abstract!InsertSilence(l, o, n)
        /\ Trim(l, o, n) => Abstract!Trim(l, o, n)
        /\ \A m \in Lists, r \in Counts :
             Insert(l, m, r, n, o) => Abstract!Insert(l, m, r, n, o)
<1>1. Spec => []IInv
  BY InitHolds, StepKeeps, PTL DEF Spec
<1>2. IInv => Promised
  BY InsertRefines, SilenceRefines, TrimRefines
<1>3. QED
  BY <1>1, <1>2, PTL DEF EditsAsPromised
===============================================================================
