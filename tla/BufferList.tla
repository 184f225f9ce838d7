----------------------------- MODULE BufferList ------------------------------
(***************************************************************************)
(* BufferList: lists that each own an AudioBufferList, a block of the heap *)
(* that holds a buffer per channel stream, and edit the audio in it.       *)
(*                                                                         *)
(* The buffers of a block are alike in all but mDataByteSize, since each   *)
(* loop over them does the same to every one: what they hold at one offset *)
(* is one frame here, and offsets are in frames.  A size is in bytes.      *)
(***************************************************************************)
EXTENDS Integers, FiniteSets

CONSTANTS
  Lists,         \* the BufferList objects
  Blocks,        \* the blocks std::malloc may return
  NULL,          \* no block
  Formats,       \* the AudioStreamBasicDescriptions in use
  NoFormat,      \* one that is reset
  Interleaved,   \* the formats without kAudioFormatFlagIsNonInterleaved
  Signed,        \* those of signed integer or floating-point samples
  Channels,      \* mChannelsPerFrame
  BytesPerFrame, \* mBytesPerFrame
  Capacities,    \* the frame capacities asked for
  MaxCount,      \* a bound on the other arguments
  ByteSizes,     \* the data sizes a caller may leave in a list
  Takes,         \* what the audio that is read into a list comes from
  Silence        \* a frame of zeros

ASSUME ListAssumption ==
  /\ NULL \notin Blocks
  /\ NoFormat \notin Formats
  /\ Interleaved \subseteq Formats
  /\ Signed \subseteq Formats
  /\ Channels \in [Formats -> Nat \ {0}]
  /\ BytesPerFrame \in [Formats -> Nat \ {0}]
  /\ Capacities \subseteq Nat \ {0}
  /\ MaxCount \in Nat
  /\ ByteSizes \subseteq Nat

VARIABLES
  \* the lists
  block,    \* bufferList_
  format,   \* format_
  capacity, \* frameCapacity_
  length,   \* frameLength_
  \* the heap
  frames,   \* the audio in a block, by offset
  byteSize, \* mDataByteSize of each of its buffers
  held,     \* the blocks the caller is to free
  freed,    \* the blocks that are nobody's
  loose     \* ghost: the blocks whose sizes were not set for the length of a list

listVars == <<block, format, capacity, length>>
vars == <<listVars, frames, byteSize, held, freed, loose>>

Least(a, b) == IF a < b THEN a ELSE b

Counts == 0 .. MaxCount

Frames == [take : Takes, offset : Nat] \cup {Silence}

Nothing == [i \in 0 .. -1 |-> Silence]

Buffers(f) == 1 .. IF f \in Interleaved THEN 1 ELSE Channels[f]

(* Data sizes that are those of n frames, in every buffer.                 *)
SizesOf(f, n) == [i \in Buffers(f) |-> n * BytesPerFrame[f]]

Init ==
  /\ block = [l \in Lists |-> NULL]
  /\ format = [l \in Lists |-> NoFormat]
  /\ capacity = [l \in Lists |-> 0]
  /\ length = [l \in Lists |-> 0]
  /\ frames = [b \in Blocks |-> Nothing]
  /\ byteSize = [b \in Blocks |-> Nothing]
  /\ held = {}
  /\ freed = Blocks
  /\ loose = {}

-----------------------------------------------------------------------------
(* Buffer management.                                                      *)

Emptied(contents, b) == [c \in Blocks |-> IF c = b THEN Nothing ELSE contents[c]]

(* std::free, which does nothing for NULL.                                 *)
FreedWith(b) == freed \cup ({b} \ {NULL})

Free(b) ==
  /\ frames' = Emptied(frames, b)
  /\ byteSize' = Emptied(byteSize, b)
  /\ freed' = FreedWith(b)
  /\ loose' = loose \ {b}

(* The fields of a list without a block.                                   *)
Cleared(l) ==
  /\ block' = [block EXCEPT ![l] = NULL]
  /\ format' = [format EXCEPT ![l] = NoFormat]
  /\ capacity' = [capacity EXCEPT ![l] = 0]
  /\ length' = [length EXCEPT ![l] = 0]

(* allocate(format, frameCapacity), which frees the old block first.  The   *)
(* new one has the sizes of a full list although the list is empty.  A      *)
(* call with an unusable format or capacity changes nothing.               *)
Allocate(l, f, c) ==
  \E b \in FreedWith(block[l]) :
    /\ block' = [block EXCEPT ![l] = b]
    /\ format' = [format EXCEPT ![l] = f]
    /\ capacity' = [capacity EXCEPT ![l] = c]
    /\ length' = [length EXCEPT ![l] = 0]
    /\ frames' = [Emptied(frames, block[l]) EXCEPT
                    ![b] = [i \in 0 .. c - 1 |-> Silence]]
    /\ byteSize' = [Emptied(byteSize, block[l]) EXCEPT ![b] = SizesOf(f, c)]
    /\ freed' = FreedWith(block[l]) \ {b}
    /\ loose' = (loose \ {block[l]}) \cup {b}
    /\ UNCHANGED held

(* Mutant: the block is freed and the pointer to it stays.                 *)
DeallocateKeepsPointer(l) ==
  /\ block[l] # NULL
  /\ format' = [format EXCEPT ![l] = NoFormat]
  /\ capacity' = [capacity EXCEPT ![l] = 0]
  /\ length' = [length EXCEPT ![l] = 0]
  /\ Free(block[l])
  /\ UNCHANGED <<block, held>>

(* deallocate(), what is left of an allocate whose malloc fails, and the   *)
(* destructor.                                                             *)
Deallocate(l) ==
  /\ block[l] # NULL
  /\ Cleared(l)
  /\ Free(block[l])
  /\ UNCHANGED held

(* Move assignment; with l empty, the move constructor.                    *)
MoveFrom(l, m) ==
  /\ l # m
  /\ block' = [block EXCEPT ![l] = block[m], ![m] = NULL]
  /\ format' = [format EXCEPT ![l] = format[m], ![m] = NoFormat]
  /\ capacity' = [capacity EXCEPT ![l] = capacity[m], ![m] = 0]
  /\ length' = [length EXCEPT ![l] = length[m], ![m] = 0]
  /\ Free(block[l])
  /\ UNCHANGED held

(* release(): the caller is to free the block.                             *)
Release(l) ==
  /\ block[l] # NULL
  /\ Cleared(l)
  /\ held' = held \cup {block[l]}
  /\ UNCHANGED <<frames, byteSize, freed, loose>>

CallerFrees(b) ==
  /\ b \in held
  /\ held' = held \ {b}
  /\ Free(b)
  /\ UNCHANGED listVars

(* allocateAudioBufferList called for a block of the caller's own.         *)
CallerAllocates(f, c) ==
  \E b \in freed :
    /\ held' = held \cup {b}
    /\ frames' = [frames EXCEPT ![b] = [i \in 0 .. c - 1 |-> Silence]]
    /\ byteSize' = [byteSize EXCEPT ![b] = SizesOf(f, c)]
    /\ freed' = freed \ {b}
    /\ loose' = loose \cup {b}
    /\ UNCHANGED listVars

-----------------------------------------------------------------------------
(* adopt(bufferList, format, frameCapacity, frameLength).  A call without a *)
(* list, or with an unusable format or capacity, is refused too.           *)

(* The test of mNumberBuffers, as its operators bind: the comparison with   *)
(* the flag is the condition of the ?:, whose value, a number of channels   *)
(* or 1, is the condition of the if.                                       *)
NonInterleavedFlag(f) == IF f \in Interleaved THEN 0 ELSE 32

RefusesBuffers(b, f) ==
  (IF Cardinality(DOMAIN byteSize[b]) # NonInterleavedFlag(f)
     THEN Channels[f] ELSE 1) # 0

Accepts(b, f, c, n) ==
  /\ n <= c
  /\ ~RefusesBuffers(b, f)
  /\ \A i \in DOMAIN byteSize[b] : byteSize[b][i] = n * BytesPerFrame[f]

Adopt(l, b, f, c, n) ==
  /\ b \in held
  /\ IF Accepts(b, f, c, n)
       THEN /\ block' = [block EXCEPT ![l] = b]
            /\ format' = [format EXCEPT ![l] = f]
            /\ capacity' = [capacity EXCEPT ![l] = c]
            /\ length' = [length EXCEPT ![l] = n]
            /\ frames' = Emptied(frames, block[l])
            /\ byteSize' = Emptied(byteSize, block[l])
            /\ held' = held \ {b}
            /\ freed' = FreedWith(block[l])
            /\ loose' = loose \ {block[l], b}
       ELSE UNCHANGED vars

-----------------------------------------------------------------------------
(* Lengths and sizes.                                                      *)

(* setFrameLength(n), which also sets the sizes.                           *)
SetLength(l, n) ==
  /\ length' = [length EXCEPT ![l] = n]
  /\ byteSize' = [byteSize EXCEPT ![block[l]] =
                    [i \in DOMAIN @ |-> n * BytesPerFrame[format[l]]]]
  /\ loose' = loose \ {block[l]}
  /\ UNCHANGED <<block, format, capacity, held, freed>>

(* clear() is this with 0, prepareForReading() with the capacity.          *)
SetFrameLength(l, n) ==
  /\ block[l] # NULL
  /\ n <= capacity[l]
  /\ SetLength(l, n)
  /\ UNCHANGED frames

(* The caller reads audio into the block, through operator->, and says how  *)
(* much it is in mDataByteSize.                                            *)
ReadInto(l, take, sizes) ==
  /\ block[l] # NULL
  /\ frames' = [frames EXCEPT ![block[l]] =
                  [i \in DOMAIN @ |-> [take |-> take, offset |-> i]]]
  /\ byteSize' = [byteSize EXCEPT ![block[l]] = sizes]
  /\ loose' = loose \cup {block[l]}
  /\ UNCHANGED <<listVars, held, freed>>

(* n frames are the whole frames in so many bytes of a list.               *)
WholeFrames(l, n, bytes) ==
  bytes - n * BytesPerFrame[format[l]] \in 0 .. BytesPerFrame[format[l]] - 1

(* Mutant: the size of the first buffer is taken for the sizes of all.     *)
InferFirstFrameLength(l) ==
  LET sizes == byteSize[block[l]] IN
  /\ block[l] # NULL
  /\ \E n \in 0 .. capacity[l] :
       /\ WholeFrames(l, n, sizes[1])
       /\ length' = [length EXCEPT ![l] = n]
  /\ loose' = loose \ {block[l]}
  /\ UNCHANGED <<block, format, capacity, frames, byteSize, held, freed>>

(* inferFrameLength(), which throws, and changes nothing, when there are    *)
(* more frames than the capacity or the buffers differ in size.            *)
InferFrameLength(l) ==
  LET sizes == byteSize[block[l]] IN
  /\ block[l] # NULL
  /\ \A i \in DOMAIN sizes : sizes[i] = sizes[1]
  /\ \E n \in 0 .. capacity[l] :
       /\ WholeFrames(l, n, sizes[1])
       /\ length' = [length EXCEPT ![l] = n]
  /\ loose' = loose \ {block[l]}
  /\ UNCHANGED <<block, format, capacity, frames, byteSize, held, freed>>

-----------------------------------------------------------------------------
(* Editing.                                                                *)

(* Mutant: what is copied starts at the start of the source.               *)
CopiedFromStart(target, to, source, from, n) ==
  [i \in DOMAIN target |-> IF i \in to .. to + n - 1
                             THEN source[i - to] ELSE target[i]]

(* What a copy of n frames of source to an offset of target makes of it,   *)
(* as memcpy does for memory that does not overlap and memmove for any.    *)
Copied(target, to, source, from, n) ==
  [i \in DOMAIN target |-> IF i \in to .. to + n - 1
                             THEN source[i - to + from] ELSE target[i]]

(* Mutant: the last frame is left behind.                                  *)
OpenedButLast(l, w, k) ==
  LET old == frames[block[l]] IN Copied(old, w + k, old, w, length[l] - w - 1)

(* The frames from w on, moved up by k.                                    *)
Opened(l, w, k) ==
  LET old == frames[block[l]] IN Copied(old, w + k, old, w, length[l] - w)

(* insert(buffer, readOffset, frameLength, writeOffset); with other         *)
(* arguments, prepend and append.  The frames to insert are copied after    *)
(* those behind writeOffset have moved, which matters when buffer is the    *)
(* list itself; that memcpy is then undefined if the memory overlaps, and   *)
(* copies some of the frames it reads to each place.                       *)
Insert(l, m, readOffset, frameLength, writeOffset) ==
  LET k == Least(capacity[l] - length[l],
                 Least(frameLength, length[m] - readOffset))
      opened == Opened(l, writeOffset, k)
      source == IF l = m THEN opened ELSE frames[block[m]]
      overlap == l = m /\ readOffset # writeOffset
                       /\ readOffset < writeOffset + k
                       /\ writeOffset < readOffset + k
      read == {source[i] : i \in readOffset .. readOffset + k - 1}
  IN  /\ format[l] = format[m]
      /\ readOffset <= length[m]
      /\ writeOffset <= length[l]
      /\ k > 0
      /\ \E inserted \in [0 .. k - 1 -> read] :
           /\ ~overlap =>
                inserted = [j \in 0 .. k - 1 |-> source[readOffset + j]]
           /\ frames' = [frames EXCEPT ![block[l]] =
                           Copied(opened, writeOffset, inserted, 0, k)]
      /\ SetLength(l, length[l] + k)

(* insertSilence(offset, frameLength); with other arguments,               *)
(* appendSilence and fillRemainderWithSilence.                             *)
InsertSilence(l, offset, frameLength) ==
  LET k == Least(capacity[l] - length[l], frameLength) IN
  /\ format[l] \in Signed
  /\ offset <= length[l]
  /\ k > 0
  /\ frames' = [frames EXCEPT ![block[l]] =
       Copied(Opened(l, offset, k), offset, [j \in 0 .. k - 1 |-> Silence], 0, k)]
  /\ SetLength(l, length[l] + k)

(* trim(offset, frameLength); with 0 as offset, trimFirst.                 *)
Trim(l, offset, frameLength) ==
  LET k == Least(frameLength, length[l] - offset)
      old == frames[block[l]]
  IN  /\ block[l] # NULL
      /\ offset <= length[l]
      /\ frameLength # 0
      /\ frames' = [frames EXCEPT ![block[l]] =
           Copied(old, offset, old, offset + k, length[l] - (offset + k))]
      /\ SetLength(l, length[l] - k)

(* Mutant: it takes off as many frames as it is asked to.                  *)
TrimLastAll(l, frameLength) ==
  /\ block[l] # NULL
  /\ SetLength(l, length[l] - frameLength)
  /\ UNCHANGED frames

(* trimLast(frameLength).                                                  *)
TrimLast(l, frameLength) ==
  /\ block[l] # NULL
  /\ SetLength(l, length[l] - Least(frameLength, length[l]))
  /\ UNCHANGED frames

-----------------------------------------------------------------------------
Sizes(l) == [Buffers(format[l]) -> ByteSizes]

Manage(l) ==
  \/ \E f \in Formats, c \in Capacities : Allocate(l, f, c)
  \/ Deallocate(l)
  \/ \E m \in Lists : MoveFrom(l, m)
  \/ Release(l)
  \/ \E b \in Blocks, f \in Formats, c \in Capacities, n \in Counts :
       Adopt(l, b, f, c, n)

Resize(l) ==
  \/ \E n \in Counts : SetFrameLength(l, n)
  \/ \E n \in Counts : TrimLast(l, n)
  \/ InferFrameLength(l)
  \/ /\ block[l] # NULL
     /\ \E take \in Takes, sizes \in Sizes(l) : ReadInto(l, take, sizes)

Edit(l) ==
  \/ \E m \in Lists, r, n, w \in Counts : Insert(l, m, r, n, w)
  \/ \E o, n \in Counts : InsertSilence(l, o, n)
  \/ \E o, n \in Counts : Trim(l, o, n)

Caller ==
  \/ \E b \in Blocks : CallerFrees(b)
  \/ \E f \in Formats, c \in Capacities \cup {0} : CallerAllocates(f, c)

Next == Caller \/ \E l \in Lists : Manage(l) \/ Resize(l) \/ Edit(l)

Spec == Init /\ [][Next]_vars

-----------------------------------------------------------------------------
(* Types of all the variables.                                             *)
TypeOK ==
  /\ block \in [Lists -> Blocks \cup {NULL}]
  /\ format \in [Lists -> Formats \cup {NoFormat}]
  /\ capacity \in [Lists -> Nat]
  /\ length \in [Lists -> Nat]
  /\ DOMAIN frames = Blocks
  /\ DOMAIN byteSize = Blocks
  /\ held \subseteq Blocks
  /\ freed \subseteq Blocks
  /\ loose \subseteq Blocks

(* Every block is owned once: by one list, or by the caller, or it is      *)
(* freed.  So none is freed twice, none is used after it is freed, and     *)
(* none is lost, whatever was moved, released and reallocated before.      *)
OwnedOnce ==
  /\ \A l, m \in Lists : l # m /\ block[l] = block[m] => block[l] = NULL
  /\ \A l \in Lists : block[l] \notin held \cup freed
  /\ held \cap freed = {}
  /\ \A b \in Blocks \ (held \cup freed) : \E l \in Lists : block[l] = b

(* The frames of a list are in its block, the buffers are those of its     *)
(* format, and their sizes are those of its length.                        *)
Described(l) ==
  /\ format[l] \in Formats
  /\ capacity[l] > 0
  /\ length[l] <= capacity[l]
  /\ frames[block[l]] \in [0 .. capacity[l] - 1 -> Frames]
  /\ byteSize[block[l]] \in [Buffers(format[l]) -> Nat]
  /\ block[l] \notin loose =>
       \A i \in Buffers(format[l]) : WholeFrames(l, length[l], byteSize[block[l]][i])

Sound(l) ==
  IF block[l] # NULL
    THEN Described(l)
    ELSE format[l] = NoFormat /\ capacity[l] = 0 /\ length[l] = 0

(* What each list says of its block is so, after any sequence of calls.    *)
(* Only the sizes may differ, in a block that is new or that the caller    *)
(* has written to, until the list sets or infers its length.               *)
ListInvariant == \A l \in Lists : Sound(l)

(* What a list is to its owner.                                            *)
FramesOf(l) == [i \in 0 .. length[l] - 1 |-> frames[block[l]][i]]

Contents == [l \in Lists |-> FramesOf(l)]

(* The lists are the lists of frames their owner takes them for.           *)
Abstract == INSTANCE FrameLists WITH contents <- Contents

ImplementsFrameLists == Abstract!Spec

(* Each edit is the edit of that name, of the same arguments: insert,      *)
(* insertSilence and trim leave the frames they say they leave, wherever   *)
(* memmove and memcpy have put them on the way.                            *)
EditsAsPromised ==
  [][\A l \in Lists, o, n \in Counts :
       /\ InsertSilence(l, o, n) => Abstract!InsertSilence(l, o, n)
       /\ Trim(l, o, n) => Abstract!Trim(l, o, n)
       /\ \A m \in Lists, r \in Counts :
            Insert(l, m, r, n, o) => Abstract!Insert(l, m, r, n, o)]_vars

=============================================================================
