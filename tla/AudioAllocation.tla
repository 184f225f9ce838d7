-------------------------- MODULE AudioAllocation ----------------------------
(***************************************************************************)
(* How memory is laid out for audio of a format: the buffers of a           *)
(* TimestampedRingBuffer and of an AudioBufferList, each in one block.     *)
(*                                                                         *)
(* A block is its size, and the first byte and the size of each of its     *)
(* buffers, in the widths the code computes them in.                       *)
(***************************************************************************)
EXTENDS StreamDescription

CONSTANTS
  UIntBits,    \* the bits of a UInt32, 32 in the code
  SizeRange,   \* how many values a size_t has
  PointerSize, \* sizeof(void *)
  HeaderSize,  \* offsetof(AudioBufferList, mBuffers)
  BufferSize,  \* sizeof(AudioBuffer)
  Sizes        \* the numbers of frames asked for

ASSUME AllocationAssumption ==
  /\ UIntBits \in Nat \ {0}
  /\ UIntRange = 2 ^ UIntBits
  /\ SizeRange \in Nat
  /\ PointerSize \in Nat
  /\ HeaderSize \in Nat
  /\ BufferSize \in Nat
  /\ Sizes \subseteq Nat
  /\ HeaderSize + UIntRange * (PointerSize + BufferSize + 1) <= SizeRange

(* What powers of two are, which the proofs have no other source for.      *)
ASSUME PowersAssumption == \A n \in 1 .. UIntBits : 2 ^ n = 2 * 2 ^ (n - 1)

-----------------------------------------------------------------------------
(* TimestampedRingBuffer::allocate.                                        *)

(* The bits of v without leading zeros: those of a uint32_t less clz(v).   *)
BitLength(v) == CHOOSE n \in 1 .. UIntBits : 2 ^ (n - 1) <= v /\ v < 2 ^ n

BitCeil(x) == IF x < 2 THEN 1 ELSE 2 ^ BitLength(x - 1)

MaxFrames(f) ==
  LET ofBuffer == (UIntRange - 1) \div f.mBytesPerFrame
      ofBlock == ((((SizeRange - 1) \div f.mChannelsPerFrame) - PointerSize) % SizeRange)
                   \div f.mBytesPerFrame
  IN IF ofBlock < ofBuffer THEN ofBlock ELSE ofBuffer

(* Mutant: the size asked for is compared, not the one that is allocated.  *)
RingAcceptsAsAsked(f, size) ==
  /\ ~IsInterleaved(f) /\ f.mBytesPerFrame # 0 /\ f.mChannelsPerFrame # 0
  /\ size \in 2 .. 2 ^ (UIntBits - 1)
  /\ size <= MaxFrames(f)

RingAccepts(f, size) ==
  /\ ~IsInterleaved(f) /\ f.mBytesPerFrame # 0 /\ f.mChannelsPerFrame # 0
  /\ size \in 2 .. 2 ^ (UIntBits - 1)
  /\ BitCeil(size) <= MaxFrames(f)

(* What allocate reads of its format once it has called deallocate: format  *)
(* is a reference, and may be to the ring's own, which is reset by then.   *)
FormatRead(f, own) == IF own THEN Cleared ELSE f

(* Of buffers for a number of frames each, of f as it is read then.        *)
RingBlock(f, frames) ==
  LET bytes == (frames * f.mBytesPerFrame) % UIntRange
      pointers == (f.mChannelsPerFrame * PointerSize) % SizeRange
  IN [size |-> ((bytes + PointerSize) * f.mChannelsPerFrame) % SizeRange,
      start |-> pointers,
      buffers |-> [i \in 1 .. f.mChannelsPerFrame |->
                     [first |-> pointers + (i - 1) * bytes, size |-> bytes]]]

-----------------------------------------------------------------------------
(* allocateAudioBufferList.                                                *)

ListAccepts(f, frameCapacity) ==
  /\ f.mBytesPerFrame # 0 /\ f.mChannelsPerFrame # 0
  /\ frameCapacity <= (UIntRange - 1) \div f.mBytesPerFrame

BufferCount(f) == IF IsInterleaved(f) THEN 1 ELSE f.mChannelsPerFrame

(* Mutant: the block has room for one AudioBuffer.                         *)
ListBlockOfOne(f, frameCapacity) ==
  LET bytes == (frameCapacity * f.mBytesPerFrame) % UIntRange
      start == HeaderSize + BufferSize
  IN [size |-> (start + ((bytes * BufferCount(f)) % UIntRange)) % SizeRange,
      start |-> HeaderSize + BufferCount(f) * BufferSize,
      buffers |-> [i \in 1 .. BufferCount(f) |->
                     [first |-> start + ((bytes * (i - 1)) % UIntRange), size |-> bytes]]]

(* The sizes of all buffers, and the offset of each, are products of two   *)
(* UInt32.                                                                 *)
ListBlock(f, frameCapacity) ==
  LET bytes == (frameCapacity * f.mBytesPerFrame) % UIntRange
      start == HeaderSize + BufferCount(f) * BufferSize
  IN [size |-> (start + ((bytes * BufferCount(f)) % UIntRange)) % SizeRange,
      start |-> start,
      buffers |-> [i \in 1 .. BufferCount(f) |->
                     [first |-> start + ((bytes * (i - 1)) % UIntRange), size |-> bytes]]]

-----------------------------------------------------------------------------
(* Every buffer lies in the block behind what comes first in it, and no two *)
(* share a byte.                                                           *)
WellLaid(block) ==
  \A i \in DOMAIN block.buffers :
    LET b == block.buffers[i]
    IN /\ block.start <= b.first
       /\ b.first + b.size <= block.size
       /\ \A j \in DOMAIN block.buffers :
            i < j => b.first + b.size <= block.buffers[j].first

(* What allocate accepts, it has memory for: each channel of the format it  *)
(* stores, which is that of the caller or what is left of the ring's own,  *)
(* has a buffer apart from the others and from the pointers to them, for   *)
(* as many frames as the least power of two that is not less than the size *)
(* asked for.                                                              *)
RingFits(f, size, own) ==
  LET g == FormatRead(f, own)
      block == RingBlock(g, BitCeil(size))
  IN RingAccepts(f, size) =>
       /\ WellLaid(block)
       /\ DOMAIN block.buffers = 1 .. g.mChannelsPerFrame
       /\ \A i \in DOMAIN block.buffers :
            LET frames == block.buffers[i].size \div g.mBytesPerFrame
            IN frames >= size /\ \E n \in 1 .. UIntBits : frames = 2 ^ n /\ frames < 2 * size

(* Of a list that is accepted every buffer says that it has the frames      *)
(* asked for; and they lie in the block and apart just if a UInt32 counts  *)
(* the bytes of all of them.                                               *)
ListFits(f, frameCapacity) ==
  LET block == ListBlock(f, frameCapacity)
  IN ListAccepts(f, frameCapacity) =>
       /\ \A i \in DOMAIN block.buffers :
            block.buffers[i].size \div f.mBytesPerFrame = frameCapacity
       /\ WellLaid(block) <=> frameCapacity * f.mBytesPerFrame * BufferCount(f) < UIntRange

(* Rings of any format that constructors, assignments and conversions can   *)
(* lead to.                                                                *)
RingsFit == \A x \in Objects, size \in Sizes, own \in BOOLEAN : RingFits(object[x], size, own)

(* Lists of any such format.                                               *)
ListsFit == \A x \in Objects, frameCapacity \in Sizes : ListFits(object[x], frameCapacity)

-----------------------------------------------------------------------------
(* What the documentation says and the code does not do.                   *)

(* allocateAudioBufferList "Allocates and returns a variable-length         *)
(* AudioBufferList structure in a single allocation" (BufferList.hpp:19),  *)
(* with "buffer capacity in audio frames" (line 22) for what is asked for. *)
EveryListFits ==
  \A x \in Objects, frameCapacity \in Sizes :
    ListAccepts(object[x], frameCapacity) => WellLaid(ListBlock(object[x], frameCapacity))
=============================================================================
