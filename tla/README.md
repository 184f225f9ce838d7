# CXXCoreAudio in TLA+

CXXCoreAudio is a small C++ library around Apple's Core Audio data types. Most
of it is value types; three classes hold state that is easy to get wrong.
`TimestampedRingBuffer` passes timestamped audio between two threads without a
lock, `BufferList` edits audio in place in memory it owns, and `ChannelLayout`
owns structs of variable length. The others compute: sizes of allocations,
equivalent formats, comparisons. This directory specifies them in TLA+, checks
them with TLC and proves their main properties with TLAPS.

Paths below are relative to `src/Sources/CXXCoreAudio/`; `.hpp` files are in
`include/core_audio/`.

## The system

| Part | State | Operations | What makes it correct |
|---|---|---|---|
| Time bounds queue (in `TimestampedRingBuffer`) | `timeBoundsQueue_`, 32 entries of a start time, an end time and a counter; `timeBoundsQueueCounter_` | `setTimeBounds` (a lambda of `write`), `getTimeBounds`, zeroed by `reset`, `allocate`, `deallocate` | a snapshot is a pair that was current during the call; the reader gives up only when overtaken |
| `TimestampedRingBuffer` | `buffers_`, `capacity_`, the queue | `allocate`, `deallocate`, `reset`, moves; `write` by one thread, `read` by another; `unusedSpace`, `capacity` | the published bounds vouch for the frames in the ring; a read returns the audio of its times, or silence |
| `BufferList` | a pointer to an `AudioBufferList`, format, capacity, length; the sizes inside the struct | `allocate`, `deallocate`, moves, `adopt`, `release`; `setFrameLength`, `inferFrameLength`; `insert`, `insertSilence`, `trim` and what is made of them | every block has one owner; length, sizes and capacity agree; edits are edits of a list of frames |
| `allocateAudioBufferList` | none | one allocation for a list and its buffers | the allocation holds what is laid out in it |
| `ChannelLayout` | a pointer to an `AudioChannelLayout` | construction from a tag, a bitmap or labels; copies, moves, `swap`, `reset`, `release`; comparisons (by Audio Toolbox); `mapToLayout` | every block has one owner; objects are values; a failed call leaves nothing behind |
| `TimestampedRingBuffer::allocate` (its sizes) | none | limits, rounding, one allocation for pointers and buffers | no product overflows below the limits; the allocation holds what is laid out in it |
| `StreamDescription` | a format | construction, queries, three conversions | what is converted still describes the same samples |
| `TimeStamp` | the times a moment has on several clocks | six comparisons | the comparisons agree with the order of the moments |
| `ValueRange` | two ends | containment, intersection, clamping | what the ends say holds of the values between |
| `malloc_ptr`, package, tests | | | |

They interact through memory. The two threads of a ring share the queue and the
buffers and nothing else. A caller reads from a ring into the `AudioBufferList`
of a `BufferList`: it calls `prepareForReading`, hands the list to `read`, which
writes frames and sizes, and calls `inferFrameLength`. Blocks move between
lists, and between lists and their caller, with `release`, `adopt` and moves,
and those of channel layouts with `release`, `reset`, `swap` and moves.

What is hard here is the concurrency of the ring (plain fields behind an atomic
counter, copies that overlap in time, a reader that can be overtaken at any
point), the arithmetic of rings and of in-place edits, and the ownership of the
blocks. There are no messages, no persistence and no clocks. The hazards are
listed, each at its line and with the properties that cover it, in
`PROJECT.json`.

## The modules

| Module | What it is |
|---|---|
| `BoundsRegister` | abstract: a register of time bounds with slack and patience |
| `TimeBoundsQueue` | the queue, one access to shared memory per step; implements `BoundsRegister` |
| `AudioTimeline` | abstract: a window of audio by time, written and read in a few steps |
| `TimestampedRingBuffer` | the ring, one frame copied per step; implements `AudioTimeline` |
| `FrameLists` | abstract: lists of frames edited in place |
| `BufferList` | buffer lists and the heap they share; implements `FrameLists` |
| `MCBufferList` | formats for checking `BufferList` |
| `ChannelLayout` | channel layouts and the heap they share |
| `MCChannelLayout` | tags, bitmaps and labels for checking `ChannelLayout` |
| `RingOverQueue` | the ring composed with its queue, in place of bounds of one step; implements `AudioTimeline` unless the reader is overtaken |
| `ListReading` | the list a ring is read into, byte by byte |
| `StreamDescription` | stream descriptions and their conversions |
| `AudioAllocation` | the sizes and offsets of the memory of a ring and of a list, for any such description |
| `TimeStamp` | time stamps of one stream and their comparisons |
| `ValueRange` | ranges of numbers |
| `MovedRings` | rings that no other thread uses: their memory and queues through allocation, writes, moves |
| `MCSequential` | `StreamDescription`, `AudioAllocation`, `TimeStamp`, `ValueRange`, `MovedRings` and `ListReading` side by side, for checking |
| `RingArithmetic` | lemmas on remainders |
| `TimeBoundsQueueProofs`, `TimestampedRingBufferProofs`, `RingOverQueueProofs`, `BufferListProofs`, `ChannelLayoutProofs`, `FormatProofs`, `ObjectProofs` | theorems and proofs |

Definitions whose comment begins with "Mutant" are variants of the definition
after them with a plausible bug. Each property is violated when one of them
takes its place; no specification uses them.

### TimeBoundsQueue

The writer's `setTimeBounds` (TimestampedRingBuffer.cpp:231-240) is `BeginSet`,
a `StoreField` for each of the two plain fields, `StoreUpdateCounter` and
`IncrementCounter`. The reader's `getTimeBounds` (183-197) is
`CallGetTimeBounds`, then per iteration `LoadCounter` and `CheckPasses` or
`CheckFails`, then a `LoadField` for each field. The plain fields are raced on:
each side accesses them in either order, a step per access. The variables
`intended` and `called` are ghosts. The refinement gives every snapshot an
instant: what is returned was the published pair when the counter was loaded,
unless `QueueSize - 1` pairs were published since.

The second clause of `CallHolds` and the step `GiveUp` of the register say when
the call may fail: each failed try means that the writer went all the way round
the queue between two loads of the reader. `CallsReturn` says that the call ends
all the same: each iteration of the loop is two or four steps here, any of which
the writer may overtake, and none of which waits for it.

### TimestampedRingBuffer

The state is the capacity, the ring by frame offset, the published bounds, and
the locals of one `write` and one `read`. `BeginWrite` is all that `write` does
up to its first access to the ring: it makes room, publishes the new bounds and
plans what to zero and to store. `ZeroFrame` and `StoreFrame` are one frame of a
`memset` or `memcpy`, in any order; `EndWrite` publishes the end time.
`BeginRead` is all that `read` does up to its first copy: the snapshot,
`clampTimesToBounds` and the silence around the audio, which goes to memory
nobody else sees. `FetchFrame` is one frame of a `memcpy` out of the ring, and
the last one sets the sizes. `Allocate`, `Deallocate` and `Reset` need both
threads outside (`Quiet`), as their documentation does.

Abstractions:

- *Publishing and sampling the bounds is one step each.* `TimeBoundsQueue`
  justifies this, except when 31 pairs are published while the reader is inside
  `getTimeBounds`. (Every `write` publishes at most two.) `RingOverQueue` does
  without this.
- *A frame is one datum.* The bytes of all channels at one time are copied in
  one step, so a frame is never half new. Where the real frame could be, the
  time is one a write has discarded, of which nothing is promised.
- *Steps are interleaved.* Reordering of the raced accesses across the atomic
  counter, on a weakly ordered machine, is not modelled.
- *Rejected calls are steps that change nothing*, and are left out: no frames,
  more frames than the capacity, a negative time.
- *Buffer lists fit.* The writer's list has the frames it is said to have and
  the channels of the ring; the reader's has room for what it asks for.
  `ListReading` is about the reader's list when it has not.
- *The ring is allocated with a format of its caller's.* With its own it ends up
  without buffers, see `MovedRings`.
- *Moves and the destructor* are in `MovedRings`. A move leaves its source as
  `Deallocate` does and its target with the state the source had, so the target
  goes on as the same ring.
- Sample times are bounded (`MaxTime`), and no call runs past the bound. The
  overflow of an `int64_t` is not modelled.

The ghosts `audio` (what the ring stands for), `expected` (what it stood for
when a read took its snapshot) and `lost` (which of those times a write
discarded since) say what is promised: `PublishedIntact` and `ReadIntact`.

### RingOverQueue

The ring's actions and the queue's, put together as `write` and `read` call
them. The ring's `bounds` are the entry of the queue that the counter leads to.
A `write` that discards something begins a `setTimeBounds` (`WriteThatDiscards`),
stores fields and counter (`StoreBounds`), and goes on to its plan when the
queue's counter is incremented (`RoomIsMade`, the ring's `MakeRoom`); after the
last frame it does so again (`PublishEnd` to `WriteReturns`, the ring's
`EndWrite`). A `read` takes its snapshot with the steps of `getTimeBounds`; the
last load goes on to the ring's `ReadFrom` with what was loaded, however old
that is by then.

The ghosts of a read are set when it loads the counter: that is the instant the
snapshot is of. `lapped` says that the writer came round to the entry being
loaded before the last load; then the snapshot may be a mixture, as
`torn_snapshot` shows. If its start is after its end, `std::clamp` is undefined;
the model ends the call there. `ClampDefined` says that this takes a lapped
reader. `ReadsHold` and `TimelineUnlessLapped` say that everything else the
ring promises holds with bounds sampled piece by piece. `QueueUsedAsAssumed`
closes the circle: seen from the queue, the ring is a caller as
`TimeBoundsQueue` takes it to be, which publishes only windows in order, one at
a time. `PublishedAsComputed` is why `RoomIsMade` may ask the ring for the
bounds it made: they are what is about to be published, still.

### MovedRings

Rings that no other thread uses, with all their fields: the pointer, the sizes,
the format, each entry of the queue and its counter. `AllocateRing`,
`DeallocateRing`, `ResetRing`, `MoveRing` (the move assignment, and the move
constructor into a new ring), `DestroyRing` and `WriteToRing` are the operations,
each one action with the `std::free` or `std::malloc` in it, which may fail or
return the block just freed. `deallocate` of a ring without memory does nothing
(TimestampedRingBuffer.cpp:153-170), not even to the queue, so the bounds of
such a ring have to be those of a new one already. `AllocateWithOwn` is
`allocate(ring.format(), n)`: the format is a reference, `deallocate` resets
what it refers to, and what is stored is what is left. (`BufferList::allocate`
takes its format by reference too, but hands what is left to
`allocateAudioBufferList`, which refuses it, so that the call ends as
`Deallocate` does and returns false.) Of a `write` only what it
publishes is modelled; the audio is in `TimestampedRingBuffer`. Calls that
`allocate` and `write` reject change nothing and are left out.

The ghost `promised` has the bounds that the calls of each ring promise. It goes
with the ring when it is moved. `BoundsSurvive` says that the entry the counter
leads to has these bounds and vouches for them with that counter, which is what
`getTimeBounds` checks.

### ListReading

`read` goes by the size the caller's list has (`mDataByteSize`), and sets it.
The list here is a `BufferList`'s: `SetFrameLength`, `PrepareForReading` and
`InferFrameLength` are its methods, and `Read` is every `memset` and `memcpy` of
a call (`Pieces`) with the bytes each reaches, the unsigned difference
`mDataByteSize - offset` included, which wraps around when an offset lies past
the size. The assertions of `read` (TimestampedRingBuffer.cpp:351, 382) are no
guard: they are not there in a release build. The ring is any bounds, with a
frame for each time in them, and a call may ask for as many frames as the ring's
capacity, since `read` knows no other limit; this is more than the list has.

A list that was prepared is filled as it should be. One that was not keeps the
size the last read left it, and that may be short of the memory or go beyond it.
Three ghosts say what happened since the list itself last set its sizes: how
often a call asked for more frames than the list has (`tooLong`), whether all
assertions would have held (`asserted`) and whether all bytes written were the
list's (`inside`). `ReadsStayInside` says what a caller can rely on: calls for
what the list has are safe with whatever size others left, also where the
difference wraps around, since they are bounded by what they ask for; and the
first call for more is safe if the assertions hold. Of the second this is not
so: `read` sets the size to that of the frames it found
(TimestampedRingBuffer.cpp:401), whatever room the list has, so that the size is
beyond the memory after a call for more, and the next one writes past the end
with all assertions holding. (TLC finds this when the property is `asserted =>
inside`.) After a read has left the memory, which is undefined, the model goes
on as if nothing had come of it, and promises nothing until the sizes are set
again.

### AudioAllocation

No state: `MaxFrames`, `RingBlock` and `ListBlock` are the computations of the
two allocations, in `uint32_t` and `size_t`, for a format and a number of
frames. `RingsFit` and `ListsFit` are checked for every description that the
conversions of `StreamDescription` lead to.

`allocate` reads its format again after it has called `deallocate`;
`FormatRead` is what it finds then, which is a format of zeros when it was given
the ring's own. `RingsFit` is about both: there is a buffer for each channel of
the format that is stored. In the second case that is for none; the run
`own_format` shows what becomes of the ring.

`allocateAudioBufferList` multiplies the size of a buffer by their number in a
`UInt32` (BufferList.cpp:26) and does not check this. `ListsFit` says for which
formats and numbers of frames this matters: the buffers lie in the block and
apart if, and only if, a `UInt32` counts the data of all of them. `EveryListFits`
is what the documentation says, without that condition, and is violated. For a
ring, whose `channelBufferByteSize + sizeof(void *)` is a `size_t`, there is no
such limit.

### StreamDescription

Objects hold a description each; `Construct`, `Assign`, `Copy`, `Reset` and the
three conversions are the actions, of one object into another or into itself.
The flags are a set, and the fraction of fixed-point formats a field of its own.
`FillOutASBDForLPCM` is Core Audio's, with what its documentation and its use
here say it sets. The ghost `origin` is the request a description goes back to.

What the properties leave out is what the code does differently:
`operator==` compares `mReserved`, which `getStandardEquivalent` leaves as its
destination had it; a format flagged as both floating-point and signed integer
is identified as an integer one while `isFloat` says otherwise; and
`getInterleavedEquivalent` has no check for formats without channels, which is
harmless there. An object that was default-initialised has indeterminate fields,
which is an `Assign` of anything.

### TimeStamp

Three clocks go forward at any pace. A stamp is of a moment and holds what some
of the clocks showed then; the rest of its fields are anything. The operators
compare by the first of the sample, host and word clock times that both stamps
hold. Three stamps may then compare by three of them, and `operator==` is not
transitive. What remains is `OrderFollowsTime`: `x < y` says that `x` is of an
earlier moment. The comments of the operators say the opposite ("Returns true if
other is less than this", TimeStamp.hpp:70, and the same at 73, 76 and 79); the
property follows the code, and is the opposite of what they say. The order needs the
stamps to be of one stream: nothing relates the times of clocks that were
restarted. The default constructor sets nothing (TimeStamp.hpp:19), so that a
stamp begins with any flags and times; what it is of is then not known, and the
order is about those that were set. (The comments at TimeStamp.hpp:84 and 87 say
"clear" of a flag that is the absence of all others; that is how `isValid` reads
it.) NaN is left out.

### ValueRange

Two ends, any of which may be the greater; `EndsSpeakForValues` is about valid
ranges, since `std::clamp` is undefined for others. A range begins as anything:
ValueRange.hpp:19 says that it begins as zero, but the constructor at line 20 is
defaulted and does so only for `ValueRange r{}`.

### BufferList

Lists own blocks of a heap; a block has frames by offset and a size for each of
its buffers. `held` are the blocks the caller is to free, `freed` those nobody
owns. An operation of a list is one action, calls it makes included: `Insert`
moves frames up, copies and calls `setFrameLength`. The inline overloads in
BufferList.hpp are the same actions with other arguments (`prepend`, `append`,
`trimFirst`, `clear`, `prepareForReading`, ...). `ReadInto` is the caller who
fills a list through `operator->`, as `TimestampedRingBuffer::read` does, and
leaves sizes that need not be a whole number of frames, nor the same, nor within
the capacity.

All buffers of a block are treated alike by the code, so an offset has one frame
for all of them; only the sizes are kept per buffer, because a caller may set
them apart. `malloc` returns any freed block, the one just freed included, or
fails. The size of the allocation is `AudioAllocation`'s concern. `adopt` is translated as its
operators bind, which makes it refuse every list.

An insertion of a list into itself copies frames that have just moved. The
contract (`FrameLists`) says when that is still right: when the frames start
where they are to go, or lie before it. So a list can be appended or prepended
to itself. Otherwise, only the frames around the insertion are promised. When
the `memcpy` overlaps, the outcome is left open: each place gets some frame that
was in the range read.

`ImplementsFrameLists` asks of a step that it is some step of `FrameLists`, and
so could be met by an insertion that does what another operation may do.
`EditsAsPromised` closes this gap: an insertion or a trim is the one of that
name and those arguments.

### ChannelLayout

An object has a block of the heap or none; a block has a struct and the room for
the descriptions it was allocated with. The constructors, factories, assignments,
`swap`, `reset` and `release` are one action each, with the `std::free` they end
in. `AssignStruct` is the assignment of an `AudioChannelLayout`, which may be the
caller's, another object's, or the object's own. `Assign` copies in place when
both layouts have as many descriptions, and allocates otherwise. The copy and
move constructors are the assignments to an empty object.

Abstractions:

- *Of a description only the label is modelled.* The coordinates and flags are
  copied with it and never looked at.
- *An object that does not exist is an empty one*, so that destruction is
  `reset()` and construction asks for an object that is empty.
- *Calls that run out of memory* throw and change nothing, and are left out. The
  exception is `ConstructorThrows`, where one block is allocated by then; the
  ghost `lost` has the blocks that are nobody's after it.
- *Audio Toolbox* is a constant: the tag it has for a layout, if it has one.
  `ToolboxAssumption` is what is taken from it: a tag has as many channels as
  the layout it is for.
- *The comparisons are left out.* They change nothing, and but for null layouts
  their outcome is Audio Toolbox's. When `AudioFormatGetProperty` fails, layouts
  are not equivalent, equal ones included (ChannelLayout.cpp:421-423); when it
  fails is not in the source.
- The caller may do what it likes with the layouts it owns, within their room.
  It does not touch those that an object owns, and hands `reset` only its own.

`ValuesAsPromised` is about each operation and about all other objects at once:
a block shared by mistake, freed too early, or written in place under another
object would change a value that the step has nothing to do with.

## The runs

| Run | Configuration | Shows |
|---|---|---|
| `queue` | 3 entries, 2 tries, 2 times, 5 publications | `QueueInvariant`, `CallsReturn`; the queue implements the register |
| `torn_snapshot` | 4 entries, 8 tries | *violated*: `ConsistentSnapshot` |
| `ring` | capacity 2, 2 takes, times to 4 | `RingInvariant`, `PublishedIntact`, `ReadIntact`, `WaitFree`; the ring implements the timeline |
| `read_overrun` | capacity 2 | *violated*: `ReadUndisturbed` |
| `data_size` | capacity 2 | *violated*: `AudioWithinDataSize` |
| `unused_space` | capacity 2 | *violated*: `UnusedWithinCapacity` |
| `buffer_list` | 2 lists, 2 blocks, 2 formats, capacity 2 | `OwnedOnce`, `ListInvariant`, `EditsAsPromised`; the lists implement `FrameLists` |
| `channel_layout` | 2 objects, 3 blocks, 2 tags, 2 bitmaps, to 2 labels | `OwnedOnce`, `FitsItsBlock`, `ValuesAsPromised` |
| `ring_over_queue` | capacity 2, 3 entries, 2 tries, times to 3, 3 publications, reads of 2 frames | `ClampDefined`, `ReadsHold`, `PublishedAsComputed`, `QueueUsedAsAssumed`; the composition implements the timeline unless the reader is overtaken |
| `sequential` | see below | `DescribesOrigin`, `EquivalentsAgree`, `IdentifiedAsQueried`, `RingsFit`, `ListsFit`, `OrderFollowsTime`, `OneRelation`, `EndsSpeakForValues`, `ReadsFillTheList`, `ReadsStayInside`, `SizesCanBeInferred`, `RingsOwnTheirMemory`, `BoundsSurvive` |
| `own_format` | as `sequential` | *violated*: `MemoryHasFormat` |
| `list_wrap` | as `sequential` | *violated*: `EveryListFits` |

Why the bounds are enough. Three entries and two tries let the writer lap the
reader in every try and in the middle of a copy, and five publications let it
go round more than once. Capacity 2 is the smallest the ring allows: with times
up to 4 it wraps, skips gaps, goes backwards, and is overrun in the middle of a
copy, with two takes to tell new frames from old ones of the same time. Lists of
capacity 2 move a frame when one is inserted before it, with two lists to insert
from one into the other. Two blocks are enough for either list to take over the
block the other has just freed. Two channel layouts with a third block let each
copy from the other, or from the caller, into a new block and into its own;
layouts of no, one and two labels take both ways through `Assign`, and one list
of labels and one bitmap have a tag while others have none. What needs longer
rings or lists (silence on both sides of the audio, a list inserted into itself
with the copies overlapping) is left to the proofs, which have no bounds:
`PublishedIntact`, `ReadIntact`, `ListInvariant` and `EditsAsPromised` are
theorems.

With 3 entries, the second publication after the counter is loaded already
overtakes the reader of `ring_over_queue`, and three publications let the writer
do so from either place in a `write`, and let a reader that is not overtaken be
one publication out of date; both ways to the end of a `read` are met. Without
`~lapped`, `ClampDefined` and `ReadsHold` are both violated in this instance.

`sequential` visits the states of one module at a time, since they share no
state. A `UInt32` has 128 values there, so that frames of 31 bytes, or of many
channels, overflow it: with 2 descriptions, 4 channel counts and 12 descriptions
of a caller's (samples in wider words, frames that the channels do not divide,
fixed point, no channels, compressed audio, flags that contradict each other),
each combination of conversions is within reach. A `size_t` has 16384 values,
which is as few as `AllocationAssumption` allows and makes the limit of a block
the smaller one for some formats. Sizes around the powers of two, up to beyond
the greatest. Two stamps of clocks that go forward once: any pair of moments and
of representations. Stamps and ranges begin as anything, the one while the other
is zero. Two ranges over four numbers: one inside, touching and apart
from another, ends swapped. Two rings, two blocks,
two formats and capacities 2 and 4, with queues of two entries that four
publications go round twice, over times up to 5: windows that grow, slide, jump
and go back, and rings moved into themselves, into rings that have memory and
into ones that have none. A list of 3 frames and a ring of 4 over times up to 5,
and calls for up to 4 frames: a read wraps around, has silence before, after and
on both sides, asks for more than the list has, and is followed by any others. A
`UInt32` has 16 values for lists, twice the bytes of the ring, so that a
difference below zero is a large size.

Deadlock is checked in every run.

`WaitFree` assumes weak fairness of the reader's own steps for the reader's
part and of the writer's own steps for the writer's part, and nothing of the
other thread: a thread that the system runs finishes its call. There,
`getTimeBounds` is one step. `CallsReturn` is about its loop, access by access,
and assumes weak fairness of the steps of `getTimeBounds` while a call is under
way; the writer may stop anywhere, or publish without end.

## What the violated properties show

Each of them states what the documentation says.

- `ConsistentSnapshot`: `getTimeBounds` checks the counter before it loads the
  fields and not after. A writer that publishes 31 times in between leaves it
  with a start and an end of different windows. (The run has 4 entries.)
- `ReadUndisturbed`: `read` does not look at the bounds again after it has
  copied, so it can return true with frames of other times. The original,
  `CARingBuffer`, has the same limits; the class documents itself as thread
  safe without them.
- `AudioWithinDataSize`: after a gap, `mDataByteSize` counts the audio and not
  the silence before it, so that it cuts off the end of the audio. A
  `BufferList` that then infers its length loses those frames.
- `UnusedWithinCapacity`: the ring can be filled to `capacity_` frames, one
  more than `capacity()` says, and `unusedSpace()` is then 4294967295.
- `MemoryHasFormat`: `ring.allocate(ring.format(), n)` returns true and leaves a
  ring with a capacity, no format and no buffers, since `deallocate` (line 114)
  resets the format that lines 116-140 then read.
- `EveryListFits`: with 4 GiB or more in all buffers together the block of an
  `AudioBufferList` is smaller than what is laid out in it.

More that the code does differently shows in what the checked properties leave
out, or in a theorem:

- `adopt` refuses every list, because `!=` binds more tightly than `?:`
  (BufferList.cpp:286). `AdoptRefusesAll` proves it.
- `ChannelLayout(std::vector<AudioChannelLabel>)` leaks its first layout when it
  cannot allocate the second (ChannelLayout.cpp:605): the constructor does not
  delegate, so no destructor runs. `OwnedOnce` has to set such a block apart, in
  `lost`, and says that no other step loses one.
- A second read for more frames than the list has goes past its memory with all
  assertions holding, see `ListReading`.
- The comments of the comparison operators of `TimeStamp` have the operands the
  wrong way round, see `TimeStamp`.

## The proofs

The theorems hold for all values of the constants that satisfy the modules'
assumptions: any size of the queue, any number of tries, all capacities that are
powers of two, any lists, heap, formats and capacities, any channel layouts,
tags and labels.

**The queue.** `TypeCorrect`; `InvariantHolds`, that is `Spec => []QueueInvariant`;
and `QueueImplementsRegister`. `ConsistentSnapshot` would need the fields read
in a copy to be of the counter checked, which fails once the reader is lapped;
the invariant says what is left of it: entry *k* is intact until the writer has
reached *k* + `QueueSize` - 1, and what the reader has loaded is right until
then. With the counting of spent tries this is inductive. The remainders are
dealt with in `RingArithmetic`: counters less than `QueueSize` apart have
different entries.

**The ring.** `InvariantHolds` proves `TypeOK /\ RingInvariant` by induction.
`PublishedIntact` and `ReadIntact` are not inductive: that stores do not touch
published frames needs `BoundsHold` (the bounds span at most the capacity) and
`WriteHolds` (a write under way goes only over what is past their end, and what
it has gone over is already what it will publish); that a copied frame is right
needs `ReadHolds` (times still to be fetched are in the window with their old
audio, or lost). `BoundsVouchForFrames` and `ReadsReturnTheAudio` follow, and
`RingImplementsTimeline` maps each frame copied to a stutter except for the
last one of a read.

**The ring over its queue.** What is proved of the parts is used for the whole by
instantiating the proof modules in `RingOverQueueProofs`: `Q` is the queue, `R`
the ring, and `W` the ring without a reader (its reader's variables are
constants). The invariant `Inv` cannot be that of `R`: a read that was overtaken
copies from wherever a mixture of bounds leads it, and `R` knows no such read.
So the two threads get a half each. `WriterHolds` says that the invariant of `W`
holds always, and that what the writer is storing to the queue is what it
computed from the bounds its counter stands for. A step of either thread is then
one of `W` or leaves `W` alone. `SampleHolds` says what a read knows from the
moment it loads the counter: `expected` is what was there, and what was sampled
and not lost is there still. `CopyHolds` says that a read which was not overtaken
is in a state of `R`, and its steps are then steps of `R`. Between the two stands
`LastLoadStarts`: by the queue's invariant the snapshot is the pair that was
published under the counter loaded, so that `R!ReadFrom` begins with a window in
order and with a sample that is still what it was. `ClampIsDefined` and
`ReadsReturnWhatTheySampled` follow; `PublishesWhatItComputed` needs the queue's
invariant as well, and `RingKeepsToQueue` that all bounds made are windows. For
`RingOverQueueImplementsTimeline` a write takes place when its bounds are
published and a read when it loads the counter; every other step is a stutter or
the end of a read. `CompositionAssumption` asks for a queue of more than one
entry (it has 32): with one, the writer would store to the very entry its
counter stands for.

**The lists.** `InvariantHolds` proves `TypeOK /\ OwnedOnce /\ ListInvariant` by
induction, the three together, since an edit leaves other lists alone only if
they do not share its block. `OwnershipHolds` follows, and
`ListsImplementFrameLists` maps every operation to an edit of frames, `release`
to dropping them, and the caller's dealings with its own blocks to a stutter.
`EditsKeepPromises` says the same of each edit by name. Both rest on `FilledAt`
and `TrimmedAt`, which say what the moves and copies leave at each offset.
`AdoptRefusesAll` proves that `Accepts` is false of all arguments.

`TypesHold` is read off from `InvariantHolds`.

**The channel layouts.** `TypeOK`, `OwnedOnce` and `FitsItsBlock` are inductive
together: that a copy in place fits needs the struct to be of the size of its
block, and that a step disturbs one block only needs blocks to have one owner.
There is a lemma for each operation, which says what it does to the invariant
and to every object's value; `TypesHold`, `OwnershipHolds`, `LayoutsFit` and
`ValuesKeepPromises` are read off from them.

**Stream descriptions.** The inductive invariant says of each object that it
matches its `origin`: the field-by-field description of what
`FillOutASBDForLPCM` makes for it. The conversions keep it because the words of
a frame divide by the channels and multiply back below `UIntRange`
(`NonInterleavedSound`, `InterleavedSound`). `TypesHold` and `ConversionsHold`
follow.

`EquivalentsHold` needs no origin, only types. A whole format has words: so many
bytes for each sample and so many for a channel's part of a packet (`Words`).
Both conversions keep the words and are then what `Apart` and `Together` say in
terms of them, which undo each other. That both are identified alike is the hard
part: `IsImplicitlyPacked` multiplies the bytes of a channel's bits by the
channels in a `UInt32`, so that for a format whose bits are not its words' the
product may wrap around to the right bytes, for all channels and not for one.
`PackedAlike` proves that it does not when the words are those of a whole
format, since 2^32 is not divisible by 3, 5 or 7 (`StreamAssumption`): the
difference of the two words would be 2, 4 or 8 less the smaller one, and a
multiple of 2^32 when multiplied by the channels.

**Time stamps.** What a stamp that was set holds was shown by a clock at the moment it is of.
Clocks do not run backwards, which is a relation between any two stamps: of two
moments, the later showed at least as much on every clock, and strictly more on
one only if it is strictly later. With it `OrderHolds` is one case for each
representation; `RelationsHold` needs only types.

**Ranges.** `RangesHold`: where the ends say that two ranges have a value in
common, the greater of the two lower ends is one; one range contains another if
it contains its two ends.

**A list that is read into.** A call's pieces are parts of what the caller is
told, counted in frames, and make up all of it: silence, the ring's frames up to
its end and from its start on, silence. In a list that is ready each of them goes to
all of its bytes that the list has, so that it does not matter which piece a
byte is taken from (`ListsFilled`). In any other list a piece ends where the
call does at the latest, whether or not the difference wraps around, which is in
the memory for a call of no more frames than the list has; and where the
assertions hold, it ends at the size at the latest (`ListsNotLeft`). The
invariant adds that the size is of whole frames of the list until a call asks
for more, so that it is within the memory when the first such call comes, and
what `inferFrameLength` takes (`SizesInferred`).

**Rings that are moved.** The invariant says of each ring alone that it is sound:
as a new one without memory, or with a mask and a capacity that agree, times in
order in every entry, and the promised bounds in the entry its counter leads to.
Each operation on one ring keeps it so. `OneRingChanges` is what the operations
have in common: when one ring changes, and its memory is none or nobody else's,
every block still has one owner.

**Allocation.** `RingsLaid` proves for every format and every number of frames
up to `MaxFrames` that the buffers lie in their block and apart and that nothing
overflows. `ListsLaid` proves for every description that any sequence of
constructors, assignments and conversions leads to just when the same is so of
lists: it needs only that their fields are those of a `UInt32`, which is
`TypesHold` of the descriptions. Below the limit nothing wraps around. That the
layout always fails above it is `WrappedRow`: a multiple of the bytes of a
buffer is less than a buffer past a multiple of 2^32, so that the offset of some
buffer wraps around into the first, or, if there is none behind it, the size of
the block has wrapped to less than the last buffer's end. `RingsAreLaid` has the ring's own
format as a second case, which leaves no channels (`ClearedRing`).
`RingsAreLaid` adds that `BitCeil` rounds to the least power of two: the bit
length of a number is the least exponent whose power exceeds it, and the least
element of a set of numbers exists by the library's theorem on well-founded
relations. The provers know nothing of `^`, so that a power is twice the one
before is an assumption (`PowersAssumption`), which TLC evaluates.

Only model-checked: `WaitFree` and `CallsReturn`, as liveness is beyond the prover, and the
violated properties.

## Not modelled

- *Weak memory.* `startTime_` and `endTime_` are plain fields, raced on. The
  modules interleave single accesses and let the two be accessed in either
  order, but do not reorder accesses across the acquire and release of the
  counters.
- *Overflow of sample times.* `sampleTime + frameCount` near the greatest
  `int64_t` is undefined in the code; the models' times stay below a bound.
- The comparisons of channel layouts, whose outcome is Audio Toolbox's.
- `ChannelLayout::mapToLayout` is `const`, and what it leaves in its caller's
  vector when it fails is up to Audio Toolbox.
- The rate scalar and SMPTE time of a time stamp, `packetDuration`, NaN.
- `malloc_ptr`, a deleter. `BufferList` and `ChannelLayout` model the blocks it
  holds as the caller's.
- The descriptions of formats and layouts and their tables (formatting), the
  Objective-C bridging, the package, the tests and CI.

What would come next: `mapToLayout`, for what a failure leaves in the caller's
vector, and a bound on the sample times within which the ring's arithmetic does
not overflow.
