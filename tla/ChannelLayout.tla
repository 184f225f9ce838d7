---------------------------- MODULE ChannelLayout -----------------------------
(***************************************************************************)
(* ChannelLayout: objects that each own an AudioChannelLayout, a block of  *)
(* the heap with room for as many channel descriptions as it has.          *)
(*                                                                         *)
(* Of a description only the label is modelled.  An object that is not     *)
(* constructed yet, or destroyed, is an empty one.  A call that runs out   *)
(* of memory throws and changes nothing, and is left out, except where a   *)
(* part of it is done by then.                                             *)
(***************************************************************************)
EXTENDS Integers, Sequences, FiniteSets

CONSTANTS
  Layouts,         \* the ChannelLayout objects
  Blocks,          \* the blocks std::malloc may return
  NULL,            \* no block
  None,            \* what is in none, or in a freed one
  Tags,            \* the layout tags that stand for a layout
  UseDescriptions, \* kAudioChannelLayoutTag_UseChannelDescriptions, which is 0
  UseBitmap,       \* kAudioChannelLayoutTag_UseChannelBitmap
  Bitmaps,         \* the channel bitmaps in use
  NoBits,          \* 0 as a bitmap
  Labels,          \* the channel labels in use
  Unused,          \* 0 as a label
  MaxLabels,       \* a bound on their number
  TagChannels,     \* the number of channels in a tag
  BitCount,        \* __builtin_popcount
  TagOf,           \* Audio Toolbox's tag for a layout
  NoTag            \* the outcome when it has none

LabelLists == UNION {[1 .. n -> Labels] : n \in 0 .. MaxLabels}

Structs == [tag : Tags \cup {UseDescriptions, UseBitmap},
            bitmap : Bitmaps \cup {NoBits}, labels : LabelLists]

(* audioChannelLayoutChannelCount, of a layout that is not null.           *)
ChannelCount(s) ==
  CASE s.tag = UseDescriptions -> Len(s.labels)
    [] s.tag = UseBitmap -> BitCount[s.bitmap]
    [] OTHER -> TagChannels[s.tag]

ASSUME LayoutAssumption ==
  /\ NULL \notin Blocks
  /\ None \notin Structs
  /\ NoTag \notin Tags
  /\ UseDescriptions # UseBitmap
  /\ {UseDescriptions, UseBitmap} \cap Tags = {}
  /\ Unused \in Labels
  /\ MaxLabels \in Nat
  /\ TagChannels \in [Tags -> Nat]
  /\ BitCount \in [Bitmaps \cup {NoBits} -> Nat]

(* What the code takes from Audio Toolbox: a layout has the channels of    *)
(* its tag.                                                                *)
ASSUME ToolboxAssumption ==
  /\ TagOf \in [Structs -> Tags \cup {NoTag}]
  /\ \A s \in Structs : TagOf[s] # NoTag => TagChannels[TagOf[s]] = ChannelCount(s)

VARIABLES
  block,  \* channelLayout_
  struct, \* the AudioChannelLayout in a block
  room,   \* the number of descriptions a block has room for
  held,   \* the blocks the caller is to free
  freed,  \* the blocks that are nobody's
  lost    \* ghost: the blocks a constructor that threw did not free

vars == <<block, struct, room, held, freed, lost>>

OfTag(tag) == [tag |-> tag, bitmap |-> NoBits, labels |-> << >>]

OfLabels(labels) ==
  [tag |-> UseDescriptions, bitmap |-> NoBits, labels |-> labels]

(* A block that std::memset has cleared.                                   *)
Zeroed(n) == OfLabels([i \in 1 .. n |-> Unused])

Init ==
  /\ block = [l \in Layouts |-> NULL]
  /\ struct = [b \in Blocks |-> None]
  /\ room = [b \in Blocks |-> 0]
  /\ held = {}
  /\ freed = Blocks
  /\ lost = {}

-----------------------------------------------------------------------------
(* The heap.                                                               *)

(* The block b, which malloc returned, holds s, and std::free got c, or    *)
(* NULL.                                                                   *)
Renewed(b, s, c) ==
  /\ struct' = [d \in Blocks |-> IF d = b THEN s ELSE IF d = c THEN None ELSE struct[d]]
  /\ room' = [d \in Blocks |-> IF d = b THEN Len(s.labels)
                                        ELSE IF d = c THEN 0 ELSE room[d]]
  /\ freed' = (freed \ {b}) \cup ({c} \ {NULL})

Free(c) ==
  /\ struct' = [d \in Blocks |-> IF d = c THEN None ELSE struct[d]]
  /\ room' = [d \in Blocks |-> IF d = c THEN 0 ELSE room[d]]
  /\ freed' = freed \cup ({c} \ {NULL})

(* reset(b), where b is a block the caller gives up, or NULL.  With NULL,  *)
(* the destructor.                                                         *)
Reset(l, b) ==
  /\ b \in held \cup {NULL}
  /\ block' = [block EXCEPT ![l] = b]
  /\ Free(block[l])
  /\ held' = held \ {b}
  /\ UNCHANGED lost

(* reset(new), where new is allocated by the call and holds s.             *)
Hold(l, s) ==
  \E b \in freed :
    /\ block' = [block EXCEPT ![l] = b]
    /\ Renewed(b, s, block[l])
    /\ UNCHANGED <<held, lost>>

-----------------------------------------------------------------------------
(* Constructors and factories, of an object that is none yet.              *)

(* ChannelLayout(layoutTag) and channelLayoutWithTag(layoutTag).           *)
ConstructWithTag(l, tag) ==
  /\ block[l] = NULL
  /\ Hold(l, OfTag(tag))

(* Mutant: the tag is taken whether or not there is one.                   *)
ConstructWithAnyBitmap(l, bitmap) ==
  /\ block[l] = NULL
  /\ Hold(l, OfTag(TagOf[[OfTag(UseBitmap) EXCEPT !.bitmap = bitmap]]))

(* channelLayoutWithBitmap(channelBitmap).                                 *)
ConstructWithBitmap(l, bitmap) ==
  LET plain == [OfTag(UseBitmap) EXCEPT !.bitmap = bitmap] IN
  /\ block[l] = NULL
  /\ Hold(l, IF TagOf[plain] = NoTag THEN plain ELSE OfTag(TagOf[plain]))

(* ChannelLayout(channelLabels) and channelLayoutWithChannelLabels.  Where *)
(* there is a tag for the labels, a second block takes the place of the    *)
(* first.                                                                  *)
ConstructWithLabels(l, labels) ==
  LET plain == OfLabels(labels) IN
  /\ block[l] = NULL
  /\ IF TagOf[plain] = NoTag
       THEN Hold(l, plain)
       ELSE Cardinality(freed) > 1 /\ Hold(l, OfTag(TagOf[plain]))

(* The second block of ConstructWithLabels cannot be had, and the          *)
(* constructor throws std::bad_alloc.  It does not delegate to another, so *)
(* there is no object whose destructor would free the first block.         *)
ConstructorThrows(labels) ==
  /\ TagOf[OfLabels(labels)] # NoTag
  /\ \E b \in freed :
       /\ Renewed(b, OfLabels(labels), NULL)
       /\ lost' = lost \cup {b}
  /\ UNCHANGED <<block, held>>

-----------------------------------------------------------------------------
(* Assignment, and with l empty, construction from another.                *)

(* Mutant: the old block is freed before the copy is made.                 *)
AssignStructFreesFirst(l, p) ==
  /\ p \in held \cup {block[m] : m \in Layouts} \cup {NULL}
  /\ IF p = NULL
       THEN Reset(l, NULL)
       ELSE Hold(l, IF p = block[l] THEN OfTag(UseDescriptions) ELSE struct[p])

(* operator= of an AudioChannelLayout: the caller's, another object's or    *)
(* the object's own.                                                       *)
AssignStruct(l, p) ==
  /\ p \in held \cup {block[m] : m \in Layouts} \cup {NULL}
  /\ IF p = NULL THEN Reset(l, NULL) ELSE Hold(l, struct[p])

CopiesInPlace(l, m) ==
  /\ block[l] # NULL
  /\ block[m] # NULL
  /\ Len(struct[block[l]].labels) = Len(struct[block[m]].labels)

(* Mutant: the copy is in place whenever there is a block.                 *)
AssignAnyInPlace(l, m) ==
  /\ l # m
  /\ IF block[l] # NULL /\ block[m] # NULL
       THEN /\ struct' = [struct EXCEPT ![block[l]] = struct[block[m]]]
            /\ UNCHANGED <<block, room, held, freed, lost>>
       ELSE AssignStruct(l, block[m])

(* operator= of a ChannelLayout.                                           *)
Assign(l, m) ==
  /\ l # m
  /\ IF CopiesInPlace(l, m)
       THEN /\ struct' = [struct EXCEPT ![block[l]] = struct[block[m]]]
            /\ UNCHANGED <<block, room, held, freed, lost>>
       ELSE AssignStruct(l, block[m])

(* Mutant: the source keeps its pointer.                                   *)
MoveKeepsPointer(l, m) ==
  /\ l # m
  /\ block' = [block EXCEPT ![l] = block[m]]
  /\ Free(block[l])
  /\ UNCHANGED <<held, lost>>

(* operator=(ChannelLayout &&).  It does not ask whether other is this:    *)
(* release() empties the object before reset() frees what it has.          *)
Move(l, m) ==
  LET released == [block EXCEPT ![m] = NULL] IN
  /\ block' = [released EXCEPT ![l] = block[m]]
  /\ Free(released[l])
  /\ UNCHANGED <<held, lost>>

Swap(l, m) ==
  /\ block' = [block EXCEPT ![l] = block[m], ![m] = block[l]]
  /\ UNCHANGED <<struct, room, held, freed, lost>>

(* release(): the caller is to free the block.                             *)
Release(l) ==
  /\ block[l] # NULL
  /\ block' = [block EXCEPT ![l] = NULL]
  /\ held' = held \cup {block[l]}
  /\ UNCHANGED <<struct, room, freed, lost>>

-----------------------------------------------------------------------------
(* The caller and its own blocks.                                          *)

CallerTakes(s) ==
  \E b \in freed :
    /\ Renewed(b, s, NULL)
    /\ held' = held \cup {b}
    /\ UNCHANGED <<block, lost>>

(* allocateAudioChannelLayout(n).                                          *)
CallerAllocates(n) == CallerTakes(Zeroed(n))

(* copyAudioChannelLayout(p), of a block that is not null.                 *)
CallerCopies(p) ==
  /\ p # NULL
  /\ p \in held \cup {block[m] : m \in Layouts}
  /\ CallerTakes(struct[p])

CallerWrites(b, s) ==
  /\ b \in held
  /\ Len(s.labels) = room[b]
  /\ struct' = [struct EXCEPT ![b] = s]
  /\ UNCHANGED <<block, room, held, freed, lost>>

CallerFrees(b) ==
  /\ b \in held
  /\ held' = held \ {b}
  /\ Free(b)
  /\ UNCHANGED <<block, lost>>

Caller ==
  \/ \E n \in 0 .. MaxLabels : CallerAllocates(n)
  \/ \E b \in Blocks : CallerCopies(b) \/ CallerFrees(b)
  \/ \E b \in Blocks, tag \in Tags : CallerWrites(b, OfTag(tag))
  \/ \E b \in Blocks, labels \in LabelLists : CallerWrites(b, OfLabels(labels))

Construct(l) ==
  \/ \E tag \in Tags \cup {UseDescriptions, UseBitmap} : ConstructWithTag(l, tag)
  \/ \E bitmap \in Bitmaps : ConstructWithBitmap(l, bitmap)
  \/ \E labels \in LabelLists : ConstructWithLabels(l, labels)

Change(l) ==
  \/ \E b \in Blocks \cup {NULL} : Reset(l, b) \/ AssignStruct(l, b)
  \/ \E m \in Layouts : Assign(l, m) \/ Move(l, m) \/ Swap(l, m)
  \/ Release(l)

Next ==
  \/ \E l \in Layouts : Construct(l) \/ Change(l)
  \/ \E labels \in LabelLists : ConstructorThrows(labels)
  \/ Caller

(* What the object is to its owner.                                        *)
Value(l) == IF block[l] = NULL THEN None ELSE struct[block[l]]

Spec == Init /\ [][Next]_vars

-----------------------------------------------------------------------------
(* Types of all the variables.                                             *)
TypeOK ==
  /\ block \in [Layouts -> Blocks \cup {NULL}]
  /\ struct \in [Blocks -> Structs \cup {None}]
  /\ room \in [Blocks -> Nat]
  /\ held \subseteq Blocks
  /\ freed \subseteq Blocks
  /\ lost \subseteq Blocks

(* Every block is owned once: by one object, or by the caller, or it is    *)
(* freed, or it is one that a constructor lost.  So none is freed twice,   *)
(* used after it is freed, or lost otherwise.                              *)
OwnedOnce ==
  /\ \A l, m \in Layouts : l # m /\ block[l] = block[m] => block[l] = NULL
  /\ \A l \in Layouts : block[l] \notin held \cup freed \cup lost
  /\ held \cap freed = {}
  /\ lost \cap (held \cup freed) = {}
  /\ \A b \in Blocks \ (held \cup freed \cup lost) : \E l \in Layouts : block[l] = b

(* A layout in use is in a block with room for just the descriptions it    *)
(* says it has, although assignment overwrites blocks in place.            *)
FitsItsBlock ==
  \A b \in Blocks \ freed : struct[b] \in Structs /\ Len(struct[b].labels) = room[b]

(* Objects are values.  What is assigned, moved or swapped arrives, also   *)
(* when the source is the object itself or its own struct, and no step of  *)
(* one object, or of the caller, changes the value of another.             *)
ValuesAsPromised ==
  [][/\ \A l, m \in Layouts :
          /\ Assign(l, m) => Value(l)' = Value(m)
          /\ Move(l, m) => Value(l)' = Value(m) /\ (l # m => Value(m)' = None)
          /\ Swap(l, m) => Value(l)' = Value(m) /\ Value(m)' = Value(l)
     /\ \A l \in Layouts, p \in Blocks :
          AssignStruct(l, p) => Value(l)' = struct[p]
     /\ \A l \in Layouts, labels \in LabelLists :
          ConstructWithLabels(l, labels) => ChannelCount(Value(l)') = Len(labels)
     /\ \A k \in Layouts :
          \/ Value(k)' = Value(k)
          \/ Construct(k)
          \/ Change(k)
          \/ \E l \in Layouts : Move(l, k) \/ Swap(l, k)]_vars

=============================================================================
