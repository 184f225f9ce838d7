------------------------- MODULE StreamDescription ---------------------------
(***************************************************************************)
(* StreamDescription: AudioStreamBasicDescriptions, and the conversions    *)
(* between equivalent descriptions of one stream of audio.                 *)
(*                                                                         *)
(* mFormatFlags is the set of the flags in it, and mFractionalBits the     *)
(* field that kLinearPCMFormatFlagsSampleFractionMask selects from it.     *)
(* A method that fails changes nothing and is not a step.                  *)
(***************************************************************************)
EXTENDS Integers

CONSTANTS
  Objects,      \* the StreamDescription objects
  Channels,     \* the channel counts asked for
  Rates,        \* the sample rates asked for
  PCM,          \* kAudioFormatLinearPCM
  OtherFormats, \* what Core Audio fills in or a caller assigns
  BigEndian,    \* whether the platform is
  None,         \* std::nullopt
  UIntRange     \* how many values a UInt32 has, 2^32 in the code

Flags == {"Float", "BigEndian", "SignedInteger", "Packed", "AlignedHigh",
          "NonInterleaved", "NonMixable"}

CommonPCMFormats == {"float32", "float64", "int16", "int32"}

UInt == 0 .. UIntRange - 1

(* What a constructor may be asked for.                                    *)
Requests == [common : CommonPCMFormats, rate : Rates, channels : Channels,
             interleaved : BOOLEAN]

Cleared ==
  [mSampleRate |-> 0, mFormatID |-> 0, mFormatFlags |-> {}, mFractionalBits |-> 0,
   mBytesPerPacket |-> 0, mFramesPerPacket |-> 0, mBytesPerFrame |-> 0,
   mChannelsPerFrame |-> 0, mBitsPerChannel |-> 0, mReserved |-> 0]

Descriptions ==
  [mSampleRate : Rates \cup {0}, mFormatID : Nat, mFormatFlags : SUBSET Flags,
   mFractionalBits : 0 .. 63, mBytesPerPacket : UInt, mFramesPerPacket : UInt,
   mBytesPerFrame : UInt, mChannelsPerFrame : UInt, mBitsPerChannel : UInt,
   mReserved : UInt]

ASSUME StreamAssumption ==
  /\ UIntRange \in Nat /\ UIntRange > 64
  /\ \A d \in {3, 5, 7} : UIntRange % d # 0 \* as it is a power of two
  /\ Channels \subseteq UInt
  /\ Rates \subseteq Nat
  /\ PCM \in Nat \ {0}
  /\ BigEndian \in BOOLEAN
  /\ None \notin CommonPCMFormats
  /\ OtherFormats \subseteq Descriptions

VARIABLES
  object, \* the description each object holds
  origin  \* ghost: the request it goes back to through conversions, or None

vars == <<object, origin>>

-----------------------------------------------------------------------------
(* What a description f says.                                              *)

IsPCM(f) == f.mFormatID = PCM

IsInterleaved(f) == "NonInterleaved" \notin f.mFormatFlags

InterleavedChannelCount(f) == IF IsInterleaved(f) THEN f.mChannelsPerFrame ELSE 1

ChannelStreamCount(f) == IF IsInterleaved(f) THEN 1 ELSE f.mChannelsPerFrame

IsNativeEndian(f) == ("BigEndian" \in f.mFormatFlags) = BigEndian

IsFloat(f) == IsPCM(f) /\ "Float" \in f.mFormatFlags

IsInteger(f) == IsPCM(f) /\ "Float" \notin f.mFormatFlags

IsSignedInteger(f) == IsPCM(f) /\ "SignedInteger" \in f.mFormatFlags

IsImplicitlyPacked(f) ==
  ((f.mBitsPerChannel \div 8) * InterleavedChannelCount(f)) % UIntRange = f.mBytesPerFrame

SampleWordSize(f) ==
  LET n == InterleavedChannelCount(f)
  IN IF n = 0 \/ f.mBytesPerFrame % n # 0 THEN 0 ELSE f.mBytesPerFrame \div n

IsUnpackedPCM(f) == IsPCM(f) /\ (8 * SampleWordSize(f)) % UIntRange # f.mBitsPerChannel

IsUnaligned(f) == IsUnpackedPCM(f) \/ f.mBitsPerChannel % 8 # 0

IsFixedPoint(f) == IsInteger(f) /\ f.mFractionalBits > 0

(* Packed PCM in the byte order of the platform.                           *)
IsNativePacked(f) ==
  /\ f.mFramesPerPacket = 1
  /\ f.mBytesPerFrame = f.mBytesPerPacket
  /\ f.mChannelsPerFrame # 0
  /\ IsPCM(f)
  /\ IsNativeEndian(f)
  /\ IsImplicitlyPacked(f)

(* Mutant: the fraction of a fixed-point format is not looked at.          *)
IdentifyFixedPoint(f) ==
  LET signed == IsNativePacked(f) /\ IsSignedInteger(f)
      float == IsNativePacked(f) /\ ~IsSignedInteger(f) /\ IsFloat(f)
  IN CASE signed /\ f.mBitsPerChannel = 16 -> "int16"
       [] signed /\ f.mBitsPerChannel = 32 -> "int32"
       [] float /\ f.mBitsPerChannel = 32 -> "float32"
       [] float /\ f.mBitsPerChannel = 64 -> "float64"
       [] OTHER -> None

(* identifyCommonPCMFormat.  A format that is flagged as both signed        *)
(* integer and floating-point is taken for an integer one.                 *)
Identify(f) ==
  LET signed == IsNativePacked(f) /\ IsSignedInteger(f) /\ ~IsFixedPoint(f)
      float == IsNativePacked(f) /\ ~IsSignedInteger(f) /\ IsFloat(f)
  IN CASE signed /\ f.mBitsPerChannel = 16 -> "int16"
       [] signed /\ f.mBitsPerChannel = 32 -> "int32"
       [] float /\ f.mBitsPerChannel = 32 -> "float32"
       [] float /\ f.mBitsPerChannel = 64 -> "float64"
       [] OTHER -> None

-----------------------------------------------------------------------------
(* What the constructor and the conversions make.                          *)

BitsOf(common) ==
  CASE common = "int16" -> 16
    [] common \in {"int32", "float32"} -> 32
    [] common = "float64" -> 64

WordOf(common) == BitsOf(common) \div 8

(* FillOutASBDForLPCM, which sets all of f but mReserved.                  *)
FillOutASBDForLPCM(f, r) ==
  LET bytes == ((IF r.interleaved THEN r.channels ELSE 1) * WordOf(r.common)) % UIntRange
  IN [mSampleRate |-> r.rate,
      mFormatID |-> PCM,
      mFormatFlags |->
        {IF r.common \in {"float32", "float64"} THEN "Float" ELSE "SignedInteger"}
          \cup {"Packed"}
          \cup (IF BigEndian THEN {"BigEndian"} ELSE {})
          \cup (IF r.interleaved THEN {} ELSE {"NonInterleaved"}),
      mFractionalBits |-> 0,
      mBytesPerPacket |-> bytes,
      mFramesPerPacket |-> 1,
      mBytesPerFrame |-> bytes,
      mChannelsPerFrame |-> r.channels,
      mBitsPerChannel |-> BitsOf(r.common),
      mReserved |-> f.mReserved]

(* Mutant: the bytes of a packet stay those of all channels.               *)
NonInterleavedKeepsPacket(f) ==
  IF ~IsInterleaved(f)
    THEN f
    ELSE [f EXCEPT !.mFormatFlags = @ \cup {"NonInterleaved"},
                   !.mBytesPerFrame = @ \div f.mChannelsPerFrame]

NonInterleaved(f) ==
  IF ~IsInterleaved(f)
    THEN f
    ELSE [f EXCEPT !.mFormatFlags = @ \cup {"NonInterleaved"},
                   !.mBytesPerPacket = @ \div f.mChannelsPerFrame,
                   !.mBytesPerFrame = @ \div f.mChannelsPerFrame]

(* Mutant: a format that is interleaved already is multiplied again.       *)
InterleavedAgain(f) ==
  [f EXCEPT !.mFormatFlags = @ \ {"NonInterleaved"},
            !.mBytesPerPacket = (@ * f.mChannelsPerFrame) % UIntRange,
            !.mBytesPerFrame = (@ * f.mChannelsPerFrame) % UIntRange]

Interleaved(f) ==
  IF IsInterleaved(f)
    THEN f
    ELSE [f EXCEPT !.mFormatFlags = @ \ {"NonInterleaved"},
                   !.mBytesPerPacket = (@ * f.mChannelsPerFrame) % UIntRange,
                   !.mBytesPerFrame = (@ * f.mChannelsPerFrame) % UIntRange]

(* Mutant: the arguments for the rate and the channels are swapped.        *)
StandardRequestSwapped(f) ==
  [common |-> "float32", rate |-> f.mChannelsPerFrame, channels |-> f.mSampleRate,
   interleaved |-> FALSE]

(* What the standard format of f would be asked for with.                  *)
StandardRequest(f) ==
  [common |-> "float32", rate |-> f.mSampleRate, channels |-> f.mChannelsPerFrame,
   interleaved |-> FALSE]

-----------------------------------------------------------------------------
Init ==
  /\ object = [x \in Objects |-> Cleared]
  /\ origin = [x \in Objects |-> None]

Becomes(x, f, r) ==
  /\ object' = [object EXCEPT ![x] = f]
  /\ origin' = [origin EXCEPT ![x] = r]

Construct(x, r) == Becomes(x, FillOutASBDForLPCM(Cleared, r), r)

(* operator=, also what filling in an object that was left uninitialised    *)
(* amounts to.                                                             *)
Assign(x, f) == Becomes(x, f, None)

(* operator= of another StreamDescription.                                 *)
Copy(x, y) == Becomes(y, object[x], origin[x])

Reset(x) == Becomes(x, Cleared, None)

(* The request of x with another interleaving.                             *)
Rearranged(x, interleaved) ==
  IF origin[x] = None THEN None ELSE [origin[x] EXCEPT !.interleaved = interleaved]

(* The conversions of x into y, which may be x.                            *)
GetNonInterleavedEquivalent(x, y) ==
  /\ IsPCM(object[x])
  /\ object[x].mChannelsPerFrame # 0
  /\ Becomes(y, NonInterleaved(object[x]), Rearranged(x, FALSE))

GetInterleavedEquivalent(x, y) ==
  /\ IsPCM(object[x])
  /\ Becomes(y, Interleaved(object[x]), Rearranged(x, TRUE))

GetStandardEquivalent(x, y) ==
  /\ IsPCM(object[x])
  /\ Becomes(y, FillOutASBDForLPCM(object[y], StandardRequest(object[x])),
                StandardRequest(object[x]))

Next ==
  \E x \in Objects :
    \/ \E r \in Requests : Construct(x, r)
    \/ \E f \in OtherFormats : Assign(x, f)
    \/ Reset(x)
    \/ \E y \in Objects : \/ Copy(x, y)
                          \/ GetNonInterleavedEquivalent(x, y)
                          \/ GetInterleavedEquivalent(x, y)
                          \/ GetStandardEquivalent(x, y)

Spec == Init /\ [][Next]_vars

-----------------------------------------------------------------------------
TypeOK ==
  /\ object \in [Objects -> Descriptions]
  /\ origin \in [Objects -> [common : CommonPCMFormats, rate : Rates \cup {0},
                             channels : UInt, interleaved : BOOLEAN] \cup {None}]

SameFormat(f, g) == [f EXCEPT !.mReserved = 0] = [g EXCEPT !.mReserved = 0]

(* The bytes of a frame of all channels are those of a UInt32.             *)
Representable(word, channels) == word * channels < UIntRange

(* Any sequence of conversions ends in what the constructor makes for the   *)
(* same sample format and channels with the last interleaving, and is       *)
(* identified as that format.  mReserved is excepted: it is what the         *)
(* destination of the standard equivalent held before, which operator==     *)
(* compares.                                                               *)
DescribesOrigin ==
  \A x \in Objects :
    (origin[x] # None /\ Representable(WordOf(origin[x].common), origin[x].channels))
      => /\ SameFormat(object[x], FillOutASBDForLPCM(Cleared, origin[x]))
         /\ origin[x].channels # 0 => Identify(object[x]) = origin[x].common

(* PCM whose channels divide the bytes of its frames and its packets.      *)
IsWhole(f) ==
  /\ IsPCM(f)
  /\ f.mChannelsPerFrame # 0
  /\ SampleWordSize(f) # 0
  /\ f.mBytesPerPacket % InterleavedChannelCount(f) = 0
  /\ Representable(f.mBytesPerFrame, ChannelStreamCount(f))
  /\ Representable(f.mBytesPerPacket, ChannelStreamCount(f))

(* The two equivalents of a format, whatever its source, describe the same *)
(* samples as it does: words of one size, as many bytes for a frame of all *)
(* streams, the same common format if any; and one is the equivalent of    *)
(* the other.                                                              *)
EquivalentsAgree ==
  \A x \in Objects :
    LET f == object[x]
    IN IsWhole(f) =>
         /\ \A g \in {NonInterleaved(f), Interleaved(f)} :
              /\ IsWhole(g)
              /\ SampleWordSize(g) = SampleWordSize(f)
              /\ Identify(g) = Identify(f)
              /\ g.mBytesPerFrame * ChannelStreamCount(g)
                   = f.mBytesPerFrame * ChannelStreamCount(f)
         /\ NonInterleaved(Interleaved(f)) = NonInterleaved(f)
         /\ Interleaved(NonInterleaved(f)) = Interleaved(f)

(* What identifyCommonPCMFormat says of a format, the separate queries say  *)
(* too, unless it is flagged as both integer and floating-point.           *)
IdentifiedAsQueried ==
  \A x \in Objects :
    LET f == object[x]
    IN (Identify(f) # None /\ Representable(WordOf(Identify(f)), f.mChannelsPerFrame))
         => /\ SampleWordSize(f) = WordOf(Identify(f))
            /\ ~IsUnaligned(f) /\ ~IsFixedPoint(f)
            /\ {"Float", "SignedInteger"} \subseteq f.mFormatFlags
                 \/ IsFloat(f) = (Identify(f) \in {"float32", "float64"})
=============================================================================
