---------------------------- MODULE FormatProofs -----------------------------
(***************************************************************************)
(* Conversions of stream descriptions, and the memory laid out for them,   *)
(* for any channels, rates, platform and width of a UInt32.                *)
(***************************************************************************)
EXTENDS AudioAllocation, RingArithmetic, WellFoundedInduction, TLAPS

Origins == [common : CommonPCMFormats, rate : Rates \cup {0}, channels : UInt,
            interleaved : BOOLEAN]

(* A description is what the constructor makes of r, but for mReserved.    *)
Matches(f, r) == SameFormat(f, FillOutASBDForLPCM(Cleared, r))

Sound(f, r) ==
  (r # None /\ Representable(WordOf(r.common), r.channels)) => Matches(f, r)

IInv == TypeOK /\ \A x \in Objects : Sound(object[x], origin[x])

(* A number in range is not reduced.                                       *)
LEMMA NoWrap ==
  ASSUME NEW n \in Nat \ {0}, NEW a \in Nat, a < n
  PROVE  a % n = a
OBVIOUS

-----------------------------------------------------------------------------
(* Descriptions.                                                           *)

LEMMA BitsAndWords ==
  ASSUME NEW common \in CommonPCMFormats
  PROVE  /\ BitsOf(common) \in {16, 32, 64}
         /\ WordOf(common) \in {2, 4, 8}
         /\ BitsOf(common) \in UInt
         /\ BitsOf(common) \div 8 = WordOf(common)
BY StreamAssumption DEF CommonPCMFormats, BitsOf, WordOf, UInt

LEMMA Wrapped ==
  ASSUME NEW a \in Nat
  PROVE  a % UIntRange \in UInt /\ (a < UIntRange => a % UIntRange = a)
BY StreamAssumption DEF UInt

LEMMA MadeTyped ==
  ASSUME NEW f \in Descriptions, NEW r \in Origins
  PROVE  FillOutASBDForLPCM(f, r) \in Descriptions
<1> DEFINE bytes == ((IF r.interleaved THEN r.channels ELSE 1) * WordOf(r.common)) % UIntRange
           flags == {IF r.common \in {"float32", "float64"} THEN "Float" ELSE "SignedInteger"}
                      \cup {"Packed"}
                      \cup (IF BigEndian THEN {"BigEndian"} ELSE {})
                      \cup (IF r.interleaved THEN {} ELSE {"NonInterleaved"})
<1>1. r.common \in CommonPCMFormats /\ r.channels \in UInt /\ r.rate \in Rates \cup {0}
  BY DEF Origins
<1>2. (IF r.interleaved THEN r.channels ELSE 1) * WordOf(r.common) \in Nat
  BY <1>1, BitsAndWords, StreamAssumption DEF UInt
<1>3. bytes \in UInt
  BY <1>2, Wrapped
<1>4. flags \in SUBSET Flags
  BY DEF Flags
<1>5. 1 \in UInt /\ f.mReserved \in UInt /\ PCM \in Nat /\ 0 \in 0 .. 63
  BY StreamAssumption DEF UInt, Descriptions
<1>6. BitsOf(r.common) \in UInt
  BY <1>1, BitsAndWords
<1> HIDE DEF bytes, flags
<1>7. [mSampleRate |-> r.rate, mFormatID |-> PCM, mFormatFlags |-> flags,
       mFractionalBits |-> 0, mBytesPerPacket |-> bytes, mFramesPerPacket |-> 1,
       mBytesPerFrame |-> bytes, mChannelsPerFrame |-> r.channels,
       mBitsPerChannel |-> BitsOf(r.common), mReserved |-> f.mReserved] \in Descriptions
  BY <1>1, <1>3, <1>4, <1>5, <1>6 DEF Descriptions
<1> QED
  BY <1>7 DEF FillOutASBDForLPCM, bytes, flags

LEMMA ClearedTyped == Cleared \in Descriptions
BY StreamAssumption DEF Cleared, Descriptions, UInt

(* Equality of all fields but mReserved.                                   *)
LEMMA FieldByField ==
  ASSUME NEW f \in Descriptions, NEW g \in Descriptions
  PROVE  SameFormat(f, g) <=>
           /\ f.mSampleRate = g.mSampleRate
           /\ f.mFormatID = g.mFormatID
           /\ f.mFormatFlags = g.mFormatFlags
           /\ f.mFractionalBits = g.mFractionalBits
           /\ f.mBytesPerPacket = g.mBytesPerPacket
           /\ f.mFramesPerPacket = g.mFramesPerPacket
           /\ f.mBytesPerFrame = g.mBytesPerFrame
           /\ f.mChannelsPerFrame = g.mChannelsPerFrame
           /\ f.mBitsPerChannel = g.mBitsPerChannel
BY DEF Descriptions, SameFormat

(* What a match says of the fields.                                        *)
LEMMA MatchedFields ==
  ASSUME NEW f \in Descriptions, NEW r \in Origins
  PROVE  Matches(f, r) <=>
           /\ f.mSampleRate = r.rate
           /\ f.mFormatID = PCM
           /\ f.mFormatFlags =
                {IF r.common \in {"float32", "float64"} THEN "Float" ELSE "SignedInteger"}
                  \cup {"Packed"}
                  \cup (IF BigEndian THEN {"BigEndian"} ELSE {})
                  \cup (IF r.interleaved THEN {} ELSE {"NonInterleaved"})
           /\ f.mFractionalBits = 0
           /\ f.mBytesPerPacket =
                ((IF r.interleaved THEN r.channels ELSE 1) * WordOf(r.common)) % UIntRange
           /\ f.mFramesPerPacket = 1
           /\ f.mBytesPerFrame =
                ((IF r.interleaved THEN r.channels ELSE 1) * WordOf(r.common)) % UIntRange
           /\ f.mChannelsPerFrame = r.channels
           /\ f.mBitsPerChannel = BitsOf(r.common)
<1>1. FillOutASBDForLPCM(Cleared, r) \in Descriptions
  BY ClearedTyped, MadeTyped
<1> DEFINE g == FillOutASBDForLPCM(Cleared, r)
<1>2. /\ g.mSampleRate = r.rate
      /\ g.mFormatID = PCM
      /\ g.mFormatFlags =
           {IF r.common \in {"float32", "float64"} THEN "Float" ELSE "SignedInteger"}
             \cup {"Packed"}
             \cup (IF BigEndian THEN {"BigEndian"} ELSE {})
             \cup (IF r.interleaved THEN {} ELSE {"NonInterleaved"})
      /\ g.mFractionalBits = 0
      /\ g.mBytesPerPacket =
           ((IF r.interleaved THEN r.channels ELSE 1) * WordOf(r.common)) % UIntRange
      /\ g.mFramesPerPacket = 1
      /\ g.mBytesPerFrame =
           ((IF r.interleaved THEN r.channels ELSE 1) * WordOf(r.common)) % UIntRange
      /\ g.mChannelsPerFrame = r.channels
      /\ g.mBitsPerChannel = BitsOf(r.common)
  BY DEF FillOutASBDForLPCM
<1>3. g \in Descriptions /\ (Matches(f, r) <=> SameFormat(f, g))
  BY <1>1 DEF Matches
<1> HIDE DEF g
<1> QED
  BY <1>2, <1>3, FieldByField

(* What a frame takes, of one channel or of all.                           *)
LEMMA FrameBytes ==
  ASSUME NEW common \in CommonPCMFormats, NEW n \in UInt,
         Representable(WordOf(common), n)
  PROVE  /\ (1 * WordOf(common)) % UIntRange = WordOf(common)
         /\ (n * WordOf(common)) % UIntRange = n * WordOf(common)
         /\ n # 0 => (n * WordOf(common)) \div n = WordOf(common)
         /\ (WordOf(common) * n) % UIntRange = n * WordOf(common)
<1>1. PICK w \in {2, 4, 8} : w = WordOf(common)
  BY BitsAndWords
<1>2. n \in Nat /\ UIntRange \in Nat /\ UIntRange > 64
  BY StreamAssumption DEF UInt
<1>3. w * n < UIntRange
  BY <1>1 DEF Representable
<1>4. n * w = w * n /\ n * w \in Nat
  BY <1>1, <1>2
<1>5. (1 * w) % UIntRange = w
  BY <1>1, <1>2
<1>6. (n * w) % UIntRange = n * w /\ (w * n) % UIntRange = n * w
  BY <1>2, <1>3, <1>4, Wrapped
<1>7. n # 0 => (n * w) \div n = w
  BY <1>1, <1>2
<1> QED
  BY <1>1, <1>5, <1>6, <1>7

(* A description that matches is identified as what it was asked for as.   *)
LEMMA MatchedIdentified ==
  ASSUME NEW f \in Descriptions, NEW r \in Origins, Matches(f, r),
         Representable(WordOf(r.common), r.channels), r.channels # 0
  PROVE  Identify(f) = r.common
<1>1. r.common \in CommonPCMFormats /\ r.channels \in UInt /\ r.interleaved \in BOOLEAN
  BY DEF Origins
<1>2. /\ f.mFormatID = PCM /\ f.mFractionalBits = 0 /\ f.mFramesPerPacket = 1
      /\ f.mBytesPerFrame = f.mBytesPerPacket
      /\ f.mChannelsPerFrame = r.channels
      /\ f.mBitsPerChannel = BitsOf(r.common)
      /\ f.mBytesPerFrame =
           ((IF r.interleaved THEN r.channels ELSE 1) * WordOf(r.common)) % UIntRange
  BY MatchedFields
<1>3. /\ "BigEndian" \in f.mFormatFlags <=> BigEndian
      /\ "NonInterleaved" \in f.mFormatFlags <=> ~r.interleaved
      /\ "Float" \in f.mFormatFlags <=> r.common \in {"float32", "float64"}
      /\ "SignedInteger" \in f.mFormatFlags <=> r.common \notin {"float32", "float64"}
  BY MatchedFields
<1>4. IsImplicitlyPacked(f)
  <2>1. CASE r.interleaved
    <3>1. InterleavedChannelCount(f) = r.channels
      BY <2>1, <1>2, <1>3 DEF InterleavedChannelCount, IsInterleaved
    <3>2. f.mBytesPerFrame = (WordOf(r.common) * r.channels) % UIntRange
      BY <2>1, <1>1, <1>2, FrameBytes
    <3> QED
      BY <3>1, <3>2, <1>1, <1>2, BitsAndWords DEF IsImplicitlyPacked
  <2>2. CASE ~r.interleaved
    <3>1. InterleavedChannelCount(f) = 1
      BY <2>2, <1>3 DEF InterleavedChannelCount, IsInterleaved
    <3>2. f.mBytesPerFrame = (1 * WordOf(r.common)) % UIntRange
      BY <2>2, <1>2
    <3>3. WordOf(r.common) * 1 = 1 * WordOf(r.common)
      BY <1>1, BitsAndWords
    <3> QED
      BY <3>1, <3>2, <3>3, <1>1, <1>2, BitsAndWords DEF IsImplicitlyPacked
  <2> QED
    BY <2>1, <2>2, <1>1
<1>5. IsNativeEndian(f)
  BY <1>3, StreamAssumption DEF IsNativeEndian
<1>6. IsNativePacked(f) /\ IsPCM(f) /\ ~IsFixedPoint(f)
  BY <1>2, <1>4, <1>5 DEF IsNativePacked, IsPCM, IsFixedPoint
<1>7. /\ IsSignedInteger(f) <=> r.common \in {"int16", "int32"}
      /\ IsFloat(f) <=> r.common \in {"float32", "float64"}
  BY <1>1, <1>3, <1>6 DEF IsSignedInteger, IsFloat, CommonPCMFormats
<1>8. CASE r.common = "int16"
  BY <1>2, <1>6, <1>7, <1>8 DEF Identify, BitsOf
<1>9. CASE r.common = "int32"
  BY <1>2, <1>6, <1>7, <1>9 DEF Identify, BitsOf
<1>10. CASE r.common = "float32"
  BY <1>2, <1>6, <1>7, <1>10 DEF Identify, BitsOf
<1>11. CASE r.common = "float64"
  BY <1>2, <1>6, <1>7, <1>11 DEF Identify, BitsOf
<1> QED
  BY <1>1, <1>8, <1>9, <1>10, <1>11 DEF CommonPCMFormats

-----------------------------------------------------------------------------
(* Conversions.                                                            *)

LEMMA NonInterleavedSound ==
  ASSUME NEW f \in Descriptions, f.mChannelsPerFrame # 0
  PROVE  /\ NonInterleaved(f) \in Descriptions
         /\ \A r \in Origins :
              Representable(WordOf(r.common), r.channels) /\ Matches(f, r)
                => Matches(NonInterleaved(f), [r EXCEPT !.interleaved = FALSE])
<1>1. /\ f.mFormatFlags \in SUBSET Flags /\ f.mChannelsPerFrame \in UInt \ {0}
      /\ f.mBytesPerPacket \in UInt /\ f.mBytesPerFrame \in UInt
  BY DEF Descriptions
<1> DEFINE flags == f.mFormatFlags \cup {"NonInterleaved"}
           packet == f.mBytesPerPacket \div f.mChannelsPerFrame
           frame == f.mBytesPerFrame \div f.mChannelsPerFrame
           g == [f EXCEPT !.mFormatFlags = flags, !.mBytesPerPacket = packet,
                          !.mBytesPerFrame = frame]
<1>2. flags \in SUBSET Flags
  BY <1>1 DEF Flags
<1>3. \A a \in UInt, n \in UInt \ {0} : a \div n \in UInt
  BY StreamAssumption DEF UInt
<1>4. packet \in UInt /\ frame \in UInt
  BY <1>1, <1>3
<1>5. NonInterleaved(f) = IF IsInterleaved(f) THEN g ELSE f
  BY DEF NonInterleaved
<1>6. g \in Descriptions
  <2> HIDE DEF flags, packet, frame
  <2> QED
    BY <1>2, <1>4 DEF Descriptions
<1>7. /\ g.mSampleRate = f.mSampleRate /\ g.mFormatID = f.mFormatID
      /\ g.mFormatFlags = flags /\ g.mFractionalBits = f.mFractionalBits
      /\ g.mBytesPerPacket = packet /\ g.mFramesPerPacket = f.mFramesPerPacket
      /\ g.mBytesPerFrame = frame /\ g.mChannelsPerFrame = f.mChannelsPerFrame
      /\ g.mBitsPerChannel = f.mBitsPerChannel
  <2> HIDE DEF flags, packet, frame
  <2> QED
    BY DEF Descriptions
<1> HIDE DEF g
<1>8. ASSUME NEW r \in Origins, Representable(WordOf(r.common), r.channels), Matches(f, r)
      PROVE  Matches(NonInterleaved(f), [r EXCEPT !.interleaved = FALSE])
  <2> DEFINE q == [r EXCEPT !.interleaved = FALSE]
  <2>1. /\ q \in Origins /\ q.common = r.common /\ q.rate = r.rate
        /\ q.channels = r.channels /\ q.interleaved = FALSE
    BY DEF Origins
  <2>2. r.common \in CommonPCMFormats /\ r.channels \in UInt /\ r.interleaved \in BOOLEAN
    BY DEF Origins
  <2>3. "NonInterleaved" \in f.mFormatFlags <=> ~r.interleaved
    BY <1>8, MatchedFields
  <2>4. CASE r.interleaved
    <3>1. f.mBytesPerPacket = r.channels * WordOf(r.common)
          /\ f.mBytesPerFrame = r.channels * WordOf(r.common)
          /\ f.mChannelsPerFrame = r.channels
      BY <2>2, <2>4, <1>8, MatchedFields, FrameBytes
    <3>2. packet = WordOf(r.common) /\ frame = WordOf(r.common)
      BY <3>1, <2>2, <1>1, <1>8, FrameBytes
    <3>3. (1 * WordOf(r.common)) % UIntRange = WordOf(r.common)
      BY <2>2, <1>8, FrameBytes
    <3>4. flags = {IF r.common \in {"float32", "float64"} THEN "Float" ELSE "SignedInteger"}
                    \cup {"Packed"}
                    \cup (IF BigEndian THEN {"BigEndian"} ELSE {})
                    \cup {"NonInterleaved"}
      BY <2>4, <1>8, MatchedFields
    <3> HIDE DEF q, flags, packet, frame
    <3>5. Matches(g, q)
      BY <3>1, <3>2, <3>3, <3>4, <2>1, <1>6, <1>7, <1>8, MatchedFields
    <3> QED
      BY <3>5, <2>3, <2>4, <1>5 DEF q, IsInterleaved
  <2>5. CASE ~r.interleaved
    <3> HIDE DEF q
    <3>1. Matches(f, q)
      BY <2>1, <2>5, <1>8, MatchedFields
    <3> QED
      BY <3>1, <2>3, <2>5, <1>5 DEF q, IsInterleaved
  <2> QED
    BY <2>2, <2>4, <2>5
<1> QED
  BY <1>5, <1>6, <1>8

LEMMA InterleavedSound ==
  ASSUME NEW f \in Descriptions
  PROVE  /\ Interleaved(f) \in Descriptions
         /\ \A r \in Origins :
              Representable(WordOf(r.common), r.channels) /\ Matches(f, r)
                => Matches(Interleaved(f), [r EXCEPT !.interleaved = TRUE])
<1>1. /\ f.mFormatFlags \in SUBSET Flags /\ f.mChannelsPerFrame \in UInt
      /\ f.mBytesPerPacket \in UInt /\ f.mBytesPerFrame \in UInt
  BY DEF Descriptions
<1> DEFINE flags == f.mFormatFlags \ {"NonInterleaved"}
           packet == (f.mBytesPerPacket * f.mChannelsPerFrame) % UIntRange
           frame == (f.mBytesPerFrame * f.mChannelsPerFrame) % UIntRange
           g == [f EXCEPT !.mFormatFlags = flags, !.mBytesPerPacket = packet,
                          !.mBytesPerFrame = frame]
<1>2. flags \in SUBSET Flags
  BY <1>1
<1>3. \A a, n \in UInt : a * n \in Nat
  BY StreamAssumption DEF UInt
<1>4. packet \in UInt /\ frame \in UInt
  BY <1>1, <1>3, Wrapped
<1>5. Interleaved(f) = IF IsInterleaved(f) THEN f ELSE g
  BY DEF Interleaved
<1>6. g \in Descriptions
  <2> HIDE DEF flags, packet, frame
  <2> QED
    BY <1>2, <1>4 DEF Descriptions
<1>7. /\ g.mSampleRate = f.mSampleRate /\ g.mFormatID = f.mFormatID
      /\ g.mFormatFlags = flags /\ g.mFractionalBits = f.mFractionalBits
      /\ g.mBytesPerPacket = packet /\ g.mFramesPerPacket = f.mFramesPerPacket
      /\ g.mBytesPerFrame = frame /\ g.mChannelsPerFrame = f.mChannelsPerFrame
      /\ g.mBitsPerChannel = f.mBitsPerChannel
  <2> HIDE DEF flags, packet, frame
  <2> QED
    BY DEF Descriptions
<1> HIDE DEF g
<1>8. ASSUME NEW r \in Origins, Representable(WordOf(r.common), r.channels), Matches(f, r)
      PROVE  Matches(Interleaved(f), [r EXCEPT !.interleaved = TRUE])
  <2> DEFINE q == [r EXCEPT !.interleaved = TRUE]
  <2>1. /\ q \in Origins /\ q.common = r.common /\ q.rate = r.rate
        /\ q.channels = r.channels /\ q.interleaved = TRUE
    BY DEF Origins
  <2>2. r.common \in CommonPCMFormats /\ r.channels \in UInt /\ r.interleaved \in BOOLEAN
    BY DEF Origins
  <2>3. "NonInterleaved" \in f.mFormatFlags <=> ~r.interleaved
    BY <1>8, MatchedFields
  <2>4. CASE ~r.interleaved
    <3>1. f.mBytesPerPacket = WordOf(r.common) /\ f.mBytesPerFrame = WordOf(r.common)
          /\ f.mChannelsPerFrame = r.channels
      BY <2>2, <2>4, <1>8, MatchedFields, FrameBytes
    <3>2. (WordOf(r.common) * r.channels) % UIntRange
            = (r.channels * WordOf(r.common)) % UIntRange
      BY <2>2, <1>8, FrameBytes
    <3>3. packet = (r.channels * WordOf(r.common)) % UIntRange
          /\ frame = (r.channels * WordOf(r.common)) % UIntRange
      BY <3>1, <3>2
    <3>4. flags = {IF r.common \in {"float32", "float64"} THEN "Float" ELSE "SignedInteger"}
                    \cup {"Packed"}
                    \cup (IF BigEndian THEN {"BigEndian"} ELSE {})
      BY <2>4, <1>8, MatchedFields
    <3> HIDE DEF q, flags, packet, frame
    <3>5. Matches(g, q)
      BY <3>1, <3>3, <3>4, <2>1, <1>6, <1>7, <1>8, MatchedFields
    <3> QED
      BY <3>5, <2>3, <2>4, <1>5 DEF q, IsInterleaved
  <2>5. CASE r.interleaved
    <3> HIDE DEF q
    <3>1. Matches(f, q)
      BY <2>1, <2>5, <1>8, MatchedFields
    <3> QED
      BY <3>1, <2>3, <2>5, <1>5 DEF q, IsInterleaved
  <2> QED
    BY <2>2, <2>4, <2>5
<1> QED
  BY <1>5, <1>6, <1>8

-----------------------------------------------------------------------------
(* The invariant.                                                          *)

LEMMA InitIInv == Init => IInv
BY ClearedTyped DEF Init, IInv, TypeOK, Sound

(* An object that becomes a description its origin is right about.         *)
LEMMA BecomesIInv ==
  ASSUME IInv, NEW x \in Objects, NEW f \in Descriptions,
         NEW r \in Origins \cup {None}, Sound(f, r), Becomes(x, f, r)
  PROVE  IInv'
<1>1. /\ object \in [Objects -> Descriptions]
      /\ origin \in [Objects -> Origins \cup {None}]
  BY DEF IInv, TypeOK, Origins
<1>2. /\ object' = [object EXCEPT ![x] = f]
      /\ origin' = [origin EXCEPT ![x] = r]
  BY DEF Becomes
<1>3. TypeOK'
  BY <1>1, <1>2 DEF TypeOK, Origins
<1>4. ASSUME NEW y \in Objects
      PROVE  Sound(object'[y], origin'[y])
  <2>1. CASE y = x
    BY <2>1, <1>1, <1>2
  <2>2. CASE y # x
    <3>1. object'[y] = object[y] /\ origin'[y] = origin[y]
      BY <2>2, <1>1, <1>2
    <3>2. Sound(object[y], origin[y])
      BY DEF IInv
    <3> QED
      BY <3>1, <3>2
  <2> QED
    BY <2>1, <2>2
<1> QED
  BY <1>3, <1>4 DEF IInv

(* Filling in leaves nothing of what was there but mReserved.              *)
LEMMA MadeSound ==
  ASSUME NEW f \in Descriptions, NEW r \in Origins
  PROVE  Sound(FillOutASBDForLPCM(f, r), r)
<1>1. FillOutASBDForLPCM(f, r) \in Descriptions
  BY MadeTyped
<1>2. FillOutASBDForLPCM(Cleared, r) \in Descriptions
  BY ClearedTyped, MadeTyped
<1>3. SameFormat(FillOutASBDForLPCM(f, r), FillOutASBDForLPCM(Cleared, r))
  BY <1>1, <1>2, FieldByField DEF FillOutASBDForLPCM
<1> QED
  BY <1>3 DEF Sound, Matches

LEMMA ConvertIInv ==
  ASSUME IInv, NEW x \in Objects, NEW y \in Objects,
         \/ Copy(x, y)
         \/ GetNonInterleavedEquivalent(x, y)
         \/ GetInterleavedEquivalent(x, y)
         \/ GetStandardEquivalent(x, y)
  PROVE  IInv'
<1>1. /\ object[x] \in Descriptions /\ object[y] \in Descriptions
      /\ origin[x] \in Origins \cup {None}
      /\ Sound(object[x], origin[x])
  BY DEF IInv, TypeOK, Origins
<1>2. CASE GetNonInterleavedEquivalent(x, y)
  <2>1. /\ object[x].mChannelsPerFrame # 0
        /\ Becomes(y, NonInterleaved(object[x]), Rearranged(x, FALSE))
    BY <1>2 DEF GetNonInterleavedEquivalent
  <2>2. NonInterleaved(object[x]) \in Descriptions
    BY <2>1, <1>1, NonInterleavedSound
  <2>3. CASE origin[x] = None
    <3>1. Rearranged(x, FALSE) = None
      BY <2>3 DEF Rearranged
    <3>2. Sound(NonInterleaved(object[x]), None)
      BY DEF Sound
    <3> QED
      BY <3>1, <3>2, <2>1, <2>2, BecomesIInv
  <2>4. CASE origin[x] # None
    <3> DEFINE r == origin[x]
               q == [r EXCEPT !.interleaved = FALSE]
    <3>1. Rearranged(x, FALSE) = q /\ r \in Origins
      BY <2>4, <1>1 DEF Rearranged
    <3> HIDE DEF r
    <3>2. q \in Origins /\ q.common = r.common /\ q.channels = r.channels
      BY <3>1 DEF Origins
    <3>3. Representable(WordOf(r.common), r.channels) => Matches(NonInterleaved(object[x]), q)
      BY <3>1, <2>1, <2>4, <1>1, NonInterleavedSound DEF Sound, r
    <3> HIDE DEF q
    <3>4. Sound(NonInterleaved(object[x]), q)
      BY <3>2, <3>3 DEF Sound
    <3> QED
      BY <3>1, <3>2, <3>4, <2>1, <2>2, BecomesIInv
  <2> QED
    BY <2>3, <2>4
<1>3. CASE GetInterleavedEquivalent(x, y)
  <2>1. Becomes(y, Interleaved(object[x]), Rearranged(x, TRUE))
    BY <1>3 DEF GetInterleavedEquivalent
  <2>2. Interleaved(object[x]) \in Descriptions
    BY <1>1, InterleavedSound
  <2>3. CASE origin[x] = None
    <3>1. Rearranged(x, TRUE) = None
      BY <2>3 DEF Rearranged
    <3>2. Sound(Interleaved(object[x]), None)
      BY DEF Sound
    <3> QED
      BY <3>1, <3>2, <2>1, <2>2, BecomesIInv
  <2>4. CASE origin[x] # None
    <3> DEFINE r == origin[x]
               q == [r EXCEPT !.interleaved = TRUE]
    <3>1. Rearranged(x, TRUE) = q /\ r \in Origins
      BY <2>4, <1>1 DEF Rearranged
    <3> HIDE DEF r
    <3>2. q \in Origins /\ q.common = r.common /\ q.channels = r.channels
      BY <3>1 DEF Origins
    <3>3. Representable(WordOf(r.common), r.channels) => Matches(Interleaved(object[x]), q)
      BY <3>1, <2>4, <1>1, InterleavedSound DEF Sound, r
    <3> HIDE DEF q
    <3>4. Sound(Interleaved(object[x]), q)
      BY <3>2, <3>3 DEF Sound
    <3> QED
      BY <3>1, <3>2, <3>4, <2>1, <2>2, BecomesIInv
  <2> QED
    BY <2>3, <2>4
<1>4. CASE GetStandardEquivalent(x, y)
  <2> DEFINE r == StandardRequest(object[x])
  <2>1. Becomes(y, FillOutASBDForLPCM(object[y], r), r)
    BY <1>4 DEF GetStandardEquivalent
  <2>2. r \in Origins
    BY <1>1 DEF StandardRequest, Origins, Descriptions, CommonPCMFormats
  <2> HIDE DEF r
  <2> QED
    BY <2>1, <2>2, <1>1, MadeTyped, MadeSound, BecomesIInv
<1>5. CASE Copy(x, y)
  <2>1. object[x] \in Descriptions /\ Sound(object[x], origin[x])
    BY <1>1
  <2>2. Becomes(y, object[x], origin[x])
    BY <1>5 DEF Copy
  <2>3. origin[x] \in Origins \cup {None}
    BY <1>1
  <2> QED
    BY <2>1, <2>2, <2>3, BecomesIInv
<1> QED
  BY <1>2, <1>3, <1>4, <1>5

LEMMA NextIInv == IInv /\ [Next]_vars => IInv'
<1> SUFFICES ASSUME IInv, [Next]_vars
             PROVE  IInv'
  OBVIOUS
<1>1. ASSUME NEW x \in Objects, NEW r \in Requests, Construct(x, r)
      PROVE  IInv'
  <2>1. r \in Origins
    BY StreamAssumption DEF Requests, Origins
  <2>2. Becomes(x, FillOutASBDForLPCM(Cleared, r), r)
    BY <1>1 DEF Construct
  <2> QED
    BY <2>1, <2>2, ClearedTyped, MadeTyped, MadeSound, BecomesIInv
<1>2. ASSUME NEW x \in Objects, NEW f \in Descriptions, Becomes(x, f, None)
      PROVE  IInv'
  <2>1. Sound(f, None)
    BY DEF Sound
  <2> QED
    BY <1>2, <2>1, BecomesIInv
<1>3. ASSUME NEW x \in Objects, NEW f \in OtherFormats, Assign(x, f)
      PROVE  IInv'
  BY <1>2, <1>3, StreamAssumption DEF Assign
<1>4. ASSUME NEW x \in Objects, Reset(x)
      PROVE  IInv'
  BY <1>2, <1>4, ClearedTyped DEF Reset
<1>5. CASE UNCHANGED vars
  BY <1>5 DEF IInv, TypeOK, Sound, vars
<1> QED
  BY <1>1, <1>3, <1>4, <1>5, ConvertIInv DEF Next

LEMMA IInvHolds == Spec => []IInv
BY InitIInv, NextIInv, PTL DEF Spec

(* Whatever is assigned, made and converted, each field stays in its type. *)
THEOREM TypesHold == Spec => []TypeOK
<1>1. IInv => TypeOK
  BY DEF IInv
<1> QED
  BY <1>1, IInvHolds, PTL

(* However often and in whatever order a description is converted, it is    *)
(* what the constructor would have made, and is identified as such.        *)
THEOREM ConversionsHold == Spec => []DescribesOrigin
<1>1. IInv => DescribesOrigin
  <2> SUFFICES ASSUME IInv, NEW x \in Objects, origin[x] # None,
                      Representable(WordOf(origin[x].common), origin[x].channels)
               PROVE  /\ SameFormat(object[x], FillOutASBDForLPCM(Cleared, origin[x]))
                      /\ origin[x].channels # 0 => Identify(object[x]) = origin[x].common
    BY DEF DescribesOrigin
  <2>1. object[x] \in Descriptions /\ origin[x] \in Origins
    BY DEF IInv, TypeOK, Origins
  <2>2. Matches(object[x], origin[x])
    BY DEF IInv, Sound
  <2> QED
    BY <2>1, <2>2, MatchedIdentified DEF Matches
<1> QED
  BY <1>1, IInvHolds, PTL

-----------------------------------------------------------------------------
(* Equivalents of formats whose channels divide their frames and packets.  *)

LEMMA MultipleDivides ==
  ASSUME NEW n \in Nat \ {0}, NEW w \in Nat
  PROVE  (n * w) % n = 0 /\ (n * w) \div n = w
<1> DEFINE a == n * w
<1>1. a \in Int /\ a = n * w + 0 /\ 0 \in 0 .. n - 1 /\ w \in Int
  OBVIOUS
<1> HIDE DEF a
<1>2. a % n = 0 /\ a \div n = w
  BY <1>1, ModUnique, DivUnique
<1> QED
  BY <1>2 DEF a

LEMMA ExactQuotient ==
  ASSUME NEW n \in Nat \ {0}, NEW a \in Nat, a % n = 0
  PROVE  a \div n \in Nat /\ a = n * (a \div n)
<1>1. a \div n \in Int /\ a = n * (a \div n)
  BY DivMod
<1> DEFINE q == a \div n
<1>2. q \in Int /\ a = n * q
  BY <1>1
<1> HIDE DEF q
<1>3. q \in Nat
  <2>1. CASE q <= -1
    <3>1. n * q <= -n
      BY <2>1, <1>2
    <3> QED
      BY <3>1, <1>2
  <2> QED
    BY <2>1, <1>2
<1> QED
  BY <1>2, <1>3 DEF q

(* A product that a prime divides has a factor that it divides.            *)
LEMMA SmallPrimeDivides ==
  ASSUME NEW d \in {3, 5, 7}, NEW k \in Nat, NEW u \in Nat, NEW c \in Nat,
         d * c = k * u, u % d # 0
  PROVE  \E a \in Nat : k = d * a
<1>1. /\ k \div d \in Nat /\ u \div d \in Nat
      /\ k = d * (k \div d) + (k % d) /\ k % d \in 0 .. d - 1
      /\ u = d * (u \div d) + (u % d) /\ u % d \in 0 .. d - 1
  OBVIOUS
<1> DEFINE a == k \div d
           b == u \div d
           r == k % d
           s == u % d
<1>2. /\ a \in Nat /\ b \in Nat /\ r \in 0 .. d - 1 /\ s \in 1 .. d - 1
      /\ k = d * a + r /\ u = d * b + s
  BY <1>1
<1> HIDE DEF a, b, r, s
<1>3. PICK e \in Int : d * e = r * s
  <2>1. k * u = d * (a * u + r * b) + r * s
    <3>1. k * u = (d * a) * u + r * u
      BY <1>2
    <3>2. r * u = d * (r * b) + r * s
      BY <1>2
    <3>3. (d * a) * u = d * (a * u)
      BY <1>2
    <3>4. a * u \in Int /\ r * b \in Int /\ r * s \in Int
      BY <1>2
    <3> QED
      BY <3>1, <3>2, <3>3, <3>4
  <2> DEFINE x == a * u + r * b
             y == r * s
  <2>2. x \in Int /\ y \in Int
    BY <1>2
  <2>3. d * c = d * x + y
    BY <2>1
  <2> HIDE DEF x, y
  <2>4. d * (c - x) = y /\ c - x \in Int
    BY <2>2, <2>3
  <2> QED
    BY <2>4 DEF y
<1>4. r = 0
  BY <1>2, <1>3
<1> QED
  BY <1>2, <1>4

(* Packed for one channel is packed for all, also where the product of the *)
(* word and the channels is reduced to a UInt32.                           *)
LEMMA PackedAlike ==
  ASSUME NEW q \in {2, 4, 8}, NEW w \in Nat \ {0}, NEW c \in Nat \ {0},
         w * c < UIntRange
  PROVE  (q * c) % UIntRange = c * w <=> (q * 1) % UIntRange = w
<1>1. UIntRange \in Nat /\ UIntRange > 64 /\ \A d \in {3, 5, 7} : UIntRange % d # 0
  BY StreamAssumption
<1> DEFINE u == UIntRange
           all == q * c
<1>2. q * 1 = q /\ q % u = q
  BY <1>1, NoWrap
<1>3. c * w = w * c /\ c * w \in Nat /\ all \in Nat
  OBVIOUS
<1>4. CASE q = w
  <2>1. all % u = all
    BY <1>1, <1>3, <1>4, NoWrap
  <2> QED
    BY <2>1, <1>2, <1>3, <1>4
<1>5. ASSUME all % u = c * w, q # w
      PROVE  FALSE
  <2>1. all \div u \in Int /\ all = u * (all \div u) + c * w
    BY <1>1, <1>3, <1>5, DivMod
  <2> DEFINE k == all \div u
  <2>2. k \in Int /\ q * c = u * k + c * w
    BY <2>1
  <2> HIDE DEF k, u, all
  <2>3. u \in Nat \ {0} /\ w * c < u /\ \A d \in {3, 5, 7} : u % d # 0
    BY <1>1 DEF u
  <2>4. k >= 0
    <3>1. CASE k <= -1
      <4>1. u * k <= -u
        BY <2>2, <2>3, <3>1
      <4>2. q * c >= 0 /\ c * w = w * c /\ q * c \in Int /\ u * k \in Int /\ w * c \in Int
        BY <2>2, <2>3
      <4> QED
        BY <4>1, <4>2, <2>2, <2>3
    <3> QED
      BY <3>1, <2>2
  <2>5. k # 0
    <3>1. CASE k = 0
      <4>1. q * c = w * c
        BY <3>1, <2>2, <2>3, <1>3
      <4>2. (q - w) * c = 0 /\ q - w \in Int
        BY <4>1
      <4> QED
        BY <4>2, <1>5
    <3> QED
      BY <3>1
  <2>6. k >= 1 /\ k \in Nat /\ u * k >= u /\ u * k = k * u
    BY <2>2, <2>3, <2>4, <2>5
  <2>7. w < q
    <3>1. CASE w >= q
      <4>1. PICK e \in Nat : w = q + e
        <5>1. w - q \in Nat /\ w = q + (w - q)
          BY <3>1
        <5> QED
          BY <5>1
      <4>2. w * c = q * c + e * c /\ e * c \in Nat
        BY <4>1
      <4>3. q * c \in Int /\ u * k \in Int /\ c * w = w * c /\ w * c \in Int
        BY <2>2, <2>3
      <4> QED
        BY <4>2, <4>3, <2>2, <2>3, <2>6
    <3> QED
      BY <3>1
  <2> DEFINE d == q - w
  <2>8. d \in 1 .. 7 /\ d * c = k * u /\ q = d + w
    <3>1. (q - w) * c = q * c - w * c /\ c * w = w * c
      OBVIOUS
    <3>2. q * c \in Int /\ w * c \in Int /\ k * u \in Int
      BY <2>3, <2>6
    <3> QED
      BY <3>1, <3>2, <2>2, <2>6, <2>7
  <2> HIDE DEF d
  <2>9. ASSUME NEW j \in Nat \ {0}, NEW a \in Nat \ {0}, j <= w, j * c = a * u
        PROVE  FALSE
    <3>1. a * u >= u
      BY <2>3
    <3>2. PICK e \in Nat : w = j + e
      <4>1. w - j \in Nat /\ w = j + (w - j)
        BY <2>9
      <4> QED
        BY <4>1
    <3>3. w * c = j * c + e * c /\ e * c \in Nat
      BY <3>2
    <3>4. j * c \in Int /\ w * c \in Int /\ a * u \in Int
      BY <2>3
    <3> QED
      BY <3>1, <3>3, <3>4, <2>3, <2>9
  <2>10. CASE d \in {1, 2, 4}
    <3>1. d <= w
      BY <2>8, <2>10
    <3> QED
      BY <3>1, <2>6, <2>8, <2>9
  <2>11. CASE d \in {3, 5, 7}
    <3>1. PICK a \in Nat : k = d * a
      BY <2>3, <2>6, <2>8, <2>11, SmallPrimeDivides
    <3>2. d * c = d * (a * u) /\ a * u \in Int
      BY <3>1, <2>3, <2>8, <2>11
    <3> DEFINE x == a * u
    <3>3. x \in Int /\ d * c = d * x
      BY <3>2
    <3> HIDE DEF x
    <3>4. c = x
      BY <3>3, <2>11
    <3>5. 1 * c = a * u /\ a # 0
      BY <3>1, <3>4, <2>6, <2>11 DEF x
    <3> QED
      BY <3>5, <2>9
  <2>12. CASE d = 6
    <3>1. 3 * (2 * c) = k * u /\ 2 * c \in Nat
      BY <2>8, <2>12
    <3>2. PICK a \in Nat : k = 3 * a
      <4> DEFINE y == 2 * c
      <4>1. y \in Nat /\ 3 * y = k * u /\ u \in Nat /\ u % 3 # 0
        BY <3>1, <2>3
      <4> HIDE DEF y
      <4> QED
        BY <4>1, <2>6, SmallPrimeDivides
    <3>3. 2 * c = a * u /\ a # 0
      <4> DEFINE x == a * u
      <4>1. x \in Int /\ 3 * (2 * c) = 3 * x
        BY <3>1, <3>2, <2>3
      <4> HIDE DEF x
      <4>2. 2 * c = x
        BY <4>1
      <4> QED
        BY <4>2, <3>2, <2>6 DEF x
    <3>4. w = 2
      BY <2>8, <2>12
    <3> QED
      BY <3>3, <3>4, <2>9
  <2> QED
    BY <2>8, <2>10, <2>11, <2>12
<1> QED
  BY <1>2, <1>4, <1>5

(* Each sample takes w bytes, and each channel has p bytes of a packet.    *)
Words(f, w, p) ==
  /\ IsPCM(f)
  /\ f.mChannelsPerFrame # 0
  /\ f.mBytesPerFrame = InterleavedChannelCount(f) * w
  /\ f.mBytesPerPacket = InterleavedChannelCount(f) * p
  /\ Representable(w, f.mChannelsPerFrame)
  /\ Representable(p, f.mChannelsPerFrame)

(* What f is with its channels apart, and together.                        *)
Apart(f, w, p) ==
  [f EXCEPT !.mFormatFlags = @ \cup {"NonInterleaved"},
            !.mBytesPerPacket = p, !.mBytesPerFrame = w]

Together(f, w, p) ==
  [f EXCEPT !.mFormatFlags = @ \ {"NonInterleaved"},
            !.mBytesPerPacket = f.mChannelsPerFrame * p,
            !.mBytesPerFrame = f.mChannelsPerFrame * w]

(* A whole format has words.                                               *)
LEMMA WholeHasWords ==
  ASSUME NEW f \in Descriptions, IsWhole(f)
  PROVE  \E w \in Nat \ {0}, p \in Nat : Words(f, w, p)
<1> DEFINE n == InterleavedChannelCount(f)
           c == f.mChannelsPerFrame
           w == f.mBytesPerFrame \div n
           p == f.mBytesPerPacket \div n
<1>1. /\ f.mChannelsPerFrame \in Nat \ {0} /\ f.mBytesPerFrame \in Nat
      /\ f.mBytesPerPacket \in Nat
  BY StreamAssumption DEF IsWhole, Descriptions, UInt
<1>2. /\ n \in Nat \ {0}
      /\ IsInterleaved(f) => n = c /\ ChannelStreamCount(f) = 1
      /\ ~IsInterleaved(f) => n = 1 /\ ChannelStreamCount(f) = c
  BY <1>1 DEF InterleavedChannelCount, ChannelStreamCount
<1> HIDE DEF n, c
<1>3. f.mBytesPerFrame % n = 0 /\ w # 0 /\ f.mBytesPerPacket % n = 0
  BY <1>2 DEF IsWhole, SampleWordSize, n
<1>4. /\ w \in Nat /\ f.mBytesPerFrame = n * w
      /\ p \in Nat /\ f.mBytesPerPacket = n * p
  BY <1>1, <1>2, <1>3, ExactQuotient
<1> HIDE DEF w, p
<1>5. w * c < UIntRange /\ p * c < UIntRange
  <2>1. c \in Nat
    BY <1>1 DEF c
  <2>2. /\ (n * w) * ChannelStreamCount(f) < UIntRange
        /\ (n * p) * ChannelStreamCount(f) < UIntRange
    BY <1>4 DEF IsWhole, Representable
  <2>3. CASE IsInterleaved(f)
    BY <2>1, <2>2, <2>3, <1>2, <1>4
  <2>4. CASE ~IsInterleaved(f)
    BY <2>1, <2>2, <2>4, <1>2, <1>4
  <2> QED
    BY <2>3, <2>4
<1>6. Words(f, w, p)
  BY <1>1, <1>4, <1>5 DEF Words, Representable, IsWhole, n, c
<1> QED
  BY <1>3, <1>4, <1>6

(* A format with words is whole, and these are the words it says it has.   *)
LEMMA WordsAreWhole ==
  ASSUME NEW f \in Descriptions, NEW w \in Nat \ {0}, NEW p \in Nat, Words(f, w, p)
  PROVE  /\ IsWhole(f)
         /\ SampleWordSize(f) = w
         /\ f.mBytesPerFrame * ChannelStreamCount(f) = w * f.mChannelsPerFrame
<1> DEFINE n == InterleavedChannelCount(f)
           c == f.mChannelsPerFrame
           s == ChannelStreamCount(f)
<1>1. c \in Nat \ {0}
  BY StreamAssumption DEF Words, Descriptions, UInt
<1>2. /\ n \in Nat \ {0}
      /\ (n = c /\ s = 1) \/ (n = 1 /\ s = c)
  BY <1>1 DEF InterleavedChannelCount, ChannelStreamCount
<1>3. f.mBytesPerFrame = n * w /\ f.mBytesPerPacket = n * p
  BY DEF Words
<1>4. w * c < UIntRange /\ p * c < UIntRange /\ IsPCM(f)
  BY DEF Words, Representable
<1> HIDE DEF n, c, s
<1>5. (n * w) % n = 0 /\ (n * w) \div n = w /\ (n * p) % n = 0
  BY <1>2, MultipleDivides
<1>6. SampleWordSize(f) = w
  BY <1>2, <1>3, <1>5 DEF SampleWordSize, n
<1>7. (n * w) * s = w * c /\ (n * p) * s = p * c
  <2>1. CASE n = c /\ s = 1
    BY <2>1, <1>1
  <2>2. CASE n = 1 /\ s = c
    BY <2>2, <1>1
  <2> QED
    BY <2>1, <2>2, <1>2
<1>8. IsWhole(f)
  BY <1>1, <1>3, <1>4, <1>5, <1>6, <1>7 DEF IsWhole, Representable, n, c, s
<1> QED
  BY <1>3, <1>6, <1>7, <1>8 DEF c, s

(* The channels apart, and together, are of the same words; and taking     *)
(* them apart forgets that they were together, and the other way round.    *)
LEMMA Rearranging ==
  ASSUME NEW f \in Descriptions, NEW w \in Nat \ {0}, NEW p \in Nat, Words(f, w, p)
  PROVE  /\ Apart(f, w, p) \in Descriptions /\ Together(f, w, p) \in Descriptions
         /\ Words(Apart(f, w, p), w, p) /\ Words(Together(f, w, p), w, p)
         /\ Apart(Together(f, w, p), w, p) = Apart(f, w, p)
         /\ Together(Apart(f, w, p), w, p) = Together(f, w, p)
<1> DEFINE c == f.mChannelsPerFrame
           g == Apart(f, w, p)
           h == Together(f, w, p)
<1>1. /\ c \in Nat \ {0} /\ w * c < UIntRange /\ p * c < UIntRange
      /\ f.mFormatID = PCM /\ f.mFormatFlags \in SUBSET Flags
      /\ UIntRange \in Nat
  BY StreamAssumption DEF Words, Representable, IsPCM, Descriptions, UInt
<1>2. \A a \in Nat : a * c < UIntRange => a \in UInt /\ c * a \in UInt
  <2> TAKE a \in Nat
  <2> HAVE a * c < UIntRange
  <2> HIDE DEF c
  <2>1. PICK m \in Nat : c = m + 1
    <3>1. c - 1 \in Nat /\ c = (c - 1) + 1
      BY <1>1
    <3> QED
      BY <3>1
  <2>2. a * c = a * m + a /\ a * m \in Nat /\ c * a = a * c
    BY <2>1
  <2> QED
    BY <2>2, <1>1 DEF UInt
<1>3. w \in UInt /\ p \in UInt /\ c * w \in UInt /\ c * p \in UInt
  BY <1>1, <1>2
<1>4. "NonInterleaved" \in Flags
  BY DEF Flags
<1>5. /\ g \in Descriptions /\ g.mFormatFlags = f.mFormatFlags \cup {"NonInterleaved"}
      /\ g.mBytesPerFrame = w /\ g.mBytesPerPacket = p
      /\ g.mChannelsPerFrame = c /\ g.mFormatID = PCM
  <2>1. f.mFormatFlags \cup {"NonInterleaved"} \in SUBSET Flags
    BY <1>1, <1>4
  <2> QED
    BY <2>1, <1>1, <1>3 DEF Apart, Descriptions
<1>6. /\ h \in Descriptions /\ h.mFormatFlags = f.mFormatFlags \ {"NonInterleaved"}
      /\ h.mBytesPerFrame = c * w /\ h.mBytesPerPacket = c * p
      /\ h.mChannelsPerFrame = c /\ h.mFormatID = PCM
  <2>1. f.mFormatFlags \ {"NonInterleaved"} \in SUBSET Flags
    BY <1>1
  <2> DEFINE frame == c * w
             packet == c * p
  <2>2. frame \in UInt /\ packet \in UInt
    BY <1>3
  <2>3. h = [f EXCEPT !.mFormatFlags = @ \ {"NonInterleaved"},
                      !.mBytesPerPacket = packet, !.mBytesPerFrame = frame]
    BY DEF Together
  <2> HIDE DEF frame, packet, h
  <2>4. /\ h \in Descriptions /\ h.mFormatFlags = f.mFormatFlags \ {"NonInterleaved"}
        /\ h.mBytesPerFrame = frame /\ h.mBytesPerPacket = packet
        /\ h.mChannelsPerFrame = c /\ h.mFormatID = PCM
    BY <2>1, <2>2, <2>3, <1>1 DEF Descriptions
  <2> QED
    BY <2>4 DEF frame, packet
<1>7. Apart(h, w, p) = g /\ Together(g, w, p) = h
  <2>1. /\ (f.mFormatFlags \ {"NonInterleaved"}) \cup {"NonInterleaved"}
             = f.mFormatFlags \cup {"NonInterleaved"}
        /\ (f.mFormatFlags \cup {"NonInterleaved"}) \ {"NonInterleaved"}
             = f.mFormatFlags \ {"NonInterleaved"}
    OBVIOUS
  <2> DEFINE frame == c * w
             packet == c * p
  <2>2. /\ Together(f, w, p) = [f EXCEPT !.mFormatFlags = @ \ {"NonInterleaved"},
                                         !.mBytesPerPacket = packet, !.mBytesPerFrame = frame]
        /\ Together(g, w, p) = [g EXCEPT !.mFormatFlags = @ \ {"NonInterleaved"},
                                         !.mBytesPerPacket = packet, !.mBytesPerFrame = frame]
    BY <1>5 DEF Together
  <2>3. /\ g = [f EXCEPT !.mFormatFlags = @ \cup {"NonInterleaved"},
                         !.mBytesPerPacket = p, !.mBytesPerFrame = w]
        /\ Apart(h, w, p) = [h EXCEPT !.mFormatFlags = @ \cup {"NonInterleaved"},
                                      !.mBytesPerPacket = p, !.mBytesPerFrame = w]
    BY DEF Apart
  <2> HIDE DEF frame, packet, g, h, c
  <2>4. h = [f EXCEPT !.mFormatFlags = @ \ {"NonInterleaved"},
                      !.mBytesPerPacket = packet, !.mBytesPerFrame = frame]
    BY <2>2 DEF h
  <2>5. Apart(h, w, p) = g
    <3>1. Apart(h, w, p) = [h EXCEPT !.mFormatFlags = f.mFormatFlags \cup {"NonInterleaved"},
                                     !.mBytesPerPacket = p, !.mBytesPerFrame = w]
      BY <2>1, <2>3, <1>6
    <3> QED
      BY <3>1, <2>3, <2>4 DEF Descriptions
  <2>6. Together(g, w, p) = h
    <3>1. Together(g, w, p) = [g EXCEPT !.mFormatFlags = f.mFormatFlags \ {"NonInterleaved"},
                                        !.mBytesPerPacket = packet, !.mBytesPerFrame = frame]
      BY <2>1, <2>2, <1>5
    <3> QED
      BY <3>1, <2>3, <2>4 DEF Descriptions
  <2> QED
    BY <2>5, <2>6
<1> HIDE DEF g, h
<1>8. /\ InterleavedChannelCount(g) = 1
      /\ InterleavedChannelCount(h) = c
  BY <1>5, <1>6 DEF InterleavedChannelCount, IsInterleaved
<1>9. Words(g, w, p) /\ Words(h, w, p)
  <2>1. 1 * w = w /\ 1 * p = p
    OBVIOUS
  <2> HIDE DEF c
  <2> QED
    BY <2>1, <1>1, <1>5, <1>6, <1>8 DEF Words, Representable, IsPCM
<1> QED
  BY <1>5, <1>6, <1>7, <1>9 DEF g, h

(* The equivalents of a format with words.                                 *)
LEMMA EquivalentsOfWords ==
  ASSUME NEW f \in Descriptions, NEW w \in Nat \ {0}, NEW p \in Nat, Words(f, w, p)
  PROVE  NonInterleaved(f) = Apart(f, w, p) /\ Interleaved(f) = Together(f, w, p)
<1> DEFINE c == f.mChannelsPerFrame
<1>1. /\ c \in Nat \ {0} /\ w * c < UIntRange /\ p * c < UIntRange
      /\ f.mFormatFlags \in SUBSET Flags
      /\ UIntRange \in Nat \ {0}
  BY StreamAssumption DEF Words, Representable, Descriptions, UInt
<1>2. CASE IsInterleaved(f)
  <2>1. f.mBytesPerFrame = c * w /\ f.mBytesPerPacket = c * p
    BY <1>2 DEF Words, InterleavedChannelCount
  <2>2. f.mBytesPerFrame \div c = w /\ f.mBytesPerPacket \div c = p
    <3> HIDE DEF c
    <3>1. (c * w) \div c = w /\ (c * p) \div c = p
      BY <1>1, MultipleDivides
    <3> QED
      BY <2>1, <3>1
  <2>3. NonInterleaved(f) = Apart(f, w, p)
    BY <2>2, <1>2 DEF NonInterleaved, Apart
  <2>4. f.mFormatFlags \ {"NonInterleaved"} = f.mFormatFlags
    BY <1>1, <1>2 DEF IsInterleaved
  <2> DEFINE frame == c * w
             packet == c * p
  <2>5. Together(f, w, p) = [f EXCEPT !.mFormatFlags = f.mFormatFlags,
                                      !.mBytesPerPacket = packet, !.mBytesPerFrame = frame]
    BY <2>4 DEF Together
  <2>6. f.mBytesPerFrame = frame /\ f.mBytesPerPacket = packet
    BY <2>1
  <2> HIDE DEF frame, packet
  <2>7. Together(f, w, p) = f
    BY <2>5, <2>6 DEF Descriptions
  <2> QED
    BY <2>3, <2>7, <1>2 DEF Interleaved
<1>3. CASE ~IsInterleaved(f)
  <2>1. f.mBytesPerFrame = w /\ f.mBytesPerPacket = p
    <3>1. f.mBytesPerFrame = 1 * w /\ f.mBytesPerPacket = 1 * p
      BY <1>3 DEF Words, InterleavedChannelCount
    <3> QED
      BY <3>1
  <2>2. /\ (f.mBytesPerFrame * c) % UIntRange = c * w
        /\ (f.mBytesPerPacket * c) % UIntRange = c * p
    <3> HIDE DEF c
    <3>1. w * c = c * w /\ p * c = c * p /\ w * c \in Nat /\ p * c \in Nat
      BY <1>1
    <3>2. (w * c) % UIntRange = w * c /\ (p * c) % UIntRange = p * c
      BY <3>1, <1>1, NoWrap
    <3> QED
      BY <2>1, <3>1, <3>2
  <2>3. Interleaved(f) = Together(f, w, p)
    BY <2>2, <1>3 DEF Interleaved, Together
  <2>4. f.mFormatFlags \cup {"NonInterleaved"} = f.mFormatFlags
    BY <1>1, <1>3 DEF IsInterleaved
  <2>5. Apart(f, w, p) = [f EXCEPT !.mFormatFlags = f.mFormatFlags,
                                   !.mBytesPerPacket = p, !.mBytesPerFrame = w]
    BY <2>4 DEF Apart
  <2>6. Apart(f, w, p) = f
    BY <2>1, <2>5 DEF Descriptions
  <2> QED
    BY <2>3, <2>6, <1>3 DEF NonInterleaved
<1> QED
  BY <1>2, <1>3

(* Formats that differ in how the channels are arranged only are            *)
(* identified alike.                                                       *)
LEMMA IdentifiedAlike ==
  ASSUME NEW f \in Descriptions, NEW g \in Descriptions,
         NEW w \in Nat \ {0}, NEW p \in Nat, Words(f, w, p), Words(g, w, p),
         \A flag \in Flags \ {"NonInterleaved"} :
           flag \in f.mFormatFlags <=> flag \in g.mFormatFlags,
         f.mFractionalBits = g.mFractionalBits,
         f.mFramesPerPacket = g.mFramesPerPacket,
         f.mChannelsPerFrame = g.mChannelsPerFrame,
         f.mBitsPerChannel = g.mBitsPerChannel
  PROVE  Identify(f) = Identify(g)
<1> DEFINE c == f.mChannelsPerFrame
           m == InterleavedChannelCount(f)
           n == InterleavedChannelCount(g)
<1>1. /\ c \in Nat \ {0} /\ w * c < UIntRange
      /\ f.mBytesPerFrame = m * w /\ f.mBytesPerPacket = m * p
      /\ g.mBytesPerFrame = n * w /\ g.mBytesPerPacket = n * p
      /\ IsPCM(f) /\ IsPCM(g)
  BY StreamAssumption DEF Words, Representable, Descriptions, UInt
<1>2. m \in {1, c} /\ n \in {1, c}
  BY DEF InterleavedChannelCount
<1>3. /\ IsSignedInteger(f) <=> IsSignedInteger(g)
      /\ IsFloat(f) <=> IsFloat(g)
      /\ IsFixedPoint(f) <=> IsFixedPoint(g)
      /\ IsNativeEndian(f) <=> IsNativeEndian(g)
  BY <1>1 DEF IsSignedInteger, IsFloat, IsFixedPoint, IsInteger, IsNativeEndian, Flags
<1>4. f.mBytesPerFrame = f.mBytesPerPacket <=> g.mBytesPerFrame = g.mBytesPerPacket
  <2> HIDE DEF c, m, n
  <2>1. ASSUME NEW k \in {1, c}
        PROVE  k * w = k * p <=> w = p
    BY <1>1
  <2> QED
    BY <2>1, <1>1, <1>2
<1>5. ASSUME f.mBitsPerChannel \in {16, 32, 64}
      PROVE  IsImplicitlyPacked(f) <=> IsImplicitlyPacked(g)
  <2>1. PICK q \in {2, 4, 8} : q = f.mBitsPerChannel \div 8
    BY <1>5
  <2>2. ASSUME NEW k \in {1, c}
        PROVE  (q * k) % UIntRange = k * w <=> (q * 1) % UIntRange = w
    <3> HIDE DEF c
    <3>1. CASE k = 1
      <4>1. 1 * w = w
        OBVIOUS
      <4> QED
        BY <3>1, <4>1
    <3>2. CASE k = c
      BY <3>2, <1>1, PackedAlike
    <3> QED
      BY <3>1, <3>2, <2>2
  <2>3. /\ IsImplicitlyPacked(f) <=> (q * m) % UIntRange = m * w
        /\ IsImplicitlyPacked(g) <=> (q * n) % UIntRange = n * w
    BY <2>1, <1>1 DEF IsImplicitlyPacked
  <2> HIDE DEF c, m, n
  <2> QED
    BY <2>2, <2>3, <1>2
<1>6. ASSUME f.mBitsPerChannel \in {16, 32, 64}
      PROVE  IsNativePacked(f) <=> IsNativePacked(g)
  BY <1>1, <1>3, <1>4, <1>5, <1>6 DEF IsNativePacked
<1>7. CASE f.mBitsPerChannel \in {16, 32, 64}
  <2>1. IsNativePacked(f) <=> IsNativePacked(g)
    BY <1>6, <1>7
  <2> QED
    BY <2>1, <1>3 DEF Identify
<1>8. CASE f.mBitsPerChannel \notin {16, 32, 64}
  BY <1>8 DEF Identify
<1> QED
  BY <1>7, <1>8

(* Whatever made a format, if its channels divide its frames and packets,  *)
(* the two equivalents of it describe the same samples, and converting     *)
(* there and back loses nothing.                                           *)
THEOREM EquivalentsHold == Spec => []EquivalentsAgree
<1>1. ASSUME NEW f \in Descriptions, IsWhole(f)
      PROVE  /\ \A g \in {NonInterleaved(f), Interleaved(f)} :
                  /\ IsWhole(g)
                  /\ SampleWordSize(g) = SampleWordSize(f)
                  /\ Identify(g) = Identify(f)
                  /\ g.mBytesPerFrame * ChannelStreamCount(g)
                       = f.mBytesPerFrame * ChannelStreamCount(f)
             /\ NonInterleaved(Interleaved(f)) = NonInterleaved(f)
             /\ Interleaved(NonInterleaved(f)) = Interleaved(f)
  <2>1. PICK w \in Nat \ {0}, p \in Nat : Words(f, w, p)
    BY <1>1, WholeHasWords
  <2>2. NonInterleaved(f) = Apart(f, w, p) /\ Interleaved(f) = Together(f, w, p)
    BY <2>1, EquivalentsOfWords
  <2>3. /\ Apart(f, w, p) \in Descriptions /\ Together(f, w, p) \in Descriptions
        /\ Words(Apart(f, w, p), w, p) /\ Words(Together(f, w, p), w, p)
        /\ Apart(Together(f, w, p), w, p) = Apart(f, w, p)
        /\ Together(Apart(f, w, p), w, p) = Together(f, w, p)
    BY <2>1, Rearranging
  <2>4. /\ NonInterleaved(Together(f, w, p)) = Apart(f, w, p)
        /\ Interleaved(Apart(f, w, p)) = Together(f, w, p)
    BY <2>3, EquivalentsOfWords
  <2>5. ASSUME NEW g \in {Apart(f, w, p), Together(f, w, p)}
        PROVE  /\ IsWhole(g)
               /\ SampleWordSize(g) = SampleWordSize(f)
               /\ Identify(g) = Identify(f)
               /\ g.mBytesPerFrame * ChannelStreamCount(g)
                    = f.mBytesPerFrame * ChannelStreamCount(f)
    <3>1. g \in Descriptions /\ Words(g, w, p)
      BY <2>3, <2>5
    <3>2. /\ g.mFractionalBits = f.mFractionalBits
          /\ g.mFramesPerPacket = f.mFramesPerPacket
          /\ g.mChannelsPerFrame = f.mChannelsPerFrame
          /\ g.mBitsPerChannel = f.mBitsPerChannel
          /\ \/ g.mFormatFlags = f.mFormatFlags \cup {"NonInterleaved"}
             \/ g.mFormatFlags = f.mFormatFlags \ {"NonInterleaved"}
      BY <2>5 DEF Apart, Together, Descriptions
    <3>3. \A flag \in Flags \ {"NonInterleaved"} :
            flag \in f.mFormatFlags <=> flag \in g.mFormatFlags
      BY <3>2
    <3>4. Identify(f) = Identify(g)
      BY <2>1, <3>1, <3>2, <3>3, IdentifiedAlike
    <3>5. /\ SampleWordSize(f) = w
          /\ f.mBytesPerFrame * ChannelStreamCount(f) = w * f.mChannelsPerFrame
      BY <2>1, WordsAreWhole
    <3>6. /\ IsWhole(g)
          /\ SampleWordSize(g) = w
          /\ g.mBytesPerFrame * ChannelStreamCount(g) = w * g.mChannelsPerFrame
      BY <3>1, WordsAreWhole
    <3> QED
      BY <3>2, <3>4, <3>5, <3>6
  <2> QED
    BY <2>2, <2>3, <2>4, <2>5
<1>2. TypeOK => EquivalentsAgree
  BY <1>1 DEF TypeOK, EquivalentsAgree
<1> QED
  BY <1>2, TypesHold, PTL

(* What a format must say for it to be identified as a common one.          *)
LEMMA WhatIsIdentified ==
  ASSUME NEW f \in Descriptions, Identify(f) # None
  PROVE  /\ Identify(f) \in CommonPCMFormats
         /\ IsNativePacked(f)
         /\ f.mBitsPerChannel = BitsOf(Identify(f))
         /\ \/ /\ Identify(f) \in {"int16", "int32"}
               /\ IsSignedInteger(f) /\ ~IsFixedPoint(f)
            \/ /\ Identify(f) \in {"float32", "float64"}
               /\ ~IsSignedInteger(f) /\ IsFloat(f)
<1>1. CASE IsNativePacked(f) /\ IsSignedInteger(f) /\ ~IsFixedPoint(f)
  <2>1. CASE f.mBitsPerChannel = 16
    BY <1>1, <2>1 DEF Identify, BitsOf, CommonPCMFormats
  <2>2. CASE f.mBitsPerChannel = 32
    BY <1>1, <2>2 DEF Identify, BitsOf, CommonPCMFormats
  <2>3. CASE f.mBitsPerChannel \notin {16, 32}
    BY <1>1, <2>3 DEF Identify
  <2> QED
    BY <2>1, <2>2, <2>3
<1>2. CASE IsNativePacked(f) /\ ~IsSignedInteger(f) /\ IsFloat(f)
  <2>1. CASE f.mBitsPerChannel = 32
    BY <1>2, <2>1 DEF Identify, BitsOf, CommonPCMFormats
  <2>2. CASE f.mBitsPerChannel = 64
    BY <1>2, <2>2 DEF Identify, BitsOf, CommonPCMFormats
  <2>3. CASE f.mBitsPerChannel \notin {32, 64}
    BY <1>2, <2>3 DEF Identify
  <2> QED
    BY <2>1, <2>2, <2>3
<1>3. CASE /\ ~(IsNativePacked(f) /\ IsSignedInteger(f) /\ ~IsFixedPoint(f))
           /\ ~(IsNativePacked(f) /\ ~IsSignedInteger(f) /\ IsFloat(f))
  BY <1>3 DEF Identify
<1> QED
  BY <1>1, <1>2, <1>3

(* A format that is identified as a common one has words of its size, which *)
(* fill the bits of a channel, no fraction, and is floating-point where     *)
(* that is.                                                                *)
THEOREM QueriesAgree == Spec => []IdentifiedAsQueried
<1>1. ASSUME NEW f \in Descriptions, Identify(f) # None,
             Representable(WordOf(Identify(f)), f.mChannelsPerFrame)
      PROVE  /\ SampleWordSize(f) = WordOf(Identify(f))
             /\ ~IsUnaligned(f) /\ ~IsFixedPoint(f)
             /\ {"Float", "SignedInteger"} \subseteq f.mFormatFlags
                  \/ IsFloat(f) = (Identify(f) \in {"float32", "float64"})
  <2> DEFINE c == f.mChannelsPerFrame
             n == InterleavedChannelCount(f)
  <2>1. /\ Identify(f) \in CommonPCMFormats
        /\ IsNativePacked(f)
        /\ f.mBitsPerChannel = BitsOf(Identify(f))
        /\ \/ /\ Identify(f) \in {"int16", "int32"}
              /\ IsSignedInteger(f) /\ ~IsFixedPoint(f)
           \/ /\ Identify(f) \in {"float32", "float64"}
              /\ ~IsSignedInteger(f) /\ IsFloat(f)
    BY <1>1, WhatIsIdentified
  <2>2. PICK q \in {2, 4, 8} : q = WordOf(Identify(f))
    BY <2>1, BitsAndWords
  <2>3. f.mBitsPerChannel = 8 * q /\ f.mBitsPerChannel \div 8 = q
    <3>1. BitsOf(Identify(f)) \in {16, 32, 64} /\ BitsOf(Identify(f)) \div 8 = q
      BY <2>1, <2>2, BitsAndWords
    <3> QED
      BY <3>1, <2>1
  <2>4. c \in Nat \ {0} /\ UIntRange \in Nat /\ UIntRange > 64
    BY <2>1, StreamAssumption DEF IsNativePacked, Descriptions, UInt
  <2>5. n \in Nat \ {0} /\ q * n < UIntRange
    <3>1. q * c < UIntRange
      BY <1>1, <2>2 DEF Representable
    <3>2. n \in {1, c}
      BY DEF InterleavedChannelCount
    <3> HIDE DEF c, n
    <3> QED
      BY <3>1, <3>2, <2>4
  <2>6. f.mBytesPerFrame = n * q
    <3>1. (q * n) % UIntRange = f.mBytesPerFrame
      BY <2>1, <2>3 DEF IsNativePacked, IsImplicitlyPacked
    <3> HIDE DEF n
    <3>2. q * n \in Nat /\ q * n = n * q /\ UIntRange \in Nat \ {0}
      BY <2>4, <2>5
    <3>3. (q * n) % UIntRange = q * n
      BY <3>2, <2>5, NoWrap
    <3> QED
      BY <3>1, <3>2, <3>3
  <2>7. SampleWordSize(f) = q
    <3>1. (n * q) % n = 0 /\ (n * q) \div n = q
      BY <2>5, MultipleDivides
    <3> QED
      BY <3>1, <2>5, <2>6 DEF SampleWordSize
  <2>8. ~IsUnaligned(f)
    <3>1. (8 * q) % UIntRange = 8 * q /\ (8 * q) % 8 = 0
      BY <2>4, NoWrap
    <3> QED
      BY <3>1, <2>3, <2>7 DEF IsUnaligned, IsUnpackedPCM
  <2>9. ~IsFixedPoint(f)
    BY <2>1 DEF IsFixedPoint, IsInteger, IsFloat
  <2>10. \/ {"Float", "SignedInteger"} \subseteq f.mFormatFlags
         \/ IsFloat(f) <=> Identify(f) \in {"float32", "float64"}
    <3>1. CASE Identify(f) \in {"int16", "int32"}
      <4>1. "SignedInteger" \in f.mFormatFlags
        BY <2>1, <3>1 DEF IsSignedInteger
      <4>2. Identify(f) \notin {"float32", "float64"}
        BY <3>1
      <4>3. CASE "Float" \in f.mFormatFlags
        BY <4>1, <4>3
      <4>4. CASE "Float" \notin f.mFormatFlags
        BY <4>2, <4>4 DEF IsFloat
      <4> QED
        BY <4>3, <4>4
    <3>2. CASE Identify(f) \in {"float32", "float64"}
      BY <2>1, <3>2
    <3> QED
      BY <3>1, <3>2, <2>1
  <2>11. IsFloat(f) \in BOOLEAN /\ (Identify(f) \in {"float32", "float64"}) \in BOOLEAN
    BY DEF IsFloat
  <2> QED
    BY <2>2, <2>7, <2>8, <2>9, <2>10, <2>11
<1>2. TypeOK => IdentifiedAsQueried
  BY <1>1 DEF TypeOK, IdentifiedAsQueried
<1> QED
  BY <1>2, TypesHold, PTL

-----------------------------------------------------------------------------
(* The formats there are: the fields are those of a UInt32.                *)
Counted(f) ==
  /\ f.mBytesPerFrame \in 0 .. UIntRange - 1
  /\ f.mChannelsPerFrame \in 0 .. UIntRange - 1

(* At most the quotient, at most the product.                              *)
LEMMA UpToQuotient ==
  ASSUME NEW m \in Nat, NEW d \in Nat \ {0}, NEW k \in Nat, k <= m \div d
  PROVE  k * d <= m
<1>1. m \div d \in Int /\ m = d * (m \div d) + (m % d) /\ m % d \in 0 .. d - 1
  BY DivMod, ModRange
<1> DEFINE q == m \div d
<1>2. q \in Int /\ k <= q /\ d * q <= m
  BY <1>1
<1> HIDE DEF q
<1>3. PICK e \in Nat : q = k + e
  <2>1. q - k \in Nat /\ q = k + (q - k)
    BY <1>2
  <2> QED
    BY <2>1
<1>4. d * q = d * k + d * e /\ d * e \in Nat
  BY <1>3
<1> QED
  BY <1>2, <1>4

LEMMA Ordered ==
  ASSUME NEW i \in Nat, NEW j \in Nat, i < j, NEW b \in Nat
  PROVE  i * b + b <= j * b
<1>1. PICK e \in Nat : j = i + 1 + e
  <2>1. j - i - 1 \in Nat /\ j = i + 1 + (j - i - 1)
    OBVIOUS
  <2> QED
    BY <2>1
<1>2. j * b = i * b + b + e * b /\ e * b \in Nat
  BY <1>1
<1> QED
  BY <1>2

(* Buffers of one size after another, from the start to the end.           *)
InRow(block, n, b, start, size) ==
  /\ block.start = start /\ block.size = size /\ DOMAIN block.buffers = 1 .. n
  /\ \A i \in 1 .. n : /\ block.buffers[i].first = start + (i - 1) * b
                       /\ block.buffers[i].size = b

LEMMA RowIsWellLaid ==
  ASSUME NEW n \in Nat, NEW b \in Nat, NEW start \in Nat, NEW size \in Nat,
         start + n * b <= size,
         NEW block, InRow(block, n, b, start, size)
  PROVE  WellLaid(block)
<1> DEFINE first(i) == start + (i - 1) * b
<1>1. ASSUME NEW i \in 1 .. n
      PROVE  /\ first(i) \in Nat
             /\ start <= first(i)
             /\ first(i) + b <= size
             /\ \A j \in 1 .. n : i < j => first(i) + b <= first(j)
  <2>1. PICK k \in Nat : k = i - 1 /\ k < n
    OBVIOUS
  <2>2. k * b \in Nat /\ k * b + b <= n * b
    BY <2>1, Ordered
  <2>3. ASSUME NEW j \in 1 .. n, i < j
        PROVE  first(i) + b <= first(j)
    <3>1. PICK l \in Nat : l = j - 1 /\ k < l
      BY <2>1, <2>3
    <3>2. k * b + b <= l * b /\ k * b \in Nat /\ l * b \in Nat
      BY <3>1, Ordered
    <3>3. first(i) = start + k * b /\ first(j) = start + l * b
      BY <2>1, <3>1
    <3> QED
      BY <3>2, <3>3
  <2>4. first(i) = start + k * b
    BY <2>1
  <2>5. n * b \in Nat
    OBVIOUS
  <2>6. first(i) \in Nat /\ start <= first(i) /\ first(i) + b <= size
    <3> DEFINE before == k * b
               all == n * b
    <3>1. before \in Nat /\ all \in Nat /\ before + b <= all /\ start + all <= size
      BY <2>2, <2>5
    <3>2. first(i) = start + before
      BY <2>4
    <3> HIDE DEF first, before, all
    <3> QED
      BY <3>1, <3>2
  <2> QED
    BY <2>3, <2>6
<1>2. /\ block.start = start /\ block.size = size /\ DOMAIN block.buffers = 1 .. n
      /\ \A i \in 1 .. n : block.buffers[i].first = first(i) /\ block.buffers[i].size = b
  BY DEF InRow
<1> HIDE DEF first
<1> QED
  BY <1>1, <1>2 DEF WellLaid

-----------------------------------------------------------------------------
(* The two limits allocate computes are enough: with up to that many frames *)
(* each, the buffers of a ring lie in its block behind the pointers to     *)
(* them, and neither uint32_t nor size_t overflows.                        *)
THEOREM RingsLaid ==
  ASSUME NEW f, Counted(f), f.mBytesPerFrame # 0, f.mChannelsPerFrame # 0,
         NEW frames \in Nat, frames <= MaxFrames(f)
  PROVE  /\ WellLaid(RingBlock(f, frames))
         /\ \A i \in DOMAIN RingBlock(f, frames).buffers :
              RingBlock(f, frames).buffers[i].size = frames * f.mBytesPerFrame
<1> DEFINE r == UIntRange
           z == SizeRange
           p == PointerSize
<1>1. /\ r \in Nat \ {0} /\ z \in Nat /\ p \in Nat
      /\ HeaderSize + r * (p + BufferSize + 1) <= z
      /\ HeaderSize \in Nat /\ BufferSize \in Nat
  BY AllocationAssumption, StreamAssumption
<1>2. PICK b \in Nat \ {0}, n \in Nat \ {0} :
        b = f.mBytesPerFrame /\ n = f.mChannelsPerFrame /\ b < r /\ n < r
  BY <1>1 DEF Counted
<1> DEFINE share == (z - 1) \div n
<1>3. r * (p + 1) <= z /\ r * (p + 1) \in Nat /\ n * (p + 1) <= z - 1 /\ n * p \in Nat
  <2>1. r * (p + BufferSize + 1) = r * (p + 1) + r * BufferSize /\ r * BufferSize \in Nat
    BY <1>1
  <2>2. PICK e \in Nat : r = n + 1 + e
    <3>1. r - n - 1 \in Nat /\ r = n + 1 + (r - n - 1)
      BY <1>1, <1>2
    <3> QED
      BY <3>1
  <2>3. r * (p + 1) = n * (p + 1) + (p + 1) + e * (p + 1) /\ e * (p + 1) \in Nat
    BY <2>2, <1>1, <1>2
  <2>4. r * (p + 1) \in Nat /\ n * (p + 1) \in Nat /\ n * p \in Nat
    BY <1>1, <1>2
  <2> HIDE DEF r, z, p
  <2>5. r * (p + 1) <= z
    BY <2>1, <2>4, <1>1
  <2> QED
    BY <2>3, <2>4, <2>5, <1>1
<1>4. z - 1 \in Nat /\ z > 0
  <2>1. n * (p + 1) \in Nat
    BY <1>1, <1>2
  <2> QED
    BY <2>1, <1>1, <1>3
<1> HIDE DEF r, z, p
<1>5. share \in Nat /\ share >= p /\ share < z
  <2>1. share \in Int /\ z - 1 = n * share + ((z - 1) % n) /\ (z - 1) % n \in 0 .. n - 1
    <3> DEFINE m == z - 1
    <3>1. m \in Int
      BY <1>4
    <3> HIDE DEF m
    <3>2. m \div n \in Int /\ m = n * (m \div n) + (m % n) /\ m % n \in 0 .. n - 1
      BY <3>1, <1>2, DivMod, ModRange
    <3> QED
      BY <3>2 DEF m
  <2> HIDE DEF share
  <2>2. n * share > z - 1 - n
    BY <2>1, <1>2, <1>4
  <2>3. n * p + n = n * (p + 1)
    <3>1. n \in Nat /\ p \in Nat
      BY <1>1, <1>2
    <3> QED
      BY <3>1
  <2>4. n * share > n * p - n
    BY <2>2, <2>3, <1>1, <1>2, <1>3, <1>4, <2>1
  <2>5. share >= p
    <3>1. CASE share < p
      <4>1. PICK e \in Nat : p = share + 1 + e
        <5>1. p - share - 1 \in Nat /\ p = share + 1 + (p - share - 1)
          BY <3>1, <2>1, <1>1
        <5> QED
          BY <5>1
      <4>2. n * p = n * share + n + n * e /\ n * e \in Nat
        BY <4>1, <2>1, <1>2
      <4>3. n * share \in Int /\ n * p \in Int
        BY <2>1, <1>1, <1>2
      <4> QED
        BY <4>2, <4>3, <2>4, <1>2
    <3> QED
      BY <3>1, <2>1, <1>1
  <2>6. share \in Nat
    BY <2>1, <2>5, <1>1
  <2>7. n * share >= share /\ n * share \in Nat
    <3>1. PICK m \in Nat : n = m + 1
      <4>1. n - 1 \in Nat /\ n = (n - 1) + 1
        BY <1>2
      <4> QED
        BY <4>1
    <3>2. n * share = m * share + share /\ m * share \in Nat
      BY <3>1, <2>6
    <3> QED
      BY <3>2, <2>6
  <2> QED
    BY <2>1, <2>5, <2>6, <2>7, <1>1, <1>4
<1> HIDE DEF share
<1>6. frames <= (r - 1) \div b /\ frames <= (share - p) \div b
  <2>1. share - p \in Nat /\ (share - p) % z = share - p
    BY <1>1, <1>4, <1>5, NoWrap
  <2>2. (r - 1) \div b \in Int /\ (share - p) \div b \in Int
    BY <2>1, <1>1, <1>2, DivMod
  <2>3. MaxFrames(f) = IF (share - p) \div b < (r - 1) \div b
                         THEN (share - p) \div b ELSE (r - 1) \div b
    BY <2>1, <1>2 DEF MaxFrames, share, r, z, p
  <2> QED
    BY <2>2, <2>3
<1>7. /\ frames * b \in Nat /\ frames * b <= r - 1 /\ frames * b <= share - p
  <2>1. r - 1 \in Nat /\ share - p \in Nat
    BY <1>1, <1>5
  <2>2. frames * b <= r - 1 /\ frames * b <= share - p
    BY <2>1, <1>2, <1>6, UpToQuotient
  <2> QED
    BY <2>2, <1>2
<1> DEFINE bytes == frames * b
<1>8. bytes \in Nat /\ bytes % r = bytes /\ bytes + p <= share
  <2> QED
    BY <1>1, <1>5, <1>7, NoWrap
<1> HIDE DEF bytes
<1>9. /\ (bytes + p) * n <= z - 1
      /\ (bytes + p) * n \in Nat
      /\ (bytes + p) * n = n * p + n * bytes
      /\ n * p \in Nat /\ n * bytes \in Nat
  <2>1. bytes + p \in Nat
    BY <1>1, <1>8
  <2>2. (bytes + p) * n <= z - 1
    BY <2>1, <1>2, <1>4, <1>8, UpToQuotient DEF share
  <2> QED
    BY <2>1, <2>2, <1>1, <1>2, <1>8
<1>10. ((bytes + p) * n) % z = (bytes + p) * n /\ (n * p) % z = n * p
  <2>1. (bytes + p) * n < z /\ n * p < z
    BY <1>1, <1>4, <1>9
  <2> QED
    BY <2>1, <1>1, <1>4, <1>9, NoWrap
<1>11. RingBlock(f, frames) =
         [size |-> (bytes + p) * n, start |-> n * p,
          buffers |-> [i \in 1 .. n |-> [first |-> n * p + (i - 1) * bytes, size |-> bytes]]]
  <2>1. (frames * f.mBytesPerFrame) % UIntRange = bytes
    BY <1>2, <1>8 DEF bytes, r
  <2> QED
    BY <2>1, <1>2, <1>10 DEF RingBlock, z, p
<1> DEFINE block == RingBlock(f, frames)
           start == n * p
           size == (bytes + p) * n
<1>12. InRow(block, n, bytes, start, size)
  BY <1>11 DEF InRow
<1>13. start \in Nat /\ size \in Nat /\ start + n * bytes <= size
  BY <1>9
<1>14. WellLaid(block)
  <2> HIDE DEF block, start, size
  <2> QED
    BY <1>2, <1>8, <1>12, <1>13, RowIsWellLaid
<1> QED
  BY <1>2, <1>12, <1>14 DEF bytes, InRow

(* A set of numbers has a least one.                                       *)
LEMMA LeastOf ==
  ASSUME NEW S \in SUBSET Nat, S # {}
  PROVE  \E m \in S : \A k \in S : m <= k
<1> DEFINE R == OpToRel(<, Nat)
<1>1. IsWellFoundedOn(R, Nat)
  BY NatLessThanWellFounded
<1>2. \A m, k \in Nat : k < m => <<k, m>> \in R
  BY DEF OpToRel
<1> HIDE DEF R
<1>3. PICK m \in S : \A k \in S : <<k, m>> \notin R
  BY <1>1, WFMin
<1>4. ASSUME NEW k \in S
      PROVE  m <= k
  <2>1. m \in Nat /\ k \in Nat
    BY <1>3
  <2>2. ~(k < m)
    BY <2>1, <1>2, <1>3
  <2> QED
    BY <2>1, <2>2
<1> QED
  BY <1>3, <1>4

(* Every positive number below the largest power has a bit length.         *)
LEMMA BitLengthIs ==
  ASSUME NEW v \in Nat \ {0}, v < 2 ^ UIntBits
  PROVE  /\ BitLength(v) \in 1 .. UIntBits
         /\ 2 ^ (BitLength(v) - 1) <= v /\ v < 2 ^ BitLength(v)
<1> DEFINE S == {n \in 0 .. UIntBits : v < 2 ^ n}
<1>1. UIntBits \in Nat \ {0}
  BY AllocationAssumption
<1>2. UIntBits \in S /\ S \in SUBSET Nat
  BY <1>1
<1>3. PICK m \in S : \A k \in S : m <= k
  <2> HIDE DEF S
  <2> QED
    BY <1>2, LeastOf
<1>4. m # 0
  <2>1. CASE m = 0
    <3>1. 2 ^ 0 = 1
      BY SMT
    <3>2. v < 2 ^ 0
      BY <2>1, <1>3
    <3> QED
      BY <3>1, <3>2
  <2> QED
    BY <2>1
<1>5. m \in 1 .. UIntBits /\ v < 2 ^ m
  BY <1>1, <1>3, <1>4
<1>6. m - 1 \in 0 .. UIntBits /\ m - 1 \notin S
  BY <1>1, <1>3, <1>5
<1>7. 2 ^ (m - 1) \in Int
  <2> DEFINE k == m - 1
  <2>1. k \in Nat
    BY <1>5
  <2> HIDE DEF k
  <2>2. 2 ^ k \in Int
    BY <2>1, SMT
  <2> QED
    BY <2>2 DEF k
<1>8. 2 ^ (m - 1) <= v
  BY <1>6, <1>7
<1>9. \E n \in 1 .. UIntBits : 2 ^ (n - 1) <= v /\ v < 2 ^ n
  BY <1>5, <1>8
<1> QED
  BY <1>9 DEF BitLength

(* std::bit_ceil, for what allocate accepts: a power of two that is not    *)
(* less than the number and less than twice the number.                    *)
LEMMA BitCeilIs ==
  ASSUME NEW size \in 2 .. 2 ^ (UIntBits - 1)
  PROVE  /\ BitCeil(size) \in Nat
         /\ size <= BitCeil(size) /\ BitCeil(size) < 2 * size
         /\ \E n \in 1 .. UIntBits : BitCeil(size) = 2 ^ n
<1> DEFINE v == size - 1
           n == BitLength(v)
           high == 2 ^ n
           half == 2 ^ (n - 1)
           top == 2 ^ UIntBits
           middle == 2 ^ (UIntBits - 1)
<1>1. UIntBits \in Nat \ {0} /\ UIntRange \in Nat /\ UIntRange = top
  BY AllocationAssumption, StreamAssumption
<1>2. top = 2 * middle
  BY <1>1, PowersAssumption
<1>3. middle \in Int /\ size \in Int /\ 2 <= size /\ size <= middle
  <2> DEFINE k == UIntBits - 1
  <2>1. k \in Nat
    BY <1>1
  <2> HIDE DEF k
  <2>2. 2 ^ k \in Int
    BY <2>1, SMT
  <2> QED
    BY <2>2 DEF k
<1>4. v \in Nat \ {0} /\ v < top
  <2> HIDE DEF middle, top
  <2> QED
    BY <1>1, <1>2, <1>3
<1>5. n \in 1 .. UIntBits /\ half <= v /\ v < high
  <2> HIDE DEF v
  <2> QED
    BY <1>4, BitLengthIs
<1>6. high = 2 * half
  <2> HIDE DEF n
  <2> QED
    BY <1>5, PowersAssumption
<1>7. half \in Int
  <2> HIDE DEF n
  <2> DEFINE k == n - 1
  <2>1. k \in Nat
    BY <1>5
  <2> HIDE DEF k
  <2>2. 2 ^ k \in Int
    BY <2>1, SMT
  <2> QED
    BY <2>2 DEF k
<1>8. BitCeil(size) = high
  BY <1>3 DEF BitCeil
<1>9. high \in Nat /\ size <= high /\ high < 2 * size
  <2>1. v = size - 1
    OBVIOUS
  <2> HIDE DEF high, half, n, v
  <2> QED
    BY <2>1, <1>3, <1>4, <1>5, <1>6, <1>7
<1> HIDE DEF n
<1> QED
  BY <1>5, <1>8, <1>9

(* What deallocate leaves of a ring's own format has no channels, and no    *)
(* buffers for them.                                                       *)
LEMMA ClearedRing ==
  ASSUME NEW frames \in Nat
  PROVE  /\ Cleared.mChannelsPerFrame = 0
         /\ DOMAIN RingBlock(Cleared, frames).buffers = {}
<1>1. Cleared.mChannelsPerFrame = 0
  BY DEF Cleared
<1>2. 1 .. 0 = {}
  OBVIOUS
<1> QED
  BY <1>1, <1>2 DEF RingBlock

(* Every ring that is allocated for a format that constructors,             *)
(* assignments and conversions lead to has, for each channel of the format *)
(* it stores, a buffer of its own for the least power of two of frames     *)
(* that is enough: for a caller's format as for what is left of its own.   *)
THEOREM RingsAreLaid == Spec => []RingsFit
<1>1. ASSUME NEW f, Counted(f), NEW size \in Nat, RingAccepts(f, size)
      PROVE  /\ BitCeil(size) \in Nat
             /\ WellLaid(RingBlock(f, BitCeil(size)))
             /\ \A i \in DOMAIN RingBlock(f, BitCeil(size)).buffers :
                  LET frames == RingBlock(f, BitCeil(size)).buffers[i].size
                                  \div f.mBytesPerFrame
                  IN /\ frames >= size
                     /\ \E n \in 1 .. UIntBits : frames = 2 ^ n /\ frames < 2 * size
  <2> DEFINE frames == BitCeil(size)
  <2>1. /\ frames \in Nat /\ size <= frames /\ frames < 2 * size
        /\ \E n \in 1 .. UIntBits : frames = 2 ^ n
    BY <1>1, BitCeilIs DEF RingAccepts
  <2>2. PICK b \in Nat \ {0} : b = f.mBytesPerFrame
    BY <1>1, StreamAssumption DEF Counted, RingAccepts
  <2>3. frames <= MaxFrames(f) /\ f.mBytesPerFrame # 0 /\ f.mChannelsPerFrame # 0
    BY <1>1 DEF RingAccepts
  <2> HIDE DEF frames
  <2>4. /\ WellLaid(RingBlock(f, frames))
        /\ \A i \in DOMAIN RingBlock(f, frames).buffers :
             RingBlock(f, frames).buffers[i].size = frames * f.mBytesPerFrame
    BY <2>1, <2>3, <1>1, RingsLaid
  <2>5. (frames * b) \div b = frames
    <3>1. (b * frames) \div b = frames /\ b * frames = frames * b
      BY <2>1, MultipleDivides
    <3> QED
      BY <3>1
  <2>6. \A i \in DOMAIN RingBlock(f, frames).buffers :
          RingBlock(f, frames).buffers[i].size \div f.mBytesPerFrame = frames
    BY <2>2, <2>4, <2>5
  <2> QED
    BY <2>1, <2>4, <2>6 DEF frames
<1>2. ASSUME NEW f, Counted(f), NEW size \in Nat, NEW own \in BOOLEAN
      PROVE  RingFits(f, size, own)
  <2> DEFINE frames == BitCeil(size)
  <2>1. ASSUME RingAccepts(f, size), own = FALSE
        PROVE  RingFits(f, size, own)
    <3>1. DOMAIN RingBlock(f, frames).buffers = 1 .. f.mChannelsPerFrame
      BY DEF RingBlock
    <3>2. FormatRead(f, own) = f
      BY <2>1 DEF FormatRead
    <3> QED
      BY <1>1, <1>2, <2>1, <3>1, <3>2 DEF RingFits
  <2>2. ASSUME RingAccepts(f, size), own = TRUE
        PROVE  RingFits(f, size, own)
    <3>1. frames \in Nat
      BY <1>1, <1>2, <2>2
    <3> HIDE DEF frames
    <3>2. /\ Cleared.mChannelsPerFrame = 0
          /\ DOMAIN RingBlock(Cleared, frames).buffers = {}
      BY <3>1, ClearedRing
    <3>3. 1 .. Cleared.mChannelsPerFrame = {} /\ FormatRead(f, own) = Cleared
      BY <2>2, <3>2 DEF FormatRead
    <3> QED
      BY <3>2, <3>3 DEF RingFits, WellLaid, frames
  <2> QED
    BY <2>1, <2>2 DEF RingFits
<1>3. TypeOK => RingsFit
  <2> SUFFICES ASSUME TypeOK, NEW x \in Objects, NEW size \in Sizes, NEW own \in BOOLEAN
               PROVE  RingFits(object[x], size, own)
    BY DEF RingsFit
  <2>1. Counted(object[x])
    BY StreamAssumption DEF TypeOK, Descriptions, UInt, Counted
  <2>2. size \in Nat
    BY AllocationAssumption
  <2> QED
    BY <2>1, <2>2, <1>2
<1> QED
  BY <1>3, TypesHold, PTL

(* A multiple of b that is not less than r, and less than b more.           *)
LEMMA FirstMultiple ==
  ASSUME NEW r \in Nat \ {0}, NEW b \in Nat \ {0}
  PROVE  \E k \in Nat \ {0} : r <= b * k /\ b * k < r + b
<1> DEFINE m == r - 1
           q == m \div b
<1>1. m \in Nat /\ r = m + 1
  OBVIOUS
<1> HIDE DEF m
<1>2. q \in Int /\ m = b * q + (m % b) /\ m % b \in 0 .. b - 1
  BY <1>1, DivMod, ModRange
<1> HIDE DEF q
<1>3. b * (q + 1) = b * q + b /\ b * q \in Int
  BY <1>2
<1>4. r <= b * (q + 1) /\ b * (q + 1) < r + b
  BY <1>1, <1>2, <1>3
<1>5. q + 1 \in Nat \ {0}
  <2>1. CASE q + 1 <= 0
    <3>1. PICK e \in Nat : q + 1 = -e
      <4>1. -(q + 1) \in Nat /\ q + 1 = -(-(q + 1))
        BY <2>1, <1>2
      <4> QED
        BY <4>1
    <3>2. b * (q + 1) = -(b * e) /\ b * e \in Nat
      BY <3>1
    <3> QED
      BY <3>2, <1>4
  <2> QED
    BY <2>1, <1>2
<1> QED
  BY <1>4, <1>5

(* When a UInt32 does not count the bytes of n buffers, the offset of one   *)
(* of them wraps around into the first, or the last ends past the block,   *)
(* whose size has wrapped.                                                 *)
LEMMA WrappedRow ==
  ASSUME NEW r \in Nat \ {0}, NEW n \in Nat \ {0}, NEW b \in Nat, b < r, r <= b * n
  PROVE  \/ ((b * (n - 1)) % r) + b > (b * n) % r
         \/ \E j \in 2 .. n : (b * (j - 1)) % r < b
<1>1. b \in Nat \ {0} /\ n # 1
  <2>1. b * 1 = b /\ 0 * n = 0
    OBVIOUS
  <2> QED
    BY <2>1
<1>2. PICK k \in Nat \ {0} : r <= b * k /\ b * k < r + b
  BY <1>1, FirstMultiple
<1>3. b * k \in Int /\ b * n \in Int
  BY <1>1
<1>4. (b * k) % r = b * k - r
  <2>1. b * k = r * 1 + (b * k - r) /\ b * k - r \in 0 .. r - 1
    BY <1>2, <1>3
  <2> QED
    BY <2>1, <1>3, ModUnique
<1>5. CASE k < n
  <2>1. k + 1 \in 2 .. n /\ (k + 1) - 1 = k
    BY <1>2, <1>5
  <2>2. (b * k) % r < b
    BY <1>2, <1>3, <1>4
  <2> QED
    BY <2>1, <2>2
<1>6. ASSUME ~(k < n)
      PROVE  k = n
  <2>1. PICK e \in Nat : k = n + e
    <3>1. k - n \in Nat /\ k = n + (k - n)
      BY <1>6, <1>2
    <3> QED
      BY <3>1
  <2>2. CASE e = 0
    BY <2>1, <2>2
  <2>3. CASE e # 0
    <3>1. PICK d \in Nat : e = 1 + d
      <4>1. e - 1 \in Nat /\ e = 1 + (e - 1)
        BY <2>3
      <4> QED
        BY <4>1
    <3>2. b * k = b * n + b + b * d /\ b * d \in Nat
      BY <2>1, <3>1, <1>1
    <3> QED
      BY <3>2, <1>2, <1>3
  <2> QED
    BY <2>2, <2>3
<1>7. CASE k = n
  <2>1. b * (n - 1) = b * n - b /\ b * (n - 1) \in Int
    BY <1>1
  <2>2. b * (n - 1) \in Nat /\ b * (n - 1) < r
    <3>1. b * (n - 1) >= 0
      BY <2>1, <1>3, <1>1
    <3> QED
      BY <3>1, <2>1, <1>2, <1>3, <1>7
  <2>3. (b * (n - 1)) % r = b * (n - 1)
    BY <2>2, NoWrap
  <2>4. (b * n) % r = b * n - r
    BY <1>4, <1>7
  <2>5. b * n - b + b > b * n - r
    BY <1>3
  <2> QED
    BY <2>1, <2>3, <2>4, <2>5, <1>3
<1> QED
  BY <1>5, <1>6, <1>7

(* allocateAudioBufferList, for one format and number of frames.            *)
LEMMA ListLaid ==
  ASSUME NEW f, Counted(f), NEW frames \in Nat
  PROVE  ListFits(f, frames)
<1> SUFFICES ASSUME ListAccepts(f, frames)
             PROVE  ListFits(f, frames)
  BY DEF ListFits
<1>1. /\ UIntRange \in Nat \ {0} /\ SizeRange \in Nat /\ PointerSize \in Nat
      /\ HeaderSize \in Nat /\ BufferSize \in Nat
      /\ HeaderSize + UIntRange * (PointerSize + BufferSize + 1) <= SizeRange
  BY AllocationAssumption, StreamAssumption
<1>2. PICK b \in Nat \ {0}, n \in Nat \ {0} :
        b = f.mBytesPerFrame /\ n = BufferCount(f) /\ n <= UIntRange
  BY <1>1 DEF Counted, ListAccepts, BufferCount
<1> DEFINE bytes == frames * b
           start == HeaderSize + n * BufferSize
           size == start + ((bytes * n) % UIntRange)
           block == ListBlock(f, frames)
<1>3. bytes \in Nat /\ bytes * n \in Nat /\ n * bytes = bytes * n
  BY <1>2
<1>4. bytes < UIntRange
  <2>1. UIntRange - 1 \in Nat /\ frames <= (UIntRange - 1) \div b
    BY <1>1, <1>2 DEF ListAccepts
  <2>2. frames * b <= UIntRange - 1
    BY <2>1, <1>2, UpToQuotient
  <2> QED
    BY <2>2, <1>1, <1>3
<1>5. bytes % UIntRange = bytes
  BY <1>1, <1>3, <1>4, NoWrap
<1>6. bytes \div b = frames
  BY <1>2
<1>7. frames * f.mBytesPerFrame * BufferCount(f) = bytes * n
  BY <1>2
<1> HIDE DEF bytes
<1>8. start \in Nat /\ start + UIntRange <= SizeRange
  <2>1. n * BufferSize <= UIntRange * BufferSize /\ n * BufferSize \in Nat
    <3>1. PICK e \in Nat : UIntRange = n + e
      <4>1. UIntRange - n \in Nat /\ UIntRange = n + (UIntRange - n)
        BY <1>1, <1>2
      <4> QED
        BY <4>1
    <3>2. UIntRange * BufferSize = n * BufferSize + e * BufferSize /\ e * BufferSize \in Nat
      BY <3>1, <1>1, <1>2
    <3>3. n * BufferSize \in Nat
      BY <1>1, <1>2
    <3> QED
      BY <3>2, <3>3
  <2>2. UIntRange * (PointerSize + BufferSize + 1)
          = UIntRange * PointerSize + UIntRange * BufferSize + UIntRange
    <3>1. UIntRange \in Nat /\ PointerSize \in Nat /\ BufferSize \in Nat
      BY <1>1
    <3> QED
      BY <3>1
  <2>3. UIntRange * PointerSize \in Nat /\ UIntRange * BufferSize \in Nat
    BY <1>1
  <2> QED
    BY <2>1, <2>2, <2>3, <1>1
<1>9. (bytes * n) % UIntRange \in 0 .. UIntRange - 1
  <2> DEFINE all == bytes * n
  <2>1. all \in Int
    BY <1>3
  <2> HIDE DEF all
  <2> QED
    BY <2>1, <1>1, ModRange DEF all
<1>10. size \in Nat /\ size % SizeRange = size
  <2>1. size \in Nat /\ size < SizeRange
    BY <1>1, <1>8, <1>9
  <2>2. SizeRange \in Nat \ {0}
    BY <1>1, <2>1
  <2> HIDE DEF size
  <2> QED
    BY <2>1, <2>2, NoWrap
<1>11. block = [size |-> size, start |-> start,
                buffers |-> [i \in 1 .. n |->
                  [first |-> start + ((bytes * (i - 1)) % UIntRange), size |-> bytes]]]
  <2>1. (frames * f.mBytesPerFrame) % UIntRange = bytes
    BY <1>2, <1>5 DEF bytes
  <2> HIDE DEF size
  <2>2. (start + ((bytes * n) % UIntRange)) % SizeRange = size
    BY <1>10 DEF size
  <2> QED
    BY <2>1, <2>2, <1>2 DEF ListBlock
<1>12. /\ block.size = size /\ block.start = start /\ DOMAIN block.buffers = 1 .. n
       /\ \A i \in 1 .. n :
            /\ block.buffers[i].first = start + ((bytes * (i - 1)) % UIntRange)
            /\ block.buffers[i].size = bytes
  <2> HIDE DEF block, size, start
  <2> QED
    BY <1>11
<1>13. \A i \in DOMAIN block.buffers : block.buffers[i].size \div f.mBytesPerFrame = frames
  <2> HIDE DEF block, size, start
  <2> QED
    BY <1>2, <1>6, <1>12
<1>14. ASSUME bytes * n < UIntRange
       PROVE  WellLaid(block)
  <2>1. \A i \in 1 .. n : (bytes * (i - 1)) % UIntRange = (i - 1) * bytes
    <3> TAKE i \in 1 .. n
    <3>1. PICK k \in Nat : k = i - 1 /\ k < n
      BY <1>2
    <3>2. k * bytes + bytes <= n * bytes /\ k * bytes \in Nat
      BY <3>1, <1>2, <1>3, Ordered
    <3>3. bytes * k = k * bytes
      BY <3>1, <1>3
    <3>4. bytes * k \in Nat /\ bytes * k < UIntRange
      BY <3>2, <3>3, <1>1, <1>3, <1>14
    <3>5. (bytes * k) % UIntRange = bytes * k
      BY <3>4, <1>1, NoWrap
    <3> QED
      BY <3>1, <3>3, <3>5
  <2>2. size = start + bytes * n
    <3>1. (bytes * n) % UIntRange = bytes * n
      BY <1>1, <1>3, <1>14, NoWrap
    <3> QED
      BY <3>1
  <2>3. start + n * bytes <= size
    BY <2>2, <1>3, <1>8
  <2> HIDE DEF block, size, start
  <2>4. InRow(block, n, bytes, start, size)
    BY <1>12, <2>1 DEF InRow
  <2> QED
    BY <1>2, <1>3, <1>8, <1>10, <2>3, <2>4, RowIsWellLaid
<1>15. ASSUME ~(bytes * n < UIntRange), WellLaid(block)
       PROVE  FALSE
  <2> HIDE DEF block, start
  <2>1. \/ ((bytes * (n - 1)) % UIntRange) + bytes > (bytes * n) % UIntRange
        \/ \E j \in 2 .. n : (bytes * (j - 1)) % UIntRange < bytes
    <3>1. /\ UIntRange \in Nat \ {0} /\ n \in Nat \ {0} /\ bytes \in Nat
          /\ bytes < UIntRange
      BY <1>1, <1>2, <1>3, <1>4
    <3>2. UIntRange <= bytes * n
      BY <1>1, <1>3, <1>15
    <3> QED
      BY <3>1, <3>2, WrappedRow, Zenon
  <2>2. CASE ((bytes * (n - 1)) % UIntRange) + bytes > (bytes * n) % UIntRange
    <3> DEFINE last == (bytes * (n - 1)) % UIntRange
               all == (bytes * n) % UIntRange
    <3>1. n \in DOMAIN block.buffers /\ n \in 1 .. n
      BY <1>2, <1>12
    <3>2. block.buffers[n].first = start + last /\ block.buffers[n].size = bytes
      BY <3>1, <1>12
    <3>3. block.buffers[n].first + block.buffers[n].size <= block.size
      BY <3>1, <1>15 DEF WellLaid
    <3>4. last + bytes > all /\ all \in Int
      BY <2>2, <1>9
    <3>5. last \in Int
      <4> DEFINE before == bytes * (n - 1)
      <4>1. before \in Int
        BY <1>2, <1>3
      <4> HIDE DEF before
      <4>2. before % UIntRange \in 0 .. UIntRange - 1
        BY <4>1, <1>1, ModRange
      <4> QED
        BY <4>2 DEF before
    <3>6. block.size = start + all
      BY <1>12
    <3> HIDE DEF last, all
    <3> QED
      BY <3>2, <3>3, <3>4, <3>5, <3>6, <1>3, <1>8
  <2>3. CASE \E j \in 2 .. n : (bytes * (j - 1)) % UIntRange < bytes
    <3>1. PICK j \in 2 .. n : (bytes * (j - 1)) % UIntRange < bytes
      BY <2>3
    <3> DEFINE later == (bytes * (j - 1)) % UIntRange
    <3>2. 1 \in 1 .. n /\ j \in 1 .. n /\ 1 < j
      BY <1>2, <3>1
    <3>3. (bytes * (1 - 1)) % UIntRange = 0
      <4>1. bytes * (1 - 1) = 0
        BY <1>3
      <4>2. 0 % UIntRange = 0
        BY <1>1, NoWrap
      <4> QED
        BY <4>1, <4>2
    <3>4. block.buffers[1].first = start /\ block.buffers[1].size = bytes
      BY <3>2, <3>3, <1>8, <1>12
    <3>5. block.buffers[j].first = start + later
      BY <3>2, <1>12
    <3>6. block.buffers[1].first + block.buffers[1].size <= block.buffers[j].first
      BY <3>2, <1>12, <1>15 DEF WellLaid
    <3>7. later < bytes /\ later \in Int
      <4> DEFINE before == bytes * (j - 1)
      <4>1. before \in Int
        BY <1>2, <1>3
      <4> HIDE DEF before
      <4>2. before % UIntRange \in 0 .. UIntRange - 1
        BY <4>1, <1>1, ModRange
      <4> QED
        BY <4>2, <3>1 DEF before
    <3> HIDE DEF later
    <3> QED
      BY <3>4, <3>5, <3>6, <3>7, <1>3, <1>8
  <2> QED
    BY <2>1, <2>2, <2>3
<1>16. WellLaid(block) <=> bytes * n < UIntRange
  BY <1>14, <1>15
<1> QED
  BY <1>7, <1>13, <1>16 DEF ListFits

(* Every buffer list allocated for a format that constructors, assignments *)
(* and conversions lead to, for any number of frames, has buffers that say *)
(* they are for as many frames as were asked for; and they lie in the      *)
(* block behind the list of them, and apart, just if a UInt32 counts the   *)
(* data of all of them.  Nothing else the code does not look at matters.   *)
THEOREM ListsLaid == Spec => []ListsFit
<1>1. TypeOK => ListsFit
  <2> SUFFICES ASSUME TypeOK, NEW x \in Objects, NEW frames \in Sizes
               PROVE  ListFits(object[x], frames)
    BY DEF ListsFit
  <2>1. Counted(object[x])
    BY StreamAssumption DEF TypeOK, Descriptions, UInt, Counted
  <2>2. frames \in Nat
    BY AllocationAssumption
  <2> QED
    BY <2>1, <2>2, ListLaid
<1> QED
  BY <1>1, TypesHold, PTL
=============================================================================
