---------------------------- MODULE MCSequential ------------------------------
(***************************************************************************)
(* The parts of the library that one thread uses by itself: stream          *)
(* descriptions and the memory laid out for them, time stamps, value       *)
(* ranges, rings that are moved, and lists that are read into.  They share  *)
(* no state, so a step of one neither enables nor disables one of another, *)
(* and only the states in which the others have not begun are visited.     *)
(***************************************************************************)
EXTENDS AudioAllocation, TimeStamp, ValueRange, MovedRings, ListReading

CONSTANT Compressed \* the mFormatID of a compressed format

(* A format of words of a size in a frame of a number of channels.         *)
Format(flags, bits, perFrame, channels) ==
  [mSampleRate |-> 0, mFormatID |-> PCM, mFormatFlags |-> flags, mFractionalBits |-> 0,
   mBytesPerPacket |-> perFrame, mFramesPerPacket |-> 1, mBytesPerFrame |-> perFrame,
   mChannelsPerFrame |-> channels, mBitsPerChannel |-> bits, mReserved |-> 1]

(* Those of a caller: common ones flagged in unusual ways, samples in wider *)
(* words, frames that the channels do not divide, several frames in a      *)
(* packet, fixed point, no channels, many channels, and compressed audio.  *)
MCOtherFormats ==
  {Format({"Float", "SignedInteger", "Packed"}, 32, 8, 2),
   Format({"SignedInteger", "BigEndian", "Packed"}, 16, 4, 2),
   Format({"SignedInteger", "NonInterleaved", "NonMixable"}, 16, 2, 3),
   Format({"SignedInteger", "AlignedHigh"}, 16, 8, 2),
   Format({"SignedInteger", "AlignedHigh"}, 20, 6, 2),
   Format({"NonInterleaved"}, 8, 1, 127),
   Format({"NonInterleaved"}, 8, 31, 127),
   Format({"SignedInteger"}, 16, 5, 2),
   Format({"Float"}, 32, 4, 0),
   [Format({"SignedInteger"}, 32, 8, 2) EXCEPT !.mFractionalBits = 24],
   [Format({"SignedInteger"}, 16, 4, 2) EXCEPT !.mFramesPerPacket = 2, !.mBytesPerPacket = 8],
   [Format({}, 0, 0, 2) EXCEPT !.mFormatID = Compressed, !.mFramesPerPacket = 64]}

(* Stamps and ranges can begin as anything: here they do, the one where the *)
(* other are zeros, which is how they are while the rest has its turn.     *)
StampsAtRest ==
  /\ stamp = [x \in Stamps |-> [flags |-> {}, value |-> [c \in Clocks |-> 0]]]
  /\ StampInit

RangesAtRest == range = [x \in Ranges |-> [mMinimum |-> 0, mMaximum |-> 0]]

MCInit ==
  /\ Init /\ RingsInit /\ ListInit
  /\ (StampInit /\ RangesAtRest) \/ (StampsAtRest /\ RangeInit)

StreamStep ==
  /\ StampsAtRest /\ RangesAtRest /\ RingsInit /\ ListInit
  /\ Next
  /\ UNCHANGED <<stampVars, range, ringVars, listVars>>

StampStep ==
  /\ Init /\ RangesAtRest /\ RingsInit /\ ListInit
  /\ StampNext
  /\ UNCHANGED <<vars, range, ringVars, listVars>>

RangeStep ==
  /\ Init /\ StampsAtRest /\ RingsInit /\ ListInit
  /\ RangeNext
  /\ UNCHANGED <<vars, stampVars, ringVars, listVars>>

RingsStep ==
  /\ Init /\ StampsAtRest /\ RangesAtRest /\ ListInit
  /\ RingsNext
  /\ UNCHANGED <<vars, stampVars, range, listVars>>

ListStep ==
  /\ Init /\ StampsAtRest /\ RangesAtRest /\ RingsInit
  /\ ListNext
  /\ UNCHANGED <<vars, stampVars, range, ringVars>>

MCNext == StreamStep \/ StampStep \/ RangeStep \/ RingsStep \/ ListStep

MCSpec == MCInit /\ [][MCNext]_<<vars, stampVars, range, ringVars, listVars>>
=============================================================================
