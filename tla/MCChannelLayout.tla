--------------------------- MODULE MCChannelLayout ----------------------------
(***************************************************************************)
(* ChannelLayout with the mono and the stereo tag, a bitmap and a list of  *)
(* labels that have a tag, and others that have none.                      *)
(***************************************************************************)
EXTENDS ChannelLayout

CONSTANTS mono, stereo, leftRight, other, center

MCTags == {mono, stereo}

MCBitmaps == {leftRight, other}

MCTagChannels == [t \in MCTags |-> IF t = mono THEN 1 ELSE 2]

MCBitCount == [b \in MCBitmaps \cup {NoBits} |-> IF b = NoBits THEN 0 ELSE 2]

MCTagOf ==
  [s \in Structs |->
     CASE s.tag = UseBitmap /\ s.bitmap = leftRight -> stereo
       [] s.tag = UseDescriptions /\ s.labels = <<center>> -> mono
       [] OTHER -> NoTag]
=============================================================================
