---------------------------- MODULE MCBufferList -----------------------------
(***************************************************************************)
(* BufferList with a non-interleaved format of two one-byte buffers and an *)
(* interleaved one of two-byte frames in a single buffer.                  *)
(***************************************************************************)
EXTENDS BufferList

CONSTANTS planar, packed

MCFormats == {planar, packed}

MCInterleaved == {packed}

MCChannels == [f \in MCFormats |-> 2]

MCBytesPerFrame == [f \in MCFormats |-> IF f = packed THEN 2 ELSE 1]
=============================================================================
