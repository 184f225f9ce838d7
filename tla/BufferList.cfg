CONSTANTS
  planar = planar
  packed = packed
  Lists = {A, B}
  Blocks = {b1, b2}
  NULL = NULL
  NoFormat = NoFormat
  Formats <- MCFormats
  Interleaved <- MCInterleaved
  Signed <- MCInterleaved
  Channels <- MCChannels
  BytesPerFrame <- MCBytesPerFrame
  Capacities = {2}
  MaxCount = 2
  ByteSizes = {1, 3}
  Takes = {"a"}
  Silence = Silence
SPECIFICATION Spec
INVARIANTS TypeOK OwnedOnce ListInvariant
PROPERTIES ImplementsFrameLists EditsAsPromised
