CONSTANTS
  Objects = {A, B}
  Channels = {0, 1, 3, 16}
  Rates = {48}
  PCM = 1
  Compressed = 2
  BigEndian = FALSE
  None = None
  OtherFormats <- MCOtherFormats
  UIntRange = 128
  UIntBits = 7
  SizeRange = 16384
  PointerSize = 8
  HeaderSize = 8
  BufferSize = 16
  Sizes = {0, 1, 2, 3, 4, 5, 64, 65}
  Stamps = {S, T}
  MaxTime = 1
  Ranges = {R, Q}
  Numbers = {0, 1, 2, 3}
  Rings = {X, Y}
  Memory = {M, N}
  NoMemory = NoMemory
  RingFormats = {F, G}
  NoRingFormat = NoRingFormat
  RingSizes = {2, 4}
  QueueEntries = 2
  MaxPublications = 4
  LatestTime = 5
  FrameCapacity = 3
  RingCapacity = 4
  BytesPerFrame = 2
  LastTime = 5
  UInt32Values = 16
  Silence = Silence
  Stale = Stale
SPECIFICATION MCSpec
INVARIANT MemoryHasFormat
