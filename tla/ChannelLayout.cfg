CONSTANTS
  mono = mono
  stereo = stereo
  leftRight = leftRight
  other = other
  center = center
  Layouts = {A, B}
  Blocks = {b1, b2, b3}
  NULL = NULL
  None = None
  Tags <- MCTags
  UseDescriptions = UseDescriptions
  UseBitmap = UseBitmap
  Bitmaps <- MCBitmaps
  NoBits = NoBits
  Labels = {center, Unused}
  Unused = Unused
  MaxLabels = 2
  TagChannels <- MCTagChannels
  BitCount <- MCBitCount
  TagOf <- MCTagOf
  NoTag = NoTag
SPECIFICATION Spec
INVARIANTS TypeOK OwnedOnce FitsItsBlock
PROPERTY ValuesAsPromised
