CONSTANTS
  Capacities = {2}
  Takes = {"a"}
  Silence = Silence
  Stale = Stale
  MaxTime = 3
  UIntRange = 65536
  QueueSize = 3
  MaxTries = 2
  MaxUpdates = 3
  ReadCounts = {2}
SPECIFICATION Spec
INVARIANTS TypeOK PublishedAsComputed ClampDefined ReadsHold
PROPERTIES QueueUsedAsAssumed TimelineUnlessLapped
