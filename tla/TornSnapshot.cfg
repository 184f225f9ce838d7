CONSTANTS
  QueueSize = 4
  MaxTries = 8
  Times = {0,1}
  MaxUpdates = 4
SPECIFICATION Spec
INVARIANT ConsistentSnapshot
