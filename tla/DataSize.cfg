CONSTANTS
  Capacities = {2}
  Takes = {"a"}
  Silence = Silence
  Stale = Stale
  MaxTime = 4
  UIntRange = 65536
SPECIFICATION Spec
INVARIANT AudioWithinDataSize
