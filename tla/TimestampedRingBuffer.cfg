CONSTANTS
  Capacities = {2}
  Takes = {"a", "b"}
  Silence = Silence
  Stale = Stale
  MaxTime = 4
  UIntRange = 65536
SPECIFICATION Spec
INVARIANTS TypeOK RingInvariant PublishedIntact ReadIntact
PROPERTIES ImplementsTimeline WaitFree
