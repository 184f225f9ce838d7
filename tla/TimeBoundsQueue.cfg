CONSTANTS
  QueueSize = 3
  MaxTries = 2
  Times = {0, 1}
  MaxUpdates = 5
SPECIFICATION Spec
INVARIANTS TypeOK QueueInvariant
PROPERTIES ImplementsRegister CallsReturn
