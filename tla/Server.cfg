\* Three connections, three signals, and time for both to meet.
SPECIFICATION ServerSpec
CONSTANTS
  Connections = {c1, c2, c3}
  Deadline = 3
  MaxSignals = 3
CHECK_DEADLOCK FALSE
INVARIANTS
  ServerTypeOK
  ShutdownIsGraceful
PROPERTIES
  ShutdownEnds
