\* Four sockets beside one descriptor which is not of the switch.
SPECIFICATION FairSpec
CONSTANTS
  Fds = {0, 1, 2, 3, 4}
  Taken = {1}
INVARIANTS
  TypeOK
  ActiveIsStored
  NeverBlocks
PROPERTIES
  Served
CHECK_DEADLOCK FALSE
