SPECIFICATION FairSpec
CONSTANTS
  Scripts <- McScripts
  I32MAX = 127
  I64MAX = 1023
  MAX_PREAMBLE_LEN = 3
  PreambleRead = 2
  READ_BUFFER_SIZE = 3
  SocketRoom = 1
CHECK_DEADLOCK FALSE
INVARIANT DeleteLimitApplied
