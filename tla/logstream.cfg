\* Two clients, channels of one line, three lines; peers read until they leave.
\* Nothing is left to do when all lines are logged.
SPECIFICATION FairSpec
CONSTANTS
  Client = {web, tail}
  Stalled = {}
  Buffer = 1
  MaxLines = 3
INVARIANTS
  NoPanic
  Contiguous
PROPERTIES
  HubServes
  CutEnds
CHECK_DEADLOCK FALSE
