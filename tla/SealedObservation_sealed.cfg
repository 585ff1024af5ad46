SPECIFICATION FairSpec
CONSTANTS
  MaxBlocks = 2
  MaxLag = 1
  Poll = 1
  Deadline = 1
  Timeout = 1
  Oversleep = 1
  Horizon = 7
INVARIANTS
  InclusionNamesOneBlock
  OutcomeIsBacked
  PollIsBounded
PROPERTIES
  PollEnds
CHECK_DEADLOCK FALSE
