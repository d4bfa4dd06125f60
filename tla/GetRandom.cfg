SPECIFICATION FairSpec
CONSTANTS
  M = 16
  Ranges <- MCRanges
INVARIANTS InRange Unbiased
PROPERTIES Terminates
