SPECIFICATION SpecL
CONSTANTS
  CPUs = {c1, c2}
  Tasklets = {press}
  NoCpu = NoCpu
  StateValues = {0, 1}
INVARIANTS CleanStop
CHECK_DEADLOCK FALSE
