SPECIFICATION FairSpecL
CONSTANTS
  CPUs = {c1, c2}
  Tasklets = {press}
  NoCpu = NoCpu
  StateValues = {0, 1}
INVARIANTS LiveNeverLost QuietStop
PROPERTIES RmmodEnds ImplementsReloads CarefulUseIsSafe
CHECK_DEADLOCK FALSE
