SPECIFICATION FairSpec
CONSTANTS
  CPUs = {c1, c2}
  NoCpu = NoCpu
  Window = 2
  Limit = 2
  Start = {1}
INVARIANTS KeyIsServed
PROPERTIES InjectionEnds AllCalled KeysRead OneCPULeavesNoTrace
