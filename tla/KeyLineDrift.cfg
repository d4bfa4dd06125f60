SPECIFICATION Spec
CONSTANTS
  CPUs = {c1, c2}
  NoCpu = NoCpu
  Window = 2
  Limit = 3
  Start = {0}
INVARIANTS StaysEnabled
