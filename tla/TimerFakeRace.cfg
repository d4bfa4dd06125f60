SPECIFICATION Spec
CONSTANTS
  CPUs = {c1, c2}
  Tasklets = {press}
  NoCpu = NoCpu
  StateValues = {0}
INVARIANTS OnlyOneFakeTimer
