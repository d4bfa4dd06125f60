SPECIFICATION FairSpec
CONSTANTS
  CPUs = {c1, c2}
  Tasklets = {press, release}
  NoCpu = NoCpu
  StateValues = {0, 1, 2}
INVARIANTS TypeOK NeverLost FakeHandOver
PROPERTIES ImplementsClock ResetDone InjectionGoesOn InjectionStops CancelProtectsForward OneFakeUnlessTaken KeyHasFakeToCome
