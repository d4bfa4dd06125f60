SPECIFICATION FairSpec
CONSTANTS
  Keys = {k1, k2}
  MaxRuns = 2
  MaxPending = 2
PROPERTIES KeysAlternate KeyAnswered InjectionGoesOn
CHECK_DEADLOCK FALSE
