SPECIFICATION Spec
CONSTANTS
  CPUs = {c1, c2, c3}
  None = None
INVARIANTS HookedHasOriginal NothingLeftBehind
PROPERTIES NullOnlyAfterUnhook
