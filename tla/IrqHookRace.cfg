SPECIFICATION Spec
CONSTANTS
  CPUs = {c1, c2}
  None = None
INVARIANTS ExecutesOriginal
