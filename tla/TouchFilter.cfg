SPECIFICATION SpecP
CONSTANTS
  Handlers = {evdev, mousedev, grabber}
  Filtering = {grabber}
  CPUs = {c1, c2}
  Chips = 2
INVARIANTS FiltersBack RaisesOwnPin FakesAreHooked
PROPERTIES NullOnlyInReset
CHECK_DEADLOCK FALSE
