SPECIFICATION Spec
CONSTANTS
  Xs = {228, 230, 232}
  SEND_VALUE = 230
  Last = 1
INVARIANTS FakeNeverTaps SlotsAgree
PROPERTIES
  FakeIsVisible
  RealIsNoticed
  OnlySlotZeroIsDisturbed
  FakesHitSlotZero
  TouchesAgree
