\* Fragments of 2 samples, delays up to 5, two changes in six fragments.
CONSTANTS
  FragSize = 2
  InitDelays = {0, 1, 2, 3, 4, 6}
  MaxDelays <- MCMaxDelays
  Requests = {0, 1, 2, 3, 4, 5}
  SampleSizes = {3, 4}
  Spacings = {1, 2, 3}
  MaxFragments = 6
  MaxChanges = 2
SPECIFICATION Spec
INVARIANTS OthersUntouched StaysInBounds
PROPERTIES ImplementsService
CHECK_DEADLOCK FALSE
