CONSTANTS
  Windows = 2
  Slots = 2
SPECIFICATION Spec
INVARIANT NothingReleasedTwice
