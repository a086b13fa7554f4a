CONSTANTS
  w1 = w1
  w2 = w2
  f1 = f1
  f2 = f2
  None = None
  Writer = {w1, w2}
  Fetch = {f1, f2}
  Attempts = 2
  MaxEvents = 2
  LoadPage = 1
  PollPage = 2
  Bounds <- MCBounds
SPECIFICATION Spec
CHECK_DEADLOCK FALSE
SYMMETRY Symmetry
INVARIANTS NothingRefused StoredInOrder NothingSkipped
