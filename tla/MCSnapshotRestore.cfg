SPECIFICATION Spec
CONSTANTS
  h1 = h1
  h2 = h2
  Handlers = {h1, h2}
  MaxOrders = 2
  MaxFaults = 1
SYMMETRY HandlerSymmetry
INVARIANTS TypeOK OneWriter LockAccounted
PROPERTIES ClosedOnce ExecutedOnce
CHECK_DEADLOCK FALSE
