SPECIFICATION Spec
CONSTANTS
  h1 = h1
  h2 = h2
  Handlers = {h1, h2}
  MaxOrders = 1
  MaxFaults = 1
INVARIANT Undoable
CHECK_DEADLOCK FALSE
