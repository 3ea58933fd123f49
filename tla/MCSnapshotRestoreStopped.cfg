SPECIFICATION Spec
CONSTANTS
  h1 = h1
  h2 = h2
  Handlers = {h1, h2}
  MaxOrders = 1
  MaxFaults = 0
INVARIANT StoppedWhileCopied
CHECK_DEADLOCK FALSE
