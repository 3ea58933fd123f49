SPECIFICATION Spec
CONSTANTS
  s1 = s1
  n1 = n1
  n2 = n2
  n3 = n3
  p1 = p1
  p1b = p1b
  p2 = p2
  p3 = p3
  h1 = h1
  h2 = h2
  None = None
  Servers = {s1}
  Nodes = {n1, n2}
  Ports = {p1, p2}
  NodeOf <- MCNodeOf
  HomeNode <- MCHomeNode
  HomePort <- MCHomePort
  Handlers = {h1, h2}
  PortLimit = 2
  MaxTransfers = 1
  MaxCrashes = 0
SYMMETRY HandlerSymmetry
PROPERTY SuspensionHolds
CHECK_DEADLOCK FALSE
