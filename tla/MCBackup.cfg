SPECIFICATION Spec
CONSTANTS
  Handlers = {h1, h2}
  MaxUploads = 2
  MaxFaults = 1
INVARIANTS TypeOK NothingLeft AskedOnce DoneIsClosed
PROPERTIES PromiseKept HandedOver
CHECK_DEADLOCK FALSE
