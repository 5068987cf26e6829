\* One SIGINT: what the handler leaves behind.
SPECIFICATION Spec
CONSTANTS
  Outcomes = {"live"}
  SendRoom = 1
  MaxLines = 1
  MaxPings = 1
  MaxSignals = 1
INVARIANT HandlerCleansUp
CHECK_DEADLOCK FALSE
