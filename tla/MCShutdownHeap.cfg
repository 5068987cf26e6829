CONSTANTS
  MaxClients = 2
  Accepts <- MCOpenNull
  Handlers <- MCMain
  MaxSignals = 1
SPECIFICATION ScenarioSpec
INVARIANTS HeapIntact
\* The process may have exited.
CHECK_DEADLOCK FALSE
