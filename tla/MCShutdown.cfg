CONSTANTS
  MaxClients = 2
  Accepts <- MCOpenNull
  Handlers <- MCAll
  MaxSignals = 2
SPECIFICATION ScenarioSpec
INVARIANTS TypeOK PassedIsDown
PROPERTIES NoLateCall MainHandlerEnds
\* The process may have exited.
CHECK_DEADLOCK FALSE
