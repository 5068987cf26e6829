CONSTANTS
  MaxClients = 3
  Inputs <- MCInputs
  Outcomes <- MCOutcomes
  SendRoom = 1
  MaxAccepts = 4
  MaxReceives = 2
  MaxLeaves = 1
SPECIFICATION ScenarioSpec
INVARIANTS TypeOK AcceptNeverWaits PingFirst NoEcho OriginOrder
           OnlyRequestedForwards
PROPERTIES BroadcastEnds
\* The bounds used up and all packets read, nothing is left to do.
CHECK_DEADLOCK FALSE
