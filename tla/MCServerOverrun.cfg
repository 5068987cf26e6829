CONSTANTS
  MaxClients = 2
  Inputs <- MCInputs
  Outcomes <- MCOutcomes
  SendRoom = 1
  MaxAccepts = 3
  MaxReceives = 2
  MaxLeaves = 2
SPECIFICATION ScenarioSpec
INVARIANTS SlotInArray
\* The model ends where the array does.
CHECK_DEADLOCK FALSE
