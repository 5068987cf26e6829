\* Nobody has to type: the system may come to rest; flooding clients may bring
\* it to the circle of waiting threads, where it stops.
SPECIFICATION ScenarioSpec
CONSTANTS
  N = 2
  MaxLines = 2
  SendRoom = 1
  Flood <- Both
  MaxQuits = 1
  MaxShortReads = 1
INVARIANTS TypeOK StuckNeedsTwo
PROPERTIES ImplementsRoom AnsweredDrains
CHECK_DEADLOCK FALSE
