\* The mailbox of the client under typing, pings, end of input and signals.
\* The process exits after a SIGINT, and nobody has to type: it may stop.
SPECIFICATION FairSpec
CONSTANTS
  Outcomes = {"live", "nosend", "dead"}
  SendRoom = 1
  MaxLines = 2
  MaxPings = 2
  MaxSignals = 2
INVARIANTS StreamInOrder LatestKept
PROPERTIES ReplyQueued SigintEnds
CHECK_DEADLOCK FALSE
