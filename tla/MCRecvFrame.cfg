CONSTANTS
  empty = empty
  ping = ping
  data = data
  Packets <- MCPackets
  PayloadSize <- MCPayloadSize
  HeaderSize = 2
  MaxSent = 3
SPECIFICATION FairSpec
INVARIANTS TypeOK HandledExactly
PROPERTIES ShortReadIsFinal WholeReadsHandled
CHECK_DEADLOCK FALSE
