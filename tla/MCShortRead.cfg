CONSTANTS
  empty = empty
  ping = ping
  data = data
  Packets <- MCPackets
  PayloadSize <- MCPayloadSize
  HeaderSize = 2
  MaxSent = 3
SPECIFICATION FairSpec

PROPERTIES SentIsHandled
CHECK_DEADLOCK FALSE
