CONSTANTS
  p1 = p1
  p2 = p2
  ping = ping
  data = data
  Sender = sender
  Nobody = nobody
  Producers <- MCProducers
  Packets <- MCPackets
  PacketSize <- MCPacketSize
  MaxCalls = 3
SPECIFICATION FairSpec
INVARIANTS TypeOK WireWellFramed LatestNotLost
PROPERTIES FlagStableUntilLocked QueuedIsServed ImplementsChannel
