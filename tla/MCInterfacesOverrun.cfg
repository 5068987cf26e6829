\* The adapters change between the call that counts them and the one that stores
\* them, at the sizes of MCLibrary.cfg.
SPECIFICATION LibrarySpec
CONSTANTS
  Zero = Zero
  MinCapacity = 1
  GrowFails = TRUE
  ShrinkFails = FALSE
  PoolSockets = {s1, s2}
  UserData = {u, v}
  Interests <- AskIn
  Conditions <- ReadyOrBroken
  NullSocket = s0
  EventCounts = {2, 8}
  PollTimeouts <- SomePollTimeouts
  IntRange = 16
  MaxEntries = 3
  Handles = {h1, h2, h3}
  MaxFd = 2
  Ports = {7}
  Lookups <- Names
  Backlog = 1
  Delimiter = nl
  Letters = {a}
  MaxStream = 4
  BufferSizes = {0, 2, 3}
  Payloads <- SmallPayloads
  MaxMessages = 2
  MaxHeader = 4
  BufferLength = 2
  NullCtx = null
  LiveCtx = live
  BufferSizesAsked = {1, 3}
  UIntRange = 16
  MinKept = 4
  MaxKept = 10
  Timeouts <- SomeTimeouts
  Hz = 250
  LingerTimes = {5, 70000}
  UShortRange = 65536
  Groups <- MulticastGroups
  Locals <- LocalAddresses
  MaxOptions = 2
  HostRecords <- SomeRecords
  AdapterLists <- SomeAdapters
  IfconfRoom = 2
  Chunks <- SomeChunks
  MaxDatagrams = 2
  MaxPacket = 3
  MaxBuffers = 2
  Destinations <- SomeDestinations
  Sources = {"AF_INET", "AF_INET6"}
  Rooms = {0, 1, 3}
  ByteRange = 3
  PortRange = 4
  Numbers <- SomeNumbers
  MaxNumbers = 5
  Threads = {m, t}
  Main = m
  Nobody = nobody
  MsPerSecond = 2
  Millis = {1, 2}
  MaxClock = 4
  MaxPosts = 1
  MaxCalls = 4
INVARIANTS InterfacesInArray
CHECK_DEADLOCK FALSE
