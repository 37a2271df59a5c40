\* Three channels and two calls for the pool, a chain of two functions, and a ping
\* and two calls, one that does not serialize, to a server that does not know the
\* client's protocol; four requests, one of each kind, for a server's channel, from an
\* arbitrary client; and two streams of messages for the codecs.
CONSTANTS
  d1 = d1
  d2 = d2
  d3 = d3
  k1 = k1
  k2 = k2
  k3 = k3
  e1 = e1
  Channels = {k1, k2, k3}
  PoolCalls = {d1, d2}
  NoChannel = NoChannel
  BuffersCalls = TRUE
  HasPolicy = TRUE
  ChainLength = 2
  HasResponse = TRUE
  Errors = {e1}
  NoError = NoError
  MaxDuplicates = 1
  Ping = Ping
  HCalls = {d1, d2}
  UnsendableCalls = {d2}
  Undecodable = {}
  SameProtocol = FALSE
  CanTranslate = TRUE
  c1 = c1
  c2 = c2
  c3 = c3
  c4 = c4
  Parts = {"pool", "chain", "stateless", "server", "frames"}
  Calls = {c1, c2, c3, c4}
  OneWayCalls = {c2}
  UnhandledCalls = {c3}
  MangledCalls = {c4}
  IdMask = 0
  KnownClient = FALSE
  Compatible = TRUE
  MaxOut = 2
  Traffic <- MCTraffic
  NoId = NoId
SPECIFICATION ServicesSpec
INVARIANTS
  ServicesTypeOK
  ActiveExact
  SPendingExact
  GracefulEndAnswersAll
  FramesExact
PROPERTIES
  ChainUnwinds
  DrainStopsRequests
  NothingWaits
  StatelessKeepsPromise
CHECK_DEADLOCK FALSE
