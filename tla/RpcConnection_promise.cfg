\* Two calls with timers and every way the connection can end.
CONSTANTS
  c1 = c1
  c2 = c2
  c3 = c3
  NoCall = NoCall
  Calls = {c1, c2}
  OneWayCalls = {}
  UntimedCalls = {}
  BadCalls = {}
  IdMask = 3
  MaxBacklog = 9
  NoPing = FALSE
  ConnectTimeout = TRUE
  UnhandledCalls = {c2}
  MangledCalls = {}
  KnownClient = FALSE
  Compatible = TRUE
  ClientDestroys = {TRUE, FALSE}
  ServerDestroys = {TRUE, FALSE}
  MayFinish = TRUE
  MayBreak = TRUE
SPECIFICATION ConnFairSpec
PROPERTIES
  KeepsPromise
  DrainEnds
