\* The client drains, once, and nothing else ends the connection or times out.
CONSTANTS
  c1 = c1
  c2 = c2
  c3 = c3
  NoCall = NoCall
  Calls = {c1, c2, c3}
  OneWayCalls = {c3}
  UntimedCalls = {c1, c2, c3}
  BadCalls = {}
  IdMask = 3
  MaxBacklog = 9
  NoPing = FALSE
  ConnectTimeout = FALSE
  UnhandledCalls = {}
  MangledCalls = {c2}
  KnownClient = FALSE
  Compatible = TRUE
  ClientDestroys = {FALSE}
  ServerDestroys = {}
  MayFinish = FALSE
  MayBreak = FALSE
SPECIFICATION ConnHandlersSpec
INVARIANTS
  DrainLosesNothing
PROPERTIES
  CompletesWithoutTimers
