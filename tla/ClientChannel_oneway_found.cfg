\* A one-way call whose callback is gone when its tick runs.
CONSTANTS
  c1 = c1
  c2 = c2
  c3 = c3
  NoCall = NoCall
  Calls = {c1, c2}
  OneWayCalls = {c2}
  UntimedCalls = {}
  BadCalls = {}
  IdMask = 3
  NoPing = TRUE
  ConnectTimeout = FALSE
  MaxBacklog = 3
SPECIFICATION Spec
INVARIANTS
  OneWayCallbackFound
CHECK_DEADLOCK FALSE
