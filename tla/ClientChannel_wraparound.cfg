\* Two ids, c2 without timeout: the ids come round while c2 still waits.
CONSTANTS
  c1 = c1
  c2 = c2
  c3 = c3
  NoCall = NoCall
  Calls = {c1, c2, c3}
  OneWayCalls = {}
  UntimedCalls = {c2}
  BadCalls = {}
  IdMask = 1
  NoPing = TRUE
  ConnectTimeout = FALSE
  MaxBacklog = 3
SPECIFICATION Spec
PROPERTIES
  IdsServeConcurrentCalls
