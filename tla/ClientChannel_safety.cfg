\* Three calls of different kinds against an arbitrary peer: c1 an ordinary
\* one, c2 without timeout, c3 one that does not serialize.  Two ids, for the
\* two that are sent.
CONSTANTS
  c1 = c1
  c2 = c2
  c3 = c3
  NoCall = NoCall
  Calls = {c1, c2, c3}
  OneWayCalls = {}
  UntimedCalls = {c2}
  BadCalls = {c3}
  IdMask = 1
  NoPing = FALSE
  ConnectTimeout = TRUE
  MaxBacklog = 3
SPECIFICATION Spec
INVARIANTS
  TypeOK
  PendingExact
  SentIsReachable
  CallbackRunsOnce
PROPERTIES
  WritesInTurn
