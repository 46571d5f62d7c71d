\* Two addresses contend for one name, or one of them has two sessions one after the other:
\* two sessions and two clients are what each race needs. A login takes one round trip: it does
\* not matter here which ACK of several is the last.
CONSTANTS
  Addrs = {a, b}
  Names = {n}
  NumAcks = 0
  QueueSize = 1
  CloseSize = 1
  MaxSessions = 2
  MaxClients = 2
SPECIFICATION Spec
\* A system in which nobody sends anything and no session is left is at rest.
CHECK_DEADLOCK FALSE
INVARIANTS SessionsTypeOK NoClientWithoutSession  OneOfAName
PROPERTIES  SilentAreRemoved
