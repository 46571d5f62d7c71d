\* Numbers that come round after sixteen; four early messages are kept. The sender may
\* be nine messages ahead, and a bundle arrive after six others.
CONSTANTS
  SeqValues = 16
  RecentPackets = 3
  PendingMax = 4
  Lifetime = 7
  MaxAhead = 9
  MaxSent = 20
SPECIFICATION Spec
INVARIANTS TypeOK PendingIsAhead
PROPERTIES KeepsOrder RecoversFromTheLastPacket
CHECK_DEADLOCK FALSE
