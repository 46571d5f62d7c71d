\* One room is opened, and a client removed for his silence stays silent. It all stops when
\* nobody is left.
CONSTANTS
  c1 = c1
  c2 = c2
  c3 = c3
  Clients <- MCClients
  MaxPlayers = 2
  MaxGames = 1
  LatePackets = FALSE
SYMMETRY Symmetric
SPECIFICATION Spec
CHECK_DEADLOCK FALSE
INVARIANTS RoomTypeOK NoTombstoneWaits NobodyTwice LeaversAreDropped
PROPERTIES NeverReindexed HostNeverLost
