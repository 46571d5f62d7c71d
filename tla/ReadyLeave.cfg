\* One leaves before he has signalled, the other goes on.
CONSTANTS
  NumPlayers = 2
  MaxGames = 1
SPECIFICATION Spec
PROPERTIES AllInRoomAreEnough
CHECK_DEADLOCK FALSE
