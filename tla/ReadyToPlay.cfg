\* Two players and two games in one room: what a drop of the first game leaves behind meets
\* the start of the second, and an owner meets one who drops, leaves or is kicked.
CONSTANTS
  NumPlayers = 2
  MaxGames = 2
SPECIFICATION Spec
INVARIANTS ReadyTypeOK NobodyPlaysEarly
PROPERTIES EveryoneIsNotified
\* The room is done after its last game.
CHECK_DEADLOCK FALSE
