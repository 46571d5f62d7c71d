\* The frame rate is the code's; the padding of the warm-up is left out to keep games short.
\* The game stops when all have pressed their inputs.
CONSTANTS
  Players <- MCPlayers
  Delay <- MCDelay
  Byte <- MCByte
  Packets <- MCPackets
  Buttons <- MCButtons
  Configs <- MCConfigs
  Pings <- MCPings
  GAME_FPS = 60
  EMULINKER_STARTUP_PADDING_FRAMES = 0
  TotalDelays <- MCTotalDelays
  CacheSize = 2
  MaxFrames = 5
  MaxPressed = 5
SPECIFICATION PlaySpec
INVARIANTS PlayTypeOK FollowsSchedule  InStep 
CHECK_DEADLOCK FALSE
