\* Three players, up to four inputs each; see MCSimplestGameSync for the packets.
CONSTANTS
  Players <- MCPlayers
  Delay <- MCDelay
  Byte <- MCByte
  Packets <- MCPackets
  MaxFrames = 4
SPECIFICATION Spec
INVARIANTS TypeOK Accounted WaitsForALivePlayer
PROPERTIES KeepsLockstep RunsTheLoop
