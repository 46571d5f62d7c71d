CONSTANTS
  Players <- MCPlayers
  Delay <- MCDelay
  Byte <- MCByte
  Packets <- MCPackets
  MaxFrames = 2
SPECIFICATION DeliverySpec
INVARIANTS DeliveryTypeOK InOrderUntilADrop NothingLostWhileAllAreHere
CHECK_DEADLOCK FALSE
