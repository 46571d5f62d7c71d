--------------------------- MODULE MCFrameDelivery ---------------------------
(***************************************************************************)
(* Three players: two who go on and one who leaves.                        *)
(***************************************************************************)
EXTENDS FrameDelivery

ASSUME MCAssumption == OneFrameAPacket

MCPlayers == 1 .. 3
MCDelay == <<1, 1, 1>>
MCByte == 0 .. 1
MCPackets == {<<1>>}
==============================================================================
