------------------------------ MODULE MCGamePlay ------------------------------
(***************************************************************************)
(* Two players and a two-slot cache. The first has three buttons, more     *)
(* than the cache holds; the second has one. The delays come from their    *)
(* pings, then the first runs two frames ahead with two zero frames and    *)
(* the second one with three, or are fixed at none or one for both.        *)
(***************************************************************************)
EXTENDS GamePlay

MCPlayers == 1 .. 2
MCDelay == <<1, 1>>
MCByte == 0 .. 3
MCPackets == {<<1>>, <<2>>, <<3>>}
MCButtons == <<MCPackets, {<<2>>}>>
MCConfigs == {[fixed_game_delay |-> d, same_game_delay |-> FALSE,
               shared_game_delay_window |-> FALSE, margin |-> 0] : d \in {Unset, 0, 1}}
MCPings == {<<17, 0>>}
MCTotalDelays == [MCPlayers -> 0 .. 3]
==============================================================================
