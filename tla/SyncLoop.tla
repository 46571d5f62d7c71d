------------------------------- MODULE SyncLoop -------------------------------
(***************************************************************************)
(* SimplestGameSync of simplest_game_sync.rs statement by statement: the   *)
(* `while` of drain_ready_inputs and the `while` inside it are recursive   *)
(* operators, a send buffer is flat (inputs one after the other) and an    *)
(* output is a string of bytes. Only for TLC, which shows in MCSimplest-   *)
(* GameSync that module SimplestGameSync does the same in closed form.     *)
(***************************************************************************)
EXTENDS Integers, SequencesExt

CONSTANTS Players, Delay, Packets, MaxFrames

VARIABLES player_input, sender_buffer, dropped_players, game_data_size,
          outputs       \* outputs[p]: every output made for p

loop == <<player_input, sender_buffer, dropped_players, game_data_size, outputs>>

Init == /\ player_input = [p \in Players |-> <<>>]
        /\ sender_buffer = [p \in Players |-> <<>>]
        /\ dropped_players = [p \in Players |-> FALSE]
        /\ game_data_size = 0
        /\ outputs = [p \in Players |-> <<>>]

-----------------------------------------------------------------------------
AllReady(s, dropped) == \A i \in Players : s.input[i] # <<>> \/ dropped[i]
HasAnyInput(s) == \E i \in Players : s.input[i] # <<>>

\* filter_map: a player with neither an input nor a drop would yield nothing.
Extract(s, dropped, size) ==
  FlattenSeq([i \in Players |->
    IF s.input[i] # <<>> THEN <<Head(s.input[i])>>
    ELSE IF dropped[i] THEN << [b \in 1 .. size |-> 0] >> ELSE <<>>])

RECURSIVE SendWhole(_, _, _)
SendWhole(buffer, made, require_len) ==
  IF Len(buffer) < require_len THEN [buffer |-> buffer, made |-> made]
  ELSE SendWhole(SubSeq(buffer, require_len + 1, Len(buffer)),
                 Append(made, FlattenSeq(SubSeq(buffer, 1, require_len))),
                 require_len)

Round(s, dropped, size) ==
  LET row == Extract(s, dropped, size)
      send == [p \in Players |-> SendWhole(s.buffer[p] \o row, s.made[p],
                                           Delay[p] * Len(Delay))]
  IN [input  |-> [i \in Players |-> IF s.input[i] = <<>> THEN <<>> ELSE Tail(s.input[i])],
      buffer |-> [p \in Players |-> send[p].buffer],
      made   |-> [p \in Players |-> send[p].made]]

RECURSIVE While(_, _, _)
While(s, dropped, size) ==
  IF AllReady(s, dropped) /\ HasAnyInput(s)
  THEN While(Round(s, dropped, size), dropped, size)
  ELSE s

Drain(input, dropped, size) ==
  LET end == While([input |-> input, buffer |-> sender_buffer, made |-> outputs], dropped, size)
  IN /\ player_input' = end.input
     /\ sender_buffer' = end.buffer
     /\ outputs' = end.made

-----------------------------------------------------------------------------
RECURSIVE ChunksOf(_, _)
ChunksOf(input, size) ==
  IF Len(input) <= size THEN <<input>>
  ELSE <<SubSeq(input, 1, size)>> \o ChunksOf(SubSeq(input, size + 1, Len(input)), size)

process_client_input(p, input) ==
  /\ ~ dropped_players[p]
  /\ UNCHANGED dropped_players
  /\ LET chunk_size == Len(input) \div Delay[p]
     IN IF input # <<>> /\ chunk_size > 0
        THEN /\ game_data_size' = IF game_data_size = 0 THEN chunk_size ELSE game_data_size
             /\ Drain([player_input EXCEPT ![p] = @ \o ChunksOf(input, chunk_size)],
                      dropped_players, game_data_size')
        ELSE /\ UNCHANGED game_data_size
             /\ Drain(player_input, dropped_players, game_data_size)

mark_player_dropped(p) ==
  /\ dropped_players' = [dropped_players EXCEPT ![p] = TRUE]
  /\ UNCHANGED game_data_size
  /\ Drain(player_input, dropped_players', game_data_size)

Next == \E p \in Players : \/ mark_player_dropped(p)
                           \/ \E input \in Packets : process_client_input(p, input)

Spec == Init /\ [][Next]_loop
==============================================================================
