------------------------------- MODULE GamePlay -------------------------------
(***************************************************************************)
(* A game from start to end: the engine and the emulators it keeps in      *)
(* step. The clients are outside the repository; they are what the engine  *)
(* is written for. A client runs ahead of what it receives by the window   *)
(* START_GAME announced; it sends an input in full once and names it by    *)
(* its position in a cache of its own afterwards, and it keeps a cache of  *)
(* what it receives, by which it reads the server's GAME_CACHE. Messages   *)
(* arrive in the order they were sent (the sequence numbers of main.rs).   *)
(***************************************************************************)
EXTENDS DelayedGameSync, StartDelays

CONSTANTS Buttons,    \* Buttons[p]: the inputs p may press
          Configs,    \* the configurations of the server
          Pings,      \* the pings the players may have
          MaxPressed  \* bound on the inputs of a client

\* A window shared by all leaves the warm-ups different: see StartDelays.
ASSUME PlayAssumption ==
  /\ Buttons \in [Players -> SUBSET Packets]
  /\ Configs \subseteq Config /\ Pings \subseteq [Players -> Nat]
  /\ \A config \in Configs : ~ config.same_game_delay /\ ~ config.shared_game_delay_window
  /\ MaxPressed \in Nat /\ MaxPressed <= MaxFrames
  /\ \A config \in Configs, ping \in Pings : start_delays(config, ping, Delay).warmup \in TotalDelays

VARIABLES window,           \* window[p]: what START_GAME announced to p
          pressed,          \* pressed[p]: every input of p's emulator, in order
          input_cache,      \* input_cache[p]: p's cache of what he sent
          up,               \* up[p]: messages on their way from p to the server
          output_cache,     \* output_cache[p]: p's cache of what he received
          decoded           \* decoded[p]: every frame p's emulator got, in order

clients == <<pressed, input_cache, up, output_cache, decoded>>
play == <<engine, window, clients>>

PlayInit == /\ EngineInit
            /\ \E config \in Configs, ping \in Pings :
                 LET start == start_delays(config, ping, Delay)
                 IN total_delays = start.warmup /\ window = start.advertised
            /\ pressed = [p \in Players |-> <<>>]
            /\ input_cache = [p \in Players |-> <<>>]
            /\ up = [p \in Players |-> <<>>]
            /\ output_cache = [p \in Players |-> <<>>]
            /\ decoded = [p \in Players |-> <<>>]

Latency(p) == window[p] + total_delays[p]

-----------------------------------------------------------------------------
\* An emulator steps: it needs the frame that lies its window back.
Press(p, data) ==
  /\ ~ dropped_players[p]
  /\ Len(pressed[p]) < MaxPressed
  /\ Len(pressed[p]) < Len(decoded[p]) + window[p]
  /\ pressed' = [pressed EXCEPT ![p] = Append(@, data)]
  /\ LET pos == Newest(input_cache[p], data)
     IN IF pos # None
        THEN /\ up' = [up EXCEPT ![p] = Append(@, GameCache(pos))]
             /\ UNCHANGED input_cache
        ELSE /\ up' = [up EXCEPT ![p] = Append(@, GameData(data))]
             /\ input_cache' = [input_cache EXCEPT ![p] = Store(@, data)]
  /\ UNCHANGED <<engine, window, output_cache, decoded>>

\* handle_game_data, handle_game_cache. An input may still arrive after a drop: the
\* handler looks the player up before it takes the game's lock.
Handle(p) ==
  /\ up[p] # <<>>
  /\ process_client_input(p, Head(up[p]))
  /\ up' = [up EXCEPT ![p] = Tail(@)]
  /\ UNCHANGED <<window, pressed, input_cache, output_cache, decoded>>

\* execute_drop_game, for a drop, a departure, a kick or a session timeout.
DropGame(p) == /\ ~ dropped_players[p]
               /\ mark_player_dropped(p)
               /\ UNCHANGED <<window, clients>>

\* The client reads a response. A position its cache does not have is no frame.
Read(p) ==
  LET response == Head(responses[p])
      frame == IF response.kind = "GameData" THEN <<response.data>>
               ELSE IF response.kind = "GameCache" THEN At(output_cache[p], response.pos)
               ELSE <<>>
  IN /\ responses[p] # <<>>
     /\ responses' = [responses EXCEPT ![p] = Tail(@)]
     /\ decoded' = [decoded EXCEPT ![p] = @ \o frame]
     /\ output_cache' = IF response.kind = "GameData"
                        THEN [output_cache EXCEPT ![p] = Store(@, response.data)]
                        ELSE output_cache
     /\ UNCHANGED <<combiner, startup, output_caches, disable_output_cache,
                    window, pressed, input_cache, up>>

Step(p) == Handle(p) \/ Read(p) \/ \E data \in Buttons[p] : Press(p, data)

PlayNext == \E p \in Players : Step(p) \/ DropGame(p)

PlaySpec == PlayInit /\ [][PlayNext]_play

-----------------------------------------------------------------------------
(***************************************************************************)
(* Properties.                                                             *)
(***************************************************************************)
Playing(p) == ~ dropped_players[p]

\* The caches stay windows; a client never has more zero frames than it is due, nor
\* more held-back inputs.
PlayTypeOK ==
  /\ \A p \in Players :
       /\ \A cache \in {input_caches[p], output_caches[p], input_cache[p], output_cache[p]} :
            Len(cache) <= CacheSize
       /\ warmup_sent[p] \in 0 .. total_delays[p]
       /\ Len(queues[p]) <= warmup_sent[p]
       /\ pressed[p] \in Seq(Packets)
  /\ frame_size \in Nat

\* How many inputs of p the server has handled.
Handled(p) == Len(pressed[p]) - Len(up[p])

\* The inputs a player's game is made of: his first ones, shifted by the warm-up, and
\* from then on the one he presses; those pressed while the first ones are caught up
\* with are thrown away. So after twice the warm-up the server adds no lag, and every
\* cache reference meant what the client meant, however far ahead the client was
\* (the doc of DelayedGameSync: a reference resolved late would be a silent desync).
Schedule(p) ==
  LET w == total_delays[p]
  IN [k \in 1 .. (IF Handled(p) > w THEN Handled(p) - w ELSE 0) |->
        pressed[p][IF k <= w THEN k ELSE k + w]]

FollowsSchedule ==
  \A p \in Players :
    IF Playing(p) THEN contributed[p] = Schedule(p) ELSE IsPrefix(contributed[p], Schedule(p))

\* What a player is due: his zero frames, then the rows combined for him.
Due(p) == [k \in 1 .. warmup_sent[p] |-> ZeroFrame(frame_size)]
            \o [k \in 1 .. Len(sent[p]) |-> FlattenSeq(sent[p][k])]

\* A client decodes the frames that were made for it, in order, none missing and none
\* twice: its cache and the server's mirror of it never disagree by the time a
\* position is used.
DecodesWhatIsDue ==
  \A p \in Players : Playing(p) =>
    /\ IsPrefix(decoded[p], Due(p))
    /\ responses[p] = <<>> => decoded[p] = Due(p)

\* Two emulators that have reached the same frame got the same input for it, although
\* they were told different windows and warmed up for different times. (A frame is
\* counted from the client's first; it consumes what was decoded a window before.)
InStep ==
  \A p, q \in Players : Playing(p) /\ Playing(q) =>
    \A f \in 1 .. window[p] + MaxPressed :
      f - window[p] \in DOMAIN decoded[p] /\ f - window[q] \in DOMAIN decoded[q] /\ f > Latency(p)
      => decoded[p][f - window[p]] = decoded[q][f - window[q]]

\* Lockstep never locks up: when everything sent has been handled and everything answered has
\* been read, a player who has pressed no more than the others has the frame his emulator
\* needs next, whoever dropped and whenever. (Handlers run and emulators step when they can,
\* so the players who do not drop play to the end.)
NobodyWaits ==
  (\A p \in Players : up[p] = <<>> /\ responses[p] = <<>>)
  => \A p \in Players :
       /\ Playing(p)
       /\ \A q \in Players : Playing(q) => Len(pressed[p]) <= Len(pressed[q])
       => Len(pressed[p]) < Len(decoded[p]) + window[p]
==============================================================================
