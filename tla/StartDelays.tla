------------------------------ MODULE StartDelays ------------------------------
(***************************************************************************)
(* The two numbers handle_start_game picks for every player (game.rs): the *)
(* window START_GAME announces, by which his client runs ahead of what it  *)
(* receives, and the warm-up of DelayedGameSync, the number of his first   *)
(* inputs the server answers with zeros. An emulator frame is played with  *)
(* the inputs pressed window + warm-up frames before: two players stay in  *)
(* step only if that sum is the same for both.                             *)
(*                                                                         *)
(* A player's connection type comes from his login, his ping from the      *)
(* round trips of the login. The code divides in f64 and rounds down; here *)
(* it is the division of integers.                                         *)
(***************************************************************************)
EXTENDS Integers

CONSTANTS GAME_FPS,                          \* frames a second (60)
          EMULINKER_STARTUP_PADDING_FRAMES   \* (5)

ASSUME DelaysAssumption == GAME_FPS \in Nat /\ EMULINKER_STARTUP_PADDING_FRAMES \in Nat

\* fixed_game_delay, if it is not in the configuration.
Unset == -1

\* The configuration: what config.toml can say of delays.
Config == [fixed_game_delay : Nat \cup {Unset}, same_game_delay : BOOLEAN,
           shared_game_delay_window : BOOLEAN, margin : Nat]

\* At least one frame: MIN_AUTO_GAME_DELAY_FRAMES takes no effect.
auto_game_delay_frames(ping_ms, conn_type) ==
  (GAME_FPS * ping_ms) \div (1000 * (IF conn_type > 1 THEN conn_type ELSE 1)) + 1

\* Mutation: the fast player is not made to wait for the slow one.
emulinker_startup_warmup_flat(highest_delay, player_delay) ==
  highest_delay + EMULINKER_STARTUP_PADDING_FRAMES

emulinker_startup_warmup_frames(highest_delay, player_delay) ==
  highest_delay + (IF player_delay < highest_delay THEN highest_delay - player_delay ELSE 0)
                + EMULINKER_STARTUP_PADDING_FRAMES

\* h is the highest of the delays.
IsHighest(h, delay) ==
  /\ \E p \in DOMAIN delay : delay[p] = h
  /\ \A p \in DOMAIN delay : delay[p] <= h

Highest(delay) == IF \E p \in DOMAIN delay : IsHighest(delay[p], delay)
                  THEN CHOOSE h \in {delay[p] : p \in DOMAIN delay} : IsHighest(h, delay)
                  ELSE 1

Start(advertised, warmup) == [advertised |-> advertised, warmup |-> warmup]

\* Sized from the players' own delays, without fixed_game_delay.
SizedFrom(config, delay) ==
  LET highest == Highest(delay)
      shared == config.same_game_delay \/ config.shared_game_delay_window
  IN Start([p \in DOMAIN delay |-> IF shared THEN highest + config.margin ELSE delay[p]],
           [p \in DOMAIN delay |-> emulinker_startup_warmup_frames(highest, delay[p])])

\* The delays of handle_start_game. A fixed delay of 0 turns the warm-up off and announces
\* the connection types.
start_delays(config, ping, conn_type) ==
  LET d == config.fixed_game_delay
  IN CASE d = Unset -> SizedFrom(config, [p \in DOMAIN ping |-> auto_game_delay_frames(ping[p], conn_type[p])])
       [] d = 0     -> Start(conn_type, [p \in DOMAIN ping |-> 0])
       [] OTHER     -> Start([p \in DOMAIN ping |-> d], [p \in DOMAIN ping |-> d])

\* Everybody plays a frame with inputs of the same age.
Balanced(start) ==
  \A p, q \in DOMAIN start.warmup :
    start.advertised[p] + start.warmup[p] = start.advertised[q] + start.warmup[q]
================================================================================
