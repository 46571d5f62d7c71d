---------------------------- MODULE FrameDelivery ----------------------------
(***************************************************************************)
(* What happens to the frames once they are made. The session task of each *)
(* client runs its handlers one at a time. A handler takes the game's lock *)
(* only while the combiner runs; it sends the outputs afterwards, one      *)
(* send_packet after the other, while the tasks of the other players go    *)
(* on. A player may drop, leave the room, be kicked, or leave the server;  *)
(* his slot stays in the game until the game ends.                         *)
(* A client that falls silent is removed by a task that is nobody's: the   *)
(* session cleanup, or the login of a client who takes over his name.      *)
(* The steps by which a player leaves a room are those of module GameRoom; *)
(* here he has left when his slot is dropped.                              *)
(* A frame is named by its number in the log of module Lockstep. Warm-up   *)
(* and caches (DelayedGameSync) are left out: they sit under the same lock.*)
(* The model ends with the game; the room goes on without frames.          *)
(***************************************************************************)
EXTENDS SimplestGameSync

\* The connection types of those who may log in (user.rs); see SimplestGameSync.
OneFrameAPacket == Players = 1 .. Len(Delay) /\ Delay \in Seq({1})

\* The task of each player's session, and the one that removes silent clients.
Cleanup == 0
Tasks == Players \cup {Cleanup}

VARIABLES sends,       \* sends[t]: what t's handler has made and has yet to send
          dropping,    \* dropping[t]: t's handler has dropped a player, and not yet
                       \* set the players' status
          in_game,     \* in_game[p]: p's client is in this game
          registered,  \* registered[p]: p is a client of the server
          delivered    \* delivered[p]: the frames sent to p, in the order of their
                       \* message numbers

tasks == <<sends, dropping>>
members == <<in_game, registered>>
delivery == <<vars, tasks, members, delivered>>

DeliveryInit == /\ Init
                /\ sends = [t \in Tasks |-> <<>>]
                /\ dropping = [t \in Tasks |-> FALSE]
                /\ in_game = [p \in Players |-> TRUE]
                /\ registered = [p \in Players |-> TRUE]
                /\ delivered = [p \in Players |-> <<>>]

-----------------------------------------------------------------------------
\* Mutation: a task takes the next message before it has sent everything.
Idle_eager(t) == (t # Cleanup => registered[t]) /\ ~ dropping[t]

Idle(t) == (t # Cleanup => registered[t]) /\ sends[t] = <<>> /\ ~ dropping[t]

\* The last drop ends the game.
Running == \E p \in Players : ~ dropped_players[p]

Made == Len(sent[1])

\* Mutation: off by one frame.
Outputs_inclusive ==
  [i \in 1 .. (Len(sent'[1]) - Made) * Len(Delay) |->
     [to |-> ((i - 1) % Len(Delay)) + 1, frame |-> Made + ((i - 1) \div Len(Delay))]]

\* The outputs of a drain: frame by frame, and in each frame player by player.
Outputs ==
  [i \in 1 .. (Len(sent'[1]) - Made) * Len(Delay) |->
     [to |-> ((i - 1) % Len(Delay)) + 1, frame |-> Made + 1 + ((i - 1) \div Len(Delay))]]

\* handle_game_data and handle_game_cache, until the lock is released.
HandleInput(p, input) ==
  /\ Idle(p) /\ in_game[p] /\ Running
  /\ process_client_input(p, input)
  /\ sends' = [sends EXCEPT ![p] = Outputs]
  /\ UNCHANGED <<dropping, members, delivered>>

\* Everyone has left the room: the game is closed, and the handler is done.
Closed == \A p \in Players : dropped_players'[p] /\ ~ in_game'[p]

\* execute_drop_game for p, in task t, until the lock is released.
execute_drop_game(t, p) ==
  /\ Idle(t) /\ Running
  /\ mark_player_dropped(p)
  /\ sends' = [sends EXCEPT ![t] = IF Closed THEN <<>> ELSE Outputs]
  /\ dropping' = [dropping EXCEPT ![t] = ~ Closed]
  /\ UNCHANGED <<registered, delivered>>

DropGame(p) == /\ in_game[p]
               /\ UNCHANGED in_game
               /\ execute_drop_game(p, p)

\* p leaves the game, which task t sees to; a tombstone stays.
Leave(t, p) == /\ in_game[p]
               /\ in_game' = [in_game EXCEPT ![p] = FALSE]
               /\ execute_drop_game(t, p)

\* handle_quit_game, for a player who quits and for one who fell silent.
QuitGame(p) == Leave(p, p)
Reap(p) == Leave(Cleanup, p)

\* The owner is the first player who has not left (migrate_owner_if_needed).
Owner(t) == in_game[t] /\ \A q \in Players : q < t => ~ in_game[q]

KickUser(t, p) == Owner(t) /\ Leave(t, p)

\* Mutation: what the drop released is not sent.
SetIdle_only(t) ==
  /\ dropping[t]
  /\ dropping' = [dropping EXCEPT ![t] = FALSE]
  /\ sends' = [sends EXCEPT ![t] = <<>>]
  /\ UNCHANGED <<vars, members, delivered>>

\* Everyone's status goes back to idle, tombstones included. A player who is no longer
\* a client of the server is an error, which ends the handler with the frames unsent.
SetIdle(t) ==
  /\ dropping[t]
  /\ dropping' = [dropping EXCEPT ![t] = FALSE]
  /\ sends' = IF \A p \in Players : registered[p] THEN sends ELSE [sends EXCEPT ![t] = <<>>]
  /\ UNCHANGED <<vars, members, delivered>>

\* send_packet takes the receiver's next message number. The first receiver who is no
\* longer a client of the server ends the handler: the rest is never sent.
SendPacket(t) ==
  /\ ~ dropping[t] /\ sends[t] # <<>>
  /\ LET to == Head(sends[t]).to
     IN IF registered[to]
        THEN /\ delivered' = [delivered EXCEPT ![to] = Append(@, Head(sends[t]).frame)]
             /\ sends' = [sends EXCEPT ![t] = Tail(@)]
        ELSE /\ sends' = [sends EXCEPT ![t] = <<>>]
             /\ UNCHANGED delivered
  /\ UNCHANGED <<vars, dropping, members>>

\* handle_user_quit, the end of a session and the cleanup: having left the game, the
\* client goes. What his own task still has to send, it sends.
RemoveClient(t, p) ==
  /\ t \in {p, Cleanup} /\ Idle(t)
  /\ registered[p] /\ ~ in_game[p]
  /\ registered' = [registered EXCEPT ![p] = FALSE]
  /\ UNCHANGED <<vars, tasks, in_game, delivered>>

DeliveryNext ==
  \/ \E p \in Players : \/ \E input \in Packets : HandleInput(p, input)
                        \/ DropGame(p) \/ QuitGame(p) \/ Reap(p)
                        \/ \E t \in Players : KickUser(t, p)
                        \/ \E t \in Tasks : RemoveClient(t, p)
  \/ \E t \in Tasks : SetIdle(t) \/ SendPacket(t)

DeliverySpec == DeliveryInit /\ [][DeliveryNext]_delivery

-----------------------------------------------------------------------------
(***************************************************************************)
(* Properties.                                                             *)
(***************************************************************************)
\* A task handles one thing at a time; whoever is in the game is a client.
DeliveryTypeOK ==
  /\ \A p \in Players : /\ in_game[p] => registered[p]
                        /\ ~ in_game[p] => dropped_players[p]
                        /\ \A i \in DOMAIN delivered[p] : delivered[p][i] \in 1 .. Made
  /\ \A t \in Tasks : \A i \in DOMAIN sends[t] :
       sends[t][i] \in [to : Players, frame : 1 .. Made]

\* As long as nobody has dropped, everyone is sent the frames in order and without a
\* gap, although they are sent after the lock is released and by the task of whoever
\* completed them: the next frame needs an input from the task still sending this one.
InOrderUntilADrop ==
  (\A p \in Players : ~ dropped_players[p]) =>
     \A p \in Players : delivered[p] = [i \in DOMAIN delivered[p] |-> i]

\* The frames made for p that are neither sent to him nor about to be.
Lost(p) == {k \in 1 .. Made :
              /\ \A i \in DOMAIN delivered[p] : delivered[p][i] # k
              /\ \A t \in Tasks : \A i \in DOMAIN sends[t] : sends[t][i] # [to |-> p, frame |-> k]}

\* As long as nobody has left the server nobody in the room loses a frame, whoever
\* drops or leaves the room: drops alone cost the others nothing.
NothingLostWhileAllAreHere ==
  (\A p \in Players : registered[p]) => \A p \in Players : in_game[p] => Lost(p) = {}
==============================================================================
