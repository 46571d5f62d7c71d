--------------------------- MODULE SimplestGameSync ---------------------------
(***************************************************************************)
(* SimplestGameSync of simplest_game_sync.rs: the combiner of a running    *)
(* game. Inputs queue up per player; whenever every player still in the    *)
(* game has one, a round takes one from each queue, and the resulting row  *)
(* goes to a send buffer per player, which is emptied in whole packets.    *)
(*                                                                         *)
(* The `while` of drain_ready_inputs is modelled by its effect: the number *)
(* of rounds it makes, the rows they yield, and what the buffers emit.     *)
(* MCSimplestGameSync runs the loop statement by statement and compares.   *)
(* A send buffer holds rows (the code keeps the inputs of the rows one     *)
(* after the other, and always takes them by whole rows).                  *)
(***************************************************************************)
EXTENDS Integers, Sequences

CONSTANTS Players,     \* slots, 1 .. n
          Delay,       \* player_delays: the connection type of each player
          Byte,        \* values of an input byte
          Packets,     \* the inputs a client may send
          MaxFrames    \* bound on the inputs queued for one player in a game

\* Connection types are checked to be 1 at login (user.rs); the combiner itself
\* takes any positive delay. Zero stands for a button nobody presses.
ASSUME SyncAssumption ==
  /\ Players # {}
  /\ Delay \in [Players -> Nat \ {0}]
  /\ 0 \in Byte /\ Byte \subseteq Nat
  /\ Packets \subseteq Seq(Byte)
  /\ MaxFrames \in Nat

VARIABLES player_input,     \* player_input[p]: inputs waiting for a round
          sender_buffer,    \* sender_buffer[p]: rows waiting for a full packet to p
          dropped_players,  \* dropped_players[p]
          game_data_size,   \* bytes of one input, learned from the first; 0 before
          contributed,      \* history: every input queued for p
          sent              \* history: every row handed out for p

sync == <<player_input, sender_buffer, dropped_players, game_data_size>>
vars == <<sync, contributed, sent>>

Zeros(n) == [i \in 1 .. n |-> 0]

Init == /\ player_input = [p \in Players |-> <<>>]
        /\ sender_buffer = [p \in Players |-> <<>>]
        /\ dropped_players = [p \in Players |-> FALSE]
        /\ game_data_size = 0
        /\ contributed = [p \in Players |-> <<>>]
        /\ sent = [p \in Players |-> <<>>]

-----------------------------------------------------------------------------
(***************************************************************************)
(* drain_ready_inputs                                                      *)
(***************************************************************************)
\* Mutation: a dropped player still holds the others back.
RoundReadyWaiting(queue, dropped, k) == \A p \in Players : Len(queue[p]) >= k

\* Mutation: rounds go on for as long as anybody has an input.
RoundReadyHasty(queue, dropped, k) == \E p \in Players : Len(queue[p]) >= k

\* The loop's condition before its k-th round: every queue has an input left, but
\* for those of dropped players, and some queue has one.
RoundReady(queue, dropped, k) ==
  /\ \A p \in Players : Len(queue[p]) >= k \/ dropped[p]
  /\ \E p \in Players : Len(queue[p]) >= k

Rounds(queue, dropped) ==
  CHOOSE n \in 0 .. MaxFrames :
    ~ RoundReady(queue, dropped, n + 1) /\ \A k \in 1 .. n : RoundReady(queue, dropped, k)

\* Mutation: a round takes the newest input of a queue.
RowNewest(queue, size, k) ==
  [p \in Players |-> IF Len(queue[p]) >= k THEN queue[p][Len(queue[p]) - k + 1] ELSE Zeros(size)]

\* What the k-th round takes: the input at hand, or zeros for a dropped player.
Row(queue, size, k) ==
  [p \in Players |-> IF Len(queue[p]) >= k THEN queue[p][k] ELSE Zeros(size)]

\* Mutation: a packet that is just full waits for one more row.
WholeRowsLate(rows, d) == IF rows = <<>> THEN 0 ELSE Len(rows) - 1 - ((Len(rows) - 1) % d)

\* How many of the buffered rows leave in packets of d rows.
WholeRows(rows, d) == Len(rows) - (Len(rows) % d)

Drain(queue, dropped, size) ==
  LET n == Rounds(queue, dropped)
      buffered == [p \in Players |-> sender_buffer[p] \o [k \in 1 .. n |-> Row(queue, size, k)]]
      leaving == [p \in Players |-> WholeRows(buffered[p], Delay[p])]
  IN /\ player_input' = [p \in Players |-> SubSeq(queue[p], n + 1, Len(queue[p]))]
     /\ sender_buffer' =
          [p \in Players |-> SubSeq(buffered[p], leaving[p] + 1, Len(buffered[p]))]
     /\ sent' = [p \in Players |-> sent[p] \o SubSeq(buffered[p], 1, leaving[p])]

(***************************************************************************)
(* process_client_input                                                    *)
(***************************************************************************)
\* input.chunks(len / delay); an input shorter than the delay is not queued.
Chunks(input, d) ==
  LET size == Len(input) \div d
  IN IF size = 0 THEN <<>>
     ELSE [i \in 1 .. (Len(input) + size - 1) \div size |->
             SubSeq(input, (i - 1) * size + 1,
                           IF i * size <= Len(input) THEN i * size ELSE Len(input))]

\* An input from a dropped player is skipped, without a drain.
SkipDropped(p) == dropped_players[p] /\ UNCHANGED vars

Queue(p, chunks) ==
  /\ ~ dropped_players[p]
  /\ Len(contributed[p]) + Len(chunks) <= MaxFrames
  /\ contributed' = [contributed EXCEPT ![p] = @ \o chunks]
  /\ game_data_size' = IF game_data_size = 0 /\ chunks # <<>> THEN Len(chunks[1])
                                                              ELSE game_data_size
  /\ Drain([player_input EXCEPT ![p] = @ \o chunks], dropped_players, game_data_size')
  /\ UNCHANGED dropped_players

process_client_input(p, input) == SkipDropped(p) \/ Queue(p, Chunks(input, Delay[p]))

(***************************************************************************)
(* mark_player_dropped: what the others were waiting for may be complete.  *)
(***************************************************************************)
\* Mutation: no drain.
mark_player_dropped_only(p) ==
  /\ dropped_players' = [dropped_players EXCEPT ![p] = TRUE]
  /\ UNCHANGED <<player_input, sender_buffer, game_data_size, contributed, sent>>

mark_player_dropped(p) ==
  /\ dropped_players' = [dropped_players EXCEPT ![p] = TRUE]
  /\ Drain(player_input, dropped_players', game_data_size)
  /\ UNCHANGED <<game_data_size, contributed>>

Next == \E p \in Players : \/ mark_player_dropped(p)
                           \/ \E input \in Packets : process_client_input(p, input)

Spec == Init /\ [][Next]_vars

-----------------------------------------------------------------------------
(***************************************************************************)
(* Properties.                                                             *)
(***************************************************************************)
Game == INSTANCE Lockstep
          WITH gone <- dropped_players,
               Inputs <- {Chunks(input, Delay[p]) : input \in Packets, p \in Players}

Chunk == Seq(Byte)
Frame == [Players -> Chunk]

\* The fields of SimplestGameSync; no send buffer ever holds a whole packet.
TypeOK ==
  /\ player_input \in [Players -> Seq(Chunk)]
  /\ sender_buffer \in [Players -> Seq(Frame)]
  /\ dropped_players \in [Players -> BOOLEAN]
  /\ game_data_size \in Nat
  /\ contributed \in [Players -> Seq(Chunk)]
  /\ sent \in [Players -> Seq(Frame)]
  /\ \A p \in Players : /\ Len(contributed[p]) <= MaxFrames
                        /\ Len(sender_buffer[p]) < Delay[p]

\* Across any interleaving of inputs and drops no input is lost, used twice, used
\* out of order or put into another frame than its own: what a player was sent and
\* what waits for him make up the one log of complete frames, and what waits in a
\* queue is exactly what the log has not used (drain_ready_inputs).
Accounted ==
  \A p \in Players :
    /\ sent[p] \o sender_buffer[p] = Game!Log
    /\ player_input[p] = SubSeq(contributed[p], Len(Game!Log) + 1, Len(contributed[p]))

\* A round that can be made has been made: when everybody waits, it is for a player
\* who is still in the game and has nothing queued (the drop of the player everyone
\* waits for, simplest_game_sync.rs:369-383).
WaitsForALivePlayer ==
  (\E p \in Players : player_input[p] # <<>>)
     => \E q \in Players : ~ dropped_players[q] /\ player_input[q] = <<>>

\* Every player receives all complete frames that fill packets of his, the same
\* frames as everyone else, and as soon as they are complete.
KeepsLockstep == Game!Spec
==============================================================================
