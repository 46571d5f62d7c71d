------------------------------- MODULE Lockstep -------------------------------
(***************************************************************************)
(* What a running game promises its players, said without queues, buffers  *)
(* or rounds: there is one log of frames, the same for everyone. Frame k   *)
(* is complete as soon as every player still in the game has contributed k *)
(* inputs, and holds one input per player (zeros for a player who is gone  *)
(* and left none). A player has received, at every moment, all complete    *)
(* frames that fill whole packets of his own size, in order.               *)
(* Module SimplestGameSync shows how simplest_game_sync.rs keeps this.     *)
(***************************************************************************)
EXTENDS Integers, Sequences

CONSTANTS Players,     \* the slots of the game
          Delay,       \* Delay[p]: how many frames a packet to p holds
          Inputs,      \* the chunk sequences one message can contribute
          MaxFrames    \* bound on the inputs of one player

VARIABLES contributed,     \* contributed[p]: p's inputs so far, one per frame
          gone,            \* gone[p]: p dropped
          game_data_size,  \* bytes of one input, set by the first one; 0 before
          sent             \* sent[p]: the frames p was sent

lockstep == <<contributed, gone, game_data_size, sent>>

Zeros(n) == [i \in 1 .. n |-> 0]

Complete(k) == /\ \A p \in Players : Len(contributed[p]) >= k \/ gone[p]
               /\ \E p \in Players : Len(contributed[p]) >= k

Frames == CHOOSE n \in 0 .. MaxFrames :
            ~ Complete(n + 1) /\ \A k \in 1 .. n : Complete(k)

Log == [k \in 1 .. Frames |->
          [p \in Players |-> IF Len(contributed[p]) >= k THEN contributed[p][k]
                                                         ELSE Zeros(game_data_size)]]

\* The frames of `log` that fill whole packets of d frames.
Whole(log, d) == SubSeq(log, 1, Len(log) - (Len(log) % d))

-----------------------------------------------------------------------------
Init == /\ contributed = [p \in Players |-> <<>>]
        /\ gone = [p \in Players |-> FALSE]
        /\ game_data_size = 0
        /\ sent = [p \in Players |-> <<>>]

\* Everyone has been sent all there is to send.
UpToDate == sent = [p \in Players |-> Whole(Log, Delay[p])]

Contribute(p, chunks) ==
  /\ ~ gone[p]
  /\ contributed' = [contributed EXCEPT ![p] = @ \o chunks]
  /\ game_data_size' = IF game_data_size = 0 /\ chunks # <<>> THEN Len(chunks[1])
                                                              ELSE game_data_size
  /\ UNCHANGED gone
  /\ UpToDate'

Drop(p) == /\ gone' = [gone EXCEPT ![p] = TRUE]
           /\ UNCHANGED <<contributed, game_data_size>>
           /\ UpToDate'

Next == \E p \in Players : Drop(p) \/ \E chunks \in Inputs : Contribute(p, chunks)

Spec == Init /\ [][Next]_lockstep
==============================================================================
