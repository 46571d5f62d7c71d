---------------------------- MODULE DelayedGameSync ----------------------------
(***************************************************************************)
(* The sync engine of a running game (simplest_game_sync.rs), three layers *)
(* on top of each other:                                                   *)
(*   DelayedGameSync  resolves a client's cache references and holds a     *)
(*                    player's first inputs back, answering with zeros;    *)
(*   CachedGameSync   names an output it sent before by its position in    *)
(*                    the receiver's cache;                                *)
(*   SimplestGameSync combines the inputs (module SimplestGameSync).       *)
(* One action per call of DelayedGameSync. `responses` is what handlers/   *)
(* sync.rs and execute_drop_game send; module GamePlay lets clients take   *)
(* them. CachedGameSync also keeps a copy of the inputs of each client; it *)
(* is never read (this layer only passes it full data), and is left out.   *)
(***************************************************************************)
EXTENDS CacheWindow, SequencesExt

CONSTANTS Players, Delay, Byte, Packets, MaxFrames,  \* see SimplestGameSync
          TotalDelays   \* the warm-ups start_game may choose

\* The comment on frame_size: the layer assumes one frame per packet. An emulator's input
\* has at least a byte; that is up to the client, handle_game_data does not ask for it.
ASSUME EngineAssumption ==
  /\ Players = 1 .. Len(Delay) /\ Players # {} /\ Delay \in Seq({1})
  /\ 0 \in Byte /\ Byte \subseteq Nat
  /\ Packets \subseteq Seq(Byte) \ {<<>>}
  /\ MaxFrames \in Nat
  /\ TotalDelays \subseteq [Players -> Nat]
  /\ CacheSize \in Nat \ {0}

VARIABLES
  player_input, sender_buffer, dropped_players, game_data_size, contributed, sent,
  input_caches,          \* input_caches[p]: mirror of p's cache of what he sent
  queues,                \* queues[p]: the inputs held back at startup
  warmup_sent,           \* warmup_sent[p]: zero frames given to p
  total_delays,          \* total_delays[p]: zero frames p is due
  frame_size,            \* bytes of an input, learned from the first
  output_caches,         \* output_caches[p]: mirror of p's cache of what he received
  disable_output_cache,  \* config: never name an output by its position
  responses              \* responses[p]: sent to p, not yet taken by p

Sync == INSTANCE SimplestGameSync

combiner == <<player_input, sender_buffer, dropped_players, game_data_size, contributed, sent>>
startup == <<input_caches, queues, warmup_sent, total_delays, frame_size>>
cached == <<output_caches, disable_output_cache, responses>>
engine == <<combiner, startup, cached>>

EngineInit ==
  /\ Sync!Init
  /\ total_delays \in TotalDelays
  /\ disable_output_cache \in BOOLEAN
  /\ frame_size = 0
  /\ input_caches = [p \in Players |-> <<>>]
  /\ queues = [p \in Players |-> <<>>]
  /\ warmup_sent = [p \in Players |-> 0]
  /\ output_caches = [p \in Players |-> <<>>]
  /\ responses = [p \in Players |-> <<>>]

-----------------------------------------------------------------------------
(***************************************************************************)
(* CachedGameSync: outputs become GameData or GameCache, in order.         *)
(***************************************************************************)
GameData(data) == [kind |-> "GameData", data |-> data]
GameCache(pos) == [kind |-> "GameCache", pos |-> pos]

\* The client's notice of a cache miss ("Game Data Error!", handle_game_cache).
Notice == [kind |-> "Notice"]

\* Mutation: an output named by its position is stored once more.
make_cached_output_storing(s, output) ==
  LET pos == Newest(s.cache, output)
  IN IF disable_output_cache THEN [s EXCEPT !.made = Append(@, GameData(output))]
     ELSE [cache |-> Store(s.cache, output),
           made  |-> Append(s.made, IF pos # None THEN GameCache(pos) ELSE GameData(output))]

make_cached_output(s, output) ==
  LET pos == Newest(s.cache, output)
  IN CASE disable_output_cache -> [s EXCEPT !.made = Append(@, GameData(output))]
       [] ~ disable_output_cache /\ pos # None -> [s EXCEPT !.made = Append(@, GameCache(pos))]
       [] OTHER -> [cache |-> Store(s.cache, output), made |-> Append(s.made, GameData(output))]

\* One output after the other.
Responding(start, outputs) ==
  LET s[i \in 0 .. Len(outputs)] ==
        IF i = 0 THEN start ELSE make_cached_output(s[i - 1], outputs[i])
  IN s[Len(outputs)]

\* outputs[p]: what a call made for p, in order.
Respond(outputs) ==
  LET after == [p \in Players |->
                  Responding([cache |-> output_caches[p], made |-> responses[p]], outputs[p])]
  IN /\ output_caches' = [p \in Players |-> after[p].cache]
     /\ responses' = [p \in Players |-> after[p].made]
     /\ UNCHANGED disable_output_cache

\* The outputs of the combiner's last step: with one frame per packet, each row it
\* handed out, its inputs one after the other.
Combined == [p \in Players |->
               [k \in 1 .. Len(sent'[p]) - Len(sent[p]) |->
                  FlattenSeq(sent'[p][Len(sent[p]) + k])]]

-----------------------------------------------------------------------------
(***************************************************************************)
(* DelayedGameSync                                                         *)
(***************************************************************************)
\* The bytes a message stands for, if they can be told.
Resolve(p, input) ==
  IF input.kind = "GameData" THEN <<input.data>> ELSE At(input_caches[p], input.pos)

\* The number of bytes of the zero frame is that of a whole row.
ZeroFrame(size) == Sync!Zeros(Len(Delay) * size)

\* Mutation: one zero frame too many.
Warming_late(p) == warmup_sent[p] <= total_delays[p]

Warming(p) == warmup_sent[p] < total_delays[p]

\* Mutation: the warm-up answers nothing.
WarmUp_silent(p, bytes) ==
  /\ Warming(p)
  /\ queues' = [queues EXCEPT ![p] = Append(@, bytes)]
  /\ warmup_sent' = [warmup_sent EXCEPT ![p] = @ + 1]
  /\ UNCHANGED <<combiner, cached>>

\* Save the input; answer the sender, and nobody else, with a zero frame.
WarmUp(p, bytes) ==
  /\ Warming(p)
  /\ queues' = [queues EXCEPT ![p] = Append(@, bytes)]
  /\ warmup_sent' = [warmup_sent EXCEPT ![p] = @ + 1]
  /\ Respond([q \in Players |-> IF q = p THEN <<ZeroFrame(frame_size')>> ELSE <<>>])
  /\ UNCHANGED combiner

\* Flush one saved input; the current one is thrown away.
CatchUp(p, bytes) ==
  /\ ~ Warming(p) /\ queues[p] # <<>>
  /\ Sync!process_client_input(p, Head(queues[p]))
  /\ queues' = [queues EXCEPT ![p] = Tail(@)]
  /\ Respond(Combined)
  /\ UNCHANGED warmup_sent

Steady(p, bytes) ==
  /\ ~ Warming(p) /\ queues[p] = <<>>
  /\ Sync!process_client_input(p, bytes)
  /\ Respond(Combined)
  /\ UNCHANGED <<queues, warmup_sent>>

\* Mutation: only combined inputs reach the mirror of the client's cache.
Mirror_late(p, input) ==
  IF input.kind = "GameData" /\ ~ Warming(p)
  THEN [input_caches EXCEPT ![p] = Store(@, input.data)]
  ELSE input_caches

Mirror(p, input) ==
  IF input.kind = "GameData" THEN [input_caches EXCEPT ![p] = Store(@, input.data)]
                             ELSE input_caches

\* CachePositionNotFound: nothing changes, and the client is told.
Miss(p) == /\ responses' = [responses EXCEPT ![p] = Append(@, Notice)]
           /\ UNCHANGED <<combiner, startup, output_caches, disable_output_cache>>

process_client_input(p, input) ==
  IF Resolve(p, input) = <<>> THEN Miss(p)
  ELSE LET bytes == Resolve(p, input)[1]
       IN /\ input_caches' = Mirror(p, input)
          /\ frame_size' = IF frame_size = 0 THEN Len(bytes) ELSE frame_size
          /\ WarmUp(p, bytes) \/ CatchUp(p, bytes) \/ Steady(p, bytes)
          /\ UNCHANGED total_delays

\* What the player still has in the startup queue is thrown away.
mark_player_dropped(p) ==
  /\ queues' = [queues EXCEPT ![p] = <<>>]
  /\ Sync!mark_player_dropped(p)
  /\ Respond(Combined)
  /\ UNCHANGED <<input_caches, warmup_sent, total_delays, frame_size>>
==============================================================================
