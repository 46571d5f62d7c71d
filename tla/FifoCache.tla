------------------------------ MODULE FifoCache ------------------------------
(***************************************************************************)
(* What InputCache (simplest_game_sync.rs) promises: it answers every call *)
(* as a scan of the plain window would. Module InputCache shows how the    *)
(* code does that with an index.                                           *)
(***************************************************************************)
EXTENDS CacheWindow

CONSTANTS Data,       \* the contents that can be cached
          PosValues   \* how many positions a message can name (a byte: 256)

VARIABLES slots,      \* the window, oldest first
          answer      \* what the last operation returned

fifo == <<slots, answer>>

Init == /\ slots = <<>>
        /\ answer = [op |-> "new"]

Push(d) == /\ answer' = [op |-> "push", evicted |-> Full(slots)]
           /\ slots' = Store(slots, d)

Find(d) == /\ answer' = [op |-> "find", of |-> d, pos |-> Newest(slots, d)]
           /\ UNCHANGED slots

Get(pos) == /\ answer' = [op |-> "get", at |-> pos, found |-> At(slots, pos)]
            /\ UNCHANGED slots

Next == \/ \E d \in Data : Push(d) \/ Find(d)
        \/ \E pos \in 0 .. PosValues - 1 : Get(pos)

Spec == Init /\ [][Next]_fifo
==============================================================================
