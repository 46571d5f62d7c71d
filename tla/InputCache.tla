------------------------------ MODULE InputCache ------------------------------
(***************************************************************************)
(* InputCache of simplest_game_sync.rs: the 256-slot cache, with the index *)
(* that lets `find` answer without scanning. Slots are numbered for ever   *)
(* (abs_tail counts every push); index_map keeps, for each content in the  *)
(* window, the absolute numbers of its slots, oldest first. One action per *)
(* method; `answer` is what the method returned. Module CacheWindow has    *)
(* the window without the index, for the modules that only need it.        *)
(***************************************************************************)
EXTENDS CacheWindow

CONSTANTS Data,        \* contents (Vec<u8> in the code)
          PosValues,   \* how many values a position has on the wire: a u8, 256
          MaxPushes    \* bound on abs_tail, a 64-bit counter in the code

ASSUME CacheAssumption ==
  /\ CacheSize \in Nat \ {0}
  /\ PosValues \in Nat /\ CacheSize <= PosValues
  /\ MaxPushes \in Nat

VARIABLES slots,       \* VecDeque of contents, oldest first
          index_map,   \* content -> absolute numbers of its slots; absent if none
          abs_tail,    \* absolute number of the next slot
          answer       \* the value the last call returned

vars == <<slots, index_map, abs_tail, answer>>

Fifo == INSTANCE FifoCache

Init == /\ slots = <<>>
        /\ index_map = [d \in {} |-> <<>>]
        /\ abs_tail = 0
        /\ answer = [op |-> "new"]

-----------------------------------------------------------------------------
(***************************************************************************)
(* push: a full cache first gives up its oldest slot, together with that   *)
(* slot's entry in the index (and the key, if it was its last entry).      *)
(***************************************************************************)
\* Mutation: off by one.
Evicts_late == Len(slots) > CacheSize

Evicts == Len(slots) >= CacheSize

\* Mutation: an empty list stays behind where the key should go.
PopKeepingKey(index, old) == [index EXCEPT ![old] = Tail(@)]

PopOldest(index, old) ==
  IF Tail(index[old]) = <<>>
  THEN [d \in DOMAIN index \ {old} |-> index[d]]
  ELSE [index EXCEPT ![old] = Tail(@)]

PushNewest(index, d, tail) ==
  [e \in DOMAIN index \cup {d} |->
     IF e # d THEN index[e]
     ELSE Append(IF d \in DOMAIN index THEN index[d] ELSE <<>>, tail)]

Push(d) ==
  /\ abs_tail < MaxPushes
  /\ index_map' = PushNewest(IF Evicts THEN PopOldest(index_map, Head(slots)) ELSE index_map,
                             d, abs_tail)
  /\ abs_tail' = abs_tail + 1
  /\ slots' = Append(IF Evicts THEN Tail(slots) ELSE slots, d)
  /\ answer' = [op |-> "push", evicted |-> Evicts]

(***************************************************************************)
(* find: the last slot listed for the content, relative to the oldest live *)
(* slot, cast to the wire's width. A pure query.                           *)
(***************************************************************************)
\* Mutation: the oldest slot listed instead of the newest.
OldestPosition(d) ==
  IF d \in DOMAIN index_map
  THEN (index_map[d][1] - (abs_tail - Len(slots))) % PosValues
  ELSE None

\* Mutation: the absolute number is cast before the head is subtracted.
EarlyCastPosition(d) ==
  IF d \in DOMAIN index_map
  THEN (index_map[d][Len(index_map[d])] % PosValues) - (abs_tail - Len(slots))
  ELSE None

Position(d) ==
  IF d \in DOMAIN index_map
  THEN (index_map[d][Len(index_map[d])] - (abs_tail - Len(slots))) % PosValues
  ELSE None

Find(d) == /\ answer' = [op |-> "find", of |-> d, pos |-> Position(d)]
           /\ UNCHANGED <<slots, index_map, abs_tail>>

\* get: the content at a position a client named.
Content(pos) == IF pos < Len(slots) THEN <<slots[pos + 1]>> ELSE <<>>

Get(pos) == /\ answer' = [op |-> "get", at |-> pos, found |-> Content(pos)]
            /\ UNCHANGED <<slots, index_map, abs_tail>>

Next == \/ \E d \in Data : Push(d) \/ Find(d)
        \/ \E pos \in 0 .. PosValues - 1 : Get(pos)

Spec == Init /\ [][Next]_vars

-----------------------------------------------------------------------------
(***************************************************************************)
(* Properties.                                                             *)
(***************************************************************************)

\* The window never outgrows the cache; the index maps contents to lists of
\* slot numbers. (InputCache, its three fields.)
TypeOK == /\ slots \in Seq(Data)
          /\ Len(slots) <= CacheSize
          /\ abs_tail \in Nat /\ Len(slots) <= abs_tail
          /\ DOMAIN index_map \subseteq Data
          /\ \A d \in DOMAIN index_map : index_map[d] \in Seq(Nat)

\* `list` holds, in ascending order and without repetition, numbers of slots of
\* the window that hold d; the window ends just before slot number `tail`.
ListsSlotsOf(list, d, window, tail) ==
  /\ list # <<>>
  /\ \A k \in 1 .. Len(list) : /\ list[k] \in tail - Len(window) .. tail - 1
                               /\ window[list[k] - (tail - Len(window)) + 1] = d
  /\ \A j, k \in 1 .. Len(list) : j < k => list[j] < list[k]

Exact(index, window, tail) ==
  /\ \A d \in DOMAIN index : ListsSlotsOf(index[d], d, window, tail)
  /\ \A i \in 1 .. Len(window) :
       /\ window[i] \in DOMAIN index
       /\ \E k \in 1 .. Len(index[window[i]]) :
            index[window[i]][k] = tail - Len(window) + i - 1

\* The index lists exactly the live slots of each content: no entry survives its
\* slot (the debug_assert in `find`), no live slot is missing, and a content with
\* no slot left has no key, so the map cannot grow with every content ever seen.
IndexExact == Exact(index_map, slots, abs_tail)

\* A position handed out by `find` fits the wire and reads back, through `get`,
\* the content it was asked for: what makes a GameCache message mean anything.
FindReadsBack ==
  \A d \in Data : Position(d) # None =>
    /\ Position(d) \in 0 .. PosValues - 1
    /\ Content(Position(d)) = <<d>>

\* Every call returns what a scan of the plain window returns ("this yields the
\* same positions a linear scan would", simplest_game_sync.rs:35).
AnswersLikeAScan == Fifo!Spec
==============================================================================
