----------------------------- MODULE GamePlayProofs -----------------------------
(***************************************************************************)
(* What the two layers over the combiner do for a client, for any number   *)
(* of players, any caches, delays, inputs and any length of game. A game   *)
(* of module GamePlay rests on three things proved elsewhere or first:     *)
(*                                                                         *)
(*   - the caches: the index of InputCache is exact, so `find` answers as  *)
(*     the scan of CacheWindow does that the game's steps use. TypeOK /\   *)
(*     IndexExact is inductive; the step that matters is push, taken in    *)
(*     its two halves, PopKeepsExact and PushKeepsExact;                   *)
(*   - the delays: the windows and warm-ups handle_start_game picks        *)
(*     balance, unless the window is shared and the players' own delays    *)
(*     differ;                                                             *)
(*   - the combiner, of which module FrameDeliveryProofs has the invariant *)
(*     and what its calls add to the rows handed out.                      *)
(*                                                                         *)
(* The invariant of a game, PlayInv, says of each player                   *)
(*   - Uplink: what is on its way to the server, read with the server's    *)
(*     mirror of his cache, is what he pressed last, and leaves the mirror *)
(*     as his cache is now;                                                *)
(*   - Downlink: what is on its way to him, read with his own cache, is    *)
(*     what he is due and has not decoded yet, and leaves his cache as the *)
(*     server's mirror is now (unless the output cache is off);            *)
(*   - Startup: how many zero frames he got, which inputs are held back,   *)
(*     and that what he contributed follows his schedule;                  *)
(* and of all of them that window and warm-up add up to the same (Settled).*)
(* Nothing weaker is inductive: a cache reference means what its sender    *)
(* meant only if both copies of the cache go through the same states, each *)
(* at its own pace. Channel says that, with a cache for every message      *)
(* still under way.                                                        *)
(***************************************************************************)
EXTENDS GamePlay, InputCache, ListsProofs

-----------------------------------------------------------------------------
(***************************************************************************)
(* The cache and its index.                                                *)
(***************************************************************************)
\* An index of the shape TypeOK asks for.
IndexType(index) == /\ DOMAIN index \subseteq Data
                    /\ \A d \in DOMAIN index : index[d] \in Seq(Nat)

\* Tail drops the first element and shifts the others.
LEMMA TailFacts ==
  ASSUME NEW S, NEW s \in Seq(S), s # <<>>
  PROVE  /\ Tail(s) \in Seq(S)
         /\ Len(s) \in Nat \ {0} /\ Len(Tail(s)) = Len(s) - 1
         /\ \A k \in 1 .. Len(Tail(s)) : Tail(s)[k] = s[k + 1]
         /\ Tail(s) # <<>> <=> Len(Tail(s)) # 0
<1>1. Tail(s) \in Seq(S) /\ Len(s) \in Nat \ {0} /\ Len(Tail(s)) = Len(s) - 1
  BY HeadTailProperties
<1>2. \A k \in 1 .. Len(Tail(s)) : Tail(s)[k] = s[k + 1]
  BY HeadTailProperties
<1>3. Tail(s) # <<>> <=> Len(Tail(s)) # 0
  BY <1>1, EmptySeq
<1>4. QED
  BY <1>1, <1>2, <1>3

\* Evicting the oldest slot: the number popped from the evicted content's list is
\* that slot's, because the list is ascending and the slot is the live's first.
LEMMA PopKeepsExact ==
  ASSUME NEW index, IndexType(index),
         NEW live \in Seq(Data), live # <<>>,
         NEW tail \in Nat, Len(live) <= tail,
         Exact(index, live, tail)
  PROVE  /\ IndexType(PopOldest(index, Head(live)))
         /\ Exact(PopOldest(index, Head(live)), Tail(live), tail)
<1> DEFINE old  == Head(live)
           rest == Tail(live)
           kept == PopOldest(index, old)
           full == index[old]
           left == Tail(full)
           h    == tail - Len(live)
<1>1. /\ Len(live) \in Nat \ {0} /\ Len(rest) = Len(live) - 1
      /\ old = live[1] /\ rest \in Seq(Data)
      /\ \A i \in 1 .. Len(rest) : rest[i] = live[i + 1]
      /\ h \in Nat /\ tail = h + Len(live)
  BY HeadTailProperties, EmptySeq, LenProperties
\* Exact, with the live's first number named.
<1>2. /\ \A d \in DOMAIN index :
           /\ index[d] \in Seq(Nat) /\ index[d] # <<>>
           /\ \A k \in 1 .. Len(index[d]) : /\ index[d][k] \in h .. tail - 1
                                            /\ live[index[d][k] - h + 1] = d
           /\ \A k1, k2 \in 1 .. Len(index[d]) : k1 < k2 => index[d][k1] < index[d][k2]
      /\ \A i \in 1 .. Len(live) :
           /\ live[i] \in DOMAIN index
           /\ \E k \in 1 .. Len(index[live[i]]) : index[live[i]][k] = h + i - 1
  BY DEF Exact, ListsSlotsOf, IndexType
<1>3. old \in DOMAIN index /\ full \in Seq(Nat) /\ full # <<>> /\ full = index[old]
  BY <1>1, <1>2
<1>4. /\ left \in Seq(Nat)
      /\ Len(full) \in Nat \ {0} /\ Len(left) = Len(full) - 1
      /\ \A k \in 1 .. Len(left) : left[k] = full[k + 1]
      /\ left # <<>> <=> Len(left) # 0
  BY <1>3, TailFacts
<1>5. /\ DOMAIN kept \subseteq DOMAIN index
      /\ \A d \in DOMAIN kept : kept[d] = IF d = old THEN left ELSE index[d]
      /\ \A d \in DOMAIN index : d # old => d \in DOMAIN kept
      /\ old \in DOMAIN kept <=> left # <<>>
  BY <1>3 DEF PopOldest
<1> HIDE DEF old, rest, kept, full, left, h
<1>6. IndexType(kept)
  BY <1>4, <1>5 DEF IndexType
<1>7. full[1] = h
  <2>1. PICK k \in 1 .. Len(full) : full[k] = h
    <3>1. 1 \in 1 .. Len(live) /\ h + 1 - 1 = h
      BY <1>1
    <3>2. \E k \in 1 .. Len(index[live[1]]) : index[live[1]][k] = h + 1 - 1
      BY <3>1, <1>2
    <3>3. QED
      BY <3>1, <3>2, <1>1, <1>3
  <2>2. 1 \in 1 .. Len(full)
    BY <1>4
  <2>3. full[1] \in h .. tail - 1 /\ (1 < k => full[1] < full[k])
    BY <1>2, <1>3, <2>1, <2>2
  <2>4. QED
    BY <1>1, <2>1, <2>3
\* What is left of a list starts after h.
<1>8. ASSUME NEW d \in DOMAIN kept, NEW k \in 1 .. Len(kept[d])
      PROVE  /\ kept[d][k] \in h + 1 .. tail - 1
             /\ live[kept[d][k] - h + 1] = d
  <2>1. CASE d = old
    <3>1. kept[d] = left /\ k \in 1 .. Len(left)
      BY <2>1, <1>5
    <3>2. kept[d][k] = full[k + 1] /\ 1 < k + 1
          /\ 1 \in 1 .. Len(full) /\ k + 1 \in 1 .. Len(full)
      BY <3>1, <1>4
    <3>3. /\ full[1] < full[k + 1] /\ full[k + 1] \in h .. tail - 1
          /\ live[full[k + 1] - h + 1] = old
      BY <3>2, <1>2, <1>3
    <3>4. QED
      BY <2>1, <3>2, <3>3, <1>1, <1>7
  <2>2. CASE d # old
    <3>1. kept[d] = index[d] /\ d \in DOMAIN index
      BY <2>2, <1>5
    <3>2. kept[d][k] \in h .. tail - 1 /\ live[kept[d][k] - h + 1] = d
      BY <3>1, <1>2
    <3>3. kept[d][k] # h
      <4>1. h - h + 1 = 1
        BY <1>1
      <4>2. QED
        BY <4>1, <3>2, <2>2, <1>1
    <3>4. QED
      BY <3>2, <3>3, <1>1
  <2>3. QED BY <2>1, <2>2
<1>9. ASSUME NEW d \in DOMAIN kept,
             NEW j \in 1 .. Len(kept[d]), NEW k \in 1 .. Len(kept[d]), j < k
      PROVE  kept[d][j] < kept[d][k]
  <2>1. CASE d = old
    <3>1. kept[d] = left /\ j \in 1 .. Len(left) /\ k \in 1 .. Len(left)
      BY <2>1, <1>5
    <3>2. /\ kept[d][j] = full[j + 1] /\ kept[d][k] = full[k + 1] /\ j + 1 < k + 1
          /\ j + 1 \in 1 .. Len(full) /\ k + 1 \in 1 .. Len(full)
      BY <3>1, <1>4, <1>9
    <3>3. QED
      BY <3>2, <1>2, <1>3
  <2>2. CASE d # old
    BY <2>2, <1>2, <1>5, <1>9
  <2>3. QED BY <2>1, <2>2
<1>10. ASSUME NEW d \in DOMAIN kept
       PROVE  ListsSlotsOf(kept[d], d, rest, tail)
  <2>1. kept[d] # <<>>
    BY <1>2, <1>5
  <2>2. tail - Len(rest) = h + 1
    BY <1>1
  <2>3. ASSUME NEW k \in 1 .. Len(kept[d])
        PROVE  rest[kept[d][k] - (h + 1) + 1] = d
    <3>1. /\ kept[d][k] \in h + 1 .. tail - 1
          /\ live[kept[d][k] - h + 1] = d
      BY <1>8
    <3>2. kept[d][k] - h \in 1 .. Len(rest) /\ kept[d][k] - (h + 1) + 1 = kept[d][k] - h
      <4> DEFINE v == kept[d][k]
      <4>1. /\ h \in Nat /\ Len(rest) \in Nat /\ tail = h + 1 + Len(rest)
            /\ v \in h + 1 .. tail - 1
        BY <3>1, <1>1
      <4> HIDE DEF v, h, rest
      <4>2. v - h \in 1 .. Len(rest) /\ v - (h + 1) + 1 = v - h
        BY <4>1
      <4>3. QED
        BY <4>2 DEF v
    <3>3. rest[kept[d][k] - h] = live[kept[d][k] - h + 1]
      BY <3>2, <1>1
    <3>4. QED
      BY <3>1, <3>2, <3>3
  <2>4. QED
    BY <1>8, <1>9, <2>1, <2>2, <2>3 DEF ListsSlotsOf
<1>11. ASSUME NEW i \in 1 .. Len(rest)
       PROVE  /\ rest[i] \in DOMAIN kept
              /\ \E k \in 1 .. Len(kept[rest[i]]) : kept[rest[i]][k] = tail - Len(rest) + i - 1
  <2>1. /\ rest[i] = live[i + 1] /\ i + 1 \in 1 .. Len(live)
        /\ tail - Len(rest) + i - 1 = h + i /\ h + (i + 1) - 1 = h + i
    BY <1>1
  <2>2. PICK k \in 1 .. Len(index[rest[i]]) : index[rest[i]][k] = h + i
    BY <1>2, <2>1
  <2>3. rest[i] \in DOMAIN index
    BY <1>2, <2>1
  <2>4. CASE rest[i] # old
    BY <2>1, <2>2, <2>3, <2>4, <1>5
  <2>5. CASE rest[i] = old
    <3>1. k \in 1 .. Len(full) /\ full[k] = h + i
      BY <2>2, <2>5, <1>3
    <3>2. k # 1
      BY <3>1, <1>1, <1>7
    <3>3. k - 1 \in 1 .. Len(left) /\ (k - 1) + 1 = k
      BY <3>1, <3>2, <1>4
    <3>4. left[k - 1] = h + i
      BY <3>1, <3>3, <1>4
    <3>5. left # <<>>
      BY <3>3, <1>4
    <3>6. old \in DOMAIN kept /\ kept[old] = left
      BY <3>5, <1>5
    <3>7. QED
      BY <2>1, <2>5, <3>3, <3>4, <3>6
  <2>6. QED
    BY <2>4, <2>5
<1>12. Exact(kept, rest, tail)
  BY <1>10, <1>11 DEF Exact
<1>13. QED
  BY <1>6, <1>12 DEF kept, rest, old

\* Storing a content: its new number is the largest, so its list stays ascending.
LEMMA PushKeepsExact ==
  ASSUME NEW index, IndexType(index),
         NEW live \in Seq(Data), NEW d \in Data,
         NEW tail \in Nat, Len(live) <= tail,
         Exact(index, live, tail)
  PROVE  /\ IndexType(PushNewest(index, d, tail))
         /\ Exact(PushNewest(index, d, tail), Append(live, d), tail + 1)
<1> DEFINE new  == PushNewest(index, d, tail)
           list == IF d \in DOMAIN index THEN index[d] ELSE <<>>
           long == Append(list, tail)
           wide == Append(live, d)
           h    == tail - Len(live)
<1>1. /\ wide \in Seq(Data) /\ Len(wide) = Len(live) + 1
      /\ wide[Len(live) + 1] = d
      /\ \A i \in 1 .. Len(live) : wide[i] = live[i]
      /\ Len(live) \in Nat /\ h \in Nat /\ tail = h + Len(live)
      /\ tail + 1 - Len(wide) = h
  BY AppendProperties, LenProperties
<1>2. /\ \A e \in DOMAIN index :
           /\ index[e] \in Seq(Nat) /\ index[e] # <<>>
           /\ \A k \in 1 .. Len(index[e]) : /\ index[e][k] \in h .. tail - 1
                                            /\ live[index[e][k] - h + 1] = e
           /\ \A k1, k2 \in 1 .. Len(index[e]) : k1 < k2 => index[e][k1] < index[e][k2]
      /\ \A i \in 1 .. Len(live) :
           /\ live[i] \in DOMAIN index
           /\ \E k \in 1 .. Len(index[live[i]]) : index[live[i]][k] = h + i - 1
  BY DEF Exact, ListsSlotsOf, IndexType
<1>3. /\ DOMAIN new = DOMAIN index \cup {d}
      /\ new[d] = long
      /\ \A e \in DOMAIN index : e # d => new[e] = index[e]
  BY DEF PushNewest
<1>4. /\ list \in Seq(Nat) /\ Len(list) \in Nat
      /\ \A k \in 1 .. Len(list) : list[k] \in h .. tail - 1 /\ live[list[k] - h + 1] = d
      /\ \A k1, k2 \in 1 .. Len(list) : k1 < k2 => list[k1] < list[k2]
      /\ d \in DOMAIN index => list = index[d]
  <2>1. CASE d \in DOMAIN index
    <3>1. list = index[d] /\ list \in Seq(Nat)
      BY <2>1, <1>2
    <3> HIDE DEF list, h
    <3>2. QED
      BY <2>1, <3>1, <1>2, LenProperties
  <2>2. CASE d \notin DOMAIN index
    BY <2>2, EmptySeq
  <2>3. QED BY <2>1, <2>2
<1> HIDE DEF new, list, wide, h
<1>5. /\ long \in Seq(Nat) /\ Len(long) = Len(list) + 1 /\ long # <<>>
      /\ long[Len(list) + 1] = tail
      /\ \A k \in 1 .. Len(list) : long[k] = list[k]
  BY <1>4, AppendProperties
<1> HIDE DEF long
<1>6. IndexType(new)
  BY <1>3, <1>5 DEF IndexType
<1>7. ASSUME NEW e \in DOMAIN new
      PROVE  ListsSlotsOf(new[e], e, wide, tail + 1)
  <2>1. CASE e = d
    <3>1. ASSUME NEW k \in 1 .. Len(long)
          PROVE  /\ long[k] \in h .. tail + 1 - 1
                 /\ wide[long[k] - h + 1] = d
      <4>1. CASE k = Len(list) + 1
        <5>1. long[k] = tail /\ tail - h + 1 = Len(live) + 1
          BY <4>1, <1>1, <1>5
        <5>2. h \in Nat /\ Len(live) \in Nat /\ tail = h + Len(live)
          BY <1>1
        <5>3. tail \in h .. tail + 1 - 1
          BY <5>2
        <5>4. wide[tail - h + 1] = d
          BY <5>1, <1>1
        <5>5. QED
          BY <5>1, <5>3, <5>4
      <4>2. CASE k \in 1 .. Len(list)
        <5>1. long[k] \in h .. tail - 1 /\ live[long[k] - h + 1] = d
          BY <4>2, <1>4, <1>5
        <5>2. long[k] - h + 1 \in 1 .. Len(live)
          BY <5>1, <1>1
        <5>3. QED
          BY <5>1, <5>2, <1>1
      <4>3. QED
        BY <4>1, <4>2, <1>4, <1>5
    <3>2. ASSUME NEW k1 \in 1 .. Len(long), NEW k2 \in 1 .. Len(long), k1 < k2
          PROVE  long[k1] < long[k2]
      <4>0. Len(list) \in Nat /\ Len(long) = Len(list) + 1
        BY <1>4, <1>5
      <4>a. k1 \in 1 .. Len(list)
        BY <3>2, <4>0
      <4>1. k1 \in 1 .. Len(list) /\ long[k1] = list[k1] /\ list[k1] \in h .. tail - 1
        BY <4>a, <1>4, <1>5
      <4>2. CASE k2 = Len(list) + 1
        BY <4>1, <4>2, <1>1, <1>5
      <4>3. CASE k2 \in 1 .. Len(list)
        BY <3>2, <4>1, <4>3, <1>4, <1>5
      <4>4. QED
        BY <4>2, <4>3, <1>4, <1>5
    <3>3. QED
      BY <2>1, <3>1, <3>2, <1>1, <1>3, <1>5 DEF ListsSlotsOf
  <2>2. CASE e # d
    <3>1. e \in DOMAIN index /\ new[e] = index[e]
      BY <2>2, <1>3
    <3>2. ASSUME NEW k \in 1 .. Len(new[e])
          PROVE  /\ new[e][k] \in h .. tail + 1 - 1
                 /\ wide[new[e][k] - h + 1] = e
      <4>1. new[e][k] \in h .. tail - 1 /\ live[new[e][k] - h + 1] = e
        BY <3>1, <1>2
      <4> DEFINE v == new[e][k]
      <4>2. /\ v \in h .. tail - 1 /\ live[v - h + 1] = e
            /\ h \in Nat /\ Len(live) \in Nat /\ tail = h + Len(live)
        BY <4>1, <1>1
      <4> HIDE DEF v
      <4>3. v - h + 1 \in 1 .. Len(live) /\ v \in h .. tail + 1 - 1
        BY <4>2
      <4>4. wide[v - h + 1] = live[v - h + 1]
        BY <4>3, <1>1
      <4>5. QED
        BY <4>2, <4>3, <4>4 DEF v
    <3>3. /\ new[e] # <<>>
          /\ \A k1, k2 \in 1 .. Len(new[e]) : k1 < k2 => new[e][k1] < new[e][k2]
      BY <3>1, <1>2
    <3>4. QED
      BY <3>2, <3>3, <1>1 DEF ListsSlotsOf
  <2>3. QED BY <2>1, <2>2
<1>8. ASSUME NEW i \in 1 .. Len(wide)
      PROVE  /\ wide[i] \in DOMAIN new
             /\ \E k \in 1 .. Len(new[wide[i]]) :
                  new[wide[i]][k] = tail + 1 - Len(wide) + i - 1
  <2>1. CASE i = Len(live) + 1
    <3>1. wide[i] = d /\ tail + 1 - Len(wide) + i - 1 = tail
      BY <2>1, <1>1
    <3>2. Len(list) + 1 \in 1 .. Len(long) /\ long[Len(list) + 1] = tail
      BY <1>4, <1>5
    <3>3. QED
      BY <3>1, <3>2, <1>3
  <2>2. CASE i \in 1 .. Len(live)
    <3>1. /\ wide[i] = live[i] /\ wide[i] \in DOMAIN index
          /\ tail + 1 - Len(wide) + i - 1 = h + i - 1
      BY <2>2, <1>1, <1>2
    <3>2. PICK k \in 1 .. Len(index[wide[i]]) : index[wide[i]][k] = h + i - 1
      BY <2>2, <3>1, <1>2
    <3>3. CASE wide[i] = d
      <4>1. k \in 1 .. Len(list) /\ list[k] = h + i - 1
        BY <3>1, <3>2, <3>3, <1>4
      <4>2. k \in 1 .. Len(long) /\ long[k] = h + i - 1
        BY <4>1, <1>4, <1>5
      <4>3. QED
        BY <3>1, <3>3, <4>2, <1>3
    <3>4. CASE wide[i] # d
      BY <3>1, <3>2, <3>4, <1>3
    <3>5. QED BY <3>3, <3>4
  <2>3. QED BY <2>1, <2>2, <1>1
<1>9. Exact(new, wide, tail + 1)
  BY <1>7, <1>8 DEF Exact
<1>10. QED
  BY <1>6, <1>9 DEF new, wide

-----------------------------------------------------------------------------
\* The index lists exactly the live slots, and the fields have their types, in
\* every reachable state of the cache. (push, find, get.)
CacheInv == TypeOK /\ IndexExact

LEMMA PushKeepsCache ==
  ASSUME CacheInv, NEW d \in Data, Push(d)
  PROVE  CacheInv'
<1> DEFINE index  == IF Evicts THEN PopOldest(index_map, Head(slots)) ELSE index_map
           live == IF Evicts THEN Tail(slots) ELSE slots
<1>1. /\ CacheSize \in Nat \ {0} /\ slots \in Seq(Data) /\ Len(slots) \in Nat
      /\ abs_tail \in Nat /\ Len(slots) <= abs_tail /\ Len(slots) <= CacheSize
      /\ IndexType(index_map) /\ Exact(index_map, slots, abs_tail)
  BY CacheAssumption DEF CacheInv, TypeOK, IndexExact, IndexType
<1>2. /\ live \in Seq(Data) /\ Len(live) < CacheSize /\ Len(live) <= abs_tail
      /\ IndexType(index) /\ Exact(index, live, abs_tail)
  <2>1. CASE Evicts
    <3>1. slots # <<>>
      BY <1>1, <2>1, EmptySeq DEF Evicts
    <3>2. /\ Tail(slots) \in Seq(Data) /\ Len(Tail(slots)) = Len(slots) - 1
      BY <1>1, <3>1, TailFacts
    <3>3. /\ IndexType(PopOldest(index_map, Head(slots)))
          /\ Exact(PopOldest(index_map, Head(slots)), Tail(slots), abs_tail)
      BY <1>1, <3>1, PopKeepsExact
    <3>4. QED
      BY <1>1, <2>1, <3>2, <3>3
  <2>2. CASE ~Evicts
    BY <1>1, <2>2 DEF Evicts
  <2>3. QED BY <2>1, <2>2
<1>3. /\ slots' = Append(live, d)
      /\ index_map' = PushNewest(index, d, abs_tail)
      /\ abs_tail' = abs_tail + 1
  BY DEF Push
<1> HIDE DEF index, live
<1>4. IndexType(index_map') /\ Exact(index_map', slots', abs_tail')
  BY <1>1, <1>2, <1>3, PushKeepsExact
<1>5. /\ slots' \in Seq(Data) /\ Len(slots') = Len(live) + 1 /\ Len(live) \in Nat
  BY <1>2, <1>3, AppendProperties, LenProperties
<1>6. /\ Len(slots') <= CacheSize /\ abs_tail' \in Nat /\ Len(slots') <= abs_tail'
  BY <1>1, <1>2, <1>3, <1>5
<1>7. QED
  BY <1>4, <1>5, <1>6 DEF CacheInv, TypeOK, IndexExact, IndexType

LEMMA InitCache == Init => CacheInv
<1> SUFFICES ASSUME Init PROVE CacheInv
  OBVIOUS
<1>1. slots = <<>> /\ slots \in Seq(Data) /\ Len(slots) = 0 /\ DOMAIN index_map = {} /\ abs_tail = 0
  BY EmptySeq DEF Init
<1>2. TypeOK
  BY <1>1, CacheAssumption DEF TypeOK
<1>3. IndexExact
  BY <1>1 DEF IndexExact, Exact
<1>4. QED BY <1>2, <1>3 DEF CacheInv

LEMMA StepCache == CacheInv /\ [Next]_vars => CacheInv'
<1> SUFFICES ASSUME CacheInv, [Next]_vars PROVE CacheInv'
  OBVIOUS
<1>1. CASE UNCHANGED <<slots, index_map, abs_tail>>
  BY <1>1 DEF CacheInv, TypeOK, IndexExact
<1>2. ASSUME NEW d \in Data, Push(d) PROVE CacheInv'
  BY <1>2, PushKeepsCache
<1>3. ASSUME NEW d \in Data, Find(d) PROVE CacheInv'
  BY <1>1, <1>3 DEF Find
<1>4. ASSUME NEW pos \in 0 .. PosValues - 1, Get(pos) PROVE CacheInv'
  BY <1>1, <1>4 DEF Get
<1>5. CASE UNCHANGED vars
  BY <1>1, <1>5 DEF vars
<1>6. QED
  BY <1>2, <1>3, <1>4, <1>5 DEF Next

LEMMA AlwaysCache == Spec => []CacheInv
BY InitCache, StepCache, PTL DEF Spec

\* The fields of InputCache keep their types and the live its size.
THEOREM CacheTypesHold == Spec => []TypeOK
<1>1. CacheInv => TypeOK
  BY DEF CacheInv
<1>2. QED
  BY <1>1, AlwaysCache, PTL

\* The index lists exactly the live slots of each content: the debug_assert in
\* `find` never fires and the map keeps no key of a content that is gone.
THEOREM IndexAlwaysExact == Spec => []IndexExact
<1>1. CacheInv => IndexExact
  BY DEF CacheInv
<1>2. QED
  BY <1>1, AlwaysCache, PTL

-----------------------------------------------------------------------------
\* What `find` computes from an exact index: the newest slot that holds d.
LEMMA PositionOfNewest ==
  ASSUME CacheInv, NEW d \in Data, d \in DOMAIN index_map
  PROVE  /\ Position(d) \in 0 .. Len(slots) - 1
         /\ Position(d) \in 0 .. PosValues - 1
         /\ slots[Position(d) + 1] = d
         /\ \A i \in 1 .. Len(slots) : slots[i] = d => i <= Position(d) + 1
<1> DEFINE list == index_map[d]
           last == Len(list)
           h    == abs_tail - Len(slots)
<1>1. /\ Len(slots) \in Nat /\ Len(slots) <= PosValues /\ PosValues \in Nat
      /\ abs_tail \in Nat /\ h \in Nat /\ abs_tail = h + Len(slots)
  BY CacheAssumption, LenProperties DEF CacheInv, TypeOK
<1>2. /\ list \in Seq(Nat) /\ list # <<>>
      /\ \A k \in 1 .. Len(list) : /\ list[k] \in h .. abs_tail - 1
                                   /\ slots[list[k] - h + 1] = d
      /\ \A j, k \in 1 .. Len(list) : j < k => list[j] < list[k]
      /\ \A i \in 1 .. Len(slots) :
           \E k \in 1 .. Len(index_map[slots[i]]) : index_map[slots[i]][k] = h + i - 1
  BY DEF CacheInv, TypeOK, IndexExact, Exact, ListsSlotsOf
<1>3. Position(d) = (list[last] - h) % PosValues
  BY DEF Position
<1> HIDE DEF list, h
<1>4. last \in 1 .. Len(list)
  BY <1>2, LenProperties, EmptySeq
<1>5. list[last] \in h .. abs_tail - 1 /\ slots[list[last] - h + 1] = d
  BY <1>2, <1>4
<1>6. list[last] - h \in 0 .. Len(slots) - 1
  BY <1>1, <1>5
<1>7. Position(d) = list[last] - h
  BY <1>1, <1>3, <1>6
<1>8. ASSUME NEW i \in 1 .. Len(slots), slots[i] = d
      PROVE  i <= Position(d) + 1
  <2>1. PICK k \in 1 .. Len(list) : list[k] = h + i - 1
    BY <1>2, <1>8 DEF list
  <2>2. k = last \/ list[k] < list[last]
    BY <1>2, <1>4, <2>1
  <2>3. QED
    BY <1>1, <1>5, <1>7, <2>1, <2>2
<1>9. QED
  BY <1>1, <1>5, <1>6, <1>7, <1>8

\* A position handed out by `find` fits a byte and reads back, through `get`, the
\* content it was asked for.
THEOREM FindAlwaysReadsBack == Spec => []FindReadsBack
<1>1. ASSUME CacheInv PROVE FindReadsBack
  <2>1. SUFFICES ASSUME NEW d \in Data, Position(d) # None
                 PROVE  /\ Position(d) \in 0 .. PosValues - 1
                        /\ Content(Position(d)) = <<d>>
    BY DEF FindReadsBack
  <2>2. d \in DOMAIN index_map
    BY <2>1 DEF Position
  <2>3. /\ Position(d) \in 0 .. Len(slots) - 1 /\ Position(d) \in 0 .. PosValues - 1
        /\ slots[Position(d) + 1] = d
    BY <1>1, <2>2, PositionOfNewest
  <2>4. Position(d) < Len(slots)
    BY <1>1, <2>3, LenProperties DEF CacheInv, TypeOK
  <2>5. QED
    BY <2>3, <2>4 DEF Content
<1>2. QED
  BY <1>1, AlwaysCache, PTL

-----------------------------------------------------------------------------
\* `find` answers as the scan of FifoCache does.
LEMMA FindScans ==
  ASSUME CacheInv, NEW d \in Data
  PROVE  Position(d) = Fifo!Newest(slots, d)
<1>1. DOMAIN slots = 1 .. Len(slots) /\ Len(slots) \in Nat
  BY LenProperties DEF CacheInv, TypeOK
<1>2. CASE d \in DOMAIN index_map
  <2> DEFINE IsLast(i) == /\ i \in DOMAIN slots /\ slots[i] = d
                        /\ \A j \in DOMAIN slots : slots[j] = d => j <= i
         newest == CHOOSE i \in DOMAIN slots : IsLast(i)
  <2>1. /\ Position(d) \in 0 .. Len(slots) - 1
        /\ slots[Position(d) + 1] = d
        /\ \A i \in 1 .. Len(slots) : slots[i] = d => i <= Position(d) + 1
    BY <1>2, PositionOfNewest
  <2>2. Position(d) \in Int /\ IsLast(Position(d) + 1)
    BY <1>1, <2>1
  <2>3. \A i \in DOMAIN slots : IsLast(i) => i = Position(d) + 1
    BY <1>1, <2>1, <2>2
  <2>4. newest = Position(d) + 1
    BY <2>2, <2>3
  <2>5. \E i \in DOMAIN slots : slots[i] = d
    BY <2>2
  <2>6. Fifo!Newest(slots, d) = newest - 1
    BY <2>5, Zenon DEF Fifo!Newest
  <2> HIDE DEF newest
  <2>7. QED
    BY <2>2, <2>4, <2>6
<1>3. CASE d \notin DOMAIN index_map
  <2>1. ~ \E i \in DOMAIN slots : slots[i] = d
    BY <1>1, <1>3 DEF CacheInv, IndexExact, Exact
  <2>2. QED
    BY <1>3, <2>1 DEF Position, Fifo!Newest, None, Fifo!None
<1>4. QED BY <1>2, <1>3

\* Every call returns what the plain live would: the index is an optimisation
\* and nothing else ("the same positions a linear scan would").
THEOREM CacheIsAScan == Spec => AnswersLikeAScan
<1>1. Init => Fifo!Init
  BY DEF Init, Fifo!Init
<1>2. ASSUME CacheInv, [Next]_vars PROVE [Fifo!Next]_<<slots, answer>>
  <2>1. ASSUME NEW d \in Data, Push(d) PROVE Fifo!Next
    <3>1. Fifo!Push(d)
      BY <2>1 DEF Push, Fifo!Push, Fifo!Full, Fifo!Store, Evicts
    <3>2. QED BY <3>1 DEF Fifo!Next
  <2>2. ASSUME NEW d \in Data, Find(d) PROVE Fifo!Next
    <3>1. Fifo!Find(d)
      BY <1>2, <2>2, FindScans DEF Find, Fifo!Find
    <3>2. QED BY <3>1 DEF Fifo!Next
  <2>3. ASSUME NEW pos \in 0 .. PosValues - 1, Get(pos) PROVE Fifo!Next
    <3>1. DOMAIN slots = 1 .. Len(slots) /\ Len(slots) \in Nat
      BY <1>2, LenProperties DEF CacheInv, TypeOK
    <3>2. pos + 1 \in DOMAIN slots <=> pos < Len(slots)
      BY <3>1, CacheAssumption
    <3>3. Fifo!Get(pos)
      BY <2>3, <3>2 DEF Get, Content, Fifo!Get, Fifo!At
    <3>4. QED BY <3>3 DEF Fifo!Next
  <2>4. CASE UNCHANGED vars
    BY <2>4 DEF vars
  <2>5. QED
    BY <1>2, <2>1, <2>2, <2>3, <2>4 DEF Next
<1>3. QED
  BY <1>1, <1>2, AlwaysCache, PTL DEF Spec, AnswersLikeAScan, Fifo!Spec, Fifo!fifo

-----------------------------------------------------------------------------
(***************************************************************************)
(* The delays and windows of handle_start_game.                            *)
(***************************************************************************)
\* delay gives each player of a finite room a number of frames.
Delays(delay) == delay \in [DOMAIN delay -> Nat] /\ IsFiniteSet(DOMAIN delay)

\* Highest is what its name says.
LEMMA HighestIsHighest ==
  ASSUME NEW delay, Delays(delay)
  PROVE  /\ Highest(delay) \in Nat
         /\ \A p \in DOMAIN delay : delay[p] \in Nat /\ delay[p] <= Highest(delay)
<1> DEFINE S == {delay[p] : p \in DOMAIN delay}
           h == CHOOSE x \in S : IsHighest(x, delay)
<1>1. S \subseteq Nat /\ \A p \in DOMAIN delay : delay[p] \in Nat
  BY DEF Delays
<1>2. CASE DOMAIN delay = {}
  BY <1>2 DEF Highest
<1>3. CASE DOMAIN delay # {}
  <2>1. PICK p \in DOMAIN delay : \A q \in DOMAIN delay : delay[q] <= delay[p]
    BY <1>1, <1>3, GreatestOf DEF Delays
  <2>2. IsHighest(delay[p], delay)
    BY <2>1 DEF IsHighest
  <2>3. h \in S /\ IsHighest(h, delay)
    BY <2>2
  <2>4. Highest(delay) = h
    BY <2>2 DEF Highest
  <2> QED
    BY <1>1, <2>3, <2>4 DEF IsHighest
<1> QED
  BY <1>2, <1>3

\* What SizedFrom gives a player.
LEMMA SizedFromIs ==
  ASSUME NEW config, NEW delay, NEW p \in DOMAIN delay
  PROVE  /\ DOMAIN SizedFrom(config, delay).warmup = DOMAIN delay
         /\ SizedFrom(config, delay).warmup[p] = emulinker_startup_warmup_frames(Highest(delay), delay[p])
         /\ SizedFrom(config, delay).advertised[p] =
              IF config.same_game_delay \/ config.shared_game_delay_window
              THEN Highest(delay) + config.margin ELSE delay[p]
BY DEF SizedFrom, Start

\* The warm-up of a player: twice the highest delay and the padding, less his own delay.
LEMMA WarmupIs ==
  ASSUME NEW h \in Nat, NEW d \in Nat, d <= h
  PROVE  emulinker_startup_warmup_frames(h, d) = 2 * h - d + EMULINKER_STARTUP_PADDING_FRAMES
BY DelaysAssumption DEF emulinker_startup_warmup_frames

\* By default each player's window is his own delay, and whoever runs ahead less warms up
\* longer by as much (game.rs:727-729; test "startup warm-up balances fast players",
\* game.rs:1135): every frame is played with inputs of the same age by all.
THEOREM OwnWindowBalances ==
  ASSUME NEW config \in Config, NEW delay, Delays(delay),
         ~ config.same_game_delay, ~ config.shared_game_delay_window
  PROVE  Balanced(SizedFrom(config, delay))
<1> DEFINE start == SizedFrom(config, delay)
           total == 2 * Highest(delay) + EMULINKER_STARTUP_PADDING_FRAMES
<1>1. ASSUME NEW p \in DOMAIN delay
      PROVE  start.advertised[p] + start.warmup[p] = total
  <2>1. Highest(delay) \in Nat /\ delay[p] \in Nat /\ delay[p] <= Highest(delay)
    BY HighestIsHighest
  <2>2. start.warmup[p] = 2 * Highest(delay) - delay[p] + EMULINKER_STARTUP_PADDING_FRAMES
    BY <2>1, WarmupIs, SizedFromIs
  <2>3. start.advertised[p] = delay[p]
    BY SizedFromIs
  <2> QED
    BY <2>1, <2>2, <2>3, DelaysAssumption
<1>2. ASSUME NEW p \in DOMAIN start.warmup PROVE p \in DOMAIN delay
  BY DEF SizedFrom, Start
<1> QED
  BY <1>1, <1>2 DEF Balanced

\* With a shared window (game.rs:590-594) the warm-ups are still sized from the players' own
\* delays: the sums agree only if those did, that is if sharing changes nothing between them.
THEOREM SharedWindowBalancesOnlyEquals ==
  ASSUME NEW config \in Config, NEW delay, Delays(delay),
         config.same_game_delay \/ config.shared_game_delay_window
  PROVE  Balanced(SizedFrom(config, delay)) <=> \A p, q \in DOMAIN delay : delay[p] = delay[q]
<1> DEFINE start == SizedFrom(config, delay)
           total == 3 * Highest(delay) + config.margin + EMULINKER_STARTUP_PADDING_FRAMES
<1>0. config.margin \in Nat
  BY DEF Config
<1>1. ASSUME NEW p \in DOMAIN delay
      PROVE  /\ start.advertised[p] + start.warmup[p] = total - delay[p]
             /\ delay[p] \in Nat /\ total \in Nat
  <2>1. Highest(delay) \in Nat /\ delay[p] \in Nat /\ delay[p] <= Highest(delay)
    BY HighestIsHighest
  <2>2. start.warmup[p] = 2 * Highest(delay) - delay[p] + EMULINKER_STARTUP_PADDING_FRAMES
    BY <2>1, WarmupIs, SizedFromIs
  <2>3. start.advertised[p] = Highest(delay) + config.margin
    BY SizedFromIs
  <2> QED
    BY <1>0, <2>1, <2>2, <2>3, DelaysAssumption
<1>2. DOMAIN start.warmup = DOMAIN delay
  BY DEF SizedFrom, Start
<1>3. Balanced(start) <=>
        \A p, q \in DOMAIN delay :
          start.advertised[p] + start.warmup[p] = start.advertised[q] + start.warmup[q]
  BY <1>2 DEF Balanced
<1> HIDE DEF start, total
<1>4. ASSUME NEW p \in DOMAIN delay, NEW q \in DOMAIN delay
      PROVE  start.advertised[p] + start.warmup[p] = start.advertised[q] + start.warmup[q]
               <=> delay[p] = delay[q]
  BY <1>1
<1> QED
  BY <1>3, <1>4 DEF start

-----------------------------------------------------------------------------
(***************************************************************************)
(* A channel between two copies of a cache: what one end sent and the      *)
(* other has not read.                                                     *)
(***************************************************************************)
Message(T) == [kind : {"GameData"}, data : T] \cup [kind : {"GameCache"}, pos : Nat]
Window(T) == {s \in Seq(T) : Len(s) <= CacheSize}

\* Message m brings content x to a reader whose cache is c, and leaves it with d.
Carries(c, m, x, d) ==
  \/ m = GameData(x) /\ d = Store(c, x)
  \/ \E pos \in Nat : m = GameCache(pos) /\ At(c, pos) = <<x>> /\ d = c

\* A reader whose cache is c0 reads the contents xs from the messages ms, and then his
\* cache is cn.
Channel(T, c0, ms, xs, cn) ==
  /\ ms \in Seq(Message(T)) /\ xs \in Seq(T) /\ Len(xs) = Len(ms)
  /\ \E c \in [0 .. Len(ms) -> Window(T)] :
       /\ c[0] = c0 /\ c[Len(ms)] = cn
       /\ \A i \in 1 .. Len(ms) : Carries(c[i - 1], ms[i], xs[i], c[i])

LEMMA StoreIs ==
  ASSUME NEW T, NEW c \in Window(T), NEW x \in T
  PROVE  Store(c, x) \in Window(T)
<1>1. c \in Seq(T) /\ Len(c) \in Nat /\ Len(c) <= CacheSize /\ CacheSize \in Nat \ {0}
  BY EngineAssumption DEF Window
<1>2. CASE Full(c)
  <2>1. c # <<>>
    BY <1>1, <1>2, EmptySeq DEF Full
  <2>2. Tail(c) \in Seq(T) /\ Len(Tail(c)) = Len(c) - 1
    BY <1>1, <2>1, HeadTailProperties
  <2>3. Append(Tail(c), x) \in Seq(T) /\ Len(Append(Tail(c), x)) = Len(c)
    BY <1>1, <2>2, AppendProperties
  <2>4. QED
    BY <1>1, <1>2, <2>3 DEF Store, Window
<1>3. CASE ~ Full(c)
  <2>1. Append(c, x) \in Seq(T) /\ Len(Append(c, x)) = Len(c) + 1
    BY <1>1, AppendProperties
  <2>2. Len(c) + 1 <= CacheSize
    BY <1>1, <1>3 DEF Full
  <2>3. QED
    BY <1>1, <1>3, <2>1, <2>2 DEF Store, Window
<1>4. QED
  BY <1>2, <1>3

\* A position a scan finds is that of the content.
LEMMA NewestIs ==
  ASSUME NEW T, NEW c \in Seq(T), NEW x
  PROVE  \/ Newest(c, x) = None
         \/ Newest(c, x) \in Nat /\ Newest(c, x) # None /\ At(c, Newest(c, x)) = <<x>>
<1> DEFINE I == {i \in DOMAIN c : c[i] = x}
           IsNewest(i) == c[i] = x /\ \A j \in DOMAIN c : c[j] = x => j <= i
<1>1. CASE ~ \E i \in DOMAIN c : c[i] = x
  BY <1>1 DEF Newest
<1>2. CASE \E i \in DOMAIN c : c[i] = x
  <2>1. Len(c) \in Nat /\ DOMAIN c = 1 .. Len(c)
    OBVIOUS
  <2>2. IsFiniteSet(1 .. Len(c))
    BY <2>1, FS_Interval
  <2>3. IsFiniteSet(I) /\ I # {}
    BY <1>2, <2>1, <2>2, FS_Subset
  <2> DEFINE f == [i \in I |-> i]
  <2>4. \A i \in I : f[i] = i /\ f[i] \in Nat
    BY <2>1
  <2> HIDE DEF f
  <2>5. \E i \in I : \A j \in I : f[j] <= f[i]
    BY <2>3, <2>4, GreatestOf
  <2>6. \E i \in DOMAIN c : IsNewest(i)
    BY <2>4, <2>5
  <2> DEFINE k == CHOOSE i \in DOMAIN c : IsNewest(i)
  <2>7. k \in DOMAIN c /\ c[k] = x
    BY <2>6
  <2>8. Newest(c, x) = k - 1
    BY <1>2 DEF Newest
  <2> HIDE DEF k
  <2>9. k - 1 \in Nat /\ k - 1 # None /\ (k - 1) + 1 = k
    BY <2>1, <2>7 DEF None
  <2>10. QED
    BY <2>7, <2>8, <2>9 DEF At
<1>3. QED
  BY <1>1, <1>2

\* Nothing is under way: both ends have the same cache.
LEMMA Quiet ==
  ASSUME NEW T, NEW c \in Window(T)
  PROVE  Channel(T, c, <<>>, <<>>, c)
<1> DEFINE trace == [i \in 0 .. 0 |-> c]
<1>1. trace \in [0 .. 0 -> Window(T)] /\ trace[0] = c
  OBVIOUS
<1>2. Len(<<>>) = 0 /\ <<>> \in Seq(T) /\ <<>> \in Seq(Message(T))
  OBVIOUS
<1> HIDE DEF trace
<1>3. QED
  BY <1>1, <1>2 DEF Channel

\* The sender names content x by message m.
LEMMA SendOn ==
  ASSUME NEW T, NEW c0, NEW ms, NEW xs, NEW cn, NEW m \in Message(T), NEW x \in T,
         NEW d \in Window(T), Channel(T, c0, ms, xs, cn), Carries(cn, m, x, d)
  PROVE  Channel(T, c0, Append(ms, m), Append(xs, x), d)
<1>1. ms \in Seq(Message(T)) /\ xs \in Seq(T) /\ Len(xs) = Len(ms) /\ Len(ms) \in Nat
  BY DEF Channel
<1>2. PICK c \in [0 .. Len(ms) -> Window(T)] :
        /\ c[0] = c0 /\ c[Len(ms)] = cn
        /\ \A i \in 1 .. Len(ms) : Carries(c[i - 1], ms[i], xs[i], c[i])
  BY DEF Channel
<1> DEFINE n == Len(ms)
           ms2 == Append(ms, m)
           xs2 == Append(xs, x)
           c2 == [i \in 0 .. n + 1 |-> IF i <= n THEN c[i] ELSE d]
<1>3. /\ ms2 \in Seq(Message(T)) /\ Len(ms2) = n + 1 /\ ms2[n + 1] = m
      /\ \A i \in 1 .. n : ms2[i] = ms[i]
  BY <1>1, AppendProperties
<1>4. /\ xs2 \in Seq(T) /\ Len(xs2) = n + 1 /\ xs2[n + 1] = x
      /\ \A i \in 1 .. n : xs2[i] = xs[i]
  BY <1>1, AppendProperties
<1>5. n \in Nat /\ n = Len(ms)
  BY <1>1
<1>6. /\ c2 \in [0 .. n + 1 -> Window(T)] /\ c2[n + 1] = d
      /\ \A i \in 0 .. n : c2[i] = c[i]
  BY <1>2, <1>5
<1> HIDE DEF n, ms2, xs2, c2
<1>7. c2[0] = c0
  BY <1>2, <1>5, <1>6
<1>8. ASSUME NEW i \in 1 .. n + 1
      PROVE  Carries(c2[i - 1], ms2[i], xs2[i], c2[i])
  <2>1. CASE i <= n
    <3>1. i \in 1 .. n /\ i \in 0 .. n /\ i - 1 \in 0 .. n
      BY <1>5, <2>1
    <3>2. QED
      BY <1>2, <1>3, <1>4, <1>5, <1>6, <3>1
  <2>2. CASE i = n + 1
    <3>1. i - 1 = n /\ n \in 0 .. n
      BY <1>5, <2>2
    <3>2. QED
      BY <1>2, <1>3, <1>4, <1>5, <1>6, <2>2, <3>1
  <2>3. QED
    BY <1>5, <2>1, <2>2
<1>9. \E t \in [0 .. Len(ms2) -> Window(T)] :
        /\ t[0] = c0 /\ t[Len(ms2)] = d
        /\ \A i \in 1 .. Len(ms2) : Carries(t[i - 1], ms2[i], xs2[i], t[i])
  BY <1>3, <1>6, <1>7, <1>8
<1>10. Channel(T, c0, ms2, xs2, d)
  BY <1>3, <1>4, <1>9 DEF Channel
<1>11. QED
  BY <1>10 DEF ms2, xs2

\* The reader takes the first message.
LEMMA TakeFirst ==
  ASSUME NEW T, NEW c0, NEW ms, NEW xs, NEW cn, Channel(T, c0, ms, xs, cn), ms # <<>>
  PROVE  \E d \in Window(T) : /\ Carries(c0, Head(ms), Head(xs), d)
                              /\ Channel(T, d, Tail(ms), Tail(xs), cn)
<1>1. ms \in Seq(Message(T)) /\ xs \in Seq(T) /\ Len(xs) = Len(ms) /\ Len(ms) \in Nat
  BY DEF Channel
<1>2. PICK c \in [0 .. Len(ms) -> Window(T)] :
        /\ c[0] = c0 /\ c[Len(ms)] = cn
        /\ \A i \in 1 .. Len(ms) : Carries(c[i - 1], ms[i], xs[i], c[i])
  BY DEF Channel
<1> DEFINE n == Len(ms) - 1
           ms2 == Tail(ms)
           xs2 == Tail(xs)
           c2 == [i \in 0 .. n |-> c[i + 1]]
<1>3. Len(ms) \in Nat \ {0} /\ xs # <<>>
  BY <1>1, EmptySeq
<1>4. /\ ms2 \in Seq(Message(T)) /\ Len(ms2) = n /\ Head(ms) = ms[1]
      /\ \A i \in 1 .. n : ms2[i] = ms[i + 1]
  BY <1>1, <1>3, HeadTailProperties
<1>5. /\ xs2 \in Seq(T) /\ Len(xs2) = n /\ Head(xs) = xs[1]
      /\ \A i \in 1 .. n : xs2[i] = xs[i + 1]
  BY <1>1, <1>3, HeadTailProperties
<1>6. n \in Nat /\ Len(ms) = n + 1
  BY <1>3
<1>7. /\ c2 \in [0 .. n -> Window(T)] /\ \A i \in 0 .. n : c2[i] = c[i + 1]
  BY <1>2, <1>6
<1> HIDE DEF n, ms2, xs2, c2
<1>8. Carries(c0, Head(ms), Head(xs), c[1]) /\ c[1] \in Window(T)
  <2>1. 1 \in 1 .. Len(ms) /\ 1 \in 0 .. Len(ms) /\ 1 - 1 = 0
    BY <1>6
  <2>2. QED
    BY <1>2, <1>4, <1>5, <2>1
<1>9. c2[0] = c[1] /\ c2[n] = cn
  <2>1. 0 \in 0 .. n /\ n \in 0 .. n /\ 0 + 1 = 1
    BY <1>6
  <2>2. QED
    BY <1>2, <1>6, <1>7, <2>1
<1>10. ASSUME NEW i \in 1 .. n
       PROVE  Carries(c2[i - 1], ms2[i], xs2[i], c2[i])
  <2>1. i + 1 \in 1 .. Len(ms) /\ i - 1 \in 0 .. n /\ i \in 0 .. n /\ (i - 1) + 1 = i /\ (i + 1) - 1 = i
    BY <1>6
  <2>2. c2[i - 1] = c[i] /\ c2[i] = c[i + 1]
    BY <1>7, <2>1
  <2>3. Carries(c[i], ms[i + 1], xs[i + 1], c[i + 1])
    BY <1>2, <2>1
  <2>4. QED
    BY <1>4, <1>5, <2>2, <2>3
<1>11. \E t \in [0 .. Len(ms2) -> Window(T)] :
        /\ t[0] = c[1] /\ t[Len(ms2)] = cn
        /\ \A i \in 1 .. Len(ms2) : Carries(t[i - 1], ms2[i], xs2[i], t[i])
  BY <1>4, <1>7, <1>9, <1>10
<1>12. Channel(T, c[1], ms2, xs2, cn)
  BY <1>4, <1>5, <1>11 DEF Channel
<1>13. QED
  BY <1>8, <1>12 DEF ms2, xs2

-----------------------------------------------------------------------------
(***************************************************************************)
(* The combiner: what module FrameDeliveryProofs has of it. The delivery   *)
(* has no part in a game of module GamePlay, and is put at rest.           *)
(***************************************************************************)
Combiner == INSTANCE FrameDeliveryProofs
              WITH sends <- <<>>, dropping <- <<>>, in_game <- <<>>, registered <- <<>>, delivered <- <<>>

SyncInv == Combiner!Inv

LEMMA CombinerSuits == Combiner!SyncAssumption /\ Combiner!OneFrameAPacket
BY EngineAssumption DEF Combiner!SyncAssumption, Combiner!OneFrameAPacket

LEMMA SameCombiner ==
  /\ \A n : Sync!Zeros(n) = Combiner!Zeros(n)
  /\ \A q, d, k : Sync!RoundReady(q, d, k) <=> Combiner!RoundReady(q, d, k)
  /\ \A q, s, k : Sync!Row(q, s, k) = Combiner!Row(q, s, k)
  /\ \A r, d : Sync!WholeRows(r, d) = Combiner!WholeRows(r, d)
  /\ \A i, d : Sync!Chunks(i, d) = Combiner!Chunks(i, d)
<1>1. \A n : Sync!Zeros(n) = Combiner!Zeros(n)
  BY DEF Sync!Zeros, Combiner!Zeros
<1>2. \A q, d, k : Sync!RoundReady(q, d, k) <=> Combiner!RoundReady(q, d, k)
  BY DEF Sync!RoundReady, Combiner!RoundReady
<1>3. \A q, s, k : Sync!Row(q, s, k) = Combiner!Row(q, s, k)
  BY <1>1 DEF Sync!Row, Combiner!Row
<1>4. \A r, d : Sync!WholeRows(r, d) = Combiner!WholeRows(r, d)
  BY DEF Sync!WholeRows, Combiner!WholeRows
<1>5. \A i, d : Sync!Chunks(i, d) = Combiner!Chunks(i, d)
  BY DEF Sync!Chunks, Combiner!Chunks
<1>6. QED
  BY <1>1, <1>2, <1>3, <1>4, <1>5

LEMMA SameDrain ==
  \A queue, dropped, size : Sync!Drain(queue, dropped, size) <=> Combiner!Drain(queue, dropped, size)
<1>1. \A q, d : Sync!Rounds(q, d) = Combiner!Rounds(q, d)
  BY SameCombiner DEF Sync!Rounds, Combiner!Rounds
<1>2. ASSUME NEW queue, NEW dropped, NEW size
      PROVE  Sync!Drain(queue, dropped, size) <=> Combiner!Drain(queue, dropped, size)
  <2> DEFINE n == Sync!Rounds(queue, dropped)
             rows == [k \in 1 .. n |-> Sync!Row(queue, size, k)]
             buffered == [p \in Players |-> sender_buffer[p] \o rows]
             leaving == [p \in Players |-> Sync!WholeRows(buffered[p], Delay[p])]
             rows2 == [k \in 1 .. n |-> Combiner!Row(queue, size, k)]
             leaving2 == [p \in Players |-> Combiner!WholeRows(buffered[p], Delay[p])]
  <2>1. rows2 = rows
    BY SameCombiner
  <2>2. leaving2 = leaving
    BY SameCombiner
  <2>3. n = Combiner!Rounds(queue, dropped)
    BY <1>1
  <2>4. Sync!Drain(queue, dropped, size) <=>
          /\ player_input' = [p \in Players |-> SubSeq(queue[p], n + 1, Len(queue[p]))]
          /\ sender_buffer' =
               [p \in Players |-> SubSeq(buffered[p], leaving[p] + 1, Len(buffered[p]))]
          /\ sent' = [p \in Players |-> sent[p] \o SubSeq(buffered[p], 1, leaving[p])]
    BY DEF Sync!Drain
  <2> HIDE DEF n, rows, rows2, leaving, leaving2
  <2>5. Combiner!Drain(queue, dropped, size) <=>
          LET b == [p \in Players |-> sender_buffer[p] \o rows2]
          IN /\ player_input' = [p \in Players |-> SubSeq(queue[p], n + 1, Len(queue[p]))]
             /\ sender_buffer' = [p \in Players |-> SubSeq(b[p], leaving2[p] + 1, Len(b[p]))]
             /\ sent' = [p \in Players |-> sent[p] \o SubSeq(b[p], 1, leaving2[p])]
    <3> USE DEF rows2, leaving2
    <3>1. QED
      BY <2>1, <2>3 DEF Combiner!Drain, rows
  <2>6. QED
    BY <2>1, <2>2, <2>4, <2>5
<1>3. QED
  BY <1>2

LEMMA SameCalls ==
  /\ Sync!Init <=> Combiner!Init
  /\ \A p, input : Sync!process_client_input(p, input) <=> Combiner!process_client_input(p, input)
  /\ \A p : Sync!mark_player_dropped(p) <=> Combiner!mark_player_dropped(p)
<1>1. Sync!Init <=> Combiner!Init
  BY DEF Sync!Init, Combiner!Init
<1>2. \A p : Sync!SkipDropped(p) <=> Combiner!SkipDropped(p)
  BY DEF Sync!SkipDropped, Combiner!SkipDropped, Sync!vars, Combiner!vars, Sync!sync, Combiner!sync
<1>3. \A p, chunks : Sync!Queue(p, chunks) <=> Combiner!Queue(p, chunks)
  BY SameDrain, Zenon DEF Sync!Queue, Combiner!Queue
<1>4. \A p, input : Sync!process_client_input(p, input) <=> Combiner!process_client_input(p, input)
  BY <1>2, <1>3, SameCombiner DEF Sync!process_client_input, Combiner!process_client_input
<1>5. \A p : Sync!mark_player_dropped(p) <=> Combiner!mark_player_dropped(p)
  BY SameDrain, Zenon DEF Sync!mark_player_dropped, Combiner!mark_player_dropped
<1>6. QED
  BY <1>1, <1>4, <1>5

Row == [Players -> Seq(Byte)]

\* Rows are added to those handed out.
RowsAdded ==
  \A q \in Players :
    /\ sent[q] \in Seq(Row) /\ sent'[q] \in Seq(Row)
    /\ Len(sent[q]) \in Nat /\ Len(sent'[q]) \in Nat /\ Len(sent[q]) <= Len(sent'[q])
    /\ \A i \in 1 .. Len(sent[q]) : sent'[q][i] = sent[q][i]

LEMMA SameRows ==
  /\ Combiner!RowsAdded => RowsAdded
  /\ SyncInv => sent \in [Players -> Seq(Row)] /\ dropped_players \in [Players -> BOOLEAN]
                /\ contributed \in [Players -> Seq(Seq(Byte))]
<1>1. Combiner!Frame = Row
  BY DEF Combiner!Frame, Combiner!Chunk, Row
<1>2. Combiner!RowsAdded => RowsAdded
  BY <1>1 DEF Combiner!RowsAdded, RowsAdded
<1>3. QED
  BY <1>1, <1>2 DEF SyncInv, Combiner!Inv, Combiner!TypeOK, Combiner!Chunk

LEMMA SyncInit == Sync!Init => SyncInv
BY SameCalls, CombinerSuits, Combiner!InitInv DEF SyncInv

LEMMA SyncInput ==
  ASSUME SyncInv, NEW p \in Players, NEW input \in Packets, Sync!process_client_input(p, input)
  PROVE  /\ SyncInv' /\ RowsAdded /\ dropped_players' = dropped_players
         /\ contributed' = IF dropped_players[p] THEN contributed
                           ELSE [contributed EXCEPT ![p] = Append(@, input)]
<1>1. Combiner!process_client_input(p, input) /\ input # <<>>
  BY SameCalls, EngineAssumption
<1>2. QED
  BY <1>1, CombinerSuits, Combiner!InputAdds, SameRows DEF SyncInv

LEMMA SyncDrop ==
  ASSUME SyncInv, NEW p \in Players, Sync!mark_player_dropped(p)
  PROVE  /\ SyncInv' /\ RowsAdded /\ contributed' = contributed
         /\ dropped_players' = [dropped_players EXCEPT ![p] = TRUE]
<1>1. Combiner!mark_player_dropped(p)
  BY SameCalls
<1>2. QED
  BY <1>1, CombinerSuits, Combiner!DropAdds, SameRows DEF SyncInv

LEMMA SyncRests ==
  ASSUME SyncInv, UNCHANGED combiner
  PROVE  SyncInv'
<1>1. UNCHANGED Combiner!vars
  BY DEF combiner, Combiner!vars, Combiner!sync
<1>2. QED
  BY <1>1, CombinerSuits, Combiner!StepInv DEF SyncInv

LEMMA SyncHandsOut ==
  ASSUME SyncInv
  PROVE  \E n \in Nat :
           /\ \A q \in Players : /\ Len(sent[q]) = n /\ Len(contributed[q]) \in Nat
                                 /\ ~ dropped_players[q] => n <= Len(contributed[q])
           /\ \A p, q \in Players : sent[p] = sent[q]
           /\ \A p \in Players : ~ dropped_players[p] =>
                \E q \in Players : ~ dropped_players[q] /\ Len(contributed[q]) = n
BY CombinerSuits, Combiner!HandedOut DEF SyncInv

-----------------------------------------------------------------------------
(***************************************************************************)
(* CachedGameSync: what Responding does is told step by step.              *)
(***************************************************************************)
Along(start, outputs, s) ==
  s = [i \in 0 .. Len(outputs) |-> IF i = 0 THEN start ELSE make_cached_output(s[i - 1], outputs[i])]

\* s is the way of the first m outputs.
Upto(start, outputs, m, s) ==
  /\ s[0] = start
  /\ \A i \in 1 .. m : s[i] = make_cached_output(s[i - 1], outputs[i])

LEMMA UptoExists ==
  ASSUME NEW start, NEW outputs, NEW len \in Nat
  PROVE  \A m \in 0 .. len : \E s : s = [i \in 0 .. m |-> s[i]] /\ Upto(start, outputs, m, s)
<1> DEFINE Fine(m) == \E s : s = [i \in 0 .. m |-> s[i]] /\ Upto(start, outputs, m, s)
           bad == {m \in 0 .. len : ~ Fine(m)}
<1>1. Fine(0)
  <2> DEFINE s == [i \in 0 .. 0 |-> start]
  <2>1. s = [i \in 0 .. 0 |-> s[i]] /\ s[0] = start
    OBVIOUS
  <2>2. Upto(start, outputs, 0, s)
    BY <2>1 DEF Upto
  <2>3. QED
    BY <2>1, <2>2
<1>2. ASSUME NEW m \in 0 .. len, m > 0, Fine(m - 1)
      PROVE  Fine(m)
  <2>1. PICK r : r = [i \in 0 .. m - 1 |-> r[i]] /\ Upto(start, outputs, m - 1, r)
    BY <1>2
  <2> DEFINE s == [i \in 0 .. m |-> IF i < m THEN r[i] ELSE make_cached_output(r[m - 1], outputs[m])]
  <2>2. m \in Nat /\ m - 1 \in 0 .. m
    BY <1>2
  <2>3. /\ \A i \in 0 .. m - 1 : s[i] = r[i]
        /\ s[m] = make_cached_output(r[m - 1], outputs[m])
        /\ s = [i \in 0 .. m |-> s[i]]
    BY <2>2
  <2> HIDE DEF s
  <2>4. s[0] = start
    <3>1. 0 \in 0 .. m - 1
      BY <1>2
    <3>2. QED
      BY <2>1, <2>3, <3>1 DEF Upto
  <2>5. ASSUME NEW i \in 1 .. m
        PROVE  s[i] = make_cached_output(s[i - 1], outputs[i])
    <3>1. CASE i < m
      <4>1. i \in 1 .. m - 1 /\ i \in 0 .. m - 1 /\ i - 1 \in 0 .. m - 1
        BY <2>2, <3>1
      <4>2. QED
        BY <2>1, <2>3, <4>1 DEF Upto
    <3>2. CASE i = m
      <4>1. m - 1 \in 0 .. m - 1
        BY <1>2, <2>2
      <4>2. QED
        BY <2>3, <3>2, <4>1
    <3>3. QED
      BY <2>2, <3>1, <3>2
  <2>6. Upto(start, outputs, m, s)
    BY <2>4, <2>5 DEF Upto
  <2>7. QED
    BY <2>3, <2>6
<1> HIDE DEF Fine
<1>3. bad = {}
  <2>1. SUFFICES ASSUME bad # {} PROVE FALSE
    OBVIOUS
  <2>2. PICK m \in bad : \A k \in bad : m <= k
    <3>1. bad \in SUBSET Nat
      OBVIOUS
    <3>2. QED
      BY <2>1, <3>1, LeastNat
  <2>3. m \in 0 .. len /\ ~ Fine(m) /\ m > 0
    BY <1>1
  <2>4. m - 1 \in 0 .. len /\ m - 1 \notin bad
    BY <2>2, <2>3
  <2>5. QED
    BY <1>2, <2>3, <2>4
<1>4. \A m \in 0 .. len : Fine(m)
  BY <1>3
<1>5. QED
  BY <1>4 DEF Fine

LEMMA RespondingIs ==
  ASSUME NEW start, NEW outputs, Len(outputs) \in Nat
  PROVE  \E s : Upto(start, outputs, Len(outputs), s) /\ Responding(start, outputs) = s[Len(outputs)]
<1> DEFINE n == Len(outputs)
<1>1. n \in Nat /\ n \in 0 .. n
  OBVIOUS
<1>2. PICK s : s = [i \in 0 .. n |-> s[i]] /\ Upto(start, outputs, n, s)
  BY <1>1, UptoExists
<1> HIDE DEF n
<1>3. \A i \in 0 .. n : s[i] = IF i = 0 THEN start ELSE make_cached_output(s[i - 1], outputs[i])
  <2>1. s[0] = start /\ \A i \in 1 .. n : s[i] = make_cached_output(s[i - 1], outputs[i])
    BY <1>2 DEF Upto
  <2>2. \A i \in 0 .. n : i = 0 \/ i \in 1 .. n
    BY <1>1
  <2>3. QED
    BY <2>1, <2>2
<1> DEFINE r == [i \in 0 .. n |-> IF i = 0 THEN start ELSE make_cached_output(s[i - 1], outputs[i])]
<1>4. s = r
  <2>1. \A i \in 0 .. n : s[i] = r[i]
    BY <1>3
  <2>2. r = [i \in 0 .. n |-> r[i]]
    OBVIOUS
  <2> HIDE DEF r
  <2>3. [i \in 0 .. n |-> s[i]] = [i \in 0 .. n |-> r[i]]
    BY <2>1
  <2>4. QED
    BY <1>2, <2>2, <2>3
<1>5. Along(start, outputs, s)
  BY <1>4 DEF Along, n
<1> DEFINE t == CHOOSE x : Along(start, outputs, x)
<1>6. Along(start, outputs, t)
  BY <1>5
<1>7. Responding(start, outputs) = t[n]
  BY DEF Responding, Along, n
<1> HIDE DEF t
<1>8. t = [i \in 0 .. n |-> IF i = 0 THEN start ELSE make_cached_output(t[i - 1], outputs[i])]
  BY <1>6 DEF Along, n
<1>9. \A i \in 0 .. n : t[i] = IF i = 0 THEN start ELSE make_cached_output(t[i - 1], outputs[i])
  BY <1>8
<1>10. t[0] = start /\ \A i \in 1 .. n : t[i] = make_cached_output(t[i - 1], outputs[i])
  BY <1>1, <1>9
<1>11. Upto(start, outputs, n, t)
  BY <1>10 DEF Upto
<1>12. QED
  BY <1>7, <1>11 DEF n

\* The messages a reader has not read bring him xs, and then his cache is the server's, or
\* no message will ever name a position.
Sent(T, read, s, xs) ==
  /\ s.cache \in Window(T)
  /\ \E cn \in Window(T) : /\ Channel(T, read, s.made, xs, cn)
                           /\ disable_output_cache \/ cn = s.cache

LEMMA OneMore ==
  ASSUME NEW S, NEW s \in Seq(S), NEW t \in Seq(S), NEW i \in 1 .. Len(t)
  PROVE  Append(s \o SubSeq(t, 1, i - 1), t[i]) = s \o SubSeq(t, 1, i)
<1> DEFINE a == SubSeq(t, 1, i - 1)
           b == SubSeq(t, 1, i)
           x == t[i]
<1>1. i \in Nat /\ i <= Len(t) /\ Len(t) \in Nat /\ i - 1 \in Nat /\ i \in 1 .. Len(t)
  OBVIOUS
<1>2. a \in Seq(S) /\ Len(a) = i - 1 /\ \A j \in 1 .. i - 1 : a[j] = t[j]
  BY <1>1
<1>3. b \in Seq(S) /\ Len(b) = i /\ b[i] = x /\ \A j \in 1 .. i - 1 : b[j] = t[j]
  BY <1>1
<1>4. x \in S
  OBVIOUS
<1> HIDE DEF a, b, x
<1> DEFINE n == Len(s)
           l == Append(s \o a, x)
           r == s \o b
<1>5. n \in Nat
  OBVIOUS
<1>6. /\ r \in Seq(S) /\ Len(r) = n + i
      /\ \A j \in 1 .. n + i : r[j] = IF j <= n THEN s[j] ELSE b[j - n]
  BY <1>1, <1>3, ConcatProperties
<1>7. /\ s \o a \in Seq(S) /\ Len(s \o a) = n + (i - 1)
      /\ \A j \in 1 .. n + (i - 1) : (s \o a)[j] = IF j <= n THEN s[j] ELSE a[j - n]
  <2>1. /\ s \o a \in Seq(S) /\ Len(s \o a) = n + Len(a)
        /\ \A j \in 1 .. n + Len(a) : (s \o a)[j] = IF j <= n THEN s[j] ELSE a[j - n]
    BY <1>2, ConcatProperties
  <2>2. Len(a) = i - 1
    BY <1>2
  <2>3. QED
    BY <2>1, <2>2
<1>8. /\ l \in Seq(S) /\ Len(l) = n + i /\ l[n + i] = x
      /\ \A j \in 1 .. n + (i - 1) : l[j] = (s \o a)[j]
  BY <1>1, <1>4, <1>5, <1>7, AppendProperties
<1> HIDE DEF n, l, r
<1>9. \A j \in 1 .. n + i : l[j] = r[j]
  <2>1. ASSUME NEW j \in 1 .. n + i
        PROVE  l[j] = r[j]
    <3>1. CASE j <= n
      <4>1. j \in 1 .. n + (i - 1)
        BY <1>1, <1>5, <3>1
      <4>2. QED
        BY <1>6, <1>7, <1>8, <3>1, <4>1
    <3>2. CASE j > n /\ j < n + i
      <4>1. j \in 1 .. n + (i - 1) /\ j - n \in 1 .. i - 1 /\ ~ j <= n
        BY <1>1, <1>5, <3>2
      <4>2. a[j - n] = b[j - n]
        BY <1>2, <1>3, <4>1
      <4>3. QED
        BY <1>6, <1>7, <1>8, <4>1, <4>2
    <3>3. CASE j = n + i
      <4>1. j - n = i /\ ~ j <= n
        BY <1>1, <1>5, <3>3
      <4>2. QED
        BY <1>3, <1>6, <1>8, <3>3, <4>1
    <3>4. QED
      BY <1>1, <1>5, <3>1, <3>2, <3>3
  <2>2. QED
    BY <2>1
<1>10. l = r
  BY <1>6, <1>8, <1>9, SeqEqual
<1>11. QED
  BY <1>10 DEF l, r, a, b, x

\* One output more.
LEMMA MakesOne ==
  ASSUME NEW T, NEW read, NEW s, NEW xs, Sent(T, read, s, xs), NEW x \in T,
         disable_output_cache \in BOOLEAN,
         s = [cache |-> s.cache, made |-> s.made]
  PROVE  LET t == make_cached_output(s, x)
         IN t = [cache |-> t.cache, made |-> t.made] /\ Sent(T, read, t, Append(xs, x))
<1> DEFINE t == make_cached_output(s, x)
           pos == Newest(s.cache, x)
<1>1. s.cache \in Window(T) /\ s.cache \in Seq(T)
  BY DEF Sent, Window
<1>2. PICK cn \in Window(T) : Channel(T, read, s.made, xs, cn) /\ (disable_output_cache \/ cn = s.cache)
  BY DEF Sent
<1>3. \A c, m : [s EXCEPT !.made = m] = [cache |-> s.cache, made |-> m]
  OBVIOUS
<1>4. GameData(x) \in Message(T) /\ \A n \in Nat : GameCache(n) \in Message(T)
  BY DEF Message, GameData, GameCache
<1>5. Store(cn, x) \in Window(T) /\ Store(s.cache, x) \in Window(T)
  BY <1>1, <1>2, StoreIs
<1>6. Channel(T, read, Append(s.made, GameData(x)), Append(xs, x), Store(cn, x))
  <2>1. Carries(cn, GameData(x), x, Store(cn, x))
    BY DEF Carries
  <2>2. QED
    BY <1>2, <1>4, <1>5, <2>1, SendOn
<1>7. CASE disable_output_cache
  <2>1. t = [cache |-> s.cache, made |-> Append(s.made, GameData(x))]
    BY <1>3, <1>7 DEF make_cached_output
  <2> HIDE DEF t
  <2>2. QED
    BY <1>1, <1>5, <1>6, <1>7, <2>1 DEF Sent, t
<1>8. CASE ~ disable_output_cache /\ pos # None
  <2>1. t = [cache |-> s.cache, made |-> Append(s.made, GameCache(pos))]
    BY <1>3, <1>8 DEF make_cached_output
  <2>2. pos \in Nat /\ At(s.cache, pos) = <<x>>
    BY <1>1, <1>8, NewestIs
  <2>3. Carries(cn, GameCache(pos), x, cn) /\ cn = s.cache
    BY <1>2, <1>8, <2>2 DEF Carries
  <2>4. Channel(T, read, Append(s.made, GameCache(pos)), Append(xs, x), cn)
    BY <1>2, <1>4, <2>2, <2>3, SendOn
  <2> HIDE DEF t, pos
  <2>5. QED
    BY <1>1, <2>1, <2>3, <2>4 DEF Sent, t
<1>9. CASE ~ disable_output_cache /\ pos = None
  <2>1. t = [cache |-> Store(s.cache, x), made |-> Append(s.made, GameData(x))]
    BY <1>9 DEF make_cached_output
  <2>2. cn = s.cache
    BY <1>2, <1>9
  <2> HIDE DEF t, pos
  <2>3. QED
    BY <1>5, <1>6, <2>1, <2>2 DEF Sent, t
<1>10. QED
  BY <1>7, <1>8, <1>9

LEMMA MakesAll ==
  ASSUME NEW T, NEW read, NEW start, NEW xs, Sent(T, read, start, xs), NEW outputs \in Seq(T),
         disable_output_cache \in BOOLEAN,
         start = [cache |-> start.cache, made |-> start.made]
  PROVE  Sent(T, read, Responding(start, outputs), xs \o outputs)
<1> DEFINE n == Len(outputs)
           first(i) == SubSeq(outputs, 1, i)
<1>1. n \in Nat
  OBVIOUS
<1>2. PICK s : Upto(start, outputs, n, s) /\ Responding(start, outputs) = s[n]
  BY RespondingIs
<1>3. xs \in Seq(T)
  BY DEF Sent, Channel
<1> DEFINE Fine(i) == s[i] = [cache |-> s[i].cache, made |-> s[i].made] /\ Sent(T, read, s[i], xs \o first(i))
<1>4. Fine(0)
  <2>1. first(0) = <<>>
    BY SubSeqEmpty
  <2>2. xs \o first(0) = xs
    BY <1>3, <2>1, ConcatEmptySeq
  <2>3. s[0] = start
    BY <1>2 DEF Upto
  <2>4. QED
    BY <2>2, <2>3
<1>5. ASSUME NEW i \in 1 .. n, Fine(i - 1)
      PROVE  Fine(i)
  <2>1. s[i] = make_cached_output(s[i - 1], outputs[i]) /\ outputs[i] \in T
    BY <1>2 DEF Upto
  <2>2. /\ s[i] = [cache |-> s[i].cache, made |-> s[i].made]
        /\ Sent(T, read, s[i], Append(xs \o first(i - 1), outputs[i]))
    <3> DEFINE ys == xs \o first(i - 1)
               x == outputs[i]
               r == s[i - 1]
    <3>1. r = [cache |-> r.cache, made |-> r.made] /\ Sent(T, read, r, ys) /\ x \in T
      BY <1>5, <2>1
    <3>2. s[i] = make_cached_output(r, x)
      BY <2>1
    <3> HIDE DEF ys, x, r
    <3>3. s[i] = [cache |-> s[i].cache, made |-> s[i].made] /\ Sent(T, read, s[i], Append(ys, x))
      BY <3>1, <3>2, MakesOne
    <3>4. QED
      BY <3>3 DEF ys, x
  <2>3. Append(xs \o first(i - 1), outputs[i]) = xs \o first(i)
    BY <1>3, OneMore
  <2>4. QED
    BY <2>2, <2>3
<1> HIDE DEF Fine
<1>6. Fine(n)
  <2> DEFINE bad == {i \in 0 .. n : ~ Fine(i)}
  <2>1. SUFFICES ASSUME bad # {} PROVE FALSE
    BY <1>1
  <2>2. PICK m \in bad : \A k \in bad : m <= k
    <3>1. bad \in SUBSET Nat
      OBVIOUS
    <3>2. QED
      BY <2>1, <3>1, LeastNat
  <2>3. m \in 1 .. n /\ m - 1 \in 0 .. n /\ ~ Fine(m)
    BY <1>1, <1>4
  <2>4. m - 1 \notin bad
    BY <2>2, <2>3
  <2>5. QED
    BY <1>5, <2>3, <2>4
<1>7. first(n) = outputs
  OBVIOUS
<1>8. QED
  BY <1>2, <1>6, <1>7 DEF Fine

\* What Respond leaves a player, given that his channel was right.
LEMMA RespondIs ==
  ASSUME NEW T, NEW outputs, Respond(outputs), disable_output_cache \in BOOLEAN,
         NEW p \in Players, outputs[p] \in Seq(T), NEW xs,
         Sent(T, output_cache[p], [cache |-> output_caches[p], made |-> responses[p]], xs),
         output_cache' = output_cache
  PROVE  Sent(T, output_cache[p], [cache |-> output_caches[p], made |-> responses[p]], xs \o outputs[p])'
<1> DEFINE start == [cache |-> output_caches[p], made |-> responses[p]]
           end == Responding(start, outputs[p])
<1>1. /\ output_caches'[p] = end.cache /\ responses'[p] = end.made
      /\ disable_output_cache' = disable_output_cache
  BY DEF Respond
<1>2. Sent(T, output_cache[p], end, xs \o outputs[p])
  <2>1. start = [cache |-> start.cache, made |-> start.made]
    OBVIOUS
  <2> HIDE DEF start
  <2>2. Sent(T, output_cache[p], start, xs)
    BY DEF start
  <2>3. QED
    BY <2>1, <2>2, MakesAll
<1> HIDE DEF end, start
<1>3. QED
  BY <1>1, <1>2 DEF Sent

-----------------------------------------------------------------------------
(***************************************************************************)
(* The inductive invariant of a game.                                      *)
(***************************************************************************)
Outputs == {FlattenSeq(row) : row \in Row} \cup {ZeroFrame(size) : size \in Nat}

Settled ==
  /\ window \in [Players -> Nat \ {0}] /\ total_delays \in [Players -> Nat]
  /\ disable_output_cache \in BOOLEAN
  /\ \A p, q \in Players : Latency(p) = Latency(q)

PlayTypes ==
  /\ pressed \in [Players -> Seq(Packets)]
  /\ up \in [Players -> Seq(Message(Packets))]
  /\ input_caches \in [Players -> Window(Packets)] /\ input_cache \in [Players -> Window(Packets)]
  /\ queues \in [Players -> Seq(Packets)]
  /\ warmup_sent \in [Players -> Nat] /\ frame_size \in Nat
  /\ output_caches \in [Players -> Window(Outputs)] /\ output_cache \in [Players -> Window(Outputs)]
  /\ responses \in [Players -> Seq(Message(Outputs))]
  /\ decoded \in [Players -> Seq(Outputs)]

\* What p's client has sent and the server has not handled is what p pressed last.
Uplink(p) ==
  /\ Len(up[p]) <= Len(pressed[p])
  /\ Channel(Packets, input_caches[p], up[p],
             SubSeq(pressed[p], Handled(p) + 1, Len(pressed[p])), input_cache[p])

\* What p's client has yet to read completes what he is due.
Downlink(p) ==
  \E xs \in Seq(Outputs) :
    /\ Sent(Outputs, output_cache[p], [cache |-> output_caches[p], made |-> responses[p]], xs)
    /\ Playing(p) => decoded[p] \o xs = Due(p)

\* The zero frames and the inputs held back, of whoever still plays.
Begun(p) == IF Handled(p) < total_delays[p] THEN Handled(p) ELSE total_delays[p]
Used(p) == IF Handled(p) > total_delays[p] THEN Handled(p) - total_delays[p] ELSE 0

Starts(s, t) == Len(s) <= Len(t) /\ \A k \in 1 .. Len(s) : s[k] = t[k]

Startup(p) ==
  /\ warmup_sent[p] <= total_delays[p] /\ Len(queues[p]) <= warmup_sent[p]
  /\ frame_size = 0 => warmup_sent[p] = 0
  /\ Playing(p) => /\ warmup_sent[p] = Begun(p)
                   /\ queues[p] = SubSeq(pressed[p], Used(p) + 1, Begun(p))
                   /\ contributed[p] = Schedule(p)
  /\ ~ Playing(p) => Starts(contributed[p], Schedule(p))

Upward == \A p \in Players : Uplink(p)
Downward == \A p \in Players : Downlink(p)
Started == \A p \in Players : Startup(p)

PlayInv == Settled /\ PlayTypes /\ SyncInv /\ Upward /\ Downward /\ Started

-----------------------------------------------------------------------------
\* The delays of handle_start_game balance in every configuration without a shared window.
LEMMA StartBalances ==
  ASSUME NEW config \in Configs, NEW ping \in Pings
  PROVE  LET start == start_delays(config, ping, Delay)
         IN /\ start.advertised \in [Players -> Nat \ {0}] /\ start.warmup \in [Players -> Nat]
            /\ \A p, q \in Players :
                 start.advertised[p] + start.warmup[p] = start.advertised[q] + start.warmup[q]
<1> DEFINE start == start_delays(config, ping, Delay)
           d == config.fixed_game_delay
<1>1. /\ config \in Config /\ ping \in [Players -> Nat] /\ DOMAIN ping = Players
      /\ ~ config.same_game_delay /\ ~ config.shared_game_delay_window
      /\ start.warmup \in [Players -> Nat]
  BY PlayAssumption, EngineAssumption
<1>2. /\ Delay \in [Players -> Nat \ {0}]
      /\ \A p \in Players : Delay[p] = 1
  <2>1. Delay \in Seq({1}) /\ Players = 1 .. Len(Delay)
    BY EngineAssumption
  <2>2. Delay \in [Players -> {1}]
    BY <2>1
  <2>3. QED
    BY <2>2
<1>3. d \in Nat \/ d = Unset
  BY <1>1 DEF Config
<1>4. CASE d = Unset
  <2> DEFINE delay == [p \in DOMAIN ping |-> auto_game_delay_frames(ping[p], Delay[p])]
  <2>1. start = SizedFrom(config, delay)
    BY <1>4 DEF start_delays, Unset
  <2>2. \A p \in Players : delay[p] \in Nat \ {0}
    <3>1. ASSUME NEW p \in Players
          PROVE  delay[p] \in Nat \ {0}
      <4> DEFINE x == GAME_FPS * ping[p]
      <4>1. x \in Nat
        BY <1>1, DelaysAssumption
      <4>2. delay[p] = x \div 1000 + 1
        BY <1>1, <1>2 DEF auto_game_delay_frames
      <4> HIDE DEF x
      <4>3. x \div 1000 \in Nat
        BY <4>1
      <4>4. QED
        BY <4>2, <4>3
    <3>2. QED
      BY <3>1
  <2>3. DOMAIN delay = Players /\ delay \in [Players -> Nat \ {0}]
    BY <1>1, <2>2
  <2>4. IsFiniteSet(Players)
    <3>1. Players = 1 .. Len(Delay) /\ Len(Delay) \in Nat
      BY EngineAssumption
    <3>2. QED
      BY <3>1, FS_Interval
  <2> HIDE DEF delay
  <2>5. Delays(delay)
    BY <2>3, <2>4 DEF Delays
  <2>6. Balanced(start)
    BY <1>1, <2>1, <2>5, OwnWindowBalances
  <2>7. \A p \in Players : start.advertised[p] = delay[p]
    BY <1>1, <2>1, <2>3, SizedFromIs
  <2>8. DOMAIN start.advertised = Players /\ DOMAIN start.warmup = Players
        /\ start.advertised = [p \in Players |-> start.advertised[p]]
    BY <2>1, <2>3 DEF SizedFrom, Start
  <2> HIDE DEF start
  <2>9. start.advertised \in [Players -> Nat \ {0}]
    BY <2>3, <2>7, <2>8
  <2>10. QED
    BY <1>1, <2>6, <2>8, <2>9 DEF Balanced, start
<1>5. CASE d = 0
  <2>1. start = Start(Delay, [p \in Players |-> 0])
    BY <1>1, <1>5 DEF start_delays, Unset
  <2>2. start.advertised = Delay /\ start.warmup = [p \in Players |-> 0]
    BY <2>1 DEF Start
  <2> HIDE DEF start
  <2>3. QED
    BY <1>2, <2>2 DEF start
<1>6. CASE d \in Nat \ {0}
  <2>1. start = Start([p \in Players |-> d], [p \in Players |-> d])
    BY <1>1, <1>6 DEF start_delays, Unset
  <2>2. start.advertised = [p \in Players |-> d] /\ start.warmup = [p \in Players |-> d]
    BY <2>1 DEF Start
  <2> HIDE DEF start, d
  <2>3. QED
    BY <1>6, <2>2 DEF start
<1>7. QED
  BY <1>3, <1>4, <1>5, <1>6

LEMMA InitSettled == PlayInit => Settled
<1>1. SUFFICES ASSUME PlayInit PROVE Settled
  OBVIOUS
<1>2. PICK config \in Configs, ping \in Pings :
        /\ total_delays = start_delays(config, ping, Delay).warmup
        /\ window = start_delays(config, ping, Delay).advertised
  BY <1>1 DEF PlayInit
<1>3. disable_output_cache \in BOOLEAN
  BY <1>1 DEF PlayInit, EngineInit
<1>4. QED
  BY <1>2, <1>3, StartBalances DEF Settled, Latency

LEMMA InitPlayInv == PlayInit => PlayInv
<1>1. SUFFICES ASSUME PlayInit PROVE PlayInv
  OBVIOUS
<1>2. Settled
  BY <1>1, InitSettled
<1>3. SyncInv
  BY <1>1, SyncInit DEF PlayInit, EngineInit
<1>4. /\ \A S : <<>> \in Seq(S)
      /\ \A S : <<>> \in Window(S)
  BY EngineAssumption DEF Window
<1>5. PlayTypes
  BY <1>1, <1>4 DEF PlayTypes, PlayInit, EngineInit
<1>6. ASSUME NEW p \in Players
      PROVE  /\ pressed[p] = <<>> /\ up[p] = <<>> /\ input_caches[p] = <<>> /\ input_cache[p] = <<>>
             /\ queues[p] = <<>> /\ warmup_sent[p] = 0 /\ contributed[p] = <<>> /\ sent[p] = <<>>
             /\ output_caches[p] = <<>> /\ output_cache[p] = <<>> /\ responses[p] = <<>>
             /\ decoded[p] = <<>> /\ Playing(p) /\ total_delays[p] \in Nat
             /\ Len(<<>>) = 0
  BY <1>1, <1>2 DEF PlayInit, EngineInit, Sync!Init, Playing, Settled
<1>7. ASSUME NEW p \in Players PROVE Uplink(p)
  <2>1. Handled(p) = 0 /\ Len(up[p]) = 0 /\ Len(pressed[p]) = 0
    BY <1>6 DEF Handled
  <2>4. SubSeq(pressed[p], Handled(p) + 1, Len(pressed[p])) = <<>>
    BY <2>1, SubSeqEmpty
  <2>2. Channel(Packets, <<>>, <<>>, <<>>, <<>>)
    BY <1>4, Quiet
  <2>5. Channel(Packets, input_caches[p], up[p],
                SubSeq(pressed[p], Handled(p) + 1, Len(pressed[p])), input_cache[p])
    BY <1>6, <2>2, <2>4
  <2>6. Len(up[p]) <= Len(pressed[p])
    BY <2>1
  <2>3. QED
    BY <2>5, <2>6 DEF Uplink
<1>8. ASSUME NEW p \in Players PROVE Downlink(p)
  <2>1. Channel(Outputs, <<>>, <<>>, <<>>, <<>>)
    BY <1>4, Quiet
  <2>2. Sent(Outputs, <<>>, [cache |-> <<>>, made |-> <<>>], <<>>)
    BY <1>4, <2>1 DEF Sent
  <2>3. Due(p) = <<>>
    BY <1>6 DEF Due
  <2>4. decoded[p] \o <<>> = Due(p)
    BY <1>6, <2>3
  <2>5. QED
    BY <1>4, <1>6, <2>2, <2>4 DEF Downlink
<1>9. ASSUME NEW p \in Players PROVE Startup(p)
  <2>0. Handled(p) = 0
    BY <1>6 DEF Handled
  <2>1. Handled(p) = 0 /\ Used(p) = 0 /\ Begun(p) = 0
    BY <1>6, <2>0 DEF Used, Begun
  <2>2. Schedule(p) = <<>>
    BY <1>6, <2>1 DEF Schedule
  <2>3. SubSeq(pressed[p], Used(p) + 1, Begun(p)) = <<>>
    BY <2>1, SubSeqEmpty
  <2>4. /\ warmup_sent[p] <= total_delays[p] /\ Len(queues[p]) <= warmup_sent[p]
        /\ warmup_sent[p] = 0
    BY <1>6
  <2>5. /\ warmup_sent[p] = Begun(p) /\ contributed[p] = Schedule(p) /\ Playing(p)
        /\ queues[p] = SubSeq(pressed[p], Used(p) + 1, Begun(p))
    BY <1>6, <2>1, <2>2, <2>3
  <2>6. QED
    BY <2>4, <2>5 DEF Startup
<1>10. QED
  BY <1>2, <1>3, <1>5, <1>7, <1>8, <1>9 DEF PlayInv, Upward, Downward, Started

-----------------------------------------------------------------------------
(***************************************************************************)
(* What each action leaves of it.                                          *)
(***************************************************************************)
\* The settings of the game never change.
LEMMA KeepsSettled ==
  ASSUME Settled, UNCHANGED <<window, total_delays, disable_output_cache>>
  PROVE  Settled'
BY DEF Settled, Latency

LEMMA Facts ==
  ASSUME Settled, PlayTypes, NEW p \in Players
  PROVE  /\ pressed[p] \in Seq(Packets) /\ Len(pressed[p]) \in Nat
         /\ up[p] \in Seq(Message(Packets)) /\ Len(up[p]) \in Nat
         /\ window[p] \in Nat \ {0} /\ total_delays[p] \in Nat
         /\ warmup_sent[p] \in Nat /\ frame_size \in Nat
         /\ queues[p] \in Seq(Packets) /\ Len(queues[p]) \in Nat
         /\ Latency(p) \in Nat /\ Latency(p) = window[p] + total_delays[p]
         /\ input_caches[p] \in Window(Packets) /\ input_cache[p] \in Window(Packets)
         /\ output_caches[p] \in Window(Outputs) /\ output_cache[p] \in Window(Outputs)
         /\ responses[p] \in Seq(Message(Outputs)) /\ decoded[p] \in Seq(Outputs)
BY DEF Settled, PlayTypes, Latency

\* One press more is one input more to be handled.
LEMMA OneMorePressed ==
  ASSUME NEW s \in Seq(Packets), NEW x \in Packets, NEW h \in 0 .. Len(s)
  PROVE  SubSeq(Append(s, x), h + 1, Len(s) + 1) = Append(SubSeq(s, h + 1, Len(s)), x)
<1> DEFINE n == Len(s)
           a == SubSeq(Append(s, x), h + 1, n + 1)
           b == SubSeq(s, h + 1, n)
<1>1. n \in Nat /\ h \in Nat /\ h <= n
  OBVIOUS
<1>2. /\ Append(s, x) \in Seq(Packets) /\ Len(Append(s, x)) = n + 1 /\ Append(s, x)[n + 1] = x
      /\ \A i \in 1 .. n : Append(s, x)[i] = s[i]
  BY AppendProperties
<1>3. /\ b \in Seq(Packets) /\ Len(b) = n - h
      /\ \A i \in 1 .. n - h : b[i] = s[h + i]
  BY <1>1, Combiner!Rest
<1>4. /\ a \in Seq(Packets) /\ Len(a) = n + 1 - h
      /\ \A i \in 1 .. n + 1 - h : a[i] = Append(s, x)[h + i]
  <2> DEFINE t == Append(s, x)
  <2>1. t \in Seq(Packets) /\ Len(t) = n + 1 /\ h \in 0 .. Len(t)
    BY <1>1, <1>2
  <2> HIDE DEF t
  <2> DEFINE c == SubSeq(t, h + 1, Len(t))
  <2>2. c \in Seq(Packets) /\ Len(c) = Len(t) - h /\ \A i \in 1 .. Len(t) - h : c[i] = t[h + i]
    BY <2>1, Combiner!Rest, SMTT(30)
  <2>3. c = a
    BY <2>1 DEF t
  <2> HIDE DEF a, c, n
  <2>4. a \in Seq(Packets) /\ Len(a) = n + 1 - h /\ \A i \in 1 .. n + 1 - h : a[i] = t[h + i]
    <3>1. Len(t) - h = n + 1 - h
      BY <1>1, <2>1
    <3>2. QED
      BY <2>2, <2>3, <3>1
  <2>5. QED
    BY <2>4 DEF t
<1>5. /\ Append(b, x) \in Seq(Packets) /\ Len(Append(b, x)) = n - h + 1
      /\ Append(b, x)[n - h + 1] = x
      /\ \A i \in 1 .. n - h : Append(b, x)[i] = b[i]
  BY <1>3, AppendProperties
<1> HIDE DEF n, a, b
<1>6. ASSUME NEW i \in 1 .. n + 1 - h
      PROVE  a[i] = Append(b, x)[i]
  <2>1. CASE i <= n - h
    <3>1. i \in 1 .. n - h /\ h + i \in 1 .. n
      BY <1>1, <2>1
    <3>2. QED
      BY <1>2, <1>3, <1>4, <1>5, <3>1
  <2>2. CASE i = n - h + 1
    <3>1. h + i = n + 1
      BY <1>1, <2>2
    <3>2. QED
      BY <1>2, <1>4, <1>5, <2>2, <3>1
  <2>3. i <= n - h \/ i = n - h + 1
    BY <1>1
  <2>4. QED
    BY <2>1, <2>2, <2>3
<1>7. n + 1 - h = n - h + 1 /\ n - h + 1 \in Nat
  BY <1>1
<1>8. a = Append(b, x)
  BY <1>4, <1>5, <1>6, <1>7, SeqEqual
<1>9. QED
  BY <1>8 DEF a, b, n

\* What of a player's inputs is handled, held back, and used.
LEMMA Counts ==
  ASSUME Settled, PlayTypes, NEW p \in Players, Uplink(p)
  PROVE  /\ Handled(p) \in Nat /\ Handled(p) \in 0 .. Len(pressed[p])
         /\ Len(pressed[p]) = Handled(p) + Len(up[p])
         /\ Used(p) \in Nat /\ Begun(p) \in Nat /\ Used(p) + Begun(p) = Handled(p)
         /\ Begun(p) <= total_delays[p] /\ Begun(p) <= Len(pressed[p]) /\ (Used(p) > 0 => Begun(p) = total_delays[p])
         /\ Schedule(p) = [k \in 1 .. Used(p) |->
                             pressed[p][IF k <= total_delays[p] THEN k ELSE k + total_delays[p]]]
         /\ \A k \in 1 .. Used(p) :
              (IF k <= total_delays[p] THEN k ELSE k + total_delays[p]) \in 1 .. Handled(p)
<1> DEFINE h == Handled(p)
           n == Len(pressed[p])
           u == Len(up[p])
           w == total_delays[p]
<1>1. n \in Nat /\ u \in Nat /\ u <= n /\ w \in Nat
  BY Facts DEF Uplink
<1>2. h = n - u
  BY DEF Handled
<1>3. /\ Used(p) = (IF h > w THEN h - w ELSE 0) /\ Begun(p) = (IF h < w THEN h ELSE w)
      /\ Schedule(p) = [k \in 1 .. Used(p) |-> pressed[p][IF k <= w THEN k ELSE k + w]]
  BY DEF Used, Begun, Schedule
<1> HIDE DEF h, n, u, w
<1>4. h \in Nat /\ h \in 0 .. n /\ n = h + u
  BY <1>1, <1>2
<1>5. /\ Used(p) \in Nat /\ Begun(p) \in Nat /\ Used(p) + Begun(p) = h
      /\ Begun(p) <= w /\ Begun(p) <= n /\ (Used(p) > 0 => Begun(p) = w)
  BY <1>1, <1>3, <1>4
<1>6. \A k \in 1 .. Used(p) : (IF k <= w THEN k ELSE k + w) \in 1 .. h
  BY <1>1, <1>4, <1>5
<1>7. QED
  BY <1>3, <1>4, <1>5, <1>6 DEF h, n, u, w

\* The schedule depends on nothing but the inputs handled.
LEMMA SameSchedule ==
  ASSUME Settled, PlayTypes, NEW p \in Players, Uplink(p), Handled(p)' = Handled(p),
         total_delays' = total_delays, \A k \in 1 .. Handled(p) : pressed'[p][k] = pressed[p][k]
  PROVE  Schedule(p)' = Schedule(p)
<1> DEFINE w == total_delays[p]
           at(k) == IF k <= w THEN k ELSE k + w
<1>1. /\ Schedule(p) = [k \in 1 .. Used(p) |-> pressed[p][at(k)]]
      /\ \A k \in 1 .. Used(p) : at(k) \in 1 .. Handled(p)
  BY Counts
<1>2. Schedule(p)' = [k \in 1 .. Used(p) |-> pressed'[p][at(k)]]
  BY DEF Schedule, Used
<1> HIDE DEF at
<1>3. \A k \in 1 .. Used(p) : pressed'[p][at(k)] = pressed[p][at(k)]
  BY <1>1
<1>4. QED
  BY <1>1, <1>2, <1>3

\* What the channel of a player needs is all there is of him in it.
LEMMA SameUplink ==
  ASSUME NEW p \in Players, Uplink(p), pressed'[p] = pressed[p], up'[p] = up[p],
         input_caches'[p] = input_caches[p], input_cache'[p] = input_cache[p]
  PROVE  Uplink(p)'
BY DEF Uplink, Handled

LEMMA SameDownlink ==
  ASSUME NEW p \in Players, Downlink(p), UNCHANGED disable_output_cache,
         output_cache'[p] = output_cache[p], output_caches'[p] = output_caches[p],
         responses'[p] = responses[p], decoded'[p] = decoded[p],
         Playing(p)' => Playing(p),
         Playing(p) => Due(p)' = Due(p)
  PROVE  Downlink(p)'
<1>1. PICK xs \in Seq(Outputs) :
        /\ Sent(Outputs, output_cache[p], [cache |-> output_caches[p], made |-> responses[p]], xs)
        /\ Playing(p) => decoded[p] \o xs = Due(p)
  BY DEF Downlink
<1>2. Sent(Outputs, output_cache[p], [cache |-> output_caches[p], made |-> responses[p]], xs)'
  BY <1>1 DEF Sent
<1>3. (Playing(p) => decoded[p] \o xs = Due(p))'
  BY <1>1
<1>4. QED
  BY <1>2, <1>3 DEF Downlink

LEMMA SameStartup ==
  ASSUME NEW p \in Players, Startup(p), Handled(p)' = Handled(p), total_delays' = total_delays,
         frame_size' = frame_size \/ frame_size' # 0, warmup_sent'[p] = warmup_sent[p], queues'[p] = queues[p],
         contributed'[p] = contributed[p], Playing(p)' <=> Playing(p),
         Schedule(p)' = Schedule(p),
         Playing(p) => SubSeq(pressed'[p], Used(p) + 1, Begun(p)) = SubSeq(pressed[p], Used(p) + 1, Begun(p))
  PROVE  Startup(p)'
<1>1. Used(p)' = Used(p) /\ Begun(p)' = Begun(p)
  BY DEF Used, Begun
<1>2. QED
  BY <1>1 DEF Startup

\* A stretch that lies within what both have.
LEMMA SameStretch ==
  ASSUME NEW S, NEW s \in Seq(S), NEW t \in Seq(S), NEW a \in Nat, NEW b \in Nat,
         b <= Len(s), b <= Len(t), \A i \in 1 .. Len(s) : t[i] = s[i]
  PROVE  SubSeq(t, a + 1, b) = SubSeq(s, a + 1, b)
<1> DEFINE m == IF a + 1 <= b THEN b - (a + 1) + 1 ELSE 0
<1>1. SubSeq(s, a + 1, b) = [i \in 1 .. m |-> s[(a + 1) + i - 1]]
  BY SMTT(30)
<1>2. SubSeq(t, a + 1, b) = [i \in 1 .. m |-> t[(a + 1) + i - 1]]
  BY SMTT(30)
<1>3. \A i \in 1 .. m : t[(a + 1) + i - 1] = s[(a + 1) + i - 1]
  <2>1. ASSUME NEW i \in 1 .. m
        PROVE  t[(a + 1) + i - 1] = s[(a + 1) + i - 1]
    <3> DEFINE j == (a + 1) + i - 1
    <3>1. j \in 1 .. Len(s)
      BY <2>1
    <3> HIDE DEF j
    <3>2. t[j] = s[j]
      BY <3>1
    <3>3. QED
      BY <3>2 DEF j
  <2>2. QED
    BY <2>1
<1> HIDE DEF m
<1>4. [i \in 1 .. m |-> t[(a + 1) + i - 1]] = [i \in 1 .. m |-> s[(a + 1) + i - 1]]
  BY <1>3
<1>5. QED
  BY <1>1, <1>2, <1>4

LEMMA PressKeeps ==
  ASSUME PlayInv, NEW p \in Players, NEW data \in Buttons[p], Press(p, data)
  PROVE  PlayInv'
<1>1. Settled /\ PlayTypes /\ SyncInv /\ Upward /\ Downward /\ Started /\ data \in Packets
  BY PlayAssumption DEF PlayInv
<1>2. /\ UNCHANGED <<window, total_delays, disable_output_cache>> /\ UNCHANGED combiner
      /\ UNCHANGED <<input_caches, queues, warmup_sent, frame_size>>
      /\ UNCHANGED <<output_caches, responses, output_cache, decoded>>
      /\ pressed' = [pressed EXCEPT ![p] = Append(@, data)]
  BY DEF Press, engine, startup, cached
<1>3. Settled'
  BY <1>1, <1>2, KeepsSettled
<1>4. SyncInv'
  BY <1>1, <1>2, SyncRests
<1> DEFINE cache == input_cache[p]
           pos == Newest(cache, data)
<1>5. PICK m \in Message(Packets), d \in Window(Packets) :
        /\ up' = [up EXCEPT ![p] = Append(@, m)]
        /\ input_cache' = [input_cache EXCEPT ![p] = d]
        /\ Carries(cache, m, data, d)
  <2>1. cache \in Window(Packets) /\ cache \in Seq(Packets) /\ input_cache \in [Players -> Window(Packets)]
    BY <1>1 DEF PlayTypes, Window
  <2>2. CASE pos # None
    <3>1. pos \in Nat /\ At(cache, pos) = <<data>>
      BY <2>1, <2>2, NewestIs
    <3>2. GameCache(pos) \in Message(Packets) /\ Carries(cache, GameCache(pos), data, cache)
      BY <3>1 DEF Message, GameCache, Carries
    <3>3. up' = [up EXCEPT ![p] = Append(@, GameCache(pos))] /\ input_cache' = input_cache
      BY <2>2 DEF Press
    <3>4. input_cache' = [input_cache EXCEPT ![p] = cache]
      BY <2>1, <3>3
    <3>5. QED
      BY <2>1, <3>2, <3>3, <3>4
  <2>3. CASE pos = None
    <3>1. GameData(data) \in Message(Packets) /\ Carries(cache, GameData(data), data, Store(cache, data))
      BY <1>1 DEF Message, GameData, Carries
    <3>2. Store(cache, data) \in Window(Packets)
      BY <1>1, <2>1, StoreIs
    <3>3. /\ up' = [up EXCEPT ![p] = Append(@, GameData(data))]
          /\ input_cache' = [input_cache EXCEPT ![p] = Store(cache, data)]
      BY <2>3 DEF Press
    <3>4. QED
      BY <3>1, <3>2, <3>3
  <2>4. QED
    BY <2>2, <2>3
<1>6. /\ pressed'[p] = Append(pressed[p], data) /\ up'[p] = Append(up[p], m) /\ input_cache'[p] = d
      /\ \A q \in Players : q # p => /\ pressed'[q] = pressed[q] /\ up'[q] = up[q]
                                      /\ input_cache'[q] = input_cache[q]
  BY <1>1, <1>2, <1>5 DEF PlayTypes
<1>7. PlayTypes'
  <2>1. pressed' \in [Players -> Seq(Packets)]
    BY <1>1, <1>2 DEF PlayTypes
  <2>2. up' \in [Players -> Seq(Message(Packets))]
    BY <1>1, <1>5 DEF PlayTypes
  <2>3. input_cache' \in [Players -> Window(Packets)]
    BY <1>1, <1>5 DEF PlayTypes
  <2>4. QED
    BY <1>1, <1>2, <2>1, <2>2, <2>3 DEF PlayTypes
<1> DEFINE h == Handled(p)
           n == Len(pressed[p])
<1>8. /\ pressed[p] \in Seq(Packets) /\ n \in Nat /\ up[p] \in Seq(Message(Packets)) /\ Len(up[p]) \in Nat
      /\ Len(up[p]) <= n /\ h = n - Len(up[p]) /\ total_delays[p] \in Nat
  BY <1>1, Facts DEF Upward, Uplink, Handled
<1>9. h \in 0 .. n
  BY <1>1, Counts DEF Upward
<1>10. /\ Len(pressed'[p]) = n + 1 /\ Len(up'[p]) = Len(up[p]) + 1
       /\ \A k \in 1 .. n : pressed'[p][k] = pressed[p][k]
  BY <1>6, <1>8, AppendProperties
<1>11. \A q \in Players : Handled(q)' = Handled(q)
  <2>1. Handled(p)' = Handled(p)
    BY <1>8, <1>10 DEF Handled
  <2>2. QED
    BY <1>6, <2>1 DEF Handled
<1>12. Upward'
  <2>1. Uplink(p)'
    <3>1. Channel(Packets, input_caches[p], up[p], SubSeq(pressed[p], h + 1, n), input_cache[p])
      BY <1>1 DEF Upward, Uplink
    <3>2. Channel(Packets, input_caches[p], Append(up[p], m), Append(SubSeq(pressed[p], h + 1, n), data), d)
      BY <1>1, <1>5, <3>1, SendOn
    <3>3. SubSeq(pressed'[p], h + 1, n + 1) = Append(SubSeq(pressed[p], h + 1, n), data)
      BY <1>1, <1>6, <1>8, <1>9, OneMorePressed
    <3>4. Len(up'[p]) <= Len(pressed'[p])
      BY <1>8, <1>10
    <3> HIDE DEF h, n
    <3>5. Channel(Packets, input_caches'[p], up'[p],
                  SubSeq(pressed'[p], Handled(p)' + 1, Len(pressed'[p])), input_cache'[p])
      BY <1>2, <1>6, <1>10, <1>11, <3>2, <3>3 DEF h
    <3>6. QED
      BY <3>4, <3>5 DEF Uplink
  <2>2. ASSUME NEW q \in Players, q # p PROVE Uplink(q)'
    BY <1>1, <1>2, <1>6, <2>2, SameUplink DEF Upward
  <2>3. QED
    BY <2>1, <2>2 DEF Upward
<1>13. Downward'
  <2>1. ASSUME NEW q \in Players PROVE Downlink(q)'
    <3>1. Playing(q)' = Playing(q) /\ Due(q)' = Due(q)
      BY <1>2 DEF combiner, Playing, Due
    <3>2. QED
      BY <1>1, <1>2, <3>1, SameDownlink DEF Downward
  <2>2. QED
    BY <2>1 DEF Downward
<1>14. Started'
  <2>1. ASSUME NEW q \in Players PROVE Startup(q)'
    <3>1. Playing(q)' <=> Playing(q)
      BY <1>2 DEF combiner, Playing
    <3>2. contributed'[q] = contributed[q] /\ queues'[q] = queues[q] /\ warmup_sent'[q] = warmup_sent[q]
      BY <1>2 DEF combiner
    <3>3. CASE q = p
      <4>1. Schedule(p)' = Schedule(p)
        <5>1. \A k \in 1 .. h : pressed'[p][k] = pressed[p][k]
          BY <1>8, <1>9, <1>10
        <5>2. QED
          BY <1>1, <1>2, <1>11, <5>1, SameSchedule DEF Upward
      <4>2. SubSeq(pressed'[p], Used(p) + 1, Begun(p)) = SubSeq(pressed[p], Used(p) + 1, Begun(p))
        <5> DEFINE s == pressed[p]
                   t == pressed'[p]
                   from == Used(p)
                   to == Begun(p)
        <5>1. from \in Nat /\ to \in Nat /\ to <= Len(s)
          BY <1>1, Counts DEF Upward
        <5>2. /\ t \in Seq(Packets) /\ Len(t) = n + 1
          BY <1>7, <1>10 DEF PlayTypes
        <5>3. to <= Len(t) /\ s \in Seq(Packets) /\ \A i \in 1 .. Len(s) : t[i] = s[i]
          BY <1>8, <1>10, <5>1, <5>2
        <5> HIDE DEF s, t, from, to
        <5>4. SubSeq(t, from + 1, to) = SubSeq(s, from + 1, to)
          BY <5>1, <5>2, <5>3, SameStretch
        <5>5. QED
          BY <5>4 DEF s, t, from, to
      <4>3. QED
        BY <1>1, <1>2, <1>11, <3>1, <3>2, <3>3, <4>1, <4>2, SameStartup DEF Started
    <3>4. CASE q # p
      <4>1. pressed'[q] = pressed[q]
        BY <1>6, <3>4
      <4>2. Schedule(q)' = Schedule(q)
        BY <1>1, <1>2, <1>11, <4>1, SameSchedule DEF Upward
      <4>3. QED
        BY <1>1, <1>2, <1>11, <3>1, <3>2, <4>1, <4>2, SameStartup DEF Started
    <3>5. QED
      BY <3>3, <3>4
  <2>2. QED
    BY <2>1 DEF Started
<1>15. QED
  BY <1>3, <1>4, <1>7, <1>12, <1>13, <1>14 DEF PlayInv

-----------------------------------------------------------------------------
\* Stretches of a list: an end more, an end less.
LEMMA Stretch ==
  ASSUME NEW S, NEW s \in Seq(S), NEW a \in Nat, NEW b \in Nat, b <= Len(s)
  PROVE  /\ SubSeq(s, a + 1, b) \in Seq(S)
         /\ Len(SubSeq(s, a + 1, b)) = IF a <= b THEN b - a ELSE 0
         /\ \A i \in 1 .. b - a : SubSeq(s, a + 1, b)[i] = s[a + i]
<1> DEFINE t == SubSeq(s, a + 1, b)
           n == IF a <= b THEN b - a ELSE 0
<1>1. n \in Nat /\ Len(s) \in Nat /\ (a <= b => n = b - a) /\ (~ a <= b => n = 0)
  OBVIOUS
<1>2. t = [i \in 1 .. (IF a + 1 <= b THEN b - (a + 1) + 1 ELSE 0) |-> s[(a + 1) + i - 1]]
  OBVIOUS
<1> HIDE DEF t
<1>3. (IF a + 1 <= b THEN b - (a + 1) + 1 ELSE 0) = n
  OBVIOUS
<1> HIDE DEF n
<1>4. t = [i \in 1 .. n |-> s[(a + 1) + i - 1]]
  BY <1>2, <1>3
<1>5. \A i \in 1 .. n : (a + 1) + i - 1 = a + i /\ a + i \in 1 .. Len(s)
  BY <1>1
<1>6. \A i \in 1 .. n : s[a + i] \in S
  BY <1>5, ElementOfSeq
<1>7. t \in Seq(S) /\ Len(t) = n /\ \A i \in 1 .. n : t[i] = s[a + i]
  BY <1>1, <1>4, <1>5, <1>6
<1>8. \A i \in 1 .. b - a : i \in 1 .. n
  BY <1>1
<1>9. QED
  BY <1>7, <1>8 DEF t, n

LEMMA StretchEmpty ==
  ASSUME NEW S, NEW s \in Seq(S), NEW a \in Nat, NEW b \in Nat, b <= Len(s), b <= a
  PROVE  SubSeq(s, a + 1, b) = <<>>
BY SubSeqEmpty

LEMMA StretchFirst ==
  ASSUME NEW S, NEW s \in Seq(S), NEW a \in Nat, NEW b \in Nat, b <= Len(s), a < b
  PROVE  /\ SubSeq(s, a + 1, b) # <<>> /\ Head(SubSeq(s, a + 1, b)) = s[a + 1]
         /\ Tail(SubSeq(s, a + 1, b)) = SubSeq(s, a + 2, b)
<1> DEFINE t == SubSeq(s, a + 1, b)
           r == SubSeq(s, (a + 1) + 1, b)
           n == b - a
<1>1. /\ t \in Seq(S) /\ Len(t) = n /\ n \in Nat \ {0}
      /\ \A i \in 1 .. n : t[i] = s[a + i]
  BY Stretch
<1>2. /\ r \in Seq(S) /\ Len(r) = n - 1
      /\ \A i \in 1 .. n - 1 : r[i] = s[(a + 1) + i]
  <2>1. a + 1 \in Nat /\ a + 1 <= b /\ b - (a + 1) = n - 1
    OBVIOUS
  <2>2. /\ r \in Seq(S) /\ Len(r) = b - (a + 1)
        /\ \A i \in 1 .. b - (a + 1) : r[i] = s[(a + 1) + i]
    BY <2>1, Stretch
  <2> HIDE DEF r, n
  <2>3. QED
    BY <2>1, <2>2
<1>3. r = SubSeq(s, a + 2, b)
  <2>1. (a + 1) + 1 = a + 2
    OBVIOUS
  <2>2. QED
    BY <2>1
<1> HIDE DEF t, r, n
<1>4. /\ t # <<>> /\ Head(t) = t[1] /\ Tail(t) \in Seq(S) /\ Len(Tail(t)) = n - 1
      /\ \A i \in 1 .. n - 1 : Tail(t)[i] = t[i + 1]
  BY <1>1, EmptySeq, HeadTailProperties
<1>5. t[1] = s[a + 1]
  BY <1>1
<1>6. \A i \in 1 .. n - 1 : Tail(t)[i] = r[i]
  <2>1. ASSUME NEW i \in 1 .. n - 1 PROVE Tail(t)[i] = r[i]
    <3>1. i + 1 \in 1 .. n /\ a + (i + 1) = (a + 1) + i
      BY <1>1
    <3>2. QED
      BY <1>1, <1>2, <1>4, <3>1
  <2>2. QED
    BY <2>1
<1>7. Tail(t) = r
  BY <1>2, <1>4, <1>6, SeqEqual
<1>8. QED
  BY <1>3, <1>4, <1>5, <1>7 DEF t

LEMMA StretchOn ==
  ASSUME NEW S, NEW s \in Seq(S), NEW a \in Nat, NEW b \in Nat, a <= b, b + 1 <= Len(s)
  PROVE  Append(SubSeq(s, a + 1, b), s[b + 1]) = SubSeq(s, a + 1, b + 1)
<1> DEFINE t == SubSeq(s, a + 1, b)
           r == SubSeq(s, a + 1, b + 1)
           n == b - a
           x == s[b + 1]
<1>1. t \in Seq(S) /\ Len(t) = n /\ n \in Nat /\ (\A i \in 1 .. n : t[i] = s[a + i]) /\ x \in S
  <2>1. b <= Len(s) /\ n \in Nat /\ b + 1 \in 1 .. Len(s)
    OBVIOUS
  <2>2. QED
    BY <2>1, Stretch
<1>2. r \in Seq(S) /\ Len(r) = n + 1 /\ \A i \in 1 .. n + 1 : r[i] = s[a + i]
  <2>1. b + 1 \in Nat /\ a <= b + 1 /\ (b + 1) - a = n + 1
    OBVIOUS
  <2>2. r \in Seq(S) /\ Len(r) = (b + 1) - a /\ \A i \in 1 .. (b + 1) - a : r[i] = s[a + i]
    BY <2>1, Stretch
  <2> HIDE DEF r, n
  <2>3. QED
    BY <2>1, <2>2
<1>3. a + (n + 1) = b + 1
  OBVIOUS
<1> HIDE DEF t, r, n
<1>4. /\ Append(t, x) \in Seq(S) /\ Len(Append(t, x)) = n + 1 /\ Append(t, x)[n + 1] = x
      /\ \A i \in 1 .. n : Append(t, x)[i] = t[i]
  BY <1>1, AppendProperties
<1>5. ASSUME NEW i \in 1 .. n + 1 PROVE Append(t, x)[i] = r[i]
  <2>1. CASE i \in 1 .. n
    BY <1>1, <1>2, <1>4, <2>1
  <2>2. CASE i = n + 1
    BY <1>2, <1>3, <1>4, <2>2
  <2>3. QED
    BY <1>1, <2>1, <2>2
<1>6. Append(t, x) = r
  BY <1>2, <1>4, <1>5, SeqEqual
<1>7. QED
  BY <1>6 DEF t, r

-----------------------------------------------------------------------------
\* The message at the head of what p sent stands for the first input not yet handled.
LEMMA HeadMeans ==
  ASSUME Settled, PlayTypes, NEW p \in Players, Uplink(p), up[p] # <<>>
  PROVE  LET x == pressed[p][Handled(p) + 1]
             m == Head(up[p])
         IN /\ Handled(p) + 1 \in 1 .. Len(pressed[p]) /\ x \in Packets
            /\ Resolve(p, m) = <<x>>
            /\ Mirror(p, m) \in [Players -> Window(Packets)]
            /\ \A q \in Players : q # p => Mirror(p, m)[q] = input_caches[q]
            /\ Channel(Packets, Mirror(p, m)[p], Tail(up[p]),
                       SubSeq(pressed[p], Handled(p) + 2, Len(pressed[p])), input_cache[p])
<1> DEFINE h == Handled(p)
           n == Len(pressed[p])
           m == Head(up[p])
           xs == SubSeq(pressed[p], h + 1, n)
<1>1. /\ pressed[p] \in Seq(Packets) /\ n \in Nat /\ up[p] \in Seq(Message(Packets)) /\ Len(up[p]) \in Nat
      /\ h \in Nat /\ n = h + Len(up[p]) /\ input_caches \in [Players -> Window(Packets)]
  BY Counts, Facts DEF PlayTypes
<1>2. Len(up[p]) > 0
  BY <1>1, EmptySeq
<1>3. h < n /\ h + 1 \in 1 .. n
  BY <1>1, <1>2
<1>4. pressed[p][h + 1] \in Packets
  BY <1>1, <1>3, ElementOfSeq
<1>5. Head(xs) = pressed[p][h + 1] /\ Tail(xs) = SubSeq(pressed[p], h + 2, n)
  <2> DEFINE s == pressed[p]
  <2>1. s \in Seq(Packets) /\ h \in Nat /\ n \in Nat /\ n <= Len(s) /\ h < n
    BY <1>1, <1>3
  <2> HIDE DEF s, h, n
  <2>2. Head(SubSeq(s, h + 1, n)) = s[h + 1] /\ Tail(SubSeq(s, h + 1, n)) = SubSeq(s, h + 2, n)
    BY <2>1, StretchFirst
  <2>3. QED
    BY <2>2 DEF s
<1>6. Channel(Packets, input_caches[p], up[p], xs, input_cache[p])
  BY DEF Uplink
<1> HIDE DEF h, n, xs
<1>7. PICK d \in Window(Packets) : /\ Carries(input_caches[p], m, Head(xs), d)
                                   /\ Channel(Packets, d, Tail(up[p]), Tail(xs), input_cache[p])
  BY <1>6, TakeFirst
<1>8. Resolve(p, m) = <<Head(xs)>> /\ Mirror(p, m) = [input_caches EXCEPT ![p] = d]
  <2>1. CASE m = GameData(Head(xs)) /\ d = Store(input_caches[p], Head(xs))
    <3>1. m.kind = "GameData" /\ m.data = Head(xs)
      BY <2>1 DEF GameData
    <3> HIDE DEF m
    <3>2. QED
      BY <2>1, <3>1 DEF Resolve, Mirror
  <2>2. ASSUME NEW pos \in Nat, m = GameCache(pos), At(input_caches[p], pos) = <<Head(xs)>>,
               d = input_caches[p]
        PROVE  Resolve(p, m) = <<Head(xs)>> /\ Mirror(p, m) = [input_caches EXCEPT ![p] = d]
    <3>1. m.kind # "GameData" /\ m.pos = pos
      BY <2>2 DEF GameCache
    <3>2. input_caches = [input_caches EXCEPT ![p] = d]
      BY <1>1, <2>2
    <3> HIDE DEF m
    <3>3. QED
      BY <2>2, <3>1, <3>2 DEF Resolve, Mirror
  <2>3. QED
    BY <1>7, <2>1, <2>2 DEF Carries
<1> HIDE DEF m
<1>9. /\ Mirror(p, m) \in [Players -> Window(Packets)] /\ Mirror(p, m)[p] = d
      /\ \A q \in Players : q # p => Mirror(p, m)[q] = input_caches[q]
  BY <1>1, <1>8
<1>10. QED
  BY <1>3, <1>4, <1>5, <1>7, <1>8, <1>9 DEF h, n, m

\* What a call answers is what its receivers are due beyond what they were due.
LEMMA RespondKeeps ==
  ASSUME Settled, PlayTypes, Downward, NEW outputs, Respond(outputs),
         UNCHANGED <<output_cache, decoded>>,
         \A q \in Players : /\ outputs[q] \in Seq(Outputs)
                            /\ Playing(q)' => Playing(q) /\ Due(q)' = Due(q) \o outputs[q]
  PROVE  /\ Downward' /\ disable_output_cache' = disable_output_cache
         /\ output_caches' \in [Players -> Window(Outputs)]
         /\ responses' \in [Players -> Seq(Message(Outputs))]
<1>1. ASSUME NEW q \in Players
      PROVE  /\ Downlink(q)' /\ output_caches'[q] \in Window(Outputs)
             /\ responses'[q] \in Seq(Message(Outputs))
  <2>1. PICK xs \in Seq(Outputs) :
          /\ Sent(Outputs, output_cache[q], [cache |-> output_caches[q], made |-> responses[q]], xs)
          /\ Playing(q) => decoded[q] \o xs = Due(q)
    BY DEF Downward, Downlink
  <2>2. outputs[q] \in Seq(Outputs) /\ decoded[q] \in Seq(Outputs) /\ output_cache' = output_cache
    BY Facts
  <2>3. disable_output_cache \in BOOLEAN
    BY DEF Settled
  <2>4. Sent(Outputs, output_cache[q], [cache |-> output_caches[q], made |-> responses[q]], xs \o outputs[q])'
    BY <2>1, <2>2, <2>3, RespondIs
  <2> DEFINE ys == outputs[q]
             ds == decoded[q]
  <2>5. xs \o ys \in Seq(Outputs)
    BY <2>2, ConcatProperties
  <2>6. (ds \o xs) \o ys = ds \o (xs \o ys)
    <3>1. ds \in Seq(Outputs) /\ ys \in Seq(Outputs) /\ xs \in Seq(Outputs)
      BY <2>2
    <3> HIDE DEF ds, ys
    <3>2. QED
      BY <3>1, ConcatAssociative, SMTT(30)
  <2>7. (Playing(q) => decoded[q] \o (xs \o ys) = Due(q))'
    BY <2>1, <2>6
  <2>8. Downlink(q)'
    BY <2>4, <2>5, <2>7 DEF Downlink
  <2>9. /\ output_caches'[q] \in Window(Outputs)
        /\ responses'[q] \in Seq(Message(Outputs))
    BY <2>4 DEF Sent, Channel
  <2>10. QED
    BY <2>8, <2>9
<1>2. disable_output_cache' = disable_output_cache
  BY DEF Respond
<1>3. DOMAIN output_caches' = Players /\ output_caches' = [q \in Players |-> output_caches'[q]]
      /\ responses' = [q \in Players |-> responses'[q]]
  BY DEF Respond
<1>4. QED
  BY <1>1, <1>2, <1>3 DEF Downward

-----------------------------------------------------------------------------
\* What a player is due, in two parts.
Zeroes(p) == [k \in 1 .. warmup_sent[p] |-> ZeroFrame(frame_size)]
Frames(p) == [k \in 1 .. Len(sent[p]) |-> FlattenSeq(sent[p][k])]

LEMMA DueIs ==
  ASSUME PlayTypes, SyncInv, NEW p \in Players
  PROVE  /\ Due(p) = Zeroes(p) \o Frames(p)
         /\ Zeroes(p) \in Seq(Outputs) /\ Len(Zeroes(p)) = warmup_sent[p]
         /\ Frames(p) \in Seq(Outputs) /\ Len(Frames(p)) = Len(sent[p])
<1>1. warmup_sent[p] \in Nat /\ frame_size \in Nat /\ sent[p] \in Seq(Row) /\ Len(sent[p]) \in Nat
  BY SameRows DEF PlayTypes
<1>2. ZeroFrame(frame_size) \in Outputs
  BY <1>1 DEF Outputs
<1>3. \A k \in 1 .. Len(sent[p]) : FlattenSeq(sent[p][k]) \in Outputs
  <2>1. \A k \in 1 .. Len(sent[p]) : sent[p][k] \in Row
    BY <1>1, ElementOfSeq
  <2>2. QED
    BY <2>1 DEF Outputs
<1>4. Zeroes(p) \in Seq(Outputs) /\ Len(Zeroes(p)) = warmup_sent[p]
  BY <1>1, <1>2 DEF Zeroes
<1>5. Frames(p) \in Seq(Outputs) /\ Len(Frames(p)) = Len(sent[p])
  BY <1>1, <1>3 DEF Frames
<1>6. QED
  BY <1>4, <1>5 DEF Due, Zeroes, Frames

\* The outputs of the combiner's step are the frames it added.
LEMMA CombinedIs ==
  ASSUME PlayTypes, SyncInv, SyncInv', RowsAdded, NEW q \in Players, UNCHANGED warmup_sent,
         frame_size' = frame_size \/ warmup_sent[q] = 0
  PROVE  /\ Combined[q] \in Seq(Outputs)
         /\ Due(q)' = Due(q) \o Combined[q]
<1> DEFINE a == Len(sent[q])
           b == Len(sent'[q])
           new == Combined[q]
<1>1. /\ a \in Nat /\ b \in Nat /\ a <= b /\ sent'[q] \in Seq(Row)
      /\ \A i \in 1 .. a : sent'[q][i] = sent[q][i]
  BY DEF RowsAdded
<1>2. new = [k \in 1 .. b - a |-> FlattenSeq(sent'[q][a + k])]
  BY DEF Combined
<1>3. \A k \in 1 .. b : FlattenSeq(sent'[q][k]) \in Outputs
  <2>1. \A k \in 1 .. b : sent'[q][k] \in Row
    BY <1>1, ElementOfSeq
  <2>2. QED
    BY <2>1 DEF Outputs
<1> HIDE DEF a, b, new
<1>4. b - a \in Nat /\ \A k \in 1 .. b - a : a + k \in 1 .. b
  BY <1>1
<1>5. new \in Seq(Outputs) /\ Len(new) = b - a
  BY <1>2, <1>3, <1>4
<1>6. /\ Frames(q) = [k \in 1 .. a |-> FlattenSeq(sent[q][k])]
      /\ Frames(q)' = [k \in 1 .. b |-> FlattenSeq(sent'[q][k])]
  BY DEF Frames, a, b
<1>7. Frames(q) \in Seq(Outputs) /\ Len(Frames(q)) = a
  BY DueIs DEF a
<1>8. Frames(q)' \in Seq(Outputs) /\ Len(Frames(q)') = b
  BY <1>1, <1>3, <1>6
<1>9. Frames(q)' = Frames(q) \o new
  <2> DEFINE f == Frames(q)
             g == Frames(q)'
             t == f \o new
  <2>1. /\ t \in Seq(Outputs) /\ Len(t) = a + (b - a)
        /\ \A k \in 1 .. a + (b - a) : t[k] = IF k <= a THEN f[k] ELSE new[k - a]
    <3> DEFINE m == b - a
    <3>1. f \in Seq(Outputs) /\ Len(f) = a /\ new \in Seq(Outputs) /\ Len(new) = m
      BY <1>5, <1>7
    <3> HIDE DEF f, m
    <3>2. /\ t \in Seq(Outputs) /\ Len(t) = a + m
          /\ \A k \in 1 .. a + m : t[k] = IF k <= a THEN f[k] ELSE new[k - a]
      BY <3>1, ConcatProperties
    <3>3. QED
      BY <3>2 DEF m
  <2>2. a + (b - a) = b
    BY <1>1
  <2>3. ASSUME NEW k \in 1 .. b PROVE g[k] = t[k]
    <3>1. CASE k <= a
      <4>1. k \in 1 .. a
        BY <1>1, <3>1
      <4>2. QED
        BY <1>1, <1>6, <2>1, <2>2, <3>1, <4>1
    <3>2. CASE ~ k <= a
      <4>1. k - a \in 1 .. b - a /\ a + (k - a) = k
        BY <1>1, <3>2
      <4>2. new[k - a] = FlattenSeq(sent'[q][k])
        BY <1>2, <4>1
      <4>3. QED
        BY <1>6, <2>1, <2>2, <3>2, <4>2
    <3>3. QED
      BY <3>1, <3>2
  <2> HIDE DEF f, g, t
  <2>4. g \in Seq(Outputs) /\ Len(g) = b
    BY <1>8 DEF g
  <2>5. g = t
    BY <2>1, <2>2, <2>3, <2>4, SeqEqual
  <2>6. QED
    BY <2>5 DEF f, g, t
<1>10. Zeroes(q)' = Zeroes(q)
  <2>1. CASE frame_size' = frame_size
    BY <2>1 DEF Zeroes
  <2>2. CASE warmup_sent[q] = 0
    <3>1. 1 .. warmup_sent[q] = {}
      BY <2>2
    <3>2. QED
      BY <3>1 DEF Zeroes
  <2>3. QED
    BY <2>1, <2>2
<1>11. Due(q)' = Zeroes(q)' \o Frames(q)'
  BY DEF Due, Zeroes, Frames
<1>12. Due(q) = Zeroes(q) \o Frames(q) /\ Zeroes(q) \in Seq(Outputs)
  BY DueIs
<1> DEFINE z == Zeroes(q)
           f == Frames(q)
<1>13. z \in Seq(Outputs) /\ f \in Seq(Outputs)
  BY <1>7, <1>12
<1>14. Due(q)' = z \o (f \o new) /\ Due(q) = z \o f
  BY <1>9, <1>10, <1>11, <1>12
<1> HIDE DEF z, f
<1>15. (z \o f) \o new = z \o (f \o new)
  BY <1>5, <1>13, ConcatAssociative
<1>16. QED
  BY <1>5, <1>14, <1>15 DEF new

\* A player who is still being warmed up has been given no frame.
LEMMA NoFrameWhileWarming ==
  ASSUME Settled, PlayTypes, SyncInv, NEW p \in Players, Uplink(p), Startup(p), Playing(p), Warming(p)
  PROVE  sent[p] = <<>> /\ Used(p) = 0 /\ warmup_sent[p] = Handled(p)
<1>1. /\ Handled(p) \in Nat /\ total_delays[p] \in Nat /\ warmup_sent[p] = Begun(p)
      /\ warmup_sent[p] < total_delays[p]
  BY Counts, Facts DEF Startup, Warming
<1>2. Handled(p) < total_delays[p] /\ Used(p) = 0 /\ Begun(p) = Handled(p)
  BY <1>1 DEF Used, Begun
<1>3. contributed[p] = Schedule(p) /\ Len(Schedule(p)) = 0
  <2>1. 1 .. Used(p) = {} /\ Used(p) = 0
    BY <1>2
  <2>2. Schedule(p) = [k \in 1 .. Used(p) |->
                         pressed[p][IF k <= total_delays[p] THEN k ELSE k + total_delays[p]]]
    BY Counts
  <2> DEFINE F(k) == pressed[p][IF k <= total_delays[p] THEN k ELSE k + total_delays[p]]
  <2>3. Schedule(p) = [k \in 1 .. 0 |-> F(k)]
    BY <2>1, <2>2
  <2> HIDE DEF F
  <2>4. Len(Schedule(p)) = 0
    BY <2>3
  <2>5. QED
    BY <2>4 DEF Startup
<1>4. Len(sent[p]) <= Len(contributed[p]) /\ Len(sent[p]) \in Nat
  BY SyncHandsOut DEF Playing
<1>5. sent[p] \in Seq(Row)
  BY SameRows
<1>6. QED
  BY <1>1, <1>2, <1>3, <1>4, <1>5, EmptySeq

-----------------------------------------------------------------------------
\* One input more is handled: the schedule goes on, or another input is held back.
LEMMA ScheduleGoesOn ==
  ASSUME Settled, PlayTypes, NEW p \in Players, Uplink(p), up[p] # <<>>,
         Handled(p)' = Handled(p) + 1, pressed' = pressed, total_delays' = total_delays
  PROVE  LET w == total_delays[p]
             next == Used(p) + 1
         IN /\ Schedule(p) \in Seq(Packets) /\ Len(Schedule(p)) = Used(p)
            /\ Handled(p) < w => /\ Used(p) = 0 /\ Used(p)' = 0 /\ Begun(p) = Handled(p)
                                 /\ Begun(p)' = Handled(p) + 1 /\ Schedule(p)' = Schedule(p)
            /\ ~ Handled(p) < w =>
                 /\ Used(p) = Handled(p) - w /\ Used(p)' = Used(p) + 1 /\ Begun(p) = w /\ Begun(p)' = w
                 /\ pressed[p][IF next <= w THEN next ELSE next + w] \in Packets
                 /\ Schedule(p)' = Append(Schedule(p), pressed[p][IF next <= w THEN next ELSE next + w])
<1> DEFINE w == total_delays[p]
           h == Handled(p)
           u == Used(p)
           at(k) == IF k <= w THEN k ELSE k + w
<1>1. /\ h \in Nat /\ w \in Nat /\ u \in Nat /\ pressed[p] \in Seq(Packets) /\ Len(pressed[p]) \in Nat
      /\ h + 1 \in 1 .. Len(pressed[p])
      /\ Schedule(p) = [k \in 1 .. u |-> pressed[p][at(k)]]
      /\ \A k \in 1 .. u : at(k) \in 1 .. h
  BY Counts, Facts, HeadMeans
<1>2. /\ u = (IF h > w THEN h - w ELSE 0) /\ Begun(p) = (IF h < w THEN h ELSE w)
      /\ Used(p)' = (IF h + 1 > w THEN (h + 1) - w ELSE 0)
      /\ Begun(p)' = (IF h + 1 < w THEN h + 1 ELSE w)
      /\ Schedule(p)' = [k \in 1 .. Used(p)' |-> pressed[p][at(k)]]
  BY DEF Used, Begun, Schedule
<1> HIDE DEF w, h, u
<1>3. /\ h < w => u = 0 /\ Used(p)' = 0 /\ Begun(p) = h /\ Begun(p)' = h + 1
      /\ ~ h < w => u = h - w /\ Used(p)' = u + 1 /\ Begun(p) = w /\ Begun(p)' = w
  BY <1>1, <1>2
<1>4. ~ h < w => at(u + 1) \in 1 .. h + 1
  BY <1>1, <1>3
<1>5. \A k \in 1 .. u : pressed[p][at(k)] \in Packets
  <2> DEFINE s == pressed[p]
  <2>1. s \in Seq(Packets) /\ \A k \in 1 .. u : at(k) \in 1 .. Len(s)
    BY <1>1
  <2> HIDE DEF s, at
  <2>2. \A k \in 1 .. u : s[at(k)] \in Packets
    BY <2>1, ElementOfSeq
  <2>3. QED
    BY <2>2 DEF s
<1>6. Schedule(p) \in Seq(Packets) /\ Len(Schedule(p)) = u
  BY <1>1, <1>5
<1>7. CASE h < w
  <2>1. Schedule(p)' = Schedule(p)
    BY <1>1, <1>2, <1>3, <1>7
  <2>2. QED
    BY <1>3, <1>6, <1>7, <2>1 DEF h, w, u
<1>8. CASE ~ h < w
  <2> DEFINE s == Schedule(p)
             t == Schedule(p)'
             x == pressed[p][at(u + 1)]
  <2>1. x \in Packets
    <3>1. at(u + 1) \in 1 .. Len(pressed[p])
      BY <1>1, <1>4, <1>8
    <3> HIDE DEF at
    <3>2. QED
      BY <1>1, <3>1, ElementOfSeq
  <2>2. t = [k \in 1 .. u + 1 |-> pressed[p][at(k)]]
    BY <1>2, <1>3, <1>8
  <2>3. /\ \A k \in 1 .. u : s[k] = pressed[p][at(k)] /\ s[k] \in Packets
        /\ s \in Seq(Packets) /\ Len(s) = u
    BY <1>1, <1>5, <1>6
  <2> HIDE DEF s, t, at
  <2>4. /\ DOMAIN t = 1 .. u + 1 /\ \A k \in 1 .. u + 1 : t[k] = pressed[p][at(k)]
    BY <2>2
  <2>5. \A k \in 1 .. u + 1 : t[k] \in Packets
    <3>1. ASSUME NEW k \in 1 .. u + 1 PROVE t[k] \in Packets
      <4>1. k \in 1 .. u \/ k = u + 1
        BY <1>1
      <4>2. QED
        BY <2>1, <2>3, <2>4, <4>1
    <3>2. QED
      BY <3>1
  <2>6. t \in Seq(Packets) /\ Len(t) = u + 1
    <3> DEFINE m == u + 1
    <3>0. m \in Nat
      BY <1>1
    <3>a. t = [k \in 1 .. m |-> t[k]]
      BY <2>2, <2>4
    <3>b. \A k \in 1 .. m : t[k] \in Packets
      BY <2>5
    <3>1. m \in Nat /\ t = [k \in 1 .. m |-> t[k]] /\ \A k \in 1 .. m : t[k] \in Packets
      BY <3>0, <3>a, <3>b
    <3> HIDE DEF m
    <3>2. t \in Seq(Packets) /\ Len(t) = m
      BY <3>1
    <3>3. QED
      BY <3>2 DEF m
  <2> HIDE DEF x
  <2>7. /\ Append(s, x) \in Seq(Packets) /\ Len(Append(s, x)) = u + 1 /\ Append(s, x)[u + 1] = x
        /\ \A k \in 1 .. u : Append(s, x)[k] = s[k]
    BY <2>1, <2>3, AppendProperties
  <2>8. ASSUME NEW k \in 1 .. u + 1 PROVE t[k] = Append(s, x)[k]
    <3>1. CASE k \in 1 .. u
      BY <2>3, <2>4, <2>7, <3>1
    <3>2. CASE k = u + 1
      BY <2>4, <2>7, <3>2 DEF x
    <3>3. k \in 1 .. u \/ k = u + 1
      BY <1>1
    <3>4. QED
      BY <3>1, <3>2, <3>3
  <2>9. t = Append(s, x)
    BY <2>6, <2>7, <2>8, SeqEqual
  <2>10. Schedule(p)' = Append(Schedule(p), pressed[p][at(u + 1)])
    BY <2>9 DEF s, t, x
  <2>11. pressed[p][at(u + 1)] \in Packets
    BY <2>1 DEF x
  <2>12. QED
    BY <1>3, <1>6, <1>8, <2>10, <2>11 DEF h, w, u, at
<1>9. QED
  BY <1>7, <1>8

\* What a dropped player has contributed stays a start of his schedule.
LEMMA StillStarts ==
  ASSUME NEW s, NEW t \in Seq(Packets), NEW x \in Packets, Len(s) \in Nat, Starts(s, t)
  PROVE  Starts(s, Append(t, x))
<1>1. /\ Len(t) \in Nat /\ Len(Append(t, x)) = Len(t) + 1
      /\ \A k \in 1 .. Len(t) : Append(t, x)[k] = t[k]
  BY AppendProperties
<1>2. QED
  BY <1>1 DEF Starts

\* The three ways of Handle.
LEMMA HandleIs ==
  ASSUME Settled, PlayTypes, NEW p \in Players, Uplink(p), Handle(p)
  PROVE  LET x == pressed[p][Handled(p) + 1]
             m == Head(up[p])
         IN /\ up[p] # <<>> /\ x \in Packets /\ Len(x) \in Nat \ {0}
            /\ input_caches' = Mirror(p, m)
            /\ frame_size' = IF frame_size = 0 THEN Len(x) ELSE frame_size
            /\ WarmUp(p, x) \/ CatchUp(p, x) \/ Steady(p, x)
            /\ total_delays' = total_delays
            /\ up' = [up EXCEPT ![p] = Tail(@)]
            /\ UNCHANGED <<window, pressed, input_cache, output_cache, decoded>>
<1> DEFINE x == pressed[p][Handled(p) + 1]
           m == Head(up[p])
<1>1. up[p] # <<>> /\ process_client_input(p, m) /\ up' = [up EXCEPT ![p] = Tail(@)]
      /\ UNCHANGED <<window, pressed, input_cache, output_cache, decoded>>
  BY DEF Handle
<1>2. x \in Packets /\ Resolve(p, m) = <<x>>
  BY <1>1, HeadMeans
<1>3. x # <<>> /\ x \in Seq(Byte)
  BY <1>2, EngineAssumption
<1> HIDE DEF x, m
<1>4. Len(x) \in Nat \ {0}
  BY <1>3, EmptySeq
<1>5. <<x>> # <<>> /\ <<x>>[1] = x
  OBVIOUS
<1>6. /\ input_caches' = Mirror(p, m)
      /\ frame_size' = IF frame_size = 0 THEN Len(x) ELSE frame_size
      /\ WarmUp(p, x) \/ CatchUp(p, x) \/ Steady(p, x)
      /\ total_delays' = total_delays
  BY <1>1, <1>2, <1>5 DEF process_client_input
<1>7. QED
  BY <1>1, <1>2, <1>4, <1>6 DEF x, m

-----------------------------------------------------------------------------
\* An input that is handled leaves its sender's channel, and no other's.
LEMMA HandleUpward ==
  ASSUME Settled, PlayTypes, Upward, NEW p \in Players, Handle(p)
  PROVE  /\ Upward' /\ Handled(p)' = Handled(p) + 1
         /\ \A q \in Players : q # p => Handled(q)' = Handled(q)
         /\ up' \in [Players -> Seq(Message(Packets))] /\ input_caches' \in [Players -> Window(Packets)]
<1> DEFINE h == Handled(p)
           n == Len(pressed[p])
           m == Head(up[p])
<1>1. Uplink(p)
  BY DEF Upward
<1>2. /\ up[p] # <<>> /\ input_caches' = Mirror(p, m) /\ up' = [up EXCEPT ![p] = Tail(@)]
      /\ pressed' = pressed /\ input_cache' = input_cache
  BY <1>1, HandleIs
<1>3. /\ Mirror(p, m) \in [Players -> Window(Packets)]
      /\ \A q \in Players : q # p => Mirror(p, m)[q] = input_caches[q]
      /\ Channel(Packets, Mirror(p, m)[p], Tail(up[p]), SubSeq(pressed[p], h + 2, n), input_cache[p])
  BY <1>1, <1>2, HeadMeans
<1>4. /\ up \in [Players -> Seq(Message(Packets))] /\ h \in Nat /\ n \in Nat /\ Len(up[p]) \in Nat
      /\ n = h + Len(up[p])
  BY <1>1, Counts, Facts DEF PlayTypes
<1>5. Tail(up[p]) \in Seq(Message(Packets)) /\ Len(Tail(up[p])) = Len(up[p]) - 1
  <2>1. up[p] \in Seq(Message(Packets))
    BY <1>4
  <2>2. QED
    BY <1>2, <2>1, HeadTailProperties
<1>6. up' \in [Players -> Seq(Message(Packets))] /\ up'[p] = Tail(up[p])
      /\ \A q \in Players : q # p => up'[q] = up[q]
  BY <1>2, <1>4, <1>5
<1>7. Handled(p)' = h + 1 /\ Len(up'[p]) = Len(up[p]) - 1
  <2>1. Handled(p)' = Len(pressed'[p]) - Len(up'[p])
    BY DEF Handled
  <2>2. Len(pressed'[p]) = n /\ Len(up'[p]) = Len(up[p]) - 1
    BY <1>2, <1>5, <1>6
  <2> HIDE DEF h, n
  <2>3. QED
    BY <1>4, <2>1, <2>2
<1>8. \A q \in Players : q # p => Handled(q)' = Handled(q)
  BY <1>2, <1>6 DEF Handled
<1>9. Uplink(p)'
  <2>1. Len(up'[p]) <= Len(pressed'[p])
    BY <1>2, <1>4, <1>7
  <2>2. Handled(p)' + 1 = h + 2
    BY <1>4, <1>7
  <2> HIDE DEF h, m
  <2>3. Channel(Packets, input_caches'[p], up'[p],
                SubSeq(pressed'[p], Handled(p)' + 1, Len(pressed'[p])), input_cache'[p])
    BY <1>2, <1>3, <1>6, <2>2
  <2>4. QED
    BY <2>1, <2>3 DEF Uplink
<1>10. ASSUME NEW q \in Players, q # p PROVE Uplink(q)'
  <2>1. input_caches'[q] = input_caches[q] /\ up'[q] = up[q] /\ Uplink(q)
    BY <1>2, <1>3, <1>6, <1>10 DEF Upward
  <2>2. QED
    BY <1>2, <2>1, SameUplink
<1>11. QED
  BY <1>2, <1>3, <1>6, <1>7, <1>8, <1>9, <1>10 DEF Upward

\* The startup of a player whose input it was not.
LEMMA OthersStartup ==
  ASSUME Settled, PlayTypes, Upward, Started, NEW p \in Players, Handle(p), NEW q \in Players, q # p,
         warmup_sent'[q] = warmup_sent[q], queues'[q] = queues[q],
         contributed'[q] = contributed[q], dropped_players' = dropped_players
  PROVE  Startup(q)'
<1>1. Uplink(p) /\ Uplink(q) /\ Startup(q)
  BY DEF Upward, Started
<1>2. /\ pressed' = pressed /\ total_delays' = total_delays
      /\ frame_size' = frame_size \/ frame_size' # 0
  <2>1. /\ pressed' = pressed /\ total_delays' = total_delays
        /\ Len(pressed[p][Handled(p) + 1]) \in Nat \ {0}
        /\ frame_size' = IF frame_size = 0 THEN Len(pressed[p][Handled(p) + 1]) ELSE frame_size
    BY <1>1, HandleIs
  <2>2. QED
    BY <2>1
<1>3. Handled(q)' = Handled(q)
  BY HandleUpward
<1>4. Schedule(q)' = Schedule(q)
  BY <1>1, <1>2, <1>3, SameSchedule
<1>5. Playing(q)' <=> Playing(q)
  BY DEF Playing
<1>6. QED
  BY <1>1, <1>2, <1>3, <1>4, <1>5, SameStartup

\* What the three ways of Handle do to the sender.
GoesOn(p, x) ==
  \/ /\ Warming(p) /\ queues'[p] = Append(queues[p], x)
     /\ warmup_sent'[p] = warmup_sent[p] + 1 /\ contributed'[p] = contributed[p]
  \/ /\ ~ Warming(p) /\ queues[p] # <<>> /\ queues'[p] = Tail(queues[p])
     /\ warmup_sent'[p] = warmup_sent[p]
     /\ contributed'[p] = IF Playing(p) THEN Append(contributed[p], Head(queues[p])) ELSE contributed[p]
  \/ /\ ~ Warming(p) /\ queues[p] = <<>> /\ queues'[p] = <<>>
     /\ warmup_sent'[p] = warmup_sent[p]
     /\ contributed'[p] = IF Playing(p) THEN Append(contributed[p], x) ELSE contributed[p]

\* The startup of the sender.
LEMMA OwnStartup ==
  ASSUME Settled, PlayTypes, SyncInv, Upward, Started, NEW p \in Players, Handle(p),
         dropped_players' = dropped_players,
         NEW x, x = pressed[p][Handled(p) + 1],
         GoesOn(p, x)
  PROVE  Startup(p)'
<1> DEFINE w == total_delays[p]
           h == Handled(p)
           u == Used(p)
           s == pressed[p]
           ws == warmup_sent[p]
           qs == queues[p]
           at(k) == IF k <= w THEN k ELSE k + w
<1>1. Uplink(p) /\ Startup(p)
  BY DEF Upward, Started
<1>2. /\ up[p] # <<>> /\ pressed' = pressed /\ total_delays' = total_delays /\ x \in Packets
      /\ Handled(p)' = h + 1 /\ (Playing(p)' <=> Playing(p))
  BY <1>1, HandleIs, HandleUpward DEF Playing
<1>3. frame_size' # 0
  <2>1. /\ Len(x) \in Nat \ {0}
        /\ frame_size' = IF frame_size = 0 THEN Len(x) ELSE frame_size
    BY <1>1, HandleIs
  <2>2. QED
    BY <2>1
<1>4. /\ w \in Nat /\ h \in Nat /\ u \in Nat /\ s \in Seq(Packets) /\ ws \in Nat /\ qs \in Seq(Packets)
      /\ Len(qs) \in Nat /\ Len(s) \in Nat /\ h + 1 <= Len(s) /\ ws <= w /\ Len(qs) <= ws
  <2>1. h + 1 \in 1 .. Len(s)
    BY <1>1, <1>2, HeadMeans
  <2>2. h \in Nat /\ u \in Nat
    BY <1>1, Counts
  <2>3. ws <= w /\ Len(qs) <= ws
    BY <1>1 DEF Startup
  <2>4. QED
    BY <2>1, <2>2, <2>3, Facts
<1>5. /\ Schedule(p) \in Seq(Packets) /\ Len(Schedule(p)) = u
      /\ h < w => /\ u = 0 /\ Used(p)' = 0 /\ Begun(p) = h
                  /\ Begun(p)' = h + 1 /\ Schedule(p)' = Schedule(p)
      /\ ~ h < w => /\ u = h - w /\ Used(p)' = u + 1 /\ Begun(p) = w /\ Begun(p)' = w
                    /\ s[at(u + 1)] \in Packets
                    /\ Schedule(p)' = Append(Schedule(p), s[at(u + 1)])
  BY <1>1, <1>2, ScheduleGoesOn
<1>6. Playing(p) => /\ ws = Begun(p) /\ qs = SubSeq(s, u + 1, Begun(p)) /\ contributed[p] = Schedule(p)
  BY <1>1 DEF Startup
<1>7. ~ Playing(p) => contributed'[p] = contributed[p] /\ Starts(contributed[p], Schedule(p))
  BY <1>1 DEF Startup, GoesOn
<1>0. \/ /\ Warming(p) /\ queues'[p] = Append(qs, x)
         /\ warmup_sent'[p] = ws + 1 /\ contributed'[p] = contributed[p]
      \/ /\ ~ Warming(p) /\ qs # <<>> /\ queues'[p] = Tail(qs)
         /\ warmup_sent'[p] = ws
         /\ contributed'[p] = IF Playing(p) THEN Append(contributed[p], Head(qs)) ELSE contributed[p]
      \/ /\ ~ Warming(p) /\ qs = <<>> /\ queues'[p] = <<>>
         /\ warmup_sent'[p] = ws
         /\ contributed'[p] = IF Playing(p) THEN Append(contributed[p], x) ELSE contributed[p]
  BY DEF GoesOn
<1>8. Warming(p) <=> ws < w
  BY DEF Warming
<1> HIDE DEF w, h, u, s, ws, qs
<1>9. warmup_sent'[p] <= w /\ Len(queues'[p]) <= warmup_sent'[p]
  <2>1. CASE Warming(p) /\ queues'[p] = Append(qs, x) /\ warmup_sent'[p] = ws + 1
    <3>1. Len(Append(qs, x)) = Len(qs) + 1
      BY <1>2, <1>4, AppendProperties
    <3>2. QED
      BY <1>4, <1>8, <2>1, <3>1
  <2>2. CASE qs # <<>> /\ queues'[p] = Tail(qs) /\ warmup_sent'[p] = ws
    <3>1. Len(Tail(qs)) = Len(qs) - 1
      BY <1>4, <2>2, HeadTailProperties
    <3>2. QED
      BY <1>4, <2>2, <3>1
  <2>3. CASE queues'[p] = <<>> /\ warmup_sent'[p] = ws
    <3>1. Len(<<>>) = 0
      OBVIOUS
    <3>2. QED
      BY <1>4, <2>3, <3>1
  <2>4. QED
    BY <1>0, <2>1, <2>2, <2>3
<1>10. CASE ~ Playing(p)
  <2>1. Starts(contributed'[p], Schedule(p)')
    <3>1. contributed'[p] = contributed[p] /\ Starts(contributed[p], Schedule(p))
      BY <1>7, <1>10
    <3>2. CASE h < w
      BY <1>5, <3>1, <3>2
    <3>3. CASE ~ h < w
      <4>1. contributed[p] \in Seq(Seq(Byte))
        BY SameRows
      <4>2. Len(contributed[p]) \in Nat
        BY <4>1
      <4> DEFINE c == contributed[p]
                 t == Schedule(p)
                 y == s[at(u + 1)]
      <4>3. t \in Seq(Packets) /\ y \in Packets /\ Len(c) \in Nat /\ Starts(c, t)
        BY <1>5, <3>1, <3>3, <4>2
      <4> HIDE DEF c, t, y
      <4>4. Starts(c, Append(t, y))
        BY <4>3, StillStarts
      <4>5. QED
        BY <1>5, <3>1, <3>3, <4>4 DEF c, t, y
    <3>4. QED
      BY <3>2, <3>3
  <2>2. (warmup_sent[p] <= total_delays[p] /\ Len(queues[p]) <= warmup_sent[p])'
    BY <1>2, <1>9 DEF w
  <2>3. ~ Playing(p)'
    BY <1>2, <1>10
  <2>4. QED
    BY <1>3, <2>1, <2>2, <2>3 DEF Startup
<1>11. ASSUME Playing(p)
       PROVE  /\ warmup_sent'[p] = Begun(p)'
              /\ queues'[p] = SubSeq(s, Used(p)' + 1, Begun(p)')
              /\ contributed'[p] = Schedule(p)'
  <2>1. ws = Begun(p) /\ qs = SubSeq(s, u + 1, Begun(p)) /\ contributed[p] = Schedule(p)
    BY <1>6, <1>11
  <2>2. CASE /\ Warming(p) /\ queues'[p] = Append(qs, x)
             /\ warmup_sent'[p] = ws + 1 /\ contributed'[p] = contributed[p]
    <3>1. h < w
      BY <1>4, <1>5, <1>8, <2>1, <2>2
    <3>2. ws = h /\ u = 0 /\ Used(p)' = 0 /\ Begun(p)' = h + 1 /\ Schedule(p)' = Schedule(p)
      BY <1>5, <2>1, <3>1
    <3>3. queues'[p] = SubSeq(s, 1, h + 1)
      <4>1. qs = SubSeq(s, 0 + 1, h) /\ x = s[h + 1]
        <5>1. x = s[h + 1]
          BY DEF s, h
        <5>2. Begun(p) = h /\ u + 1 = 0 + 1
          BY <2>1, <3>2
        <5>3. QED
          BY <2>1, <5>1, <5>2
      <4>2. 0 <= h /\ h + 1 <= Len(s) /\ 0 \in Nat
        BY <1>4
      <4>3. Append(SubSeq(s, 0 + 1, h), s[h + 1]) = SubSeq(s, 0 + 1, h + 1)
        BY <1>4, <4>2, StretchOn
      <4>4. 0 + 1 = 1
        OBVIOUS
      <4>5. QED
        BY <2>2, <4>1, <4>3, <4>4
    <3>4. Used(p)' + 1 = 1
      BY <3>2
    <3>5. warmup_sent'[p] = Begun(p)'
      BY <2>2, <3>2
    <3>6. queues'[p] = SubSeq(s, Used(p)' + 1, Begun(p)')
      BY <3>2, <3>3, <3>4
    <3>7. QED
      BY <2>1, <2>2, <3>2, <3>5, <3>6
  <2>3. CASE ~ Warming(p) /\ warmup_sent'[p] = ws
    <3>1. ~ h < w /\ ws = w
      BY <1>4, <1>5, <1>8, <2>1, <2>3
    <3>2. /\ u = h - w /\ Used(p)' = u + 1 /\ Begun(p) = w /\ Begun(p)' = w
          /\ Schedule(p)' = Append(Schedule(p), s[at(u + 1)])
      BY <1>5, <3>1
    <3>3. qs = SubSeq(s, u + 1, w) /\ w <= Len(s)
      BY <1>4, <2>1, <3>1, <3>2
    <3>4. CASE /\ qs # <<>> /\ queues'[p] = Tail(qs)
               /\ contributed'[p] = Append(contributed[p], Head(qs))
      <4>1. u < w
        <5>1. SUFFICES ASSUME w <= u PROVE FALSE
          BY <1>4
        <5>2. SubSeq(s, u + 1, w) = <<>>
          BY <1>4, <3>3, <5>1, StretchEmpty
        <5>3. QED
          BY <3>3, <3>4, <5>2
      <4>2. Head(qs) = s[u + 1] /\ Tail(qs) = SubSeq(s, u + 2, w)
        BY <1>4, <3>3, <4>1, StretchFirst
      <4>3. at(u + 1) = u + 1
        BY <1>4, <4>1
      <4>4. Used(p)' + 1 = u + 2
        BY <1>4, <3>2
      <4> HIDE DEF at
      <4>5. queues'[p] = SubSeq(s, Used(p)' + 1, Begun(p)')
        BY <3>2, <3>4, <4>2, <4>4
      <4>6. contributed'[p] = Schedule(p)'
        BY <2>1, <3>2, <3>4, <4>2, <4>3
      <4>7. QED
        BY <2>3, <3>1, <3>2, <4>5, <4>6
    <3>5. CASE /\ qs = <<>> /\ queues'[p] = <<>>
               /\ contributed'[p] = Append(contributed[p], x)
      <4>1. w <= u
        <5>1. SUFFICES ASSUME u < w PROVE FALSE
          BY <1>4
        <5>2. Len(SubSeq(s, u + 1, w)) = w - u
          BY <1>4, <3>3, <5>1, Stretch
        <5>3. Len(qs) > 0
          BY <1>4, <3>3, <5>1, <5>2
        <5>4. QED
          BY <3>5, <5>3
      <4>2. at(u + 1) = h + 1
        BY <1>4, <3>2, <4>1
      <4>3. SubSeq(s, (u + 1) + 1, w) = <<>>
        <5>1. u + 1 \in Nat /\ w <= u + 1
          BY <1>4, <4>1
        <5>2. QED
          BY <1>4, <3>3, <5>1, StretchEmpty
      <4>4. (u + 1) + 1 = u + 2 /\ x = s[h + 1]
        BY <1>4 DEF s, h
      <4> HIDE DEF at
      <4>5. QED
        BY <2>1, <2>3, <3>1, <3>2, <3>5, <4>2, <4>3, <4>4
    <3>6. (u + 1) + 1 = u + 2
      BY <1>4
    <3>7. QED
      BY <1>0, <1>11, <2>3, <3>4, <3>5
  <2>4. QED
    BY <1>0, <1>11, <2>2, <2>3
<1>12. CASE Playing(p)
  <2>1. (Playing(p) => /\ warmup_sent[p] = Begun(p)
                      /\ queues[p] = SubSeq(pressed[p], Used(p) + 1, Begun(p))
                      /\ contributed[p] = Schedule(p))'
    BY <1>2, <1>11, <1>12 DEF s
  <2>2. (warmup_sent[p] <= total_delays[p] /\ Len(queues[p]) <= warmup_sent[p])'
    BY <1>2, <1>9 DEF w
  <2>3. Playing(p)'
    BY <1>2, <1>12
  <2>4. QED
    BY <1>3, <2>1, <2>2, <2>3 DEF Startup
<1>13. QED
  BY <1>10, <1>12

-----------------------------------------------------------------------------
\* What is left to show of a step of Handle is what its three ways do apart.
LEMMA HandleRest ==
  ASSUME PlayInv, NEW p \in Players, Handle(p), SyncInv', dropped_players' = dropped_players,
         GoesOn(p, pressed[p][Handled(p) + 1]),
         queues' \in [Players -> Seq(Packets)], warmup_sent' \in [Players -> Nat],
         \A q \in Players : q # p => /\ queues'[q] = queues[q] /\ warmup_sent'[q] = warmup_sent[q]
                                     /\ contributed'[q] = contributed[q],
         NEW outputs, Respond(outputs),
         \A q \in Players : outputs[q] \in Seq(Outputs) /\ (Playing(q) => Due(q)' = Due(q) \o outputs[q])
  PROVE  PlayInv'
<1>1. Settled /\ PlayTypes /\ SyncInv /\ Upward /\ Downward /\ Started
  BY DEF PlayInv
<1>2. Uplink(p)
  BY <1>1 DEF Upward
<1> DEFINE x == pressed[p][Handled(p) + 1]
<1>3. /\ total_delays' = total_delays /\ Len(x) \in Nat
      /\ frame_size' = (IF frame_size = 0 THEN Len(x) ELSE frame_size)
      /\ UNCHANGED <<window, pressed, input_cache, output_cache, decoded>>
  BY <1>1, <1>2, HandleIs
<1>4. \A q \in Players : /\ outputs[q] \in Seq(Outputs)
                         /\ Playing(q)' => Playing(q) /\ Due(q)' = Due(q) \o outputs[q]
  BY DEF Playing
<1>5. UNCHANGED <<output_cache, decoded>>
  BY <1>3
<1>6. /\ Downward' /\ disable_output_cache' = disable_output_cache
      /\ output_caches' \in [Players -> Window(Outputs)]
      /\ responses' \in [Players -> Seq(Message(Outputs))]
  BY <1>1, <1>4, <1>5, RespondKeeps
<1>7. Settled'
  BY <1>1, <1>3, <1>6, KeepsSettled
<1>8. /\ Upward' /\ up' \in [Players -> Seq(Message(Packets))]
      /\ input_caches' \in [Players -> Window(Packets)]
  BY <1>1, HandleUpward
<1>9. Started'
  <2>1. Startup(p)'
    BY <1>1, OwnStartup
  <2>2. ASSUME NEW q \in Players, q # p PROVE Startup(q)'
    BY <1>1, <2>2, OthersStartup
  <2>3. QED
    BY <2>1, <2>2 DEF Started
<1>10. PlayTypes'
  <2>1. frame_size' \in Nat
    BY <1>1, <1>3 DEF PlayTypes
  <2>2. QED
    BY <1>1, <1>3, <1>6, <1>8, <2>1 DEF PlayTypes
<1>11. QED
  BY <1>6, <1>7, <1>8, <1>9, <1>10 DEF PlayInv

LEMMA WarmUpKeeps ==
  ASSUME PlayInv, NEW p \in Players, Handle(p), WarmUp(p, pressed[p][Handled(p) + 1])
  PROVE  PlayInv'
<1> DEFINE x == pressed[p][Handled(p) + 1]
           outputs == [q \in Players |-> IF q = p THEN <<ZeroFrame(frame_size')>> ELSE <<>>]
<1>1. Settled /\ PlayTypes /\ SyncInv /\ Upward /\ Downward /\ Started
  BY DEF PlayInv
<1>2. Uplink(p) /\ Startup(p) /\ warmup_sent[p] \in Nat /\ frame_size \in Nat
  BY <1>1 DEF Upward, Started, PlayTypes
<1>3. /\ Warming(p) /\ queues' = [queues EXCEPT ![p] = Append(@, x)]
      /\ warmup_sent' = [warmup_sent EXCEPT ![p] = @ + 1]
      /\ Respond(outputs) /\ UNCHANGED combiner
  BY DEF WarmUp
<1>4. /\ x \in Packets /\ Len(x) \in Nat
      /\ frame_size' = (IF frame_size = 0 THEN Len(x) ELSE frame_size)
  BY <1>1, <1>2, HandleIs
<1>5. /\ queues' \in [Players -> Seq(Packets)] /\ queues'[p] = Append(queues[p], x)
      /\ \A q \in Players : q # p => queues'[q] = queues[q]
  BY <1>1, <1>3, <1>4 DEF PlayTypes
<1>6. /\ warmup_sent' \in [Players -> Nat] /\ warmup_sent'[p] = warmup_sent[p] + 1
      /\ \A q \in Players : q # p => warmup_sent'[q] = warmup_sent[q]
  BY <1>1, <1>3 DEF PlayTypes
<1>7. SyncInv' /\ dropped_players' = dropped_players /\ contributed' = contributed /\ sent' = sent
  BY <1>1, <1>3, SyncRests DEF combiner
<1>8. GoesOn(p, x)
  BY <1>3, <1>5, <1>6, <1>7 DEF GoesOn
<1>9. ZeroFrame(frame_size') \in Outputs
  <2>1. frame_size' \in Nat
    BY <1>2, <1>4
  <2>2. QED
    BY <2>1 DEF Outputs
<1>10. ASSUME NEW q \in Players
       PROVE  outputs[q] \in Seq(Outputs) /\ (Playing(q) => Due(q)' = Due(q) \o outputs[q])
  <2>1. CASE q = p
    <3>1. outputs[p] = <<ZeroFrame(frame_size')>> /\ outputs[p] \in Seq(Outputs)
      BY <1>9
    <3>2. ASSUME Playing(p) PROVE Due(p)' = Due(p) \o outputs[p]
      <4> DEFINE z == ZeroFrame(frame_size')
                 n == warmup_sent[p]
      <4>1. sent[p] = <<>>
        BY <1>1, <1>2, <1>3, <3>2, NoFrameWhileWarming
      <4>2. Frames(p) = <<>> /\ Frames(p)' = <<>>
        BY <1>7, <4>1 DEF Frames
      <4>3. Due(p) = Zeroes(p) \o Frames(p) /\ Zeroes(p) \in Seq(Outputs)
        BY <1>1, DueIs
      <4>4. Due(p)' = Zeroes(p)' \o Frames(p)'
        BY DEF Due, Zeroes, Frames
      <4>5. Zeroes(p)' = [k \in 1 .. n + 1 |-> z]
        BY <1>6 DEF Zeroes
      <4>6. Zeroes(p) = [k \in 1 .. n |-> z]
        <5>1. CASE frame_size = 0
          <6>1. 1 .. n = {}
            BY <1>2, <5>1 DEF Startup
          <6>2. QED
            BY <6>1 DEF Zeroes
        <5>2. CASE frame_size # 0
          BY <1>4, <5>2 DEF Zeroes
        <5>3. QED
          BY <5>1, <5>2
      <4> HIDE DEF z, n, outputs
      <4>7. n \in Nat /\ z \in Outputs
        BY <1>2, <1>9 DEF n, z
      <4>8. [k \in 1 .. n + 1 |-> z] = [k \in 1 .. n |-> z] \o <<z>>
        BY <4>7
      <4>9. [k \in 1 .. n + 1 |-> z] \in Seq(Outputs)
        BY <4>7
      <4>10. Due(p)' = [k \in 1 .. n + 1 |-> z] /\ Due(p) = [k \in 1 .. n |-> z]
        BY <4>2, <4>3, <4>4, <4>5, <4>6, <4>9, ConcatEmptySeq
      <4>11. QED
        BY <3>1, <4>8, <4>10 DEF z
    <3>3. QED
      BY <2>1, <3>1, <3>2
  <2>2. CASE q # p
    <3>1. outputs[q] = <<>> /\ <<>> \in Seq(Outputs)
      BY <2>2
    <3>2. Frames(q)' = Frames(q)
      BY <1>7 DEF Frames
    <3>3. Zeroes(q)' = Zeroes(q)
      <4>1. CASE frame_size = 0
        <5>1. warmup_sent[q] = 0 /\ warmup_sent'[q] = 0
          BY <1>1, <1>6, <2>2, <4>1 DEF Started, Startup
        <5>2. 1 .. warmup_sent[q] = {} /\ 1 .. warmup_sent'[q] = {}
          BY <5>1
        <5>3. QED
          BY <5>2 DEF Zeroes
      <4>2. CASE frame_size # 0
        BY <1>4, <1>6, <2>2, <4>2 DEF Zeroes
      <4>3. QED
        BY <4>1, <4>2
    <3>4. Due(q) = Zeroes(q) \o Frames(q) /\ Zeroes(q) \in Seq(Outputs) /\ Frames(q) \in Seq(Outputs)
      BY <1>1, DueIs
    <3>5. Due(q)' = Zeroes(q)' \o Frames(q)'
      BY DEF Due, Zeroes, Frames
    <3>6. Due(q) \in Seq(Outputs) /\ Due(q)' = Due(q)
      BY <3>2, <3>3, <3>4, <3>5, ConcatProperties
    <3>7. Due(q) \o <<>> = Due(q)
      BY <3>6, ConcatEmptySeq
    <3> HIDE DEF outputs
    <3>8. QED
      BY <3>1, <3>6, <3>7
  <2>3. QED
    BY <2>1, <2>2
<1> HIDE DEF outputs, x
<1>11. QED
  BY <1>3, <1>5, <1>6, <1>7, <1>8, <1>10, HandleRest DEF x

\* CatchUp and Steady: the combiner gets an input.
LEMMA CombineKeeps ==
  ASSUME PlayInv, NEW p \in Players, Handle(p), NEW input \in Packets,
         Sync!process_client_input(p, input), Respond(Combined), UNCHANGED warmup_sent,
         queues' \in [Players -> Seq(Packets)], \A q \in Players : q # p => queues'[q] = queues[q],
         contributed' = (IF dropped_players[p] THEN contributed
                         ELSE [contributed EXCEPT ![p] = Append(@, input)])
           => GoesOn(p, pressed[p][Handled(p) + 1])
  PROVE  PlayInv'
<1>1. Settled /\ PlayTypes /\ SyncInv /\ Upward /\ Downward /\ Started
  BY DEF PlayInv
<1>2. /\ SyncInv' /\ RowsAdded /\ dropped_players' = dropped_players
      /\ contributed' = IF dropped_players[p] THEN contributed
                        ELSE [contributed EXCEPT ![p] = Append(@, input)]
  BY <1>1, SyncInput
<1>3. GoesOn(p, pressed[p][Handled(p) + 1])
  BY <1>2
<1>4. warmup_sent' \in [Players -> Nat] /\ \A q \in Players : warmup_sent'[q] = warmup_sent[q]
  BY <1>1 DEF PlayTypes
<1>5. \A q \in Players : q # p => contributed'[q] = contributed[q]
  <2>1. contributed \in [Players -> Seq(Seq(Byte))]
    BY <1>1, SameRows
  <2>2. QED
    BY <1>2, <2>1
<1>6. frame_size' = frame_size \/ frame_size = 0
  <2>1. Uplink(p)
    BY <1>1 DEF Upward
  <2>2. frame_size' = (IF frame_size = 0 THEN Len(pressed[p][Handled(p) + 1]) ELSE frame_size)
    BY <1>1, <2>1, HandleIs
  <2>3. QED
    BY <2>2
<1>7. ASSUME NEW q \in Players
      PROVE  Combined[q] \in Seq(Outputs) /\ (Playing(q) => Due(q)' = Due(q) \o Combined[q])
  <2>1. frame_size' = frame_size \/ warmup_sent[q] = 0
    BY <1>1, <1>6 DEF Started, Startup
  <2>2. QED
    BY <1>1, <1>2, <2>1, CombinedIs
<1>8. \A q \in Players : q # p => /\ queues'[q] = queues[q] /\ warmup_sent'[q] = warmup_sent[q]
                                  /\ contributed'[q] = contributed[q]
  BY <1>4, <1>5
<1>9. QED
  BY <1>2, <1>3, <1>4, <1>7, <1>8, HandleRest

LEMMA HandleKeeps ==
  ASSUME PlayInv, NEW p \in Players, Handle(p)
  PROVE  PlayInv'
<1> DEFINE x == pressed[p][Handled(p) + 1]
<1>1. Settled /\ PlayTypes /\ SyncInv /\ Upward /\ Uplink(p)
  BY DEF PlayInv, Upward
<1>2. x \in Packets /\ (WarmUp(p, x) \/ CatchUp(p, x) \/ Steady(p, x))
  BY <1>1, HandleIs
<1>3. /\ queues \in [Players -> Seq(Packets)] /\ contributed \in [Players -> Seq(Seq(Byte))]
      /\ dropped_players \in [Players -> BOOLEAN]
  BY <1>1, SameRows DEF PlayTypes
<1>4. CASE CatchUp(p, x)
  <2> DEFINE input == Head(queues[p])
  <2>1. /\ ~ Warming(p) /\ queues[p] # <<>> /\ Sync!process_client_input(p, input)
        /\ queues' = [queues EXCEPT ![p] = Tail(@)] /\ Respond(Combined) /\ UNCHANGED warmup_sent
    BY <1>4 DEF CatchUp
  <2>2. input \in Packets /\ Tail(queues[p]) \in Seq(Packets)
    <3>1. queues[p] \in Seq(Packets)
      BY <1>3
    <3>2. QED
      BY <2>1, <3>1, HeadTailProperties
  <2>3. /\ queues' \in [Players -> Seq(Packets)] /\ queues'[p] = Tail(queues[p])
        /\ \A q \in Players : q # p => queues'[q] = queues[q]
    BY <1>3, <2>1, <2>2
  <2> HIDE DEF x
  <2>4. ASSUME contributed' = IF dropped_players[p] THEN contributed
                              ELSE [contributed EXCEPT ![p] = Append(@, input)]
        PROVE  GoesOn(p, x)
    <3>1. contributed'[p] = IF Playing(p) THEN Append(contributed[p], input) ELSE contributed[p]
      BY <1>3, <2>4 DEF Playing
    <3>2. QED
      BY <2>1, <2>3, <3>1 DEF GoesOn
  <2> HIDE DEF input
  <2>5. QED
    BY <2>1, <2>2, <2>3, <2>4, CombineKeeps DEF x
<1>5. CASE Steady(p, x)
  <2>1. /\ ~ Warming(p) /\ queues[p] = <<>> /\ Sync!process_client_input(p, x)
        /\ queues' = queues /\ Respond(Combined) /\ UNCHANGED warmup_sent
    BY <1>5 DEF Steady
  <2> HIDE DEF x
  <2>2. ASSUME contributed' = IF dropped_players[p] THEN contributed
                              ELSE [contributed EXCEPT ![p] = Append(@, x)]
        PROVE  GoesOn(p, x)
    <3>1. contributed'[p] = IF Playing(p) THEN Append(contributed[p], x) ELSE contributed[p]
      BY <1>3, <2>2 DEF Playing
    <3>2. QED
      BY <2>1, <3>1 DEF GoesOn
  <2>3. queues' \in [Players -> Seq(Packets)] /\ \A q \in Players : q # p => queues'[q] = queues[q]
    BY <1>3, <2>1
  <2>4. QED
    BY <1>2, <2>1, <2>2, <2>3, CombineKeeps DEF x
<1>6. QED
  BY <1>2, <1>4, <1>5, WarmUpKeeps

-----------------------------------------------------------------------------
\* A dropped player loses what he held back; what the others are due goes on.
LEMMA DropKeepsPlay ==
  ASSUME PlayInv, NEW p \in Players, DropGame(p)
  PROVE  PlayInv'
<1>1. Settled /\ PlayTypes /\ SyncInv /\ Upward /\ Downward /\ Started
  BY DEF PlayInv
<1>2. /\ queues' = [queues EXCEPT ![p] = <<>>] /\ Sync!mark_player_dropped(p) /\ Respond(Combined)
      /\ UNCHANGED <<input_caches, warmup_sent, total_delays, frame_size>>
      /\ window' = window /\ Playing(p)
      /\ UNCHANGED <<pressed, input_cache, up, output_cache, decoded>>
  BY DEF DropGame, mark_player_dropped, clients, Playing
<1>3. /\ SyncInv' /\ RowsAdded /\ contributed' = contributed
      /\ dropped_players' = [dropped_players EXCEPT ![p] = TRUE]
  BY <1>1, <1>2, SyncDrop
<1>4. /\ dropped_players \in [Players -> BOOLEAN] /\ queues \in [Players -> Seq(Packets)]
  BY <1>1, SameRows DEF PlayTypes
<1>5. /\ ~ Playing(p)' /\ queues'[p] = <<>>
      /\ \A q \in Players : q # p => queues'[q] = queues[q] /\ (Playing(q)' <=> Playing(q))
  BY <1>2, <1>3, <1>4 DEF Playing
<1>6. ASSUME NEW q \in Players
      PROVE  /\ Combined[q] \in Seq(Outputs)
             /\ Playing(q)' => Playing(q) /\ Due(q)' = Due(q) \o Combined[q]
  <2>1. Combined[q] \in Seq(Outputs) /\ Due(q)' = Due(q) \o Combined[q]
    BY <1>1, <1>2, <1>3, CombinedIs
  <2>2. Playing(q)' => Playing(q)
    BY <1>5
  <2>3. QED
    BY <2>1, <2>2
<1>7. UNCHANGED <<output_cache, decoded>>
  BY <1>2
<1>8. /\ Downward' /\ disable_output_cache' = disable_output_cache
      /\ output_caches' \in [Players -> Window(Outputs)]
      /\ responses' \in [Players -> Seq(Message(Outputs))]
  BY <1>1, <1>2, <1>6, <1>7, RespondKeeps
<1>9. Settled'
  BY <1>1, <1>2, <1>8, KeepsSettled
<1>10. PlayTypes'
  <2>1. queues' \in [Players -> Seq(Packets)]
    <3>1. <<>> \in Seq(Packets)
      OBVIOUS
    <3>2. QED
      BY <1>2, <1>4, <3>1
  <2>2. QED
    BY <1>1, <1>2, <1>8, <2>1 DEF PlayTypes
<1>11. Upward'
  BY <1>1, <1>2, SameUplink DEF Upward
<1>12. Started'
  <2>1. ASSUME NEW q \in Players
        PROVE  /\ Handled(q)' = Handled(q) /\ Uplink(q) /\ Startup(q) /\ Schedule(q)' = Schedule(q)
    <3>1. Handled(q)' = Handled(q) /\ Uplink(q) /\ Startup(q)
      BY <1>1, <1>2 DEF Handled, Upward, Started
    <3>2. QED
      BY <1>1, <1>2, <3>1, SameSchedule
  <2>2. Startup(p)'
    <3>1. (warmup_sent[p] <= total_delays[p] /\ Len(queues[p]) <= warmup_sent[p])'
      <4>1. warmup_sent[p] <= total_delays[p] /\ warmup_sent[p] \in Nat
        BY <1>1, <2>1 DEF Startup, PlayTypes
      <4>2. Len(<<>>) = 0
        OBVIOUS
      <4>3. Len(queues'[p]) <= warmup_sent[p]
        BY <1>5, <4>1, <4>2
      <4>4. QED
        BY <1>2, <4>1, <4>3
    <3>2. (frame_size = 0 => warmup_sent[p] = 0)'
      BY <1>2, <2>1 DEF Startup
    <3>3. Starts(contributed[p], Schedule(p))
      <4>1. contributed[p] = Schedule(p)
        BY <1>2, <2>1 DEF Startup
      <4>2. Len(contributed[p]) \in Nat
        BY <1>1, SyncHandsOut
      <4>3. QED
        BY <4>1, <4>2 DEF Starts
    <3>4. Starts(contributed'[p], Schedule(p)')
      BY <1>3, <2>1, <3>3
    <3>5. QED
      BY <1>5, <3>1, <3>2, <3>4 DEF Startup
  <2>3. ASSUME NEW q \in Players, q # p PROVE Startup(q)'
    <3>1. /\ queues'[q] = queues[q] /\ (Playing(q)' <=> Playing(q))
          /\ warmup_sent'[q] = warmup_sent[q] /\ contributed'[q] = contributed[q]
      BY <1>2, <1>3, <1>5, <2>3
    <3>2. SubSeq(pressed'[q], Used(q) + 1, Begun(q)) = SubSeq(pressed[q], Used(q) + 1, Begun(q))
      BY <1>2
    <3>3. QED
      BY <1>2, <2>1, <3>1, <3>2, SameStartup
  <2>4. QED
    BY <2>2, <2>3 DEF Started
<1>13. QED
  BY <1>3, <1>8, <1>9, <1>10, <1>11, <1>12 DEF PlayInv

\* What is read is taken from what is under way.
LEMMA ReadKeeps ==
  ASSUME PlayInv, NEW p \in Players, Read(p)
  PROVE  PlayInv'
<1>1. Settled /\ PlayTypes /\ SyncInv /\ Upward /\ Downward /\ Started
  BY DEF PlayInv
<1> DEFINE m == Head(responses[p])
           frame == IF m.kind = "GameData" THEN <<m.data>>
                    ELSE IF m.kind = "GameCache" THEN At(output_cache[p], m.pos)
                    ELSE <<>>
<1>2. /\ responses[p] # <<>> /\ responses' = [responses EXCEPT ![p] = Tail(@)]
      /\ decoded' = [decoded EXCEPT ![p] = @ \o frame]
      /\ output_cache' = IF m.kind = "GameData"
                         THEN [output_cache EXCEPT ![p] = Store(@, m.data)]
                         ELSE output_cache
      /\ UNCHANGED <<combiner, startup, output_caches, disable_output_cache,
                     window, pressed, input_cache, up>>
  BY DEF Read
<1>3. PICK xs \in Seq(Outputs) :
        /\ Sent(Outputs, output_cache[p], [cache |-> output_caches[p], made |-> responses[p]], xs)
        /\ Playing(p) => decoded[p] \o xs = Due(p)
  BY <1>1 DEF Downward, Downlink
<1>4. PICK cn \in Window(Outputs) : /\ Channel(Outputs, output_cache[p], responses[p], xs, cn)
                                    /\ disable_output_cache \/ cn = output_caches[p]
  BY <1>3 DEF Sent
<1>5. PICK d \in Window(Outputs) : /\ Carries(output_cache[p], m, Head(xs), d)
                                   /\ Channel(Outputs, d, Tail(responses[p]), Tail(xs), cn)
  BY <1>2, <1>4, TakeFirst
<1>6. /\ output_cache \in [Players -> Window(Outputs)] /\ decoded \in [Players -> Seq(Outputs)]
      /\ responses \in [Players -> Seq(Message(Outputs))]
      /\ output_caches[p] \in Window(Outputs)
  BY <1>1 DEF PlayTypes
<1>7. xs # <<>> /\ Tail(responses[p]) \in Seq(Message(Outputs)) /\ Tail(xs) \in Seq(Outputs)
      /\ Head(xs) \in Outputs /\ xs = <<Head(xs)>> \o Tail(xs)
  <2>1. xs # <<>>
    <3>1. responses[p] \in Seq(Message(Outputs)) /\ Len(xs) = Len(responses[p])
      BY <1>4, <1>6 DEF Channel
    <3>2. QED
      BY <1>2, <3>1, EmptySeq
  <2>2. responses[p] \in Seq(Message(Outputs))
    BY <1>6
  <2>3. QED
    BY <1>2, <2>1, <2>2, HeadTailProperties
<1>8. frame = <<Head(xs)>> /\ output_cache' = [output_cache EXCEPT ![p] = d]
  <2>1. CASE m = GameData(Head(xs)) /\ d = Store(output_cache[p], Head(xs))
    <3>1. m.kind = "GameData" /\ m.data = Head(xs)
      BY <2>1 DEF GameData
    <3> HIDE DEF m
    <3>2. QED
      BY <1>2, <2>1, <3>1
  <2>2. ASSUME NEW pos \in Nat, m = GameCache(pos), At(output_cache[p], pos) = <<Head(xs)>>,
               d = output_cache[p]
        PROVE  frame = <<Head(xs)>> /\ output_cache' = [output_cache EXCEPT ![p] = d]
    <3>1. m.kind = "GameCache" /\ m.kind # "GameData" /\ m.pos = pos
      BY <2>2 DEF GameCache
    <3>2. output_cache = [output_cache EXCEPT ![p] = d]
      BY <1>6, <2>2
    <3> HIDE DEF m
    <3>3. QED
      BY <1>2, <2>2, <3>1, <3>2
  <2>3. QED
    BY <1>5, <2>1, <2>2 DEF Carries
<1> DEFINE ds == decoded[p]
           x == Head(xs)
           ys == Tail(xs)
<1>9. /\ ds \in Seq(Outputs) /\ x \in Outputs /\ ys \in Seq(Outputs) /\ xs = <<x>> \o ys
      /\ decoded' = [decoded EXCEPT ![p] = ds \o <<x>>]
  BY <1>2, <1>6, <1>7, <1>8
<1> HIDE DEF m, frame, ds, x, ys
<1>10. ds \o <<x>> \in Seq(Outputs) /\ (ds \o <<x>>) \o ys = ds \o xs
  <2> DEFINE e == <<x>>
  <2>1. e \in Seq(Outputs)
    BY <1>9
  <2>2. ds \in Seq(Outputs) /\ ys \in Seq(Outputs) /\ xs = e \o ys
    BY <1>9
  <2> HIDE DEF e
  <2>3. (ds \o e) \o ys = ds \o (e \o ys) /\ ds \o e \in Seq(Outputs)
    <3>1. (ds \o e) \o ys = ds \o (e \o ys)
      BY <2>1, <2>2, ConcatAssociative
    <3>2. ds \o e \in Seq(Outputs)
      BY <2>1, <2>2, ConcatProperties
    <3>3. QED
      BY <3>1, <3>2
  <2>4. QED
    BY <2>2, <2>3 DEF e
<1>11. /\ decoded' \in [Players -> Seq(Outputs)] /\ decoded'[p] = ds \o <<x>>
       /\ \A q \in Players : q # p => decoded'[q] = decoded[q]
  BY <1>6, <1>9, <1>10
<1>12. /\ responses' \in [Players -> Seq(Message(Outputs))] /\ responses'[p] = Tail(responses[p])
       /\ \A q \in Players : q # p => responses'[q] = responses[q]
  BY <1>2, <1>6, <1>7
<1>13. /\ output_cache' \in [Players -> Window(Outputs)] /\ output_cache'[p] = d
       /\ \A q \in Players : q # p => output_cache'[q] = output_cache[q]
  BY <1>6, <1>8
<1>14. /\ UNCHANGED combiner /\ UNCHANGED <<window, pressed, input_cache, up, disable_output_cache>>
       /\ UNCHANGED <<input_caches, queues, warmup_sent, total_delays, frame_size, output_caches>>
       /\ UNCHANGED <<dropped_players, contributed, sent>>
  BY <1>2 DEF startup, combiner
<1>15. Settled' /\ SyncInv'
  BY <1>1, <1>14, KeepsSettled, SyncRests
<1>16. PlayTypes'
  BY <1>1, <1>11, <1>12, <1>13, <1>14 DEF PlayTypes
<1>17. Upward'
  BY <1>1, <1>14, SameUplink DEF Upward
<1>18. \A q \in Players : /\ Playing(q)' = Playing(q) /\ Due(q)' = Due(q) /\ Handled(q)' = Handled(q)
                          /\ Schedule(q)' = Schedule(q)
  BY <1>14 DEF Playing, Due, Handled, Schedule
<1>19. Downward'
  <2>1. Downlink(p)'
    <3>1. Channel(Outputs, output_cache'[p], responses'[p], ys, cn)
      BY <1>5, <1>12, <1>13 DEF ys
    <3>2. Sent(Outputs, output_cache[p], [cache |-> output_caches[p], made |-> responses[p]], ys)'
      BY <1>4, <1>6, <1>14, <3>1 DEF Sent
    <3>3. (Playing(p) => decoded[p] \o ys = Due(p))'
      BY <1>3, <1>10, <1>11, <1>18 DEF ds
    <3>4. QED
      BY <1>9, <3>2, <3>3 DEF Downlink
  <2>2. ASSUME NEW q \in Players, q # p PROVE Downlink(q)'
    <3>1. Downlink(q)
      BY <1>1 DEF Downward
    <3>2. QED
      BY <1>11, <1>12, <1>13, <1>14, <1>18, <2>2, <3>1, SameDownlink
  <2>3. QED
    BY <2>1, <2>2 DEF Downward
<1>20. Started'
  <2>1. ASSUME NEW q \in Players PROVE Startup(q)'
    <3>1. Startup(q)
      BY <1>1 DEF Started
    <3>2. SubSeq(pressed'[q], Used(q) + 1, Begun(q)) = SubSeq(pressed[q], Used(q) + 1, Begun(q))
      BY <1>14
    <3>3. QED
      BY <1>14, <1>18, <3>1, <3>2, SameStartup
  <2>2. QED
    BY <2>1 DEF Started
<1>21. QED
  BY <1>15, <1>16, <1>17, <1>19, <1>20 DEF PlayInv

-----------------------------------------------------------------------------
LEMMA PlayStep == PlayInv /\ [PlayNext]_play => PlayInv'
<1>1. SUFFICES ASSUME PlayInv, [PlayNext]_play PROVE PlayInv'
  OBVIOUS
<1>2. CASE UNCHANGED play
  <2>1. Settled /\ PlayTypes /\ SyncInv /\ Upward /\ Downward /\ Started
    BY <1>1 DEF PlayInv
  <2>2. /\ UNCHANGED combiner /\ UNCHANGED <<window, pressed, input_cache, up, disable_output_cache>>
        /\ UNCHANGED <<input_caches, queues, warmup_sent, total_delays, frame_size, output_caches>>
        /\ UNCHANGED <<dropped_players, contributed, sent, responses, output_cache, decoded>>
    BY <1>2 DEF play, engine, clients, startup, cached, combiner
  <2>3. Settled' /\ SyncInv' /\ PlayTypes'
    BY <2>1, <2>2, KeepsSettled, SyncRests DEF PlayTypes
  <2>4. Upward'
    BY <2>1, <2>2, SameUplink DEF Upward
  <2>5. \A q \in Players : /\ Playing(q)' = Playing(q) /\ Due(q)' = Due(q) /\ Handled(q)' = Handled(q)
                           /\ Schedule(q)' = Schedule(q)
    BY <2>2 DEF Playing, Due, Handled, Schedule
  <2>6. Downward'
    BY <2>1, <2>2, <2>5, SameDownlink DEF Downward
  <2>7. Started'
    BY <2>1, <2>2, <2>5, SameStartup DEF Started
  <2>8. QED
    BY <2>3, <2>4, <2>6, <2>7 DEF PlayInv
<1>3. ASSUME NEW p \in Players, NEW data \in Buttons[p], Press(p, data) PROVE PlayInv'
  BY <1>1, <1>3, PressKeeps
<1>4. ASSUME NEW p \in Players, Handle(p) PROVE PlayInv'
  BY <1>1, <1>4, HandleKeeps
<1>5. ASSUME NEW p \in Players, Read(p) PROVE PlayInv'
  BY <1>1, <1>5, ReadKeeps
<1>6. ASSUME NEW p \in Players, DropGame(p) PROVE PlayInv'
  BY <1>1, <1>6, DropKeepsPlay
<1>7. QED
  BY <1>1, <1>2, <1>3, <1>4, <1>5, <1>6 DEF PlayNext, Step

LEMMA AlwaysPlayInv == PlaySpec => []PlayInv
BY InitPlayInv, PlayStep, PTL DEF PlaySpec

-----------------------------------------------------------------------------
LEMMA StartsIsPrefix ==
  ASSUME NEW S, NEW s \in Seq(S), NEW t \in Seq(S), Starts(s, t)
  PROVE  IsPrefix(s, t)
<1> DEFINE n == Len(s)
           a == SubSeq(s, 1, n)
           b == SubSeq(t, 1, n)
<1>1. n \in Nat /\ n \in 0 .. Len(t) /\ Len(t) \in Nat /\ \A k \in 1 .. n : s[k] = t[k]
  BY DEF Starts
<1>2. /\ a \in Seq(S) /\ Len(a) = n
      /\ \A k \in 1 .. n : a[k] = s[k]
  BY <1>1
<1>3. /\ b \in Seq(S) /\ Len(b) = n
      /\ \A k \in 1 .. n : b[k] = t[k]
  BY <1>1
<1> HIDE DEF a, b
<1>4. a = b
  BY <1>1, <1>2, <1>3, SeqEqual
<1>5. n <= Len(t)
  BY <1>1
<1>6. QED
  BY <1>4, <1>5 DEF IsPrefix, a, b, n

LEMMA ScheduleType ==
  ASSUME Settled, PlayTypes, NEW p \in Players, Uplink(p)
  PROVE  Schedule(p) \in Seq(Packets) /\ Schedule(p) \in Seq(Seq(Byte)) /\ Len(Schedule(p)) = Used(p)
<1> DEFINE s == pressed[p]
           u == Used(p)
           w == total_delays[p]
           at(k) == IF k <= w THEN k ELSE k + w
<1>1. /\ s \in Seq(Packets) /\ u \in Nat /\ Schedule(p) = [k \in 1 .. u |-> s[at(k)]]
      /\ \A k \in 1 .. u : at(k) \in 1 .. Len(s)
  BY Counts, Facts
<1> HIDE DEF s, u, at, w
<1>2. \A k \in 1 .. u : s[at(k)] \in Packets
  BY <1>1, ElementOfSeq
<1>3. Schedule(p) \in Seq(Packets) /\ Len(Schedule(p)) = u
  BY <1>1, <1>2
<1>4. Packets \subseteq Seq(Byte)
  BY EngineAssumption
<1>5. QED
  BY <1>3, <1>4 DEF u

\* What p's emulator got is what he was due so far.
LEMMA DecodedIs ==
  ASSUME PlayInv, NEW p \in Players, Playing(p)
  PROVE  /\ decoded[p] \in Seq(Outputs) /\ Due(p) \in Seq(Outputs)
         /\ Starts(decoded[p], Due(p))
         /\ responses[p] = <<>> => decoded[p] = Due(p)
<1>1. Settled /\ PlayTypes /\ SyncInv /\ Downlink(p)
  BY DEF PlayInv, Downward
<1>2. PICK xs \in Seq(Outputs) :
        /\ Sent(Outputs, output_cache[p], [cache |-> output_caches[p], made |-> responses[p]], xs)
        /\ decoded[p] \o xs = Due(p)
  BY <1>1 DEF Downlink
<1>3. Len(xs) = Len(responses[p])
  BY <1>2 DEF Sent, Channel
<1> DEFINE d == decoded[p]
           t == d \o xs
<1>4. d \in Seq(Outputs)
  BY <1>1, Facts
<1> HIDE DEF d
<1>5. /\ t \in Seq(Outputs) /\ Len(t) = Len(d) + Len(xs)
      /\ \A k \in 1 .. Len(d) + Len(xs) : t[k] = IF k <= Len(d) THEN d[k] ELSE xs[k - Len(d)]
  BY <1>4, ConcatProperties
<1>6. Len(d) \in Nat /\ Len(xs) \in Nat
  BY <1>4
<1> HIDE DEF t
<1>7. Starts(d, t)
  <2>1. ASSUME NEW k \in 1 .. Len(d) PROVE d[k] = t[k]
    <3>1. k \in 1 .. Len(d) + Len(xs) /\ k <= Len(d)
      BY <1>6
    <3>2. QED
      BY <1>5, <3>1
  <2>2. Len(d) <= Len(t)
    BY <1>5, <1>6
  <2>3. QED
    BY <2>1, <2>2 DEF Starts
<1>8. responses[p] = <<>> => d = t
  <2>1. SUFFICES ASSUME responses[p] = <<>> PROVE d = t
    OBVIOUS
  <2>2. Len(xs) = 0
    BY <1>3, <2>1
  <2>3. Len(t) = Len(d) /\ \A k \in 1 .. Len(d) : t[k] = d[k]
    BY <1>5, <1>6, <1>7, <2>2 DEF Starts
  <2>4. QED
    BY <1>4, <1>5, <2>3, SeqEqual
<1>9. t = Due(p)
  BY <1>2 DEF t, d
<1>10. QED
  BY <1>4, <1>5, <1>7, <1>8, <1>9 DEF d

LEMMA DueCounts ==
  ASSUME PlayInv, NEW p \in Players
  PROVE  /\ Len(Due(p)) = warmup_sent[p] + Len(sent[p])
         /\ warmup_sent[p] \in Nat /\ Len(sent[p]) \in Nat
         /\ \A k \in 1 .. Len(sent[p]) :
              Due(p)[warmup_sent[p] + k] = FlattenSeq(sent[p][k])
<1>1. PlayTypes /\ SyncInv /\ warmup_sent[p] \in Nat /\ sent[p] \in Seq(Row)
  BY SameRows, Facts DEF PlayInv
<1> DEFINE z == Zeroes(p)
           f == Frames(p)
           t == z \o f
           a == warmup_sent[p]
           b == Len(sent[p])
<1>2. Due(p) = t /\ z \in Seq(Outputs) /\ Len(z) = a /\ f \in Seq(Outputs) /\ Len(f) = b
  BY <1>1, DueIs
<1>3. a \in Nat /\ b \in Nat
  BY <1>1
<1>4. f = [k \in 1 .. b |-> FlattenSeq(sent[p][k])]
  BY DEF Frames
<1> HIDE DEF z, f, a, b
<1>5. Len(t) = a + b /\ \A k \in 1 .. a + b : t[k] = IF k <= a THEN z[k] ELSE f[k - a]
  BY <1>2, ConcatProperties
<1> HIDE DEF t
<1>6. \A k \in 1 .. b : t[a + k] = f[k]
  <2>1. ASSUME NEW k \in 1 .. b PROVE t[a + k] = f[k]
    <3>1. a + k \in 1 .. a + b /\ ~ (a + k <= a) /\ (a + k) - a = k
      BY <1>3
    <3>2. QED
      BY <1>5, <3>1
  <2>2. QED
    BY <2>1
<1>7. QED
  BY <1>2, <1>3, <1>4, <1>5, <1>6 DEF a, b

\* A frame behind the warm-up is a row the combiner handed out.
LEMMA DecodedRow ==
  ASSUME PlayInv, NEW p \in Players, Playing(p),
         NEW i \in Int, i \in DOMAIN decoded[p], i > total_delays[p]
  PROVE  decoded[p][i] = FlattenSeq(sent[p][i - total_delays[p]])
<1> DEFINE a == warmup_sent[p]
           b == Len(sent[p])
           w == total_delays[p]
<1>1. /\ Settled /\ PlayTypes /\ SyncInv /\ Uplink(p) /\ Startup(p)
  BY DEF PlayInv, Upward, Started
<1>2. /\ decoded[p] \in Seq(Outputs) /\ Starts(decoded[p], Due(p))
      /\ Len(Due(p)) = a + b /\ a \in Nat /\ b \in Nat /\ w \in Nat /\ a <= w
      /\ Len(decoded[p]) \in Nat
  BY <1>1, DecodedIs, DueCounts, Facts DEF Startup
<1>3. i \in 1 .. Len(decoded[p]) /\ i <= a + b /\ decoded[p][i] = Due(p)[i]
  BY <1>2 DEF Starts
<1>4. a = w
  <2>1. CASE Warming(p)
    <3>1. sent[p] = <<>>
      BY <1>1, <2>1, NoFrameWhileWarming
    <3>2. b = 0
      BY <3>1
    <3> HIDE DEF a, b, w
    <3>3. QED
      BY <1>2, <1>3, <3>2 DEF w
  <2>2. CASE ~ Warming(p)
    BY <1>2, <2>2 DEF Warming
  <2>3. QED
    BY <2>1, <2>2
<1>5. i - w \in 1 .. b /\ a + (i - w) = i
  <2> HIDE DEF a, b
  <2>1. QED
    BY <1>2, <1>3, <1>4
<1>6. Due(p)[a + (i - w)] = FlattenSeq(sent[p][i - w])
  BY <1>5, DueCounts
<1>7. QED
  BY <1>3, <1>5, <1>6

-----------------------------------------------------------------------------
LEMMA AlwaysTyped == PlayInv => PlayTypeOK
<1>1. SUFFICES ASSUME PlayInv PROVE PlayTypeOK
  OBVIOUS
<1>2. Settled /\ PlayTypes /\ Started
  BY <1>1 DEF PlayInv
<1>3. ASSUME NEW p \in Players
      PROVE  /\ \A cache \in {input_caches[p], output_caches[p], input_cache[p], output_cache[p]} :
                  Len(cache) <= CacheSize
             /\ warmup_sent[p] \in 0 .. total_delays[p]
             /\ Len(queues[p]) <= warmup_sent[p]
             /\ pressed[p] \in Seq(Packets)
  <2>1. /\ input_caches[p] \in Window(Packets) /\ input_cache[p] \in Window(Packets)
        /\ output_caches[p] \in Window(Outputs) /\ output_cache[p] \in Window(Outputs)
        /\ warmup_sent[p] \in Nat /\ total_delays[p] \in Nat /\ pressed[p] \in Seq(Packets)
    BY <1>2, Facts
  <2>2. Startup(p)
    BY <1>2 DEF Started
  <2>3. QED
    BY <2>1, <2>2 DEF Startup, Window
<1>4. QED
  BY <1>2, <1>3 DEF PlayTypeOK, PlayTypes

LEMMA AlwaysScheduled == PlayInv => FollowsSchedule
<1>1. SUFFICES ASSUME PlayInv, NEW p \in Players
               PROVE  IF Playing(p) THEN contributed[p] = Schedule(p)
                                    ELSE IsPrefix(contributed[p], Schedule(p))
  BY DEF FollowsSchedule
<1>2. /\ Settled /\ PlayTypes /\ SyncInv /\ Uplink(p) /\ Startup(p)
  BY <1>1 DEF PlayInv, Upward, Started
<1>3. contributed[p] \in Seq(Seq(Byte)) /\ Schedule(p) \in Seq(Seq(Byte))
  BY <1>2, SameRows, ScheduleType
<1>4. QED
  BY <1>2, <1>3, StartsIsPrefix DEF Startup

LEMMA AlwaysDecoded == PlayInv => DecodesWhatIsDue
<1>1. SUFFICES ASSUME PlayInv, NEW p \in Players, Playing(p)
               PROVE  /\ IsPrefix(decoded[p], Due(p))
                      /\ responses[p] = <<>> => decoded[p] = Due(p)
  BY DEF DecodesWhatIsDue
<1>2. QED
  BY <1>1, DecodedIs, StartsIsPrefix

LEMMA AlwaysInStep == PlayInv => InStep
<1>1. SUFFICES ASSUME PlayInv, NEW p \in Players, NEW q \in Players, Playing(p), Playing(q),
                      NEW f \in 1 .. window[p] + MaxPressed,
                      f - window[p] \in DOMAIN decoded[p], f - window[q] \in DOMAIN decoded[q],
                      f > Latency(p)
               PROVE  decoded[p][f - window[p]] = decoded[q][f - window[q]]
  BY DEF InStep
<1>2. Settled /\ PlayTypes /\ SyncInv
  BY <1>1 DEF PlayInv
<1>3. /\ window[p] \in Nat /\ window[q] \in Nat /\ total_delays[p] \in Nat /\ total_delays[q] \in Nat
      /\ window[p] + total_delays[p] = window[q] + total_delays[q]
      /\ f > window[p] + total_delays[p] /\ f \in Int
  BY <1>1, <1>2, Facts DEF Settled, Latency
<1> DEFINE i == f - window[p]
           j == f - window[q]
<1>4. /\ i \in Int /\ i > total_delays[p] /\ j \in Int /\ j > total_delays[q]
      /\ i - total_delays[p] = j - total_delays[q]
  BY <1>3
<1>5. i \in DOMAIN decoded[p] /\ j \in DOMAIN decoded[q]
  BY <1>1
<1> HIDE DEF i, j
<1>6. decoded[p][i] = FlattenSeq(sent[p][i - total_delays[p]])
  BY <1>1, <1>4, <1>5, DecodedRow
<1>7. decoded[q][j] = FlattenSeq(sent[q][j - total_delays[q]])
  BY <1>1, <1>4, <1>5, DecodedRow
<1>8. sent[p] = sent[q]
  BY <1>2, SyncHandsOut
<1>9. decoded[p][i] = decoded[q][j]
  BY <1>4, <1>6, <1>7, <1>8
<1>10. QED
  BY <1>9 DEF i, j

LEMMA AlwaysServed == PlayInv => NobodyWaits
<1>1. SUFFICES ASSUME PlayInv, \A p \in Players : up[p] = <<>> /\ responses[p] = <<>>,
                      NEW p \in Players, Playing(p),
                      \A q \in Players : Playing(q) => Len(pressed[p]) <= Len(pressed[q])
               PROVE  Len(pressed[p]) < Len(decoded[p]) + window[p]
  BY DEF NobodyWaits
<1>2. Settled /\ PlayTypes /\ SyncInv
  BY <1>1 DEF PlayInv
<1>3. PICK n \in Nat : /\ \A q \in Players : Len(sent[q]) = n
                       /\ \E q \in Players : ~ dropped_players[q] /\ Len(contributed[q]) = n
  BY <1>1, <1>2, SyncHandsOut DEF Playing
<1>4. PICK q \in Players : Playing(q) /\ Len(contributed[q]) = n
  BY <1>3 DEF Playing
<1>5. ASSUME NEW r \in Players, Playing(r)
      PROVE  /\ Handled(r) = Len(pressed[r]) /\ Len(pressed[r]) \in Nat
             /\ warmup_sent[r] = Begun(r) /\ Len(contributed[r]) = Used(r)
             /\ window[r] \in Nat \ {0} /\ total_delays[r] \in Nat
  <2>1. Uplink(r) /\ Startup(r)
    BY <1>1 DEF PlayInv, Upward, Started
  <2>2. Len(up[r]) = 0
    BY <1>1
  <2>3. Handled(r) = Len(pressed[r]) /\ Len(pressed[r]) \in Nat
    BY <1>2, <2>2, Facts DEF Handled
  <2>4. contributed[r] = Schedule(r) /\ Len(Schedule(r)) = Used(r)
    BY <1>2, <1>5, <2>1, ScheduleType DEF Startup
  <2>5. QED
    BY <1>2, <1>5, <2>1, <2>3, <2>4, Facts DEF Startup
<1>6. Len(decoded[p]) = warmup_sent[p] + n
  BY <1>1, <1>3, DecodedIs, DueCounts
<1> DEFINE hp == Len(pressed[p])
           hq == Len(pressed[q])
           wp == total_delays[p]
           wq == total_delays[q]
<1>7. /\ Begun(p) = (IF hp < wp THEN hp ELSE wp) /\ n = (IF hq > wq THEN hq - wq ELSE 0)
      /\ Len(decoded[p]) = Begun(p) + n
      /\ hp \in Nat /\ hq \in Nat /\ hp <= hq /\ wp \in Nat /\ wq \in Nat
      /\ window[p] \in Nat \ {0} /\ window[q] \in Nat \ {0}
      /\ window[p] + wp = window[q] + wq
  BY <1>1, <1>2, <1>4, <1>5, <1>6 DEF Begun, Used, Settled, Latency
<1> HIDE DEF hp, hq, wp, wq
<1>8. hp < Len(decoded[p]) + window[p]
  <2> DEFINE b == Begun(p)
             l == Len(decoded[p])
             vp == window[p]
             vq == window[q]
  <2>1. /\ b = (IF hp < wp THEN hp ELSE wp) /\ n = (IF hq > wq THEN hq - wq ELSE 0)
        /\ l = b + n /\ vp \in Nat /\ vp > 0 /\ vq \in Nat /\ vq > 0 /\ vp + wp = vq + wq
        /\ hp \in Nat /\ hq \in Nat /\ hp <= hq /\ wp \in Nat /\ wq \in Nat
    BY <1>7
  <2> HIDE DEF b, l, vp, vq
  <2>2. hp < l + vp
    BY <2>1
  <2>3. QED
    BY <2>2 DEF l, vp
<1>9. QED
  BY <1>8 DEF hp

-----------------------------------------------------------------------------
(***************************************************************************)
(* The theorems about a game.                                              *)
(***************************************************************************)
\* The four caches of a client stay windows of CacheSize contents, and DelayedGameSync
\* never gives a player more zero frames than start_game set, nor holds more inputs back.
THEOREM GameTypesHold == PlaySpec => []PlayTypeOK
BY AlwaysPlayInv, AlwaysTyped, PTL

\* The inputs DelayedGameSync passes to the combiner are the ones of the player's schedule:
\* no reference is resolved against a cache its sender did not mean, none of the inputs
\* is lost or used twice while the held-back ones are flushed, and a drop adds nothing.
THEOREM InputsFollowTheSchedule == PlaySpec => []FollowsSchedule
BY AlwaysPlayInv, AlwaysScheduled, PTL

\* CachedGameSync names an output by its position only when the client's own cache has that
\* output there at the time he reads the message: what his emulator gets is what the
\* engine made for him, frame by frame, whatever was on its way and whoever dropped.
THEOREM ClientsDecodeTheirFrames == PlaySpec => []DecodesWhatIsDue
BY AlwaysPlayInv, AlwaysDecoded, PTL

\* The promise of the engine: two emulators at the same frame have the same input for it,
\* for any configuration without a shared window, any pings and any drops.
THEOREM EmulatorsStayInStep == PlaySpec => []InStep
BY AlwaysPlayInv, AlwaysInStep, PTL

\* Nobody waits for an answer the engine never makes: with nothing under way, a player who
\* has pressed no more than the others has the frame he needs. The zero frames of the
\* warm-up and the window he was announced are enough, also after a drop.
THEOREM LockstepNeverLocksUp == PlaySpec => []NobodyWaits
BY AlwaysPlayInv, AlwaysServed, PTL
================================================================================
