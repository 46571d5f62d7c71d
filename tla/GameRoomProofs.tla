---------------------------- MODULE GameRoomProofs ----------------------------
(***************************************************************************)
(* For any number of users, of rooms and of players in a room.             *)
(*                                                                         *)
(* The invariant comes in two halves. Base is what holds whoever is heard: *)
(* the types, where a handler can stand and on whose behalf (TaskOK), and  *)
(* NobodyTwice. Inv is what holds if a client being removed for his silence*)
(* stays silent. Its core is Chairs: an owner in the middle of a start or a*)
(* kick stays the owner, because whoever could take him off the list is    *)
(* the owner himself or the cleanup, and the cleanup only comes for who    *)
(* does nothing (ReapedIsIdle). So nobody else starts a game under his     *)
(* hands, and a list is compacted and sized only while no game is on. That *)
(* an owner is never a tombstone on his own list is Welcome; that a kick   *)
(* which is late does not make one of who has come back is NotLate.        *)
(***************************************************************************)
EXTENDS GameRoom, ListsProofs

Places == {"idle", "dead", "entering", "joining", "pushing", "starting", "compacting",
           "copying", "sizing", "installing", "leaving", "removing", "telling",
           "unregistering", "dropping", "marking", "emptying", "closing"}
Starting == {"starting", "compacting", "copying", "sizing", "installing"}
Entering == {"entering", "joining", "pushing"}
Leaving == {"leaving", "removing"}
Reasons == {"none", "create", "join", "start", "quit", "bye", "kick", "drop"}

Player == [addr : Clients, left : BOOLEAN]
Room == [open : BOOLEAN, owner : Tasks, players : Seq(Player), num_players : Nat,
         dropped : Seq(BOOLEAN)]
Position == [at : Places, who : Tasks, game : Games \cup {NoGame}, reason : Reasons, slots : Nat]

TaskOK(t, h) ==
  /\ h \in Position
  /\ h.at = "idle" => h = Idle
  /\ h.at # "idle" => h.who \in Clients
  /\ h.at \notin {"idle", "dead", "unregistering"} => h.game \in Games
  /\ h.at \in Starting \cup Entering => t \in Clients /\ h.who = t
  /\ h.at = "dead" \/ h.reason = "kick" => t \in Clients
  /\ h.at \in Leaving => t = Cleanup \/ h.reason = "kick" \/ h.who = t

RoomOK(r) == r \in Room /\ r.num_players = Len(Present(r.players))

Distinct(players) == \A i, j \in DOMAIN players : players[i].addr = players[j].addr => i = j

Base ==
  /\ client \in [Clients -> [registered : BOOLEAN, game : Games \cup {NoGame}]]
  /\ DOMAIN game = Games /\ \A g \in Games : RoomOK(game[g]) /\ Distinct(game[g].players)
  /\ DOMAIN task = Tasks /\ \A t \in Tasks : TaskOK(t, task[t])

-----------------------------------------------------------------------------
Here(r, c) == \E i \in DOMAIN r.players : r.players[i].addr = c /\ ~ r.players[i].left
Tombstone(r, c) == \E i \in DOMAIN r.players : r.players[i].addr = c /\ r.players[i].left

\* An owner who acts on his room stays its owner, and is in it.
Chair(t) ==
  LET h == task[t]
      r == game[h.game]
  IN /\ h.at \in Starting \/ (h.at = "entering" /\ h.reason = "create") =>
          r.owner = t /\ Here(r, t) /\ ~ Live(r)
     /\ h.at \in Starting => client[t].game \in {h.game, NoGame}
     /\ h.at \in {"sizing", "installing"} => h.slots # 0
     /\ h.at \in Leaving /\ h.reason = "kick" => r.owner = t /\ Here(r, t)
Chairs == \A t \in Clients : Chair(t)

\* Who is in a room by the registry is no tombstone of it.
Welcome ==
  \A c \in Clients : client[c].registered /\ client[c].game # NoGame =>
    ~ Tombstone(game[client[c].game], c)

\* Nor is one who is about to be, and no kick of his is under way in a live game.
KickedFrom(h, c, g) == h.at \in Leaving /\ h.who = c /\ h.game = g
Newcomer(c) ==
  task[c].at = "entering" =>
    /\ client[c].game = NoGame
    /\ ~ Tombstone(game[task[c].game], c)
    /\ \A u \in Clients : u # c /\ KickedFrom(task[u], c, task[c].game) => ~ Live(game[task[c].game])
Newcomers == \A c \in Clients : Newcomer(c)

\* Who is taken off a list is back in the lobby, unless he has a kick to thank for it: then he
\* may be in the room again, but no game is on.
OnTime(t) ==
  task[t].at = "removing" =>
    LET c == task[t].who
    IN /\ task[t].reason # "kick" => client[c].game = NoGame
       /\ client[c].registered /\ client[c].game = task[t].game => ~ Live(game[task[t].game])
NotLate == \A t \in Tasks : OnTime(t)

ReapedIsIdle ==
  task[Cleanup].at # "idle" => task[task[Cleanup].who].at \in {"idle", "dead"}

\* LeaversAreDropped, with the slot that a handler has found.
Dropping(h, c, g, i) ==
  /\ h.at = "dropping" \/ (h.at = "marking" /\ h.slots = i)
  /\ h.who = c /\ h.game = g
SlotFound ==
  \A g \in Games : \A i \in DOMAIN game[g].dropped :
    LET p == game[g].players[i]
    IN game[g].open /\ i \in DOMAIN game[g].players /\ p.left /\ client[p.addr].registered
       => game[g].dropped[i] \/ \E t \in Tasks : Dropping(task[t], p.addr, g, i)

Inv == /\ Base /\ NoTombstoneWaits /\ Chairs /\ Welcome /\ Newcomers /\ NotLate
       /\ ReapedIsIdle /\ SlotFound

-----------------------------------------------------------------------------
(***************************************************************************)
(* Lists of players.                                                       *)
(***************************************************************************)
LEMMA PresentIs ==
  ASSUME NEW p \in Seq(Player)
  PROVE  /\ Present(p) \in Seq(Player)
         /\ \A k \in DOMAIN Present(p) : ~ Present(p)[k].left /\ \E i \in DOMAIN p : Present(p)[k] = p[i]
         /\ \A i \in DOMAIN p : ~ p[i].left => \E k \in DOMAIN Present(p) : Present(p)[k] = p[i]
         /\ Distinct(p) => Distinct(Present(p))
         /\ Len(Present(p)) \in Nat
<1> DEFINE I == {i \in DOMAIN p : ~ p[i].left}
           q == Present(p)
<1>1. I \in SUBSET DOMAIN p /\ q = Kept(p, I) /\ \A i \in I : ~ p[i].left
  BY DEF Present
<1>2. \A i \in DOMAIN p : ~ p[i].left => i \in I
  OBVIOUS
<1> HIDE DEF I, q
<1>3. /\ q \in Seq(Player)
      /\ \A k \in DOMAIN q : Nth(I, k) \in I /\ q[k] = p[Nth(I, k)]
  BY <1>1, KeptIs
<1>4. \A k, l \in DOMAIN q : Nth(I, k) = Nth(I, l) => k = l
  BY <1>1, KeptInOrder
<1>5. \A i \in I : \E k \in DOMAIN q : q[k] = p[i]
  BY <1>1, KeptAll
<1>6. ASSUME Distinct(p), NEW k \in DOMAIN q, NEW l \in DOMAIN q, q[k].addr = q[l].addr
      PROVE  k = l
  <2>1. Nth(I, k) \in DOMAIN p /\ Nth(I, l) \in DOMAIN p
    BY <1>1, <1>3
  <2>2. Nth(I, k) = Nth(I, l)
    BY <1>3, <1>6, <2>1 DEF Distinct
  <2> QED
    BY <1>4, <2>2
<1>7. \A k \in DOMAIN q : ~ q[k].left /\ \E i \in DOMAIN p : q[k] = p[i]
  BY <1>1, <1>3
<1>8. Len(q) \in Nat
  BY <1>3
<1> QED
  BY <1>2, <1>3, <1>5, <1>6, <1>7, <1>8 DEF q, Distinct

\* num_players may be counted up.
LEMMA PresentOfAppend ==
  ASSUME NEW p \in Seq(Player), NEW m \in Player, ~ m.left
  PROVE  Len(Present(Append(p, m))) = Len(Present(p)) + 1
<1> DEFINE n == Len(p)
           I == {i \in DOMAIN p : ~ p[i].left}
           q == Append(p, m)
           J == {i \in DOMAIN q : ~ q[i].left}
<1>1. /\ n \in Nat /\ DOMAIN p = 1 .. n /\ q \in Seq(Player) /\ DOMAIN q = 1 .. n + 1
      /\ q[n + 1] = m /\ \A i \in 1 .. n : q[i] = p[i]
  OBVIOUS
<1>2. I \in SUBSET (1 .. n) /\ I \in SUBSET DOMAIN p /\ J \in SUBSET DOMAIN q
  BY <1>1
<1>3. J = I \cup {n + 1}
  <2>1. \A i \in 1 .. n + 1 : i \in 1 .. n \/ i = n + 1
    BY <1>1
  <2> QED
    BY <1>1, <2>1
<1>4. n + 1 \notin I
  BY <1>1
<1>5. Present(p) = Kept(p, I) /\ Present(q) = Kept(q, J)
  BY DEF Present
<1> HIDE DEF n, I, J, q
<1>6. IsFiniteSet(I)
  BY <1>1, <1>2, PositionsFinite
<1>7. Cardinality(J) = Cardinality(I) + 1
  BY <1>3, <1>4, <1>6, FS_AddElement
<1>8. Len(Kept(p, I)) = Cardinality(I) /\ Len(Kept(q, J)) = Cardinality(J)
  BY <1>1, <1>2, KeptIs
<1> QED
  BY <1>5, <1>7, <1>8 DEF q

LEMMA SlotIs ==
  ASSUME NEW p \in Seq(Player), NEW c
  PROVE  /\ Slot(p, c) \in Nat
         /\ Slot(p, c) # 0 => Slot(p, c) \in DOMAIN p /\ p[Slot(p, c)].addr = c
         /\ Slot(p, c) = 0 => \A i \in DOMAIN p : p[i].addr # c
         /\ \A i \in DOMAIN p : i \in Nat \ {0}
<1>1. \A i \in DOMAIN p : i \in Nat \ {0}
  OBVIOUS
<1>2. CASE \E i \in DOMAIN p : p[i].addr = c
  <2>1. Slot(p, c) \in DOMAIN p /\ p[Slot(p, c)].addr = c
    BY <1>2 DEF Slot
  <2> QED
    BY <1>1, <2>1
<1>3. CASE ~ \E i \in DOMAIN p : p[i].addr = c
  BY <1>1, <1>3 DEF Slot
<1> QED
  BY <1>2, <1>3

\* The rest of the list without its i-th player.
LEMMA RemovedIs ==
  ASSUME NEW p \in Seq(Player), NEW i \in DOMAIN p
  PROVE  /\ RemoveAt(p, i) \in Seq(Player)
         /\ \A k \in DOMAIN RemoveAt(p, i) : \E j \in DOMAIN p : j # i /\ RemoveAt(p, i)[k] = p[j]
         /\ \A j \in DOMAIN p : j # i => \E k \in DOMAIN RemoveAt(p, i) : RemoveAt(p, i)[k] = p[j]
         /\ Distinct(p) => Distinct(RemoveAt(p, i))
<1> DEFINE n == Len(p)
           q == RemoveAt(p, i)
           at(k) == IF k < i THEN k ELSE k + 1
<1>1. n \in Nat /\ DOMAIN p = 1 .. n /\ i \in 1 .. n
  OBVIOUS
<1> DEFINE front == SubSeq(p, 1, i - 1)
           back == SubSeq(p, i + 1, n)
<1>2. /\ front \in Seq(Player) /\ Len(front) = i - 1
      /\ \A k \in 1 .. i - 1 : front[k] = p[k]
  BY <1>1
<1>3. /\ back \in Seq(Player) /\ Len(back) = n - i
      /\ \A k \in 1 .. n - i : back[k] = p[k + i]
  BY <1>1
<1>4. q = front \o back
  BY DEF RemoveAt
<1> HIDE DEF n, q, front, back
<1>5. /\ q \in Seq(Player) /\ Len(q) = n - 1
      /\ \A k \in 1 .. n - 1 : q[k] = IF k <= i - 1 THEN front[k] ELSE back[k - (i - 1)]
  <2>1. /\ q \in Seq(Player) /\ Len(q) = Len(front) + Len(back)
        /\ \A k \in 1 .. Len(front) + Len(back) :
             q[k] = IF k <= Len(front) THEN front[k] ELSE back[k - Len(front)]
    BY <1>2, <1>3, <1>4, ConcatProperties
  <2>2. Len(front) = i - 1 /\ Len(front) + Len(back) = n - 1
    BY <1>1, <1>2, <1>3
  <2> QED
    BY <2>1, <2>2
<1>6. DOMAIN q = 1 .. n - 1
  BY <1>1, <1>5
<1>7. ASSUME NEW k \in 1 .. n - 1 PROVE at(k) \in 1 .. n /\ at(k) # i /\ q[k] = p[at(k)]
  <2>1. CASE k < i
    BY <1>1, <1>2, <1>5, <2>1
  <2>2. CASE ~ (k < i)
    <3>1. k - (i - 1) \in 1 .. n - i /\ (k - (i - 1)) + i = k + 1
      BY <1>1, <2>2
    <3>2. q[k] = back[k - (i - 1)]
      BY <1>1, <1>5, <2>2
    <3>3. back[k - (i - 1)] = p[k + 1]
      BY <1>3, <3>1
    <3> QED
      BY <1>1, <2>2, <3>2, <3>3
  <2> QED
    BY <2>1, <2>2
<1>8. ASSUME NEW j \in 1 .. n, j # i PROVE \E k \in 1 .. n - 1 : at(k) = j
  <2>1. CASE j < i
    BY <1>1, <2>1
  <2>2. CASE ~ (j < i)
    <3>1. j - 1 \in 1 .. n - 1 /\ at(j - 1) = j
      BY <1>1, <1>8, <2>2
    <3> QED
      BY <3>1
  <2> QED
    BY <2>1, <2>2
<1>9. \A k, l \in 1 .. n - 1 : at(k) = at(l) => k = l
  BY <1>1
<1> HIDE DEF at
<1>10. Distinct(p) => Distinct(q)
  BY <1>1, <1>6, <1>7, <1>9 DEF Distinct
<1> QED
  BY <1>1, <1>5, <1>6, <1>7, <1>8, <1>10 DEF q

-----------------------------------------------------------------------------
(***************************************************************************)
(* Rooms.                                                                  *)
(***************************************************************************)
LEMMA MigratedIs ==
  ASSUME NEW r \in Room
  PROVE  /\ Migrated(r) \in Room
         /\ Migrated(r).players = r.players /\ Migrated(r).num_players = r.num_players
         /\ Migrated(r).open = r.open /\ Migrated(r).dropped = r.dropped
         /\ Here(r, r.owner) => Migrated(r).owner = r.owner
         /\ Present(r.players) # <<>> => Hosted(Migrated(r))
<1> DEFINE here == Present(r.players)
           w == Migrated(r)
<1>1. /\ r.players \in Seq(Player) /\ r.owner \in Tasks
      /\ here \in Seq(Player)
      /\ \A k \in DOMAIN here : ~ here[k].left /\ \E i \in DOMAIN r.players : here[k] = r.players[i]
      /\ \A i \in DOMAIN r.players : ~ r.players[i].left => \E k \in DOMAIN here : here[k] = r.players[i]
  BY PresentIs DEF Room
<1>2. w = IF Slot(here, r.owner) # 0 \/ here = <<>> THEN r ELSE [r EXCEPT !.owner = here[1].addr]
  BY DEF Migrated
<1> HIDE DEF here, w
<1>3. /\ Slot(here, r.owner) # 0 => Slot(here, r.owner) \in DOMAIN here /\ here[Slot(here, r.owner)].addr = r.owner
      /\ Slot(here, r.owner) = 0 => \A k \in DOMAIN here : here[k].addr # r.owner
  BY <1>1, SlotIs
<1>4. CASE Slot(here, r.owner) # 0
  <2>1. w = r /\ Hosted(r)
    BY <1>1, <1>2, <1>3, <1>4 DEF Hosted
  <2> QED
    BY <2>1 DEF here, w
<1>5. CASE Slot(here, r.owner) = 0 /\ here = <<>>
  <2>1. w = r
    BY <1>2, <1>5
  <2> QED
    BY <1>5, <2>1 DEF here, w
<1>6. CASE Slot(here, r.owner) = 0 /\ here # <<>>
  <2>1. 1 \in DOMAIN here /\ here[1] \in Player
    BY <1>1, <1>6
  <2>2. w = [r EXCEPT !.owner = here[1].addr]
    BY <1>2, <1>6
  <2>3. here[1].addr \in Tasks
    BY <2>1 DEF Player, Tasks
  <2>4. /\ w \in Room /\ w.players = r.players /\ w.num_players = r.num_players
        /\ w.open = r.open /\ w.dropped = r.dropped /\ w.owner = here[1].addr
    BY <2>2, <2>3 DEF Room
  <2>5. Hosted(w)
    <3>1. PICK i \in DOMAIN r.players : here[1] = r.players[i]
      BY <1>1, <2>1
    <3>2. r.players[i].addr = w.owner /\ ~ r.players[i].left
      BY <1>1, <2>1, <2>4, <3>1
    <3> QED
      BY <2>4, <3>2 DEF Hosted
  <2>6. ~ Here(r, r.owner)
    BY <1>1, <1>3, <1>6 DEF Here
  <2> QED
    BY <2>4, <2>5, <2>6 DEF w
<1> QED
  BY <1>4, <1>5, <1>6

LEMMA WithPlayersIs ==
  ASSUME NEW r \in Room, NEW p \in Seq(Player)
  PROVE  /\ RoomOK(WithPlayers(r, p))
         /\ WithPlayers(r, p).players = p /\ WithPlayers(r, p).owner = r.owner
         /\ WithPlayers(r, p).open = r.open /\ WithPlayers(r, p).dropped = r.dropped
<1>1. Len(Present(p)) \in Nat
  BY PresentIs
<1> QED
  BY <1>1 DEF WithPlayers, RoomOK, Room

\* A room with other players, and its owner made sure of.
LEMMA ChangedIs ==
  ASSUME NEW r \in Room, NEW p \in Seq(Player), NEW w, w = Migrated(WithPlayers(r, p))
  PROVE  /\ RoomOK(w) /\ w.players = p /\ w.open = r.open /\ w.dropped = r.dropped
         /\ (\E i \in DOMAIN p : p[i].addr = r.owner /\ ~ p[i].left) => w.owner = r.owner
         /\ Present(p) # <<>> => Hosted(w)
<1> DEFINE v == WithPlayers(r, p)
<1>1. RoomOK(v) /\ v.players = p /\ v.owner = r.owner /\ v.open = r.open /\ v.dropped = r.dropped
  BY WithPlayersIs
<1>2. v \in Room /\ w = Migrated(v)
  BY <1>1 DEF RoomOK
<1> HIDE DEF v
<1>3. /\ w \in Room /\ w.players = v.players /\ w.num_players = v.num_players
      /\ w.open = v.open /\ w.dropped = v.dropped
      /\ Here(v, v.owner) => w.owner = v.owner
      /\ Present(v.players) # <<>> => Hosted(w)
  BY <1>2, MigratedIs
<1> QED
  BY <1>1, <1>3 DEF RoomOK, Here

\* The room without c. His place stays in a live game, and nobody else is touched.
LEMMA WithoutIs ==
  ASSUME NEW r, RoomOK(r), Distinct(r.players), NEW c \in Clients, NEW w, w = Without(r, c)
  PROVE  /\ RoomOK(w) /\ Distinct(w.players) /\ w.open = r.open /\ w.dropped = r.dropped
         /\ Live(r) => /\ DOMAIN w.players = DOMAIN r.players
                       /\ \A i \in DOMAIN r.players :
                            /\ w.players[i].addr = r.players[i].addr
                            /\ w.players[i].left <=> r.players[i].left \/ r.players[i].addr = c
         /\ ~ Live(r) => \A k \in DOMAIN w.players : \E i \in DOMAIN r.players :
                           w.players[k] = r.players[i] /\ r.players[i].addr # c
         /\ \A d : d # c /\ Here(r, d) => Here(w, d)
         /\ r.owner # c /\ Here(r, r.owner) => w.owner = r.owner
         /\ Present(w.players) # <<>> => Hosted(w)
<1> DEFINE p == r.players
           i == Slot(p, c)
           q == CASE i = 0 -> p
                  [] i # 0 /\ Live(r) -> [p EXCEPT ![i].left = TRUE]
                  [] OTHER -> RemoveAt(p, i)
<1>1. p \in Seq(Player) /\ r \in Room
  BY DEF RoomOK, Room
<1>2. w = Migrated(WithPlayers(r, q))
  BY DEF Without
<1>3. /\ i \in Nat
      /\ i # 0 => i \in DOMAIN p /\ p[i].addr = c
      /\ i = 0 => \A j \in DOMAIN p : p[j].addr # c
  BY <1>1, SlotIs
<1> HIDE DEF i
<1>4. /\ q \in Seq(Player) /\ Distinct(q)
      /\ Live(r) => /\ DOMAIN q = DOMAIN p
                    /\ \A j \in DOMAIN p : /\ q[j].addr = p[j].addr
                                           /\ q[j].left <=> p[j].left \/ p[j].addr = c
      /\ ~ Live(r) => \A k \in DOMAIN q : \E j \in DOMAIN p : q[k] = p[j] /\ p[j].addr # c
      /\ \A j \in DOMAIN p : p[j].addr # c => \E k \in DOMAIN q : q[k] = p[j]
  <2>1. CASE i = 0
    <3>1. q = p
      BY <2>1
    <3> QED
      BY <1>1, <1>3, <2>1, <3>1
  <2>2. CASE i # 0 /\ Live(r)
    <3>1. q = [p EXCEPT ![i].left = TRUE]
      BY <2>2
    <3>2. p[i] \in Player /\ p[i].addr = c /\ i \in DOMAIN p
      BY <1>1, <1>3, <2>2
    <3> DEFINE e == [p[i] EXCEPT !.left = TRUE]
    <3>3. e \in Player /\ e.addr = c /\ e.left
      BY <3>2 DEF Player
    <3>4. q = [p EXCEPT ![i] = e]
      BY <3>1, <3>2
    <3> HIDE DEF q, e
    <3>6. /\ q \in Seq(Player) /\ DOMAIN q = DOMAIN p
          /\ \A j \in DOMAIN p : q[j] = IF j = i THEN e ELSE p[j]
      BY <1>1, <3>2, <3>3, <3>4
    <3>7. \A j \in DOMAIN p : p[j].addr = c <=> j = i
      BY <3>2 DEF Distinct
    <3>8. \A j \in DOMAIN p : q[j].addr = p[j].addr
      BY <3>2, <3>3, <3>6
    <3>9. Distinct(q)
      BY <3>6, <3>8 DEF Distinct
    <3>10. \A j \in DOMAIN p : q[j].left <=> p[j].left \/ p[j].addr = c
      BY <3>2, <3>3, <3>6, <3>7
    <3>11. \A j \in DOMAIN p : p[j].addr # c => q[j] = p[j]
      BY <3>2, <3>6
    <3> QED
      BY <2>2, <3>6, <3>8, <3>9, <3>10, <3>11
  <2>3. CASE i # 0 /\ ~ Live(r)
    <3>1. q = RemoveAt(p, i)
      BY <2>3
    <3>2. i \in DOMAIN p /\ p[i].addr = c
      BY <1>3, <2>3
    <3> HIDE DEF q
    <3>3. /\ q \in Seq(Player) /\ Distinct(q)
          /\ \A k \in DOMAIN q : \E j \in DOMAIN p : j # i /\ q[k] = p[j]
          /\ \A j \in DOMAIN p : j # i => \E k \in DOMAIN q : q[k] = p[j]
      BY <1>1, <3>1, <3>2, RemovedIs
    <3>4. \A j \in DOMAIN p : p[j].addr = c <=> j = i
      BY <3>2 DEF Distinct
    <3> QED
      BY <2>3, <3>3, <3>4
  <2> QED
    BY <2>1, <2>2, <2>3
<1> HIDE DEF p, q
<1>5. /\ RoomOK(w) /\ w.players = q /\ w.open = r.open /\ w.dropped = r.dropped
      /\ (\E k \in DOMAIN q : q[k].addr = r.owner /\ ~ q[k].left) => w.owner = r.owner
      /\ Present(q) # <<>> => Hosted(w)
  BY <1>1, <1>2, <1>4, ChangedIs
<1>6. \A d : d # c /\ Here(r, d) => \E k \in DOMAIN q : q[k].addr = d /\ ~ q[k].left
  BY <1>4 DEF Here, p
<1>7. p = r.players /\ q = w.players
  BY <1>5 DEF p
<1>8. \A d : Here(w, d) <=> \E k \in DOMAIN q : q[k].addr = d /\ ~ q[k].left
  BY <1>7 DEF Here
<1>9. r.owner # c /\ Here(r, r.owner) => w.owner = r.owner
  BY <1>5, <1>6
<1>10. RoomOK(w) /\ Distinct(w.players) /\ w.open = r.open /\ w.dropped = r.dropped
  BY <1>4, <1>5, <1>7
<1>11. Live(r) => /\ DOMAIN w.players = DOMAIN r.players
                  /\ \A j \in DOMAIN r.players :
                       /\ w.players[j].addr = r.players[j].addr
                       /\ w.players[j].left <=> r.players[j].left \/ r.players[j].addr = c
  BY <1>4, <1>7
<1>12. ~ Live(r) => \A k \in DOMAIN w.players : \E j \in DOMAIN r.players :
                      w.players[k] = r.players[j] /\ r.players[j].addr # c
  BY <1>4, <1>7
<1>13. Present(w.players) # <<>> => Hosted(w)
  BY <1>5, <1>7
<1> QED
  BY <1>6, <1>8, <1>9, <1>10, <1>11, <1>12, <1>13

\* The list purged of who left.
LEMMA CompactedIs ==
  ASSUME NEW r, RoomOK(r), Distinct(r.players), NEW w, w = WithPlayers(r, Present(r.players))
  PROVE  /\ RoomOK(w) /\ Distinct(w.players)
         /\ w.open = r.open /\ w.dropped = r.dropped /\ w.owner = r.owner
         /\ \A k \in DOMAIN w.players : ~ w.players[k].left
         /\ \A d : Here(r, d) => Here(w, d)
<1>1. r \in Room /\ r.players \in Seq(Player)
  BY DEF RoomOK, Room
<1>2. /\ Present(r.players) \in Seq(Player) /\ Distinct(Present(r.players))
      /\ \A k \in DOMAIN Present(r.players) : ~ Present(r.players)[k].left
      /\ \A i \in DOMAIN r.players : ~ r.players[i].left =>
           \E k \in DOMAIN Present(r.players) : Present(r.players)[k] = r.players[i]
  BY <1>1, PresentIs
<1>3. /\ RoomOK(w) /\ w.players = Present(r.players) /\ w.owner = r.owner
      /\ w.open = r.open /\ w.dropped = r.dropped
  BY <1>1, <1>2, WithPlayersIs
<1> QED
  BY <1>2, <1>3 DEF Here

LEMMA EndedIs ==
  ASSUME NEW r \in Room, Distinct(r.players), NEW w, w = Ended(r)
  PROVE  /\ RoomOK(w) /\ Distinct(w.players) /\ w.open = r.open /\ ~ Live(w)
         /\ \A k \in DOMAIN w.players : ~ w.players[k].left
         /\ \A d : Here(r, d) => Here(w, d)
         /\ Here(r, r.owner) => w.owner = r.owner
         /\ Present(w.players) # <<>> => Hosted(w)
<1> DEFINE v == [r EXCEPT !.dropped = <<>>]
           q == Present(r.players)
<1>0. <<>> \in Seq(BOOLEAN)
  OBVIOUS
<1>1. v \in Room /\ v.players = r.players /\ v.open = r.open /\ v.owner = r.owner /\ v.dropped = <<>>
  BY <1>0 DEF Room
<1>2. r.players \in Seq(Player)
  BY DEF Room
<1>3. /\ q \in Seq(Player) /\ Distinct(q) /\ \A k \in DOMAIN q : ~ q[k].left
      /\ \A i \in DOMAIN r.players : ~ r.players[i].left => \E k \in DOMAIN q : q[k] = r.players[i]
  BY <1>2, PresentIs
<1>4. w = Migrated(WithPlayers(v, q))
  BY DEF Ended
<1> HIDE DEF v, q
<1>5. /\ RoomOK(w) /\ w.players = q /\ w.open = v.open /\ w.dropped = v.dropped
      /\ (\E k \in DOMAIN q : q[k].addr = v.owner /\ ~ q[k].left) => w.owner = v.owner
      /\ Present(q) # <<>> => Hosted(w)
  BY <1>1, <1>3, <1>4, ChangedIs
<1>6. \A d : Here(r, d) => \E k \in DOMAIN q : q[k].addr = d /\ ~ q[k].left
  BY <1>3 DEF Here
<1> QED
  BY <1>1, <1>3, <1>5, <1>6 DEF Here, Live

LEMMA JoinedIs ==
  ASSUME NEW r, RoomOK(r), Distinct(r.players), NEW c \in Clients, NEW w, w = Joined(r, c)
  PROVE  /\ RoomOK(w) /\ Distinct(w.players)
         /\ w.open = r.open /\ w.dropped = r.dropped /\ w.owner = r.owner
         /\ \A i \in DOMAIN r.players : i \in DOMAIN w.players /\ w.players[i] = r.players[i]
         /\ \A k \in DOMAIN w.players : k \notin DOMAIN r.players =>
              w.players[k].addr = c /\ ~ w.players[k].left
         /\ Len(r.players) <= Len(w.players)
<1> DEFINE p == r.players
           n == Len(p)
           m == Member(c)
           q == Append(p, m)
<1>1. /\ r \in Room /\ p \in Seq(Player) /\ r.num_players \in Nat
      /\ r.num_players = Len(Present(p)) /\ Len(Present(p)) \in Nat
  BY PresentIs DEF RoomOK, Room
<1>2. m \in Player /\ m.addr = c /\ ~ m.left
  BY DEF Member, Player
<1>3. CASE Slot(p, c) # 0
  <2>1. w = r
    BY <1>3 DEF Joined
  <2> QED
    BY <1>1, <2>1
<1>4. CASE Slot(p, c) = 0
  <2> HIDE DEF m
  <2>1. \A i \in DOMAIN p : p[i].addr # c
    BY <1>1, <1>4, SlotIs
  <2>2. /\ n \in Nat /\ DOMAIN p = 1 .. n /\ q \in Seq(Player) /\ DOMAIN q = 1 .. n + 1
        /\ Len(q) = n + 1 /\ q[n + 1] = m /\ \A i \in 1 .. n : q[i] = p[i]
    BY <1>1, <1>2
  <2>3. Len(Present(q)) = Len(Present(p)) + 1
    BY <1>1, <1>2, PresentOfAppend
  <2> DEFINE count == r.num_players + 1
  <2>4. count \in Nat /\ w = [r EXCEPT !.players = q, !.num_players = count]
    BY <1>1, <1>4 DEF Joined, m
  <2> HIDE DEF q, n, count
  <2>5. /\ w \in Room /\ w.players = q /\ w.num_players = count
        /\ w.open = r.open /\ w.dropped = r.dropped /\ w.owner = r.owner
    BY <1>1, <2>2, <2>4 DEF Room
  <2>6. \A k \in 1 .. n + 1 : k \in 1 .. n \/ k = n + 1
    BY <2>2
  <2>7. Distinct(q)
    BY <1>2, <2>1, <2>2, <2>6 DEF Distinct
  <2>8. RoomOK(w) /\ Distinct(w.players)
    BY <1>1, <2>3, <2>5, <2>7 DEF RoomOK, count
  <2>9. \A i \in DOMAIN p : i \in DOMAIN q /\ q[i] = p[i]
    BY <2>2
  <2>10. \A k \in DOMAIN q : k \notin DOMAIN p => q[k].addr = c /\ ~ q[k].left
    BY <1>2, <2>2, <2>6
  <2>11. n <= Len(q)
    BY <2>2
  <2> HIDE DEF p
  <2>12. p = r.players
    BY DEF p
  <2> QED
    BY <2>5, <2>8, <2>9, <2>10, <2>11, <2>12 DEF n
<1> QED
  BY <1>3, <1>4

LEMMA PresentOfEmpty == <<>> \in Seq(Player) /\ Len(Present(<<>>)) = 0
<1> DEFINE none == <<>>
<1>1. none \in Seq(Player) /\ DOMAIN none = {}
  OBVIOUS
<1>2. {i \in DOMAIN none : ~ none[i].left} = {} /\ {} \in SUBSET DOMAIN none
  BY <1>1
<1>3. Present(none) = Kept(none, {})
  BY <1>2 DEF Present
<1> HIDE DEF none
<1>4. Len(Kept(none, {})) = Cardinality({})
  BY <1>1, <1>2, KeptIs
<1>5. Len(Present(none)) = 0
  BY <1>3, <1>4, FS_EmptySet
<1> QED
  BY <1>1, <1>5 DEF none

LEMMA NewRoomIs ==
  ASSUME NEW c \in Clients, NEW w,
         w = [open |-> TRUE, owner |-> c, players |-> <<Member(c)>>, num_players |-> 1, dropped |-> <<>>]
  PROVE  /\ RoomOK(w) /\ Distinct(w.players) /\ ~ Live(w) /\ w.owner = c /\ Here(w, c)
         /\ \A i \in DOMAIN w.players : ~ w.players[i].left
<1> DEFINE m == Member(c)
           none == <<>>
           one == <<m>>
<1>1. m \in Player /\ m.addr = c /\ ~ m.left
  BY DEF Member, Player
<1> HIDE DEF m
<1>2. none \in Seq(Player) /\ Len(Present(none)) = 0
  BY PresentOfEmpty
<1>3. Append(none, m) = one /\ one \in Seq(Player) /\ DOMAIN one = {1} /\ one[1] = m
  BY <1>1
<1> HIDE DEF none, one
<1>4. Len(Present(Append(none, m))) = Len(Present(none)) + 1
  BY <1>1, <1>2, PresentOfAppend
<1>5. Len(Present(one)) = 1
  BY <1>2, <1>3, <1>4
<1>6. w = [open |-> TRUE, owner |-> c, players |-> one, num_players |-> 1, dropped |-> none]
  BY DEF m, one, none
<1>7. w \in Room /\ w.players = one /\ w.num_players = 1 /\ w.owner = c /\ w.dropped = none
  <2>1. none \in Seq(BOOLEAN) /\ c \in Tasks
    BY DEF Tasks, none
  <2> QED
    BY <1>3, <1>6, <2>1 DEF Room
<1> QED
  BY <1>1, <1>3, <1>5, <1>7 DEF RoomOK, Distinct, Here, Live, none

LEMMA UnusedIs == RoomOK(Unused) /\ Distinct(Unused.players) /\ ~ Live(Unused) /\ Unused.players = <<>>
<1>1. <<>> \in Seq(Player) /\ <<>> \in Seq(BOOLEAN) /\ Len(Present(<<>>)) = 0
  BY PresentOfEmpty
<1> QED
  BY <1>1 DEF Unused, RoomOK, Room, Distinct, Live, Tasks

-----------------------------------------------------------------------------
(***************************************************************************)
(* What a step changes: one handler moves, and one room at most.           *)
(***************************************************************************)
RoomsOK == DOMAIN game = Games /\ \A g \in Games : RoomOK(game[g]) /\ Distinct(game[g].players)
TasksOK == DOMAIN task = Tasks /\ \A t \in Tasks : TaskOK(t, task[t])
ClientOK == client \in [Clients -> [registered : BOOLEAN, game : Games \cup {NoGame}]]

Moves(t) == /\ DOMAIN task' = Tasks /\ TaskOK(t, task'[t])
            /\ \A u \in Tasks : u # t => task'[u] = task[u]
HostKept == \A g \in Games : Hosted(game[g]) /\ Present(game'[g].players) # <<>> => Hosted(game'[g])

LEMMA BaseIs == /\ Base <=> ClientOK /\ RoomsOK /\ TasksOK
                /\ Base' <=> ClientOK' /\ RoomsOK' /\ TasksOK'
BY DEF Base, ClientOK, RoomsOK, TasksOK

LEMMA MovesIs == ASSUME TasksOK, NEW t \in Tasks, Moves(t) PROVE TasksOK'
BY DEF TasksOK, Moves

LEMMA IdleIs == /\ Idle.at = "idle" /\ Idle.reason = "none" /\ \A t \in Tasks : TaskOK(t, Idle)
BY DEF Idle, Handler, TaskOK, Position, Places, Starting, Entering, Leaving, Reasons, Tasks

LEMMA HandlerIs ==
  ASSUME NEW t \in Tasks, NEW at \in Places, NEW c \in Clients, NEW g \in Games \cup {NoGame},
         NEW reason \in Reasons, NEW h, h = Handler(at, c, g, reason)
  PROVE  /\ h \in Position /\ h.at = at /\ h.who = c /\ h.game = g /\ h.reason = reason /\ h.slots = 0
         /\ TaskOK(t, h) <=>
              /\ at = "idle" => h = Idle
              /\ at \notin {"idle", "dead", "unregistering"} => g \in Games
              /\ at \in Starting \cup Entering => t \in Clients /\ c = t
              /\ at = "dead" \/ reason = "kick" => t \in Clients
              /\ at \in Leaving => t = Cleanup \/ reason = "kick" \/ c = t
<1>1. /\ h \in Position /\ h.at = at /\ h.who = c /\ h.game = g /\ h.reason = reason /\ h.slots = 0
  BY DEF Handler, Position, Tasks
<1> QED
  BY <1>1 DEF TaskOK

LEMMA BeginIs ==
  ASSUME TasksOK, NEW t \in Tasks, NEW h, TaskOK(t, h), Begin(t, h)
  PROVE  Moves(t) /\ task'[t] = h
BY DEF TasksOK, Begin, Moves

LEMMA GotoIs ==
  ASSUME TasksOK, NEW t \in Tasks, NEW at \in Places \ {"idle"}, Goto(t, at),
         task[t].at # "idle",
         task[t].at \in {"dead", "unregistering"} => at \in {"dead", "unregistering"},
         at \in Starting \cup Entering \cup {"dead"} => task[t].at \in Starting \cup Entering,
         at \in Leaving => task[t].at \in Leaving
  PROVE  /\ Moves(t)
         /\ task'[t].at = at /\ task'[t].who = task[t].who /\ task'[t].game = task[t].game
         /\ task'[t].reason = task[t].reason /\ task'[t].slots = task[t].slots
<1> DEFINE h == [task[t] EXCEPT !.at = at]
<1>1. TaskOK(t, task[t]) /\ task[t] \in Position
  BY DEF TasksOK, TaskOK
<1>2. /\ h \in Position /\ h.at = at /\ h.who = task[t].who /\ h.game = task[t].game
      /\ h.reason = task[t].reason /\ h.slots = task[t].slots
  BY <1>1 DEF Position
<1>3. Begin(t, h)
  BY DEF Goto, Begin
<1> HIDE DEF h
<1>4. TaskOK(t, h)
  BY <1>1, <1>2 DEF TaskOK
<1> QED
  BY <1>2, <1>3, <1>4, BeginIs

LEMMA EndIs ==
  ASSUME TasksOK, NEW t \in Tasks, End(t), task[t].at # "idle"
  PROVE  /\ Moves(t)
         /\ \/ task'[t] = Idle
            \/ task'[t].at = "unregistering" /\ task'[t].who = task[t].who
<1>1. CASE task[t].reason = "bye"
  <2> DEFINE h == [task[t] EXCEPT !.at = "unregistering"]
  <2>1. TaskOK(t, task[t]) /\ task[t] \in Position
    BY DEF TasksOK, TaskOK
  <2>2. /\ h \in Position /\ h.at = "unregistering" /\ h.who = task[t].who /\ h.reason = "bye"
    BY <1>1, <2>1 DEF Position, Places
  <2>3. Begin(t, h)
    BY <1>1 DEF End, Begin
  <2> HIDE DEF h
  <2>4. TaskOK(t, h)
    BY <2>1, <2>2 DEF TaskOK, Starting, Entering, Leaving
  <2> QED
    BY <2>2, <2>3, <2>4, BeginIs
<1>2. CASE task[t].reason # "bye"
  <2>1. Begin(t, Idle)
    BY <1>2 DEF End, Begin
  <2> QED
    BY <2>1, BeginIs, IdleIs
<1> QED
  BY <1>1, <1>2

LEMMA RoomChanges ==
  ASSUME RoomsOK, NEW g \in Games, NEW w, RoomOK(w), Distinct(w.players),
         Hosted(game[g]) /\ Present(w.players) # <<>> => Hosted(w),
         game' = [game EXCEPT ![g] = w]
  PROVE  /\ RoomsOK' /\ HostKept
         /\ game'[g] = w /\ \A k \in Games : k # g => game'[k] = game[k]
<1>1. game'[g] = w /\ DOMAIN game' = Games /\ \A k \in Games : k # g => game'[k] = game[k]
  BY DEF RoomsOK
<1>2. RoomsOK'
  BY <1>1 DEF RoomsOK
<1>3. HostKept
  <2> SUFFICES ASSUME NEW k \in Games, Hosted(game[k]), Present(game'[k].players) # <<>>
               PROVE  Hosted(game'[k])
    BY DEF HostKept
  <2> QED
    BY <1>1
<1> QED
  BY <1>1, <1>2, <1>3

LEMMA RoomsStay == ASSUME RoomsOK, UNCHANGED game PROVE RoomsOK' /\ HostKept
BY DEF RoomsOK, HostKept

LEMMA HostedIs == \A r : Hosted(r) <=> Here(r, r.owner)
BY DEF Hosted, Here

\* A client's game_id is one of a room, or none.
LEMMA ClientIs ==
  ASSUME ClientOK, NEW c \in Clients
  PROVE  client[c].registered \in BOOLEAN /\ client[c].game \in Games \cup {NoGame}
BY DEF ClientOK

-----------------------------------------------------------------------------
(***************************************************************************)
(* Base is inductive, and every handler keeps a host.                      *)
(***************************************************************************)
LEMMA BaseInit == Init => Base
<1> SUFFICES ASSUME Init PROVE Base
  OBVIOUS
<1>1. ClientOK
  BY DEF Init, ClientOK
<1>2. RoomsOK
  BY UnusedIs DEF Init, RoomsOK
<1>3. TasksOK
  BY IdleIs DEF Init, TasksOK
<1> QED
  BY <1>1, <1>2, <1>3, BaseIs

LEMMA FreeIs == ASSUME NEW t \in Tasks, Free(t) PROVE task[t].at = "idle"
BY IdleIs DEF Free

LEMMA InRoomIs ==
  ASSUME ClientOK, NEW c \in Clients, InRoom(c)
  PROVE  RoomOf(c) \in Games /\ game[RoomOf(c)].open
BY ClientIs DEF InRoom, RoomOf

LEMMA CreateBase ==
  ASSUME Base, NEW c \in Clients, Create(c)
  PROVE  Base' /\ HostKept /\ Moves(c)
<1>1. ClientOK /\ RoomsOK /\ TasksOK
  BY BaseIs
<1>2. PICK g \in Games :
        /\ game[g] = Unused
        /\ game' = [game EXCEPT ![g] = [open |-> TRUE, owner |-> c, players |-> <<Member(c)>>,
                                        num_players |-> 1, dropped |-> <<>>]]
        /\ Begin(c, Handler("entering", c, g, "create"))
  BY DEF Create
<1> DEFINE w == [open |-> TRUE, owner |-> c, players |-> <<Member(c)>>, num_players |-> 1,
                 dropped |-> <<>>]
           h == Handler("entering", c, g, "create")
<1>3. RoomOK(w) /\ Distinct(w.players) /\ Here(w, w.owner)
  BY NewRoomIs
<1>4. c \in Tasks /\ TaskOK(c, h)
  BY HandlerIs DEF Tasks, Places, Reasons, Starting, Entering, Leaving
<1> HIDE DEF w, h
<1>5. game' = [game EXCEPT ![g] = w] /\ Begin(c, h)
  BY <1>2 DEF w, h
<1>6. Moves(c) /\ TasksOK'
  BY <1>1, <1>4, <1>5, BeginIs, MovesIs
<1>7. RoomsOK' /\ HostKept
  BY <1>1, <1>3, <1>5, HostedIs, RoomChanges
<1>8. ClientOK'
  BY <1>1 DEF Create, ClientOK
<1> QED
  BY <1>6, <1>7, <1>8, BaseIs

\* A handler that begins, and changes nothing yet.
LEMMA BeginBase ==
  ASSUME Base, NEW t \in Tasks, NEW c \in Clients, NEW g \in Games \cup {NoGame},
         NEW at \in Places \ {"idle"}, NEW reason \in Reasons, Begin(t, Handler(at, c, g, reason)),
         UNCHANGED <<client, game>>,
         at \notin {"dead", "unregistering"} => g \in Games,
         at \in Starting \cup Entering => t \in Clients /\ c = t,
         at = "dead" \/ reason = "kick" => t \in Clients,
         at \in Leaving => t = Cleanup \/ reason = "kick" \/ c = t
  PROVE  /\ Base' /\ HostKept /\ Moves(t)
         /\ task'[t].at = at /\ task'[t].who = c /\ task'[t].game = g /\ task'[t].reason = reason
<1>1. ClientOK /\ RoomsOK /\ TasksOK
  BY BaseIs
<1> DEFINE h == Handler(at, c, g, reason)
<1>2. TaskOK(t, h) /\ h.at = at /\ h.who = c /\ h.game = g /\ h.reason = reason
  BY HandlerIs
<1> HIDE DEF h
<1>3. Moves(t) /\ task'[t] = h /\ TasksOK'
  BY <1>1, <1>2, BeginIs, MovesIs DEF h
<1>4. RoomsOK' /\ HostKept /\ ClientOK'
  BY <1>1, RoomsStay DEF ClientOK
<1> QED
  BY <1>2, <1>3, <1>4, BaseIs

LEMMA QuitBase ==
  ASSUME Base, NEW t \in Tasks, NEW c \in Clients, NEW reason \in {"quit", "bye"}, Quit(t, c, reason),
         t = Cleanup \/ c = t
  PROVE  Base' /\ HostKept /\ Moves(t)
<1>1. ClientOK
  BY BaseIs
<1>2. CASE RoomOf(c) # NoGame /\ game[RoomOf(c)].open
  <2>1. RoomOf(c) \in Games
    BY <1>1, <1>2, ClientIs DEF RoomOf
  <2>2. Begin(t, Handler("leaving", c, RoomOf(c), reason)) /\ UNCHANGED <<client, game>>
    BY <1>2 DEF Quit
  <2> HIDE DEF Begin, RoomOf
  <2> QED
    BY <2>1, <2>2, BeginBase DEF Places, Reasons, Starting, Entering, Leaving
<1>3. CASE ~ (RoomOf(c) # NoGame /\ game[RoomOf(c)].open)
  <2>1. Begin(t, Handler("unregistering", c, NoGame, reason)) /\ UNCHANGED <<client, game>>
    BY <1>3 DEF Quit
  <2> HIDE DEF Begin
  <2> QED
    BY <2>1, BeginBase DEF Places, Reasons, Starting, Entering, Leaving
<1> QED
  BY <1>2, <1>3

LEMMA BeginsBase ==
  ASSUME Base, NEW c \in Clients,
         \/ Start(c) \/ DropGame(c)
         \/ \E g \in Games : Join(c, g)
         \/ \E k \in Clients : KickUser(c, k)
  PROVE  Base' /\ HostKept /\ Moves(c)
<1>1. ClientOK /\ c \in Tasks
  BY BaseIs DEF Tasks
<1>2. CASE Start(c)
  <2>1. /\ RoomOf(c) \in Games /\ Begin(c, Handler("starting", c, RoomOf(c), "start"))
        /\ UNCHANGED <<client, game>>
    BY <1>1, <1>2, InRoomIs DEF Start
  <2> QED
    BY <1>1, <2>1, BeginBase DEF Places, Reasons, Starting, Entering, Leaving
<1>3. CASE DropGame(c)
  <2>1. /\ RoomOf(c) \in Games /\ Begin(c, Handler("dropping", c, RoomOf(c), "drop"))
        /\ UNCHANGED <<client, game>>
    BY <1>1, <1>3, InRoomIs DEF DropGame
  <2> QED
    BY <1>1, <2>1, BeginBase DEF Places, Reasons, Starting, Entering, Leaving
<1>4. CASE \E g \in Games : Join(c, g)
  <2>1. PICK g \in Games : Begin(c, Handler("entering", c, g, "join")) /\ UNCHANGED <<client, game>>
    BY <1>4 DEF Join
  <2> QED
    BY <1>1, <2>1, BeginBase DEF Places, Reasons, Starting, Entering, Leaving
<1>5. CASE \E k \in Clients : KickUser(c, k)
  <2>1. PICK k \in Clients : /\ RoomOf(c) \in Games /\ Begin(c, Handler("leaving", k, RoomOf(c), "kick"))
                             /\ UNCHANGED <<client, game>>
    BY <1>1, <1>5, InRoomIs DEF KickUser
  <2> QED
    BY <1>1, <2>1, BeginBase DEF Places, Reasons, Starting, Entering, Leaving
<1> QED
  BY <1>2, <1>3, <1>4, <1>5

LEMMA ActsIs ==
  ASSUME TasksOK, NEW t \in Tasks, task[t].at \notin {"idle", "dead", "unregistering"}
  PROVE  /\ task[t].who \in Clients /\ task[t].game \in Games /\ task[t].slots \in Nat
         /\ task[t] \in Position
BY DEF TasksOK, TaskOK, Position

\* LookUp, when it finds the room.
LEMMA FoundIs ==
  ASSUME TasksOK, NEW t \in Tasks, NEW from \in Starting \cup Entering, At(t, from),
         NEW next \in Starting \cup Entering, NEW g \in Games,
         task' = [task EXCEPT ![t].at = next, ![t].game = g]
  PROVE  /\ Moves(t)
         /\ task'[t].at = next /\ task'[t].who = task[t].who /\ task'[t].game = g
         /\ task'[t].reason = task[t].reason /\ task'[t].slots = task[t].slots
<1> DEFINE h == [task[t] EXCEPT !.at = next, !.game = g]
<1>1. TaskOK(t, task[t]) /\ task[t] \in Position /\ DOMAIN task = Tasks
  BY DEF TasksOK, TaskOK
<1>2. /\ h \in Position /\ h.at = next /\ h.who = task[t].who /\ h.game = g
      /\ h.reason = task[t].reason /\ h.slots = task[t].slots
  BY <1>1 DEF Position, Places, Starting, Entering
<1>3. Begin(t, h)
  BY <1>1 DEF Begin
<1> HIDE DEF h
<1>4. TaskOK(t, h)
  BY <1>1, <1>2 DEF TaskOK, At, Starting, Entering, Leaving
<1> QED
  BY <1>2, <1>3, <1>4, BeginIs

\* Copy and FindSlot, when they find what they look for.
LEMMA TakesIs ==
  ASSUME TasksOK, NEW t \in Tasks, NEW at \in {"sizing", "marking"}, NEW n \in Nat,
         At(t, IF at = "sizing" THEN "copying" ELSE "dropping"),
         task' = [task EXCEPT ![t].at = at, ![t].slots = n]
  PROVE  /\ Moves(t)
         /\ task'[t].at = at /\ task'[t].who = task[t].who /\ task'[t].game = task[t].game
         /\ task'[t].reason = task[t].reason /\ task'[t].slots = n
<1> DEFINE h == [task[t] EXCEPT !.at = at, !.slots = n]
<1>1. TaskOK(t, task[t]) /\ task[t] \in Position /\ DOMAIN task = Tasks
  BY DEF TasksOK, TaskOK
<1>2. /\ h \in Position /\ h.at = at /\ h.who = task[t].who /\ h.game = task[t].game
      /\ h.reason = task[t].reason /\ h.slots = n
  BY <1>1 DEF Position, Places
<1>3. Begin(t, h)
  BY <1>1 DEF Begin
<1> HIDE DEF h
<1>4. TaskOK(t, h)
  BY <1>1, <1>2 DEF TaskOK, At, Starting, Entering, Leaving
<1> QED
  BY <1>2, <1>3, <1>4, BeginIs

LEMMA LookUpBase ==
  ASSUME Base, NEW c \in Clients, NEW from, NEW next, LookUp(c, from, next),
         <<from, next>> \in {<<"joining", "pushing">>, <<"starting", "compacting">>,
                             <<"sizing", "installing">>}
  PROVE  /\ Base' /\ HostKept /\ Moves(c) /\ UNCHANGED <<client, game>>
         /\ \/ task'[c].at \in {"idle", "unregistering", "dead"}
            \/ /\ client[c].registered /\ client[c].game \in Games /\ game[client[c].game].open
               /\ task'[c].at = next /\ task'[c].who = task[c].who /\ task'[c].game = client[c].game
               /\ task'[c].reason = task[c].reason /\ task'[c].slots = task[c].slots
<1>1. ClientOK /\ RoomsOK /\ TasksOK /\ c \in Tasks
  BY BaseIs DEF Tasks
<1>2. /\ At(c, from) /\ from \in Starting \cup Entering /\ next \in Starting \cup Entering
      /\ UNCHANGED <<client, game>> /\ task[c].at = from /\ from # "idle"
  BY DEF LookUp, Starting, Entering, At
<1>3. RoomsOK' /\ HostKept /\ ClientOK'
  BY <1>1, <1>2, RoomsStay DEF ClientOK
<1>4. CASE ~ client[c].registered \/ client[c].game = NoGame
  <2>1. End(c)
    BY <1>4 DEF LookUp, RoomOf
  <2>2. Moves(c) /\ (task'[c] = Idle \/ task'[c].at = "unregistering")
    BY <1>1, <1>2, <2>1, EndIs
  <2> QED
    BY <1>1, <1>2, <1>3, <2>2, IdleIs, MovesIs, BaseIs
<1>5. CASE client[c].registered /\ client[c].game # NoGame /\ ~ game[client[c].game].open
  <2>1. Goto(c, "dead")
    BY <1>5 DEF LookUp, RoomOf
  <2>2. Moves(c) /\ task'[c].at = "dead"
    BY <1>1, <1>2, <2>1, GotoIs DEF Places, Starting, Entering, Leaving
  <2> QED
    BY <1>1, <1>2, <1>3, <2>2, MovesIs, BaseIs
<1>6. CASE client[c].registered /\ client[c].game # NoGame /\ game[client[c].game].open
  <2> DEFINE g == client[c].game
  <2>1. task' = [task EXCEPT ![c].at = next, ![c].game = g]
    BY <1>6 DEF LookUp, RoomOf
  <2>2. g \in Games
    BY <1>1, <1>6, ClientIs
  <2> HIDE DEF g
  <2>3. /\ Moves(c) /\ task'[c].at = next /\ task'[c].who = task[c].who /\ task'[c].game = g
        /\ task'[c].reason = task[c].reason /\ task'[c].slots = task[c].slots
    <3> HIDE DEF LookUp
    <3> QED
      BY <1>1, <1>2, <2>1, <2>2, FoundIs, ZenonT(30)
  <2> QED
    BY <1>1, <1>2, <1>3, <1>6, <2>2, <2>3, MovesIs, BaseIs DEF g
<1> QED
  BY <1>4, <1>5, <1>6

LEMMA EnterBase ==
  ASSUME Base, NEW c \in Clients, Enter(c)
  PROVE  /\ Base' /\ HostKept /\ Moves(c) /\ UNCHANGED game
         /\ task'[c].at \in {"idle", "unregistering", "joining"}
<1>1. ClientOK /\ RoomsOK /\ TasksOK /\ c \in Tasks
  BY BaseIs DEF Tasks
<1>2. At(c, "entering") /\ task[c].at = "entering" /\ task[c].game \in Games /\ UNCHANGED game
  BY <1>1, ActsIs DEF Enter, At
<1>3. ClientOK'
  BY <1>1, <1>2 DEF Enter, ClientOK
<1>4. Moves(c) /\ task'[c].at \in {"idle", "unregistering", "joining"}
  <2>1. CASE Goto(c, "joining")
    BY <1>1, <1>2, <2>1, GotoIs DEF Places, Starting, Entering, Leaving
  <2>2. CASE End(c)
    BY <1>1, <1>2, <2>2, EndIs, IdleIs
  <2> QED
    BY <2>1, <2>2 DEF Enter
<1> QED
  BY <1>1, <1>2, <1>3, <1>4, RoomsStay, MovesIs, BaseIs

LEMMA JoinRoomBase ==
  ASSUME Base, NEW c \in Clients, JoinRoom(c)
  PROVE  /\ Base' /\ HostKept /\ Moves(c) /\ UNCHANGED client
         /\ task'[c].at \in {"idle", "unregistering"}
         /\ task[c].game \in Games /\ game'[task[c].game] = Joined(game[task[c].game], c)
         /\ \A k \in Games : k # task[c].game => game'[k] = game[k]
<1> DEFINE g == task[c].game
           w == Joined(game[g], c)
<1>1. ClientOK /\ RoomsOK /\ TasksOK /\ c \in Tasks
  BY BaseIs DEF Tasks
<1>2. task[c].at = "pushing" /\ g \in Games /\ End(c) /\ UNCHANGED client
  BY <1>1, ActsIs DEF JoinRoom, At
<1>3. game' = [game EXCEPT ![g] = w]
  BY DEF JoinRoom
<1> HIDE DEF g
<1>4. /\ RoomOK(w) /\ Distinct(w.players) /\ w.owner = game[g].owner
      /\ \A i \in DOMAIN game[g].players : i \in DOMAIN w.players /\ w.players[i] = game[g].players[i]
  BY <1>1, <1>2, JoinedIs DEF RoomsOK
<1> HIDE DEF w
<1>5. Here(game[g], game[g].owner) => Here(w, w.owner)
  BY <1>4 DEF Here
<1>6. Moves(c) /\ task'[c].at \in {"idle", "unregistering"}
  BY <1>1, <1>2, EndIs, IdleIs
<1>7. RoomsOK' /\ HostKept /\ game'[g] = w /\ \A k \in Games : k # g => game'[k] = game[k]
  BY <1>1, <1>2, <1>3, <1>4, <1>5, HostedIs, RoomChanges
<1>8. ClientOK'
  BY <1>1, <1>2 DEF ClientOK
<1> QED
  BY <1>1, <1>2, <1>6, <1>7, <1>8, MovesIs, BaseIs DEF g, w

LEMMA CompactBase ==
  ASSUME Base, NEW c \in Clients, Compact(c)
  PROVE  /\ Base' /\ HostKept /\ Moves(c) /\ UNCHANGED client
         /\ task'[c].at = "copying" /\ task'[c].who = task[c].who /\ task'[c].game = task[c].game
         /\ task[c].game \in Games
         /\ game'[task[c].game] = WithPlayers(game[task[c].game], Present(game[task[c].game].players))
         /\ \A k \in Games : k # task[c].game => game'[k] = game[k]
<1> DEFINE g == task[c].game
           w == WithPlayers(game[g], Present(game[g].players))
<1>1. ClientOK /\ RoomsOK /\ TasksOK /\ c \in Tasks
  BY BaseIs DEF Tasks
<1>2. task[c].at = "compacting" /\ g \in Games /\ Goto(c, "copying") /\ UNCHANGED client
  BY <1>1, ActsIs DEF Compact, At
<1>3. game' = [game EXCEPT ![g] = w]
  BY DEF Compact
<1> HIDE DEF g
<1>4. RoomOK(w) /\ Distinct(w.players) /\ w.owner = game[g].owner /\ \A d : Here(game[g], d) => Here(w, d)
  BY <1>1, <1>2, CompactedIs DEF RoomsOK
<1> HIDE DEF w
<1>5. /\ Moves(c) /\ task'[c].at = "copying" /\ task'[c].who = task[c].who /\ task'[c].game = g
  BY <1>1, <1>2, GotoIs DEF Places, Starting, Entering, Leaving, g
<1>6. RoomsOK' /\ HostKept /\ game'[g] = w /\ \A k \in Games : k # g => game'[k] = game[k]
  BY <1>1, <1>2, <1>3, <1>4, HostedIs, RoomChanges
<1>7. ClientOK'
  BY <1>1, <1>2 DEF ClientOK
<1> QED
  BY <1>1, <1>2, <1>5, <1>6, <1>7, MovesIs, BaseIs DEF g, w

LEMMA CopyBase ==
  ASSUME Base, NEW c \in Clients, Copy(c)
  PROVE  /\ Base' /\ HostKept /\ Moves(c) /\ UNCHANGED <<client, game>>
         /\ \/ task'[c].at \in {"idle", "unregistering"}
            \/ /\ client[c].game \in Games
               /\ task'[c].at = "sizing" /\ task'[c].who = task[c].who /\ task'[c].game = task[c].game
               /\ task'[c].slots = Len(game[client[c].game].players)
<1>1. ClientOK /\ RoomsOK /\ TasksOK /\ c \in Tasks
  BY BaseIs DEF Tasks
<1>2. At(c, "copying") /\ task[c].at = "copying" /\ UNCHANGED <<client, game>>
  BY DEF Copy, At
<1>3. CASE client[c].registered /\ RoomOf(c) # NoGame /\ game[RoomOf(c)].open
  <2> DEFINE n == Len(game[client[c].game].players)
  <2>1. client[c].game \in Games
    BY <1>1, <1>3, ClientIs DEF RoomOf
  <2>2. n \in Nat
    BY <1>1, <2>1 DEF RoomsOK, RoomOK, Room
  <2>3. task' = [task EXCEPT ![c].at = "sizing", ![c].slots = n]
    BY <1>3 DEF Copy, RoomOf
  <2> HIDE DEF n
  <2>4. /\ Moves(c) /\ task'[c].at = "sizing" /\ task'[c].who = task[c].who
        /\ task'[c].game = task[c].game /\ task'[c].slots = n
    BY <1>1, <1>2, <2>2, <2>3, TakesIs
  <2> QED
    BY <1>1, <1>2, <2>1, <2>4, RoomsStay, MovesIs, BaseIs DEF ClientOK, n
<1>4. CASE ~ (client[c].registered /\ RoomOf(c) # NoGame /\ game[RoomOf(c)].open)
  <2>1. End(c)
    BY <1>4 DEF Copy
  <2>2. Moves(c) /\ task'[c].at \in {"idle", "unregistering"}
    BY <1>1, <1>2, <2>1, EndIs, IdleIs
  <2> QED
    BY <1>1, <1>2, <2>2, RoomsStay, MovesIs, BaseIs DEF ClientOK
<1> QED
  BY <1>3, <1>4

\* The engine of a room is another: nothing but `dropped` changes.
LEMMA EngineIs ==
  ASSUME NEW r, RoomOK(r), NEW d \in Seq(BOOLEAN), NEW w, w = [r EXCEPT !.dropped = d]
  PROVE  /\ RoomOK(w) /\ w.dropped = d
         /\ w.players = r.players /\ w.owner = r.owner /\ w.open = r.open /\ w.num_players = r.num_players
BY DEF RoomOK, Room

LEMMA InstallBase ==
  ASSUME Base, NEW c \in Clients, Install(c)
  PROVE  /\ Base' /\ HostKept /\ Moves(c) /\ UNCHANGED client
         /\ task'[c].at \in {"idle", "unregistering"}
         /\ task[c].game \in Games
         /\ LET r == game[task[c].game]
                w == game'[task[c].game]
            IN /\ w.players = r.players /\ w.owner = r.owner /\ w.open = r.open
               /\ w.dropped = [i \in 1 .. task[c].slots |-> FALSE] /\ Len(w.dropped) = task[c].slots
         /\ \A k \in Games : k # task[c].game => game'[k] = game[k]
<1> DEFINE g == task[c].game
           n == task[c].slots
           d == [i \in 1 .. n |-> FALSE]
           w == [game[g] EXCEPT !.dropped = d]
<1>1. ClientOK /\ RoomsOK /\ TasksOK /\ c \in Tasks
  BY BaseIs DEF Tasks
<1>2. task[c].at = "installing" /\ g \in Games /\ n \in Nat /\ End(c) /\ UNCHANGED client
  BY <1>1, ActsIs DEF Install, At
<1>3. game' = [game EXCEPT ![g] = w]
  BY DEF Install
<1> HIDE DEF g, n
<1>4. d \in Seq(BOOLEAN) /\ Len(d) = n
  <2>1. d \in [1 .. n -> BOOLEAN]
    OBVIOUS
  <2> QED
    BY <1>2, <2>1
<1> HIDE DEF d
<1>5. RoomOK(game[g]) /\ Distinct(game[g].players)
  BY <1>1, <1>2 DEF RoomsOK
<1>6. /\ RoomOK(w) /\ w.dropped = d
      /\ w.players = game[g].players /\ w.owner = game[g].owner /\ w.open = game[g].open
  BY <1>4, <1>5, EngineIs
<1> HIDE DEF w
<1>7. RoomsOK' /\ HostKept /\ game'[g] = w /\ \A k \in Games : k # g => game'[k] = game[k]
  BY <1>1, <1>2, <1>3, <1>5, <1>6, RoomChanges DEF Hosted
<1>8. Moves(c) /\ task'[c].at \in {"idle", "unregistering"}
  BY <1>1, <1>2, EndIs, IdleIs
<1>9. Base'
  BY <1>1, <1>2, <1>7, <1>8, MovesIs, BaseIs DEF ClientOK
<1> QED
  BY <1>2, <1>4, <1>6, <1>7, <1>8, <1>9 DEF g, n, d

LEMMA LeaveBase ==
  ASSUME Base, NEW t \in Tasks, Leave(t)
  PROVE  /\ Base' /\ HostKept /\ Moves(t) /\ UNCHANGED game
         /\ task[t].who \in Clients /\ task[t].game \in Games
         /\ \/ task'[t].at \in {"idle", "unregistering"}
            \/ /\ task'[t].at = "removing" /\ task'[t].who = task[t].who /\ task'[t].game = task[t].game
               /\ task'[t].reason = task[t].reason
               /\ ~ client'[task[t].who].registered \/ client'[task[t].who].game = NoGame
               /\ task[t].reason # "kick" => client'[task[t].who].game = NoGame
<1>1. ClientOK /\ RoomsOK /\ TasksOK
  BY BaseIs
<1> DEFINE c == task[t].who
<1>2. At(t, "leaving") /\ task[t].at = "leaving" /\ c \in Clients /\ task[t].game \in Games
  BY <1>1, ActsIs DEF Leave, At
<1>3. ClientOK'
  BY <1>1, <1>2 DEF Leave, ClientOK
<1>4. Goto(t, "removing") =>
        /\ Moves(t) /\ task'[t].at = "removing" /\ task'[t].who = c /\ task'[t].game = task[t].game
        /\ task'[t].reason = task[t].reason
  BY <1>1, <1>2, GotoIs DEF Places, Starting, Entering, Leaving
<1>5. End(t) => Moves(t) /\ task'[t].at \in {"idle", "unregistering"}
  BY <1>1, <1>2, EndIs, IdleIs
<1>6. \/ /\ client'[c].game = NoGame /\ Goto(t, "removing")
      \/ /\ client' = client /\ ~ client[c].registered
         /\ \/ task[t].reason = "kick" /\ Goto(t, "removing")
            \/ End(t)
  BY <1>1, <1>2 DEF Leave, ClientOK
<1>7. Moves(t)
  BY <1>4, <1>5, <1>6
<1>8. Base' /\ HostKept /\ UNCHANGED game
  BY <1>1, <1>3, <1>7, RoomsStay, MovesIs, BaseIs DEF Leave
<1> QED
  BY <1>2, <1>4, <1>5, <1>6, <1>7, <1>8

LEMMA TakeOffBase ==
  ASSUME Base, NEW t \in Tasks, TakeOff(t)
  PROVE  /\ Base' /\ HostKept /\ Moves(t) /\ UNCHANGED client
         /\ task[t].who \in Clients /\ task[t].game \in Games
         /\ task'[t].at \in {"dropping", "closing", "telling"}
         /\ task'[t].who = task[t].who /\ task'[t].game = task[t].game
         /\ game'[task[t].game] = Without(game[task[t].game], task[t].who)
         /\ Live(game'[task[t].game]) => task'[t].at = "dropping"
         /\ \A k \in Games : k # task[t].game => game'[k] = game[k]
<1> DEFINE g == task[t].game
           c == task[t].who
           w == Without(game[g], c)
<1>1. ClientOK /\ RoomsOK /\ TasksOK
  BY BaseIs
<1>2. At(t, "removing") /\ task[t].at = "removing" /\ c \in Clients /\ g \in Games
  BY <1>1, ActsIs DEF TakeOff, At
<1>3. game' = [game EXCEPT ![g] = w] /\ UNCHANGED client
  BY DEF TakeOff
<1>4. \/ Goto(t, "dropping")
      \/ ~ Live(w) /\ (Goto(t, "closing") \/ Goto(t, "telling"))
  BY DEF TakeOff
<1> HIDE DEF g, c
<1>5. RoomOK(game[g]) /\ Distinct(game[g].players)
  BY <1>1, <1>2 DEF RoomsOK
<1>6. RoomOK(w) /\ Distinct(w.players) /\ (Present(w.players) # <<>> => Hosted(w))
  BY <1>2, <1>5, WithoutIs
<1> HIDE DEF w
<1>7. RoomsOK' /\ HostKept /\ game'[g] = w /\ \A k \in Games : k # g => game'[k] = game[k]
  BY <1>1, <1>2, <1>3, <1>6, RoomChanges
<1>8. \A at \in {"dropping", "closing", "telling"} : Goto(t, at) =>
        Moves(t) /\ task'[t].at = at /\ task'[t].who = c /\ task'[t].game = g
  BY <1>1, <1>2, GotoIs DEF Places, Starting, Entering, Leaving, c, g
<1>9. /\ Moves(t) /\ task'[t].at \in {"dropping", "closing", "telling"}
      /\ task'[t].who = c /\ task'[t].game = g
      /\ Live(w) => task'[t].at = "dropping"
  BY <1>4, <1>8
<1>10. Base'
  BY <1>1, <1>3, <1>7, <1>9, MovesIs, BaseIs DEF ClientOK
<1>11. g = task[t].game /\ c = task[t].who /\ w = Without(game[g], c)
  BY DEF g, c, w
<1> QED
  BY <1>2, <1>3, <1>7, <1>9, <1>10, <1>11

LEMMA TellBase ==
  ASSUME Base, NEW t \in Tasks, Tell(t)
  PROVE  Base' /\ HostKept /\ Moves(t) /\ UNCHANGED <<client, game>> /\ task'[t].at \in {"idle", "unregistering"}
         /\ (task'[t].at = "idle" \/ task'[t].who = task[t].who)
<1>1. ClientOK /\ RoomsOK /\ TasksOK
  BY BaseIs
<1>2. task[t].at = "telling" /\ UNCHANGED <<client, game>> /\ (End(t) \/ Begin(t, Idle))
  BY DEF Tell, At
<1>3. Moves(t) /\ task'[t].at \in {"idle", "unregistering"} /\ (task'[t].at = "idle" \/ task'[t].who = task[t].who)
  BY <1>1, <1>2, EndIs, BeginIs, IdleIs
<1> QED
  BY <1>1, <1>2, <1>3, RoomsStay, MovesIs, BaseIs DEF ClientOK

LEMMA RemoveClientBase ==
  ASSUME Base, NEW t \in Tasks, RemoveClient(t)
  PROVE  /\ Base' /\ HostKept /\ Moves(t) /\ UNCHANGED game /\ task'[t].at = "idle"
         /\ \A c \in Clients : client'[c].registered => client[c].registered
         /\ \A c \in Clients : client'[c].game = client[c].game
<1>1. ClientOK /\ RoomsOK /\ TasksOK
  BY BaseIs
<1>2. /\ task[t].at = "unregistering" /\ UNCHANGED game /\ Begin(t, Idle)
      /\ client' = [client EXCEPT ![task[t].who].registered = FALSE]
  BY DEF RemoveClient, At
<1>3. Moves(t) /\ task'[t].at = "idle"
  BY <1>1, <1>2, BeginIs, IdleIs
<1>4. task[t].who \in Clients
  BY <1>1, <1>2 DEF TasksOK, TaskOK
<1>5. /\ ClientOK'
      /\ \A c \in Clients : client'[c].registered => client[c].registered
      /\ \A c \in Clients : client'[c].game = client[c].game
  BY <1>1, <1>2, <1>4 DEF ClientOK
<1> QED
  BY <1>1, <1>2, <1>3, <1>5, RoomsStay, MovesIs, BaseIs

\* Dropped, as it is met by FindSlot, MarkDropped and CheckEmpty.
LEMMA DroppedIs ==
  ASSUME TasksOK, NEW t \in Tasks, Dropped(t), task[t].at \in {"dropping", "marking", "emptying"}
  PROVE  /\ Moves(t) /\ task'[t].at \in {"idle", "unregistering", "telling"}
         /\ task'[t].at = "idle" \/ task'[t].who = task[t].who
<1>1. CASE End(t)
  BY <1>1, EndIs, IdleIs
<1>2. CASE Goto(t, "telling")
  BY <1>2, GotoIs DEF Places, Starting, Entering, Leaving
<1> QED
  BY <1>1, <1>2 DEF Dropped

LEMMA FindSlotBase ==
  ASSUME Base, NEW t \in Tasks, FindSlot(t)
  PROVE  /\ Base' /\ HostKept /\ Moves(t) /\ UNCHANGED <<client, game>>
         /\ task[t].at = "dropping" /\ task[t].who \in Clients /\ task[t].game \in Games
         /\ LET r == game[task[t].game]
                i == Slot(r.players, task[t].who)
            IN \/ /\ ~ (client[task[t].who].registered /\ r.open /\ Live(r) /\ i # 0)
                  /\ task'[t].at \in {"idle", "unregistering", "telling"}
                  /\ task'[t].at = "idle" \/ task'[t].who = task[t].who
               \/ /\ task'[t].at = "marking" /\ task'[t].slots = i
                  /\ task'[t].who = task[t].who /\ task'[t].game = task[t].game
<1> DEFINE r == game[task[t].game]
           i == Slot(r.players, task[t].who)
           found == client[task[t].who].registered /\ r.open /\ Live(r) /\ i # 0
<1>1. ClientOK /\ RoomsOK /\ TasksOK
  BY BaseIs
<1>2. /\ At(t, "dropping") /\ task[t].at = "dropping" /\ UNCHANGED <<client, game>>
      /\ task[t].who \in Clients /\ task[t].game \in Games
  BY <1>1, ActsIs DEF FindSlot, At
<1>3. IF found THEN task' = [task EXCEPT ![t].at = "marking", ![t].slots = i] ELSE Dropped(t)
  BY DEF FindSlot
<1>4. i \in Nat
  BY <1>1, <1>2, SlotIs DEF RoomsOK, RoomOK, Room
<1> HIDE DEF i, found
<1>5. CASE found
  <2>1. /\ Moves(t) /\ task'[t].at = "marking" /\ task'[t].slots = i
        /\ task'[t].who = task[t].who /\ task'[t].game = task[t].game
    BY <1>1, <1>2, <1>3, <1>4, <1>5, TakesIs
  <2> QED
    BY <1>1, <1>2, <2>1, RoomsStay, MovesIs, BaseIs DEF ClientOK, i
<1>6. CASE ~ found
  <2>1. /\ Moves(t) /\ task'[t].at \in {"idle", "unregistering", "telling"}
        /\ task'[t].at = "idle" \/ task'[t].who = task[t].who
    BY <1>1, <1>2, <1>3, <1>6, DroppedIs
  <2> QED
    BY <1>1, <1>2, <1>6, <2>1, RoomsStay, MovesIs, BaseIs DEF ClientOK, found, i
<1> QED
  BY <1>5, <1>6

\* The slot that was found, dropped.
LEMMA MarkedIs ==
  ASSUME NEW r, RoomOK(r), NEW n, n \in DOMAIN r.dropped, NEW w, w = [r EXCEPT !.dropped[n] = TRUE]
  PROVE  /\ RoomOK(w) /\ w.players = r.players /\ w.owner = r.owner /\ w.open = r.open
         /\ DOMAIN w.dropped = DOMAIN r.dropped /\ Len(w.dropped) = Len(r.dropped)
         /\ w.dropped[n] /\ \A i \in DOMAIN r.dropped : r.dropped[i] => w.dropped[i]
         /\ Live(r) /\ Live(w)
<1> DEFINE d == [r.dropped EXCEPT ![n] = TRUE]
<1>1. r.dropped \in Seq(BOOLEAN)
  BY DEF RoomOK, Room
<1>2. /\ d \in Seq(BOOLEAN) /\ DOMAIN d = DOMAIN r.dropped /\ Len(d) = Len(r.dropped)
      /\ d[n] /\ \A i \in DOMAIN r.dropped : r.dropped[i] => d[i]
  BY <1>1
<1>3. r.dropped # <<>> /\ d # <<>>
  BY <1>1, <1>2
<1> DEFINE v == [r EXCEPT !.dropped = d]
<1>4. w = v
  OBVIOUS
<1> HIDE DEF d
<1>5. /\ RoomOK(v) /\ v.dropped = d
      /\ v.players = r.players /\ v.owner = r.owner /\ v.open = r.open
  BY <1>2, EngineIs
<1> HIDE DEF v
<1> QED
  BY <1>2, <1>3, <1>4, <1>5 DEF Live

\* What a drop makes of a room: the slot is dropped, or the game is over.
Drops(r, w, n) ==
  \/ w = r
  \/ /\ n \in DOMAIN r.dropped /\ Live(r)
     /\ w.players = r.players /\ w.owner = r.owner /\ w.open = r.open /\ w.dropped \in Seq(BOOLEAN)
     /\ DOMAIN w.dropped = DOMAIN r.dropped /\ Len(w.dropped) = Len(r.dropped)
     /\ w.dropped[n] /\ \A i \in DOMAIN r.dropped : r.dropped[i] => w.dropped[i]
  \/ /\ w.open = r.open /\ ~ Live(w) /\ \A k \in DOMAIN w.players : ~ w.players[k].left
     /\ \A d : Here(r, d) => Here(w, d)
     /\ Here(r, r.owner) => w.owner = r.owner

LEMMA DropsIs ==
  ASSUME NEW r, RoomOK(r), Distinct(r.players), NEW n \in DOMAIN r.dropped, NEW marked, NEW w,
         marked = [r EXCEPT !.dropped[n] = TRUE],
         w = marked \/ w = Ended(marked)
  PROVE  /\ RoomOK(w) /\ Distinct(w.players) /\ Drops(r, w, n)
         /\ Hosted(r) /\ Present(w.players) # <<>> => Hosted(w)
<1>1. /\ RoomOK(marked) /\ marked.players = r.players /\ marked.owner = r.owner /\ marked.open = r.open
      /\ DOMAIN marked.dropped = DOMAIN r.dropped /\ Len(marked.dropped) = Len(r.dropped)
      /\ marked.dropped[n] /\ \A i \in DOMAIN r.dropped : r.dropped[i] => marked.dropped[i]
      /\ Live(r)
  BY MarkedIs
<1>2. CASE w = marked
  <2>1. w.dropped \in Seq(BOOLEAN)
    BY <1>1, <1>2 DEF RoomOK, Room
  <2> QED
    BY <1>1, <1>2, <2>1 DEF Drops, Hosted
<1>3. CASE w = Ended(marked)
  <2>1. marked \in Room /\ Distinct(marked.players)
    BY <1>1 DEF RoomOK
  <2>2. /\ RoomOK(w) /\ Distinct(w.players) /\ w.open = marked.open /\ ~ Live(w)
        /\ \A k \in DOMAIN w.players : ~ w.players[k].left
        /\ \A d : Here(marked, d) => Here(w, d)
        /\ Here(marked, marked.owner) => w.owner = marked.owner
        /\ Present(w.players) # <<>> => Hosted(w)
    BY <1>3, <2>1, EndedIs
  <2>3. \A d : Here(marked, d) <=> Here(r, d)
    BY <1>1 DEF Here
  <2> QED
    BY <1>1, <2>2, <2>3 DEF Drops
<1> QED
  BY <1>2, <1>3

LEMMA MarkDroppedBase ==
  ASSUME Base, NEW t \in Tasks, MarkDropped(t)
  PROVE  /\ Base' /\ HostKept /\ Moves(t) /\ UNCHANGED client
         /\ task[t].at = "marking" /\ task[t].game \in Games /\ task[t].who \in Clients
         /\ task'[t].at \in {"idle", "unregistering", "telling", "emptying"}
         /\ task'[t].at = "idle" \/ task'[t].who = task[t].who
         /\ Drops(game[task[t].game], game'[task[t].game], task[t].slots)
         /\ \/ ~ game[task[t].game].open \/ task[t].slots \notin DOMAIN game[task[t].game].dropped
            \/ task[t].slots \in DOMAIN game'[task[t].game].dropped =>
                 game'[task[t].game].dropped[task[t].slots]
         /\ \A k \in Games : k # task[t].game => game'[k] = game[k]
<1> DEFINE g == task[t].game
           n == task[t].slots
           marked == [game[g] EXCEPT !.dropped[n] = TRUE]
           over == \A i \in DOMAIN marked.dropped : marked.dropped[i]
           w == IF over THEN Ended(marked) ELSE marked
           found == game[g].open /\ n \in DOMAIN game[g].dropped
<1>1. ClientOK /\ RoomsOK /\ TasksOK
  BY BaseIs
<1>2. task[t].at = "marking" /\ g \in Games /\ task[t].who \in Clients /\ UNCHANGED client
  BY <1>1, ActsIs DEF MarkDropped, At
<1>3. CASE ~ found
  <2>1. Dropped(t) /\ UNCHANGED game
    BY <1>3 DEF MarkDropped
  <2>2. /\ Moves(t) /\ task'[t].at \in {"idle", "unregistering", "telling"}
        /\ task'[t].at = "idle" \/ task'[t].who = task[t].who
    BY <1>1, <1>2, <2>1, DroppedIs
  <2>3. Base' /\ HostKept
    BY <1>1, <1>2, <2>1, <2>2, RoomsStay, MovesIs, BaseIs DEF ClientOK
  <2> QED
    BY <1>2, <1>3, <2>1, <2>2, <2>3 DEF Drops
<1>4. CASE found
  <2>1. game' = [game EXCEPT ![g] = w] /\ (Goto(t, "emptying") \/ Dropped(t))
    BY <1>4 DEF MarkDropped
  <2>2. w = marked \/ w = Ended(marked)
    OBVIOUS
  <2>3. marked = [game[g] EXCEPT !.dropped[n] = TRUE]
    OBVIOUS
  <2> HIDE DEF w, marked
  <2>4. RoomOK(game[g]) /\ Distinct(game[g].players) /\ n \in DOMAIN game[g].dropped
    BY <1>1, <1>2, <1>4 DEF RoomsOK
  <2> HIDE DEF g, n
  <2>5. /\ RoomOK(w) /\ Distinct(w.players) /\ Drops(game[g], w, n)
        /\ Hosted(game[g]) /\ Present(w.players) # <<>> => Hosted(w)
    BY <2>2, <2>3, <2>4, DropsIs
  <2>6. RoomsOK' /\ HostKept /\ game'[g] = w /\ \A k \in Games : k # g => game'[k] = game[k]
    BY <1>1, <1>2, <2>1, <2>5, RoomChanges
  <2>7. /\ Moves(t) /\ task'[t].at \in {"idle", "unregistering", "telling", "emptying"}
        /\ task'[t].at = "idle" \/ task'[t].who = task[t].who
    <3>1. CASE Goto(t, "emptying")
      BY <1>1, <1>2, <3>1, GotoIs DEF Places, Starting, Entering, Leaving
    <3>2. CASE Dropped(t)
      BY <1>1, <1>2, <3>2, DroppedIs
    <3> QED
      BY <2>1, <3>1, <3>2
  <2>8. Base'
    BY <1>1, <1>2, <2>6, <2>7, MovesIs, BaseIs DEF ClientOK
  <2>9. n \in DOMAIN w.dropped => w.dropped[n]
    <3>1. marked.dropped[n]
      BY <2>3, <2>4, MarkedIs
    <3>2. w = marked \/ ~ Live(w)
      <4>1. RoomOK(marked) /\ marked.players = game[g].players
        BY <2>3, <2>4, MarkedIs
      <4>2. marked \in Room /\ Distinct(marked.players)
        BY <2>4, <4>1 DEF RoomOK
      <4> QED
        BY <2>2, <4>2, EndedIs
    <3>3. ~ Live(w) => DOMAIN w.dropped = {}
      BY DEF Live
    <3> QED
      BY <3>1, <3>2, <3>3
  <2>10. g = task[t].game /\ n = task[t].slots
    BY DEF g, n
  <2> QED
    BY <1>2, <2>5, <2>6, <2>7, <2>8, <2>9, <2>10
<1> QED
  BY <1>3, <1>4

LEMMA CheckEmptyBase ==
  ASSUME Base, NEW t \in Tasks, CheckEmpty(t)
  PROVE  /\ Base' /\ HostKept /\ Moves(t) /\ UNCHANGED <<client, game>>
         /\ task'[t].at \in {"idle", "unregistering", "telling", "closing"}
         /\ task'[t].at = "idle" \/ task'[t].who = task[t].who
         /\ task[t].at = "emptying"
<1>1. ClientOK /\ RoomsOK /\ TasksOK
  BY BaseIs
<1>2. task[t].at = "emptying" /\ UNCHANGED <<client, game>> /\ (Goto(t, "closing") \/ Dropped(t))
  BY DEF CheckEmpty, At
<1>3. /\ Moves(t) /\ task'[t].at \in {"idle", "unregistering", "telling", "closing"}
      /\ task'[t].at = "idle" \/ task'[t].who = task[t].who
  <2>1. CASE Goto(t, "closing")
    BY <1>1, <1>2, <2>1, GotoIs DEF Places, Starting, Entering, Leaving
  <2>2. CASE Dropped(t)
    BY <1>1, <1>2, <2>2, DroppedIs
  <2> QED
    BY <1>2, <2>1, <2>2
<1> QED
  BY <1>1, <1>2, <1>3, RoomsStay, MovesIs, BaseIs DEF ClientOK

LEMMA CloseRoomBase ==
  ASSUME Base, NEW t \in Tasks, CloseRoom(t)
  PROVE  /\ Base' /\ HostKept /\ Moves(t) /\ UNCHANGED client
         /\ task[t].at = "closing" /\ task[t].game \in Games
         /\ task'[t].at \in {"idle", "unregistering"}
         /\ task'[t].at = "idle" \/ task'[t].who = task[t].who
         /\ LET r == game[task[t].game]
                w == game'[task[t].game]
            IN w.players = r.players /\ w.owner = r.owner /\ w.dropped = r.dropped /\ ~ w.open
         /\ \A k \in Games : k # task[t].game => game'[k] = game[k]
<1> DEFINE g == task[t].game
           w == [game[g] EXCEPT !.open = FALSE]
<1>1. ClientOK /\ RoomsOK /\ TasksOK
  BY BaseIs
<1>2. task[t].at = "closing" /\ g \in Games /\ End(t) /\ UNCHANGED client
  BY <1>1, ActsIs DEF CloseRoom, At
<1>3. game' = [game EXCEPT ![g] = w]
  BY DEF CloseRoom
<1> HIDE DEF g
<1>4. RoomOK(game[g]) /\ Distinct(game[g].players)
  BY <1>1, <1>2 DEF RoomsOK
<1>5. /\ RoomOK(w) /\ w.players = game[g].players /\ w.owner = game[g].owner
      /\ w.dropped = game[g].dropped /\ ~ w.open
  BY <1>4 DEF RoomOK, Room
<1> HIDE DEF w
<1>6. RoomsOK' /\ HostKept /\ game'[g] = w /\ \A k \in Games : k # g => game'[k] = game[k]
  BY <1>1, <1>2, <1>3, <1>4, <1>5, RoomChanges DEF Hosted
<1>7. /\ Moves(t) /\ task'[t].at \in {"idle", "unregistering"}
      /\ task'[t].at = "idle" \/ task'[t].who = task[t].who
  BY <1>1, <1>2, EndIs, IdleIs
<1>8. Base'
  BY <1>1, <1>2, <1>6, <1>7, MovesIs, BaseIs DEF ClientOK
<1> QED
  BY <1>2, <1>5, <1>6, <1>7, <1>8 DEF g

LEMMA BaseStep ==
  ASSUME Base, [Next]_vars
  PROVE  Base' /\ HostKept
<1>1. ASSUME NEW c \in Clients,
             \/ Create(c) \/ Enter(c) \/ JoinRoom(c) \/ LookUp(c, "joining", "pushing")
             \/ Start(c) \/ LookUp(c, "starting", "compacting") \/ Compact(c) \/ Copy(c)
             \/ LookUp(c, "sizing", "installing") \/ Install(c)
             \/ QuitGame(c) \/ UserQuit(c) \/ Reap(c) \/ DropGame(c)
             \/ \E g \in Games : Join(c, g)
             \/ \E k \in Clients : KickUser(c, k)
      PROVE  Base' /\ HostKept
  <2>1. c \in Tasks /\ Cleanup \in Tasks
    BY DEF Tasks
  <2>2. CASE Create(c) \/ Enter(c) \/ JoinRoom(c) \/ Compact(c) \/ Copy(c) \/ Install(c)
    BY <2>2, CreateBase, EnterBase, JoinRoomBase, CompactBase, CopyBase, InstallBase
  <2>3. CASE LookUp(c, "joining", "pushing") \/ LookUp(c, "starting", "compacting") \/ LookUp(c, "sizing", "installing")
    BY <2>3, LookUpBase
  <2>4. CASE QuitGame(c) \/ UserQuit(c) \/ Reap(c)
    BY <2>1, <2>4, QuitBase DEF QuitGame, UserQuit, Reap
  <2>5. CASE Start(c) \/ DropGame(c) \/ (\E g \in Games : Join(c, g)) \/ \E k \in Clients : KickUser(c, k)
    BY <2>5, BeginsBase
  <2> QED
    BY <1>1, <2>2, <2>3, <2>4, <2>5
<1>2. ASSUME NEW t \in Tasks,
             \/ Leave(t) \/ TakeOff(t) \/ Tell(t) \/ RemoveClient(t)
             \/ FindSlot(t) \/ MarkDropped(t) \/ CheckEmpty(t) \/ CloseRoom(t)
      PROVE  Base' /\ HostKept
  BY <1>2, LeaveBase, TakeOffBase, TellBase, RemoveClientBase, FindSlotBase, MarkDroppedBase,
     CheckEmptyBase, CloseRoomBase
<1>3. CASE UNCHANGED vars
  <2>1. client' = client /\ game' = game /\ task' = task
    BY <1>3 DEF vars
  <2> QED
    BY <2>1, RoomsStay, BaseIs DEF ClientOK, TasksOK
<1> QED
  BY <1>1, <1>2, <1>3 DEF Next

-----------------------------------------------------------------------------
LEMMA BaseAlways == Spec => []Base
<1>1. Base /\ [Next]_vars => Base'
  BY BaseStep
<1> QED
  BY <1>1, BaseInit, PTL DEF Spec

\* Whatever the handlers and the cleanup do, num_players is the number of players present.
THEOREM RoomTypesHold == Spec => []RoomTypeOK
<1>1. Base => RoomTypeOK
  <2> SUFFICES ASSUME Base PROVE RoomTypeOK
    OBVIOUS
  <2>1. ASSUME NEW g \in Games
        PROVE  /\ game[g].open \in BOOLEAN /\ game[g].owner \in Tasks
               /\ game[g].players \in Seq([addr : Clients, left : BOOLEAN])
               /\ game[g].dropped \in Seq(BOOLEAN)
               /\ game[g].num_players = Len(Present(game[g].players))
    BY DEF Base, RoomOK, Room, Player
  <2>2. ASSUME NEW t \in Tasks
        PROVE  /\ task[t].who \in Tasks /\ task[t].game \in Games \cup {NoGame} /\ task[t].slots \in Nat
               /\ task[t].at \in Places
    BY DEF Base, TaskOK, Position
  <2> QED
    BY <2>1, <2>2 DEF RoomTypeOK, Base, Places
<1> QED
  BY <1>1, BaseAlways, PTL

\* Nobody is ever twice on a list, although a joiner looks at the room under one lock and is
\* put on the list of the room he is in by then under another.
THEOREM NobodyIsTwiceInARoom == Spec => []NobodyTwice
<1>1. Base => NobodyTwice
  BY DEF Base, Distinct, NobodyTwice
<1> QED
  BY <1>1, BaseAlways, PTL

\* A room with anybody in it keeps a host who is there, whoever leaves and however he leaves.
THEOREM ARoomKeepsAHost == Spec => HostNeverLost
<1>1. Base /\ [Next]_vars => [HostKept]_vars
  BY BaseStep
<1>2. [HostKept]_vars => [\A g \in Games : Hosted(game[g]) /\ Present(game'[g].players) # <<>> => Hosted(game'[g])]_vars
  BY DEF HostKept
<1> QED
  BY <1>1, <1>2, BaseAlways, PTL DEF Spec, HostNeverLost

-----------------------------------------------------------------------------
(***************************************************************************)
(* If a client removed for his silence stays silent, Inv is inductive. Most*)
(* steps are gentle: they take nobody off a list and end no ownership.     *)
(***************************************************************************)
Rest == NoTombstoneWaits /\ Chairs /\ Welcome /\ Newcomers /\ NotLate /\ ReapedIsIdle /\ SlotFound

SlotsStay(r, w) ==
  Live(r) /\ Live(w) => IsPrefix(Addrs(r), Addrs(w)) /\ Len(w.dropped) = Len(r.dropped)

NoneLeft(r) == \A i \in DOMAIN r.players : ~ r.players[i].left

Gentle(r, w) ==
  /\ Here(r, r.owner) => w.owner = r.owner
  /\ \A d : Here(r, d) => Here(w, d)
  /\ \A d : Tombstone(w, d) => Tombstone(r, d)
  /\ Live(w) => Live(r)
  /\ ~ Live(w) => NoneLeft(w)
  /\ \A i \in DOMAIN w.dropped :
       /\ i \in DOMAIN r.dropped
       /\ r.dropped[i] => w.dropped[i]
       /\ w.open => r.open
       /\ i \in DOMAIN w.players /\ w.players[i].left =>
            i \in DOMAIN r.players /\ r.players[i] = w.players[i]
  /\ SlotsStay(r, w)

LEMMA PrefixIs ==
  ASSUME NEW r \in Room, NEW w \in Room, Len(r.players) <= Len(w.players),
         \A i \in DOMAIN r.players : i \in DOMAIN w.players /\ w.players[i].addr = r.players[i].addr
  PROVE  IsPrefix(Addrs(r), Addrs(w))
<1> DEFINE m == Len(r.players)
           n == Len(w.players)
           a == Addrs(r)
           b == Addrs(w)
<1>1. /\ m \in Nat /\ n \in Nat /\ m <= n
      /\ DOMAIN r.players = 1 .. m /\ DOMAIN w.players = 1 .. n
      /\ \A i \in 1 .. m : r.players[i].addr \in Clients
      /\ \A i \in 1 .. n : w.players[i].addr \in Clients
  <2>1. r.players \in Seq(Player) /\ w.players \in Seq(Player)
    BY DEF Room
  <2>2. /\ m \in Nat /\ n \in Nat /\ DOMAIN r.players = 1 .. m /\ DOMAIN w.players = 1 .. n
        /\ \A i \in 1 .. m : r.players[i] \in Player
        /\ \A i \in 1 .. n : w.players[i] \in Player
    BY <2>1
  <2> QED
    BY <2>2 DEF Player
<1>2. a \in [1 .. m -> Clients] /\ b \in [1 .. n -> Clients] /\ \A i \in 1 .. m : a[i] = b[i]
  BY <1>1 DEF Addrs
<1> HIDE DEF m, n, a, b
<1>3. a \in Seq(Clients) /\ b \in Seq(Clients) /\ Len(a) = m /\ Len(b) = n
  BY <1>1, <1>2
<1> DEFINE s == SubSeq(b, 1, m)
<1>4. s \in Seq(Clients) /\ Len(s) = m /\ \A i \in 1 .. m : s[i] = b[i]
  BY <1>1, <1>3
<1> HIDE DEF s
<1>5. a = s
  BY <1>1, <1>2, <1>3, <1>4
<1>6. Len(a) <= Len(b) /\ a = SubSeq(b, 1, Len(a))
  BY <1>1, <1>3, <1>5 DEF s
<1> QED
  BY <1>6 DEF IsPrefix, a, b

LEMMA NotLiveIs == \A r : ~ Live(r) => DOMAIN r.dropped = {}
BY DEF Live

\* Nothing changes but that the room closes, perhaps, or that it gets the same list again.
LEMMA GentleSame ==
  ASSUME NEW r, RoomOK(r), ~ Live(r) => NoneLeft(r), NEW w,
         w.players = r.players, w.owner = r.owner, w.dropped = r.dropped, w.open => r.open
  PROVE  Gentle(r, w)
<1>1. Addrs(w) = Addrs(r)
  BY DEF Addrs
<1>2. r \in Room
  BY DEF RoomOK
<1>3. IsPrefix(Addrs(r), Addrs(r))
  <2>1. Len(r.players) \in Nat
    BY <1>2 DEF Room
  <2> QED
    BY <1>2, <2>1, PrefixIs
<1>4. SlotsStay(r, w)
  BY <1>1, <1>3 DEF SlotsStay
<1>5. Live(w) <=> Live(r)
  BY DEF Live
<1> QED
  BY <1>4, <1>5 DEF Gentle, Here, Tombstone, NoneLeft

LEMMA GentleJoined ==
  ASSUME NEW r, RoomOK(r), Distinct(r.players), ~ Live(r) => NoneLeft(r), NEW c \in Clients,
         NEW w, w = Joined(r, c)
  PROVE  Gentle(r, w)
<1>1. /\ RoomOK(w) /\ w.open = r.open /\ w.dropped = r.dropped /\ w.owner = r.owner
      /\ \A i \in DOMAIN r.players : i \in DOMAIN w.players /\ w.players[i] = r.players[i]
      /\ \A k \in DOMAIN w.players : k \notin DOMAIN r.players =>
           w.players[k].addr = c /\ ~ w.players[k].left
      /\ Len(r.players) <= Len(w.players)
  BY JoinedIs
<1>2. r \in Room /\ w \in Room
  BY <1>1 DEF RoomOK
<1>3. SlotsStay(r, w)
  BY <1>1, <1>2, PrefixIs DEF SlotsStay
<1>4. Live(w) <=> Live(r)
  BY <1>1 DEF Live
<1>5. \A k \in DOMAIN w.players : w.players[k].left => k \in DOMAIN r.players /\ r.players[k] = w.players[k]
  BY <1>1
<1>6. /\ \A d : Here(r, d) => Here(w, d)
      /\ \A d : Tombstone(w, d) => Tombstone(r, d)
  BY <1>1, <1>5 DEF Here, Tombstone
<1>7. ~ Live(w) => NoneLeft(w)
  BY <1>4, <1>5 DEF NoneLeft
<1> QED
  BY <1>1, <1>3, <1>4, <1>5, <1>6, <1>7 DEF Gentle

LEMMA GentleCompacted ==
  ASSUME NEW r, RoomOK(r), Distinct(r.players), ~ Live(r), NEW w, w = WithPlayers(r, Present(r.players))
  PROVE  Gentle(r, w)
<1>1. /\ RoomOK(w) /\ w.open = r.open /\ w.dropped = r.dropped /\ w.owner = r.owner
      /\ \A k \in DOMAIN w.players : ~ w.players[k].left
      /\ \A d : Here(r, d) => Here(w, d)
  BY CompactedIs, SMTT(30)
<1>2. ~ Live(w) /\ DOMAIN w.dropped = {}
  BY <1>1, NotLiveIs DEF Live
<1> QED
  BY <1>1, <1>2 DEF Gentle, SlotsStay, NoneLeft, Tombstone

LEMMA GentleDrops ==
  ASSUME NEW r, RoomOK(r), ~ Live(r) => NoneLeft(r), NEW w, RoomOK(w), NEW n, Drops(r, w, n)
  PROVE  Gentle(r, w)
<1>1. CASE w = r
  BY <1>1, GentleSame
<1>2. CASE /\ n \in DOMAIN r.dropped /\ Live(r)
           /\ w.players = r.players /\ w.owner = r.owner /\ w.open = r.open /\ w.dropped \in Seq(BOOLEAN)
           /\ DOMAIN w.dropped = DOMAIN r.dropped /\ Len(w.dropped) = Len(r.dropped)
           /\ w.dropped[n] /\ \A i \in DOMAIN r.dropped : r.dropped[i] => w.dropped[i]
  <2>1. r \in Room /\ w \in Room
    BY DEF RoomOK
  <2>2. IsPrefix(Addrs(r), Addrs(w))
    <3>1. Len(r.players) \in Nat
      BY <2>1 DEF Room
    <3> QED
      BY <1>2, <2>1, <3>1, PrefixIs
  <2>3. Live(w)
    BY <1>2, NotLiveIs
  <2> QED
    BY <1>2, <2>2, <2>3 DEF Gentle, SlotsStay, Here, Tombstone
<1>3. CASE /\ w.open = r.open /\ ~ Live(w) /\ \A k \in DOMAIN w.players : ~ w.players[k].left
           /\ \A d : Here(r, d) => Here(w, d)
           /\ Here(r, r.owner) => w.owner = r.owner
  <2>1. DOMAIN w.dropped = {}
    BY <1>3, NotLiveIs
  <2> QED
    BY <1>3, <2>1 DEF Gentle, SlotsStay, NoneLeft, Tombstone
<1> QED
  BY <1>1, <1>2, <1>3 DEF Drops

AllSlotsStay == \A g \in Games : SlotsStay(game[g], game'[g])

LEMMA InvIs == /\ Inv <=> Base /\ Rest
               /\ Inv' <=> Base' /\ Rest'
BY DEF Inv, Rest

AllGentle == \A g \in Games : Gentle(game[g], game'[g])

\* Nobody comes back, and nobody gets into a room but by entering it.
ClientsGentle(t) ==
  \A c \in Clients :
    /\ client'[c].registered => client[c].registered
    /\ \/ client'[c].game = client[c].game \/ client'[c].game = NoGame
       \/ c = t /\ task[t].at = "entering" /\ client'[c].game = task[t].game

\* A handler that was about to drop a slot still is, or there is no need to.
SlotsGentle(t) ==
  \A g \in Games, i \in Nat, c \in Clients :
    Dropping(task[t], c, g, i) =>
      \/ Dropping(task'[t], c, g, i)
      \/ i \notin DOMAIN game'[g].dropped
      \/ game'[g].dropped[i]
      \/ ~ game'[g].open \/ ~ client'[c].registered
      \/ i \notin DOMAIN game'[g].players
      \/ game'[g].players[i].addr # c

\* What is left to show of a gentle step is about the handler that moved.
LEMMA GentleStep ==
  ASSUME Inv, Base', NEW t \in Tasks, Moves(t),
         ClientsGentle(t), AllGentle,
         t \in Clients => Chair(t)' /\ Newcomer(t)',
         OnTime(t)',
         \A c \in Clients : t \in Clients /\ c # t /\ task[c].at = "entering" /\ KickedFrom(task'[t], c, task[c].game)
                              => ~ Live(game'[task[c].game]),
         t = Cleanup => ReapedIsIdle',
         t # Cleanup => task[Cleanup].at = "idle" \/ task[Cleanup].who # t,
         SlotsGentle(t)
  PROVE  Rest' /\ AllSlotsStay
<1> USE DEF ClientsGentle, AllGentle
<1>1. ClientOK /\ RoomsOK /\ TasksOK /\ ClientOK' /\ RoomsOK' /\ TasksOK' /\ Rest
  BY InvIs, BaseIs
<1>2. \A u \in Tasks : u # t => task'[u] = task[u]
  BY DEF Moves
<1>3. Clients \subseteq Tasks /\ Cleanup \in Tasks /\ Cleanup \notin Clients
  BY CleanupAssumption DEF Tasks
<1>4. \A g \in Games : /\ Here(game[g], game[g].owner) => game'[g].owner = game[g].owner
                       /\ \A d : Here(game[g], d) => Here(game'[g], d)
                       /\ \A d : Tombstone(game'[g], d) => Tombstone(game[g], d)
                       /\ Live(game'[g]) => Live(game[g])
                       /\ ~ Live(game'[g]) => NoneLeft(game'[g])
  BY DEF Gentle
<1>5. NoTombstoneWaits'
  BY <1>4 DEF NoTombstoneWaits, NoneLeft
<1>6. Chairs'
  <2> SUFFICES ASSUME NEW c \in Clients PROVE Chair(c)'
    BY DEF Chairs
  <2>1. CASE c = t
    BY <2>1
  <2>2. CASE c # t
    <3> DEFINE h == task[c]
    <3>1. task'[c] = h /\ Chair(c)
      BY <1>1, <1>2, <1>3, <2>2 DEF Rest, Chairs
    <3>2. h.at \in Starting \/ h.at = "entering" \/ h.at \in Leaving => h.game \in Games
      BY <1>1, <1>3 DEF TasksOK, TaskOK, Starting, Leaving
    <3>3. client'[c].game = client[c].game \/ client'[c].game = NoGame
      BY <2>2
    <3>4. h.game \in Games =>
            /\ Here(game[h.game], game[h.game].owner) => game'[h.game].owner = game[h.game].owner
            /\ \A d : Here(game[h.game], d) => Here(game'[h.game], d)
            /\ Live(game'[h.game]) => Live(game[h.game])
      BY <1>4
    <3> QED
      BY <3>1, <3>2, <3>3, <3>4 DEF Chair
  <2> QED
    BY <2>1, <2>2
<1>7. Welcome'
  <2> SUFFICES ASSUME NEW c \in Clients, client'[c].registered, client'[c].game # NoGame
               PROVE  ~ Tombstone(game'[client'[c].game], c)
    BY DEF Welcome
  <2>1. CASE client'[c].game = client[c].game
    <3>1. client[c].registered /\ client[c].game \in Games
      BY <1>1, <2>1, ClientIs
    <3> QED
      BY <1>1, <1>4, <2>1, <3>1 DEF Rest, Welcome
  <2>2. CASE c = t /\ task[t].at = "entering" /\ client'[c].game = task[t].game
    <3>1. task[t].game \in Games /\ ~ Tombstone(game[task[t].game], c)
      BY <1>1, <2>2, ActsIs DEF Rest, Newcomers, Newcomer
    <3> QED
      BY <1>4, <2>2, <3>1
  <2> QED
    BY <2>1, <2>2
<1>8. Newcomers'
  <2> SUFFICES ASSUME NEW c \in Clients PROVE Newcomer(c)'
    BY DEF Newcomers
  <2>1. CASE c = t
    BY <2>1
  <2>2. CASE c # t /\ task[c].at = "entering"
    <3> DEFINE g == task[c].game
    <3>1. task'[c] = task[c] /\ g \in Games
      BY <1>1, <1>2, <1>3, <2>2, ActsIs
    <3>2. /\ client[c].game = NoGame /\ ~ Tombstone(game[g], c)
          /\ \A u \in Clients : u # c /\ KickedFrom(task[u], c, g) => ~ Live(game[g])
      BY <1>1, <2>2 DEF Rest, Newcomers, Newcomer
    <3>3. client'[c].game = NoGame /\ ~ Tombstone(game'[g], c)
      BY <1>4, <2>2, <3>1, <3>2
    <3>4. ASSUME NEW u \in Clients, u # c, KickedFrom(task'[u], c, g) PROVE ~ Live(game'[g])
      <4>1. CASE u = t
        BY <2>2, <3>1, <3>4, <4>1 DEF KickedFrom
      <4>2. CASE u # t
        <5>1. KickedFrom(task[u], c, g)
          BY <1>2, <1>3, <3>1, <3>4, <4>2 DEF KickedFrom
        <5> QED
          BY <1>4, <3>1, <3>2, <3>4, <5>1
      <4> QED
        BY <4>1, <4>2
    <3> QED
      BY <3>1, <3>3, <3>4 DEF Newcomer, KickedFrom
  <2>3. CASE c # t /\ task[c].at # "entering"
    BY <1>2, <1>3, <2>3 DEF Newcomer
  <2> QED
    BY <2>1, <2>2, <2>3
<1>9. NotLate'
  <2> SUFFICES ASSUME NEW u \in Tasks PROVE OnTime(u)'
    BY DEF NotLate
  <2>1. CASE u = t
    BY <2>1
  <2>2. CASE u # t /\ task[u].at = "removing"
    <3> DEFINE c == task[u].who
               g == task[u].game
    <3>1. task'[u] = task[u] /\ c \in Clients /\ g \in Games
      BY <1>1, <1>2, <2>2, ActsIs
    <3>2. /\ task[u].reason # "kick" => client[c].game = NoGame
          /\ client[c].registered /\ client[c].game = g => ~ Live(game[g])
      BY <1>1, <2>2 DEF Rest, NotLate, OnTime
    <3>3. NoGame \notin Games
      BY DEF NoGame, Games
    <3> HIDE DEF c, g
    <3>4. CASE client'[c].game = client[c].game \/ client'[c].game = NoGame
      <4>1. /\ task[u].reason # "kick" => client'[c].game = NoGame
            /\ client'[c].registered /\ client'[c].game = g => ~ Live(game'[g])
        BY <1>4, <3>1, <3>2, <3>3, <3>4
      <4> QED
        BY <3>1, <4>1 DEF OnTime, c, g
    <3>5. CASE c = t /\ task[t].at = "entering" /\ client'[c].game = task[t].game
      <4>1. u # Cleanup
        BY <1>1, <2>2, <3>5 DEF Rest, ReapedIsIdle, c
      <4>2. u \in Clients /\ task[u].reason = "kick"
        <5>1. TaskOK(u, task[u])
          BY <1>1 DEF TasksOK
        <5> QED
          BY <2>2, <3>5, <4>1, <5>1 DEF TaskOK, Leaving, Tasks, c
      <4>3. task[t].game = g => ~ Live(game[g])
        <5>1. KickedFrom(task[u], t, g)
          BY <2>2, <3>5 DEF KickedFrom, Leaving, c, g
        <5>2. t \in Clients /\ Newcomer(t)
          BY <1>1, <3>1, <3>5 DEF Rest, Newcomers
        <5> QED
          BY <2>2, <3>5, <4>2, <5>1, <5>2 DEF Newcomer
      <4>4. client'[c].game = g => ~ Live(game'[g])
        BY <1>4, <3>1, <3>5, <4>3
      <4> QED
        BY <3>1, <4>2, <4>4 DEF OnTime, c, g
    <3> QED
      BY <3>1, <3>4, <3>5
  <2>3. CASE u # t /\ task[u].at # "removing"
    BY <1>2, <2>3 DEF OnTime
  <2> QED
    BY <2>1, <2>2, <2>3
<1>10. ReapedIsIdle'
  <2>1. CASE t = Cleanup
    BY <2>1
  <2>2. CASE t # Cleanup
    <3>1. task'[Cleanup] = task[Cleanup] /\ (task[Cleanup].at # "idle" => task[Cleanup].who # t /\ task[Cleanup].who \in Clients)
      BY <1>1, <1>2, <1>3, <2>2 DEF TasksOK, TaskOK
    <3> QED
      BY <1>1, <1>2, <1>3, <3>1 DEF Rest, ReapedIsIdle
  <2> QED
    BY <2>1, <2>2
<1>11. SlotFound'
  <2> SUFFICES ASSUME NEW g \in Games, NEW i \in DOMAIN game'[g].dropped, NEW c,
                      c = game'[g].players[i].addr,
                      game'[g].open, i \in DOMAIN game'[g].players, game'[g].players[i].left,
                      client'[c].registered
               PROVE  game'[g].dropped[i] \/ \E u \in Tasks : Dropping(task'[u], c, g, i)
    BY DEF SlotFound
  <2>1. /\ game[g].open /\ i \in DOMAIN game[g].dropped /\ (game[g].dropped[i] => game'[g].dropped[i])
        /\ i \in DOMAIN game[g].players /\ game[g].players[i] = game'[g].players[i]
    BY DEF Gentle
  <2>2. game[g].players \in Seq(Player)
    BY <1>1 DEF RoomsOK, RoomOK, Room
  <2>3. i \in Nat /\ game[g].players[i] \in Player
    BY <2>1, <2>2
  <2>4. c \in Clients
    BY <2>1, <2>3 DEF Player
  <2>5. CASE game[g].dropped[i]
    BY <2>1, <2>5
  <2>6. CASE ~ game[g].dropped[i]
    <3>1. client[c].registered
      BY <2>4
    <3>2. PICK u \in Tasks : Dropping(task[u], c, g, i)
      BY <1>1, <2>1, <2>6, <3>1 DEF Rest, SlotFound
    <3>3. CASE u # t
      BY <1>2, <3>2, <3>3
    <3>4. CASE u = t
      <4>1. Dropping(task'[t], c, g, i) \/ game'[g].dropped[i]
        BY <2>3, <2>4, <3>2, <3>4 DEF SlotsGentle
      <4> QED
        BY <4>1
    <3> QED
      BY <3>3, <3>4
  <2> QED
    BY <2>5, <2>6
<1>12. AllSlotsStay
  BY DEF AllSlotsStay, Gentle
<1> QED
  BY <1>5, <1>6, <1>7, <1>8, <1>9, <1>10, <1>11, <1>12 DEF Rest

\* A place that asks for nothing.
Quiet(h) == h.at \notin Starting \cup {"entering"} \cup Leaving

LEMMA QuietIs ==
  ASSUME NEW t, Quiet(task'[t])
  PROVE  /\ Chair(t)' /\ Newcomer(t)' /\ OnTime(t)'
         /\ \A c, g : ~ KickedFrom(task'[t], c, g)
BY DEF Quiet, Chair, Newcomer, OnTime, KickedFrom, Starting, Leaving

\* Who is neither idle nor lost is not being removed for his silence.
LEMMA NotReaped ==
  ASSUME Inv, NEW t \in Clients, task[t].at \notin {"idle", "dead"}
  PROVE  t # Cleanup /\ (task[Cleanup].at = "idle" \/ task[Cleanup].who # t)
BY CleanupAssumption DEF Inv, ReapedIsIdle

LEMMA GentleRooms ==
  ASSUME Inv, NEW g \in Games
  PROVE  RoomOK(game[g]) /\ Distinct(game[g].players) /\ (~ Live(game[g]) => NoneLeft(game[g]))
BY DEF Inv, Base, NoTombstoneWaits, NoneLeft

\* The rooms stay as they are.
LEMMA GentleStays ==
  ASSUME Inv, UNCHANGED game
  PROVE  AllGentle
<1> SUFFICES ASSUME NEW g \in Games PROVE Gentle(game[g], game'[g])
  BY DEF AllGentle
<1>1. RoomOK(game[g]) /\ (~ Live(game[g]) => NoneLeft(game[g]))
  BY GentleRooms
<1> QED
  BY <1>1, GentleSame

\* One room changes gently.
LEMMA GentleOne ==
  ASSUME Inv, NEW g \in Games, Gentle(game[g], game'[g]),
         \A k \in Games : k # g => game'[k] = game[k]
  PROVE  AllGentle
<1> SUFFICES ASSUME NEW k \in Games PROVE Gentle(game[k], game'[k])
  BY DEF AllGentle
<1>1. RoomOK(game[k]) /\ (~ Live(game[k]) => NoneLeft(game[k]))
  BY GentleRooms
<1>2. k # g => Gentle(game[k], game'[k])
  BY <1>1, GentleSame
<1> QED
  BY <1>2

LEMMA FreeClientIs ==
  ASSUME ~ LatePackets, NEW c \in Clients, Free(c)
  PROVE  /\ client[c].registered /\ task[c].at = "idle" /\ c # Cleanup
         /\ task[Cleanup].at = "idle" \/ task[Cleanup].who # c
<1>1. c \in Tasks /\ c # Cleanup /\ client[c].registered /\ ~ BeingReaped(c)
  BY CleanupAssumption DEF Free, Tasks
<1>2. task[Cleanup] = Idle \/ task[Cleanup].who # c
  BY <1>1 DEF BeingReaped
<1> QED
  BY <1>1, <1>2, FreeIs, IdleIs

\* The cleanup goes on with whom it began with.
LEMMA ReapingGoesOn ==
  ASSUME Inv, Moves(Cleanup), task[Cleanup].at # "idle",
         task'[Cleanup].at = "idle" \/ task'[Cleanup].who = task[Cleanup].who
  PROVE  ReapedIsIdle'
<1>1. TasksOK /\ ReapedIsIdle
  BY InvIs, BaseIs DEF Rest
<1>2. task[Cleanup].who \in Clients /\ task[Cleanup].who # Cleanup /\ task[Cleanup].who \in Tasks
  BY <1>1, CleanupAssumption DEF TasksOK, TaskOK, Tasks
<1> QED
  BY <1>1, <1>2 DEF Moves, ReapedIsIdle

\* A handler that goes on, and asks for nothing where it goes.
LEMMA QuietStep ==
  ASSUME Inv, Base', NEW t \in Tasks, Moves(t), Quiet(task'[t]),
         task[t].at \notin {"idle", "dead"},
         task'[t].at = "idle" \/ task'[t].who = task[t].who,
         ClientsGentle(t), AllGentle,
         SlotsGentle(t)
  PROVE  Rest' /\ AllSlotsStay
<1>1. /\ Chair(t)' /\ Newcomer(t)' /\ OnTime(t)'
      /\ \A c, g : ~ KickedFrom(task'[t], c, g)
  BY QuietIs
<1>2. t = Cleanup => ReapedIsIdle'
  BY ReapingGoesOn
<1>3. t # Cleanup => task[Cleanup].at = "idle" \/ task[Cleanup].who # t
  BY NotReaped DEF Tasks
<1> QED
  BY <1>1, <1>2, <1>3, GentleStep

LEMMA QuietSteps ==
  ASSUME Inv, NEW t \in Tasks, Tell(t) \/ RemoveClient(t) \/ CheckEmpty(t) \/ CloseRoom(t)
  PROVE  Rest' /\ AllSlotsStay
<1>1. Base
  BY InvIs
<1>2. Base' /\ Moves(t)
  BY <1>1, TellBase, RemoveClientBase, CheckEmptyBase, CloseRoomBase
<1>3. task[t].at \in {"telling", "unregistering", "emptying", "closing"}
  BY DEF Tell, RemoveClient, CheckEmpty, CloseRoom, At
<1>4. SlotsGentle(t)
  BY <1>3 DEF SlotsGentle, Dropping
<1>5. /\ task'[t].at \in {"idle", "unregistering", "telling", "closing"}
      /\ task'[t].at = "idle" \/ task'[t].who = task[t].who
  BY <1>1, TellBase, RemoveClientBase, CheckEmptyBase, CloseRoomBase
<1>6. Quiet(task'[t])
  BY <1>5 DEF Quiet, Starting, Leaving
<1>7. ClientsGentle(t)
  <2>1. \A c \in Clients : client'[c].registered => client[c].registered
    BY <1>1, TellBase, RemoveClientBase, CheckEmptyBase, CloseRoomBase
  <2>2. \A c \in Clients : client'[c].game = client[c].game
    BY <1>1, TellBase, RemoveClientBase, CheckEmptyBase, CloseRoomBase
  <2> QED
    BY <2>1, <2>2 DEF ClientsGentle
<1>9. AllGentle
  <2>1. CASE UNCHANGED game
    BY <2>1, GentleStays
  <2>2. CASE CloseRoom(t)
    <3> DEFINE g == task[t].game
    <3>1. /\ g \in Games /\ \A k \in Games : k # g => game'[k] = game[k]
          /\ game'[g].players = game[g].players /\ game'[g].owner = game[g].owner
          /\ game'[g].dropped = game[g].dropped /\ ~ game'[g].open
      BY <1>1, <2>2, CloseRoomBase
    <3>2. RoomOK(game[g]) /\ (~ Live(game[g]) => NoneLeft(game[g]))
      BY <3>1, GentleRooms
    <3>3. Gentle(game[g], game'[g])
      BY <3>1, <3>2, GentleSame
    <3> QED
      BY <3>1, <3>3, GentleOne
  <2> QED
    BY <2>1, <2>2 DEF Tell, RemoveClient, CheckEmpty
<1> QED
  BY <1>2, <1>3, <1>4, <1>5, <1>6, <1>7, <1>9, QuietStep

LEMMA EnterInv ==
  ASSUME Inv, NEW c \in Clients, Enter(c)
  PROVE  Rest' /\ AllSlotsStay
<1>1. Base /\ ClientOK /\ TasksOK /\ c \in Tasks
  BY InvIs, BaseIs DEF Tasks
<1>2. /\ Base' /\ Moves(c) /\ UNCHANGED game
      /\ task'[c].at \in {"idle", "unregistering", "joining"}
  BY <1>1, EnterBase
<1>3. task[c].at = "entering"
  BY DEF Enter, At
<1>4. task'[c].at = "idle" \/ task'[c].who = task[c].who
  BY <1>1, <1>3, EndIs, IdleIs, GotoIs DEF Enter, Places, Starting, Entering, Leaving
<1>5. Quiet(task'[c]) /\ SlotsGentle(c)
  BY <1>2, <1>3 DEF Quiet, Starting, Leaving, Dropping, SlotsGentle
<1>6. ClientsGentle(c)
  BY <1>1, <1>3 DEF Enter, ClientOK, ClientsGentle
<1>7. AllGentle
  BY <1>2, GentleStays
<1> QED
  BY <1>1, <1>2, <1>3, <1>4, <1>5, <1>6, <1>7, QuietStep

LEMMA JoinRoomInv ==
  ASSUME Inv, NEW c \in Clients, JoinRoom(c)
  PROVE  Rest' /\ AllSlotsStay
<1> DEFINE g == task[c].game
<1>1. Base /\ TasksOK /\ c \in Tasks
  BY InvIs, BaseIs DEF Tasks
<1>2. /\ Base' /\ Moves(c) /\ UNCHANGED client
      /\ task'[c].at \in {"idle", "unregistering"}
      /\ g \in Games /\ game'[g] = Joined(game[g], c)
      /\ \A k \in Games : k # g => game'[k] = game[k]
  BY <1>1, JoinRoomBase
<1>3. task[c].at = "pushing"
  BY DEF JoinRoom, At
<1>4. task'[c].at = "idle" \/ task'[c].who = task[c].who
  BY <1>1, <1>3, EndIs, IdleIs DEF JoinRoom
<1>5. Quiet(task'[c]) /\ SlotsGentle(c) /\ ClientsGentle(c)
  BY <1>2, <1>3 DEF Quiet, Starting, Leaving, Dropping, SlotsGentle, ClientsGentle
<1>6. Gentle(game[g], game'[g])
  BY <1>2, GentleRooms, GentleJoined
<1>7. AllGentle
  BY <1>2, <1>6, GentleOne
<1> QED
  BY <1>1, <1>2, <1>3, <1>4, <1>5, <1>7, QuietStep

LEMMA FindSlotInv ==
  ASSUME Inv, NEW t \in Tasks, FindSlot(t)
  PROVE  Rest' /\ AllSlotsStay
<1> DEFINE r == game[task[t].game]
           n == Slot(r.players, task[t].who)
           found == client[task[t].who].registered /\ r.open /\ Live(r) /\ n # 0
<1>1. Base /\ TasksOK
  BY InvIs, BaseIs
<1>2. /\ Base' /\ Moves(t) /\ UNCHANGED <<client, game>>
      /\ task[t].at = "dropping" /\ task[t].who \in Clients /\ task[t].game \in Games
      /\ \/ /\ ~ found
            /\ task'[t].at \in {"idle", "unregistering", "telling"}
            /\ task'[t].at = "idle" \/ task'[t].who = task[t].who
         \/ /\ task'[t].at = "marking" /\ task'[t].slots = n
            /\ task'[t].who = task[t].who /\ task'[t].game = task[t].game
  BY <1>1, FindSlotBase
<1>3. Quiet(task'[t]) /\ (task'[t].at = "idle" \/ task'[t].who = task[t].who)
  BY <1>2 DEF Quiet, Starting, Leaving
<1>4. AllGentle /\ ClientsGentle(t)
  BY <1>2, GentleStays DEF ClientsGentle
<1>5. ASSUME NEW g \in Games, NEW i \in Nat, NEW c \in Clients, Dropping(task[t], c, g, i)
      PROVE  \/ Dropping(task'[t], c, g, i)
             \/ i \notin DOMAIN game'[g].dropped
             \/ ~ game'[g].open \/ ~ client'[c].registered
             \/ i \notin DOMAIN game'[g].players
             \/ game'[g].players[i].addr # c
  <2> SUFFICES ASSUME i \in DOMAIN game[g].dropped, game[g].open, client[c].registered,
                      i \in DOMAIN game[g].players, game[g].players[i].addr = c
               PROVE  Dropping(task'[t], c, g, i)
    BY <1>2
  <2>1. task[t].who = c /\ task[t].game = g
    BY <1>5 DEF Dropping
  <2>2. Distinct(game[g].players) /\ game[g].players \in Seq(Player)
    BY GentleRooms DEF RoomOK, Room
  <2>3. n = i
    <3>1. n # 0 => n \in DOMAIN game[g].players /\ game[g].players[n].addr = c
      BY <2>1, <2>2, SlotIs
    <3>2. n # 0
      BY <2>1, <2>2, SlotIs
    <3> QED
      BY <2>2, <3>1, <3>2 DEF Distinct
  <2>4. found
    <3>1. i # 0
      BY <2>2, SlotIs
    <3>2. Live(game[g])
      BY NotLiveIs
    <3> QED
      BY <2>1, <2>3, <3>1, <3>2
  <2> HIDE DEF found, n
  <2> QED
    BY <1>2, <2>1, <2>3, <2>4 DEF Dropping
<1>6. SlotsGentle(t)
  BY <1>5 DEF SlotsGentle
<1> QED
  BY <1>2, <1>3, <1>4, <1>6, QuietStep

LEMMA MarkDroppedInv ==
  ASSUME Inv, NEW t \in Tasks, MarkDropped(t)
  PROVE  Rest' /\ AllSlotsStay
<1> DEFINE g == task[t].game
           n == task[t].slots
<1>1. Base /\ TasksOK
  BY InvIs, BaseIs
<1>2. /\ Base' /\ Moves(t) /\ UNCHANGED client
      /\ task[t].at = "marking" /\ g \in Games
      /\ task'[t].at \in {"idle", "unregistering", "telling", "emptying"}
      /\ task'[t].at = "idle" \/ task'[t].who = task[t].who
      /\ Drops(game[g], game'[g], n)
      /\ \/ ~ game[g].open \/ n \notin DOMAIN game[g].dropped
         \/ n \in DOMAIN game'[g].dropped => game'[g].dropped[n]
      /\ \A k \in Games : k # g => game'[k] = game[k]
  BY <1>1, MarkDroppedBase
<1>3. Quiet(task'[t])
  BY <1>2 DEF Quiet, Starting, Leaving
<1>4. Gentle(game[g], game'[g])
  <2>1. RoomOK(game[g]) /\ (~ Live(game[g]) => NoneLeft(game[g]))
    BY <1>2, GentleRooms
  <2>2. RoomOK(game'[g])
    BY <1>2, BaseIs DEF RoomsOK
  <2> QED
    BY <1>2, <2>1, <2>2, GentleDrops
<1>5. AllGentle /\ ClientsGentle(t)
  BY <1>2, <1>4, GentleOne DEF ClientsGentle
<1>6. ASSUME NEW k \in Games, NEW i \in Nat, NEW c \in Clients, Dropping(task[t], c, k, i)
      PROVE  i \notin DOMAIN game'[k].dropped \/ game'[k].dropped[i] \/ ~ game'[k].open
  <2>1. k = g /\ i = n
    BY <1>2, <1>6 DEF Dropping
  <2>2. i \in DOMAIN game'[g].dropped => i \in DOMAIN game[g].dropped /\ (game'[g].open => game[g].open)
    BY <1>4 DEF Gentle
  <2> HIDE DEF g, n
  <2> QED
    BY <1>2, <2>1, <2>2
<1>7. SlotsGentle(t)
  BY <1>6 DEF SlotsGentle
<1> QED
  BY <1>2, <1>3, <1>5, <1>7, QuietStep

-----------------------------------------------------------------------------
\* A handler that begins is nobody's slot to drop, and changes nothing yet.
LEMMA BeginsGently ==
  ASSUME Inv, NEW t \in Tasks, task[t].at \notin {"dropping", "marking"}, UNCHANGED <<client, game>>
  PROVE  SlotsGentle(t) /\ ClientsGentle(t) /\ AllGentle
<1>1. SlotsGentle(t) /\ ClientsGentle(t)
  BY DEF SlotsGentle, ClientsGentle, Dropping
<1> QED
  BY <1>1, GentleStays

\* Who is in a room and is heard is no tombstone there.
LEMMA HereIs ==
  ASSUME Inv, NEW c \in Clients, InRoom(c), client[c].registered
  PROVE  RoomOf(c) \in Games /\ Here(game[RoomOf(c)], c)
<1>1. ClientOK /\ RoomsOK
  BY InvIs, BaseIs
<1>2. RoomOf(c) \in Games /\ RoomOf(c) # NoGame /\ Slot(game[RoomOf(c)].players, c) # 0
  BY <1>1, InRoomIs DEF InRoom
<1>3. game[RoomOf(c)].players \in Seq(Player)
  BY <1>1, <1>2 DEF RoomsOK, RoomOK, Room
<1>4. PICK i \in DOMAIN game[RoomOf(c)].players : game[RoomOf(c)].players[i].addr = c
  BY <1>2, <1>3, SlotIs
<1>5. ~ Tombstone(game[RoomOf(c)], c)
  BY <1>2 DEF Inv, Welcome, RoomOf
<1> QED
  BY <1>2, <1>4, <1>5 DEF Here, Tombstone

LEMMA DropGameInv ==
  ASSUME Inv, ~ LatePackets, NEW c \in Clients, DropGame(c)
  PROVE  Rest' /\ AllSlotsStay
<1>1. Base /\ ClientOK /\ c \in Tasks
  BY InvIs, BaseIs DEF Tasks
<1>2. /\ task[c].at = "idle" /\ c # Cleanup
      /\ task[Cleanup].at = "idle" \/ task[Cleanup].who # c
  BY FreeClientIs DEF DropGame
<1>3. Base' /\ Moves(c)
  BY <1>1, BeginsBase
<1>4. task'[c].at = "dropping"
  <2>1. RoomOf(c) \in Games /\ Begin(c, Handler("dropping", c, RoomOf(c), "drop"))
        /\ UNCHANGED <<client, game>>
    BY <1>1, InRoomIs DEF DropGame
  <2> QED
    BY <1>1, <2>1, BeginBase DEF Places, Reasons, Starting, Entering, Leaving
<1>5. Quiet(task'[c])
  BY <1>4 DEF Quiet, Starting, Leaving
<1>6. SlotsGentle(c) /\ ClientsGentle(c) /\ AllGentle
  BY <1>1, <1>2, BeginsGently DEF DropGame
<1>7. /\ Chair(c)' /\ Newcomer(c)' /\ OnTime(c)'
      /\ \A d, g : ~ KickedFrom(task'[c], d, g)
  BY <1>5, QuietIs
<1> QED
  BY <1>1, <1>2, <1>3, <1>6, <1>7, GentleStep

LEMMA QuitInv ==
  ASSUME Inv, ~ LatePackets, NEW t \in Tasks, NEW c \in Clients, NEW reason \in {"quit", "bye"},
         Quit(t, c, reason),
         t = c \/ (t = Cleanup /\ task[c].at \in {"idle", "dead"})
  PROVE  Rest' /\ AllSlotsStay
<1>1. Base /\ ClientOK /\ TasksOK /\ Cleanup \notin Clients
  BY InvIs, BaseIs, CleanupAssumption
<1>2. Base' /\ Moves(t) /\ task[t].at = "idle" /\ UNCHANGED <<client, game>>
  BY <1>1, QuitBase, FreeIs DEF Quit
<1>3. /\ task'[t].at \in {"leaving", "unregistering"} /\ task'[t].who = c /\ task'[t].reason = reason
  <2>1. CASE RoomOf(c) # NoGame /\ game[RoomOf(c)].open
    <3>1. RoomOf(c) \in Games
      BY <1>1, <2>1, ClientIs DEF RoomOf
    <3>2. Begin(t, Handler("leaving", c, RoomOf(c), reason))
      BY <2>1 DEF Quit
    <3> HIDE DEF Begin, RoomOf
    <3> QED
      BY <1>1, <1>2, <3>1, <3>2, BeginBase DEF Places, Reasons, Starting, Entering, Leaving
  <2>2. CASE ~ (RoomOf(c) # NoGame /\ game[RoomOf(c)].open)
    <3>1. Begin(t, Handler("unregistering", c, NoGame, reason))
      BY <2>2 DEF Quit
    <3> HIDE DEF Begin
    <3> QED
      BY <1>1, <1>2, <3>1, BeginBase DEF Places, Reasons, Starting, Entering, Leaving
  <2> QED
    BY <2>1, <2>2
<1>4. SlotsGentle(t) /\ ClientsGentle(t) /\ AllGentle
  BY <1>2, BeginsGently
<1>5. Chair(t)' /\ Newcomer(t)' /\ OnTime(t)'
  BY <1>3 DEF Chair, Newcomer, OnTime, Starting
<1>6. t # Cleanup => \A d \in Clients : d # t => \A g : ~ KickedFrom(task'[t], d, g)
  BY <1>3 DEF KickedFrom
<1>7. CASE t = Cleanup
  <2>1. task'[c] = task[c]
    BY <1>1, <1>2, <1>7 DEF Moves, Tasks
  <2>2. ReapedIsIdle'
    BY <1>1, <1>3, <1>7, <2>1 DEF ReapedIsIdle
  <2> QED
    BY <1>1, <1>2, <1>4, <1>5, <1>7, <2>2, GentleStep
<1>8. CASE t # Cleanup
  <2>1. task[Cleanup].at = "idle" \/ task[Cleanup].who # t
    BY <1>8, FreeClientIs DEF Quit
  <2> QED
    BY <1>2, <1>4, <1>5, <1>6, <1>8, <2>1, GentleStep
<1> QED
  BY <1>7, <1>8

LEMMA StartInv ==
  ASSUME Inv, ~ LatePackets, NEW c \in Clients, Start(c)
  PROVE  Rest' /\ AllSlotsStay
<1> DEFINE g == RoomOf(c)
<1>1. Base /\ ClientOK /\ c \in Tasks
  BY InvIs, BaseIs DEF Tasks
<1>2. /\ task[c].at = "idle" /\ c # Cleanup /\ client[c].registered
      /\ task[Cleanup].at = "idle" \/ task[Cleanup].who # c
  BY FreeClientIs DEF Start
<1>3. Base' /\ Moves(c) /\ UNCHANGED <<client, game>>
  BY <1>1, BeginsBase DEF Start
<1>4. g \in Games /\ Here(game[g], c) /\ game[g].owner = c /\ ~ Live(game[g])
  BY <1>2, HereIs DEF Start
<1>5. task'[c].at = "starting" /\ task'[c].game = g /\ task'[c].reason = "start" /\ task'[c].who = c
  <2>1. Begin(c, Handler("starting", c, g, "start"))
    BY DEF Start
  <2> HIDE DEF Begin, g
  <2> QED
    BY <1>1, <1>3, <1>4, <2>1, BeginBase DEF Places, Reasons, Starting, Entering, Leaving
<1>6. SlotsGentle(c) /\ ClientsGentle(c) /\ AllGentle
  BY <1>1, <1>2, <1>3, BeginsGently
<1>7. client[c].game = g
  BY DEF RoomOf
<1> HIDE DEF g
<1>8. Chair(c)'
  BY <1>3, <1>4, <1>5, <1>7 DEF Chair, Leaving
<1>9. Newcomer(c)' /\ OnTime(c)' /\ \A d, k : ~ KickedFrom(task'[c], d, k)
  BY <1>5 DEF Newcomer, OnTime, KickedFrom, Leaving
<1> QED
  BY <1>1, <1>2, <1>3, <1>6, <1>8, <1>9, GentleStep

LEMMA KickUserInv ==
  ASSUME Inv, ~ LatePackets, NEW c \in Clients, NEW k \in Clients, KickUser(c, k)
  PROVE  Rest' /\ AllSlotsStay
<1> DEFINE g == RoomOf(c)
<1>1. Base /\ ClientOK /\ c \in Tasks
  BY InvIs, BaseIs DEF Tasks
<1>2. /\ task[c].at = "idle" /\ c # Cleanup /\ client[c].registered
      /\ task[Cleanup].at = "idle" \/ task[Cleanup].who # c
  BY FreeClientIs DEF KickUser
<1>3. Base' /\ Moves(c) /\ UNCHANGED <<client, game>>
  BY <1>1, BeginsBase DEF KickUser
<1>4. g \in Games /\ Here(game[g], c) /\ game[g].owner = c
  BY <1>2, HereIs DEF KickUser
<1>5. task'[c].at = "leaving" /\ task'[c].game = g /\ task'[c].reason = "kick" /\ task'[c].who = k
  <2>1. Begin(c, Handler("leaving", k, g, "kick"))
    BY DEF KickUser
  <2> HIDE DEF Begin, g
  <2> QED
    BY <1>1, <1>3, <1>4, <2>1, BeginBase DEF Places, Reasons, Starting, Entering, Leaving
<1>6. SlotsGentle(c) /\ ClientsGentle(c) /\ AllGentle
  BY <1>1, <1>2, <1>3, BeginsGently
<1>7. client[k].game # NoGame
  BY <1>4 DEF KickUser, RoomOf, Games, NoGame
<1> HIDE DEF g
<1>8. Chair(c)'
  BY <1>3, <1>4, <1>5 DEF Chair, Starting
<1>9. Newcomer(c)' /\ OnTime(c)'
  BY <1>5 DEF Newcomer, OnTime
<1>10. \A d \in Clients : task[d].at = "entering" => ~ KickedFrom(task'[c], d, task[d].game)
  BY <1>5, <1>7 DEF KickedFrom, Inv, Newcomers, Newcomer
<1> QED
  BY <1>1, <1>2, <1>3, <1>6, <1>8, <1>9, <1>10, GentleStep

LEMMA JoinInv ==
  ASSUME Inv, ~ LatePackets, NEW c \in Clients, NEW g \in Games, Join(c, g)
  PROVE  Rest' /\ AllSlotsStay
<1>1. Base /\ c \in Tasks
  BY InvIs DEF Tasks
<1>2. /\ task[c].at = "idle" /\ c # Cleanup
      /\ task[Cleanup].at = "idle" \/ task[Cleanup].who # c
  BY FreeClientIs DEF Join
<1>3. Base' /\ Moves(c) /\ UNCHANGED <<client, game>>
  BY <1>1, BeginsBase DEF Join
<1>4. task'[c].at = "entering" /\ task'[c].game = g /\ task'[c].reason = "join" /\ task'[c].who = c
  <2>1. Begin(c, Handler("entering", c, g, "join"))
    BY DEF Join
  <2> HIDE DEF Begin
  <2> QED
    BY <1>1, <1>3, <2>1, BeginBase DEF Places, Reasons, Starting, Entering, Leaving
<1>5. SlotsGentle(c) /\ ClientsGentle(c) /\ AllGentle
  BY <1>1, <1>2, <1>3, BeginsGently
<1>6. client[c].game = NoGame /\ ~ Live(game[g])
  BY DEF Join, RoomOf
<1>7. ~ Tombstone(game[g], c)
  BY <1>6, GentleRooms DEF Tombstone, NoneLeft
<1>8. Chair(c)' /\ OnTime(c)' /\ \A d, k : ~ KickedFrom(task'[c], d, k)
  BY <1>4 DEF Chair, OnTime, KickedFrom, Starting, Leaving
<1>9. Newcomer(c)'
  BY <1>3, <1>4, <1>6, <1>7 DEF Newcomer
<1> QED
  BY <1>1, <1>2, <1>3, <1>5, <1>8, <1>9, GentleStep

LEMMA CreateInv ==
  ASSUME Inv, ~ LatePackets, NEW c \in Clients, Create(c)
  PROVE  Rest' /\ AllSlotsStay
<1>1. Base /\ ClientOK /\ TasksOK /\ RoomsOK /\ c \in Tasks
  BY InvIs, BaseIs DEF Tasks
<1>2. /\ task[c].at = "idle" /\ c # Cleanup
      /\ task[Cleanup].at = "idle" \/ task[Cleanup].who # c
  BY FreeClientIs DEF Create
<1>3. Base' /\ Moves(c)
  BY <1>1, CreateBase
<1>4. PICK g \in Games :
        /\ game[g] = Unused
        /\ game' = [game EXCEPT ![g] = [open |-> TRUE, owner |-> c, players |-> <<Member(c)>>,
                                        num_players |-> 1, dropped |-> <<>>]]
        /\ Begin(c, Handler("entering", c, g, "create"))
  BY DEF Create
<1>5. task'[c] = Handler("entering", c, g, "create")
  BY <1>1, <1>4 DEF Begin, TasksOK
<1>6. task'[c].at = "entering" /\ task'[c].game = g /\ task'[c].reason = "create" /\ task'[c].who = c
  BY <1>5 DEF Handler
<1>7. RoomOK(game'[g]) /\ ~ Live(game'[g]) /\ game'[g].owner = c /\ Here(game'[g], c) /\ NoneLeft(game'[g])
  BY <1>1, <1>4, NewRoomIs DEF RoomsOK, NoneLeft
<1>8. \A k \in Games : k # g => game'[k] = game[k]
  BY <1>4
<1>9. Gentle(game[g], game'[g])
  <2>1. DOMAIN game[g].players = {}
    BY <1>4, UnusedIs
  <2>2. DOMAIN game'[g].dropped = {}
    BY <1>7, NotLiveIs
  <2> QED
    BY <1>7, <2>1, <2>2 DEF Gentle, Here, Tombstone, NoneLeft, SlotsStay
<1>10. AllGentle
  BY <1>8, <1>9, GentleOne
<1>11. client'[c].game = NoGame /\ ClientsGentle(c)
  BY <1>1 DEF Create, ClientsGentle, ClientOK
<1>12. SlotsGentle(c)
  BY <1>2 DEF SlotsGentle, Dropping
<1>13. Chair(c)'
  BY <1>6, <1>7 DEF Chair, Starting, Leaving
<1>14. Newcomer(c)'
  BY <1>6, <1>7, <1>11 DEF Newcomer, Tombstone, NoneLeft
<1>15. OnTime(c)' /\ \A d, k : ~ KickedFrom(task'[c], d, k)
  BY <1>6 DEF OnTime, KickedFrom, Leaving
<1> QED
  BY <1>1, <1>2, <1>3, <1>10, <1>11, <1>12, <1>13, <1>14, <1>15, GentleStep

LEMMA LookUpInv ==
  ASSUME Inv, NEW c \in Clients, NEW from, NEW next, LookUp(c, from, next),
         <<from, next>> \in {<<"joining", "pushing">>, <<"starting", "compacting">>,
                             <<"sizing", "installing">>}
  PROVE  Rest' /\ AllSlotsStay
<1>1. Base /\ TasksOK /\ c \in Tasks
  BY InvIs, BaseIs DEF Tasks
<1>2. /\ Base' /\ Moves(c) /\ UNCHANGED <<client, game>>
      /\ \/ task'[c].at \in {"idle", "unregistering", "dead"}
         \/ /\ client[c].game \in Games
            /\ task'[c].at = next /\ task'[c].who = task[c].who /\ task'[c].game = client[c].game
            /\ task'[c].reason = task[c].reason /\ task'[c].slots = task[c].slots
  BY <1>1, LookUpBase
<1>3. task[c].at = from /\ from \in {"joining", "starting", "sizing"}
  BY DEF LookUp, At
<1>4. c # Cleanup /\ (task[Cleanup].at = "idle" \/ task[Cleanup].who # c)
  BY <1>3, NotReaped
<1>5. SlotsGentle(c) /\ ClientsGentle(c) /\ AllGentle
  BY <1>1, <1>2, <1>3, BeginsGently
<1>6. Chair(c)'
  <2>1. CASE Quiet(task'[c])
    BY <2>1, QuietIs
  <2>2. CASE ~ Quiet(task'[c])
    <3>1. next # "pushing" /\ client[c].game \in Games
            /\ task'[c].at = next /\ task'[c].game = client[c].game /\ task'[c].slots = task[c].slots
      BY <1>2, <2>2 DEF Quiet, Starting, Leaving
    <3>2. <<from, next>> = <<"starting", "compacting">> \/ <<from, next>> = <<"sizing", "installing">>
      BY <3>1
    <3>3. NoGame \notin Games
      BY DEF NoGame, Games
    <3>4. /\ game[task[c].game].owner = c /\ Here(game[task[c].game], c) /\ ~ Live(game[task[c].game])
          /\ client[c].game = task[c].game
          /\ next = "installing" => task[c].slots # 0
      BY <1>3, <3>1, <3>2, <3>3 DEF Inv, Chairs, Chair, Starting
    <3>5. next \notin Leaving /\ next # "entering" /\ next # "sizing"
      BY <3>2 DEF Leaving
    <3> QED
      BY <1>2, <3>1, <3>4, <3>5 DEF Chair
  <2> QED
    BY <2>1, <2>2
<1>7. task'[c].at \notin {"entering", "removing", "leaving"}
  BY <1>2
<1>8. Newcomer(c)' /\ OnTime(c)' /\ \A d, g : ~ KickedFrom(task'[c], d, g)
  BY <1>7 DEF Newcomer, OnTime, KickedFrom, Leaving
<1> QED
  BY <1>1, <1>2, <1>4, <1>5, <1>6, <1>8, GentleStep

LEMMA CompactInv ==
  ASSUME Inv, NEW c \in Clients, Compact(c)
  PROVE  Rest' /\ AllSlotsStay
<1> DEFINE g == task[c].game
<1>1. Base /\ TasksOK /\ c \in Tasks
  BY InvIs, BaseIs DEF Tasks
<1>2. /\ Base' /\ Moves(c) /\ UNCHANGED client
      /\ task'[c].at = "copying" /\ task'[c].who = task[c].who /\ task'[c].game = g
      /\ g \in Games
      /\ game'[g] = WithPlayers(game[g], Present(game[g].players))
      /\ \A k \in Games : k # g => game'[k] = game[k]
  BY <1>1, CompactBase
<1>3. task[c].at = "compacting"
  BY DEF Compact, At
<1>4. c # Cleanup /\ (task[Cleanup].at = "idle" \/ task[Cleanup].who # c)
  BY <1>3, NotReaped
<1>5. game[g].owner = c /\ Here(game[g], c) /\ ~ Live(game[g]) /\ client[c].game \in {g, NoGame}
  BY <1>3 DEF Inv, Chairs, Chair, Starting
<1> HIDE DEF g
<1>6. RoomOK(game[g]) /\ Distinct(game[g].players)
  BY <1>2, GentleRooms
<1>7. Gentle(game[g], game'[g])
  BY <1>2, <1>5, <1>6, GentleCompacted
<1>8. AllGentle
  BY <1>2, <1>7, GentleOne
<1>9. SlotsGentle(c) /\ ClientsGentle(c)
  BY <1>2, <1>3 DEF SlotsGentle, ClientsGentle, Dropping
<1>10. game'[g].owner = c /\ Here(game'[g], c) /\ ~ Live(game'[g])
  BY <1>5, <1>7 DEF Gentle
<1>11. Chair(c)'
  BY <1>2, <1>5, <1>10 DEF Chair, Leaving
<1>12. Newcomer(c)' /\ OnTime(c)' /\ \A d, k : ~ KickedFrom(task'[c], d, k)
  BY <1>2 DEF Newcomer, OnTime, KickedFrom, Leaving
<1> QED
  BY <1>1, <1>2, <1>4, <1>8, <1>9, <1>11, <1>12, GentleStep

LEMMA CopyInv ==
  ASSUME Inv, NEW c \in Clients, Copy(c)
  PROVE  Rest' /\ AllSlotsStay
<1> DEFINE g == task[c].game
<1>1. Base /\ TasksOK /\ c \in Tasks
  BY InvIs, BaseIs DEF Tasks
<1>2. /\ Base' /\ Moves(c) /\ UNCHANGED <<client, game>>
      /\ \/ task'[c].at \in {"idle", "unregistering"}
         \/ /\ client[c].game \in Games
            /\ task'[c].at = "sizing" /\ task'[c].who = task[c].who /\ task'[c].game = g
            /\ task'[c].slots = Len(game[client[c].game].players)
  BY <1>1, CopyBase
<1>3. task[c].at = "copying"
  BY DEF Copy, At
<1>4. c # Cleanup /\ (task[Cleanup].at = "idle" \/ task[Cleanup].who # c)
  BY <1>3, NotReaped
<1>5. g \in Games
  BY <1>1, <1>3, ActsIs
<1>6. game[g].owner = c /\ Here(game[g], c) /\ ~ Live(game[g]) /\ client[c].game \in {g, NoGame}
  BY <1>3 DEF Inv, Chairs, Chair, Starting
<1> HIDE DEF g
<1>7. SlotsGentle(c) /\ ClientsGentle(c) /\ AllGentle
  BY <1>1, <1>2, <1>3, BeginsGently
<1>8. Chair(c)'
  <2>1. CASE task'[c].at \in {"idle", "unregistering"}
    BY <2>1, QuietIs DEF Quiet, Starting, Leaving
  <2>2. CASE task'[c].at = "sizing"
    <3>1. client[c].game = g /\ task'[c].game = g /\ task'[c].slots = Len(game[g].players)
      BY <1>2, <1>6, <2>2 DEF NoGame, Games
    <3>2. game[g].players \in Seq(Player) /\ DOMAIN game[g].players # {}
      BY <1>5, <1>6, GentleRooms DEF RoomOK, Room, Here
    <3>3. Len(game[g].players) # 0
      BY <3>2
    <3> QED
      BY <1>2, <1>6, <2>2, <3>1, <3>3 DEF Chair, Leaving
  <2> QED
    BY <1>2, <2>1, <2>2
<1>9. Newcomer(c)' /\ OnTime(c)' /\ \A d, k : ~ KickedFrom(task'[c], d, k)
  BY <1>2 DEF Newcomer, OnTime, KickedFrom, Leaving
<1> QED
  BY <1>1, <1>2, <1>4, <1>7, <1>8, <1>9, GentleStep

LEMMA LeaveInv ==
  ASSUME Inv, NEW t \in Tasks, Leave(t)
  PROVE  Rest' /\ AllSlotsStay
<1> DEFINE g == task[t].game
           c == task[t].who
<1>1. Base /\ TasksOK /\ ClientOK
  BY InvIs, BaseIs
<1>2. /\ Base' /\ Moves(t) /\ UNCHANGED game /\ c \in Clients /\ g \in Games
      /\ \/ task'[t].at \in {"idle", "unregistering"}
         \/ /\ task'[t].at = "removing" /\ task'[t].who = c /\ task'[t].game = g
            /\ task'[t].reason = task[t].reason
            /\ ~ client'[c].registered \/ client'[c].game = NoGame
            /\ task[t].reason # "kick" => client'[c].game = NoGame
  BY <1>1, LeaveBase
<1>3. task[t].at = "leaving"
  BY DEF Leave, At
<1>4. task'[t].at = "idle" \/ task'[t].who = c
  BY <1>1, <1>3, EndIs, IdleIs, GotoIs DEF Leave, Places, Starting, Entering, Leaving
<1>5. ClientsGentle(t)
  BY <1>1, <1>2 DEF Leave, ClientsGentle, ClientOK
<1>6. SlotsGentle(t) /\ AllGentle
  BY <1>2, <1>3, GentleStays DEF SlotsGentle, Dropping
<1>7. t \in Clients => Chair(t)'
  <2>1. CASE task'[t].at \in {"idle", "unregistering"}
    BY <2>1, QuietIs DEF Quiet, Starting, Leaving
  <2>2. CASE task'[t].at = "removing" /\ task'[t].reason = "kick" /\ t \in Clients
    <3>1. task[t].reason = "kick" /\ task'[t].game = g
      BY <1>2, <2>2
    <3>2. game[g].owner = t /\ Here(game[g], t)
      BY <1>3, <2>2, <3>1 DEF Inv, Chairs, Chair, Leaving
    <3> QED
      BY <1>2, <2>2, <3>1, <3>2 DEF Chair, Starting
  <2>3. CASE task'[t].at = "removing" /\ task'[t].reason # "kick"
    BY <2>3 DEF Chair, Starting
  <2> QED
    BY <1>2, <2>1, <2>2, <2>3
<1>8. Newcomer(t)'
  BY <1>2 DEF Newcomer
<1>9. OnTime(t)'
  <2>1. NoGame \notin Games
    BY DEF NoGame, Games
  <2>2. CASE task'[t].at # "removing"
    BY <2>2 DEF OnTime
  <2>3. CASE task'[t].at = "removing"
    <3>1. /\ task'[t].who = c /\ task'[t].game = g
          /\ task'[t].reason # "kick" => client'[c].game = NoGame
          /\ ~ (client'[c].registered /\ client'[c].game = g)
      BY <1>2, <2>1, <2>3
    <3> QED
      BY <3>1 DEF OnTime
  <2> QED
    BY <2>2, <2>3
<1>10. ASSUME NEW d \in Clients, t \in Clients, d # t, task[d].at = "entering",
              KickedFrom(task'[t], d, task[d].game)
       PROVE  ~ Live(game'[task[d].game])
  <2>1. KickedFrom(task[t], d, task[d].game)
    BY <1>2, <1>3, <1>10 DEF KickedFrom, Leaving
  <2>2. Newcomer(d)
    BY DEF Inv, Newcomers
  <2> QED
    BY <1>2, <1>10, <2>1, <2>2 DEF Newcomer
<1>11. t = Cleanup => ReapedIsIdle'
  BY <1>2, <1>3, <1>4, ReapingGoesOn
<1>12. t # Cleanup => task[Cleanup].at = "idle" \/ task[Cleanup].who # t
  BY <1>3, NotReaped DEF Tasks
<1> QED
  BY <1>2, <1>5, <1>6, <1>7, <1>8, <1>9, <1>10, <1>11, <1>12, GentleStep

\* The one step that starts a game: nobody else is about to, nobody is being kicked, and
\* nobody on the list has left.
LEMMA InstallInv ==
  ASSUME Inv, NEW c \in Clients, Install(c)
  PROVE  Rest' /\ AllSlotsStay
<1> DEFINE g == task[c].game
           w == game'[g]
<1>1. Base /\ TasksOK /\ ClientOK /\ RoomsOK /\ Rest /\ c \in Tasks /\ c # Cleanup
  BY InvIs, BaseIs, CleanupAssumption DEF Tasks
<1>2. /\ Base' /\ Moves(c) /\ UNCHANGED client
      /\ task'[c].at \in {"idle", "unregistering"}
      /\ g \in Games
      /\ w.players = game[g].players /\ w.owner = game[g].owner /\ w.open = game[g].open
      /\ Len(w.dropped) = task[c].slots
      /\ \A k \in Games : k # g => game'[k] = game[k]
  BY <1>1, InstallBase
<1>3. task[c].at = "installing"
  BY DEF Install, At
<1>4. game[g].owner = c /\ Here(game[g], c) /\ ~ Live(game[g]) /\ task[c].slots # 0
  BY <1>1, <1>3 DEF Rest, Chairs, Chair, Starting
<1>5. \A u \in Tasks : u # c => task'[u] = task[u]
  BY <1>2 DEF Moves
<1>6. Clients \subseteq Tasks /\ Cleanup \in Tasks
  BY DEF Tasks
<1> HIDE DEF g, w
<1>7. \A k \in Games : game'[k].players = game[k].players /\ game'[k].owner = game[k].owner
  BY <1>2 DEF w
<1>8. Live(w)
  <2>1. w.dropped # <<>>
    BY <1>2, <1>4
  <2> QED
    BY <2>1 DEF Live
<1>9. \A k \in Games : (\A d : Here(game'[k], d) <=> Here(game[k], d)) /\ (\A d : Tombstone(game'[k], d) <=> Tombstone(game[k], d))
  BY <1>7 DEF Here, Tombstone
<1>10. NoneLeft(game[g])
  BY <1>2, <1>4, GentleRooms
<1>11. NoTombstoneWaits'
  <2> SUFFICES ASSUME NEW k \in Games, ~ Live(game'[k]) PROVE \A i \in DOMAIN game'[k].players : ~ game'[k].players[i].left
    BY DEF NoTombstoneWaits
  <2>1. k # g
    BY <1>8 DEF w
  <2> QED
    BY <1>1, <1>2, <2>1 DEF Rest, NoTombstoneWaits
<1>12. Chairs'
  <2> SUFFICES ASSUME NEW d \in Clients PROVE Chair(d)'
    BY DEF Chairs
  <2>1. CASE d = c
    BY <1>2, <2>1, QuietIs DEF Quiet, Starting, Leaving
  <2>2. CASE d # c
    <3> DEFINE h == task[d]
    <3>1. task'[d] = h /\ Chair(d)
      BY <1>1, <1>5, <1>6, <2>2 DEF Rest, Chairs
    <3>2. h.at \in Starting \/ h.at = "entering" \/ h.at \in Leaving => h.game \in Games
      BY <1>1, <1>6 DEF TasksOK, TaskOK, Starting, Leaving
    <3>3. \/ h.at \in Starting \/ (h.at = "entering" /\ h.reason = "create")
          \/ h.at \in Leaving /\ h.reason = "kick"
          => h.game # g
      BY <1>4, <2>2, <3>1 DEF Chair
    <3>4. h.game \in Games =>
            /\ game'[h.game].owner = game[h.game].owner
            /\ \A e : Here(game'[h.game], e) <=> Here(game[h.game], e)
            /\ h.game # g => game'[h.game] = game[h.game]
      BY <1>2, <1>7, <1>9
    <3> QED
      BY <1>2, <3>1, <3>2, <3>3, <3>4 DEF Chair
  <2> QED
    BY <2>1, <2>2
<1>13. Welcome'
  <2> SUFFICES ASSUME NEW d \in Clients, client[d].registered, client[d].game # NoGame
               PROVE  ~ Tombstone(game'[client[d].game], d)
    BY <1>2 DEF Welcome
  <2>1. client[d].game \in Games
    BY <1>1, ClientIs
  <2> QED
    BY <1>1, <1>9, <2>1 DEF Rest, Welcome
\* Who is leaving because of a kick in this room is taken off it by its owner, who is starting.
<1>14. ASSUME NEW u \in Clients, NEW d \in Clients, d # u, KickedFrom(task[u], d, g) PROVE FALSE
  <2>1. task[u].at \in Leaving /\ task[u].who = d /\ task[u].game = g /\ u # Cleanup /\ u \in Tasks
    BY <1>1, <1>6, <1>14, CleanupAssumption DEF KickedFrom
  <2>2. task[u].reason = "kick"
    BY <1>1, <1>14, <2>1 DEF TasksOK, TaskOK
  <2>3. game[g].owner = u
    BY <1>1, <2>1, <2>2 DEF Rest, Chairs, Chair
  <2>4. u = c
    BY <1>4, <2>3
  <2> QED
    BY <1>3, <2>1, <2>4 DEF Leaving
<1>15. Newcomers'
  <2> SUFFICES ASSUME NEW d \in Clients PROVE Newcomer(d)'
    BY DEF Newcomers
  <2>1. CASE d = c \/ task[d].at # "entering"
    BY <1>2, <1>5, <1>6, <2>1 DEF Newcomer
  <2>2. CASE d # c /\ task[d].at = "entering"
    <3> DEFINE k == task[d].game
    <3>1. task'[d] = task[d] /\ k \in Games
      BY <1>1, <1>5, <1>6, <2>2, ActsIs
    <3>2. /\ client[d].game = NoGame /\ ~ Tombstone(game[k], d)
          /\ \A u \in Clients : u # d /\ KickedFrom(task[u], d, k) => ~ Live(game[k])
      BY <1>1, <2>2 DEF Rest, Newcomers, Newcomer
    <3>3. client'[d].game = NoGame /\ ~ Tombstone(game'[k], d)
      BY <1>2, <1>9, <3>1, <3>2
    <3>4. ASSUME NEW u \in Clients, u # d, KickedFrom(task'[u], d, k) PROVE ~ Live(game'[k])
      <4>1. u # c
        BY <1>2, <3>4 DEF KickedFrom, Leaving
      <4>2. KickedFrom(task[u], d, k)
        BY <1>5, <1>6, <3>4, <4>1
      <4>3. k # g
        BY <1>14, <3>4, <4>2
      <4> QED
        BY <1>2, <3>1, <3>2, <3>4, <4>2, <4>3
    <3> HIDE DEF k
    <3>5. k = task[d].game
      BY DEF k
    <3> QED
      BY <3>1, <3>3, <3>4, <3>5 DEF Newcomer
  <2> QED
    BY <2>1, <2>2
<1>16. NotLate'
  <2> SUFFICES ASSUME NEW u \in Tasks PROVE OnTime(u)'
    BY DEF NotLate
  <2>1. CASE u = c \/ task[u].at # "removing"
    BY <1>2, <1>5, <2>1 DEF OnTime
  <2>2. CASE u # c /\ task[u].at = "removing"
    <3> DEFINE d == task[u].who
               k == task[u].game
    <3>1. task'[u] = task[u] /\ d \in Clients /\ k \in Games
      BY <1>1, <1>5, <2>2, ActsIs
    <3>2. /\ task[u].reason # "kick" => client[d].game = NoGame
          /\ client[d].registered /\ client[d].game = k => ~ Live(game[k])
      BY <1>1, <2>2 DEF Rest, NotLate, OnTime
    <3>3. NoGame \notin Games
      BY DEF NoGame, Games
    <3>4. task[u].reason = "kick" => k # g
      <4> SUFFICES ASSUME task[u].reason = "kick", k = g PROVE FALSE
        OBVIOUS
      <4>1. u \in Clients
        BY <1>1 DEF TasksOK, TaskOK
      <4>2. game[g].owner = u
        BY <1>1, <2>2, <4>1 DEF Rest, Chairs, Chair, Leaving
      <4> QED
        BY <1>4, <2>2, <4>2
    <3> HIDE DEF d, k
    <3>5. /\ task[u].reason # "kick" => client'[d].game = NoGame
          /\ client'[d].registered /\ client'[d].game = k => ~ Live(game'[k])
      BY <1>2, <3>1, <3>2, <3>3, <3>4
    <3> QED
      BY <3>1, <3>5 DEF OnTime, d, k
  <2> QED
    BY <2>1, <2>2
<1>17. ReapedIsIdle'
  <2>1. task'[Cleanup] = task[Cleanup] /\ (task[Cleanup].at # "idle" => task[Cleanup].who \in Clients)
    BY <1>1, <1>5, <1>6 DEF TasksOK, TaskOK
  <2>2. task[Cleanup].at # "idle" => task[Cleanup].who # c
    BY <1>3, NotReaped
  <2> QED
    BY <1>1, <1>5, <1>6, <2>1, <2>2 DEF Rest, ReapedIsIdle
<1>18. SlotFound'
  <2> SUFFICES ASSUME NEW k \in Games, NEW i \in DOMAIN game'[k].dropped, NEW d,
                      d = game'[k].players[i].addr,
                      game'[k].open, i \in DOMAIN game'[k].players, game'[k].players[i].left,
                      client'[d].registered
               PROVE  game'[k].dropped[i] \/ \E u \in Tasks : Dropping(task'[u], d, k, i)
    BY DEF SlotFound
  <2>1. k # g
    BY <1>7, <1>10 DEF NoneLeft
  <2>2. game'[k] = game[k]
    BY <1>2, <2>1
  <2>3. game[k].dropped[i] \/ \E u \in Tasks : Dropping(task[u], d, k, i)
    BY <1>1, <1>2, <2>2 DEF Rest, SlotFound
  <2>4. \A u \in Tasks : Dropping(task[u], d, k, i) => u # c
    BY <1>3 DEF Dropping
  <2> QED
    BY <1>5, <2>2, <2>3, <2>4
<1>19. AllSlotsStay
  <2> SUFFICES ASSUME NEW k \in Games PROVE SlotsStay(game[k], game'[k])
    BY DEF AllSlotsStay
  <2>1. CASE k = g
    BY <1>4, <2>1 DEF SlotsStay
  <2>2. CASE k # g
    BY <1>2, <2>2, GentleRooms, GentleSame DEF Gentle
  <2> QED
    BY <2>1, <2>2
<1> QED
  BY <1>11, <1>12, <1>13, <1>15, <1>16, <1>17, <1>18, <1>19 DEF Rest

\* The one step that makes a tombstone. Whoever acts on his room as its owner is spared.
LEMMA TakeOffInv ==
  ASSUME Inv, NEW t \in Tasks, TakeOff(t)
  PROVE  Rest' /\ AllSlotsStay
<1> DEFINE g == task[t].game
           c == task[t].who
           r == game[g]
           w == game'[g]
<1>1. Base /\ TasksOK /\ ClientOK /\ RoomsOK /\ Rest /\ Cleanup \notin Clients
  BY InvIs, BaseIs, CleanupAssumption
<1>2. /\ Base' /\ Moves(t) /\ UNCHANGED client
      /\ c \in Clients /\ g \in Games
      /\ task'[t].at \in {"dropping", "closing", "telling"}
      /\ task'[t].who = c /\ task'[t].game = g
      /\ w = Without(r, c)
      /\ Live(w) => task'[t].at = "dropping"
      /\ \A k \in Games : k # g => game'[k] = game[k]
  BY <1>1, TakeOffBase
<1>3. task[t].at = "removing"
  BY DEF TakeOff, At
<1>4. \A u \in Tasks : u # t => task'[u] = task[u]
  BY <1>2 DEF Moves
<1>5. Clients \subseteq Tasks /\ Cleanup \in Tasks
  BY DEF Tasks
<1>6. RoomOK(r) /\ Distinct(r.players) /\ (~ Live(r) => NoneLeft(r))
  BY <1>2, GentleRooms
<1>7. TaskOK(t, task[t]) /\ OnTime(t)
  BY <1>1 DEF TasksOK, Rest, NotLate
<1>8. r = game[g] /\ w = game'[g] /\ g = task[t].game /\ c = task[t].who
  OBVIOUS
<1> HIDE DEF g, c, r, w
<1>9. /\ RoomOK(w) /\ w.open = r.open /\ w.dropped = r.dropped
      /\ Live(r) => /\ DOMAIN w.players = DOMAIN r.players
                    /\ \A i \in DOMAIN r.players :
                         /\ w.players[i].addr = r.players[i].addr
                         /\ w.players[i].left <=> r.players[i].left \/ r.players[i].addr = c
      /\ ~ Live(r) => \A k \in DOMAIN w.players : \E i \in DOMAIN r.players :
                        w.players[k] = r.players[i] /\ r.players[i].addr # c
      /\ \A d : d # c /\ Here(r, d) => Here(w, d)
      /\ r.owner # c /\ Here(r, r.owner) => w.owner = r.owner
  BY <1>2, <1>6, WithoutIs
<1>10. Live(w) <=> Live(r)
  BY <1>9 DEF Live
<1>11. ASSUME NEW d, Tombstone(w, d) PROVE Tombstone(r, d) \/ (d = c /\ Live(r))
  <2>1. CASE Live(r)
    BY <1>9, <1>11, <2>1 DEF Tombstone
  <2>2. CASE ~ Live(r)
    BY <1>9, <1>11, <2>2 DEF Tombstone
  <2> QED
    BY <2>1, <2>2
<1>12. Quiet(task'[t])
  BY <1>2 DEF Quiet, Starting, Leaving
<1>13. /\ t \in Clients => Chair(t)' /\ Newcomer(t)'
       /\ OnTime(t)' /\ \A d, k : ~ KickedFrom(task'[t], d, k)
  BY <1>12, QuietIs
<1>14. \/ t = Cleanup /\ task[c].at \in {"idle", "dead"}
       \/ t \in Clients /\ t = c
       \/ t \in Clients /\ r.owner = t
  <2>1. CASE t = Cleanup
    BY <1>1, <1>3, <1>8, <2>1 DEF Rest, ReapedIsIdle
  <2>2. CASE t # Cleanup /\ task[t].reason # "kick"
    BY <1>3, <1>7, <1>8, <2>2 DEF TaskOK, Leaving, Tasks
  <2>3. CASE t # Cleanup /\ task[t].reason = "kick"
    <3>1. t \in Clients /\ Chair(t)
      BY <1>1, <2>3 DEF Tasks, Rest, Chairs
    <3> QED
      BY <1>3, <1>8, <2>3, <3>1 DEF Chair, Leaving
  <2> QED
    BY <2>1, <2>2, <2>3
<1>15. NoTombstoneWaits'
  <2> SUFFICES ASSUME NEW k \in Games, ~ Live(game'[k]), NEW i \in DOMAIN game'[k].players
               PROVE  ~ game'[k].players[i].left
    BY DEF NoTombstoneWaits
  <2>1. CASE k = g
    <3>1. i \in DOMAIN w.players /\ ~ Live(r)
      BY <1>8, <1>10, <2>1
    <3>2. ~ w.players[i].left
      BY <1>6, <1>9, <3>1 DEF NoneLeft
    <3> QED
      BY <1>8, <2>1, <3>2
  <2>2. CASE k # g
    BY <1>1, <1>2, <2>2 DEF Rest, NoTombstoneWaits
  <2> QED
    BY <2>1, <2>2
<1>16. Chairs'
  <2> SUFFICES ASSUME NEW d \in Clients PROVE Chair(d)'
    BY DEF Chairs
  <2>1. CASE d = t
    BY <1>13, <2>1
  <2>2. CASE d # t
    <3> DEFINE h == task[d]
               acts == \/ h.at \in Starting \/ (h.at = "entering" /\ h.reason = "create")
                       \/ h.at \in Leaving /\ h.reason = "kick"
    <3>1. task'[d] = h /\ Chair(d)
      BY <1>1, <1>4, <1>5, <2>2 DEF Rest, Chairs
    <3>2. acts => h.game \in Games
      BY <1>1, <1>5 DEF TasksOK, TaskOK, Starting, Leaving
    <3>3. acts => game[h.game].owner = d /\ Here(game[h.game], d)
      BY <3>1 DEF Chair
    <3>4. acts /\ h.game = g => d # c
      <4> SUFFICES ASSUME acts, h.game = g, d = c PROVE FALSE
        OBVIOUS
      <4>1. r.owner = d
        BY <1>8, <3>3
      <4>2. task[c].at \notin {"idle", "dead"}
        BY DEF Starting, Leaving
      <4> QED
        BY <1>14, <2>2, <4>1, <4>2
    <3>5. acts => /\ game'[h.game].owner = d /\ Here(game'[h.game], d)
                  /\ Live(game'[h.game]) <=> Live(game[h.game])
      <4> HIDE DEF acts
      <4>1. CASE h.game = g
        BY <1>8, <1>9, <1>10, <3>3, <3>4, <4>1, SMTT(30)
      <4>2. CASE h.game # g
        BY <1>2, <3>2, <3>3, <4>2
      <4> QED
        BY <4>1, <4>2
    <3> QED
      BY <1>2, <3>1, <3>5 DEF Chair
  <2> QED
    BY <2>1, <2>2
<1>17. Welcome'
  <2> SUFFICES ASSUME NEW d \in Clients, client[d].registered, client[d].game # NoGame
               PROVE  ~ Tombstone(game'[client[d].game], d)
    BY <1>2 DEF Welcome
  <2>1. client[d].game \in Games /\ ~ Tombstone(game[client[d].game], d)
    BY <1>1, ClientIs DEF Rest, Welcome
  <2>2. CASE client[d].game = g
    <3>1. d = c => ~ Live(r)
      BY <1>3, <1>7, <1>8, <2>2 DEF OnTime
    <3> QED
      BY <1>8, <1>11, <2>1, <2>2, <3>1
  <2>3. CASE client[d].game # g
    BY <1>2, <2>1, <2>3
  <2> QED
    BY <2>2, <2>3
<1>18. Newcomers'
  <2> SUFFICES ASSUME NEW d \in Clients PROVE Newcomer(d)'
    BY DEF Newcomers
  <2>1. CASE d = t
    BY <1>13, <2>1
  <2>2. CASE d # t /\ task[d].at # "entering"
    BY <1>4, <1>5, <2>2 DEF Newcomer
  <2>3. CASE d # t /\ task[d].at = "entering"
    <3> DEFINE k == task[d].game
    <3>1. task'[d] = task[d] /\ k \in Games
      BY <1>1, <1>4, <1>5, <2>3, ActsIs
    <3>2. /\ client[d].game = NoGame /\ ~ Tombstone(game[k], d)
          /\ \A u \in Clients : u # d /\ KickedFrom(task[u], d, k) => ~ Live(game[k])
      BY <1>1, <2>3 DEF Rest, Newcomers, Newcomer
    <3>3. ~ Tombstone(game'[k], d)
      <4>1. CASE k = g /\ d = c
        <5>1. t \in Clients
          BY <1>14, <2>3, <4>1
        <5>2. KickedFrom(task[t], d, k)
          BY <1>3, <1>8, <4>1 DEF KickedFrom, Leaving
        <5>3. ~ Live(r)
          BY <1>8, <2>3, <3>2, <4>1, <5>1, <5>2
        <5> QED
          BY <1>8, <1>11, <3>2, <4>1, <5>3
      <4>2. CASE k = g /\ d # c
        BY <1>8, <1>11, <3>2, <4>2
      <4>3. CASE k # g
        BY <1>2, <3>1, <3>2, <4>3
      <4> QED
        BY <4>1, <4>2, <4>3
    <3>4. Live(game'[k]) => Live(game[k])
      BY <1>2, <1>8, <1>10, <3>1
    <3>5. ASSUME NEW u \in Clients, u # d, KickedFrom(task'[u], d, k) PROVE ~ Live(game'[k])
      <4>1. u # t
        BY <1>13, <3>5
      <4> QED
        BY <1>4, <1>5, <3>2, <3>4, <3>5, <4>1
    <3> HIDE DEF k
    <3>6. k = task[d].game
      BY DEF k
    <3> QED
      BY <1>2, <3>1, <3>2, <3>3, <3>5, <3>6 DEF Newcomer
  <2> QED
    BY <2>1, <2>2, <2>3
<1>19. NotLate'
  <2> SUFFICES ASSUME NEW u \in Tasks PROVE OnTime(u)'
    BY DEF NotLate
  <2>1. CASE u = t
    BY <1>13, <2>1
  <2>2. CASE u # t /\ task[u].at # "removing"
    BY <1>4, <2>2 DEF OnTime
  <2>3. CASE u # t /\ task[u].at = "removing"
    <3>1. task'[u] = task[u] /\ task[u].game \in Games /\ OnTime(u)
      BY <1>1, <1>4, <2>3, ActsIs DEF Rest, NotLate
    <3>2. Live(game'[task[u].game]) => Live(game[task[u].game])
      BY <1>2, <1>8, <1>10, <3>1
    <3> QED
      BY <1>2, <2>3, <3>1, <3>2 DEF OnTime
  <2> QED
    BY <2>1, <2>2, <2>3
<1>20. ReapedIsIdle'
  <2>1. CASE t = Cleanup
    BY <1>2, <1>3, <1>8, <2>1, ReapingGoesOn
  <2>2. CASE t # Cleanup
    <3>1. task'[Cleanup] = task[Cleanup] /\ (task[Cleanup].at # "idle" => task[Cleanup].who \in Clients)
      BY <1>1, <1>4, <1>5, <2>2 DEF TasksOK, TaskOK
    <3>2. task[Cleanup].at # "idle" => task[Cleanup].who # t
      BY <1>3, <2>2, NotReaped DEF Tasks
    <3> QED
      BY <1>1, <1>4, <1>5, <3>1, <3>2 DEF Rest, ReapedIsIdle
  <2> QED
    BY <2>1, <2>2
<1>21. SlotFound'
  <2> SUFFICES ASSUME NEW k \in Games, NEW i \in DOMAIN game'[k].dropped, NEW d,
                      d = game'[k].players[i].addr,
                      game'[k].open, i \in DOMAIN game'[k].players, game'[k].players[i].left,
                      client'[d].registered
               PROVE  game'[k].dropped[i] \/ \E u \in Tasks : Dropping(task'[u], d, k, i)
    BY DEF SlotFound
  <2>1. \A u \in Tasks : Dropping(task[u], d, k, i) => u # t
    BY <1>3 DEF Dropping
  <2>2. CASE k # g
    <3>1. game'[k] = game[k]
      BY <1>2, <2>2
    <3>2. game[k].dropped[i] \/ \E u \in Tasks : Dropping(task[u], d, k, i)
      BY <1>1, <1>2, <3>1 DEF Rest, SlotFound
    <3> QED
      BY <1>4, <2>1, <3>1, <3>2
  <2>3. CASE k = g
    <3>1. i \in DOMAIN r.dropped /\ w.dropped = r.dropped /\ r.open
      BY <1>8, <1>9, <2>3
    <3>2. Live(r)
      BY <3>1, NotLiveIs
    <3>3. i \in DOMAIN r.players /\ r.players[i].addr = d /\ (r.players[i].left \/ d = c)
      <4>1. w = game'[k]
        BY <1>8, <2>3
      <4>2. i \in DOMAIN w.players /\ w.players[i].addr = d /\ w.players[i].left
        BY <4>1
      <4>3. /\ DOMAIN w.players = DOMAIN r.players
            /\ \A j \in DOMAIN r.players :
                 /\ w.players[j].addr = r.players[j].addr
                 /\ w.players[j].left <=> r.players[j].left \/ r.players[j].addr = c
        BY <1>9, <3>2
      <4>4. i \in DOMAIN r.players
        BY <4>2, <4>3
      <4>5. w.players[i].addr = r.players[i].addr
        BY <4>3, <4>4
      <4>6. r.players[i].left \/ r.players[i].addr = c
        BY <4>2, <4>3, <4>4
      <4> QED
        BY <4>2, <4>4, <4>5, <4>6
    <3>4. CASE d = c
      BY <1>2, <1>10, <2>3, <3>2, <3>4 DEF Dropping
    <3>5. CASE r.players[i].left
      <4>1. r.dropped[i] \/ \E u \in Tasks : Dropping(task[u], d, k, i)
        BY <1>1, <1>2, <1>8, <2>3, <3>1, <3>3, <3>5 DEF Rest, SlotFound
      <4> QED
        BY <1>4, <1>8, <2>1, <2>3, <3>1, <4>1
    <3> QED
      BY <3>3, <3>4, <3>5
  <2> QED
    BY <2>2, <2>3
<1>22. AllSlotsStay
  <2> SUFFICES ASSUME NEW k \in Games PROVE SlotsStay(game[k], game'[k])
    BY DEF AllSlotsStay
  <2>1. CASE k = g
    <3>1. r \in Room /\ w \in Room
      BY <1>6, <1>9 DEF RoomOK
    <3>2. Live(r) => IsPrefix(Addrs(r), Addrs(w))
      <4>1. Len(r.players) \in Nat
        BY <3>1 DEF Room
      <4>2. Live(r) => Len(w.players) = Len(r.players)
        BY <1>9, <3>1 DEF Room
      <4> QED
        BY <1>9, <3>1, <4>1, <4>2, PrefixIs
    <3>3. SlotsStay(r, w)
      BY <1>9, <3>2 DEF SlotsStay
    <3> QED
      BY <1>8, <2>1, <3>3
  <2>2. CASE k # g
    BY <1>2, <2>2, GentleRooms, GentleSame DEF Gentle
  <2> QED
    BY <2>1, <2>2
<1> QED
  BY <1>15, <1>16, <1>17, <1>18, <1>19, <1>20, <1>21, <1>22 DEF Rest

-----------------------------------------------------------------------------
LEMMA InvInit == Init => Inv
<1> SUFFICES ASSUME Init PROVE Inv
  OBVIOUS
<1>1. \A t \in Tasks : task[t] = Idle /\ task[t].at = "idle"
  BY IdleIs DEF Init
<1>2. Clients \subseteq Tasks /\ Cleanup \in Tasks
  BY DEF Tasks
<1>3. \A g \in Games : DOMAIN game[g].players = {} /\ DOMAIN game[g].dropped = {}
  BY DEF Init, Unused
<1>4. \A c \in Clients : client[c].game = NoGame
  BY DEF Init
<1>5. NoTombstoneWaits /\ SlotFound
  BY <1>3 DEF NoTombstoneWaits, SlotFound
<1>6. Chairs /\ Newcomers
  BY <1>1, <1>2 DEF Chairs, Chair, Newcomers, Newcomer, Starting, Leaving
<1>7. Welcome
  BY <1>4 DEF Welcome
<1>8. NotLate /\ ReapedIsIdle
  BY <1>1, <1>2 DEF NotLate, OnTime, ReapedIsIdle
<1> QED
  BY <1>5, <1>6, <1>7, <1>8, BaseInit DEF Inv

LEMMA InvStep ==
  ASSUME ~ LatePackets, Inv, [Next]_vars
  PROVE  Inv' /\ AllSlotsStay
<1>1. Base'
  BY BaseStep, InvIs
<1>2. ASSUME NEW c \in Clients,
             \/ Create(c) \/ Enter(c) \/ JoinRoom(c) \/ LookUp(c, "joining", "pushing")
             \/ Start(c) \/ LookUp(c, "starting", "compacting") \/ Compact(c) \/ Copy(c)
             \/ LookUp(c, "sizing", "installing") \/ Install(c)
             \/ QuitGame(c) \/ UserQuit(c) \/ Reap(c) \/ DropGame(c)
             \/ \E g \in Games : Join(c, g)
             \/ \E k \in Clients : KickUser(c, k)
      PROVE  Rest' /\ AllSlotsStay
  <2>1. c \in Tasks /\ Cleanup \in Tasks
    BY DEF Tasks
  <2>2. CASE Create(c) \/ Enter(c) \/ JoinRoom(c) \/ Compact(c) \/ Copy(c) \/ Install(c)
    BY <2>2, CreateInv, EnterInv, JoinRoomInv, CompactInv, CopyInv, InstallInv
  <2>3. CASE LookUp(c, "joining", "pushing") \/ LookUp(c, "starting", "compacting") \/ LookUp(c, "sizing", "installing")
    BY <2>3, LookUpInv
  <2>4. CASE QuitGame(c) \/ UserQuit(c) \/ Reap(c)
    <3>1. \/ Quit(c, c, "quit") \/ Quit(c, c, "bye")
          \/ Quit(Cleanup, c, "bye") /\ task[c].at \in {"idle", "dead"}
      BY <2>4 DEF QuitGame, UserQuit, Reap
    <3>2. CASE Quit(c, c, "quit")
      BY <2>1, <3>2, QuitInv
    <3>3. CASE Quit(c, c, "bye")
      BY <2>1, <3>3, QuitInv
    <3>4. CASE Quit(Cleanup, c, "bye") /\ task[c].at \in {"idle", "dead"}
      BY <2>1, <3>4, QuitInv
    <3> QED
      BY <3>1, <3>2, <3>3, <3>4
  <2>5. CASE Start(c) \/ DropGame(c)
    BY <2>5, StartInv, DropGameInv
  <2>6. CASE \E g \in Games : Join(c, g)
    BY <2>6, JoinInv
  <2>7. CASE \E k \in Clients : KickUser(c, k)
    BY <2>7, KickUserInv
  <2> QED
    BY <1>2, <2>2, <2>3, <2>4, <2>5, <2>6, <2>7
<1>3. ASSUME NEW t \in Tasks,
             \/ Leave(t) \/ TakeOff(t) \/ Tell(t) \/ RemoveClient(t)
             \/ FindSlot(t) \/ MarkDropped(t) \/ CheckEmpty(t) \/ CloseRoom(t)
      PROVE  Rest' /\ AllSlotsStay
  BY <1>3, LeaveInv, TakeOffInv, QuietSteps, FindSlotInv, MarkDroppedInv
<1>4. CASE UNCHANGED vars
  <2>1. client' = client /\ game' = game /\ task' = task
    BY <1>4 DEF vars
  <2>2. Rest'
    BY <2>1, InvIs DEF Rest, NoTombstoneWaits, Chairs, Chair, Welcome, Newcomers, Newcomer, NotLate,
       OnTime, ReapedIsIdle, SlotFound
  <2>3. AllSlotsStay
    BY <2>1, GentleStays DEF AllGentle, AllSlotsStay, Gentle
  <2> QED
    BY <1>1, <2>2, <2>3, InvIs
<1> QED
  BY <1>1, <1>2, <1>3, <1>4, InvIs DEF Next

LEMMA InvAlways == ASSUME ~ LatePackets PROVE Spec => []Inv
<1>1. Inv /\ [Next]_vars => Inv'
  BY InvStep
<1> QED
  BY <1>1, InvInit, PTL DEF Spec

\* If a client removed for his silence stays silent: when a game is over, nobody who left
\* during it is on the list, however the drops, kicks, quits and the next start race.
THEOREM AWaitingRoomHasNoTombstone ==
  ASSUME ~ LatePackets PROVE Spec => []NoTombstoneWaits
<1>1. Inv => NoTombstoneWaits
  BY DEF Inv
<1> QED
  BY <1>1, InvAlways, PTL

\* Under the same assumption: who leaves a live game has his slot dropped, or a handler is on
\* its way to drop the very slot that is his.
THEOREM LeaversSlotsAreDropped ==
  ASSUME ~ LatePackets PROVE Spec => []LeaversAreDropped
<1>1. Inv => LeaversAreDropped
  <2> SUFFICES ASSUME Inv, NEW g \in Games, NEW i \in DOMAIN game[g].dropped, NEW p,
                      p = game[g].players[i],
                      game[g].open, i \in DOMAIN game[g].players, p.left, client[p.addr].registered,
                      ~ game[g].dropped[i]
               PROVE  \E t \in Tasks : /\ task[t].at \in {"dropping", "marking"}
                                       /\ task[t].who = p.addr /\ task[t].game = g
    BY DEF LeaversAreDropped
  <2> QED
    BY DEF Inv, SlotFound, Dropping
<1> QED
  BY <1>1, InvAlways, PTL

\* Under the same assumption: a live game keeps its engine and the slots of its players.
THEOREM SlotsStayPut ==
  ASSUME ~ LatePackets PROVE Spec => NeverReindexed
<1>1. Inv /\ [Next]_vars => [AllSlotsStay]_vars
  BY InvStep
<1>2. [AllSlotsStay]_vars =>
        [\A g \in Games : Live(game[g]) /\ Live(game'[g]) =>
           /\ IsPrefix(Addrs(game[g]), Addrs(game'[g]))
           /\ Len(game'[g].dropped) = Len(game[g].dropped)]_vars
  BY DEF AllSlotsStay, SlotsStay
<1> QED
  BY <1>1, <1>2, InvAlways, PTL DEF Spec, NeverReindexed
================================================================================
