-------------------------- MODULE FrameDeliveryProofs --------------------------
(***************************************************************************)
(* The combiner keeps the lockstep promise for any number of players, any  *)
(* delays, any inputs and any length of game; and with one frame a packet, *)
(* which is what users may log in with, what becomes of the frames after   *)
(* the lock is released is what module FrameDelivery says.                 *)
(*                                                                         *)
(* The invariant of the combiner is TypeOK /\ Accounted, strengthened by   *)
(* two facts about what has happened: whole packets were sent              *)
(* (WholePackets), and the input size is unknown only while nobody has     *)
(* contributed (SizeKnown), so that learning it never changes the filler   *)
(* of a frame already made.                                                *)
(*                                                                         *)
(* Everything turns on one observation (RoundsOfRest): a queue is what the *)
(* log has not used of a player's inputs, so the rounds the queues allow   *)
(* are exactly the frames the log lacks.                                   *)
(*                                                                         *)
(* The delivery, in the second half, needs one more (Sending): until a     *)
(* player drops at most one frame is under way, and whoever sends it has   *)
(* yet to contribute to the next.                                          *)
(***************************************************************************)
EXTENDS FrameDelivery, ListsProofs

-----------------------------------------------------------------------------
(***************************************************************************)
(* Numbers.                                                                *)
(***************************************************************************)
LEMMA Euclid ==
  ASSUME NEW b \in Nat, NEW d \in Nat \ {0}
  PROVE  /\ b \div d \in Nat /\ b \div d <= b
         /\ b % d \in Nat /\ b % d < d /\ b % d <= b
         /\ b = d * (b \div d) + (b % d)
<1>1. b \div d \in Nat /\ b \div d <= b
  OBVIOUS
<1>2. b % d \in Nat /\ b % d < d /\ b % d <= b
  OBVIOUS
<1>3. b = d * (b \div d) + (b % d)
  OBVIOUS
<1>4. QED
  BY <1>1, <1>2, <1>3

LEMMA Remainder ==
  ASSUME NEW q \in Nat, NEW r \in Nat, NEW d \in Nat \ {0}, r < d
  PROVE  (d * q + r) % d = r
OBVIOUS

LEMMA SmallRemainder ==
  ASSUME NEW r \in Nat, NEW d \in Nat \ {0}, r < d
  PROVE  r % d = r
OBVIOUS

\* Whole packets do not change what is left over.
LEMMA RemainderOfSum ==
  ASSUME NEW a \in Nat, NEW b \in Nat, NEW d \in Nat \ {0}, a % d = 0
  PROVE  (a + b) % d = b % d
<1>1. PICK qa \in Nat : a = d * qa + 0
  BY Euclid
<1>2. PICK qb \in Nat : b = d * qb + (b % d)
  BY Euclid
<1>3. b % d \in Nat /\ b % d < d
  BY Euclid
<1>4. qa + qb \in Nat /\ a + b = d * (qa + qb) + (b % d)
  BY <1>1, <1>2, <1>3
<1>5. \A q, r \in Nat : r < d => (d * q + r) % d = r
  BY Remainder
<1>6. (d * (qa + qb) + (b % d)) % d = b % d
  BY <1>3, <1>4, <1>5
<1>7. QED
  BY <1>4, <1>6

\* What leaves a buffer in whole packets is a multiple of the packet.
LEMMA WholeIsWhole ==
  ASSUME NEW b \in Nat, NEW d \in Nat \ {0}
  PROVE  /\ b - (b % d) \in Nat /\ b - (b % d) <= b
         /\ (b - (b % d)) % d = 0
<1>1. PICK q \in Nat : b = d * q + (b % d)
  BY Euclid
<1>2. b % d \in Nat /\ b % d <= b
  BY Euclid
<1>3. b - (b % d) = d * q + 0
  BY <1>1, <1>2
<1>4. (d * q + 0) % d = 0
  BY Remainder
<1>5. QED
  BY <1>2, <1>3, <1>4

-----------------------------------------------------------------------------
(***************************************************************************)
(* Sequences.                                                              *)
(***************************************************************************)
\* What SubSeq(s, n + 1, Len(s)) is, also when n exceeds the length of s.
LEMMA Rest ==
  ASSUME NEW S, NEW s \in Seq(S), NEW n \in Nat
  PROVE  /\ SubSeq(s, n + 1, Len(s)) \in Seq(S)
         /\ Len(SubSeq(s, n + 1, Len(s))) = IF n <= Len(s) THEN Len(s) - n ELSE 0
         /\ \A i \in 1 .. Len(s) - n : SubSeq(s, n + 1, Len(s))[i] = s[n + i]
<1> DEFINE rest == SubSeq(s, n + 1, Len(s))
<1>1. Len(s) \in Nat /\ n + 1 \in Int /\ \A i \in n + 1 .. Len(s) : s[i] \in S
  BY LenProperties, ElementOfSeq
<1>2. /\ rest \in Seq(S)
      /\ Len(rest) = IF n + 1 <= Len(s) THEN Len(s) - (n + 1) + 1 ELSE 0
      /\ \A i \in 1 .. Len(s) - (n + 1) + 1 : rest[i] = s[(n + 1) + i - 1]
  BY <1>1, SubSeqProperties
<1> HIDE DEF rest
<1>3. Len(rest) = IF n <= Len(s) THEN Len(s) - n ELSE 0
  BY <1>1, <1>2
<1>4. ASSUME NEW i \in 1 .. Len(s) - n
      PROVE  rest[i] = s[n + i]
  <2>1. i \in 1 .. Len(s) - (n + 1) + 1 /\ (n + 1) + i - 1 = n + i
    BY <1>1
  <2>2. QED
    BY <1>2, <2>1
<1>5. QED
  BY <1>2, <1>3, <1>4 DEF rest

\* A sequence is a prefix and the rest.
LEMMA Split ==
  ASSUME NEW S, NEW s \in Seq(S), NEW n \in 0 .. Len(s)
  PROVE  /\ SubSeq(s, 1, n) \in Seq(S) /\ Len(SubSeq(s, 1, n)) = n
         /\ SubSeq(s, n + 1, Len(s)) \in Seq(S)
         /\ Len(SubSeq(s, n + 1, Len(s))) = Len(s) - n
         /\ SubSeq(s, 1, n) \o SubSeq(s, n + 1, Len(s)) = s
         /\ \A i \in 1 .. n : SubSeq(s, 1, n)[i] = s[i]
<1>1. Len(s) \in Nat /\ n \in Nat /\ n <= Len(s)
  BY LenProperties
<1>2. /\ SubSeq(s, n + 1, Len(s)) \in Seq(S)
      /\ Len(SubSeq(s, n + 1, Len(s))) = Len(s) - n
  BY <1>1, Rest
<1>3. \A i \in 1 .. n : s[i] \in S
  BY <1>1, ElementOfSeq
<1>4. /\ SubSeq(s, 1, n) \in Seq(S) /\ Len(SubSeq(s, 1, n)) = IF 1 <= n THEN n - 1 + 1 ELSE 0
      /\ \A i \in 1 .. n - 1 + 1 : SubSeq(s, 1, n)[i] = s[1 + i - 1]
  BY <1>3, SubSeqProperties
<1>5. Len(SubSeq(s, 1, n)) = n
  BY <1>1, <1>4
<1>6. ASSUME NEW i \in 1 .. n PROVE SubSeq(s, 1, n)[i] = s[i]
  <2>1. i \in 1 .. n - 1 + 1 /\ 1 + i - 1 = i
    OBVIOUS
  <2>2. QED
    BY <1>4, <2>1
<1>7. SubSeq(s, 1, n) \o SubSeq(s, n + 1, Len(s)) = s
  <2>1. 1 \in 1 .. Len(s) + 1 /\ n \in 1 - 1 .. Len(s) /\ Len(s) \in n .. Len(s)
    BY <1>1
  <2>2. SubSeq(s, 1, n) \o SubSeq(s, n + 1, Len(s)) = SubSeq(s, 1, Len(s))
    BY <2>1, ConcatAdjacentSubSeq
  <2>3. QED
    BY <2>2, SubSeqFull
<1>8. QED
  BY <1>2, <1>4, <1>5, <1>6, <1>7

\* What is left of what is left.
LEMMA RestOfRest ==
  ASSUME NEW S, NEW s \in Seq(S), NEW t, NEW m \in Nat, NEW n \in Nat,
         t = SubSeq(s, m + 1, Len(s))
  PROVE  SubSeq(t, n + 1, Len(t)) = SubSeq(s, (m + n) + 1, Len(s))
<1> DEFINE u == SubSeq(t, n + 1, Len(t))
           v == SubSeq(s, (m + n) + 1, Len(s))
<1>1. Len(s) \in Nat
  BY LenProperties
<1>2. /\ t \in Seq(S) /\ Len(t) = IF m <= Len(s) THEN Len(s) - m ELSE 0
      /\ \A i \in 1 .. Len(s) - m : t[i] = s[m + i]
  BY Rest
<1>3. Len(t) \in Nat
  BY <1>2, LenProperties
<1>4. /\ u \in Seq(S) /\ Len(u) = IF n <= Len(t) THEN Len(t) - n ELSE 0
      /\ \A i \in 1 .. Len(t) - n : u[i] = t[n + i]
  BY <1>2, Rest
<1>5. /\ v \in Seq(S) /\ Len(v) = IF m + n <= Len(s) THEN Len(s) - (m + n) ELSE 0
      /\ \A i \in 1 .. Len(s) - (m + n) : v[i] = s[(m + n) + i]
  BY Rest
<1> HIDE DEF u, v
<1>6. Len(u) = Len(v)
  BY <1>1, <1>2, <1>3, <1>4, <1>5
<1>7. ASSUME NEW i \in 1 .. Len(u) PROVE u[i] = v[i]
  <2>1. /\ i \in 1 .. Len(t) - n /\ n + i \in 1 .. Len(s) - m
        /\ i \in 1 .. Len(s) - (m + n) /\ m + (n + i) = (m + n) + i
    BY <1>1, <1>2, <1>3, <1>4, <1>5
  <2>2. u[i] = t[n + i] /\ t[n + i] = s[m + (n + i)] /\ v[i] = s[(m + n) + i]
    BY <2>1, <1>2, <1>4, <1>5
  <2>3. QED
    BY <2>1, <2>2
<1>8. QED
  BY <1>4, <1>5, <1>6, <1>7, SeqEqual DEF u, v

\* The whole packets of s \o t, when s is whole packets and t less than one.
LEMMA WholeOfConcat ==
  ASSUME NEW S, NEW s \in Seq(S), NEW t \in Seq(S), NEW d \in Nat \ {0},
         Len(s) % d = 0, Len(t) < d
  PROVE  SubSeq(s \o t, 1, Len(s \o t) - (Len(s \o t) % d)) = s
<1>1. /\ Len(s) \in Nat /\ Len(t) \in Nat
      /\ s \o t \in Seq(S) /\ Len(s \o t) = Len(s) + Len(t)
      /\ \A i \in 1 .. Len(s) + Len(t) :
           (s \o t)[i] = IF i <= Len(s) THEN s[i] ELSE t[i - Len(s)]
  BY LenProperties, ConcatProperties, ZenonT(30)
<1>2. (Len(s) + Len(t)) % d = Len(t) % d
  BY <1>1, RemainderOfSum
<1>3. Len(t) % d = Len(t)
  BY <1>1, SmallRemainder
<1>4. Len(s \o t) - (Len(s \o t) % d) = Len(s)
  BY <1>1, <1>2, <1>3
<1>5. Len(s) \in 0 .. Len(s \o t)
  BY <1>1
<1>6. /\ SubSeq(s \o t, 1, Len(s)) \in Seq(S) /\ Len(SubSeq(s \o t, 1, Len(s))) = Len(s)
      /\ \A i \in 1 .. Len(s) : SubSeq(s \o t, 1, Len(s))[i] = (s \o t)[i]
  BY <1>1, <1>5, Split
<1>7. \A i \in 1 .. Len(s) : SubSeq(s \o t, 1, Len(s))[i] = s[i]
  BY <1>1, <1>6
<1>8. SubSeq(s \o t, 1, Len(s)) = s
  BY <1>6, <1>7, SeqEqual
<1>9. QED
  BY <1>4, <1>8

-----------------------------------------------------------------------------
(***************************************************************************)
(* Rounds.                                                                 *)
(***************************************************************************)
IsRounds(n, queue, dropped) ==
  /\ n \in 0 .. MaxFrames
  /\ ~ RoundReady(queue, dropped, n + 1)
  /\ \A k \in 1 .. n : RoundReady(queue, dropped, k)

\* The loop ends, and Rounds is where.
LEMMA RoundsDefined ==
  ASSUME NEW queue, NEW dropped,
         \A p \in Players : Len(queue[p]) \in 0 .. MaxFrames
  PROVE  IsRounds(Rounds(queue, dropped), queue, dropped)
<1> DEFINE T == {k \in Nat : ~ RoundReady(queue, dropped, k + 1)}
<1>1. MaxFrames \in Nat
  BY SyncAssumption
<1>2. ~ RoundReady(queue, dropped, MaxFrames + 1)
  BY <1>1 DEF RoundReady
<1>3. MaxFrames \in T
  BY <1>1, <1>2
<1>4. PICK n \in T : \A k \in T : n <= k
  BY <1>3, LeastNat
<1>5. n \in 0 .. MaxFrames /\ ~ RoundReady(queue, dropped, n + 1)
  BY <1>1, <1>3, <1>4
<1>6. ASSUME NEW k \in 1 .. n PROVE RoundReady(queue, dropped, k)
  <2>1. k - 1 \in Nat /\ k - 1 < n /\ (k - 1) + 1 = k
    BY <1>5
  <2>2. k - 1 \notin T
    BY <1>4, <2>1
  <2>3. QED
    BY <2>1, <2>2
<1>7. \E m \in 0 .. MaxFrames :
        ~ RoundReady(queue, dropped, m + 1) /\ \A k \in 1 .. m : RoundReady(queue, dropped, k)
  BY <1>5, <1>6
<1>8. QED
  BY <1>7, Zenon DEF IsRounds, Rounds

LEMMA RoundsUnique ==
  ASSUME NEW queue, NEW dropped, NEW m, NEW n,
         IsRounds(m, queue, dropped), IsRounds(n, queue, dropped)
  PROVE  m = n
<1>1. MaxFrames \in Nat /\ m \in 0 .. MaxFrames /\ n \in 0 .. MaxFrames
  BY SyncAssumption DEF IsRounds
<1>2. ~ (m < n)
  <2>1. m < n => m + 1 \in 1 .. n
    BY <1>1
  <2>2. QED
    BY <2>1 DEF IsRounds
<1>3. ~ (n < m)
  <2>1. n < m => n + 1 \in 1 .. m
    BY <1>1
  <2>2. QED
    BY <2>1 DEF IsRounds
<1>4. QED
  BY <1>1, <1>2, <1>3

\* A round that is ready stays so when queues grow and players drop.
LEMMA ReadyGrows ==
  ASSUME NEW queue, NEW dropped, NEW queue2, NEW dropped2, NEW k \in Nat,
         \A p \in Players : /\ Len(queue[p]) \in Nat /\ Len(queue2[p]) \in Nat
                            /\ Len(queue[p]) <= Len(queue2[p])
                            /\ dropped[p] => dropped2[p],
         RoundReady(queue, dropped, k)
  PROVE  RoundReady(queue2, dropped2, k)
BY DEF RoundReady

\* If `queue` holds what is left of `all` after its first done elements, then the
\* rounds it allows are those that `all` allows beyond done.
LEMMA RoundsOfRest ==
  ASSUME NEW all, NEW queue, NEW dropped, NEW done \in 0 .. MaxFrames,
         \A p \in Players : /\ Len(all[p]) \in 0 .. MaxFrames
                            /\ Len(queue[p]) =
                                 IF done <= Len(all[p]) THEN Len(all[p]) - done ELSE 0,
         \A k \in 1 .. done : RoundReady(all, dropped, k)
  PROVE  Rounds(all, dropped) = done + Rounds(queue, dropped)
<1>1. MaxFrames \in Nat /\ done \in Nat /\ done <= MaxFrames
  BY SyncAssumption
<1>2. ASSUME NEW p \in Players PROVE Len(queue[p]) \in 0 .. MaxFrames
  <2>1. CASE done <= Len(all[p])
    <3>1. Len(queue[p]) = Len(all[p]) - done /\ Len(all[p]) \in 0 .. MaxFrames
      BY <2>1
    <3>2. QED
      BY <1>1, <2>1, <3>1
  <2>2. CASE ~ (done <= Len(all[p]))
    <3>1. Len(queue[p]) = 0
      BY <2>2
    <3>2. QED
      BY <1>1, <3>1
  <2>3. QED BY <2>1, <2>2
<1> DEFINE n == Rounds(queue, dropped)
<1>3. IsRounds(n, queue, dropped)
  BY <1>2, RoundsDefined
<1>4. IsRounds(Rounds(all, dropped), all, dropped)
  BY RoundsDefined
<1> HIDE DEF n
<1>5. n \in 0 .. MaxFrames
  BY <1>3 DEF IsRounds
<1>6. ASSUME NEW k \in Nat \ {0}
      PROVE  RoundReady(queue, dropped, k) <=> RoundReady(all, dropped, done + k)
  <2>1. ASSUME NEW p \in Players
        PROVE  Len(queue[p]) >= k <=> Len(all[p]) >= done + k
    <3>1. /\ Len(all[p]) \in 0 .. MaxFrames
          /\ Len(queue[p]) = IF done <= Len(all[p]) THEN Len(all[p]) - done ELSE 0
      OBVIOUS
    <3>2. QED
      BY <1>1, <3>1
  <2>2. QED
    BY <2>1 DEF RoundReady
<1>7. ~ RoundReady(all, dropped, (done + n) + 1)
  <2>1. n + 1 \in Nat \ {0} /\ done + (n + 1) = (done + n) + 1
    BY <1>5
  <2>2. ~ RoundReady(queue, dropped, n + 1)
    BY <1>3 DEF IsRounds
  <2>3. QED
    BY <1>6, <2>1, <2>2
<1>8. ASSUME NEW k \in 1 .. done + n PROVE RoundReady(all, dropped, k)
  <2>1. CASE k \in 1 .. done
    BY <2>1
  <2>2. CASE k \notin 1 .. done
    <3>1. k - done \in 1 .. n /\ k - done \in Nat \ {0} /\ done + (k - done) = k
      BY <1>5, <2>2
    <3>2. RoundReady(queue, dropped, k - done)
      BY <1>3, <3>1 DEF IsRounds
    <3>3. QED
      BY <1>6, <3>1, <3>2
  <2>3. QED BY <2>1, <2>2
<1>9. done + n <= MaxFrames
  <2>1. CASE done + n = 0
    BY <2>1, <1>1
  <2>2. CASE done + n # 0
    <3>1. done + n \in 1 .. done + n
      BY <1>5, <2>2
    <3>2. PICK p \in Players : Len(all[p]) >= done + n
      BY <1>8, <3>1 DEF RoundReady
    <3>3. QED
      BY <1>1, <1>5, <3>2
  <2>3. QED BY <2>1, <2>2
<1>10. IsRounds(done + n, all, dropped)
  BY <1>1, <1>5, <1>7, <1>8, <1>9 DEF IsRounds
<1>11. QED
  BY <1>4, <1>10, RoundsUnique DEF n

-----------------------------------------------------------------------------
(***************************************************************************)
(* The log, as this module's operators see it.                             *)
(***************************************************************************)
LogOf(all, dropped, size) == [k \in 1 .. Rounds(all, dropped) |-> Row(all, size, k)]

LEMMA LogIs ==
  /\ Game!Log = LogOf(contributed, dropped_players, game_data_size)
  /\ Game!Log' = LogOf(contributed', dropped_players', game_data_size')
<1>1. Game!Frames = Rounds(contributed, dropped_players)
  BY Zenon DEF Game!Frames, Rounds, Game!Complete, RoundReady
<1>2. Game!Frames' = Rounds(contributed', dropped_players')
  BY Zenon DEF Game!Frames, Rounds, Game!Complete, RoundReady
<1>3. QED
  BY <1>1, <1>2 DEF Game!Log, LogOf, Row, Zeros, Game!Zeros

LEMMA RowType ==
  ASSUME NEW queue \in [Players -> Seq(Chunk)], NEW size \in Nat, NEW k \in Nat \ {0}
  PROVE  Row(queue, size, k) \in Frame
<1>1. Zeros(size) \in Chunk
  <2>1. \A i \in 1 .. size : 0 \in Byte
    BY SyncAssumption
  <2>2. Zeros(size) \in [1 .. size -> Byte]
    BY <2>1 DEF Zeros
  <2>3. QED
    BY <2>2, SeqDef DEF Chunk
<1>2. ASSUME NEW p \in Players, Len(queue[p]) >= k
      PROVE  queue[p][k] \in Chunk
  <2>1. queue[p] \in Seq(Chunk) /\ Len(queue[p]) \in Nat /\ k \in 1 .. Len(queue[p])
    BY <1>2, LenProperties
  <2>2. QED
    BY <2>1, ElementOfSeq
<1>3. QED
  BY <1>1, <1>2 DEF Row, Frame

LEMMA LogType ==
  ASSUME NEW all \in [Players -> Seq(Chunk)], NEW dropped, NEW size \in Nat,
         \A p \in Players : Len(all[p]) <= MaxFrames
  PROVE  /\ Rounds(all, dropped) \in 0 .. MaxFrames
         /\ LogOf(all, dropped, size) \in Seq(Frame)
         /\ Len(LogOf(all, dropped, size)) = Rounds(all, dropped)
         /\ \A k \in 1 .. Rounds(all, dropped) : LogOf(all, dropped, size)[k] = Row(all, size, k)
<1> DEFINE n == Rounds(all, dropped)
           log == LogOf(all, dropped, size)
<1>1. ASSUME NEW p \in Players PROVE Len(all[p]) \in 0 .. MaxFrames
  <2>1. all[p] \in Seq(Chunk) /\ Len(all[p]) <= MaxFrames
    OBVIOUS
  <2>2. Len(all[p]) \in Nat
    BY <2>1, LenProperties
  <2>3. QED
    BY <2>1, <2>2, SyncAssumption
<1>2. n \in 0 .. MaxFrames
  BY <1>1, RoundsDefined DEF IsRounds
<1>3. \A k \in 1 .. n : Row(all, size, k) \in Frame
  BY <1>2, RowType
<1>4. log = [k \in 1 .. n |-> Row(all, size, k)]
  BY DEF LogOf
<1> HIDE DEF n, log
<1>5. log \in [1 .. n -> Frame] /\ n \in Nat
  BY <1>2, <1>3, <1>4
<1>6. log \in Seq(Frame)
  BY <1>5, SeqDef
<1>7. Len(log) = n
  BY <1>5, <1>6, LenProperties
<1>8. QED
  BY <1>2, <1>4, <1>6, <1>7 DEF n, log

-----------------------------------------------------------------------------
(***************************************************************************)
(* The inductive invariant.                                                *)
(***************************************************************************)
WholePackets == \A p \in Players : Len(sent[p]) % Delay[p] = 0

SizeKnown == game_data_size = 0 => \A p \in Players : contributed[p] = <<>>

Inv == TypeOK /\ Accounted /\ WholePackets /\ SizeKnown

\* What a call may have changed before it drains, when `done` frames were complete:
\* inputs of live players were added to `queue`, a player may have dropped, and the
\* input size may have been learned, but not after a frame was made.
Arrived(queue, done) ==
  /\ contributed' \in [Players -> Seq(Chunk)]
  /\ dropped_players' \in [Players -> BOOLEAN]
  /\ game_data_size' \in Nat
  /\ queue \in [Players -> Seq(Chunk)]
  /\ \A p \in Players :
       /\ Len(contributed[p]) <= Len(contributed'[p]) /\ Len(contributed'[p]) <= MaxFrames
       /\ \A k \in 1 .. Len(contributed[p]) : contributed'[p][k] = contributed[p][k]
       /\ dropped_players[p] => dropped_players'[p] /\ contributed'[p] = contributed[p]
       /\ queue[p] = SubSeq(contributed'[p], done + 1, Len(contributed'[p]))
  /\ game_data_size' = game_data_size \/ done = 0
  /\ game_data_size' = 0 => \A p \in Players : contributed'[p] = <<>>

\* The part both calls share: a drain restores the invariant.
LEMMA DrainKeepsInv ==
  ASSUME Inv,
         NEW STATE queue, NEW STATE done,
         done = Len(Game!Log),
         Arrived(queue, done),
         Drain(queue, dropped_players', game_data_size')
  PROVE  Inv'
<1> DEFINE log  == LogOf(contributed, dropped_players, game_data_size)
           log2 == LogOf(contributed', dropped_players', game_data_size')
           n    == Rounds(queue, dropped_players')
           rows == [k \in 1 .. n |-> Row(queue, game_data_size', k)]
\* The parts of the hypotheses.
<1>1. /\ contributed \in [Players -> Seq(Chunk)] /\ game_data_size \in Nat
      /\ sender_buffer \in [Players -> Seq(Frame)] /\ sent \in [Players -> Seq(Frame)]
      /\ \A p \in Players : Len(contributed[p]) <= MaxFrames
      /\ \A p \in Players : sent[p] \o sender_buffer[p] = log
      /\ \A p \in Players : Len(sent[p]) % Delay[p] = 0
  BY LogIs DEF Inv, TypeOK, Accounted, WholePackets
<1>a. /\ contributed' \in [Players -> Seq(Chunk)] /\ dropped_players' \in [Players -> BOOLEAN]
      /\ game_data_size' \in Nat /\ queue \in [Players -> Seq(Chunk)]
      /\ \A p \in Players : Len(contributed'[p]) <= MaxFrames
      /\ game_data_size' = game_data_size \/ done = 0
  BY DEF Arrived
<1>2. /\ done = Rounds(contributed, dropped_players) /\ done \in 0 .. MaxFrames /\ done \in Nat
      /\ log \in Seq(Frame) /\ Len(log) = done
      /\ \A k \in 1 .. done : log[k] = Row(contributed, game_data_size, k)
  <2>1. /\ Rounds(contributed, dropped_players) \in 0 .. MaxFrames
        /\ log \in Seq(Frame) /\ Len(log) = Rounds(contributed, dropped_players)
        /\ \A k \in 1 .. Rounds(contributed, dropped_players) :
             log[k] = Row(contributed, game_data_size, k)
    BY <1>1, LogType
  <2>2. done = Len(log)
    BY LogIs
  <2> HIDE DEF log
  <2>3. QED
    BY <2>1, <2>2, SyncAssumption
<1>3. /\ Rounds(contributed', dropped_players') \in 0 .. MaxFrames
      /\ log2 \in Seq(Frame) /\ Len(log2) = Rounds(contributed', dropped_players')
      /\ \A k \in 1 .. Rounds(contributed', dropped_players') :
           log2[k] = Row(contributed', game_data_size', k)
  BY <1>a, LogType
<1>4. ASSUME NEW p \in Players
      PROVE  /\ Len(contributed[p]) \in 0 .. MaxFrames /\ Len(contributed'[p]) \in 0 .. MaxFrames
             /\ Len(queue[p]) = IF done <= Len(contributed'[p]) THEN Len(contributed'[p]) - done
                                                                ELSE 0
             /\ \A j \in 1 .. Len(contributed'[p]) - done : queue[p][j] = contributed'[p][done + j]
  <2>1. contributed[p] \in Seq(Chunk) /\ contributed'[p] \in Seq(Chunk)
    BY <1>a, <1>1
  <2>2. Len(contributed[p]) \in 0 .. MaxFrames /\ Len(contributed'[p]) \in 0 .. MaxFrames
    BY <1>a, <1>1, <2>1, LenProperties, SyncAssumption
  <2>3. queue[p] = SubSeq(contributed'[p], done + 1, Len(contributed'[p])) /\ done \in Nat
    BY <1>2 DEF Arrived
  <2>4. /\ Len(queue[p]) = IF done <= Len(contributed'[p]) THEN Len(contributed'[p]) - done
                                                           ELSE 0
        /\ \A j \in 1 .. Len(contributed'[p]) - done : queue[p][j] = contributed'[p][done + j]
    <3> DEFINE rest == SubSeq(contributed'[p], done + 1, Len(contributed'[p]))
    <3>1. /\ Len(rest) = IF done <= Len(contributed'[p]) THEN Len(contributed'[p]) - done ELSE 0
          /\ \A j \in 1 .. Len(contributed'[p]) - done : rest[j] = contributed'[p][done + j]
      BY <2>1, <2>3, Rest
    <3> HIDE DEF rest
    <3>2. queue[p] = rest
      BY <2>3 DEF rest
    <3>3. QED
      BY <3>1, <3>2
  <2>5. QED
    BY <2>2, <2>4
\* The frames made so far stay ready, and stay as they are.
<1>5. \A k \in 1 .. done : RoundReady(contributed, dropped_players, k)
  BY <1>2, <1>4, RoundsDefined DEF IsRounds
<1>6. ASSUME NEW k \in 1 .. done
      PROVE  RoundReady(contributed', dropped_players', k)
  <2>1. \A p \in Players : /\ Len(contributed[p]) \in Nat /\ Len(contributed'[p]) \in Nat
                           /\ Len(contributed[p]) <= Len(contributed'[p])
                           /\ dropped_players[p] => dropped_players'[p]
    BY <1>4, SyncAssumption DEF Arrived
  <2>2. k \in Nat
    BY <1>2
  <2>3. QED
    BY <1>5, <2>1, <2>2, ReadyGrows
<1>7. ASSUME NEW k \in 1 .. done
      PROVE  Row(contributed', game_data_size', k) = Row(contributed, game_data_size, k)
  <2>1. game_data_size' = game_data_size
    BY <1>a, <1>2
  <2>2. ASSUME NEW p \in Players, Len(contributed[p]) >= k
        PROVE  Len(contributed'[p]) >= k /\ contributed'[p][k] = contributed[p][k]
    <3>1. k \in 1 .. Len(contributed[p]) /\ Len(contributed'[p]) >= k
      BY <1>2, <1>4, <2>2 DEF Arrived
    <3>2. QED
      BY <3>1 DEF Arrived
  <2>3. ASSUME NEW p \in Players, ~ (Len(contributed[p]) >= k)
        PROVE  contributed'[p] = contributed[p]
    BY <1>5, <2>3 DEF RoundReady, Arrived
  <2>4. QED
    BY <2>1, <2>2, <2>3 DEF Row
\* The new rows are the frames the log lacked.
<1>8. /\ Rounds(contributed', dropped_players') = done + n
      /\ n \in 0 .. MaxFrames /\ n \in Nat
  <2>1. Rounds(contributed', dropped_players') = done + n
    <3>1. \A p \in Players :
            /\ Len(contributed'[p]) \in 0 .. MaxFrames
            /\ Len(queue[p]) = IF done <= Len(contributed'[p]) THEN Len(contributed'[p]) - done
                                                               ELSE 0
      BY <1>4
    <3>2. QED
      BY <1>2, <1>6, <3>1, RoundsOfRest
  <2>2. ASSUME NEW p \in Players PROVE Len(queue[p]) \in 0 .. MaxFrames
    <3>1. /\ Len(contributed'[p]) \in 0 .. MaxFrames
          /\ Len(queue[p]) = IF done <= Len(contributed'[p]) THEN Len(contributed'[p]) - done
                                                             ELSE 0
      BY <1>4
    <3>2. QED
      BY <1>2, <3>1, SyncAssumption
  <2>3. n \in 0 .. MaxFrames
    BY <2>2, RoundsDefined DEF IsRounds
  <2>4. QED
    BY <2>1, <2>3, SyncAssumption
<1>9. ASSUME NEW j \in 1 .. n
      PROVE  Row(queue, game_data_size', j) = Row(contributed', game_data_size', done + j)
  <2>1. ASSUME NEW p \in Players
        PROVE  /\ Len(queue[p]) >= j <=> Len(contributed'[p]) >= done + j
               /\ Len(queue[p]) >= j => queue[p][j] = contributed'[p][done + j]
    <3>1. /\ Len(contributed'[p]) \in Nat
          /\ Len(queue[p]) = IF done <= Len(contributed'[p]) THEN Len(contributed'[p]) - done
                                                              ELSE 0
          /\ \A i \in 1 .. Len(contributed'[p]) - done : queue[p][i] = contributed'[p][done + i]
      BY <1>4, SyncAssumption
    <3>2. Len(queue[p]) >= j <=> Len(contributed'[p]) >= done + j
      BY <1>2, <1>8, <3>1
    <3>3. Len(queue[p]) >= j => j \in 1 .. Len(contributed'[p]) - done
      BY <1>2, <1>8, <3>1
    <3>4. QED
      BY <3>1, <3>2, <3>3
  <2>2. QED
    BY <2>1 DEF Row
<1>10. /\ rows \in Seq(Frame) /\ Len(rows) = n
       /\ \A j \in 1 .. n : rows[j] = Row(queue, game_data_size', j)
  <2>1. \A j \in 1 .. n : Row(queue, game_data_size', j) \in Frame
    BY <1>a, <1>8, RowType
  <2> HIDE DEF n
  <2>2. rows \in [1 .. n -> Frame] /\ n \in Nat
    BY <1>8, <2>1
  <2>3. rows \in Seq(Frame)
    BY <2>2, SeqDef
  <2>4. Len(rows) = n
    BY <2>2, <2>3, LenProperties
  <2>5. QED
    BY <2>3, <2>4
<1>11. ASSUME NEW p \in Players
       PROVE  /\ player_input'[p] = SubSeq(queue[p], n + 1, Len(queue[p]))
              /\ sender_buffer'[p] =
                   SubSeq(sender_buffer[p] \o rows,
                          WholeRows(sender_buffer[p] \o rows, Delay[p]) + 1,
                          Len(sender_buffer[p] \o rows))
              /\ sent'[p] = sent[p] \o SubSeq(sender_buffer[p] \o rows, 1,
                                              WholeRows(sender_buffer[p] \o rows, Delay[p]))
  BY DEF Drain
<1>12. /\ player_input' = [p \in Players |-> player_input'[p]]
       /\ sender_buffer' = [p \in Players |-> sender_buffer'[p]]
       /\ sent' = [p \in Players |-> sent'[p]]
  BY Zenon DEF Drain
<1> HIDE DEF log, log2, n, rows
<1>13. log2 = log \o rows
  <2>1. log \o rows \in Seq(Frame) /\ Len(log \o rows) = done + n
    <3>1. log \in Seq(Frame) /\ rows \in Seq(Frame) /\ Len(log) = done /\ Len(rows) = n
      BY <1>2, <1>10
    <3>2. log \o rows \in Seq(Frame) /\ Len(log \o rows) = Len(log) + Len(rows)
      BY <3>1, ConcatProperties
    <3>3. QED
      BY <3>1, <3>2
  <2>2. ASSUME NEW k \in 1 .. done + n PROVE log2[k] = (log \o rows)[k]
    <3>1. (log \o rows)[k] = IF k <= done THEN log[k] ELSE rows[k - done]
      BY <1>2, <1>10, ConcatProperties
    <3>2. CASE k <= done
      <4>1. k \in 1 .. done
        BY <1>2, <1>8, <3>2
      <4>2. QED
        BY <1>2, <1>3, <1>7, <1>8, <3>1, <4>1
    <3>3. CASE ~ (k <= done)
      <4>1. k - done \in 1 .. n /\ done + (k - done) = k
        BY <1>2, <1>8, <3>3
      <4>2. (log \o rows)[k] = Row(contributed', game_data_size', done + (k - done))
        BY <1>9, <1>10, <3>1, <3>3, <4>1
      <4>3. QED
        BY <1>3, <1>8, <4>1, <4>2
    <3>4. QED BY <3>2, <3>3
  <2>3. QED
    BY <1>3, <1>8, <2>1, <2>2, SeqEqual
\* Per player: the buffer is cut, and the queue's rest is the new rest.
<1>14. ASSUME NEW p \in Players
       PROVE  /\ sent'[p] \in Seq(Frame) /\ sender_buffer'[p] \in Seq(Frame)
              /\ sent'[p] \o sender_buffer'[p] = log2
              /\ Len(sent'[p]) % Delay[p] = 0
              /\ Len(sender_buffer'[p]) < Delay[p]
  <2> DEFINE all == sender_buffer[p] \o rows
             c   == Len(all) - (Len(all) % Delay[p])
  <2>1. /\ sent[p] \in Seq(Frame) /\ sender_buffer[p] \in Seq(Frame)
        /\ Delay[p] \in Nat \ {0} /\ Len(sent[p]) % Delay[p] = 0
        /\ Len(sent[p]) \in Nat
    BY <1>1, SyncAssumption, LenProperties
  <2>2. all \in Seq(Frame) /\ Len(all) \in Nat
    BY <2>1, <1>10, ConcatProperties, LenProperties
  <2>3. sent'[p] = sent[p] \o SubSeq(all, 1, c) /\ sender_buffer'[p] = SubSeq(all, c + 1, Len(all))
    BY <1>11 DEF WholeRows
  <2>4. sent[p] \o all = log2
    <3> DEFINE given == sent[p]
               held  == sender_buffer[p]
    <3>a. given \in Seq(Frame) /\ held \in Seq(Frame)
      BY <2>1
    <3> HIDE DEF given, held
    <3>b. \A t \in Seq(Frame) : given \o (held \o t) = (given \o held) \o t
      BY <3>a, ConcatAssociative
    <3>1. \A t \in Seq(Frame) : sent[p] \o (sender_buffer[p] \o t)
                                  = (sent[p] \o sender_buffer[p]) \o t
      BY <3>b, Zenon DEF given, held
    <3>2. sent[p] \o sender_buffer[p] = log
      BY <1>1 DEF log
    <3>3. QED
      BY <3>1, <3>2, <1>10, <1>13
  <2> HIDE DEF all
  <2>5. c \in Nat /\ c <= Len(all) /\ c % Delay[p] = 0 /\ Len(all) - c < Delay[p]
    <3>1. c \in Nat /\ c <= Len(all) /\ c % Delay[p] = 0
      BY <2>1, <2>2, WholeIsWhole
    <3>2. Len(all) % Delay[p] \in Nat /\ Len(all) % Delay[p] < Delay[p]
      BY <2>1, <2>2, Euclid
    <3>3. Len(all) - c = Len(all) % Delay[p]
      BY <2>2, <3>2
    <3>4. QED
      BY <3>1, <3>2, <3>3
  <2> HIDE DEF c
  <2>6. /\ SubSeq(all, 1, c) \in Seq(Frame) /\ Len(SubSeq(all, 1, c)) = c
        /\ SubSeq(all, c + 1, Len(all)) \in Seq(Frame)
        /\ Len(SubSeq(all, c + 1, Len(all))) = Len(all) - c
        /\ SubSeq(all, 1, c) \o SubSeq(all, c + 1, Len(all)) = all
    <3>1. c \in 0 .. Len(all)
      BY <2>2, <2>5
    <3>2. QED
      BY <2>2, <3>1, Split
  <2>7. sent'[p] \o sender_buffer'[p] = sent[p] \o all
    <3> DEFINE given == sent[p]
    <3>a. given \in Seq(Frame)
      BY <2>1
    <3> HIDE DEF given
    <3>b. \A t, u \in Seq(Frame) : (given \o t) \o u = given \o (t \o u)
      BY <3>a, ConcatAssociative, SMTT(30)
    <3>1. \A t, u \in Seq(Frame) : (sent[p] \o t) \o u = sent[p] \o (t \o u)
      BY <3>b, Zenon DEF given
    <3>2. QED
      BY <2>3, <2>6, <3>1
  <2>8. sent'[p] \in Seq(Frame) /\ Len(sent'[p]) = Len(sent[p]) + c
    <3> DEFINE given == sent[p]
               part  == SubSeq(all, 1, c)
    <3>1. /\ given \in Seq(Frame) /\ part \in Seq(Frame) /\ Len(part) = c
          /\ sent'[p] = given \o part
      BY <2>1, <2>3, <2>6
    <3> HIDE DEF given, part
    <3>2. given \o part \in Seq(Frame) /\ Len(given \o part) = Len(given) + Len(part)
      BY <3>1, ConcatProperties
    <3>3. sent'[p] \in Seq(Frame) /\ Len(sent'[p]) = Len(given) + c
      BY <3>1, <3>2
    <3>4. QED
      BY <3>3 DEF given
  <2>9. (Len(sent[p]) + c) % Delay[p] = 0
    BY <2>1, <2>5, RemainderOfSum
  <2>10. QED
    BY <2>3, <2>4, <2>5, <2>6, <2>7, <2>8, <2>9
<1>15. ASSUME NEW p \in Players
       PROVE  /\ player_input'[p] \in Seq(Chunk)
              /\ player_input'[p] = SubSeq(contributed'[p], (done + n) + 1, Len(contributed'[p]))
  <2>1. /\ contributed'[p] \in Seq(Chunk) /\ queue[p] \in Seq(Chunk)
        /\ queue[p] = SubSeq(contributed'[p], done + 1, Len(contributed'[p]))
    BY <1>a DEF Arrived
  <2>2. SubSeq(queue[p], n + 1, Len(queue[p]))
          = SubSeq(contributed'[p], (done + n) + 1, Len(contributed'[p]))
    BY <1>2, <1>8, <2>1, RestOfRest
  <2>3. SubSeq(queue[p], n + 1, Len(queue[p])) \in Seq(Chunk)
    BY <1>8, <2>1, Rest
  <2>4. QED
    BY <1>11, <2>2, <2>3
<1>16. TypeOK'
  <2>1. player_input' \in [Players -> Seq(Chunk)]
    BY <1>12, <1>15
  <2>2. sender_buffer' \in [Players -> Seq(Frame)]
    BY <1>12, <1>14
  <2>3. sent' \in [Players -> Seq(Frame)]
    BY <1>12, <1>14
  <2>4. QED
    BY <2>1, <2>2, <2>3, <1>a, <1>14 DEF TypeOK
<1>17. Accounted'
  <2>1. Game!Log' = log2 /\ Len(log2) = done + n
    BY <1>3, <1>8, LogIs DEF log2
  <2>2. QED
    BY <1>14, <1>15, <2>1 DEF Accounted
<1>18. WholePackets' /\ SizeKnown'
  BY <1>14 DEF WholePackets, SizeKnown, Arrived
<1>19. QED
  BY <1>16, <1>17, <1>18 DEF Inv

-----------------------------------------------------------------------------
(***************************************************************************)
(* The chunks of an input.                                                 *)
(***************************************************************************)
\* Chunks cuts an input into pieces of at least one byte.
LEMMA ChunksType ==
  ASSUME NEW input \in Packets, NEW d \in Nat \ {0}
  PROVE  /\ Chunks(input, d) \in Seq(Chunk)
         /\ Chunks(input, d) # <<>> => Len(Chunks(input, d)[1]) \in Nat \ {0}
<1> DEFINE len  == Len(input)
           size == len \div d
           m    == (len + size - 1) \div size
           to(i) == IF i * size <= len THEN i * size ELSE len
           cut  == [i \in 1 .. m |-> SubSeq(input, (i - 1) * size + 1, to(i))]
<1>1. input \in Seq(Byte) /\ len \in Nat
  BY SyncAssumption, LenProperties
<1>2. size \in Nat /\ size <= len
  BY <1>1, Euclid
<1>3. CASE size = 0
  BY <1>3, EmptySeq DEF Chunks
<1>4. CASE size # 0
  <2>1. Chunks(input, d) = cut
    BY <1>4 DEF Chunks
  <2> HIDE DEF len, size
  <2>2. PICK r \in Nat : m \in Nat /\ len + size - 1 = size * m + r
    <3>1. len + size - 1 \in Nat /\ size \in Nat \ {0}
      BY <1>1, <1>2, <1>4
    <3>2. QED
      BY <3>1, Euclid
  <2> HIDE DEF m
  <2>3. ASSUME NEW i \in 1 .. m
        PROVE  /\ (i - 1) * size \in Nat /\ (i - 1) * size + 1 <= len
               /\ to(i) \in Nat /\ to(i) <= len
               /\ SubSeq(input, (i - 1) * size + 1, to(i)) \in Chunk
    <3>1. i - 1 \in Nat /\ i \in Nat /\ m - i \in Nat
      BY <2>2
    <3>2. (i - 1) * size \in Nat /\ i * size \in Nat /\ (m - i) * size \in Nat
      BY <3>1, <1>2
    <3>3. size * m = (m - i) * size + i * size /\ i * size = (i - 1) * size + size
      BY <3>1, <2>2, <1>2
    <3>4. (i - 1) * size + 1 <= len
      BY <3>2, <3>3, <2>2, <1>1, <1>2
    <3>5. to(i) \in Nat /\ to(i) <= len
      BY <3>2, <1>1
    <3> DEFINE a == (i - 1) * size + 1
               b == to(i)
    <3>6. a \in Int /\ 1 <= a /\ b \in Int /\ b <= len
      BY <3>2, <3>5
    <3> HIDE DEF a, b
    <3>7. \A j \in a .. b : input[j] \in Byte
      <4>1. ASSUME NEW j \in a .. b PROVE j \in 1 .. Len(input)
        BY <3>6, <1>1 DEF len
      <4>2. QED
        BY <4>1, <1>1, ElementOfSeq
    <3>8. SubSeq(input, a, b) \in Seq(Byte)
      BY <3>6, <3>7, SubSeqProperties
    <3>9. QED
      BY <3>2, <3>4, <3>5, <3>8 DEF Chunk, a, b
  <2>4. cut \in [1 .. m -> Chunk] /\ m \in Nat
    BY <2>2, <2>3
  <2>5. cut \in Seq(Chunk)
    BY <2>4, SeqDef
  <2>6. ASSUME cut # <<>> PROVE Len(cut[1]) \in Nat \ {0}
    <3>1. Len(cut) = m
      BY <2>4, <2>5, LenProperties
    <3>2. 1 \in 1 .. m
      BY <2>4, <2>5, <2>6, <3>1, EmptySeq
    <3>3. cut[1] = SubSeq(input, (1 - 1) * size + 1, to(1))
      BY <3>2
    <3>4. (1 - 1) * size + 1 = 1 /\ to(1) = size
      BY <1>1, <1>2
    <3>5. \A j \in 1 .. size : input[j] \in Byte
      BY <1>1, <1>2, ElementOfSeq DEF len
    <3>6. Len(SubSeq(input, 1, size)) = IF 1 <= size THEN size - 1 + 1 ELSE 0
      BY <1>2, <3>5, SubSeqProperties
    <3>7. cut[1] = SubSeq(input, 1, size)
      BY <3>3, <3>4
    <3> HIDE DEF cut
    <3>8. QED
      BY <3>6, <3>7, <1>2, <1>4
  <2>7. QED
    BY <2>1, <2>5, <2>6
<1>5. QED BY <1>3, <1>4

-----------------------------------------------------------------------------
(***************************************************************************)
(* Inductiveness.                                                          *)
(***************************************************************************)
LEMMA InitInv == Init => Inv
<1> SUFFICES ASSUME Init PROVE Inv
  OBVIOUS
<1>1. /\ <<>> \in Seq(Chunk) /\ <<>> \in Seq(Frame) /\ Len(<<>>) = 0
      /\ Delay \in [Players -> Nat \ {0}] /\ MaxFrames \in Nat
  BY EmptySeq, SyncAssumption
<1>2. TypeOK
  BY <1>1 DEF Init, TypeOK
<1>3. Game!Log = <<>>
  <2>1. \A p \in Players : Len(contributed[p]) = 0
    BY <1>1 DEF Init
  <2>2. IsRounds(0, contributed, dropped_players)
    BY <2>1, SyncAssumption DEF IsRounds, RoundReady
  <2>a. 0 \in 0 .. MaxFrames
    BY SyncAssumption
  <2>3. \A p \in Players : Len(contributed[p]) \in 0 .. MaxFrames
    BY <2>1, <2>a
  <2>4. Rounds(contributed, dropped_players) = 0
    BY <2>2, <2>3, RoundsDefined, RoundsUnique
  <2>5. Game!Log \in Seq(Frame) /\ Len(Game!Log) = 0
    BY <1>2, <2>4, LogIs, LogType DEF TypeOK
  <2>6. QED
    BY <2>5, EmptySeq
<1>4. Accounted
  <2>1. \A p \in Players : sent[p] \o sender_buffer[p] = <<>>
    BY <1>1, ConcatEmptySeq DEF Init
  <2>2. \A p \in Players : player_input[p] = <<>> /\ contributed[p] = <<>>
    BY DEF Init
  <2>3. SubSeq(<<>>, 0 + 1, 0) = <<>>
    BY SubSeqEmpty
  <2>4. QED
    BY <1>1, <1>3, <2>1, <2>2, <2>3 DEF Accounted
<1>5. WholePackets /\ SizeKnown
  <2>1. \A p \in Players : Len(sent[p]) = 0 /\ contributed[p] = <<>>
    BY <1>1 DEF Init
  <2>2. \A d \in Nat \ {0} : 0 % d = 0
    BY SmallRemainder
  <2>3. QED
    BY <1>1, <2>1, <2>2 DEF WholePackets, SizeKnown
<1>6. QED
  BY <1>2, <1>4, <1>5 DEF Inv

\* No frame is made before an input arrives.
LEMMA NoFrameWithoutInput ==
  ASSUME Inv, game_data_size = 0
  PROVE  Len(Game!Log) = 0
<1>1. /\ contributed \in [Players -> Seq(Chunk)]
      /\ \A p \in Players : Len(contributed[p]) <= MaxFrames
      /\ game_data_size \in Nat
  BY DEF Inv, TypeOK
<1>2. \A p \in Players : Len(contributed[p]) = 0
  BY EmptySeq DEF Inv, SizeKnown
<1>3. IsRounds(0, contributed, dropped_players)
  BY <1>2, SyncAssumption DEF IsRounds, RoundReady
<1>a. 0 \in 0 .. MaxFrames
  BY SyncAssumption
<1>4. \A p \in Players : Len(contributed[p]) \in 0 .. MaxFrames
  BY <1>2, <1>a
<1>5. Rounds(contributed, dropped_players) = 0
  BY <1>3, <1>4, RoundsDefined, RoundsUnique
<1>6. QED
  BY <1>1, <1>5, LogIs, LogType

\* A queue with new inputs behind is what the log has not used of the inputs with
\* the new ones behind: the log never used more than there was, for a live player.
LEMMA RestOfConcat ==
  ASSUME NEW S, NEW s \in Seq(S), NEW t \in Seq(S), NEW n \in Nat,
         n <= Len(s)
  PROVE  SubSeq(s, n + 1, Len(s)) \o t = SubSeq(s \o t, n + 1, Len(s \o t))
<1> DEFINE u == SubSeq(s, n + 1, Len(s))
           w == s \o t
           v == SubSeq(w, n + 1, Len(w))
<1>1. /\ Len(s) \in Nat /\ Len(t) \in Nat
      /\ s \o t \in Seq(S) /\ Len(s \o t) = Len(s) + Len(t)
      /\ \A i \in 1 .. Len(s) + Len(t) :
           (s \o t)[i] = IF i <= Len(s) THEN s[i] ELSE t[i - Len(s)]
  BY LenProperties, ConcatProperties
<1>2. /\ u \in Seq(S) /\ Len(u) = Len(s) - n
      /\ \A i \in 1 .. Len(s) - n : u[i] = s[n + i]
  BY Rest
<1>3. /\ v \in Seq(S) /\ Len(v) = Len(s) + Len(t) - n
      /\ \A i \in 1 .. Len(s) + Len(t) - n : v[i] = (s \o t)[n + i]
  <2>1. w \in Seq(S) /\ Len(w) = Len(s) + Len(t) /\ n <= Len(w)
    BY <1>1
  <2> HIDE DEF w
  <2>2. /\ v \in Seq(S) /\ Len(v) = IF n <= Len(w) THEN Len(w) - n ELSE 0
        /\ \A i \in 1 .. Len(w) - n : v[i] = w[n + i]
    BY <2>1, Rest
  <2> HIDE DEF v
  <2>3. QED
    BY <2>1, <2>2 DEF w
<1> HIDE DEF u, v
<1>4. /\ u \o t \in Seq(S) /\ Len(u \o t) = Len(u) + Len(t)
      /\ \A i \in 1 .. Len(u) + Len(t) : (u \o t)[i] = IF i <= Len(u) THEN u[i] ELSE t[i - Len(u)]
  BY <1>2, ConcatProperties
<1>5. ASSUME NEW i \in 1 .. Len(v) PROVE (u \o t)[i] = v[i]
  <2>1. i \in 1 .. Len(s) + Len(t) - n /\ n + i \in 1 .. Len(s) + Len(t) /\ i \in 1 .. Len(u) + Len(t)
    BY <1>1, <1>2, <1>3
  <2>2. CASE i <= Len(u)
    <3>1. i \in 1 .. Len(s) - n /\ n + i <= Len(s)
      BY <1>1, <1>2, <2>1, <2>2
    <3>2. QED
      BY <1>1, <1>2, <1>3, <1>4, <2>1, <2>2, <3>1
  <2>3. CASE ~ (i <= Len(u))
    <3>1. ~ (n + i <= Len(s)) /\ i - Len(u) = (n + i) - Len(s)
      BY <1>1, <1>2, <2>1, <2>3
    <3>2. QED
      BY <1>1, <1>3, <1>4, <2>1, <2>3, <3>1
  <2>4. QED BY <2>2, <2>3
<1>6. Len(u \o t) = Len(v)
  BY <1>1, <1>2, <1>3, <1>4
<1>7. QED
  BY <1>3, <1>4, <1>5, <1>6, SeqEqual DEF u, v

\* A live player has contributed to every frame made.
LEMMA LiveContributed ==
  ASSUME Inv, NEW p \in Players, ~ dropped_players[p]
  PROVE  Len(Game!Log) <= Len(contributed[p])
<1> DEFINE n == Rounds(contributed, dropped_players)
<1>1. /\ contributed \in [Players -> Seq(Chunk)]
      /\ \A q \in Players : Len(contributed[q]) <= MaxFrames
      /\ game_data_size \in Nat
  BY DEF Inv, TypeOK
<1>2. Len(Game!Log) = n /\ n \in 0 .. MaxFrames
  BY <1>1, LogIs, LogType
<1>3. ASSUME NEW q \in Players PROVE Len(contributed[q]) \in 0 .. MaxFrames
  BY <1>1, LenProperties, SyncAssumption
<1>4. IsRounds(n, contributed, dropped_players)
  BY <1>3, RoundsDefined
<1> HIDE DEF n
<1>5. n # 0 => n \in 1 .. n
  BY <1>2, SyncAssumption
<1>6. n # 0 => Len(contributed[p]) >= n
  BY <1>4, <1>5 DEF IsRounds, RoundReady
<1>7. QED
  BY <1>2, <1>3, <1>6, SyncAssumption

LEMMA QueueKeepsInv ==
  ASSUME Inv, NEW p \in Players, NEW input \in Packets, Queue(p, Chunks(input, Delay[p]))
  PROVE  Inv'
<1> DEFINE chunks == Chunks(input, Delay[p])
           queue  == [player_input EXCEPT ![p] = @ \o chunks]
           done   == Len(Game!Log)
<1>1. /\ player_input \in [Players -> Seq(Chunk)] /\ contributed \in [Players -> Seq(Chunk)]
      /\ dropped_players \in [Players -> BOOLEAN] /\ game_data_size \in Nat
      /\ \A q \in Players : Len(contributed[q]) <= MaxFrames
      /\ \A q \in Players : player_input[q] = SubSeq(contributed[q], done + 1, Len(contributed[q]))
  BY DEF Inv, TypeOK, Accounted
<1>2. chunks \in Seq(Chunk) /\ (chunks # <<>> => Len(chunks[1]) \in Nat \ {0})
  BY ChunksType, SyncAssumption
<1> HIDE DEF chunks
<1>3. /\ ~ dropped_players[p] /\ Len(contributed[p]) + Len(chunks) <= MaxFrames
      /\ contributed' = [contributed EXCEPT ![p] = @ \o chunks]
      /\ game_data_size' = IF game_data_size = 0 /\ chunks # <<>> THEN Len(chunks[1])
                                                                  ELSE game_data_size
      /\ Drain(queue, dropped_players, game_data_size')
      /\ dropped_players' = dropped_players
  BY DEF Queue, chunks
<1>4. done \in Nat
  <2>1. Game!Log \in Seq(Frame)
    BY <1>1, LogIs, LogType
  <2>2. QED
    BY <2>1, LenProperties
<1>5. contributed[p] \in Seq(Chunk) /\ player_input[p] \in Seq(Chunk)
  BY <1>1
<1>6. /\ contributed[p] \o chunks \in Seq(Chunk) /\ player_input[p] \o chunks \in Seq(Chunk)
      /\ Len(contributed[p] \o chunks) = Len(contributed[p]) + Len(chunks)
      /\ Len(contributed[p]) \in Nat /\ Len(chunks) \in Nat
      /\ \A i \in 1 .. Len(contributed[p]) + Len(chunks) :
           (contributed[p] \o chunks)[i] = IF i <= Len(contributed[p]) THEN contributed[p][i]
                                           ELSE chunks[i - Len(contributed[p])]
  BY <1>2, <1>5, ConcatProperties, LenProperties
<1>7. /\ contributed' \in [Players -> Seq(Chunk)] /\ queue \in [Players -> Seq(Chunk)]
      /\ contributed'[p] = contributed[p] \o chunks /\ queue[p] = player_input[p] \o chunks
      /\ \A q \in Players : q # p => contributed'[q] = contributed[q] /\ queue[q] = player_input[q]
  BY <1>1, <1>3, <1>6
<1>8. queue[p] = SubSeq(contributed'[p], done + 1, Len(contributed'[p]))
  <2>1. done <= Len(contributed[p])
    BY <1>3, LiveContributed
  <2> HIDE DEF done
  <2>2. SubSeq(contributed[p], done + 1, Len(contributed[p])) \o chunks
          = SubSeq(contributed[p] \o chunks, done + 1, Len(contributed[p] \o chunks))
    BY <1>2, <1>4, <1>5, <2>1, RestOfConcat
  <2>3. QED
    BY <1>1, <1>7, <2>2
<1> HIDE DEF queue, done
<1>9. game_data_size' \in Nat
  BY <1>1, <1>2, <1>3
<1>10. game_data_size' = game_data_size \/ done = 0
  BY <1>3, NoFrameWithoutInput DEF done
<1>11. game_data_size' = 0 => \A q \in Players : contributed'[q] = <<>>
  <2>1. SUFFICES ASSUME game_data_size' = 0, NEW q \in Players PROVE contributed'[q] = <<>>
    OBVIOUS
  <2>2. game_data_size = 0 /\ chunks = <<>>
    BY <1>2, <1>3, <2>1
  <2>3. contributed[q] = <<>> /\ contributed[p] = <<>>
    BY <2>2 DEF Inv, SizeKnown
  <2>4. contributed[p] \o chunks = <<>>
    BY <2>2, <2>3, <1>5, ConcatEmptySeq
  <2>5. QED
    BY <2>3, <2>4, <1>7
<1>12. ASSUME NEW q \in Players
       PROVE  /\ Len(contributed[q]) <= Len(contributed'[q]) /\ Len(contributed'[q]) <= MaxFrames
              /\ \A k \in 1 .. Len(contributed[q]) : contributed'[q][k] = contributed[q][k]
              /\ dropped_players[q] => dropped_players'[q] /\ contributed'[q] = contributed[q]
              /\ queue[q] = SubSeq(contributed'[q], done + 1, Len(contributed'[q]))
  <2>1. CASE q = p
    <3>1. /\ Len(contributed[p]) <= Len(contributed[p] \o chunks)
          /\ Len(contributed[p] \o chunks) <= MaxFrames
          /\ \A k \in 1 .. Len(contributed[p]) : (contributed[p] \o chunks)[k] = contributed[p][k]
      BY <1>3, <1>6
    <3>2. QED
      BY <1>3, <1>7, <1>8, <2>1, <3>1
  <2>2. CASE q # p
    <3>1. contributed'[q] = contributed[q] /\ queue[q] = player_input[q]
      BY <1>7, <2>2
    <3>2. Len(contributed[q]) \in Nat /\ Len(contributed[q]) <= MaxFrames
      BY <1>1, LenProperties
    <3>3. player_input[q] = SubSeq(contributed[q], done + 1, Len(contributed[q]))
      BY <1>1 DEF done
    <3>4. dropped_players' = dropped_players /\ Len(contributed[q]) <= Len(contributed[q])
      BY <1>3, <3>2
    <3>5. QED
      BY <3>1, <3>2, <3>3, <3>4
  <2>3. QED BY <2>1, <2>2
<1>13. Arrived(queue, done)
  BY <1>1, <1>3, <1>7, <1>9, <1>10, <1>11, <1>12 DEF Arrived
<1>14. Drain(queue, dropped_players', game_data_size') /\ done = Len(Game!Log)
  BY <1>3 DEF done
<1>15. QED
  BY <1>13, <1>14, DrainKeepsInv

LEMMA DropKeepsInv ==
  ASSUME Inv, NEW p \in Players, mark_player_dropped(p)
  PROVE  Inv'
<1> DEFINE done == Len(Game!Log)
<1>1. /\ player_input \in [Players -> Seq(Chunk)] /\ contributed \in [Players -> Seq(Chunk)]
      /\ dropped_players \in [Players -> BOOLEAN] /\ game_data_size \in Nat
      /\ \A q \in Players : Len(contributed[q]) <= MaxFrames
      /\ \A q \in Players : player_input[q] = SubSeq(contributed[q], done + 1, Len(contributed[q]))
      /\ game_data_size = 0 => \A q \in Players : contributed[q] = <<>>
  BY DEF Inv, TypeOK, Accounted, SizeKnown
<1>2. /\ dropped_players' = [dropped_players EXCEPT ![p] = TRUE]
      /\ contributed' = contributed /\ game_data_size' = game_data_size
      /\ Drain(player_input, dropped_players', game_data_size')
  BY DEF mark_player_dropped
<1>3. ASSUME NEW q \in Players
      PROVE  Len(contributed[q]) \in Nat /\ (dropped_players[q] => dropped_players'[q])
  BY <1>1, <1>2, LenProperties
<1>4. dropped_players' \in [Players -> BOOLEAN]
  BY <1>1, <1>2
<1> HIDE DEF done
<1>5. Arrived(player_input, done)
  BY <1>1, <1>2, <1>3, <1>4 DEF Arrived
<1>6. QED
  BY <1>2, <1>5, DrainKeepsInv DEF done

LEMMA StepInv == Inv /\ [Next]_vars => Inv'
<1> SUFFICES ASSUME Inv, [Next]_vars PROVE Inv'
  OBVIOUS
<1>1. ASSUME NEW p \in Players, mark_player_dropped(p) PROVE Inv'
  BY <1>1, DropKeepsInv
<1>2. CASE UNCHANGED vars
  BY <1>2, LogIs DEF vars, sync, Inv, TypeOK, Accounted, WholePackets, SizeKnown
<1>3. ASSUME NEW p \in Players, NEW input \in Packets, process_client_input(p, input)
      PROVE  Inv'
  BY <1>2, <1>3, QueueKeepsInv DEF process_client_input, SkipDropped
<1>4. QED
  BY <1>1, <1>2, <1>3 DEF Next

LEMMA AlwaysInv == Spec => []Inv
BY InitInv, StepInv, PTL DEF Spec

-----------------------------------------------------------------------------
\* The fields of SimplestGameSync keep their types, and no send buffer ever holds a
\* whole packet between two calls.
THEOREM TypeCorrect == Spec => []TypeOK
<1>1. Inv => TypeOK
  BY DEF Inv
<1>2. QED
  BY <1>1, AlwaysInv, PTL

\* No input is lost, duplicated, reordered or moved to another frame, whatever the
\* interleaving of the players' inputs and drops.
THEOREM AlwaysAccounted == Spec => []Accounted
<1>1. Inv => Accounted
  BY DEF Inv
<1>2. QED
  BY <1>1, AlwaysInv, PTL

\* When inputs wait, they wait for a player who is still in the game: nobody is ever
\* held up by a player who dropped.
THEOREM NobodyWaitsForTheGone == Spec => []WaitsForALivePlayer
<1>1. ASSUME Inv PROVE WaitsForALivePlayer
  <2> DEFINE n == Len(Game!Log)
  <2>1. /\ contributed \in [Players -> Seq(Chunk)] /\ dropped_players \in [Players -> BOOLEAN]
        /\ \A p \in Players : Len(contributed[p]) <= MaxFrames
        /\ game_data_size \in Nat
        /\ \A p \in Players : player_input[p] = SubSeq(contributed[p], n + 1, Len(contributed[p]))
    BY <1>1 DEF Inv, TypeOK, Accounted
  <2>2. n = Rounds(contributed, dropped_players) /\ n \in Nat
    <3> HIDE DEF n
    <3>1. n = Len(LogOf(contributed, dropped_players, game_data_size))
      BY LogIs DEF n
    <3>2. /\ Len(LogOf(contributed, dropped_players, game_data_size))
               = Rounds(contributed, dropped_players)
          /\ Rounds(contributed, dropped_players) \in 0 .. MaxFrames
      BY <2>1, LogType
    <3>3. QED
      BY <3>1, <3>2, SyncAssumption
  <2>3. ASSUME NEW p \in Players PROVE Len(contributed[p]) \in 0 .. MaxFrames
    BY <2>1, LenProperties, SyncAssumption
  <2>4. ~ RoundReady(contributed, dropped_players, n + 1)
    BY <2>2, <2>3, RoundsDefined DEF IsRounds
  <2> HIDE DEF n
  <2>5. ASSUME NEW p \in Players, ~ (Len(contributed[p]) >= n + 1)
        PROVE  player_input[p] = <<>>
    <3>1. Len(contributed[p]) < n + 1
      BY <2>2, <2>3, <2>5, SyncAssumption
    <3>2. Len(contributed[p]) \in Int /\ n + 1 \in Int
      BY <2>2, <2>3, SyncAssumption
    <3>3. SubSeq(contributed[p], n + 1, Len(contributed[p])) = <<>>
      BY <3>1, <3>2, SubSeqEmpty
    <3>4. QED
      BY <2>1, <3>3
  <2>6. SUFFICES ASSUME NEW p \in Players, player_input[p] # <<>>
                 PROVE  \E q \in Players : ~ dropped_players[q] /\ player_input[q] = <<>>
    BY DEF WaitsForALivePlayer
  <2>7. Len(contributed[p]) >= n + 1
    BY <2>5, <2>6
  <2>8. PICK q \in Players : ~ (Len(contributed[q]) >= n + 1) /\ ~ dropped_players[q]
    BY <2>4, <2>7 DEF RoundReady
  <2>9. QED
    BY <2>5, <2>8
<1>2. QED
  BY <1>1, AlwaysInv, PTL

-----------------------------------------------------------------------------
LEMMA SentIsUpToDate == Inv => Game!UpToDate
<1> SUFFICES ASSUME Inv PROVE Game!UpToDate
  OBVIOUS
<1>1. ASSUME NEW p \in Players
      PROVE  sent[p] = Game!Whole(Game!Log, Delay[p])
  <2>1. /\ sent[p] \in Seq(Frame) /\ sender_buffer[p] \in Seq(Frame)
        /\ Delay[p] \in Nat \ {0} /\ Len(sent[p]) % Delay[p] = 0
        /\ Len(sender_buffer[p]) < Delay[p]
        /\ sent[p] \o sender_buffer[p] = Game!Log
    BY SyncAssumption DEF Inv, TypeOK, Accounted, WholePackets
  <2>2. SubSeq(sent[p] \o sender_buffer[p], 1,
               Len(sent[p] \o sender_buffer[p]) - (Len(sent[p] \o sender_buffer[p]) % Delay[p]))
          = sent[p]
    BY <2>1, WholeOfConcat, ZenonT(30)
  <2>3. QED
    BY <2>1, <2>2 DEF Game!Whole
<1>2. sent = [p \in Players |-> sent[p]]
  BY DEF Inv, TypeOK
<1>3. QED
  BY <1>1, <1>2, Zenon DEF Game!UpToDate

\* The combiner implements Lockstep: every player receives the same log of complete
\* frames, in order, in whole packets, and as soon as they are complete.
THEOREM ImplementsLockstep == Spec => KeepsLockstep
<1>1. Init => Game!Init
  BY DEF Init, Game!Init
<1>2. ASSUME [Next]_vars, Game!UpToDate'
      PROVE  [Game!Next]_<<contributed, dropped_players, game_data_size, sent>>
  <2>1. ASSUME NEW p \in Players, mark_player_dropped(p) PROVE Game!Next
    <3>1. Game!Drop(p)
      BY <1>2, <2>1 DEF mark_player_dropped, Game!Drop
    <3>2. QED BY <3>1 DEF Game!Next
  <2>2. ASSUME NEW p \in Players, NEW input \in Packets, Queue(p, Chunks(input, Delay[p]))
        PROVE  Game!Next
    <3>1. Game!Contribute(p, Chunks(input, Delay[p]))
      BY <1>2, <2>2 DEF Queue, Game!Contribute
    <3>2. QED BY <3>1 DEF Game!Next
  <2>3. CASE UNCHANGED vars
    BY <2>3 DEF vars, sync
  <2>4. QED
    BY <1>2, <2>1, <2>2, <2>3 DEF Next, process_client_input, SkipDropped
<1>3. QED
  BY <1>1, <1>2, SentIsUpToDate, AlwaysInv, PTL
     DEF Spec, KeepsLockstep, Game!Spec, Game!lockstep

-----------------------------------------------------------------------------
(***************************************************************************)
(* From here on what becomes of the frames (module FrameDelivery).         *)
(***************************************************************************)
\* Seen from outside: how many frames the log holds.
LEMMA MadeIs ==
  ASSUME OneFrameAPacket, Inv
  PROVE  /\ Made \in Nat /\ Made <= MaxFrames
         /\ Made = Rounds(contributed, dropped_players)
         /\ IsRounds(Made, contributed, dropped_players)
         /\ \A p \in Players : Len(contributed[p]) \in Nat
         /\ \A p \in Players : sent[p] = Game!Log
<1>1. /\ contributed \in [Players -> Seq(Chunk)] /\ game_data_size \in Nat
      /\ \A p \in Players : Len(contributed[p]) <= MaxFrames
      /\ sent \in [Players -> Seq(Frame)] /\ sender_buffer \in [Players -> Seq(Frame)]
      /\ \A p \in Players : Len(sender_buffer[p]) < Delay[p] /\ sent[p] \o sender_buffer[p] = Game!Log
  BY DEF Inv, TypeOK, Accounted
<1>2. 1 \in Players /\ \A p \in Players : Delay[p] = 1
  BY SyncAssumption DEF OneFrameAPacket
<1>3. ASSUME NEW p \in Players PROVE sent[p] = Game!Log
  <2>1. sent[p] \in Seq(Frame) /\ sender_buffer[p] \in Seq(Frame) /\ Len(sender_buffer[p]) < 1
    BY <1>1, <1>2
  <2>2. sender_buffer[p] = <<>>
    BY <2>1, EmptySeq, LenProperties
  <2>3. sent[p] \o <<>> = sent[p]
    BY <2>1, ConcatEmptySeq
  <2> QED
    BY <1>1, <2>2, <2>3
<1>4. ASSUME NEW p \in Players PROVE Len(contributed[p]) \in Nat /\ Len(contributed[p]) \in 0 .. MaxFrames
  BY <1>1, LenProperties, SyncAssumption
<1>5. /\ Rounds(contributed, dropped_players) \in 0 .. MaxFrames
      /\ Len(Game!Log) = Rounds(contributed, dropped_players)
  BY <1>1, LogIs, LogType
<1>6. Made = Rounds(contributed, dropped_players)
  BY <1>2, <1>3, <1>5 DEF Made
<1>7. IsRounds(Rounds(contributed, dropped_players), contributed, dropped_players)
  BY <1>4, RoundsDefined
<1>8. Made \in Nat /\ Made <= MaxFrames
  BY <1>5, <1>6, SyncAssumption
<1> QED
  BY <1>3, <1>4, <1>6, <1>7, <1>8

LEMMA MadeIsNext ==
  ASSUME OneFrameAPacket, Inv'
  PROVE  /\ Made' \in Nat /\ Made' <= MaxFrames
         /\ Made' = Rounds(contributed', dropped_players')
         /\ IsRounds(Made', contributed', dropped_players')
         /\ \A p \in Players : Len(contributed'[p]) \in Nat
<1>1. /\ contributed' \in [Players -> Seq(Chunk)] /\ game_data_size' \in Nat
      /\ \A p \in Players : Len(contributed'[p]) <= MaxFrames
      /\ sent' \in [Players -> Seq(Frame)] /\ sender_buffer' \in [Players -> Seq(Frame)]
      /\ \A p \in Players : Len(sender_buffer'[p]) < Delay[p] /\ sent'[p] \o sender_buffer'[p] = Game!Log'
  BY DEF Inv, TypeOK, Accounted
<1>2. 1 \in Players /\ \A p \in Players : Delay[p] = 1
  BY SyncAssumption DEF OneFrameAPacket
<1>3. sent'[1] = Game!Log'
  <2>1. sent'[1] \in Seq(Frame) /\ sender_buffer'[1] \in Seq(Frame) /\ Len(sender_buffer'[1]) < 1
    BY <1>1, <1>2
  <2>2. sender_buffer'[1] = <<>>
    BY <2>1, EmptySeq, LenProperties
  <2>3. sent'[1] \o <<>> = sent'[1]
    BY <2>1, ConcatEmptySeq
  <2> QED
    BY <1>1, <1>2, <2>2, <2>3
<1>4. ASSUME NEW p \in Players PROVE Len(contributed'[p]) \in Nat /\ Len(contributed'[p]) \in 0 .. MaxFrames
  BY <1>1, LenProperties, SyncAssumption
<1>5. /\ Rounds(contributed', dropped_players') \in 0 .. MaxFrames
      /\ Len(Game!Log') = Rounds(contributed', dropped_players')
  BY <1>1, LogIs, LogType
<1>6. Made' = Rounds(contributed', dropped_players')
  BY <1>3, <1>5 DEF Made
<1>7. IsRounds(Rounds(contributed', dropped_players'), contributed', dropped_players')
  BY <1>4, RoundsDefined
<1>8. Made' \in Nat /\ Made' <= MaxFrames
  BY <1>5, <1>6, SyncAssumption
<1> QED
  BY <1>4, <1>6, <1>7, <1>8

\* No frame is unmade.
LEMMA MadeGrows ==
  ASSUME OneFrameAPacket, Inv, Inv',
         \A p \in Players : /\ Len(contributed[p]) <= Len(contributed'[p])
                            /\ dropped_players[p] => dropped_players'[p]
  PROVE  Made <= Made'
<1>1. /\ Made \in Nat /\ IsRounds(Made, contributed, dropped_players)
      /\ \A p \in Players : Len(contributed[p]) \in Nat
  BY MadeIs
<1>2. /\ Made' \in Nat /\ IsRounds(Made', contributed', dropped_players')
      /\ \A p \in Players : Len(contributed'[p]) \in Nat
  BY MadeIsNext
<1> DEFINE m == Made
           n == Made'
<1>a. m \in Nat /\ n \in Nat
  BY <1>1, <1>2
<1> HIDE DEF m, n
<1>3. ASSUME n < m PROVE FALSE
  <2>1. n + 1 \in Nat /\ n + 1 \in 1 .. m
    BY <1>a, <1>3
  <2>2. RoundReady(contributed, dropped_players, n + 1)
    BY <1>1, <2>1 DEF IsRounds, m
  <2>3. RoundReady(contributed', dropped_players', n + 1)
    BY <1>1, <1>2, <2>1, <2>2, ReadyGrows
  <2> QED
    BY <1>2, <2>3 DEF IsRounds, n
<1>4. m <= n
  BY <1>a, <1>3
<1> QED
  BY <1>4 DEF m, n

-----------------------------------------------------------------------------
(***************************************************************************)
(* The outputs of a drain.                                                 *)
(***************************************************************************)
Output == [to : Players, frame : Nat]

LEMMA Division ==
  ASSUME NEW q \in Nat, NEW r \in Nat, NEW d \in Nat \ {0}, r < d
  PROVE  (d * q + r) \div d = q
OBVIOUS

\* They are the new frames, each for every player.
LEMMA OutputsAre ==
  ASSUME OneFrameAPacket, Made \in Nat, Made' \in Nat, Made <= Made'
  PROVE  /\ Outputs \in Seq(Output)
         /\ Len(Outputs) = (Made' - Made) * Len(Delay)
         /\ \A i \in DOMAIN Outputs : Outputs[i] \in [to : Players, frame : Made + 1 .. Made']
         /\ \A p \in Players, k \in Made + 1 .. Made' :
              \E i \in DOMAIN Outputs : Outputs[i] = [to |-> p, frame |-> k]
         /\ Made' = Made => Outputs = <<>>
         /\ Made' = Made + 1 => Outputs = [i \in 1 .. Len(Delay) |-> [to |-> i, frame |-> Made']]
<1> DEFINE n == Len(Delay)
           m == Made' - Made
           base == Made
           item(i) == [to |-> ((i - 1) % n) + 1, frame |-> base + 1 + ((i - 1) \div n)]
<1>1. n \in Nat \ {0} /\ Players = 1 .. n /\ m \in Nat /\ base \in Nat /\ Made' = base + m
  <2>1. Delay \in Seq({1}) /\ Players = 1 .. n /\ Players # {}
    BY SyncAssumption DEF OneFrameAPacket
  <2>2. n \in Nat \ {0}
    BY <2>1
  <2> DEFINE old == Made
             new == Made'
  <2>3. old \in Nat /\ new \in Nat /\ old <= new /\ m = new - old /\ base = old
    OBVIOUS
  <2> HIDE DEF n, m, base, old, new
  <2>4. m \in Nat /\ base \in Nat /\ new = base + m
    BY <2>3
  <2> QED
    BY <2>1, <2>2, <2>4 DEF new
<1>2. Outputs = [i \in 1 .. m * n |-> item(i)]
  BY DEF Outputs, Made
<1> HIDE DEF n, m, base
<1>3. m * n \in Nat
  BY <1>1
<1>4. ASSUME NEW i \in 1 .. m * n
      PROVE  item(i) \in [to : Players, frame : base + 1 .. base + m]
  <2>1. i - 1 \in Nat /\ i - 1 < m * n
    BY <1>3
  <2>2. /\ (i - 1) % n \in Nat /\ (i - 1) % n < n
        /\ (i - 1) \div n \in Nat /\ i - 1 = n * ((i - 1) \div n) + ((i - 1) % n)
    BY <1>1, <2>1, Euclid
  <2> DEFINE q == (i - 1) \div n
             r == (i - 1) % n
  <2>3. q \in Nat /\ r \in Nat /\ r < n /\ i - 1 = n * q + r
    BY <2>2
  <2> HIDE DEF q, r
  <2>4. q < m
    <3>1. ASSUME m <= q PROVE FALSE
      <4>1. PICK d \in Nat : q = m + d
        <5>1. q - m \in Nat /\ q = m + (q - m)
          BY <1>1, <2>3, <3>1
        <5> QED
          BY <5>1
      <4>2. n * q = n * m + n * d /\ n * d \in Nat /\ n * m = m * n /\ n * q \in Nat
        BY <1>1, <4>1
      <4> QED
        BY <2>1, <2>3, <4>2, <1>3
    <3> QED
      BY <1>1, <2>3, <3>1
  <2>5. r + 1 \in Players /\ base + 1 + q \in base + 1 .. base + m
    BY <1>1, <2>3, <2>4
  <2> QED
    BY <2>5 DEF q, r
<1>5. ASSUME NEW p \in Players, NEW k \in base + 1 .. base + m
      PROVE  \E i \in 1 .. m * n : item(i) = [to |-> p, frame |-> k]
  <2> DEFINE q == k - base - 1
             r == p - 1
             i == n * q + r + 1
  <2>1. q \in Nat /\ r \in Nat /\ r < n /\ q < m /\ k = base + 1 + q /\ p = r + 1
    BY <1>1
  <2> HIDE DEF q, r
  <2>2. PICK d \in Nat : m = q + 1 + d
    <3>1. m - q - 1 \in Nat /\ m = q + 1 + (m - q - 1)
      BY <1>1, <2>1
    <3> QED
      BY <3>1
  <2>3. n * m = n * q + n + n * d /\ n * d \in Nat /\ n * q \in Nat /\ n * m = m * n
    BY <1>1, <2>1, <2>2
  <2>4. i \in 1 .. m * n /\ i - 1 = n * q + r
    BY <1>1, <1>3, <2>1, <2>3
  <2>5. (n * q + r) % n = r /\ (n * q + r) \div n = q
    BY <1>1, <2>1, Remainder, Division
  <2>6. (i - 1) % n = r /\ (i - 1) \div n = q
    BY <2>4, <2>5
  <2> HIDE DEF i
  <2>7. item(i) = [to |-> r + 1, frame |-> base + 1 + q]
    BY <2>6
  <2> QED
    BY <2>1, <2>4, <2>7
<1>7. m = 1 => Outputs = [i \in 1 .. n |-> [to |-> i, frame |-> base + m]]
  <2> SUFFICES ASSUME m = 1 PROVE Outputs = [i \in 1 .. n |-> [to |-> i, frame |-> base + m]]
    OBVIOUS
  <2>1. m * n = n
    BY <1>1
  <2>2. ASSUME NEW i \in 1 .. n PROVE item(i) = [to |-> i, frame |-> base + m]
    <3>1. i - 1 \in Nat /\ i - 1 < n /\ n * 0 + (i - 1) = i - 1
      BY <1>1
    <3>2. (i - 1) % n = i - 1 /\ (i - 1) \div n = 0
      BY <1>1, <3>1, Remainder, Division
    <3>3. (i - 1) + 1 = i /\ base + 1 + 0 = base + m
      BY <1>1
    <3> QED
      BY <3>2, <3>3
  <2>3. Outputs = [i \in 1 .. n |-> item(i)]
    BY <1>2, <2>1
  <2> QED
    BY <2>2, <2>3
<1>8. \A i \in 1 .. m * n : item(i) \in Output
  <2>1. \A x \in [to : Players, frame : base + 1 .. base + m] : x \in Output
    BY <1>1 DEF Output
  <2> QED
    BY <1>4, <2>1
<1> HIDE DEF item
<1>9. Outputs \in [1 .. m * n -> Output]
  BY <1>2, <1>8
<1>10. Outputs \in Seq(Output) /\ Len(Outputs) = m * n /\ DOMAIN Outputs = 1 .. m * n
  BY <1>3, <1>9
<1>11. \A i \in DOMAIN Outputs : Outputs[i] \in [to : Players, frame : base + 1 .. base + m]
  BY <1>2, <1>4, <1>10
<1>12. \A p \in Players, k \in base + 1 .. base + m :
         \E i \in DOMAIN Outputs : Outputs[i] = [to |-> p, frame |-> k]
  BY <1>2, <1>5, <1>10
<1>13. Made' = Made => m = 0
  BY <1>1 DEF base
<1>14. Made' = Made + 1 => m = 1
  BY <1>1 DEF base
<1>15. m = 0 => Outputs = <<>>
  <2>1. m = 0 => m * n = 0
    BY <1>1
  <2> QED
    BY <2>1, <1>10, EmptySeq
<1> QED
  BY <1>1, <1>7, <1>10, <1>11, <1>12, <1>13, <1>14, <1>15 DEF base, n, m

-----------------------------------------------------------------------------
(***************************************************************************)
(* The inductive invariant of the delivery. The heart of it is Sending:    *)
(* as long as nobody has dropped, one task at most has frames to send, all *)
(* of them the last one made, and it is the task of a player who has yet   *)
(* to contribute to the next. So nothing is made before it is done.        *)
(***************************************************************************)
DeliveryTypes ==
  /\ sends \in [Tasks -> Seq(Output)]
  /\ dropping \in [Tasks -> BOOLEAN]
  /\ in_game \in [Players -> BOOLEAN]
  /\ registered \in [Players -> BOOLEAN]
  /\ delivered \in [Players -> Seq(Nat)]

NobodyDropped == \A p \in Players : ~ dropped_players[p]

\* t has sent frame Made to the first j players, and has yet to send it to the others.
Sending(t, j) ==
  /\ \A u \in Tasks : u # t => sends[u] = <<>>
  /\ sends[t] = [i \in 1 .. Len(Delay) - j |-> [to |-> j + i, frame |-> Made]]
  /\ j < Len(Delay) => Made > 0 /\ Len(contributed[t]) = Made
  /\ \A p \in Players : delivered[p] = [k \in 1 .. (IF p <= j THEN Made ELSE Made - 1) |-> k]

OneSends == NobodyDropped => \E t \in Players : \E j \in 0 .. Len(Delay) : Sending(t, j)

DropsAreOfDropped == \A t \in Tasks : dropping[t] => ~ NobodyDropped

\* Where frame k of p is.
IsDelivered(p, k) == \E i \in DOMAIN delivered[p] : delivered[p][i] = k
IsSent(p, k) == \E t \in Tasks : \E i \in DOMAIN sends[t] : sends[t][i] = [to |-> p, frame |-> k]

NoneLost == (\A p \in Players : registered[p]) =>
              \A p \in Players : in_game[p] =>
                \A k \in 1 .. Made : IsDelivered(p, k) \/ IsSent(p, k)

DeliveryInv == /\ Inv /\ DeliveryTypes /\ DeliveryTypeOK
               /\ OneSends /\ DropsAreOfDropped /\ NoneLost

LEMMA SlotsAre ==
  ASSUME OneFrameAPacket
  PROVE  /\ Len(Delay) \in Nat \ {0} /\ Players = 1 .. Len(Delay) /\ 1 \in Players
         /\ Cleanup \notin Players /\ Players \subseteq Tasks
<1>1. Delay \in Seq({1}) /\ Players = 1 .. Len(Delay) /\ Players # {}
  BY SyncAssumption DEF OneFrameAPacket
<1>2. Len(Delay) \in Nat \ {0}
  BY <1>1
<1> QED
  BY <1>1, <1>2 DEF Cleanup, Tasks

LEMMA InitDelivery ==
  ASSUME OneFrameAPacket, DeliveryInit
  PROVE  DeliveryInv
<1>1. Inv
  BY InitInv DEF DeliveryInit
<1>2. Made = 0
  <2>1. sent[1] = <<>>
    BY SlotsAre DEF DeliveryInit, Init
  <2> QED
    BY <2>1, EmptySeq DEF Made
<1>3. DeliveryTypes
  <2>1. <<>> \in Seq(Output) /\ <<>> \in Seq(Nat)
    OBVIOUS
  <2> QED
    BY <2>1 DEF DeliveryInit, DeliveryTypes
<1>4. DeliveryTypeOK
  BY DEF DeliveryInit, DeliveryTypeOK
<1>5. Sending(1, Len(Delay))
  <2>1. Len(Delay) \in Nat /\ 1 \in Tasks /\ Players = 1 .. Len(Delay)
    BY SlotsAre
  <2>2. 1 .. Len(Delay) - Len(Delay) = {}
    BY <2>1
  <2>3. sends[1] = <<>> /\ \A u \in Tasks : sends[u] = <<>>
    BY <2>1 DEF DeliveryInit
  <2>4. sends[1] = [i \in 1 .. Len(Delay) - Len(Delay) |-> [to |-> Len(Delay) + i, frame |-> Made]]
    BY <2>2, <2>3
  <2>5. ASSUME NEW p \in Players
        PROVE  delivered[p] = [k \in 1 .. (IF p <= Len(Delay) THEN Made ELSE Made - 1) |-> k]
    <3>1. delivered[p] = <<>> /\ p <= Len(Delay)
      BY <2>1 DEF DeliveryInit
    <3>2. 1 .. (IF p <= Len(Delay) THEN Made ELSE Made - 1) = {}
      BY <1>2, <3>1
    <3> QED
      BY <3>1, <3>2
  <2>6. ~ (Len(Delay) < Len(Delay))
    BY <2>1
  <2> QED
    BY <2>3, <2>4, <2>5, <2>6 DEF Sending
<1>6. OneSends
  <2>1. 1 \in Players /\ Len(Delay) \in 0 .. Len(Delay)
    BY SlotsAre
  <2> QED
    BY <1>5, <2>1 DEF OneSends
<1>7. DropsAreOfDropped
  BY DEF DeliveryInit, DropsAreOfDropped
<1>8. NoneLost
  BY <1>2 DEF NoneLost
<1> QED
  BY <1>1, <1>3, <1>4, <1>6, <1>7, <1>8 DEF DeliveryInv

\* An input is one chunk, or none if it is empty.
LEMMA OneChunk ==
  ASSUME NEW input \in Packets
  PROVE  /\ Chunks(input, 1) \in Seq(Chunk)
         /\ Len(Chunks(input, 1)) \in 0 .. 1
<1> DEFINE len == Len(input)
<1>1. len \in Nat
  BY SyncAssumption, LenProperties
<1>2. len \div 1 = len
  BY <1>1
<1>3. Chunks(input, 1) \in Seq(Chunk)
  BY ChunksType
<1>4. CASE len = 0
  BY <1>2, <1>4, EmptySeq DEF Chunks
<1>5. CASE len # 0
  <2>1. (len + len - 1) \div len = 1
    <3>1. len * 1 + (len - 1) = len + len - 1 /\ len - 1 \in Nat /\ len - 1 < len
      BY <1>1, <1>5
    <3> HIDE DEF len
    <3>2. (len * 1 + (len - 1)) \div len = 1
      BY <1>1, <1>5, <3>1, Division
    <3> QED
      BY <3>1, <3>2
  <2>2. Chunks(input, 1) = [i \in 1 .. (len + len - 1) \div len |->
             SubSeq(input, (i - 1) * len + 1, IF i * len <= len THEN i * len ELSE len)]
    BY <1>2, <1>5 DEF Chunks
  <2>3. Chunks(input, 1) = [i \in 1 .. 1 |->
             SubSeq(input, (i - 1) * len + 1, IF i * len <= len THEN i * len ELSE len)]
    BY <2>1, <2>2
  <2> HIDE DEF len
  <2>4. DOMAIN Chunks(input, 1) = 1 .. 1
    BY <2>3
  <2>5. Len(Chunks(input, 1)) = 1
    BY <1>3, <2>4, LenProperties
  <2> QED
    BY <1>3, <2>5
<1> QED
  BY <1>4, <1>5

LEMMA InputGrows ==
  ASSUME OneFrameAPacket, Inv, NEW p \in Players, NEW input \in Packets,
         process_client_input(p, input)
  PROVE  /\ Inv' /\ Made' \in Nat /\ Made <= Made'
         /\ dropped_players' = dropped_players
         /\ \A q \in Players : q # p => contributed'[q] = contributed[q]
         /\ Len(contributed'[p]) \in Nat /\ Len(contributed[p]) <= Len(contributed'[p])
         /\ Len(contributed'[p]) <= Len(contributed[p]) + 1
<1>1. Inv'
  <2>1. Next
    BY DEF Next
  <2> QED
    BY <2>1, StepInv
<1>2. contributed \in [Players -> Seq(Chunk)] /\ contributed[p] \in Seq(Chunk)
  BY DEF Inv, TypeOK
<1>3. /\ Len(contributed[p]) \in Nat /\ Len(contributed'[p]) \in Nat
      /\ \A q \in Players : Len(contributed[q]) \in Nat
  BY <1>1, MadeIs, MadeIsNext
<1>4. /\ dropped_players' = dropped_players
      /\ \A q \in Players : q # p => contributed'[q] = contributed[q]
      /\ Len(contributed[p]) <= Len(contributed'[p])
      /\ Len(contributed'[p]) <= Len(contributed[p]) + 1
  <2>1. CASE SkipDropped(p)
    BY <1>3, <2>1 DEF SkipDropped, vars, sync
  <2>2. CASE Queue(p, Chunks(input, Delay[p]))
    <3>1. Delay[p] = 1
      BY SlotsAre DEF OneFrameAPacket
    <3> DEFINE chunks == Chunks(input, 1)
    <3>2. chunks \in Seq(Chunk) /\ Len(chunks) \in 0 .. 1
      BY OneChunk
    <3>3. /\ contributed' = [contributed EXCEPT ![p] = @ \o chunks]
          /\ dropped_players' = dropped_players
      BY <2>2, <3>1 DEF Queue
    <3> HIDE DEF chunks
    <3>4. Len(contributed[p] \o chunks) = Len(contributed[p]) + Len(chunks)
      BY <1>2, <3>2, ConcatProperties
    <3>5. contributed'[p] = contributed[p] \o chunks /\ \A q \in Players : q # p => contributed'[q] = contributed[q]
      BY <1>2, <3>3
    <3> QED
      BY <1>3, <3>2, <3>3, <3>4, <3>5
  <2> QED
    BY <2>1, <2>2 DEF process_client_input
<1>5. \A q \in Players : /\ Len(contributed[q]) <= Len(contributed'[q])
                         /\ dropped_players[q] => dropped_players'[q]
  BY <1>3, <1>4
<1>6. Made <= Made' /\ Made' \in Nat
  BY <1>1, <1>5, MadeGrows, MadeIsNext
<1> QED
  BY <1>1, <1>3, <1>4, <1>6

LEMMA DropGrows ==
  ASSUME OneFrameAPacket, Inv, NEW p \in Players, mark_player_dropped(p)
  PROVE  /\ Inv' /\ Made' \in Nat /\ Made <= Made'
         /\ dropped_players'[p]
         /\ \A q \in Players : dropped_players[q] => dropped_players'[q]
<1>1. Inv'
  BY DropKeepsInv
<1>2. dropped_players \in [Players -> BOOLEAN]
  BY DEF Inv, TypeOK
<1>3. /\ dropped_players' = [dropped_players EXCEPT ![p] = TRUE]
      /\ contributed' = contributed
  BY DEF mark_player_dropped
<1>4. dropped_players'[p] /\ \A q \in Players : dropped_players[q] => dropped_players'[q]
  BY <1>2, <1>3
<1>5. \A q \in Players : Len(contributed[q]) \in Nat
  BY MadeIs
<1>6. \A q \in Players : Len(contributed[q]) <= Len(contributed'[q])
  BY <1>3, <1>5
<1>7. Made <= Made' /\ Made' \in Nat
  BY <1>1, <1>4, <1>6, MadeGrows, MadeIsNext
<1> QED
  BY <1>1, <1>4, <1>7

-----------------------------------------------------------------------------
(***************************************************************************)
(* A handler of t that had sent everything sends what the drain gave.      *)
(***************************************************************************)
LEMMA SendsTyped ==
  ASSUME OneFrameAPacket, DeliveryInv, NEW t \in Tasks, Made' \in Nat, Made <= Made',
         NEW out, out \in {<<>>, Outputs},
         sends' = [sends EXCEPT ![t] = out], delivered' = delivered
  PROVE  /\ sends' \in [Tasks -> Seq(Output)]
         /\ \A p \in Players : \A i \in DOMAIN delivered'[p] : delivered'[p][i] \in 1 .. Made'
         /\ \A u \in Tasks : \A i \in DOMAIN sends'[u] :
              sends'[u][i] \in [to : Players, frame : 1 .. Made']
<1>1. /\ sends \in [Tasks -> Seq(Output)] /\ delivered \in [Players -> Seq(Nat)]
      /\ \A p \in Players : \A i \in DOMAIN delivered[p] : delivered[p][i] \in 1 .. Made
      /\ \A u \in Tasks : \A i \in DOMAIN sends[u] : sends[u][i] \in [to : Players, frame : 1 .. Made]
      /\ Made \in Nat
  BY MadeIs DEF DeliveryInv, DeliveryTypes, DeliveryTypeOK
<1>2. /\ Outputs \in Seq(Output)
      /\ \A i \in DOMAIN Outputs : Outputs[i] \in [to : Players, frame : Made + 1 .. Made']
  BY <1>1, OutputsAre
<1>3. out \in Seq(Output) /\ \A i \in DOMAIN out : out[i] \in [to : Players, frame : Made + 1 .. Made']
  <2>1. CASE out = <<>>
    BY <2>1
  <2>2. CASE out = Outputs
    BY <1>2, <2>2
  <2> QED
    BY <2>1, <2>2
<1> DEFINE m == Made
           n == Made'
<1>4. m \in Nat /\ n \in Nat /\ m <= n
  BY <1>1
<1>5. 1 .. m \subseteq 1 .. n /\ m + 1 .. n \subseteq 1 .. n
  <2> HIDE DEF m, n
  <2> QED
    BY <1>4
<1>6. \A x : /\ x \in [to : Players, frame : 1 .. m] => x \in [to : Players, frame : 1 .. n]
             /\ x \in [to : Players, frame : m + 1 .. n] => x \in [to : Players, frame : 1 .. n]
  <2> HIDE DEF m, n
  <2> QED
    BY <1>5
<1>7. \A p \in Players : \A i \in DOMAIN delivered[p] : delivered[p][i] \in 1 .. n
  BY <1>1, <1>5
<1>8. \A u \in Tasks : sends'[u] = IF u = t THEN out ELSE sends[u]
  BY <1>1
<1>9. ASSUME NEW u \in Tasks, NEW i \in DOMAIN sends'[u]
      PROVE  sends'[u][i] \in [to : Players, frame : 1 .. n]
  <2> HIDE DEF m, n
  <2>1. CASE u = t
    <3>1. i \in DOMAIN out /\ sends'[u][i] = out[i]
      BY <1>8, <1>9, <2>1
    <3>2. out[i] \in [to : Players, frame : m + 1 .. n]
      BY <1>3, <3>1 DEF m, n
    <3> QED
      BY <1>6, <3>1, <3>2
  <2>2. CASE u # t
    <3>1. i \in DOMAIN sends[u] /\ sends'[u][i] = sends[u][i]
      BY <1>8, <1>9, <2>2
    <3>2. sends[u][i] \in [to : Players, frame : 1 .. m]
      BY <1>1, <3>1 DEF m
    <3> QED
      BY <1>6, <3>1, <3>2
  <2> QED
    BY <2>1, <2>2
<1> QED
  BY <1>1, <1>3, <1>7, <1>9

\* If everything is sent that is made, nothing is lost.
LEMMA SendsKeepAll ==
  ASSUME OneFrameAPacket, DeliveryInv, NEW t \in Tasks, Made' \in Nat, Made <= Made',
         sends[t] = <<>>, sends' = [sends EXCEPT ![t] = Outputs], delivered' = delivered,
         \A p \in Players : /\ registered'[p] => registered[p]
                            /\ in_game'[p] => in_game[p]
  PROVE  NoneLost'
<1>1. /\ sends \in [Tasks -> Seq(Output)] /\ NoneLost /\ Made \in Nat
      /\ \A u \in Tasks : sends'[u] = IF u = t THEN Outputs ELSE sends[u]
  BY MadeIs DEF DeliveryInv, DeliveryTypes
<1>2. \A p \in Players, k \in Made + 1 .. Made' :
         \E i \in DOMAIN Outputs : Outputs[i] = [to |-> p, frame |-> k]
  BY <1>1, OutputsAre
<1> SUFFICES ASSUME \A p \in Players : registered'[p],
                    NEW p \in Players, in_game'[p], NEW k \in 1 .. Made'
             PROVE  IsDelivered(p, k)' \/ IsSent(p, k)'
  BY DEF NoneLost
<1>3. CASE k \in 1 .. Made
  <2>1. IsDelivered(p, k) \/ IsSent(p, k)
    BY <1>1, <1>3 DEF NoneLost
  <2>2. IsDelivered(p, k) => IsDelivered(p, k)'
    BY DEF IsDelivered
  <2>3. ASSUME IsSent(p, k) PROVE IsSent(p, k)'
    <3>1. PICK u \in Tasks : \E i \in DOMAIN sends[u] : sends[u][i] = [to |-> p, frame |-> k]
      BY <2>3 DEF IsSent
    <3>2. u # t
      <4>1. DOMAIN <<>> = {}
        OBVIOUS
      <4> QED
        BY <3>1, <4>1
    <3>3. sends'[u] = sends[u]
      BY <1>1, <3>2
    <3> QED
      BY <3>1, <3>3 DEF IsSent
  <2> QED
    BY <2>1, <2>2, <2>3
<1>4. CASE k \notin 1 .. Made
  <2> DEFINE m == Made
             n == Made'
  <2>1. k \in m + 1 .. n
    <3>1. m \in Nat /\ n \in Nat /\ k \in 1 .. n /\ k \notin 1 .. m
      BY <1>1, <1>4
    <3> HIDE DEF m, n
    <3> QED
      BY <3>1
  <2>2. PICK i \in DOMAIN Outputs : Outputs[i] = [to |-> p, frame |-> k]
    BY <1>2, <2>1
  <2>3. sends'[t] = Outputs
    BY <1>1
  <2> QED
    BY <2>2, <2>3 DEF IsSent
<1> QED
  BY <1>3, <1>4

\* While nobody has dropped, the frame an input completes is the only one under way.
LEMMA OneSendsOn ==
  ASSUME OneFrameAPacket, DeliveryInv, NEW p \in Players, NEW input \in Packets,
         HandleInput(p, input)
  PROVE  OneSends'
<1>1. /\ sends[p] = <<>> /\ process_client_input(p, input)
      /\ sends' = [sends EXCEPT ![p] = Outputs] /\ delivered' = delivered
  BY DEF HandleInput, Idle, members
<1>2. /\ Inv /\ Inv' /\ Made' \in Nat /\ Made <= Made' /\ Made \in Nat
      /\ dropped_players' = dropped_players
      /\ \A q \in Players : q # p => contributed'[q] = contributed[q]
      /\ Len(contributed'[p]) \in Nat /\ Len(contributed[p]) <= Len(contributed'[p])
      /\ Len(contributed'[p]) <= Len(contributed[p]) + 1
      /\ \A q \in Players : Len(contributed[q]) \in Nat
      /\ IsRounds(Made, contributed, dropped_players)
      /\ IsRounds(Made', contributed', dropped_players')
  BY <1>1, InputGrows, MadeIs, MadeIsNext DEF DeliveryInv
<1>3. /\ Len(Delay) \in Nat \ {0} /\ Players = 1 .. Len(Delay) /\ p \in Tasks /\ Players \subseteq Tasks
  BY SlotsAre
<1>4. /\ sends \in [Tasks -> Seq(Output)]
      /\ \A u \in Tasks : sends'[u] = IF u = p THEN Outputs ELSE sends[u]
  BY <1>1 DEF DeliveryInv, DeliveryTypes
<1> SUFFICES ASSUME NobodyDropped' PROVE \E t \in Players : \E j \in 0 .. Len(Delay) : Sending(t, j)'
  BY DEF OneSends
<1>5. NobodyDropped /\ \A q \in Players : ~ dropped_players'[q]
  BY <1>2 DEF NobodyDropped
<1>6. PICK t \in Players, j \in 0 .. Len(Delay) : Sending(t, j)
  BY <1>5 DEF DeliveryInv, OneSends
<1> DEFINE m == Made
           n == Made'
           N == Len(Delay)
<1>7. /\ m \in Nat /\ n \in Nat /\ m <= n /\ N \in Nat \ {0} /\ j \in 0 .. N
  BY <1>2, <1>3
\* Each player contributed to every frame there is.
<1>8. \A q \in Players : n = 0 \/ Len(contributed'[q]) >= n
  <2>1. n # 0 => n \in 1 .. n
    <3> HIDE DEF n
    <3> QED
      BY <1>7
  <2>2. n # 0 => RoundReady(contributed', dropped_players', n)
    BY <2>1, <1>2 DEF IsRounds
  <2> QED
    BY <2>2, <1>5 DEF RoundReady
<1>9. CASE n = m
  <2>1. Outputs = <<>>
    BY <1>2, <1>9, OutputsAre
  <2>2. sends' = sends
    BY <1>1, <1>4, <2>1
  <2>3. j < Len(Delay) => t # p
    <3>1. ASSUME j < Len(Delay), t = p PROVE FALSE
      <4>1. sends[p] = [i \in 1 .. Len(Delay) - j |-> [to |-> j + i, frame |-> Made]]
        BY <1>6, <3>1 DEF Sending
      <4>2. 1 \in 1 .. Len(Delay) - j
        BY <1>7, <3>1
      <4>3. DOMAIN sends[p] # {}
        BY <4>1, <4>2
      <4> QED
        BY <1>1, <4>3
    <3> QED
      BY <3>1
  <2>4. j < Len(Delay) => contributed'[t] = contributed[t]
    BY <1>2, <2>3
  <2>5. Sending(t, j)'
    <3>1. \A u \in Tasks : u # t => sends'[u] = <<>>
      BY <1>6, <2>2 DEF Sending
    <3>2. sends'[t] = [i \in 1 .. Len(Delay) - j |-> [to |-> j + i, frame |-> Made']]
      BY <1>6, <2>2, <1>9 DEF Sending
    <3>3. j < Len(Delay) => Made' > 0 /\ Len(contributed'[t]) = Made'
      BY <1>6, <1>9, <2>4 DEF Sending
    <3>4. \A q \in Players : delivered'[q] = [k \in 1 .. (IF q <= j THEN Made' ELSE Made' - 1) |-> k]
      BY <1>1, <1>6, <1>9 DEF Sending
    <3> QED
      BY <3>1, <3>2, <3>3, <3>4 DEF Sending
  <2> QED
    BY <2>5
<1>10. CASE n # m
  \* p had contributed no more than was made.
  <2>1. Len(contributed[p]) = m /\ n = m + 1 /\ Len(contributed'[p]) = n
    <3>1. ~ RoundReady(contributed, dropped_players, m + 1)
      BY <1>2 DEF IsRounds
    <3>2. PICK q \in Players : ~ (Len(contributed[q]) >= m + 1)
      <4>1. \E q \in Players : q = p
        OBVIOUS
      <4> QED
        BY <3>1, <4>1 DEF RoundReady
    <3>3. q = p
      <4>1. Len(contributed'[q]) >= n
        BY <1>7, <1>8, <1>10
      <4>2. Len(contributed[q]) \in Nat /\ (q # p => contributed'[q] = contributed[q])
        BY <1>2
      <4> HIDE DEF n, m
      <4> QED
        BY <1>7, <1>10, <3>2, <4>1, <4>2
    <3>4. /\ Len(contributed[p]) \in Nat /\ Len(contributed'[p]) \in Nat
          /\ Len(contributed'[p]) <= Len(contributed[p]) + 1
          /\ n = 0 \/ Len(contributed'[p]) >= n
          /\ ~ (Len(contributed[p]) >= m + 1)
      BY <1>2, <1>8, <3>2, <3>3
    <3> HIDE DEF n, m
    <3> QED
      BY <1>7, <1>10, <3>4
  \* So nobody else was sending: he too would have contributed no more.
  <2>2. j = N
    <3> SUFFICES ASSUME j < N PROVE FALSE
      BY <1>7
    <3>1. Len(contributed[t]) = m
      BY <1>6 DEF Sending
    <3>2. t # p
      <4>1. ASSUME t = p PROVE FALSE
        <5>1. sends[p] = [i \in 1 .. Len(Delay) - j |-> [to |-> j + i, frame |-> Made]]
          BY <1>6, <4>1 DEF Sending
        <5>2. 1 \in 1 .. Len(Delay) - j
          BY <1>7
        <5>3. DOMAIN sends[p] # {}
          BY <5>1, <5>2
        <5> QED
          BY <1>1, <5>3
      <4> QED
        BY <4>1
    <3>3. contributed'[t] = contributed[t]
      BY <1>2, <3>2
    <3>4. n = 0 \/ Len(contributed'[t]) >= n
      BY <1>8
    <3>5. n = m + 1
      BY <2>1
    <3> HIDE DEF n, m
    <3> QED
      BY <1>7, <3>1, <3>3, <3>4, <3>5
  <2>3. Outputs = [i \in 1 .. Len(Delay) |-> [to |-> i, frame |-> Made']]
    BY <1>2, <2>1, OutputsAre
  <2>4. \A u \in Tasks : sends[u] = <<>>
    <3>1. sends[t] = [i \in 1 .. N - j |-> [to |-> j + i, frame |-> Made]] /\ N - j = 0
      BY <1>6, <1>7, <2>2 DEF Sending
    <3>2. sends[t] \in Seq(Output) /\ DOMAIN sends[t] = 1 .. 0
      BY <1>3, <1>4, <3>1
    <3>3. sends[t] = <<>>
      <4>1. Len(sends[t]) \in Nat /\ DOMAIN sends[t] = 1 .. Len(sends[t])
        BY <3>2, LenProperties
      <4>a. 1 \notin 1 .. 0
        OBVIOUS
      <4>2. 1 \notin 1 .. Len(sends[t])
        BY <3>2, <4>1, <4>a, Zenon
      <4>3. Len(sends[t]) = 0
        BY <4>1, <4>2
      <4> QED
        BY <3>2, <4>3, EmptySeq
    <3> QED
      BY <1>6, <3>3 DEF Sending
  <2>5. Sending(p, 0)'
    <3>1. \A u \in Tasks : u # p => sends'[u] = <<>>
      BY <1>4, <2>4
    <3>2. sends'[p] = [i \in 1 .. Len(Delay) - 0 |-> [to |-> 0 + i, frame |-> Made']]
      <4>1. Len(Delay) - 0 = Len(Delay) /\ \A i \in 1 .. Len(Delay) : 0 + i = i
        BY <1>3
      <4>2. sends'[p] = Outputs
        BY <1>3, <1>4
      <4> QED
        BY <2>3, <4>1, <4>2
    <3>3. Made' > 0 /\ Len(contributed'[p]) = Made'
      <4>1. n > 0
        <5>1. n = m + 1
          BY <2>1
        <5> HIDE DEF m, n
        <5> QED
          BY <1>7, <5>1
      <4> QED
        BY <2>1, <4>1
    <3>4. ASSUME NEW q \in Players
          PROVE  delivered'[q] = [k \in 1 .. (IF q <= 0 THEN Made' ELSE Made' - 1) |-> k]
      <4>1. ~ (q <= 0) /\ q <= j
        BY <1>3, <2>2
      <4>2. delivered[q] = [k \in 1 .. Made |-> k]
        BY <1>6, <4>1 DEF Sending
      <4>3. n - 1 = m
        <5>1. n = m + 1
          BY <2>1
        <5> HIDE DEF m, n
        <5> QED
          BY <1>7, <5>1
      <4> QED
        BY <1>1, <4>1, <4>2, <4>3
    <3> QED
      BY <3>1, <3>2, <3>3, <3>4 DEF Sending
  <2> QED
    BY <1>7, <2>5
<1> QED
  BY <1>9, <1>10

-----------------------------------------------------------------------------
(***************************************************************************)
(* One lemma per action.                                                   *)
(***************************************************************************)
LEMMA InputKeeps ==
  ASSUME OneFrameAPacket, DeliveryInv, NEW p \in Players, NEW input \in Packets,
         HandleInput(p, input)
  PROVE  DeliveryInv'
<1>1. /\ sends[p] = <<>> /\ process_client_input(p, input)
      /\ sends' = [sends EXCEPT ![p] = Outputs] /\ delivered' = delivered
      /\ dropping' = dropping /\ in_game' = in_game /\ registered' = registered
  BY DEF HandleInput, Idle, members
<1>2. /\ Inv' /\ Made' \in Nat /\ Made <= Made' /\ dropped_players' = dropped_players
  BY <1>1, InputGrows DEF DeliveryInv
<1>3. p \in Tasks
  BY SlotsAre
<1>4. /\ sends' \in [Tasks -> Seq(Output)]
      /\ \A q \in Players : \A i \in DOMAIN delivered'[q] : delivered'[q][i] \in 1 .. Made'
      /\ \A u \in Tasks : \A i \in DOMAIN sends'[u] :
           sends'[u][i] \in [to : Players, frame : 1 .. Made']
  BY <1>1, <1>2, <1>3, SendsTyped
<1>5. DeliveryTypes'
  BY <1>1, <1>4 DEF DeliveryInv, DeliveryTypes
<1>6. DeliveryTypeOK'
  BY <1>1, <1>2, <1>4 DEF DeliveryInv, DeliveryTypeOK
<1>7. NoneLost'
  BY <1>1, <1>2, <1>3, SendsKeepAll
<1>8. DropsAreOfDropped'
  BY <1>1, <1>2 DEF DeliveryInv, DropsAreOfDropped, NobodyDropped
<1> QED
  BY <1>2, <1>5, <1>6, <1>7, <1>8, OneSendsOn DEF DeliveryInv

\* A drop, in task t, of a player who may leave with it.
LEMMA DropKeeps ==
  ASSUME OneFrameAPacket, DeliveryInv, NEW t \in Tasks, NEW p \in Players,
         execute_drop_game(t, p),
         in_game' \in {in_game, [in_game EXCEPT ![p] = FALSE]}
  PROVE  DeliveryInv'
<1>1. /\ sends[t] = <<>> /\ mark_player_dropped(p)
      /\ sends' = [sends EXCEPT ![t] = IF Closed THEN <<>> ELSE Outputs]
      /\ dropping' = [dropping EXCEPT ![t] = ~ Closed]
      /\ delivered' = delivered /\ registered' = registered
  BY DEF execute_drop_game, Idle
<1>2. /\ Inv' /\ Made' \in Nat /\ Made <= Made' /\ dropped_players'[p]
      /\ \A q \in Players : dropped_players[q] => dropped_players'[q]
  BY <1>1, DropGrows DEF DeliveryInv
<1>3. /\ in_game \in [Players -> BOOLEAN] /\ dropping \in [Tasks -> BOOLEAN]
      /\ registered \in [Players -> BOOLEAN] /\ delivered \in [Players -> Seq(Nat)]
  BY DEF DeliveryInv, DeliveryTypes
<1>4. /\ sends' \in [Tasks -> Seq(Output)]
      /\ \A q \in Players : \A i \in DOMAIN delivered'[q] : delivered'[q][i] \in 1 .. Made'
      /\ \A u \in Tasks : \A i \in DOMAIN sends'[u] :
           sends'[u][i] \in [to : Players, frame : 1 .. Made']
  <2> DEFINE out == IF Closed THEN <<>> ELSE Outputs
  <2>1. out \in {<<>>, Outputs} /\ sends' = [sends EXCEPT ![t] = out]
    BY <1>1
  <2> HIDE DEF out
  <2> QED
    BY <1>1, <1>2, <2>1, SendsTyped
<1>5. in_game' \in [Players -> BOOLEAN]
      /\ \A q \in Players : /\ in_game'[q] => in_game[q]
                            /\ ~ in_game'[q] => ~ in_game[q] \/ q = p
  BY <1>3
<1>6. dropping' \in [Tasks -> BOOLEAN]
  BY <1>1, <1>3
<1>7. DeliveryTypes'
  BY <1>1, <1>3, <1>4, <1>5, <1>6 DEF DeliveryTypes
<1>8. DeliveryTypeOK'
  BY <1>1, <1>2, <1>4, <1>5 DEF DeliveryInv, DeliveryTypeOK
<1>9. ~ NobodyDropped'
  BY <1>2 DEF NobodyDropped
<1>10. OneSends' /\ DropsAreOfDropped'
  BY <1>9 DEF OneSends, DropsAreOfDropped
<1>11. NoneLost'
  <2>1. CASE Closed
    BY <2>1 DEF Closed, NoneLost
  <2>2. CASE ~ Closed
    <3>1. sends' = [sends EXCEPT ![t] = Outputs]
      BY <1>1, <2>2
    <3> QED
      BY <1>1, <1>2, <1>5, <3>1, SendsKeepAll
  <2> QED
    BY <2>1, <2>2
<1> QED
  BY <1>2, <1>7, <1>8, <1>10, <1>11 DEF DeliveryInv

\* A step that leaves the combiner and the players' being in the game alone.
LEMMA CombinerRests ==
  ASSUME Inv, UNCHANGED vars
  PROVE  /\ Inv' /\ Made' = Made /\ dropped_players' = dropped_players
         /\ contributed' = contributed
<1>1. Inv'
  BY StepInv
<1> QED
  BY <1>1 DEF vars, sync, Made

LEMMA IdleKeeps ==
  ASSUME OneFrameAPacket, DeliveryInv, NEW t \in Tasks, SetIdle(t)
  PROVE  DeliveryInv'
<1>1. /\ dropping[t] /\ dropping' = [dropping EXCEPT ![t] = FALSE]
      /\ sends' = IF \A p \in Players : registered[p] THEN sends ELSE [sends EXCEPT ![t] = <<>>]
      /\ in_game' = in_game /\ registered' = registered /\ delivered' = delivered
      /\ UNCHANGED vars
  BY DEF SetIdle, members
<1>2. Inv' /\ Made' = Made /\ dropped_players' = dropped_players
  BY <1>1, CombinerRests DEF DeliveryInv
<1>3. /\ sends \in [Tasks -> Seq(Output)] /\ dropping \in [Tasks -> BOOLEAN]
      /\ \A u \in Tasks : \A i \in DOMAIN sends[u] : sends[u][i] \in [to : Players, frame : 1 .. Made]
  BY DEF DeliveryInv, DeliveryTypes, DeliveryTypeOK
<1>4. sends' \in [Tasks -> Seq(Output)] /\ \A u \in Tasks : sends'[u] = sends[u] \/ sends'[u] = <<>>
  <2>1. <<>> \in Seq(Output)
    OBVIOUS
  <2> QED
    BY <1>1, <1>3, <2>1
<1>5. dropping' \in [Tasks -> BOOLEAN] /\ \A u \in Tasks : dropping'[u] => dropping[u]
  BY <1>1, <1>3
<1>6. DeliveryTypes'
  BY <1>1, <1>4, <1>5 DEF DeliveryInv, DeliveryTypes
<1>7. DeliveryTypeOK'
  <2>1. ASSUME NEW u \in Tasks, NEW i \in DOMAIN sends'[u]
        PROVE  sends'[u][i] \in [to : Players, frame : 1 .. Made]
    <3>1. CASE sends'[u] = sends[u]
      BY <1>3, <2>1, <3>1
    <3>2. CASE sends'[u] = <<>>
      BY <2>1, <3>2
    <3> QED
      BY <1>4, <3>1, <3>2
  <2> QED
    BY <1>1, <1>2, <2>1 DEF DeliveryInv, DeliveryTypeOK
<1>8. ~ NobodyDropped
  BY <1>1 DEF DeliveryInv, DropsAreOfDropped
<1>9. OneSends' /\ DropsAreOfDropped'
  BY <1>2, <1>8 DEF OneSends, DropsAreOfDropped, NobodyDropped
<1>10. NoneLost'
  <2>1. CASE \A p \in Players : registered[p]
    <3>1. sends' = sends
      BY <1>1, <2>1
    <3> QED
      BY <1>1, <1>2, <3>1 DEF DeliveryInv, NoneLost, IsDelivered, IsSent
  <2>2. CASE ~ \A p \in Players : registered[p]
    BY <1>1, <2>2 DEF NoneLost
  <2> QED
    BY <2>1, <2>2
<1> QED
  BY <1>2, <1>6, <1>7, <1>9, <1>10 DEF DeliveryInv

LEMMA RemoveKeeps ==
  ASSUME OneFrameAPacket, DeliveryInv, NEW t \in Tasks, NEW p \in Players, RemoveClient(t, p)
  PROVE  DeliveryInv'
<1>1. /\ ~ in_game[p] /\ registered' = [registered EXCEPT ![p] = FALSE]
      /\ sends' = sends /\ dropping' = dropping /\ in_game' = in_game /\ delivered' = delivered
      /\ UNCHANGED vars
  BY DEF RemoveClient, tasks
<1>2. Inv' /\ Made' = Made /\ dropped_players' = dropped_players
  BY <1>1, CombinerRests DEF DeliveryInv
<1>3. registered \in [Players -> BOOLEAN]
  BY DEF DeliveryInv, DeliveryTypes
<1>4. /\ registered' \in [Players -> BOOLEAN] /\ ~ registered'[p]
      /\ \A q \in Players : q # p => registered'[q] = registered[q]
  BY <1>1, <1>3
<1>5. DeliveryTypes'
  BY <1>1, <1>4 DEF DeliveryInv, DeliveryTypes
<1>6. DeliveryTypeOK'
  BY <1>1, <1>2, <1>4 DEF DeliveryInv, DeliveryTypeOK
<1>7. ~ NobodyDropped
  BY <1>1 DEF DeliveryInv, DeliveryTypeOK, NobodyDropped
<1>8. OneSends' /\ DropsAreOfDropped'
  BY <1>2, <1>7 DEF OneSends, DropsAreOfDropped, NobodyDropped
<1>9. NoneLost'
  BY <1>4 DEF NoneLost
<1> QED
  BY <1>2, <1>5, <1>6, <1>8, <1>9 DEF DeliveryInv

\* A frame goes out: what was still to be sent is sent, and in its turn.
LEMMA SendKeeps ==
  ASSUME OneFrameAPacket, DeliveryInv, NEW t \in Tasks, SendPacket(t)
  PROVE  DeliveryInv'
<1> DEFINE first == Head(sends[t])
           rest == Tail(sends[t])
           to == first.to
<1>1. /\ sends[t] # <<>> /\ dropping' = dropping /\ in_game' = in_game /\ registered' = registered
      /\ UNCHANGED vars
      /\ IF registered[to]
         THEN /\ delivered' = [delivered EXCEPT ![to] = Append(@, first.frame)]
              /\ sends' = [sends EXCEPT ![t] = rest]
         ELSE /\ sends' = [sends EXCEPT ![t] = <<>>]
              /\ UNCHANGED delivered
  BY DEF SendPacket, members
<1>2. /\ Inv' /\ Made' = Made /\ dropped_players' = dropped_players /\ contributed' = contributed
  BY <1>1, CombinerRests DEF DeliveryInv
<1>3. /\ sends \in [Tasks -> Seq(Output)] /\ sends[t] \in Seq(Output)
      /\ delivered \in [Players -> Seq(Nat)]
      /\ \A u \in Tasks : \A i \in DOMAIN sends[u] : sends[u][i] \in [to : Players, frame : 1 .. Made]
      /\ \A p \in Players : \A i \in DOMAIN delivered[p] : delivered[p][i] \in 1 .. Made
  BY DEF DeliveryInv, DeliveryTypes, DeliveryTypeOK
<1>4. /\ Len(sends[t]) \in Nat \ {0} /\ first = sends[t][1] /\ rest \in Seq(Output)
      /\ Len(rest) = Len(sends[t]) - 1
      /\ \A i \in 1 .. Len(rest) : rest[i] = sends[t][i + 1]
  BY <1>1, <1>3, HeadTailProperties
<1>5. DOMAIN sends[t] = 1 .. Len(sends[t]) /\ DOMAIN rest = 1 .. Len(rest)
  BY <1>3, <1>4, LenProperties
<1>6. 1 \in DOMAIN sends[t] /\ \A i \in DOMAIN rest : i + 1 \in DOMAIN sends[t] /\ rest[i] = sends[t][i + 1]
  BY <1>4, <1>5
<1>7. first \in [to : Players, frame : 1 .. Made] /\ to \in Players /\ first.frame \in 1 .. Made
  BY <1>3, <1>4, <1>6
<1>8. Made \in Nat /\ first.frame \in Nat
  BY <1>7, MadeIs DEF DeliveryInv
<1> HIDE DEF first, rest, to
<1>9. delivered[to] \in Seq(Nat)
  BY <1>3, <1>7
<1> DEFINE longer == Append(delivered[to], first.frame)
<1>10. /\ longer \in Seq(Nat) /\ Len(longer) = Len(delivered[to]) + 1
       /\ \A i \in 1 .. Len(delivered[to]) : longer[i] = delivered[to][i]
       /\ longer[Len(delivered[to]) + 1] = first.frame
       /\ Len(delivered[to]) \in Nat
       /\ DOMAIN longer = 1 .. Len(delivered[to]) + 1 /\ DOMAIN delivered[to] = 1 .. Len(delivered[to])
  BY <1>8, <1>9, AppendProperties, LenProperties
<1>11. CASE registered[to]
  <2>1. /\ sends' \in [Tasks -> Seq(Output)]
        /\ \A u \in Tasks : sends'[u] = IF u = t THEN rest ELSE sends[u]
    BY <1>1, <1>3, <1>4, <1>11
  <2>2. /\ delivered' \in [Players -> Seq(Nat)]
        /\ \A p \in Players : delivered'[p] = IF p = to THEN longer ELSE delivered[p]
    BY <1>1, <1>3, <1>7, <1>10, <1>11
  <2> HIDE DEF longer
  <2>3. DeliveryTypes'
    BY <1>1, <2>1, <2>2 DEF DeliveryInv, DeliveryTypes
  <2>4. ASSUME NEW u \in Tasks, NEW i \in DOMAIN sends'[u]
        PROVE  sends'[u][i] \in [to : Players, frame : 1 .. Made]
    <3>1. CASE u = t
      <4>1. i \in DOMAIN rest /\ sends'[u][i] = rest[i]
        BY <2>1, <2>4, <3>1
      <4> QED
        BY <1>3, <1>6, <4>1
    <3>2. CASE u # t
      BY <1>3, <2>1, <2>4, <3>2
    <3> QED
      BY <3>1, <3>2
  <2>5. ASSUME NEW p \in Players, NEW i \in DOMAIN delivered'[p]
        PROVE  delivered'[p][i] \in 1 .. Made
    <3>1. CASE p = to
      <4>1. i \in 1 .. Len(delivered[to]) + 1 /\ delivered'[p][i] = longer[i]
        BY <1>10, <2>2, <2>5, <3>1
      <4>2. i \in 1 .. Len(delivered[to]) \/ i = Len(delivered[to]) + 1
        BY <1>10, <4>1
      <4> QED
        BY <1>3, <1>7, <1>10, <4>1, <4>2
    <3>2. CASE p # to
      BY <1>3, <2>2, <2>5, <3>2
    <3> QED
      BY <3>1, <3>2
  <2>6. DeliveryTypeOK'
    BY <1>1, <1>2, <2>4, <2>5 DEF DeliveryInv, DeliveryTypeOK
  <2>7. ASSUME NEW p \in Players, NEW k \in 1 .. Made, IsDelivered(p, k) \/ IsSent(p, k)
        PROVE  IsDelivered(p, k)' \/ IsSent(p, k)'
    <3>1. ASSUME IsDelivered(p, k) PROVE IsDelivered(p, k)'
      <4>1. PICK i \in DOMAIN delivered[p] : delivered[p][i] = k
        BY <3>1 DEF IsDelivered
      <4>2. i \in DOMAIN delivered'[p] /\ delivered'[p][i] = delivered[p][i]
        <5>1. CASE p = to
          <6>1. i \in 1 .. Len(delivered[to])
            BY <1>10, <4>1, <5>1
          <6>2. i \in 1 .. Len(delivered[to]) + 1
            BY <1>10, <6>1
          <6> QED
            BY <1>10, <2>2, <5>1, <6>1, <6>2
        <5>2. CASE p # to
          BY <2>2, <4>1, <5>2
        <5> QED
          BY <5>1, <5>2
      <4> QED
        BY <4>1, <4>2 DEF IsDelivered
    <3>2. ASSUME IsSent(p, k) PROVE IsDelivered(p, k)' \/ IsSent(p, k)'
      <4>1. PICK u \in Tasks : \E i \in DOMAIN sends[u] : sends[u][i] = [to |-> p, frame |-> k]
        BY <3>2 DEF IsSent
      <4>2. PICK i \in DOMAIN sends[u] : sends[u][i] = [to |-> p, frame |-> k]
        BY <4>1
      <4>3. CASE u = t /\ i = 1
        <5>1. first = [to |-> p, frame |-> k]
          BY <1>4, <4>2, <4>3
        <5>2. to = p /\ first.frame = k
          BY <5>1 DEF to
        <5>3. Len(delivered[to]) + 1 \in DOMAIN delivered'[p] /\ delivered'[p][Len(delivered[to]) + 1] = k
          BY <1>10, <2>2, <5>2
        <5> QED
          BY <5>3 DEF IsDelivered
      <4>4. CASE u = t /\ i # 1
        <5>1. i - 1 \in DOMAIN rest /\ (i - 1) + 1 = i
          BY <1>4, <1>5, <4>2, <4>4
        <5>2. sends'[t] = rest /\ rest[i - 1] = sends[t][i]
          BY <1>6, <2>1, <5>1
        <5> QED
          BY <4>2, <4>4, <5>1, <5>2 DEF IsSent
      <4>5. CASE u # t
        <5>1. sends'[u] = sends[u]
          BY <2>1, <4>5
        <5> QED
          BY <4>2, <5>1 DEF IsSent
      <4> QED
        BY <4>3, <4>4, <4>5
    <3> QED
      BY <2>7, <3>1, <3>2
  <2>8. NoneLost'
    BY <1>1, <1>2, <2>7 DEF DeliveryInv, NoneLost
  <2>9. ASSUME NobodyDropped PROVE \E v \in Players : \E j \in 0 .. Len(Delay) : Sending(v, j)'
    <3>1. PICK v \in Players, j \in 0 .. Len(Delay) : Sending(v, j)
      BY <2>9 DEF DeliveryInv, OneSends
    <3> DEFINE N == Len(Delay)
    <3>2. N \in Nat \ {0} /\ Players = 1 .. N /\ j \in 0 .. N
      BY SlotsAre
    <3>3. t = v
      BY <1>1, <3>1 DEF Sending
    <3>4. sends[t] = [i \in 1 .. N - j |-> [to |-> j + i, frame |-> Made]]
      BY <3>1, <3>3 DEF Sending
    <3> HIDE DEF N
    <3>5. j < N /\ Len(sends[t]) = N - j
      <4>1. DOMAIN sends[t] = 1 .. N - j
        BY <3>4
      <4>2. 1 \in 1 .. N - j
        BY <1>6, <4>1, Zenon
      <4>3. j < N /\ N - j \in Nat
        BY <3>2, <4>2
      <4>4. Len(sends[t]) = N - j
        BY <1>3, <4>1, <4>3, LenProperties
      <4> QED
        BY <4>3, <4>4
    <3>6. first = [to |-> j + 1, frame |-> Made]
      <4>1. 1 \in 1 .. N - j
        BY <3>2, <3>5
      <4> QED
        BY <1>4, <3>4, <4>1
    <3>7. to = j + 1 /\ first.frame = Made
      BY <3>6 DEF to
    <3>8. j + 1 \in 0 .. N
      BY <3>2, <3>5
    <3>9. Made > 0 /\ Len(contributed[t]) = Made
      BY <3>1, <3>3, <3>5 DEF Sending, N
    <3>10. \A u \in Tasks : u # t => sends'[u] = <<>>
      BY <2>1, <3>1, <3>3 DEF Sending
    <3>11. sends'[t] = [i \in 1 .. N - (j + 1) |-> [to |-> (j + 1) + i, frame |-> Made']]
      <4>1. Len(rest) = N - (j + 1) /\ rest \in [1 .. N - (j + 1) -> Output]
        BY <1>4, <3>2, <3>5
      <4>2. ASSUME NEW i \in 1 .. N - (j + 1)
            PROVE  rest[i] = [to |-> (j + 1) + i, frame |-> Made']
        <5>1. i + 1 \in 1 .. N - j /\ j + (i + 1) = (j + 1) + i
          BY <3>2
        <5>2. rest[i] = sends[t][i + 1]
          BY <1>4, <4>1
        <5>3. sends[t][i + 1] = [to |-> j + (i + 1), frame |-> Made]
          BY <3>4, <5>1
        <5> QED
          BY <1>2, <5>1, <5>2, <5>3
      <4>3. rest = [i \in 1 .. N - (j + 1) |-> rest[i]]
        BY <4>1
      <4> QED
        BY <2>1, <4>2, <4>3
    <3>12. ASSUME NEW p \in Players
           PROVE  delivered'[p] = [k \in 1 .. (IF p <= j + 1 THEN Made' ELSE Made' - 1) |-> k]
      <4>1. delivered[p] = [k \in 1 .. (IF p <= j THEN Made ELSE Made - 1) |-> k]
        BY <3>1 DEF Sending
      <4>2. CASE p = j + 1
        <5>1. ~ (p <= j) /\ p <= j + 1
          BY <3>2, <4>2
        <5>2. delivered[p] = [k \in 1 .. Made - 1 |-> k] /\ Made - 1 \in Nat
          BY <1>8, <3>9, <4>1, <5>1
        <5>3. delivered[p] \in Seq(Nat) /\ DOMAIN delivered[p] = 1 .. Made - 1
          BY <1>3, <5>2
        <5>4. Len(delivered[p]) = Made - 1
          BY <5>2, <5>3, LenProperties
        <5>5. (Made - 1) + 1 = Made
          BY <1>8
        <5>6. DOMAIN longer = 1 .. Made /\ longer[Made] = Made
          BY <1>10, <3>7, <4>2, <5>4, <5>5
        <5>7. ASSUME NEW k \in 1 .. Made PROVE longer[k] = k
          <6>1. CASE k \in 1 .. Made - 1
            BY <1>10, <3>7, <4>2, <5>2, <5>4, <6>1
          <6>2. CASE k \notin 1 .. Made - 1
            <7>1. k = Made
              BY <1>8, <3>9, <6>2
            <7> QED
              BY <5>6, <7>1
          <6> QED
            BY <6>1, <6>2
        <5>8. longer = [k \in 1 .. Made |-> longer[k]]
          BY <1>10, <5>6, LenProperties
        <5> QED
          BY <1>2, <2>2, <3>7, <4>2, <5>1, <5>7, <5>8
      <4>3. CASE p # j + 1
        <5>1. p <= j + 1 <=> p <= j
          BY <3>2, <4>3
        <5> QED
          BY <1>2, <2>2, <3>7, <4>1, <4>3, <5>1
      <4> QED
        BY <4>2, <4>3
    <3>13. Sending(t, j + 1)'
      BY <1>2, <3>9, <3>10, <3>11, <3>12 DEF Sending, N
    <3> QED
      BY <3>3, <3>8, <3>13 DEF N
  <2>10. OneSends' /\ DropsAreOfDropped'
    BY <1>1, <1>2, <2>9 DEF DeliveryInv, OneSends, DropsAreOfDropped, NobodyDropped
  <2> QED
    BY <1>2, <2>3, <2>6, <2>8, <2>10 DEF DeliveryInv
<1>12. CASE ~ registered[to]
  <2>1. /\ sends' \in [Tasks -> Seq(Output)] /\ delivered' = delivered
        /\ \A u \in Tasks : sends'[u] = IF u = t THEN <<>> ELSE sends[u]
    <3>1. <<>> \in Seq(Output)
      OBVIOUS
    <3> QED
      BY <1>1, <1>3, <1>12, <3>1
  <2>2. DeliveryTypes'
    BY <1>1, <2>1 DEF DeliveryInv, DeliveryTypes
  <2>3. ASSUME NEW u \in Tasks, NEW i \in DOMAIN sends'[u]
        PROVE  sends'[u][i] \in [to : Players, frame : 1 .. Made]
    <3>1. u # t
      BY <2>1, <2>3
    <3> QED
      BY <1>3, <2>1, <2>3, <3>1
  <2>4. DeliveryTypeOK'
    BY <1>1, <1>2, <2>1, <2>3 DEF DeliveryInv, DeliveryTypeOK
  <2>5. ~ NobodyDropped
    BY <1>7, <1>12 DEF DeliveryInv, DeliveryTypeOK, NobodyDropped
  <2>6. OneSends' /\ DropsAreOfDropped'
    BY <1>2, <2>5 DEF OneSends, DropsAreOfDropped, NobodyDropped
  <2>7. NoneLost'
    BY <1>1, <1>7, <1>12 DEF NoneLost
  <2> QED
    BY <1>2, <2>2, <2>4, <2>6, <2>7 DEF DeliveryInv
<1> QED
  BY <1>11, <1>12

LEMMA DeliveryStep ==
  ASSUME OneFrameAPacket, DeliveryInv, [DeliveryNext]_delivery
  PROVE  DeliveryInv'
<1>1. ASSUME NEW p \in Players, NEW input \in Packets, HandleInput(p, input) PROVE DeliveryInv'
  BY <1>1, InputKeeps
<1>2. ASSUME NEW p \in Players, DropGame(p) PROVE DeliveryInv'
  <2>1. p \in Tasks
    BY SlotsAre
  <2> QED
    BY <1>2, <2>1, DropKeeps DEF DropGame
<1>3. ASSUME NEW t \in Tasks, NEW p \in Players, Leave(t, p) PROVE DeliveryInv'
  BY <1>3, DropKeeps DEF Leave
<1>4. ASSUME NEW p \in Players, QuitGame(p) \/ Reap(p) PROVE DeliveryInv'
  <2>1. p \in Tasks /\ Cleanup \in Tasks
    BY DEF Tasks
  <2> QED
    BY <1>3, <1>4, <2>1 DEF QuitGame, Reap
<1>5. ASSUME NEW p \in Players, NEW t \in Players, KickUser(t, p) PROVE DeliveryInv'
  <2>1. t \in Tasks
    BY DEF Tasks
  <2> QED
    BY <1>3, <1>5, <2>1 DEF KickUser
<1>6. ASSUME NEW p \in Players, NEW t \in Tasks, RemoveClient(t, p) PROVE DeliveryInv'
  BY <1>6, RemoveKeeps
<1>7. ASSUME NEW t \in Tasks, SetIdle(t) \/ SendPacket(t) PROVE DeliveryInv'
  BY <1>7, IdleKeeps, SendKeeps
<1>8. CASE UNCHANGED delivery
  <2>1. Inv' /\ Made' = Made /\ dropped_players' = dropped_players /\ contributed' = contributed
    BY <1>8, CombinerRests DEF delivery, DeliveryInv
  <2>2. /\ sends' = sends /\ dropping' = dropping /\ in_game' = in_game
        /\ registered' = registered /\ delivered' = delivered
    BY <1>8 DEF delivery, tasks, members
  <2>3. DeliveryTypes' /\ DeliveryTypeOK'
    BY <2>1, <2>2 DEF DeliveryInv, DeliveryTypes, DeliveryTypeOK
  <2>a. ASSUME NEW t \in Players, NEW j \in 0 .. Len(Delay), Sending(t, j) PROVE Sending(t, j)'
    BY <2>1, <2>2, <2>a DEF Sending
  <2>b. NobodyDropped' <=> NobodyDropped
    BY <2>1 DEF NobodyDropped
  <2>4. OneSends' /\ DropsAreOfDropped'
    BY <2>2, <2>a, <2>b DEF DeliveryInv, OneSends, DropsAreOfDropped
  <2>5. NoneLost'
    BY <2>1, <2>2 DEF DeliveryInv, NoneLost, IsDelivered, IsSent
  <2> QED
    BY <2>1, <2>3, <2>4, <2>5 DEF DeliveryInv
<1> QED
  BY <1>1, <1>2, <1>4, <1>5, <1>6, <1>7, <1>8 DEF DeliveryNext

LEMMA AlwaysDeliveryInv ==
  ASSUME OneFrameAPacket
  PROVE  DeliverySpec => []DeliveryInv
<1>1. DeliveryInit => DeliveryInv
  BY InitDelivery
<1>2. DeliveryInv /\ [DeliveryNext]_delivery => DeliveryInv'
  BY DeliveryStep
<1> QED
  BY <1>1, <1>2, PTL DEF DeliverySpec

-----------------------------------------------------------------------------
\* Whoever is in the game is a client of the server, whoever has left it has dropped, and
\* nobody is sent, or about to be sent, a frame that was not made.
THEOREM DeliveryTypesHold ==
  ASSUME OneFrameAPacket
  PROVE  DeliverySpec => []DeliveryTypeOK
<1>1. DeliveryInv => DeliveryTypeOK
  BY DEF DeliveryInv
<1> QED
  BY <1>1, AlwaysDeliveryInv, PTL

\* Frames are sent after the game's lock is released, each by the task of whoever completed
\* it, and yet as long as nobody has dropped every player is sent all of them in order and
\* none twice: there is never more than one frame under way, because the next needs an
\* input of a player whose task is still sending this one.
THEOREM FramesComeInOrder ==
  ASSUME OneFrameAPacket
  PROVE  DeliverySpec => []InOrderUntilADrop
<1>1. ASSUME DeliveryInv PROVE InOrderUntilADrop
  <2> SUFFICES ASSUME NobodyDropped, NEW p \in Players
               PROVE  delivered[p] = [i \in DOMAIN delivered[p] |-> i]
    BY DEF InOrderUntilADrop, NobodyDropped
  <2>1. PICK t \in Players, j \in 0 .. Len(Delay) : Sending(t, j)
    BY <1>1 DEF DeliveryInv, OneSends
  <2> QED
    BY <2>1 DEF Sending
<1> QED
  BY <1>1, AlwaysDeliveryInv, PTL

\* As long as nobody has left the server, nobody in the game loses a frame, whoever drops,
\* quits or is kicked, and in whatever order the tasks send: every frame made is with him
\* or on its way.
THEOREM NoFrameIsLost ==
  ASSUME OneFrameAPacket
  PROVE  DeliverySpec => []NothingLostWhileAllAreHere
<1>1. ASSUME DeliveryInv PROVE NothingLostWhileAllAreHere
  <2> SUFFICES ASSUME \A p \in Players : registered[p], NEW p \in Players, in_game[p],
                      NEW k \in Lost(p)
               PROVE  FALSE
    BY DEF NothingLostWhileAllAreHere
  <2>1. k \in 1 .. Made
    BY DEF Lost
  <2>2. IsDelivered(p, k) \/ IsSent(p, k)
    BY <1>1, <2>1 DEF DeliveryInv, NoneLost
  <2> QED
    BY <2>2 DEF Lost, IsDelivered, IsSent
<1> QED
  BY <1>1, AlwaysDeliveryInv, PTL

-----------------------------------------------------------------------------
(***************************************************************************)
(* What a call adds, for the layers above (module GamePlayProofs).         *)
(***************************************************************************)
\* The rows handed out stay as they are, and others come after them.
RowsAdded ==
  \A q \in Players :
    /\ sent[q] \in Seq(Frame) /\ sent'[q] \in Seq(Frame)
    /\ Len(sent[q]) \in Nat /\ Len(sent'[q]) \in Nat /\ Len(sent[q]) <= Len(sent'[q])
    /\ \A i \in 1 .. Len(sent[q]) : sent'[q][i] = sent[q][i]

LEMMA DrainAdds ==
  ASSUME OneFrameAPacket, Inv, NEW STATE queue, queue \in [Players -> Seq(Chunk)],
         \A p \in Players : Len(queue[p]) <= MaxFrames,
         game_data_size' \in Nat, Drain(queue, dropped_players', game_data_size')
  PROVE  RowsAdded
<1> DEFINE n == Rounds(queue, dropped_players')
           rows == [k \in 1 .. n |-> Row(queue, game_data_size', k)]
<1>1. n \in Nat
  <2>1. \A p \in Players : Len(queue[p]) \in 0 .. MaxFrames
    <3>1. \A p \in Players : queue[p] \in Seq(Chunk) /\ Len(queue[p]) \in Nat
      OBVIOUS
    <3> QED
      BY <3>1, SyncAssumption
  <2>2. n \in 0 .. MaxFrames
    BY <2>1, RoundsDefined DEF IsRounds
  <2> QED
    BY <2>2, SyncAssumption
<1>2. rows \in Seq(Frame)
  <2>1. \A k \in 1 .. n : Row(queue, game_data_size', k) \in Frame
    BY <1>1, RowType
  <2> HIDE DEF n
  <2> QED
    BY <1>1, <2>1
<1> HIDE DEF rows
<1> DEFINE buffered == [p \in Players |-> sender_buffer[p] \o rows]
           leaving == [p \in Players |-> WholeRows(buffered[p], Delay[p])]
<1>3. sent' = [p \in Players |-> sent[p] \o SubSeq(buffered[p], 1, leaving[p])]
  BY DEF Drain, rows
<1>4. ASSUME NEW q \in Players
      PROVE  /\ sent[q] \in Seq(Frame) /\ sent'[q] \in Seq(Frame)
             /\ Len(sent[q]) \in Nat /\ Len(sent'[q]) \in Nat /\ Len(sent[q]) <= Len(sent'[q])
             /\ \A i \in 1 .. Len(sent[q]) : sent'[q][i] = sent[q][i]
  <2>1. sent[q] \in Seq(Frame) /\ sender_buffer[q] \in Seq(Frame) /\ Len(sent[q]) \in Nat
    BY DEF Inv, TypeOK
  <2> DEFINE b == sender_buffer[q] \o rows
             w == WholeRows(b, Delay[q])
  <2>2. b \in Seq(Frame) /\ Len(b) \in Nat
    BY <1>2, <2>1, ConcatProperties
  <2>3. Delay[q] \in Nat \ {0}
    BY SyncAssumption
  <2>4. w \in 0 .. Len(b)
    <3>1. w \in Nat /\ w <= Len(b)
      BY <2>2, <2>3, WholeIsWhole DEF WholeRows
    <3> QED
      BY <2>2, <3>1
  <2>5. sent'[q] = sent[q] \o SubSeq(b, 1, w)
    BY <1>3
  <2> HIDE DEF b, w
  <2>6. SubSeq(b, 1, w) \in Seq(Frame)
    BY <2>2, <2>4, Split
  <2> DEFINE x == SubSeq(b, 1, w)
  <2>7. x \in Seq(Frame) /\ sent'[q] = sent[q] \o x
    BY <2>5, <2>6
  <2> HIDE DEF x
  <2>8. /\ sent[q] \o x \in Seq(Frame) /\ Len(sent[q] \o x) = Len(sent[q]) + Len(x)
        /\ \A i \in 1 .. Len(sent[q]) + Len(x) :
             (sent[q] \o x)[i] = IF i <= Len(sent[q]) THEN sent[q][i] ELSE x[i - Len(sent[q])]
    BY <2>1, <2>7, ConcatProperties
  <2>9. Len(x) \in Nat
    BY <2>7
  <2> QED
    BY <2>1, <2>7, <2>8, <2>9
<1> QED
  BY <1>4 DEF RowsAdded

\* With one frame a packet an input is a chunk.
LEMMA WholeChunk ==
  ASSUME NEW input \in Packets, input # <<>>
  PROVE  Chunks(input, 1) = <<input>>
<1> DEFINE len == Len(input)
<1>1. input \in Seq(Byte) /\ len \in Nat \ {0}
  BY SyncAssumption, EmptySeq
<1>2. (len + len - 1) \div len = 1
  <2>1. len * 1 + (len - 1) = len + len - 1 /\ len - 1 \in Nat /\ len - 1 < len
    BY <1>1
  <2> HIDE DEF len
  <2>2. (len * 1 + (len - 1)) \div len = 1
    BY <1>1, <2>1, Division
  <2> QED
    BY <2>1, <2>2
<1>3. len \div 1 = len
  BY <1>1
<1>4. Chunks(input, 1) = [i \in 1 .. (len + len - 1) \div len |->
           SubSeq(input, (i - 1) * len + 1, IF i * len <= len THEN i * len ELSE len)]
  BY <1>1, <1>3 DEF Chunks
<1> DEFINE cut(i) == SubSeq(input, (i - 1) * len + 1, IF i * len <= len THEN i * len ELSE len)
<1>5. cut(1) = input
  <2>1. (1 - 1) * len + 1 = 1 /\ 1 * len = len
    BY <1>1
  <2>2. cut(1) = SubSeq(input, 1, len)
    BY <1>1, <2>1
  <2>3. SubSeq(input, 1, len) = input
    BY <1>1
  <2> QED
    BY <2>2, <2>3
<1>6. Chunks(input, 1) = [i \in 1 .. 1 |-> cut(i)]
  BY <1>2, <1>4
<1> HIDE DEF cut
<1>7. \A i \in 1 .. 1 : i = 1
  OBVIOUS
<1>8. Chunks(input, 1) = [i \in 1 .. 1 |-> input]
  BY <1>5, <1>6, <1>7
<1> QED
  BY <1>8

LEMMA InputAdds ==
  ASSUME OneFrameAPacket, Inv, NEW p \in Players, NEW input \in Packets, input # <<>>,
         process_client_input(p, input)
  PROVE  /\ Inv' /\ RowsAdded /\ dropped_players' = dropped_players
         /\ contributed' = IF dropped_players[p] THEN contributed
                           ELSE [contributed EXCEPT ![p] = Append(@, input)]
<1>1. Inv' /\ dropped_players' = dropped_players
  BY InputGrows
<1>2. /\ contributed \in [Players -> Seq(Chunk)] /\ player_input \in [Players -> Seq(Chunk)]
      /\ sent \in [Players -> Seq(Frame)] /\ dropped_players \in [Players -> BOOLEAN]
  BY DEF Inv, TypeOK
<1>3. CASE SkipDropped(p)
  <2>1. UNCHANGED sent /\ UNCHANGED contributed /\ dropped_players[p]
    BY <1>3 DEF SkipDropped, vars
  <2>2. RowsAdded
    BY <1>2, <2>1 DEF RowsAdded
  <2> QED
    BY <1>1, <2>1, <2>2
<1>4. CASE Queue(p, Chunks(input, Delay[p]))
  <2>1. Delay[p] = 1
    BY SlotsAre DEF OneFrameAPacket
  <2>2. Chunks(input, Delay[p]) = <<input>> /\ <<input>> \in Seq(Chunk) /\ Len(<<input>>) = 1
    <3>1. Chunks(input, 1) = <<input>> /\ Chunks(input, 1) \in Seq(Chunk)
      BY WholeChunk, OneChunk
    <3> QED
      BY <2>1, <3>1
  <2> DEFINE queue == [player_input EXCEPT ![p] = @ \o <<input>>]
  <2>3. /\ ~ dropped_players[p] /\ contributed' = [contributed EXCEPT ![p] = @ \o <<input>>]
        /\ Drain(queue, dropped_players, game_data_size')
    BY <1>4, <2>2 DEF Queue
  <2>4. contributed[p] \o <<input>> = Append(contributed[p], input)
    <3>1. contributed[p] \in Seq(Chunk) /\ input \in Chunk
      BY <1>2, SyncAssumption DEF Chunk
    <3> QED
      BY <3>1, AppendIsConcat
  <2>5. contributed' = [contributed EXCEPT ![p] = Append(@, input)]
    BY <2>3, <2>4
  <2>6. queue \in [Players -> Seq(Chunk)]
    <3>1. player_input[p] \o <<input>> \in Seq(Chunk)
      BY <1>2, <2>2, ConcatProperties
    <3> QED
      BY <1>2, <3>1
  <2>7. ASSUME NEW q \in Players
        PROVE  Len(queue[q]) <= MaxFrames
    <3>1. /\ player_input[q] = SubSeq(contributed[q], Len(Game!Log) + 1, Len(contributed[q]))
          /\ Len(contributed[q]) \in Nat /\ Len(contributed[q]) <= MaxFrames
          /\ player_input[q] \in Seq(Chunk)
      BY <1>2 DEF Inv, TypeOK, Accounted
    <3>2. Len(Game!Log) \in Nat
      BY MadeIs DEF Made
    <3>3. Len(player_input[q]) <= Len(contributed[q]) /\ Len(player_input[q]) \in Nat
      <4> DEFINE l == Len(Game!Log)
      <4>1. l \in Nat /\ contributed[q] \in Seq(Chunk)
        BY <1>2, <3>2
      <4> HIDE DEF l
      <4>2. Len(SubSeq(contributed[q], l + 1, Len(contributed[q])))
              = IF l <= Len(contributed[q]) THEN Len(contributed[q]) - l ELSE 0
        BY <4>1, Rest
      <4>3. player_input[q] = SubSeq(contributed[q], l + 1, Len(contributed[q]))
        BY <3>1 DEF l
      <4> QED
        BY <3>1, <4>1, <4>2, <4>3
    <3>4. CASE q # p
      BY <1>2, <3>1, <3>3, <3>4, SyncAssumption
    <3>5. CASE q = p
      <4>1. queue[q] = player_input[q] \o <<input>>
        BY <1>2, <3>5
      <4>2. Len(player_input[q] \o <<input>>) = Len(player_input[q]) + 1
        BY <2>2, <3>1, ConcatProperties
      <4>3. Len(contributed[p]) + Len(<<input>>) <= MaxFrames
        BY <1>4, <2>2 DEF Queue
      <4> QED
        BY <2>2, <3>1, <3>3, <3>5, <4>1, <4>2, <4>3, SyncAssumption
    <3> QED
      BY <3>4, <3>5
  <2>8. game_data_size' \in Nat
    BY <1>1 DEF Inv, TypeOK
  <2> HIDE DEF queue
  <2>9. RowsAdded
    BY <1>1, <2>3, <2>6, <2>7, <2>8, DrainAdds
  <2> QED
    BY <1>1, <2>3, <2>5, <2>9
<1> QED
  BY <1>3, <1>4 DEF process_client_input

LEMMA DropAdds ==
  ASSUME OneFrameAPacket, Inv, NEW p \in Players, mark_player_dropped(p)
  PROVE  /\ Inv' /\ RowsAdded /\ contributed' = contributed
         /\ dropped_players' = [dropped_players EXCEPT ![p] = TRUE]
<1>1. Inv'
  BY DropKeepsInv
<1>2. /\ contributed' = contributed /\ game_data_size' = game_data_size
      /\ dropped_players' = [dropped_players EXCEPT ![p] = TRUE]
      /\ Drain(player_input, dropped_players', game_data_size')
  BY DEF mark_player_dropped
<1>3. player_input \in [Players -> Seq(Chunk)] /\ game_data_size' \in Nat
  BY <1>2 DEF Inv, TypeOK
<1>4. ASSUME NEW q \in Players
      PROVE  Len(player_input[q]) <= MaxFrames
  <2>1. /\ player_input[q] = SubSeq(contributed[q], Len(Game!Log) + 1, Len(contributed[q]))
        /\ Len(contributed[q]) \in Nat /\ Len(contributed[q]) <= MaxFrames
        /\ contributed[q] \in Seq(Chunk)
    BY DEF Inv, TypeOK, Accounted
  <2> DEFINE l == Len(Game!Log)
  <2>2. l \in Nat /\ player_input[q] = SubSeq(contributed[q], l + 1, Len(contributed[q]))
    BY <2>1, MadeIs DEF Made
  <2> HIDE DEF l
  <2>3. Len(SubSeq(contributed[q], l + 1, Len(contributed[q])))
          = IF l <= Len(contributed[q]) THEN Len(contributed[q]) - l ELSE 0
    BY <2>1, <2>2, Rest
  <2> QED
    BY <2>1, <2>2, <2>3, SyncAssumption
<1>5. RowsAdded
  BY <1>2, <1>3, <1>4, DrainAdds
<1> QED
  BY <1>1, <1>2, <1>5

\* Everybody was handed the log, and it ends where somebody who plays has contributed no more.
LEMMA HandedOut ==
  ASSUME OneFrameAPacket, Inv
  PROVE  \E n \in Nat :
           /\ \A q \in Players : /\ Len(sent[q]) = n /\ Len(contributed[q]) \in Nat
                                 /\ ~ dropped_players[q] => n <= Len(contributed[q])
           /\ \A p, q \in Players : sent[p] = sent[q]
           /\ \A p \in Players : ~ dropped_players[p] =>
                \E q \in Players : ~ dropped_players[q] /\ Len(contributed[q]) = n
<1>1. /\ Made \in Nat /\ IsRounds(Made, contributed, dropped_players)
      /\ \A q \in Players : Len(contributed[q]) \in Nat /\ sent[q] = Game!Log
  BY MadeIs
<1>2. \A q \in Players : Len(sent[q]) = Made
  BY <1>1, SlotsAre DEF Made
<1>3. \A q \in Players : ~ dropped_players[q] => Made <= Len(contributed[q])
  BY LiveContributed, <1>1, <1>2 DEF Made
<1>4. ~ RoundReady(contributed, dropped_players, Made + 1)
  BY <1>1 DEF IsRounds
<1>5. ASSUME NEW p \in Players, ~ dropped_players[p]
      PROVE  \E q \in Players : ~ dropped_players[q] /\ Len(contributed[q]) = Made
  <2>1. CASE \E q \in Players : ~ (Len(contributed[q]) >= Made + 1 \/ dropped_players[q])
    <3>1. PICK q \in Players : ~ (Len(contributed[q]) >= Made + 1) /\ ~ dropped_players[q]
      BY <2>1
    <3> QED
      BY <1>1, <1>3, <3>1
  <2>2. CASE ~ \E q \in Players : Len(contributed[q]) >= Made + 1
    BY <1>1, <1>3, <1>5, <2>2
  <2> QED
    BY <1>4, <2>1, <2>2 DEF RoundReady
<1> QED
  BY <1>1, <1>2, <1>3, <1>5

================================================================================
